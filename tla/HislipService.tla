---------------------------- MODULE HislipService ----------------------------
(***************************************************************************)
(* The service as its users may think of it.  A call of hs_connect begins, *)
(* is given the lowest session no client has, and opens; or fails.  It     *)
(* fails for one of two reasons: every session has been given away, or the *)
(* server is down; and one thing only takes the server down, a client that *)
(* connects to the default subaddress and has just been given a session.   *)
(* A session is never given back: the one of a client that has left, or    *)
(* has failed, is not given to another.                                    *)
(***************************************************************************)
EXTENDS Integers

CONSTANTS
  Clients,     \* client processes
  MaxSessions  \* MAX_SESSIONS

VARIABLES
  server,   \* "setup", "running" or "crashed"
  default,  \* constant: the clients that open the default subaddress
  call,     \* how far each client has come
  session   \* the session of each client, in a set of one or none

vars == <<server, default, call, session>>

Handle == 0 .. MaxSessions - 1
Used == UNION {session[p] : p \in Clients}

Init ==
  /\ server = "setup"
  /\ default \in SUBSET Clients
  /\ call = [p \in Clients |-> "none"]
  /\ session = [p \in Clients |-> {}]

Run ==
  /\ server = "setup"
  /\ server' = "running"
  /\ UNCHANGED <<default, call, session>>

Becomes(p, from, to) ==
  /\ call[p] = from
  /\ call' = [call EXCEPT ![p] = to]

Connect(p) ==
  /\ server = "running"
  /\ Becomes(p, "none", "connecting")
  /\ UNCHANGED <<server, default, session>>

Grant(p) ==
  /\ server = "running"
  /\ call[p] = "connecting" /\ session[p] = {}
  /\ \E h \in Handle \ Used :
       /\ 0 .. h - 1 \subseteq Used
       /\ session' = [session EXCEPT ![p] = {h}]
  /\ UNCHANGED <<server, default, call>>

Open(p) ==
  /\ Becomes(p, "connecting", "open")
  /\ session[p] # {}
  /\ UNCHANGED <<server, default, session>>

Fail(p) ==
  /\ Becomes(p, "connecting", "failed")
  /\ \/ server = "crashed"
     \/ session[p] = {} /\ Used = Handle
  /\ UNCHANGED <<server, default, session>>

Disconnect(p) ==
  /\ Becomes(p, "open", "closed")
  /\ UNCHANGED <<server, default, session>>

GoDown(p) ==
  /\ server = "running"
  /\ p \in default /\ call[p] = "connecting" /\ session[p] # {}
  /\ server' = "crashed"
  /\ UNCHANGED <<default, call, session>>

Next ==
  \/ Run
  \/ \E p \in Clients :
       Connect(p) \/ Grant(p) \/ Open(p) \/ Fail(p) \/ Disconnect(p) \/ GoDown(p)

Spec == Init /\ [][Next]_vars
=============================================================================
