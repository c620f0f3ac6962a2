---------------------------- MODULE SessionOwners ----------------------------
(***************************************************************************)
(* The session table as its users may think of it: at one instant a call   *)
(* of session_new gives its caller the lowest session nobody uses, or,     *)
(* when all are used, nothing; at one instant a call of session_free takes *)
(* back a session its caller owns.  The three modules that have a session  *)
(* table are shown to agree on this: the table of src/session.c provides   *)
(* it (SessionTable), the threads of a server (ServerProcess) and of a     *)
(* client process (ClientCalls) keep to it.                                *)
(***************************************************************************)
EXTENDS Integers

CONSTANTS
  Owners,      \* who claims and frees sessions: threads, or connections
  MaxSessions  \* MAX_SESSIONS

VARIABLES
  used,   \* the sessions in use
  owned   \* those each owner has claimed and not freed

vars == <<used, owned>>

Handle == 0 .. MaxSessions - 1

\* The rest of the process may be using sessions of its own.
Init ==
  /\ used \in SUBSET Handle
  /\ owned = [o \in Owners |-> {}]

Claim(o) ==
  \E h \in Handle \ used :
    /\ 0 .. h - 1 \subseteq used
    /\ used' = used \cup {h}
    /\ owned' = [owned EXCEPT ![o] = @ \cup {h}]

Free(o) ==
  \E h \in owned[o] :
    /\ used' = used \ {h}
    /\ owned' = [owned EXCEPT ![o] = @ \ {h}]

Next == \E o \in Owners : Claim(o) \/ Free(o)

Spec == Init /\ [][Next]_vars
=============================================================================
