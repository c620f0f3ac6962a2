-------------------------- MODULE ConnectionService --------------------------
(***************************************************************************)
(* What tcp_server_start and hs_process promise to those who connect: a    *)
(* thread starts for a connection that has been accepted, reads what its   *)
(* client has sent, answers, and closes the connection after the client    *)
(* has hung up or been refused.  When connections come in order, that is   *)
(* when each thread starts before the next accept returns, it is the       *)
(* thread's own connection from beginning to end.  When they do not, it    *)
(* may be a later one, or one that is gone; the one it has may be closed   *)
(* by another thread that has the same; and a thread left without may find *)
(* itself with the next connection accepted, but never with an older one.  *)
(***************************************************************************)
EXTENDS Integers

CONSTANT MaxConns  \* bound: connections the clients ever make

VARIABLES
  orderly,   \* constant: each thread starts before the next accept returns
  running,   \* the server has not exited
  arrived,   \* connections made so far
  accepted,  \* connections accepted so far
  sent,      \* messages sent on each connection
  unread,    \* those that have not been read
  hungUp,    \* connections the client has closed
  open,      \* connections the server has open
  stage,     \* of each connection's thread: "none", "serving" or "done"
  at,        \* the connection it serves, or 0
  from       \* the one whose message it is handling, or 0

clients == <<arrived, sent, unread, hungUp>>
service == <<orderly, running, accepted, open, stage, at>>
vars == <<clients, service, from>>

Conn == 1 .. MaxConns
All(x) == [c \in Conn |-> x]

Init ==
  /\ orderly \in BOOLEAN
  /\ running = TRUE
  /\ arrived = 0 /\ accepted = 0
  /\ sent = All(0) /\ unread = All(0)
  /\ hungUp = {} /\ open = {}
  /\ stage = All("none")
  /\ at = All(0) /\ from = All(0)

Connect ==
  /\ arrived < MaxConns
  /\ arrived' = arrived + 1
  /\ UNCHANGED <<sent, unread, hungUp, service, from>>

Send(c) ==
  /\ c <= arrived /\ c \notin hungUp
  /\ sent' = [sent EXCEPT ![c] = @ + 1]
  /\ unread' = [unread EXCEPT ![c] = @ + 1]
  /\ UNCHANGED <<arrived, hungUp, service, from>>

HangUp(c) ==
  /\ c <= arrived
  /\ hungUp' = hungUp \cup {c}
  /\ UNCHANGED <<arrived, sent, unread, service, from>>

\* Threads that serve, and whose connection is gone.
Strays == {t \in Conn : stage[t] = "serving" /\ at[t] = 0}

Accept ==
  /\ accepted < arrived
  /\ accepted' = accepted + 1
  /\ open' = open \cup {accepted + 1}
  /\ \E found \in SUBSET Strays :
       at' = [t \in Conn |-> IF t \in found THEN accepted + 1 ELSE at[t]]
  /\ UNCHANGED <<clients, orderly, running, stage, from>>

Goto(t, here, there) ==
  /\ stage[t] = here
  /\ stage' = [stage EXCEPT ![t] = there]

Start(t) ==
  /\ Goto(t, "none", "serving")
  /\ \E c \in {0} \cup {d \in open : d >= t} :
       /\ orderly => c = t
       /\ at' = [at EXCEPT ![t] = c]
  /\ UNCHANGED <<clients, orderly, running, accepted, open, from>>

Read(t) ==
  /\ stage[t] = "serving" /\ at[t] # 0
  /\ unread[at[t]] > 0
  /\ unread' = [unread EXCEPT ![at[t]] = @ - 1]
  /\ from' = [from EXCEPT ![t] = at[t]]
  /\ UNCHANGED <<arrived, sent, hungUp, service>>

Answer(t) ==
  /\ stage[t] = "serving"
  /\ orderly => from[t] = at[t]
  /\ from' = [from EXCEPT ![t] = 0]
  /\ UNCHANGED <<clients, service>>

\* The client has left and been heard to the end, or has been refused over one of
\* its messages.
MayClose(c) ==
  \/ c \in hungUp /\ unread[c] = 0
  \/ unread[c] < sent[c]

Close(t) ==
  /\ Goto(t, "serving", "done")
  /\ orderly => at[t] = t /\ MayClose(t)
  /\ from[t] = 0
  /\ open' = open \ {at[t]}
  /\ at' = [u \in Conn |-> IF u = t \/ at[u] = at[t] THEN 0 ELSE at[u]]
  /\ UNCHANGED <<clients, orderly, running, accepted, from>>

Exit ==
  /\ running' = FALSE
  /\ open' = {} /\ at' = All(0)
  /\ UNCHANGED <<clients, orderly, accepted, stage, from>>

Next ==
  /\ running
  /\ \/ Connect \/ Accept \/ Exit
     \/ \E c \in Conn : Send(c) \/ HangUp(c)
     \/ \E t \in Conn : Start(t) \/ Read(t) \/ Answer(t) \/ Close(t)

Spec == Init /\ [][Next]_vars
=============================================================================
