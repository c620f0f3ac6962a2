----------------------------- MODULE SessionPool -----------------------------
(***************************************************************************)
(* What src/session.c promises the threads that share it: session_new and  *)
(* session_free each take effect at one instant between the call and the   *)
(* return.  session_new claims the lowest free handle and fails only when  *)
(* no handle is free; session_free frees an allocated handle once and      *)
(* refuses every other argument.  SessionTable, the code's mutex-protected *)
(* scan, is shown to implement this specification.                         *)
(***************************************************************************)
EXTENDS Integers

CONSTANTS
  Threads,       \* the threads of the process that call the session API
  MaxSessions,   \* MAX_SESSIONS
  IdSpace        \* number of values of the uint16_t counter session_id

VARIABLES
  allocated,   \* session[i].allocated
  SessionID,   \* session[i].SessionID
  session_id,  \* the counter the next SessionID is taken from
  call,        \* what each thread is doing: "none", "new", "free", "done"
  arg,         \* the handle a call of session_free is about
  ret          \* what the finished call returns

vars == <<allocated, SessionID, session_id, call, arg, ret>>

Handle == 0 .. MaxSessions - 1

\* Any int can be passed to session_free: the two values just outside the
\* table stand for all invalid ones.
HandleArg == -1 .. MaxSessions

\* The handle claimed is the first free one in index order.
LowestFree(h) ==
  /\ h \in Handle
  /\ ~allocated[h]
  /\ \A j \in 0 .. h - 1 : allocated[j]

Init ==
  /\ allocated = [h \in Handle |-> FALSE]
  /\ SessionID = [h \in Handle |-> 0]
  /\ session_id = 0
  /\ call = [t \in Threads |-> "none"]
  /\ arg = [t \in Threads |-> -1]
  /\ ret = [t \in Threads |-> 0]

-----------------------------------------------------------------------------
CallNew(t) ==
  /\ call[t] = "none"
  /\ call' = [call EXCEPT ![t] = "new"]
  /\ UNCHANGED <<allocated, SessionID, session_id, arg, ret>>

Claim(t) ==
  /\ call[t] = "new"
  /\ \E h \in Handle :
       /\ LowestFree(h)
       /\ allocated' = [allocated EXCEPT ![h] = TRUE]
       /\ SessionID' = [SessionID EXCEPT ![h] = session_id]
       /\ ret' = [ret EXCEPT ![t] = h]
  /\ session_id' = (session_id + 1) % IdSpace
  /\ call' = [call EXCEPT ![t] = "done"]
  /\ UNCHANGED arg

RefuseNew(t) ==
  /\ call[t] = "new"
  /\ \A h \in Handle : allocated[h]
  /\ ret' = [ret EXCEPT ![t] = -1]
  /\ call' = [call EXCEPT ![t] = "done"]
  /\ UNCHANGED <<allocated, SessionID, session_id, arg>>

CallFree(t, h) ==
  /\ call[t] = "none"
  /\ call' = [call EXCEPT ![t] = "free"]
  /\ arg' = [arg EXCEPT ![t] = h]
  /\ UNCHANGED <<allocated, SessionID, session_id, ret>>

Free(t) ==
  /\ call[t] = "free"
  /\ arg[t] \in Handle
  /\ allocated[arg[t]]
  /\ allocated' = [allocated EXCEPT ![arg[t]] = FALSE]
  /\ ret' = [ret EXCEPT ![t] = 0]
  /\ call' = [call EXCEPT ![t] = "done"]
  /\ UNCHANGED <<SessionID, session_id, arg>>

RefuseFree(t) ==
  /\ call[t] = "free"
  /\ arg[t] \in Handle => ~allocated[arg[t]]
  /\ ret' = [ret EXCEPT ![t] = -1]
  /\ call' = [call EXCEPT ![t] = "done"]
  /\ UNCHANGED <<allocated, SessionID, session_id, arg>>

Return(t) ==
  /\ call[t] = "done"
  /\ call' = [call EXCEPT ![t] = "none"]
  /\ arg' = [arg EXCEPT ![t] = -1]
  /\ ret' = [ret EXCEPT ![t] = 0]
  /\ UNCHANGED <<allocated, SessionID, session_id>>

Next ==
  \E t \in Threads :
    \/ CallNew(t) \/ Claim(t) \/ RefuseNew(t)
    \/ \E h \in HandleArg : CallFree(t, h)
    \/ Free(t) \/ RefuseFree(t)
    \/ Return(t)

Spec == Init /\ [][Next]_vars
=============================================================================
