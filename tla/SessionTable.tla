----------------------------- MODULE SessionTable -----------------------------
(***************************************************************************)
(* src/session.c: the table of sessions a process shares between all its   *)
(* threads (application threads in hs_connect and hs_disconnect, server    *)
(* connection threads in the Initialize handler).  session_new and         *)
(* session_free run under session_mutex; their steps are modelled one      *)
(* memory access at a time, so that the mutex is what makes them atomic.   *)
(*                                                                         *)
(* The fields that the owner of a session reads and writes outside the     *)
(* mutex (the sockets) belong to the client calls, module ClientCalls.     *)
(***************************************************************************)
EXTENDS Integers

CONSTANTS
  Threads,       \* the threads of the process
  NoThread,      \* session_mutex is not locked
  MaxSessions,   \* MAX_SESSIONS
  IdSpace        \* number of values of uint16_t session_id

ASSUME TableAssumption ==
  /\ MaxSessions \in Nat \ {0}
  /\ IdSpace \in Nat \ {0}
  /\ NoThread \notin Threads

VARIABLES
  allocated,      \* session[i].allocated
  SessionID,      \* session[i].SessionID
  session_id,     \* static uint16_t session_id
  session_mutex,  \* the thread that holds the mutex, or NoThread
  pc,             \* the next step of each thread
  i,              \* loop index of session_new
  arg,            \* the parameter of session_free
  ret,            \* the value the call returns
  held,           \* handles the application code on each thread still holds
  disciplined     \* constant: a thread frees only handles it was given, and once

vars == <<allocated, SessionID, session_id, session_mutex, pc, i, arg, ret, held,
          disciplined>>
table == <<allocated, SessionID, session_id>>
app == <<held, disciplined>>

Handle == 0 .. MaxSessions - 1
HandleArg == -1 .. MaxSessions

\* Program points inside the critical sections.
NewLocked == {"new_scan", "new_claim", "new_unlock"}
FreeLocked == {"free_check", "free_release", "free_unlock", "free_error"}
Locked == NewLocked \cup FreeLocked
Points == Locked \cup {"idle", "new_lock", "new_return", "free_lock", "free_return"}

\* session[] is zero-initialised static storage.
Init ==
  /\ allocated = [h \in Handle |-> FALSE]
  /\ SessionID = [h \in Handle |-> 0]
  /\ session_id = 0
  /\ session_mutex = NoThread
  /\ pc = [t \in Threads |-> "idle"]
  /\ i = [t \in Threads |-> 0]
  /\ arg = [t \in Threads |-> -1]
  /\ ret = [t \in Threads |-> 0]
  /\ held = [t \in Threads |-> {}]
  /\ disciplined \in BOOLEAN

Goto(t, from, to) ==
  /\ pc[t] = from
  /\ pc' = [pc EXCEPT ![t] = to]

\* Mutant: the mutex does not exclude.
LockNoWait(t) == session_mutex' = t

Lock(t) ==
  /\ session_mutex = NoThread
  /\ session_mutex' = t

Unlock(t) == session_mutex' = NoThread

-----------------------------------------------------------------------------
(* session_new *)

EnterNew(t) ==
  /\ Goto(t, "idle", "new_lock")
  /\ UNCHANGED <<table, session_mutex, i, arg, ret, app>>

LockNew(t) ==
  /\ Goto(t, "new_lock", "new_scan")
  /\ Lock(t)
  /\ i' = [i EXCEPT ![t] = 0]
  /\ UNCHANGED <<table, arg, ret, app>>

\* One test of the loop: an entry in use is passed over, a free one is going
\* to be claimed.
ScanEntry(t) ==
  /\ pc[t] = "new_scan"
  /\ i[t] < MaxSessions
  /\ \/ /\ allocated[i[t]]
        /\ i' = [i EXCEPT ![t] = i[t] + 1]
        /\ UNCHANGED pc
     \/ /\ ~allocated[i[t]]
        /\ Goto(t, "new_scan", "new_claim")
        /\ UNCHANGED i
  /\ UNCHANGED <<table, session_mutex, arg, ret, app>>

\* Mutant: the loop stops one entry short of the table's end.
ScanEndShort(t) ==
  /\ Goto(t, "new_scan", "new_unlock")
  /\ i[t] = MaxSessions - 1
  /\ ret' = [ret EXCEPT ![t] = -1]
  /\ UNCHANGED <<table, session_mutex, i, arg, app>>

ScanEnd(t) ==
  /\ Goto(t, "new_scan", "new_unlock")
  /\ i[t] = MaxSessions
  /\ ret' = [ret EXCEPT ![t] = -1]
  /\ UNCHANGED <<table, session_mutex, i, arg, app>>

\* Mutant: session_id does not wrap.
ClaimNoWrap(t) ==
  /\ Goto(t, "new_claim", "new_unlock")
  /\ allocated' = [allocated EXCEPT ![i[t]] = TRUE]
  /\ SessionID' = [SessionID EXCEPT ![i[t]] = session_id]
  /\ session_id' = session_id + 1
  /\ ret' = [ret EXCEPT ![t] = i[t]]
  /\ UNCHANGED <<session_mutex, i, arg, app>>

ClaimEntry(t) ==
  /\ Goto(t, "new_claim", "new_unlock")
  /\ allocated' = [allocated EXCEPT ![i[t]] = TRUE]
  /\ SessionID' = [SessionID EXCEPT ![i[t]] = session_id]
  /\ session_id' = (session_id + 1) % IdSpace
  /\ ret' = [ret EXCEPT ![t] = i[t]]
  /\ UNCHANGED <<session_mutex, i, arg, app>>

UnlockNew(t) ==
  /\ Goto(t, "new_unlock", "new_return")
  /\ Unlock(t)
  /\ UNCHANGED <<table, i, arg, ret, app>>

\* The locals of the call are gone.
LeaveCall(t) ==
  /\ i' = [i EXCEPT ![t] = 0]
  /\ arg' = [arg EXCEPT ![t] = -1]
  /\ ret' = [ret EXCEPT ![t] = 0]

\* The caller receives the handle, if there is one.
ReturnNew(t) ==
  /\ Goto(t, "new_return", "idle")
  /\ held' = [held EXCEPT ![t] = @ \cup ({ret[t]} \ {-1})]
  /\ LeaveCall(t)
  /\ UNCHANGED <<table, session_mutex, disciplined>>

-----------------------------------------------------------------------------
(* session_free *)

EnterFree(t, h) ==
  /\ disciplined => h \in held[t]
  /\ Goto(t, "idle", "free_lock")
  /\ arg' = [arg EXCEPT ![t] = h]
  /\ held' = [held EXCEPT ![t] = @ \ {h}]
  /\ UNCHANGED <<table, session_mutex, i, ret, disciplined>>

LockFree(t) ==
  /\ Goto(t, "free_lock", "free_check")
  /\ Lock(t)
  /\ UNCHANGED <<table, i, arg, ret, app>>

\* Mutant: the range check refuses the last entry.
ValidArgShort(t) == arg[t] \in 0 .. MaxSessions - 2

ValidArg(t) == arg[t] \in Handle

CheckFails(t) ==
  /\ Goto(t, "free_check", "free_error")
  /\ ValidArg(t) => ~allocated[arg[t]]
  /\ ret' = [ret EXCEPT ![t] = -1]
  /\ UNCHANGED <<table, session_mutex, i, arg, app>>

CheckPasses(t) ==
  /\ Goto(t, "free_check", "free_release")
  /\ ValidArg(t)
  /\ allocated[arg[t]]
  /\ UNCHANGED <<table, session_mutex, i, arg, ret, app>>

Release(t) ==
  /\ Goto(t, "free_release", "free_unlock")
  /\ allocated' = [allocated EXCEPT ![arg[t]] = FALSE]
  /\ ret' = [ret EXCEPT ![t] = 0]
  /\ UNCHANGED <<SessionID, session_id, session_mutex, i, arg, app>>

UnlockFree(t) ==
  /\ Goto(t, "free_unlock", "free_return")
  /\ Unlock(t)
  /\ UNCHANGED <<table, i, arg, ret, app>>

\* Mutant: the error path forgets to unlock.
ErrorKeepsLock(t) ==
  /\ Goto(t, "free_error", "free_return")
  /\ UNCHANGED <<table, session_mutex, i, arg, ret, app>>

UnlockError(t) ==
  /\ Goto(t, "free_error", "free_return")
  /\ Unlock(t)
  /\ UNCHANGED <<table, i, arg, ret, app>>

ReturnFree(t) ==
  /\ Goto(t, "free_return", "idle")
  /\ LeaveCall(t)
  /\ UNCHANGED <<table, session_mutex, app>>

-----------------------------------------------------------------------------
\* Once inside the library a thread keeps running; when to call, and with
\* what, is the application's choice.
Step(t) ==
  \/ LockNew(t) \/ ScanEntry(t) \/ ScanEnd(t) \/ ClaimEntry(t)
  \/ UnlockNew(t) \/ ReturnNew(t)
  \/ LockFree(t) \/ CheckFails(t) \/ CheckPasses(t) \/ Release(t)
  \/ UnlockFree(t) \/ UnlockError(t) \/ ReturnFree(t)

Next ==
  \E t \in Threads :
    \/ EnterNew(t)
    \/ \E h \in HandleArg : EnterFree(t, h)
    \/ Step(t)

Spec == Init /\ [][Next]_vars

\* A running thread is scheduled again; nothing is assumed of which waiter a
\* pthread mutex admits next.
FairSpec == Spec /\ \A t \in Threads : WF_vars(Step(t))

-----------------------------------------------------------------------------
(* Properties *)

TypeOK ==
  /\ allocated \in [Handle -> BOOLEAN]
  /\ SessionID \in [Handle -> 0 .. IdSpace - 1]
  /\ session_id \in 0 .. IdSpace - 1
  /\ session_mutex \in Threads \cup {NoThread}
  /\ pc \in [Threads -> Points]
  /\ i \in [Threads -> 0 .. MaxSessions]
  /\ arg \in [Threads -> HandleArg]
  /\ ret \in [Threads -> -1 .. MaxSessions - 1]
  /\ held \in [Threads -> SUBSET Handle]
  /\ disciplined \in BOOLEAN

\* The handles thread t owns: those its application holds, the one a finished
\* session_new is about to hand over, and the one a session_free has not
\* released yet.
Owned(t) ==
  held[t]
    \cup {h \in Handle : pc[t] \in {"new_unlock", "new_return"} /\ h = ret[t]}
    \cup {h \in Handle : pc[t] \in {"free_lock", "free_check", "free_release"}
                         /\ h = arg[t]}

\* No two threads ever own the same session: whatever the interleaving of
\* session_new and session_free, an entry is given to one caller only until
\* that caller has freed it.
ExclusiveHandles ==
  disciplined => \A t, u \in Threads : t # u => Owned(t) \cap Owned(u) = {}

\* The table neither forgets a session in use nor keeps one nobody owns: the
\* allocated entries are exactly the owned ones, so no entry is lost when calls
\* race or a call fails.
AllocatedIffOwned ==
  disciplined =>
    \A h \in Handle : allocated[h] <=> \E t \in Threads : h \in Owned(t)

\* Every path out of the two functions, the error paths of session_free
\* included, unlocks session_mutex.
MutexReleased ==
  \A t \in Threads : (session_mutex = t) ~> (session_mutex # t)

-----------------------------------------------------------------------------
(***************************************************************************)
(* Refinement: the call takes effect at ClaimEntry, ScanEnd, Release or    *)
(* CheckFails, the step at which ret is assigned.                          *)
(***************************************************************************)
callBar ==
  [t \in Threads |->
     CASE pc[t] = "idle" -> "none"
       [] pc[t] \in {"new_lock", "new_scan", "new_claim"} -> "new"
       [] pc[t] \in {"free_lock", "free_check", "free_release"} -> "free"
       [] OTHER -> "done"]

Pool == INSTANCE SessionPool WITH call <- callBar

\* Each call of session_new and session_free is atomic, claims the lowest free
\* handle and is refused only for the reasons SessionPool states, whatever
\* handles the application passes and however the threads interleave.
RefinesPool == Pool!Spec

\* A caller owns what ClaimEntry gives it, until Release takes it back.
usedBar == {h \in Handle : allocated[h]}
ownedBar == [t \in Threads |-> Owned(t)]

Table == INSTANCE SessionOwners WITH Owners <- Threads, used <- usedBar, owned <- ownedBar

\* To threads that free only what they were given, and once, the table is that of
\* SessionOwners: whatever else runs, a session they own stays theirs until they
\* free it, and session_free then takes it back.
RefinesOwners ==
  (disciplined => Table!Init) /\ [][disciplined => Table!Next]_(Table!vars)
=============================================================================
