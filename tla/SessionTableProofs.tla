--------------------------- MODULE SessionTableProofs ---------------------------
(***************************************************************************)
(* Proofs about src/session.c for every number of threads, every table     *)
(* size and every width of the id counter.                                 *)
(***************************************************************************)
EXTENDS SessionTable, TLAPS

\* A thread about to claim an entry is inside the table.
ClaimInRange == \A t \in Threads : pc[t] = "new_claim" => i[t] \in Handle

TypeInv == TypeOK /\ ClaimInRange

\* session_mutex is held exactly by the thread inside a critical section.
MutexInv == \A t \in Threads : pc[t] \in Locked <=> session_mutex = t

\* A scan has passed only allocated entries; the entry about to be claimed is
\* still free and the one about to be released still allocated.
ScanInv ==
  \A t \in Threads :
    /\ pc[t] \in {"new_scan", "new_claim"} =>
         \A j \in 0 .. i[t] - 1 : allocated[j]
    /\ pc[t] = "new_claim" => ~allocated[i[t]]
    /\ pc[t] = "free_release" => arg[t] \in Handle /\ allocated[arg[t]]

TableInv == TypeInv /\ MutexInv /\ ScanInv

\* In its calls a thread does not also hold the handle it is giving back, nor,
\* already, the one it is about to be given.
CallInv ==
  \A t \in Threads :
    /\ pc[t] \in {"free_lock", "free_check", "free_release"} =>
         arg[t] \in Handle \ held[t]
    /\ pc[t] \in {"new_unlock", "new_return"} => ret[t] \notin held[t]

OwnInv == disciplined => CallInv /\ ExclusiveHandles /\ AllocatedIffOwned

-----------------------------------------------------------------------------
\* The zeroed table and idle threads are well typed.
LEMMA TypeInvInit == Init => TypeInv
BY TableAssumption DEF Init, TypeInv, TypeOK, ClaimInRange, Points, Handle, HandleArg

\* Every step of session_new, session_free and their callers keeps the types.
LEMMA TypeInvStep == TypeInv /\ [Next]_vars => TypeInv'
<1> SUFFICES ASSUME TypeInv, [Next]_vars PROVE TypeInv'
  OBVIOUS
<1> USE TableAssumption DEF TypeInv, TypeOK, ClaimInRange, Goto, table, app
<1>1. ASSUME NEW t \in Threads, EnterNew(t) PROVE TypeInv'
  BY <1>1 DEF EnterNew, Points
<1>2. ASSUME NEW t \in Threads, NEW h \in HandleArg, EnterFree(t, h) PROVE TypeInv'
  <2>1. held' \in [Threads -> SUBSET Handle] /\ arg' \in [Threads -> HandleArg]
    BY <1>2 DEF EnterFree
  <2>2. pc' \in [Threads -> Points]
    BY <1>2 DEF EnterFree, Points
  <2>3. QED
    BY <1>2, <2>1, <2>2 DEF EnterFree
<1>3. ASSUME NEW t \in Threads, LockNew(t) PROVE TypeInv'
  BY <1>3 DEF LockNew, Lock, Points, Locked, NewLocked
<1>4. ASSUME NEW t \in Threads, ScanEntry(t) PROVE TypeInv'
  <2>1. i' \in [Threads -> 0 .. MaxSessions]
    BY <1>4 DEF ScanEntry
  <2>2. pc' \in [Threads -> Points]
    <3>1. "new_claim" \in Points
      BY DEF Points, Locked, NewLocked
    <3>2. pc' = pc \/ pc' = [pc EXCEPT ![t] = "new_claim"]
      BY <1>4 DEF ScanEntry
    <3>3. QED
      BY <3>1, <3>2
  <2>3. ClaimInRange'
    <3>1. CASE allocated[i[t]]
      BY <1>4, <3>1 DEF ScanEntry
    <3>2. CASE ~allocated[i[t]]
      <4>1. i[t] \in 0 .. MaxSessions /\ i[t] < MaxSessions /\ i' = i
        BY <1>4, <3>2 DEF ScanEntry
      <4>2. i[t] \in Handle
        BY <4>1 DEF Handle
      <4>3. pc' = [pc EXCEPT ![t] = "new_claim"]
        BY <1>4, <3>2 DEF ScanEntry
      <4>4. QED
        BY <4>1, <4>2, <4>3
    <3>3. QED
      BY <3>1, <3>2
  <2>4. QED
    BY <1>4, <2>1, <2>2, <2>3 DEF ScanEntry
<1>5. ASSUME NEW t \in Threads, ScanEnd(t) PROVE TypeInv'
  BY <1>5 DEF ScanEnd, Points, Locked, NewLocked
<1>6. ASSUME NEW t \in Threads, ClaimEntry(t) PROVE TypeInv'
  <2>1. session_id' \in 0 .. IdSpace - 1
    BY <1>6 DEF ClaimEntry
  <2>2. ret' \in [Threads -> -1 .. MaxSessions - 1]
    BY <1>6 DEF ClaimEntry, Handle
  <2>3. pc' \in [Threads -> Points] /\ ClaimInRange'
    BY <1>6 DEF ClaimEntry, Points, Locked, NewLocked
  <2>4. QED
    BY <1>6, <2>1, <2>2, <2>3 DEF ClaimEntry
<1>7. ASSUME NEW t \in Threads, UnlockNew(t) PROVE TypeInv'
  BY <1>7 DEF UnlockNew, Unlock, Points
<1>8. ASSUME NEW t \in Threads, ReturnNew(t) PROVE TypeInv'
  <2>1. held' \in [Threads -> SUBSET Handle]
    BY <1>8 DEF ReturnNew, Handle
  <2>2. pc' \in [Threads -> Points] /\ ClaimInRange'
    BY <1>8 DEF ReturnNew, LeaveCall, Points
  <2>3. QED
    BY <1>8, <2>1, <2>2 DEF ReturnNew, LeaveCall, HandleArg
<1>9. ASSUME NEW t \in Threads, LockFree(t) PROVE TypeInv'
  BY <1>9 DEF LockFree, Lock, Points, Locked, FreeLocked
<1>10. ASSUME NEW t \in Threads, CheckFails(t) PROVE TypeInv'
  <2>1. ret' \in [Threads -> -1 .. MaxSessions - 1]
    BY <1>10 DEF CheckFails
  <2>2. pc' \in [Threads -> Points]
    <3>1. "free_error" \in Points /\ pc' = [pc EXCEPT ![t] = "free_error"]
      BY <1>10 DEF CheckFails, Points, Locked, FreeLocked
    <3>2. QED
      BY <3>1
  <2>3. ClaimInRange'
    BY <1>10 DEF CheckFails
  <2>4. QED
    BY <1>10, <2>1, <2>2, <2>3 DEF CheckFails
<1>11. ASSUME NEW t \in Threads, Release(t) PROVE TypeInv'
  <2>1. ret' \in [Threads -> -1 .. MaxSessions - 1]
    BY <1>11 DEF Release
  <2>2. pc' \in [Threads -> Points]
    BY <1>11 DEF Release, Points, Locked, FreeLocked
  <2>3. allocated' \in [Handle -> BOOLEAN] /\ ClaimInRange'
    BY <1>11 DEF Release
  <2>4. QED
    BY <1>11, <2>1, <2>2, <2>3 DEF Release
<1>12. ASSUME NEW t \in Threads, UnlockFree(t) \/ UnlockError(t) PROVE TypeInv'
  BY <1>12 DEF UnlockFree, UnlockError, Unlock, Points
<1>13. ASSUME NEW t \in Threads, ReturnFree(t) PROVE TypeInv'
  BY <1>13 DEF ReturnFree, LeaveCall, HandleArg, Points
<1>14. ASSUME NEW t \in Threads, CheckPasses(t) PROVE TypeInv'
  BY <1>14 DEF CheckPasses, Points, Locked, FreeLocked
<1>15. CASE UNCHANGED vars
  BY <1>15 DEF vars
<1>16. QED
  BY <1>1, <1>2, <1>3, <1>4, <1>5, <1>6, <1>7, <1>8, <1>9, <1>10, <1>11,
     <1>12, <1>13, <1>14, <1>15 DEF Next, Step

\* Every step locks, keeps or unlocks session_mutex as its program point says.
LEMMA MutexInvStep == TypeInv /\ MutexInv /\ [Next]_vars => MutexInv'
<1> SUFFICES ASSUME TypeInv, MutexInv, [Next]_vars PROVE MutexInv'
  OBVIOUS
<1> USE TableAssumption DEF TypeInv, TypeOK, MutexInv, Goto
<1>1. ASSUME NEW t \in Threads, LockNew(t) \/ LockFree(t) PROVE MutexInv'
  <2>1. \A u \in Threads : pc[u] \notin Locked
    BY <1>1 DEF LockNew, LockFree, Lock
  <2>2. session_mutex' = t /\ \E to \in Locked : pc' = [pc EXCEPT ![t] = to]
    BY <1>1 DEF LockNew, LockFree, Lock, Locked, NewLocked, FreeLocked
  <2>3. QED
    BY <2>1, <2>2
<1>2. ASSUME NEW t \in Threads, UnlockNew(t) \/ UnlockFree(t) \/ UnlockError(t)
      PROVE  MutexInv'
  <2>1. session_mutex = t
    BY <1>2 DEF UnlockNew, UnlockFree, UnlockError, Locked, NewLocked, FreeLocked
  <2>2. session_mutex' = NoThread
    BY <1>2 DEF UnlockNew, UnlockFree, UnlockError, Unlock
  <2>3. \E to : to \notin Locked /\ pc' = [pc EXCEPT ![t] = to]
    BY <1>2 DEF UnlockNew, UnlockFree, UnlockError, Locked, NewLocked, FreeLocked
  <2>4. QED
    BY <2>1, <2>2, <2>3
<1>3. ASSUME NEW t \in Threads,
             \/ ScanEntry(t) \/ ScanEnd(t) \/ ClaimEntry(t)
             \/ CheckFails(t) \/ CheckPasses(t) \/ Release(t)
      PROVE  MutexInv'
  <2>1. pc[t] \in Locked /\ session_mutex' = session_mutex
    BY <1>3 DEF ScanEntry, ScanEnd, ClaimEntry, CheckFails, CheckPasses, Release,
                Locked, NewLocked, FreeLocked
  <2>2. pc' = pc \/ \E to \in Locked : pc' = [pc EXCEPT ![t] = to]
    BY <1>3 DEF ScanEntry, ScanEnd, ClaimEntry, CheckFails, CheckPasses, Release,
                Locked, NewLocked, FreeLocked
  <2>3. QED
    BY <2>1, <2>2
<1>4. ASSUME NEW t \in Threads,
             \/ EnterNew(t) \/ (\E h \in HandleArg : EnterFree(t, h))
             \/ ReturnNew(t) \/ ReturnFree(t)
      PROVE  MutexInv'
  <2>1. pc[t] \notin Locked /\ session_mutex' = session_mutex
    BY <1>4 DEF EnterNew, EnterFree, ReturnNew, ReturnFree, Locked, NewLocked, FreeLocked
  <2>2. \E to : to \notin Locked /\ pc' = [pc EXCEPT ![t] = to]
    BY <1>4 DEF EnterNew, EnterFree, ReturnNew, ReturnFree, Locked, NewLocked, FreeLocked
  <2>3. QED
    BY <2>1, <2>2
<1>5. CASE UNCHANGED vars
  BY <1>5 DEF vars
<1>6. QED
  BY <1>1, <1>2, <1>3, <1>4, <1>5 DEF Next, Step

\* Only the thread inside a critical section touches the table or runs the
\* steps ScanInv is about, so every other thread's part is undisturbed.
LEMMA ScanInvStep == TableInv /\ [Next]_vars => ScanInv'
<1> SUFFICES ASSUME TableInv, [Next]_vars PROVE ScanInv'
  OBVIOUS
<1> USE TableAssumption DEF TableInv, TypeInv, TypeOK, ScanInv, Goto, table
<1>1. ASSUME NEW t \in Threads, EnterNew(t) PROVE ScanInv'
  BY <1>1 DEF EnterNew
<1>2. ASSUME NEW t \in Threads, NEW h \in HandleArg, EnterFree(t, h) PROVE ScanInv'
  BY <1>2 DEF EnterFree
<1>3. ASSUME NEW t \in Threads, LockNew(t) PROVE ScanInv'
  BY <1>3 DEF LockNew
<1>4. ASSUME NEW t \in Threads, ScanEntry(t) PROVE ScanInv'
  <2>1. CASE allocated[i[t]]
    BY <1>4, <2>1 DEF ScanEntry
  <2>2. CASE ~allocated[i[t]]
    BY <1>4, <2>2 DEF ScanEntry
  <2>3. QED
    BY <2>1, <2>2
<1>5. ASSUME NEW t \in Threads, ScanEnd(t) PROVE ScanInv'
  BY <1>5 DEF ScanEnd
<1>6. ASSUME NEW t \in Threads, ClaimEntry(t) \/ Release(t) PROVE ScanInv'
  <2>1. \A u \in Threads \ {t} : pc[u] \notin Locked
    <3>1. pc[t] \in Locked
      BY <1>6 DEF ClaimEntry, Release, Locked, NewLocked, FreeLocked
    <3>2. QED
      BY <3>1 DEF MutexInv
  <2>2. \A u \in Threads : pc'[u] \notin {"new_scan", "new_claim", "free_release"}
    BY <1>6, <2>1 DEF ClaimEntry, Release, Locked, NewLocked, FreeLocked
  <2>3. QED
    BY <2>2
<1>7. ASSUME NEW t \in Threads, UnlockNew(t) PROVE ScanInv'
  BY <1>7 DEF UnlockNew
<1>8. ASSUME NEW t \in Threads, ReturnNew(t) \/ ReturnFree(t) PROVE ScanInv'
  BY <1>8 DEF ReturnNew, ReturnFree, LeaveCall
<1>9. ASSUME NEW t \in Threads, LockFree(t) PROVE ScanInv'
  BY <1>9 DEF LockFree
<1>10. ASSUME NEW t \in Threads, CheckFails(t) PROVE ScanInv'
  BY <1>10 DEF CheckFails
<1>11. ASSUME NEW t \in Threads, CheckPasses(t) PROVE ScanInv'
  BY <1>11 DEF CheckPasses, ValidArg
<1>12. ASSUME NEW t \in Threads, UnlockFree(t) \/ UnlockError(t) PROVE ScanInv'
  BY <1>12 DEF UnlockFree, UnlockError
<1>13. CASE UNCHANGED vars
  BY <1>13 DEF vars
<1>14. QED
  BY <1>1, <1>2, <1>3, <1>4, <1>5, <1>6, <1>7, <1>8, <1>9, <1>10, <1>11,
     <1>12, <1>13 DEF Next, Step

-----------------------------------------------------------------------------
\* All steps but ClaimEntry and Release leave the table and the ownership of
\* its entries as they are.
LEMMA OwnersKept ==
  ASSUME TypeInv, OwnInv, disciplined, disciplined' = disciplined,
         allocated' = allocated,
         \A u \in Threads : Owned(u)' = Owned(u),
         CallInv'
  PROVE  OwnInv'
BY DEF OwnInv, ExclusiveHandles, AllocatedIffOwned

\* If threads free only what they were given, session_free never refuses, and no
\* step but ClaimEntry and Release changes an entry or its owner.
LEMMA OwnersStay ==
  ASSUME TableInv, OwnInv, disciplined, NEW t \in Threads,
         \/ EnterNew(t) \/ LockNew(t) \/ ScanEntry(t) \/ ScanEnd(t)
         \/ UnlockNew(t) \/ ReturnNew(t)
         \/ (\E h \in HandleArg : EnterFree(t, h))
         \/ LockFree(t) \/ CheckPasses(t) \/ CheckFails(t)
         \/ UnlockFree(t) \/ UnlockError(t) \/ ReturnFree(t)
  PROVE  ~CheckFails(t) /\ allocated' = allocated /\ \A u \in Threads : Owned(u)' = Owned(u)
<1>a. TypeOK /\ CallInv /\ AllocatedIffOwned
  BY DEF TableInv, TypeInv, OwnInv, AllocatedIffOwned
<1> USE TableAssumption, <1>a DEF TypeOK, CallInv, Goto, table, app
<1>1. ~CheckFails(t)
  <2> SUFFICES ASSUME CheckFails(t) PROVE FALSE
    OBVIOUS
  <2>1. arg[t] \in Handle /\ arg[t] \in Owned(t)
    BY DEF CheckFails, Owned
  <2>2. allocated[arg[t]]
    BY <2>1 DEF AllocatedIffOwned
  <2>3. QED
    BY <2>1, <2>2 DEF CheckFails, ValidArg
<1>2. allocated' = allocated
  BY <1>1 DEF EnterNew, LockNew, ScanEntry, ScanEnd, UnlockNew, ReturnNew, EnterFree,
              LockFree, CheckPasses, UnlockFree, UnlockError, ReturnFree
<1>3. ASSUME EnterNew(t) \/ LockNew(t) \/ ScanEntry(t)
      PROVE  \A u \in Threads : Owned(u)' = Owned(u)
  BY <1>3 DEF EnterNew, LockNew, ScanEntry, Owned
<1>4. ASSUME ScanEnd(t) PROVE \A u \in Threads : Owned(u)' = Owned(u)
  BY <1>4 DEF ScanEnd, Owned, Handle
<1>5. ASSUME UnlockNew(t) PROVE \A u \in Threads : Owned(u)' = Owned(u)
  BY <1>5 DEF UnlockNew, Owned
<1>6. ASSUME ReturnNew(t) PROVE \A u \in Threads : Owned(u)' = Owned(u)
  BY <1>6 DEF ReturnNew, LeaveCall, Owned, Handle
<1>7. ASSUME NEW h \in HandleArg, EnterFree(t, h)
      PROVE  \A u \in Threads : Owned(u)' = Owned(u)
  <2>1. h \in held[t] /\ h \in Handle
    BY <1>7 DEF EnterFree
  <2>2. QED
    BY <1>7, <2>1 DEF EnterFree, Owned
<1>8. ASSUME LockFree(t) \/ CheckPasses(t) PROVE \A u \in Threads : Owned(u)' = Owned(u)
  BY <1>8 DEF LockFree, CheckPasses, Owned
<1>9. ASSUME UnlockFree(t) \/ UnlockError(t) \/ ReturnFree(t)
      PROVE  \A u \in Threads : Owned(u)' = Owned(u)
  BY <1>9 DEF UnlockFree, UnlockError, ReturnFree, LeaveCall, Owned
<1>10. QED
  BY <1>1, <1>2, <1>3, <1>4, <1>5, <1>6, <1>7, <1>8, <1>9

\* ClaimEntry gives its thread an entry nobody owns.
LEMMA ClaimOwns ==
  ASSUME TableInv, OwnInv, disciplined, NEW t \in Threads, ClaimEntry(t)
  PROVE  /\ i[t] \in Handle /\ ~allocated[i[t]]
         /\ \A u \in Threads : i[t] \notin Owned(u)
         /\ \A h \in Handle : allocated'[h] <=> allocated[h] \/ h = i[t]
         /\ Owned(t)' = Owned(t) \cup {i[t]}
         /\ \A u \in Threads \ {t} : Owned(u)' = Owned(u)
<1>a. TypeOK /\ AllocatedIffOwned
  BY DEF TableInv, TypeInv, OwnInv, AllocatedIffOwned
<1> USE TableAssumption, <1>a DEF TypeOK, Goto
<1>1. i[t] \in Handle /\ ~allocated[i[t]]
  BY DEF ClaimEntry, TableInv, TypeInv, ClaimInRange, ScanInv
<1>2. \A u \in Threads : i[t] \notin Owned(u)
  BY <1>1 DEF AllocatedIffOwned
<1>3. \A h \in Handle : allocated'[h] <=> allocated[h] \/ h = i[t]
  BY <1>1 DEF ClaimEntry
<1>4. Owned(t)' = Owned(t) \cup {i[t]}
  BY <1>1 DEF ClaimEntry, Owned, app
<1>5. \A u \in Threads \ {t} : Owned(u)' = Owned(u)
  BY DEF ClaimEntry, Owned, app
<1>6. QED
  BY <1>1, <1>2, <1>3, <1>4, <1>5

\* Release takes away an entry its thread, and no other, owns.
LEMMA ReleaseDisowns ==
  ASSUME TableInv, OwnInv, disciplined, NEW t \in Threads, Release(t)
  PROVE  /\ arg[t] \in Owned(t)
         /\ \A u \in Threads \ {t} : arg[t] \notin Owned(u)
         /\ \A h \in Handle : allocated'[h] <=> allocated[h] /\ h # arg[t]
         /\ Owned(t)' = Owned(t) \ {arg[t]}
         /\ \A u \in Threads \ {t} : Owned(u)' = Owned(u)
<1>a. TypeOK /\ CallInv /\ ExclusiveHandles
  BY DEF TableInv, TypeInv, OwnInv, ExclusiveHandles
<1> USE TableAssumption, <1>a DEF TypeOK, Goto
<1>1. arg[t] \in Handle \ held[t]
  BY DEF Release, CallInv
<1>2. arg[t] \in Owned(t) /\ Owned(t)' = Owned(t) \ {arg[t]}
  BY <1>1 DEF Release, Owned, app
<1>3. \A u \in Threads \ {t} : arg[t] \notin Owned(u)
  BY <1>2 DEF ExclusiveHandles
<1>4. \A h \in Handle : allocated'[h] <=> allocated[h] /\ h # arg[t]
  BY <1>1 DEF Release
<1>5. \A u \in Threads \ {t} : Owned(u)' = Owned(u)
  BY DEF Release, Owned, app
<1>6. QED
  BY <1>2, <1>3, <1>4, <1>5

\* ClaimEntry gives its thread an entry nobody owns, Release takes away one its
\* thread alone owns, and the other steps change no owner.
LEMMA OwnInvStep == TableInv /\ OwnInv /\ [Next]_vars => OwnInv'
<1> SUFFICES ASSUME TableInv, OwnInv, [Next]_vars PROVE OwnInv'
  OBVIOUS
<1>a. disciplined' = disciplined
  BY DEF Next, Step, vars, app, EnterNew, EnterFree, LockNew, ScanEntry, ScanEnd,
         ClaimEntry, UnlockNew, ReturnNew, LockFree, CheckFails, CheckPasses,
         Release, UnlockFree, UnlockError, ReturnFree
<1> SUFFICES ASSUME disciplined PROVE OwnInv'
  BY <1>a DEF OwnInv
<1>b. TypeInv /\ TypeOK /\ CallInv /\ ExclusiveHandles /\ AllocatedIffOwned
  BY DEF TableInv, TypeInv, OwnInv
<1> USE TableAssumption, <1>b DEF TypeOK, CallInv, Goto, table, app
<1>1. ASSUME NEW t \in Threads, EnterNew(t) \/ LockNew(t) \/ ScanEntry(t)
      PROVE  OwnInv'
  <2>1. \A u \in Threads :
          pc'[u] = pc[u] \/ pc'[u] \in {"new_lock", "new_scan", "new_claim"}
    BY <1>1 DEF EnterNew, LockNew, ScanEntry
  <2>2. CallInv'
    BY <1>1, <2>1 DEF EnterNew, LockNew, ScanEntry
  <2>3. QED
    BY <1>1, <2>2, <1>a, OwnersStay, OwnersKept
<1>2. ASSUME NEW t \in Threads, ScanEnd(t) PROVE OwnInv'
  <2>1. CallInv'
    BY <1>2 DEF ScanEnd, Handle
  <2>2. QED
    BY <1>2, <2>1, <1>a, OwnersStay, OwnersKept
<1>3. ASSUME NEW t \in Threads,
             \/ UnlockNew(t) \/ LockFree(t) \/ CheckPasses(t)
             \/ UnlockFree(t) \/ UnlockError(t)
      PROVE  OwnInv'
  <2>1. CallInv'
    BY <1>3 DEF UnlockNew, LockFree, CheckPasses, UnlockFree, UnlockError
  <2>2. QED
    BY <1>3, <2>1, <1>a, OwnersStay, OwnersKept
<1>4. ASSUME NEW t \in Threads, ReturnNew(t) \/ ReturnFree(t) PROVE OwnInv'
  <2>1. CallInv'
    BY <1>4 DEF ReturnNew, ReturnFree, LeaveCall
  <2>2. QED
    BY <1>4, <2>1, <1>a, OwnersStay, OwnersKept
<1>5. ASSUME NEW t \in Threads, NEW h \in HandleArg, EnterFree(t, h) PROVE OwnInv'
  <2>1. CallInv'
    BY <1>5 DEF EnterFree
  <2>2. QED
    BY <1>5, <2>1, <1>a, OwnersStay, OwnersKept
<1>6. ASSUME NEW t \in Threads, CheckFails(t) PROVE FALSE
  BY <1>6, OwnersStay
<1>7. ASSUME NEW t \in Threads, ClaimEntry(t) PROVE OwnInv'
  <2>1. CallInv'
    <3>1. i[t] \notin held[t]
      BY <1>7, ClaimOwns DEF Owned
    <3>2. QED
      BY <1>7, <3>1 DEF ClaimEntry
  <2>2. ExclusiveHandles'
    BY <1>a, <1>7, ClaimOwns DEF ExclusiveHandles
  <2>3. AllocatedIffOwned'
    BY <1>a, <1>7, ClaimOwns DEF AllocatedIffOwned
  <2>4. QED
    BY <2>1, <2>2, <2>3 DEF OwnInv
<1>8. ASSUME NEW t \in Threads, Release(t) PROVE OwnInv'
  <2>1. CallInv'
    BY <1>8 DEF Release
  <2>2. ExclusiveHandles'
    BY <1>a, <1>8, ReleaseDisowns DEF ExclusiveHandles
  <2>3. AllocatedIffOwned'
    BY <1>a, <1>8, ReleaseDisowns DEF AllocatedIffOwned
  <2>4. QED
    BY <2>1, <2>2, <2>3 DEF OwnInv
<1>9. CASE UNCHANGED vars
  <2>1. CallInv' /\ allocated' = allocated /\ \A u \in Threads : Owned(u)' = Owned(u)
    BY <1>9 DEF vars, Owned
  <2>2. QED
    BY <2>1, <1>a, OwnersKept
<1>10. QED
  BY <1>1, <1>2, <1>3, <1>4, <1>5, <1>6, <1>7, <1>8, <1>9 DEF Next, Step

-----------------------------------------------------------------------------
(* Theorems *)

\* At the start no entry is allocated and no thread owns one.
LEMMA IInvInit == Init => TableInv /\ OwnInv
<1> SUFFICES ASSUME Init PROVE TableInv /\ OwnInv
  OBVIOUS
<1>1. TypeInv
  BY TypeInvInit
<1>2. MutexInv
  BY TableAssumption DEF Init, MutexInv, Locked, NewLocked, FreeLocked
<1>3. ScanInv
  BY DEF Init, ScanInv
<1>4. \A t \in Threads : Owned(t) = {}
  BY DEF Init, Owned
<1>5. OwnInv
  BY <1>4 DEF Init, OwnInv, CallInv, ExclusiveHandles, AllocatedIffOwned
<1>6. QED
  BY <1>1, <1>2, <1>3, <1>5 DEF TableInv

\* Every variable keeps its type: what session_new returns is a handle of the
\* table or -1, and session_id stays in the range of its uint16_t.
THEOREM TypeCorrect == Spec => []TypeOK
BY TypeInvInit, TypeInvStep, PTL DEF Spec, TypeInv

\* The inductive invariant, for disciplined applications and for others.
THEOREM IInvHolds == Spec => [](TableInv /\ OwnInv)
<1>1. TableInv /\ OwnInv /\ [Next]_vars => (TableInv /\ OwnInv)'
  BY TypeInvStep, MutexInvStep, ScanInvStep, OwnInvStep DEF TableInv
<1>2. QED
  BY IInvInit, <1>1, PTL DEF Spec

\* session_new never gives one session to two threads, whatever the number of
\* threads and the size of the table, if threads free only what they were given.
THEOREM HandlesExclusive == Spec => []ExclusiveHandles
<1>1. OwnInv => ExclusiveHandles
  BY DEF OwnInv, ExclusiveHandles
<1>2. QED
  BY <1>1, IInvHolds, PTL

\* Under the same discipline no entry is lost or kept: the allocated entries of
\* session[] are those some thread owns.
THEOREM TableAccounted == Spec => []AllocatedIffOwned
<1>1. OwnInv => AllocatedIffOwned
  BY DEF OwnInv, AllocatedIffOwned
<1>2. QED
  BY <1>1, IInvHolds, PTL

-----------------------------------------------------------------------------
(* The refinement of SessionPool *)

\* The initial states of the code are initial states of the abstract pool.
LEMMA PoolInit == Init => Pool!Init
BY DEF Init, Pool!Init, callBar, Handle, Pool!Handle

\* Moving a thread to another program point changes its abstract call only.
LEMMA CallMoves ==
  ASSUME TypeOK, NEW t \in Threads, NEW from, NEW to, Goto(t, from, to),
         NEW c, to \in {"idle"} => c = "none",
         to \in {"new_lock", "new_scan", "new_claim"} => c = "new",
         to \in {"free_lock", "free_check", "free_release"} => c = "free",
         to \notin {"idle", "new_lock", "new_scan", "new_claim",
                   "free_lock", "free_check", "free_release"} => c = "done"
  PROVE  callBar' = [callBar EXCEPT ![t] = c]
<1>1. \A u \in Threads : pc'[u] = IF u = t THEN to ELSE pc[u]
  BY DEF TypeOK, Goto
<1>2. \A u \in Threads : callBar'[u] = IF u = t THEN c ELSE callBar[u]
  BY <1>1 DEF callBar
<1>3. QED
  BY <1>2 DEF callBar

\* Each step of the code is a step of the pool or leaves it unchanged; the
\* scanning and unlocking steps are of the second kind.
LEMMA PoolStep == TableInv /\ [Next]_vars => [Pool!Next]_(Pool!vars)
<1> SUFFICES ASSUME TableInv, [Next]_vars PROVE [Pool!Next]_(Pool!vars)
  OBVIOUS
<1>a. TypeOK /\ ScanInv
  BY DEF TableInv, TypeInv
<1> USE TableAssumption, <1>a DEF table, app
<1>1. ASSUME NEW t \in Threads, EnterNew(t) PROVE Pool!CallNew(t)
  <2>1. callBar[t] = "none"
    BY <1>1 DEF EnterNew, Goto, callBar
  <2>2. callBar' = [callBar EXCEPT ![t] = "new"]
    BY <1>1, CallMoves DEF EnterNew
  <2>3. QED
    BY <1>1, <2>1, <2>2 DEF EnterNew, Pool!CallNew
<1>2. ASSUME NEW t \in Threads, NEW h \in HandleArg, EnterFree(t, h)
      PROVE  Pool!CallFree(t, h)
  <2>1. callBar[t] = "none"
    BY <1>2 DEF EnterFree, Goto, callBar
  <2>2. callBar' = [callBar EXCEPT ![t] = "free"]
    BY <1>2, CallMoves DEF EnterFree
  <2>3. QED
    BY <1>2, <2>1, <2>2 DEF EnterFree, Pool!CallFree
<1>3. ASSUME NEW t \in Threads, ClaimEntry(t) PROVE Pool!Claim(t)
  <2>1. callBar[t] = "new"
    BY <1>3 DEF ClaimEntry, Goto, callBar
  <2>2. callBar' = [callBar EXCEPT ![t] = "done"]
    BY <1>3, CallMoves DEF ClaimEntry
  <2>3. i[t] \in Handle
    BY <1>3 DEF ClaimEntry, Goto, TableInv, TypeInv, ClaimInRange
  <2>4. Pool!LowestFree(i[t])
    BY <1>3, <2>3 DEF ClaimEntry, Goto, ScanInv, Pool!LowestFree, Pool!Handle, Handle
  <2>5. QED
    BY <1>3, <2>1, <2>2, <2>3, <2>4 DEF ClaimEntry, Pool!Claim, Pool!Handle, Handle
<1>4. ASSUME NEW t \in Threads, ScanEnd(t) PROVE Pool!RefuseNew(t)
  <2>1. callBar[t] = "new"
    BY <1>4 DEF ScanEnd, Goto, callBar
  <2>2. callBar' = [callBar EXCEPT ![t] = "done"]
    BY <1>4, CallMoves DEF ScanEnd
  <2>3. \A h \in Pool!Handle : allocated[h]
    BY <1>4 DEF ScanEnd, Goto, ScanInv, Pool!Handle
  <2>4. QED
    BY <1>4, <2>1, <2>2, <2>3 DEF ScanEnd, Pool!RefuseNew
<1>5. ASSUME NEW t \in Threads, Release(t) PROVE Pool!Free(t)
  <2>1. callBar[t] = "free"
    BY <1>5 DEF Release, Goto, callBar
  <2>2. callBar' = [callBar EXCEPT ![t] = "done"]
    BY <1>5, CallMoves DEF Release
  <2>3. arg[t] \in Pool!Handle /\ allocated[arg[t]]
    BY <1>5 DEF Release, Goto, ScanInv, Pool!Handle, Handle
  <2>4. QED
    BY <1>5, <2>1, <2>2, <2>3 DEF Release, Pool!Free
<1>6. ASSUME NEW t \in Threads, CheckFails(t) PROVE Pool!RefuseFree(t)
  <2>1. callBar[t] = "free"
    BY <1>6 DEF CheckFails, Goto, callBar
  <2>2. callBar' = [callBar EXCEPT ![t] = "done"]
    BY <1>6, CallMoves DEF CheckFails
  <2>3. arg[t] \in Pool!Handle => ~allocated[arg[t]]
    BY <1>6 DEF CheckFails, ValidArg, Pool!Handle, Handle
  <2>4. QED
    BY <1>6, <2>1, <2>2, <2>3 DEF CheckFails, Pool!RefuseFree
<1>7. ASSUME NEW t \in Threads, ReturnNew(t) \/ ReturnFree(t) PROVE Pool!Return(t)
  <2>1. callBar[t] = "done"
    BY <1>7 DEF ReturnNew, ReturnFree, Goto, callBar
  <2>2. callBar' = [callBar EXCEPT ![t] = "none"]
    BY <1>7, CallMoves DEF ReturnNew, ReturnFree
  <2>3. QED
    BY <1>7, <2>1, <2>2 DEF ReturnNew, ReturnFree, LeaveCall, Pool!Return
<1>8. ASSUME NEW t \in Threads,
             \/ LockNew(t) \/ ScanEntry(t) \/ UnlockNew(t)
             \/ LockFree(t) \/ CheckPasses(t) \/ UnlockFree(t) \/ UnlockError(t)
      PROVE  UNCHANGED Pool!vars
  <2>1. \A u \in Threads : callBar'[u] = callBar[u]
    BY <1>8 DEF LockNew, ScanEntry, UnlockNew, LockFree, CheckPasses, UnlockFree,
                UnlockError, Goto, callBar, TypeOK
  <2>2. callBar' = callBar
    BY <2>1 DEF callBar
  <2>3. QED
    BY <1>8, <2>2 DEF LockNew, ScanEntry, UnlockNew, LockFree, CheckPasses,
                      UnlockFree, UnlockError, Pool!vars
<1>9. CASE UNCHANGED vars
  BY <1>9 DEF vars, Pool!vars, callBar
<1>10. HandleArg = Pool!HandleArg
  BY DEF HandleArg, Pool!HandleArg
<1>11. QED
  BY <1>1, <1>2, <1>3, <1>4, <1>5, <1>6, <1>7, <1>8, <1>9, <1>10
     DEF Next, Step, Pool!Next

\* src/session.c implements SessionPool: each call is atomic, claims the lowest
\* free handle and is refused only for the reasons SessionPool states.
THEOREM PoolRefined == Spec => RefinesPool
<1>1. Spec => []TableInv
  BY IInvHolds, PTL
<1>2. QED
  BY <1>1, PoolInit, PoolStep, PTL DEF Spec, RefinesPool, Pool!Spec

-----------------------------------------------------------------------------
(* The refinement of SessionOwners *)

\* The zeroed table is unused and no thread owns an entry of it.
LEMMA OwnersInit == Init => Table!Init
<1> SUFFICES ASSUME Init PROVE Table!Init
  OBVIOUS
<1>1. \A t \in Threads : Owned(t) = {}
  BY DEF Init, Owned
<1>2. ownedBar = [t \in Threads |-> {}]
  BY <1>1 DEF ownedBar
<1>3. usedBar \in SUBSET Table!Handle
  BY DEF usedBar, Handle, Table!Handle
<1>4. QED
  BY <1>2, <1>3 DEF Table!Init

\* With disciplined threads ClaimEntry claims, Release frees, and every other step
\* leaves the entries and their owners alone.
LEMMA OwnersStep ==
  TableInv /\ OwnInv /\ [Next]_vars => [disciplined => Table!Next]_(Table!vars)
<1> SUFFICES ASSUME TableInv, OwnInv, [Next]_vars
             PROVE  [disciplined => Table!Next]_(Table!vars)
  OBVIOUS
<1> SUFFICES ASSUME disciplined
             PROVE  [Table!Next]_(Table!vars)
  OBVIOUS
<1> USE DEF Table!Handle, Handle
<1>1. ASSUME NEW t \in Threads, ClaimEntry(t) PROVE Table!Claim(t)
  <2>1. i[t] \in Handle \ usedBar
    BY <1>1, ClaimOwns DEF usedBar
  <2>2. 0 .. i[t] - 1 \subseteq usedBar
    <3>1. \A j \in 0 .. i[t] - 1 : allocated[j]
      BY <1>1 DEF ClaimEntry, Goto, TableInv, ScanInv
    <3>2. \A j \in 0 .. i[t] - 1 : j \in 0 .. MaxSessions - 1
      BY <2>1, TableAssumption
    <3>3. QED
      BY <3>1, <3>2 DEF usedBar
  <2>3. usedBar' = usedBar \cup {i[t]}
    BY <1>1, ClaimOwns DEF usedBar
  <2>4. ownedBar' = [ownedBar EXCEPT ![t] = @ \cup {i[t]}]
    BY <1>1, ClaimOwns DEF ownedBar
  <2>5. QED
    BY <2>1, <2>2, <2>3, <2>4 DEF Table!Claim
<1>2. ASSUME NEW t \in Threads, Release(t) PROVE Table!Free(t)
  <2>1. arg[t] \in ownedBar[t]
    BY <1>2, ReleaseDisowns DEF ownedBar
  <2>2. usedBar' = usedBar \ {arg[t]}
    BY <1>2, ReleaseDisowns DEF usedBar
  <2>3. ownedBar' = [ownedBar EXCEPT ![t] = @ \ {arg[t]}]
    BY <1>2, ReleaseDisowns DEF ownedBar
  <2>4. QED
    BY <2>1, <2>2, <2>3 DEF Table!Free
<1>3. ASSUME NEW t \in Threads,
             \/ EnterNew(t) \/ LockNew(t) \/ ScanEntry(t) \/ ScanEnd(t)
             \/ UnlockNew(t) \/ ReturnNew(t)
             \/ (\E h \in HandleArg : EnterFree(t, h))
             \/ LockFree(t) \/ CheckPasses(t) \/ CheckFails(t)
             \/ UnlockFree(t) \/ UnlockError(t) \/ ReturnFree(t)
      PROVE  UNCHANGED Table!vars
  <2>1. allocated' = allocated /\ \A u \in Threads : Owned(u)' = Owned(u)
    BY <1>3, OwnersStay
  <2>2. usedBar' = usedBar /\ ownedBar' = ownedBar
    BY <2>1 DEF usedBar, ownedBar
  <2>3. QED
    BY <2>2 DEF Table!vars
<1>4. CASE UNCHANGED vars
  BY <1>4 DEF vars, Table!vars, usedBar, ownedBar, Owned
<1>5. QED
  BY <1>1, <1>2, <1>3, <1>4 DEF Next, Step, Table!Next

\* Threads that free only what they were given, and once, find the table of
\* SessionOwners in src/session.c: each session has one owner from the call of
\* session_new that returned it to the call of session_free that takes it back.
THEOREM OwnersRefined == Spec => RefinesOwners
<1>1. Spec => [](TableInv /\ OwnInv)
  BY IInvHolds
<1>2. Init => (disciplined => Table!Init)
  BY OwnersInit
<1>3. QED
  BY <1>1, <1>2, OwnersStep, PTL DEF Spec, RefinesOwners
=============================================================================
