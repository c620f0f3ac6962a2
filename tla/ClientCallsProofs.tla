--------------------------- MODULE ClientCallsProofs ---------------------------
(***************************************************************************)
(* Theorems about ClientCalls for any threads, sessions, descriptors and   *)
(* calls: type correctness, whose descriptors a call touches, that async   *)
(* channels do not leak, which sync channels do, and that no session is    *)
(* lost.                                                                   *)
(***************************************************************************)
EXTENDS ClientCalls, FiniteSetTheorems, TLAPS

-----------------------------------------------------------------------------
(* The inductive invariant *)

Exchanging == {"request", "response", "late"}
InSession == Using \cup {"open", "d_sync", "d_async"}

\* What a thread's variables and its session say of each other at each step.
ThreadInv(t) ==
  /\ pc[t] = "idle" <=> device[t] = NoDevice
  /\ refused[t] <= connects[t]
  /\ pc[t] \in Connecting /\ chan[t] = "sync" => refused[t] < connects[t]
  /\ pc[t] \in Exchanging \cup {"connect"} => sfd[t][chan[t]] \in FD
  /\ pc[t] \in Exchanging => socket[device[t]][chan[t]] = sfd[t][chan[t]]
  /\ pc[t] \in Connecting /\ chan[t] = "async" =>
       sfd[t]["sync"] \in FD /\ socket[device[t]]["sync"] = sfd[t]["sync"]
  /\ pc[t] = "close_async" => sfd[t]["async"] \in FD
  /\ pc[t] \in {"close_async", "close_sync"} => sfd[t]["sync"] \in FD
  /\ pc[t] \in InSession => \A k \in Channel : socket[device[t]][k] \in FD

\* Sessions in use are claimed, by one thread each, and none is claimed else.
UseInv ==
  /\ \A h \in taken : allocated[h]
  /\ \A t \in Threads : pc[t] # "idle" =>
       /\ allocated[device[t]] /\ device[t] \notin taken
       /\ \A u \in Threads \ {t} : device[u] # device[t]
  /\ \A h \in Handle \ taken : allocated[h] => \E t \in Threads : device[t] = h

IInv ==
  /\ TypeOK /\ UseInv
  /\ \A t \in Threads : ThreadInv(t)
  /\ DescriptorsOwn /\ AsyncNeverLeaks

-----------------------------------------------------------------------------
(* The held channels as a table *)

HeldFor(p, c) ==
  CASE p \in {"idle", "free", "d_free"} -> {}
    [] p \in Connecting ->
         {k \in Channel : (k = "sync" /\ c = "async") \/ (k = c /\ p # "socket")}
    [] p = "close_sync" -> {"sync"}
    [] p = "d_async" -> {"async"}
    [] OTHER -> Channel

\* What is held at each step.
LEMMA HeldTable ==
  ASSUME NEW p \in Points, NEW c \in Channel
  PROVE  /\ p \in {"idle", "free", "d_free"} => HeldFor(p, c) = {}
         /\ p = "socket" => HeldFor(p, c) = IF c = "async" THEN {"sync"} ELSE {}
         /\ p \in Exchanging \cup {"connect"} =>
              HeldFor(p, c) = IF c = "async" THEN Channel ELSE {"sync"}
         /\ p = "close_sync" => HeldFor(p, c) = {"sync"}
         /\ p = "d_async" => HeldFor(p, c) = {"async"}
         /\ p \in Using \cup {"open", "close_async", "d_sync"} => HeldFor(p, c) = Channel
<1> USE DEF Points, Connecting, Failing, Using, Leaving, Exchanging, Channel
<1>1. CASE p \in {"idle", "free", "d_free"}
  BY <1>1 DEF HeldFor
<1>2. CASE p = "socket"
  BY <1>2 DEF HeldFor
<1>3. CASE p \in Exchanging \cup {"connect"}
  BY <1>3 DEF HeldFor
<1>4. CASE p = "close_sync"
  BY <1>4 DEF HeldFor
<1>5. CASE p = "d_async"
  BY <1>5 DEF HeldFor
<1>6. CASE p \in Using \cup {"open", "close_async", "d_sync"}
  BY <1>6 DEF HeldFor
<1> QED BY <1>1, <1>2, <1>3, <1>4, <1>5, <1>6

\* The table says what Held says, before and after a step.
LEMMA HeldIsTable ==
  ASSUME NEW t \in Threads
  PROVE  Held(t) = HeldFor(pc[t], chan[t]) /\ Held(t)' = HeldFor(pc'[t], chan'[t])
<1>1. Held(t) = HeldFor(pc[t], chan[t])
  BY DEF Held, HeldFor
<1>2. Held(t)' = HeldFor(pc'[t], chan'[t])
  BY DEF Held, HeldFor
<1> QED BY <1>1, <1>2

-----------------------------------------------------------------------------
(* What a step of one thread leaves to the others *)

\* The other threads' variables, and the sessions they have.
Frame(t) ==
  \A u \in Threads \ {t} :
    /\ pc'[u] = pc[u] /\ chan'[u] = chan[u] /\ device'[u] = device[u]
    /\ sfd'[u] = sfd[u] /\ connects'[u] = connects[u] /\ refused'[u] = refused[u]
    /\ pc[u] # "idle" => socket'[device[u]] = socket[device[u]]

\* A descriptor changes hands by being closed, by the thread it was opened for
\* as long as no stream has ended, or by being opened from free.
Hands(t) ==
  \A fd \in FD :
    \/ owner'[fd] = owner[fd]
    \/ owner'[fd] = Nobody /\ (~ended' => \E k \in Channel : owner[fd] = <<t, k>>)
    \/ owner[fd] = Nobody /\ \E k \in Channel : owner'[fd] = <<t, k>>

\* The two properties about descriptors, of one thread.
OwnInv(t) ==
  /\ ~ended => \A k \in Held(t) : owner[HeldFd(t, k)] = <<t, k>>
  /\ \A fd \in FD : owner[fd] = <<t, "async">> =>
       "async" \in Held(t) /\ fd = HeldFd(t, "async")

\* A held descriptor is a descriptor.
LEMMA HeldInFD ==
  ASSUME TypeOK, NEW t \in Threads, ThreadInv(t), NEW k \in Held(t)
  PROVE  HeldFd(t, k) \in FD
<1>1. pc[t] \in Points /\ chan[t] \in Channel /\ k \in HeldFor(pc[t], chan[t])
  BY HeldIsTable DEF TypeOK
<1> USE <1>1, HeldTable DEF ThreadInv, HeldFd, Points, Connecting, Failing, Using,
                            Leaving, Exchanging, InSession, Channel
<1>2. CASE pc[t] = "socket"
  BY <1>2
<1>3. CASE pc[t] \in Exchanging \cup {"connect"}
  BY <1>3
<1>4. CASE pc[t] \in {"close_async", "close_sync"}
  BY <1>4
<1>5. CASE pc[t] \in InSession
  BY <1>5
<1>6. CASE pc[t] \in {"idle", "free", "d_free"}
  BY <1>6
<1> QED BY <1>2, <1>3, <1>4, <1>5, <1>6

\* A step that keeps to its own thread, descriptors and session keeps the
\* invariant if it does so for the thread itself.
LEMMA OthersKept ==
  ASSUME IInv, NEW t \in Threads, Frame(t), Hands(t), ended => ended',
         TypeOK', UseInv', ThreadInv(t)', OwnInv(t)'
  PROVE  IInv'
<1>1. ASSUME NEW u \in Threads \ {t}
      PROVE  /\ Held(u)' = Held(u) /\ \A k \in Channel : pc[u] # "idle" => HeldFd(u, k)' = HeldFd(u, k)
             /\ ThreadInv(u)'
  <2>1. /\ pc'[u] = pc[u] /\ chan'[u] = chan[u] /\ device'[u] = device[u]
        /\ sfd'[u] = sfd[u] /\ connects'[u] = connects[u] /\ refused'[u] = refused[u]
        /\ pc[u] # "idle" => socket'[device[u]] = socket[device[u]]
    BY DEF Frame
  <2>2. Held(u)' = Held(u)
    BY <2>1, HeldIsTable
  <2>3. ASSUME pc[u] # "idle", NEW k \in Channel PROVE HeldFd(u, k)' = HeldFd(u, k)
    BY <2>1, <2>3 DEF HeldFd
  <2>4. ThreadInv(u)'
    BY <2>1 DEF IInv, ThreadInv, Connecting, Exchanging, InSession, Using
  <2> QED BY <2>2, <2>3, <2>4
<1>2. \A u \in Threads : Held(u) \subseteq Channel /\ (pc[u] = "idle" => Held(u) = {})
  <2>1. \A u \in Threads : pc[u] \in Points /\ chan[u] \in Channel
    BY DEF IInv, TypeOK
  <2> QED BY <2>1, HeldIsTable, HeldTable DEF HeldFor, Channel
<1>3. DescriptorsOwn'
  <2>1. ASSUME ~ended', NEW u \in Threads \ {t}, NEW k \in Held(u)
        PROVE  owner'[HeldFd(u, k)'] = <<u, k>>
    <3>1. HeldFd(u, k) \in FD /\ owner[HeldFd(u, k)] = <<u, k>>
      BY <2>1, HeldInFD DEF IInv, DescriptorsOwn
    <3>2. owner'[HeldFd(u, k)] = owner[HeldFd(u, k)]
      BY <2>1, <3>1 DEF Hands, Nobody
    <3>3. HeldFd(u, k)' = HeldFd(u, k)
      BY <1>1, <1>2, <2>1
    <3> QED BY <3>1, <3>2, <3>3
  <2> QED BY <1>1, <2>1 DEF DescriptorsOwn, OwnInv
<1>4. AsyncNeverLeaks'
  <2>1. ASSUME NEW u \in Threads \ {t}, NEW fd \in FD, owner'[fd] = <<u, "async">>
        PROVE  "async" \in Held(u)' /\ fd = HeldFd(u, "async")'
    <3>1. owner[fd] = <<u, "async">>
      <4>1. <<u, "async">> # Nobody
        BY DEF Nobody
      <4>2. \A k \in Channel : <<u, "async">> # <<t, k>>
        OBVIOUS
      <4> QED BY <2>1, <4>1, <4>2 DEF Hands
    <3>2. "async" \in Held(u) /\ fd = HeldFd(u, "async")
      BY <3>1 DEF IInv, AsyncNeverLeaks
    <3> QED BY <1>1, <1>2, <3>2
  <2> QED BY <2>1 DEF AsyncNeverLeaks, OwnInv
<1> QED BY <1>1, <1>3, <1>4 DEF IInv

\* Sessions stay with their threads when no thread begins or ends a call.
LEMMA UseKept ==
  ASSUME IInv, UNCHANGED <<allocated, device, taken>>,
         \A u \in Threads : pc'[u] = "idle" <=> pc[u] = "idle"
  PROVE  UseInv'
  BY DEF IInv, UseInv

\* A step that lets nothing go but a sync channel, and moves nothing.
LEMMA OwnKept ==
  ASSUME IInv, NEW t \in Threads, UNCHANGED <<owner, ended>>,
         \A k \in Held(t)' : k \in Held(t) /\ HeldFd(t, k)' = HeldFd(t, k),
         "async" \in Held(t) => "async" \in Held(t)'
  PROVE  OwnInv(t)' /\ Hands(t)
<1>1. OwnInv(t)
  BY DEF IInv, OwnInv, DescriptorsOwn, AsyncNeverLeaks
<1>2. OwnInv(t)'
  BY <1>1 DEF OwnInv
<1> QED BY <1>2 DEF Hands

-----------------------------------------------------------------------------
(* The steps that open and close nothing *)

Walk(t) ==
  \/ OpenFails(t) \/ Request(t) \/ ExchangeFails(t) \/ InitializeResponse(t)
  \/ AsyncInitializeResponse(t) \/ ResponseLate(t) \/ SyncReceive(t) \/ SetSize(t)
  \/ SizeSent(t) \/ SizeNotSent(t) \/ Answer(t) \/ AnswerLate(t) \/ Disconnect(t)
  \/ LateResponse(t) \/ LateFails(t) \/ LateAnswer(t)

\* An exchange that fails on a connection that stays open.
Fails(t) == ExchangeFails(t) \/ LateFails(t)

\* From where to where each of them goes, the channel before and after it.
Moves(p, c, p2, c2) ==
  \/ p = "socket" /\ p2 = ConnectError(c) /\ c2 = c
  \/ p = "request" /\ p2 = "response" /\ c2 = c
  \/ p \in Exchanging /\ p2 = ExchangeError(c) /\ c2 = c
  \/ p \in {"response", "late"} /\ c = "sync" /\ p2 = "socket" /\ c2 = "async"
  \/ p \in {"response", "late"} /\ c = "async" /\ p2 = "open" /\ c2 = c
  \/ p = "response" /\ p2 = "late" /\ c2 = c
  \/ p \in Using \cup {"open"} /\ p2 \in Using \cup {"open", "d_sync"}

\* Each of these steps moves as it should, and only its own thread.
LEMMA WalkMoves ==
  ASSUME IInv, NEW t \in Threads, Walk(t)
  PROVE  /\ UNCHANGED <<allocated, socket, owner, device, sfd, connects, ended, taken>>
         /\ Moves(pc[t], chan[t], pc'[t], chan'[t])
         /\ pc' \in [Threads -> Points] /\ chan' \in [Threads -> Channel]
         /\ \A u \in Threads \ {t} : pc'[u] = pc[u] /\ chan'[u] = chan[u]
         /\ refused' = refused \/ Fails(t)
<1> DEFINE Goal ==
      /\ UNCHANGED <<allocated, socket, owner, device, sfd, connects, ended, taken>>
      /\ Moves(pc[t], chan[t], pc'[t], chan'[t])
      /\ pc' \in [Threads -> Points] /\ chan' \in [Threads -> Channel]
      /\ \A u \in Threads \ {t} : pc'[u] = pc[u] /\ chan'[u] = chan[u]
      /\ refused' = refused \/ Fails(t)
<1>1. pc \in [Threads -> Points] /\ chan \in [Threads -> Channel]
  BY DEF IInv, TypeOK
<1> USE <1>1 DEF Goto, Moves, history, Points, Channel, Connecting, Exchanging, Failing,
                Using, Leaving
<1>2. CASE OpenFails(t)
  BY <1>2 DEF OpenFails, ConnectError
<1>3. CASE Request(t)
  BY <1>3 DEF Request
<1>4. CASE Fails(t)
  <2>1. CASE ExchangeFails(t)
    BY <2>1 DEF ExchangeFails, ExchangeError, Fails
  <2>2. CASE LateFails(t)
    BY <2>2 DEF LateFails, ExchangeError, Fails
  <2> QED BY <1>4, <2>1, <2>2 DEF Fails
<1>5. CASE InitializeResponse(t) \/ AsyncInitializeResponse(t)
  BY <1>5 DEF InitializeResponse, AsyncInitializeResponse
<1>6. CASE ResponseLate(t)
  BY <1>6 DEF ResponseLate
<1>7. CASE SyncReceive(t) \/ SetSize(t)
  BY <1>7 DEF SyncReceive, SetSize
<1>8. CASE SizeSent(t) \/ SizeNotSent(t)
  BY <1>8 DEF SizeSent, SizeNotSent
<1>9. CASE Answer(t) \/ AnswerLate(t) \/ Disconnect(t)
  BY <1>9 DEF Answer, AnswerLate, Disconnect
<1>10. CASE LateResponse(t)
  BY <1>10 DEF LateResponse
<1>11. CASE LateAnswer(t)
  BY <1>11 DEF LateAnswer
<1> QED BY <1>2, <1>3, <1>4, <1>5, <1>6, <1>7, <1>8, <1>9, <1>10, <1>11 DEF Walk, Fails

\* They keep the invariant.
LEMMA WalkKeeps ==
  ASSUME IInv, NEW t \in Threads, Walk(t)
  PROVE  IInv' /\ Frame(t) /\ Hands(t) /\ (ended => ended')
<1>1. /\ UNCHANGED <<allocated, socket, owner, device, sfd, connects, ended, taken>>
      /\ Moves(pc[t], chan[t], pc'[t], chan'[t])
      /\ pc' \in [Threads -> Points] /\ chan' \in [Threads -> Channel]
      /\ \A u \in Threads \ {t} : pc'[u] = pc[u] /\ chan'[u] = chan[u]
      /\ refused' = refused \/ Fails(t)
  BY WalkMoves
<1>2. TypeOK /\ ThreadInv(t)
  BY DEF IInv
<1>3. /\ refused' \in [Threads -> 0 .. MaxConnects]
      /\ \A u \in Threads \ {t} : refused'[u] = refused[u]
      /\ refused'[t] <= connects[t]
      /\ pc'[t] \in Connecting /\ chan'[t] = "sync" => refused'[t] < connects[t]
  <2>1. /\ refused[t] \in 0 .. MaxConnects /\ connects[t] \in 0 .. MaxConnects
        /\ refused \in [Threads -> 0 .. MaxConnects]
    BY <1>2 DEF TypeOK
  <2>2. CASE refused' = refused
    BY <1>1, <1>2, <2>1, <2>2 DEF ThreadInv, Moves, Connecting, Using, ConnectError, ExchangeError
  <2>3. CASE Fails(t)
    <3>1. pc[t] \in Connecting
      BY <2>3 DEF Fails, ExchangeFails, LateFails, Goto, Connecting
    <3>2. refused' = [refused EXCEPT ![t] = IF chan[t] = "sync" THEN @ + 1 ELSE @]
      BY <2>3 DEF Fails, ExchangeFails, LateFails, CountRefused
    <3>3. pc'[t] = ExchangeError(chan[t])
      BY <1>2, <2>3 DEF Fails, ExchangeFails, LateFails, Goto, TypeOK
    <3>4. pc'[t] \notin Connecting
      BY <3>3 DEF ExchangeError, Connecting
    <3> QED BY <1>2, <2>1, <3>1, <3>2, <3>4, ClientAssumption DEF ThreadInv
  <2> QED BY <1>1, <2>2, <2>3
<1>4. TypeOK'
  BY <1>1, <1>2, <1>3 DEF TypeOK
<1>5. pc[t] # "idle" /\ pc'[t] # "idle"
  BY <1>1 DEF Moves, Using, Exchanging, ConnectError, ExchangeError
<1>6. UseInv'
  BY <1>1, <1>5, UseKept
<1>7. Frame(t)
  BY <1>1, <1>3 DEF Frame
<1>8. ThreadInv(t)'
  BY <1>1, <1>2, <1>3, <1>5
     DEF ThreadInv, Moves, Connecting, Exchanging, InSession, Using, ConnectError, ExchangeError,
         TypeOK, Channel
<1>9. /\ \A k \in Held(t)' : k \in Held(t) /\ HeldFd(t, k)' = HeldFd(t, k)
      /\ "async" \in Held(t) => "async" \in Held(t)'
  <2>1. /\ pc[t] \in Points /\ chan[t] \in Channel /\ pc'[t] \in Points /\ chan'[t] \in Channel
        /\ Held(t) = HeldFor(pc[t], chan[t]) /\ Held(t)' = HeldFor(pc'[t], chan'[t])
    BY <1>1, <1>2, HeldIsTable DEF TypeOK
  <2>2. \A k \in Channel : HeldFd(t, k)' =
          IF pc'[t] \in Connecting \cup Failing THEN sfd[t][k] ELSE socket[device[t]][k]
    BY <1>1 DEF HeldFd
  <2> USE <2>1, <2>2, <1>2, HeldTable DEF HeldFd, Connecting, Failing, Using, Exchanging, Channel
  <2>3. CASE pc[t] = "socket" /\ pc'[t] = ConnectError(chan[t]) /\ chan'[t] = chan[t]
    BY <2>3 DEF ConnectError
  <2>4. CASE pc[t] \in Exchanging /\ pc'[t] \in Exchanging /\ chan'[t] = chan[t]
    BY <2>4
  <2>5. CASE /\ pc[t] \in Exchanging /\ pc'[t] = ExchangeError(chan[t])
             /\ chan'[t] = chan[t]
    BY <2>5 DEF ExchangeError
  <2>6. CASE /\ pc[t] \in {"response", "late"} /\ chan[t] = "sync"
             /\ pc'[t] = "socket" /\ chan'[t] = "async"
    BY <2>6
  <2>7. CASE /\ pc[t] \in {"response", "late"} /\ chan[t] = "async"
             /\ pc'[t] = "open" /\ chan'[t] = chan[t]
    BY <2>7 DEF ThreadInv
  <2>8. CASE pc[t] \in Using \cup {"open"} /\ pc'[t] \in Using \cup {"open", "d_sync"}
    BY <2>8
  <2> QED BY <1>1, <2>3, <2>4, <2>5, <2>6, <2>7, <2>8 DEF Moves
<1>10. OwnInv(t)' /\ Hands(t)
  BY <1>1, <1>9, OwnKept
<1> QED BY <1>1, <1>4, <1>6, <1>7, <1>8, <1>10, OthersKept

-----------------------------------------------------------------------------
(* The steps that close a descriptor *)

\* Closing what is held for channel c, and forgetting it, as long as no stream
\* has ended; only the sync channel may stay in the session after one has.
LEMMA CloseKept ==
  ASSUME IInv, NEW t \in Threads, NEW c \in Held(t), ended => ended',
         owner' = [owner EXCEPT ![HeldFd(t, c)] = Nobody],
         ~ended' => \A k \in Held(t)' :
           k \in Held(t) \ {c} /\ HeldFd(t, k)' = HeldFd(t, k),
         "async" \in Held(t) \ {c} =>
           "async" \in Held(t)' /\ HeldFd(t, "async")' = HeldFd(t, "async")
  PROVE  /\ OwnInv(t)' /\ Hands(t)
         /\ owner' \in [FD -> (Threads \X Channel) \cup {Nobody}]
<1>1. /\ owner \in [FD -> (Threads \X Channel) \cup {Nobody}]
      /\ \A k \in Held(t) : HeldFd(t, k) \in FD
      /\ Held(t) \subseteq Channel
  <2>1. pc[t] \in Points /\ chan[t] \in Channel
    BY DEF IInv, TypeOK
  <2>2. Held(t) \subseteq Channel
    BY <2>1, HeldIsTable, HeldTable DEF HeldFor, Channel
  <2> QED BY <2>2, HeldInFD DEF IInv, TypeOK
<1>2. ~ended => \A k \in Held(t) : owner[HeldFd(t, k)] = <<t, k>>
  BY DEF IInv, DescriptorsOwn
<1>3. \A fd \in FD : owner[fd] = <<t, "async">> => "async" \in Held(t) /\ fd = HeldFd(t, "async")
  BY DEF IInv, AsyncNeverLeaks
<1> DEFINE gone == HeldFd(t, c)
<1>4. owner'[gone] = Nobody /\ \A fd \in FD \ {gone} : owner'[fd] = owner[fd]
  BY <1>1
<1>5. Hands(t)
  <2>1. gone \in FD /\ (~ended' => owner[gone] = <<t, c>>) /\ c \in Channel
    BY <1>1, <1>2
  <2> HIDE DEF gone
  <2> QED BY <1>4, <2>1 DEF Hands
<1>6. ASSUME ~ended', NEW k \in Held(t)'
      PROVE  owner'[HeldFd(t, k)'] = <<t, k>>
  <2>1. k \in Held(t) \ {c} /\ HeldFd(t, k)' = HeldFd(t, k)
    BY <1>6
  <2>2. owner[HeldFd(t, k)] = <<t, k>> /\ owner[gone] = <<t, c>> /\ HeldFd(t, k) \in FD
    BY <1>1, <1>2, <1>6, <2>1
  <2>3. HeldFd(t, k) # gone
    BY <2>1, <2>2
  <2> HIDE DEF gone
  <2> QED BY <1>4, <2>1, <2>2, <2>3
<1>7. ASSUME NEW fd \in FD, owner'[fd] = <<t, "async">>
      PROVE  "async" \in Held(t)' /\ fd = HeldFd(t, "async")'
  <2>1. <<t, "async">> # Nobody
    BY DEF Nobody
  <2>2. fd # gone /\ owner[fd] = <<t, "async">>
    BY <1>4, <1>7, <2>1
  <2>3. "async" \in Held(t) \ {c} /\ fd = HeldFd(t, "async")
    BY <1>3, <2>2
  <2> QED BY <2>3
<1>8. owner' \in [FD -> (Threads \X Channel) \cup {Nobody}]
  BY <1>1
<1> QED BY <1>5, <1>6, <1>7, <1>8 DEF OwnInv

Closing(t) ==
  \/ ConnectFails(t) \/ ResponseEnds(t) \/ CloseAsync(t) \/ CloseSync(t)
  \/ AnswerEnds(t) \/ DisconnectSync(t) \/ DisconnectAsync(t)

\* From where to where each of them goes, and the channel it closes.
Closes(p, c, p2, k) ==
  \/ p = "connect" /\ p2 = ConnectError(c) /\ k = c
  \/ p \in {"response", "late"} /\ p2 = ExchangeError(c) /\ k = c /\ ended'
  \/ p = "close_async" /\ p2 = "close_sync" /\ k = "async"
  \/ p = "close_sync" /\ p2 = "free" /\ k = "sync"
  \/ p \in {"await", "await_late"} /\ p2 = "open" /\ k = c /\ ended'
  \/ p = "d_sync" /\ p2 = "d_async" /\ k = "sync"
  \/ p = "d_async" /\ p2 = "d_free" /\ k = "async"

\* Each of these steps closes what its thread holds for one channel.
LEMMA ClosingMoves ==
  ASSUME IInv, NEW t \in Threads, Closing(t)
  PROVE  /\ UNCHANGED <<allocated, socket, chan, device, sfd, connects, refused, taken>>
         /\ ended' \in BOOLEAN /\ (ended => ended')
         /\ pc' \in [Threads -> Points] /\ \A u \in Threads \ {t} : pc'[u] = pc[u]
         /\ \E k \in Held(t) : /\ Closes(pc[t], chan[t], pc'[t], k)
                               /\ owner' = [owner EXCEPT ![HeldFd(t, k)] = Nobody]
<1>1. /\ pc \in [Threads -> Points] /\ pc[t] \in Points /\ chan[t] \in Channel
      /\ ended \in BOOLEAN /\ ThreadInv(t)
  BY DEF IInv, TypeOK
<1>2. Held(t) = HeldFor(pc[t], chan[t])
  BY HeldIsTable
<1>3. /\ UNCHANGED <<allocated, socket, chan, device, sfd, connects, refused, taken>>
      /\ ended' \in BOOLEAN /\ (ended => ended')
  <2> USE <1>1 DEF history
  <2>1. CASE ConnectFails(t) \/ ResponseEnds(t) \/ AnswerEnds(t)
    BY <2>1 DEF ConnectFails, ResponseEnds, AnswerEnds
  <2>2. CASE CloseAsync(t) \/ CloseSync(t) \/ DisconnectSync(t) \/ DisconnectAsync(t)
    BY <2>2 DEF CloseAsync, CloseSync, DisconnectSync, DisconnectAsync
  <2> QED BY <2>1, <2>2 DEF Closing
<1>4. pc' \in [Threads -> Points] /\ \A u \in Threads \ {t} : pc'[u] = pc[u]
  <2> USE <1>1 DEF Goto, Points, Connecting, Failing, Using, Leaving, ConnectError, ExchangeError
  <2>1. CASE ConnectFails(t) \/ ResponseEnds(t) \/ AnswerEnds(t)
    BY <2>1 DEF ConnectFails, ResponseEnds, AnswerEnds
  <2>2. CASE CloseAsync(t) \/ CloseSync(t) \/ DisconnectSync(t) \/ DisconnectAsync(t)
    BY <2>2 DEF CloseAsync, CloseSync, DisconnectSync, DisconnectAsync
  <2> QED BY <2>1, <2>2 DEF Closing
<1>5. \E k \in Held(t) : /\ Closes(pc[t], chan[t], pc'[t], k)
                         /\ owner' = [owner EXCEPT ![HeldFd(t, k)] = Nobody]
  <2>1. CASE ConnectFails(t)
    <3>1. pc[t] = "connect" /\ pc'[t] = ConnectError(chan[t])
      BY <1>1, <2>1 DEF ConnectFails, Goto
    <3>2. chan[t] \in Held(t)
      BY <1>1, <1>2, <3>1, HeldTable DEF Exchanging, Using, Channel
    <3>3. owner' = [owner EXCEPT ![HeldFd(t, chan[t])] = Nobody]
      BY <2>1, <3>1 DEF ConnectFails, CloseFd, Fd, HeldFd, Connecting, Failing
    <3> QED BY <3>1, <3>2, <3>3 DEF Closes
  <2>2. CASE ResponseEnds(t)
    <3>1. pc[t] \in {"response", "late"} /\ pc'[t] = ExchangeError(chan[t]) /\ ended'
      BY <1>1, <2>2 DEF ResponseEnds, Goto
    <3>2. chan[t] \in Held(t)
      BY <1>1, <1>2, <3>1, HeldTable DEF Exchanging, Using, Channel
    <3>3. owner' = [owner EXCEPT ![HeldFd(t, chan[t])] = Nobody]
      BY <2>2, <3>1 DEF ResponseEnds, CloseFd, Fd, HeldFd, Connecting, Failing
    <3> QED BY <3>1, <3>2, <3>3 DEF Closes
  <2>3. CASE AnswerEnds(t)
    <3>1. pc[t] \in {"await", "await_late"} /\ pc'[t] = "open" /\ ended'
      BY <1>1, <2>3 DEF AnswerEnds, Goto
    <3>2. chan[t] \in Held(t)
      BY <1>1, <1>2, <3>1, HeldTable DEF Exchanging, Using, Channel
    <3>3. owner' = [owner EXCEPT ![HeldFd(t, chan[t])] = Nobody]
      BY <2>3, <3>1 DEF AnswerEnds, CloseFd, Fd, HeldFd, Connecting, Failing
    <3> QED BY <3>1, <3>2, <3>3 DEF Closes
  <2>4. CASE CloseAsync(t)
    <3>1. pc[t] = "close_async" /\ pc'[t] = "close_sync"
      BY <1>1, <2>4 DEF CloseAsync, Goto
    <3>2. "async" \in Held(t)
      BY <1>1, <1>2, <3>1, HeldTable DEF Exchanging, Using, Channel
    <3>3. owner' = [owner EXCEPT ![HeldFd(t, "async")] = Nobody]
      BY <2>4, <3>1 DEF CloseAsync, CloseFd, Fd, HeldFd, Connecting, Failing
    <3> QED BY <3>1, <3>2, <3>3 DEF Closes
  <2>5. CASE CloseSync(t)
    <3>1. pc[t] = "close_sync" /\ pc'[t] = "free"
      BY <1>1, <2>5 DEF CloseSync, Goto
    <3>2. "sync" \in Held(t)
      BY <1>1, <1>2, <3>1, HeldTable DEF Exchanging, Using, Channel
    <3>3. owner' = [owner EXCEPT ![HeldFd(t, "sync")] = Nobody]
      BY <2>5, <3>1 DEF CloseSync, CloseFd, Fd, HeldFd, Connecting, Failing
    <3> QED BY <3>1, <3>2, <3>3 DEF Closes
  <2>6. ASSUME NEW k \in Channel, CloseRecorded(t, k), pc[t] \in {"d_sync", "d_async"}
        PROVE  owner' = [owner EXCEPT ![HeldFd(t, k)] = Nobody]
    <3>1. socket[device[t]][k] \in FD
      BY <1>1, <2>6 DEF ThreadInv, InSession
    <3>2. socket[device[t]][k] # NoFd
      BY <3>1, ClientAssumption DEF FD, NoFd
    <3> QED BY <2>6, <3>2 DEF CloseRecorded, CloseFd, HeldFd, Connecting, Failing
  <2>7. CASE DisconnectSync(t)
    <3>1. pc[t] = "d_sync" /\ pc'[t] = "d_async"
      BY <1>1, <2>7 DEF DisconnectSync, Goto
    <3>2. "sync" \in Held(t)
      BY <1>1, <1>2, <3>1, HeldTable DEF Exchanging, Using, Channel
    <3>3. owner' = [owner EXCEPT ![HeldFd(t, "sync")] = Nobody]
      BY <2>6, <2>7, <3>1 DEF DisconnectSync, CloseFd, Fd, HeldFd, Connecting, Failing, Channel
    <3> QED BY <3>1, <3>2, <3>3 DEF Closes
  <2>8. CASE DisconnectAsync(t)
    <3>1. pc[t] = "d_async" /\ pc'[t] = "d_free"
      BY <1>1, <2>8 DEF DisconnectAsync, Goto
    <3>2. "async" \in Held(t)
      BY <1>1, <1>2, <3>1, HeldTable DEF Exchanging, Using, Channel
    <3>3. owner' = [owner EXCEPT ![HeldFd(t, "async")] = Nobody]
      BY <2>6, <2>8, <3>1 DEF DisconnectAsync, CloseFd, Fd, HeldFd, Connecting, Failing, Channel
    <3> QED BY <3>1, <3>2, <3>3 DEF Closes
  <2> QED BY <2>1, <2>2, <2>3, <2>4, <2>5, <2>7, <2>8 DEF Closing
<1> QED BY <1>3, <1>4, <1>5

\* They keep the invariant.
LEMMA ClosingKeeps ==
  ASSUME IInv, NEW t \in Threads, Closing(t)
  PROVE  IInv' /\ Frame(t) /\ Hands(t) /\ (ended => ended')
<1>1. /\ UNCHANGED <<allocated, socket, chan, device, sfd, connects, refused, taken>>
      /\ ended' \in BOOLEAN /\ (ended => ended')
      /\ pc' \in [Threads -> Points] /\ \A u \in Threads \ {t} : pc'[u] = pc[u]
  BY ClosingMoves
<1>2. PICK c \in Held(t) : /\ Closes(pc[t], chan[t], pc'[t], c)
                           /\ owner' = [owner EXCEPT ![HeldFd(t, c)] = Nobody]
  BY ClosingMoves
<1>3. /\ TypeOK /\ ThreadInv(t)
      /\ pc[t] \in Points /\ chan[t] \in Channel /\ pc'[t] \in Points
      /\ Held(t) = HeldFor(pc[t], chan[t]) /\ Held(t)' = HeldFor(pc'[t], chan[t])
  BY <1>1, HeldIsTable DEF IInv, TypeOK
<1>4. /\ ~ended' => \A k \in Held(t)' :
           k \in Held(t) \ {c} /\ HeldFd(t, k)' = HeldFd(t, k)
      /\ "async" \in Held(t) \ {c} =>
           "async" \in Held(t)' /\ HeldFd(t, "async")' = HeldFd(t, "async")
  <2>1. \A k \in Channel : HeldFd(t, k)' =
          IF pc'[t] \in Connecting \cup Failing THEN sfd[t][k] ELSE socket[device[t]][k]
    BY <1>1 DEF HeldFd
  <2> USE <1>2, <1>3, <2>1, HeldTable
      DEF HeldFd, Connecting, Failing, Using, Exchanging, Channel, ConnectError, ExchangeError
  <2>2. CASE pc[t] = "connect" /\ pc'[t] = ConnectError(chan[t]) /\ c = chan[t]
    BY <2>2
  <2>3. CASE pc[t] \in {"response", "late"} /\ pc'[t] = ExchangeError(chan[t])
             /\ c = chan[t] /\ ended'
    BY <2>3
  <2>4. CASE \/ pc[t] = "close_async" /\ pc'[t] = "close_sync" /\ c = "async"
             \/ pc[t] = "close_sync" /\ pc'[t] = "free" /\ c = "sync"
    BY <2>4
  <2>5. CASE pc[t] \in {"await", "await_late"} /\ pc'[t] = "open" /\ c = chan[t] /\ ended'
    BY <2>5
  <2>6. CASE \/ pc[t] = "d_sync" /\ pc'[t] = "d_async" /\ c = "sync"
             \/ pc[t] = "d_async" /\ pc'[t] = "d_free" /\ c = "async"
    BY <2>6
  <2> QED BY <1>2, <2>2, <2>3, <2>4, <2>5, <2>6 DEF Closes
<1>5. /\ OwnInv(t)' /\ Hands(t)
      /\ owner' \in [FD -> (Threads \X Channel) \cup {Nobody}]
  BY <1>1, <1>2, <1>4, CloseKept
<1>6. TypeOK'
  BY <1>1, <1>3, <1>5 DEF TypeOK
<1>7. pc[t] # "idle" /\ pc'[t] # "idle"
  BY <1>2 DEF Closes, ConnectError, ExchangeError
<1>8. UseInv'
  BY <1>1, <1>7, UseKept
<1>9. Frame(t)
  BY <1>1 DEF Frame
<1>10. ThreadInv(t)'
  BY <1>1, <1>2, <1>3, <1>7
     DEF ThreadInv, Closes, Connecting, Exchanging, InSession, Using, ConnectError,
         ExchangeError, Channel
<1> QED BY <1>1, <1>5, <1>6, <1>8, <1>9, <1>10, OthersKept

-----------------------------------------------------------------------------
(* The steps of hs_connect that open a channel *)

\* socket gives a descriptor nobody has.
LEMMA OpenSocketKeeps ==
  ASSUME IInv, NEW t \in Threads, OpenSocket(t)
  PROVE  IInv' /\ Frame(t) /\ Hands(t) /\ (ended => ended')
<1>1. PICK fd \in FD : /\ owner[fd] = Nobody
                       /\ owner' = [owner EXCEPT ![fd] = <<t, chan[t]>>]
                       /\ sfd' = [sfd EXCEPT ![t][chan[t]] = fd]
  BY DEF OpenSocket
<1>2. /\ pc[t] = "socket" /\ pc' = [pc EXCEPT ![t] = "connect"]
      /\ UNCHANGED <<allocated, socket, chan, device, connects, refused, ended, taken>>
  BY DEF OpenSocket, Goto, history
<1>3. /\ TypeOK /\ ThreadInv(t) /\ chan[t] \in Channel /\ pc \in [Threads -> Points]
      /\ sfd \in [Threads -> [Channel -> FD \cup {NoFd}]]
      /\ owner \in [FD -> (Threads \X Channel) \cup {Nobody}]
  BY DEF IInv, TypeOK
<1>4. /\ pc'[t] = "connect" /\ "connect" \in Points
      /\ \A u \in Threads \ {t} : pc'[u] = pc[u] /\ sfd'[u] = sfd[u]
      /\ sfd'[t][chan[t]] = fd
      /\ \A k \in Channel \ {chan[t]} : sfd'[t][k] = sfd[t][k]
      /\ owner'[fd] = <<t, chan[t]>> /\ \A f \in FD \ {fd} : owner'[f] = owner[f]
  BY <1>1, <1>2, <1>3 DEF Points, Connecting
<1>5. TypeOK'
  <2>1. sfd' \in [Threads -> [Channel -> FD \cup {NoFd}]]
    BY <1>1, <1>3
  <2>2. owner' \in [FD -> (Threads \X Channel) \cup {Nobody}]
    BY <1>1, <1>3
  <2>3. pc' \in [Threads -> Points]
    BY <1>2, <1>3, <1>4
  <2> QED BY <1>2, <1>3, <2>1, <2>2, <2>3 DEF TypeOK
<1>6. UseInv'
  <2>1. \A u \in Threads : pc'[u] = "idle" <=> pc[u] = "idle"
    BY <1>2, <1>4
  <2> QED BY <1>2, <2>1, UseKept
<1>7. Frame(t)
  BY <1>2, <1>4 DEF Frame
<1>8. Hands(t)
  BY <1>1, <1>3, <1>4 DEF Hands
<1>9. ThreadInv(t)'
  BY <1>2, <1>3, <1>4 DEF ThreadInv, Connecting, Exchanging, InSession, Using, Channel
<1>10. OwnInv(t)'
  <2>1. /\ Held(t) = IF chan[t] = "async" THEN {"sync"} ELSE {}
        /\ Held(t)' = IF chan[t] = "async" THEN Channel ELSE {"sync"}
    <3>1. Held(t) = HeldFor("socket", chan[t]) /\ Held(t)' = HeldFor("connect", chan[t])
      BY <1>2, <1>4, HeldIsTable
    <3>2. "socket" \in Points /\ "connect" \in Points
      BY DEF Points, Connecting
    <3> QED BY <1>3, <3>1, <3>2, HeldTable
  <2>2. \A k \in Channel : HeldFd(t, k) = sfd[t][k] /\ HeldFd(t, k)' = sfd'[t][k]
    BY <1>2, <1>4 DEF HeldFd, Connecting
  <2>3. ASSUME ~ended', NEW k \in Held(t)' PROVE owner'[HeldFd(t, k)'] = <<t, k>>
    <3>1. CASE k = chan[t]
      BY <1>3, <1>4, <2>2, <3>1
    <3>2. CASE k # chan[t]
      <4>1. k = "sync" /\ chan[t] = "async" /\ k \in Held(t) /\ k \in Channel
        BY <1>3, <2>1, <2>3, <3>2 DEF Channel
      <4>2. owner[sfd[t][k]] = <<t, k>> /\ sfd[t][k] \in FD
        BY <1>2, <2>2, <2>3, <4>1, HeldInFD DEF IInv, DescriptorsOwn
      <4>3. <<t, k>> # Nobody
        BY DEF Nobody
      <4>4. sfd[t][k] # fd
        BY <1>1, <4>2, <4>3
      <4> QED BY <1>4, <2>2, <3>2, <4>1, <4>2, <4>4
    <3> QED BY <3>1, <3>2
  <2>4. ASSUME NEW f \in FD, owner'[f] = <<t, "async">>
        PROVE  "async" \in Held(t)' /\ f = HeldFd(t, "async")'
    <3>1. owner[f] # <<t, "async">>
      BY <2>1, <2>4 DEF IInv, AsyncNeverLeaks
    <3>2. f = fd /\ chan[t] = "async"
      BY <1>4, <2>4, <3>1
    <3> QED BY <1>4, <2>1, <2>2, <3>2 DEF Channel
  <2> QED BY <2>3, <2>4 DEF OwnInv
<1> QED BY <1>2, <1>5, <1>6, <1>7, <1>8, <1>9, <1>10, OthersKept

\* The session records the descriptor hs_connect holds.
LEMMA ConnectedKeeps ==
  ASSUME IInv, NEW t \in Threads, Connected(t)
  PROVE  IInv' /\ Frame(t) /\ Hands(t) /\ (ended => ended')
<1>1. /\ pc[t] = "connect" /\ pc' = [pc EXCEPT ![t] = "request"]
      /\ socket' = [socket EXCEPT ![device[t]][chan[t]] = sfd[t][chan[t]]]
      /\ UNCHANGED <<allocated, owner, chan, device, sfd, connects, refused, ended, taken>>
  BY DEF Connected, Goto, history
<1>2. /\ TypeOK /\ ThreadInv(t) /\ chan[t] \in Channel /\ pc \in [Threads -> Points]
      /\ socket \in [Handle -> [Channel -> FD \cup {NoFd}]]
      /\ sfd \in [Threads -> [Channel -> FD \cup {NoFd}]]
      /\ device \in [Threads -> Handle \cup {NoDevice}]
  BY DEF IInv, TypeOK
<1>3. device[t] \in Handle
  BY <1>1, <1>2 DEF ThreadInv
<1>4. /\ pc'[t] = "request" /\ "request" \in Points
      /\ \A u \in Threads \ {t} : pc'[u] = pc[u]
      /\ socket'[device[t]][chan[t]] = sfd[t][chan[t]]
      /\ \A k \in Channel \ {chan[t]} : socket'[device[t]][k] = socket[device[t]][k]
      /\ \A h \in Handle \ {device[t]} : socket'[h] = socket[h]
  BY <1>1, <1>2, <1>3 DEF Points, Connecting
<1>5. TypeOK'
  <2>1. socket' \in [Handle -> [Channel -> FD \cup {NoFd}]]
    BY <1>1, <1>2, <1>3
  <2>2. pc' \in [Threads -> Points]
    BY <1>1, <1>2, <1>4
  <2> QED BY <1>1, <1>2, <2>1, <2>2 DEF TypeOK
<1>6. UseInv'
  <2>1. \A u \in Threads : pc'[u] = "idle" <=> pc[u] = "idle"
    BY <1>1, <1>4
  <2> QED BY <1>1, <2>1, UseKept
<1>7. Frame(t)
  <2>1. ASSUME NEW u \in Threads \ {t}, pc[u] # "idle"
        PROVE  device[u] \in Handle \ {device[t]}
    BY <1>1, <1>2, <2>1 DEF IInv, UseInv, ThreadInv
  <2> QED BY <1>1, <1>4, <2>1 DEF Frame
<1>8. ThreadInv(t)'
  BY <1>1, <1>2, <1>4 DEF ThreadInv, Connecting, Exchanging, InSession, Using, Channel
<1>9. /\ \A k \in Held(t)' : k \in Held(t) /\ HeldFd(t, k)' = HeldFd(t, k)
      /\ "async" \in Held(t) => "async" \in Held(t)'
  <2>1. Held(t) = HeldFor("connect", chan[t]) /\ Held(t)' = HeldFor("request", chan[t])
    BY <1>1, <1>4, HeldIsTable
  <2>2. Held(t)' = Held(t)
    BY <1>2, <2>1, HeldTable DEF Points, Connecting, Exchanging
  <2>3. \A k \in Held(t) : HeldFd(t, k) = sfd[t][k] /\ HeldFd(t, k)' = sfd[t][k]
    BY <1>1, <1>4 DEF HeldFd, Connecting
  <2> QED BY <2>2, <2>3
<1>10. OwnInv(t)' /\ Hands(t)
  BY <1>1, <1>9, OwnKept
<1> QED BY <1>1, <1>5, <1>6, <1>7, <1>8, <1>10, OthersKept

-----------------------------------------------------------------------------
(* The first and the last step of a device *)

\* A thread that connects gets a session of its own; one that finds the table
\* full stays as it is.
LEMMA ConnectCallKeeps ==
  ASSUME IInv, NEW t \in Threads, ConnectCall(t) \/ ConnectRefused(t)
  PROVE  IInv' /\ Frame(t) /\ Hands(t) /\ (ended => ended')
<1>1. /\ TypeOK /\ ThreadInv(t) /\ pc \in [Threads -> Points] /\ chan \in [Threads -> Channel]
      /\ device \in [Threads -> Handle \cup {NoDevice}]
      /\ allocated \in [Handle -> BOOLEAN]
      /\ socket \in [Handle -> [Channel -> FD \cup {NoFd}]]
      /\ connects \in [Threads -> 0 .. MaxConnects] /\ refused[t] \in 0 .. MaxConnects
  BY DEF IInv, TypeOK
<1>2. /\ connects[t] < MaxConnects /\ connects' = [connects EXCEPT ![t] = @ + 1]
      /\ pc[t] = "idle" /\ UNCHANGED <<owner, sfd, refused, ended, taken>>
  BY DEF ConnectCall, ConnectRefused, Goto
<1>3. /\ connects' \in [Threads -> 0 .. MaxConnects] /\ refused'[t] < connects'[t]
      /\ \A u \in Threads \ {t} : connects'[u] = connects[u]
  BY <1>1, <1>2, ClientAssumption DEF ThreadInv
<1>4. CASE ConnectRefused(t)
  <2>1. UNCHANGED <<allocated, socket, pc, chan, device>>
    BY <1>4 DEF ConnectRefused
  <2>2. TypeOK'
    BY <1>1, <1>2, <1>3, <2>1 DEF TypeOK
  <2>3. UseInv'
    BY <1>2, <2>1 DEF IInv, UseInv
  <2>4. Frame(t)
    BY <1>2, <1>3, <2>1 DEF Frame
  <2>5. ThreadInv(t)'
    BY <1>1, <1>2, <1>3, <2>1 DEF ThreadInv, Connecting, Exchanging, InSession, Using
  <2>6. Held(t)' = Held(t) /\ Held(t) = {}
    <3>1. Held(t) = HeldFor("idle", chan[t]) /\ Held(t)' = HeldFor("idle", chan[t])
      BY <1>2, <2>1, HeldIsTable
    <3> QED BY <1>1, <3>1, HeldTable DEF Points
  <2>7. OwnInv(t)' /\ Hands(t)
    BY <1>2, <2>6, OwnKept
  <2> QED BY <1>2, <2>2, <2>3, <2>4, <2>5, <2>7, OthersKept
<1>5. CASE ConnectCall(t)
  <2>1. PICK h \in Handle :
          /\ ~allocated[h]
          /\ allocated' = [allocated EXCEPT ![h] = TRUE]
          /\ socket' = [socket EXCEPT ![h] = [k \in Channel |-> NoFd]]
          /\ device' = [device EXCEPT ![t] = h]
    BY <1>5 DEF ConnectCall
  <2>2. pc' = [pc EXCEPT ![t] = "socket"] /\ chan' = [chan EXCEPT ![t] = "sync"]
    BY <1>5 DEF ConnectCall, Goto
  <2>3. /\ pc'[t] = "socket" /\ "socket" \in Points /\ chan'[t] = "sync" /\ device'[t] = h
        /\ \A u \in Threads \ {t} : pc'[u] = pc[u] /\ chan'[u] = chan[u] /\ device'[u] = device[u]
        /\ \A g \in Handle \ {h} : socket'[g] = socket[g] /\ allocated'[g] = allocated[g]
        /\ allocated'[h] = TRUE
    BY <1>1, <2>1, <2>2 DEF Points, Connecting
  <2>4. h \notin taken /\ \A u \in Threads : device[u] # h
    <3>1. h \notin taken
      BY <2>1 DEF IInv, UseInv
    <3>2. ASSUME NEW u \in Threads, device[u] = h PROVE FALSE
      <4>1. pc[u] # "idle"
        BY <3>2, ClientAssumption DEF IInv, ThreadInv, Handle, NoDevice
      <4> QED BY <2>1, <3>2, <4>1 DEF IInv, UseInv
    <3> QED BY <3>1, <3>2
  <2>5. TypeOK'
    <3>1. pc' \in [Threads -> Points] /\ chan' \in [Threads -> Channel]
      BY <1>1, <2>2, <2>3 DEF Channel
    <3>2. /\ allocated' \in [Handle -> BOOLEAN]
          /\ device' \in [Threads -> Handle \cup {NoDevice}]
      BY <1>1, <2>1
    <3>3. socket' \in [Handle -> [Channel -> FD \cup {NoFd}]]
      BY <1>1, <2>1
    <3> QED BY <1>1, <1>2, <1>3, <3>1, <3>2, <3>3 DEF TypeOK
  <2>6. UseInv'
    <3>1. \A g \in taken' : allocated'[g]
      BY <1>1, <1>2, <2>3, <2>4 DEF IInv, UseInv, TypeOK
    <3>2. ASSUME NEW u \in Threads, pc'[u] # "idle"
          PROVE  /\ allocated'[device'[u]] /\ device'[u] \notin taken'
                 /\ \A w \in Threads \ {u} : device'[w] # device'[u]
      <4>1. CASE u = t
        BY <1>2, <2>3, <2>4, <4>1
      <4>2. CASE u # t
        <5>1. device[u] \in Handle \ {h}
          BY <1>1, <2>3, <2>4, <3>2, <4>2 DEF IInv, ThreadInv
        <5> QED BY <1>2, <2>3, <2>4, <3>2, <4>2, <5>1 DEF IInv, UseInv
      <4> QED BY <4>1, <4>2
    <3>3. ASSUME NEW g \in Handle \ taken', allocated'[g]
          PROVE  \E u \in Threads : device'[u] = g
      <4>1. CASE g = h
        BY <2>3, <4>1
      <4>2. CASE g # h
        <5>1. PICK u \in Threads : device[u] = g
          BY <1>2, <2>3, <3>3, <4>2 DEF IInv, UseInv
        <5>2. u # t
          BY <1>1, <1>2, <5>1, ClientAssumption DEF ThreadInv, Handle, NoDevice
        <5> QED BY <2>3, <5>1, <5>2
      <4> QED BY <4>1, <4>2
    <3> QED BY <3>1, <3>2, <3>3 DEF UseInv
  <2>7. Frame(t)
    <3>1. ASSUME NEW u \in Threads \ {t}, pc[u] # "idle"
          PROVE  device[u] \in Handle \ {h}
      BY <1>1, <2>4, <3>1 DEF IInv, ThreadInv
    <3> QED BY <1>2, <1>3, <2>3, <3>1 DEF Frame
  <2>8. ThreadInv(t)'
    <3>1. device'[t] # NoDevice
      BY <2>3, ClientAssumption DEF Handle, NoDevice
    <3>2. refused'[t] <= connects'[t]
      <4>1. refused'[t] \in Nat /\ connects'[t] \in Nat
        BY <1>1, <1>2, <1>3
      <4> QED BY <1>3, <4>1
    <3> QED BY <1>3, <2>3, <3>1, <3>2
            DEF ThreadInv, Connecting, Exchanging, InSession, Using
  <2>9. Held(t) = {} /\ Held(t)' = {}
    <3>1. Held(t) = HeldFor("idle", chan[t]) /\ Held(t)' = HeldFor("socket", "sync")
      BY <1>2, <2>3, HeldIsTable
    <3> QED BY <1>1, <3>1, HeldTable DEF Points, Connecting, Channel
  <2>10. OwnInv(t)' /\ Hands(t)
    BY <1>2, <2>9, OwnKept
  <2> QED BY <1>2, <2>5, <2>6, <2>7, <2>8, <2>10, OthersKept
<1> QED BY <1>4, <1>5

\* session_free gives up what was this thread's alone.
LEMMA FreeSessionKeeps ==
  ASSUME IInv, NEW t \in Threads, FreeSession(t)
  PROVE  IInv' /\ Frame(t) /\ Hands(t) /\ (ended => ended')
<1>1. /\ pc[t] \in {"free", "d_free"} /\ pc' = [pc EXCEPT ![t] = "idle"]
      /\ allocated' = [allocated EXCEPT ![device[t]] = FALSE]
      /\ device' = [device EXCEPT ![t] = NoDevice]
      /\ sfd' = [sfd EXCEPT ![t] = [k \in Channel |-> NoFd]]
      /\ UNCHANGED <<socket, owner, chan, connects, refused, ended, taken>>
  BY DEF FreeSession, Goto, history
<1>2. /\ TypeOK /\ ThreadInv(t) /\ pc \in [Threads -> Points] /\ chan[t] \in Channel
      /\ device \in [Threads -> Handle \cup {NoDevice}]
      /\ allocated \in [Handle -> BOOLEAN] /\ taken \subseteq Handle
      /\ sfd \in [Threads -> [Channel -> FD \cup {NoFd}]]
  BY DEF IInv, TypeOK
<1>3. /\ device[t] \in Handle \ taken
      /\ \A u \in Threads \ {t} : device[u] # device[t]
  BY <1>1, <1>2 DEF IInv, UseInv, ThreadInv
<1>4. /\ pc'[t] = "idle" /\ "idle" \in Points /\ device'[t] = NoDevice
      /\ \A u \in Threads \ {t} : pc'[u] = pc[u] /\ device'[u] = device[u] /\ sfd'[u] = sfd[u]
      /\ ~allocated'[device[t]]
      /\ \A h \in Handle \ {device[t]} : allocated'[h] = allocated[h]
  BY <1>1, <1>2, <1>3 DEF Points
<1>5. TypeOK'
  <2>1. pc' \in [Threads -> Points] /\ device' \in [Threads -> Handle \cup {NoDevice}]
    BY <1>1, <1>2, <1>4
  <2>2. allocated' \in [Handle -> BOOLEAN]
    BY <1>1, <1>2
  <2>3. sfd' \in [Threads -> [Channel -> FD \cup {NoFd}]]
    BY <1>1, <1>2
  <2> QED BY <1>1, <1>2, <2>1, <2>2, <2>3 DEF TypeOK
<1>6. UseInv'
  <2>1. \A h \in taken' : allocated'[h]
    BY <1>1, <1>2, <1>3, <1>4 DEF IInv, UseInv
  <2>2. ASSUME NEW u \in Threads, pc'[u] # "idle"
        PROVE  /\ allocated'[device'[u]] /\ device'[u] \notin taken'
               /\ \A w \in Threads \ {u} : device'[w] # device'[u]
    <3>1. u # t /\ device[u] \in Handle \ {device[t]} /\ device'[u] = device[u]
      BY <1>2, <1>3, <1>4, <2>2 DEF IInv, ThreadInv
    <3>2. device'[t] # device'[u]
      BY <1>4, <3>1, ClientAssumption DEF Handle, NoDevice
    <3> QED BY <1>1, <1>4, <2>2, <3>1, <3>2 DEF IInv, UseInv
  <2>3. ASSUME NEW h \in Handle \ taken', allocated'[h]
        PROVE  \E u \in Threads : device'[u] = h
    <3>1. h # device[t] /\ allocated[h]
      BY <1>4, <2>3
    <3>2. PICK u \in Threads : device[u] = h
      BY <1>1, <2>3, <3>1 DEF IInv, UseInv
    <3> QED BY <1>4, <3>1, <3>2
  <2> QED BY <2>1, <2>2, <2>3 DEF UseInv
<1>7. Frame(t)
  BY <1>1, <1>4 DEF Frame
<1>8. ThreadInv(t)'
  BY <1>1, <1>2, <1>4 DEF ThreadInv, Connecting, Exchanging, InSession, Using
<1>9. Held(t) = {} /\ Held(t)' = {}
  <2>1. Held(t) = HeldFor(pc[t], chan[t]) /\ Held(t)' = HeldFor("idle", chan[t])
    BY <1>1, <1>4, HeldIsTable
  <2>2. pc[t] \in Points
    BY <1>2
  <2> QED BY <1>1, <1>2, <1>4, <2>1, <2>2, HeldTable
<1>10. OwnInv(t)' /\ Hands(t)
  BY <1>1, <1>9, OwnKept
<1> QED BY <1>1, <1>5, <1>6, <1>7, <1>8, <1>10, OthersKept

-----------------------------------------------------------------------------
(* Theorems *)

\* Before the first call nothing is open and nothing is held.
LEMMA InitIInv == Init => IInv
<1> SUFFICES ASSUME Init PROVE IInv
  OBVIOUS
<1>1. TypeOK
  <2>1. /\ \A h \in Handle : (h \in taken) \in BOOLEAN
        /\ taken \subseteq Handle
    BY DEF Init
  <2>2. allocated \in [Handle -> BOOLEAN]
    BY <2>1 DEF Init
  <2>3. /\ "idle" \in Points /\ "sync" \in Channel /\ 0 \in 0 .. MaxConnects
    BY ClientAssumption DEF Points, Channel
  <2> QED BY <2>1, <2>2, <2>3 DEF Init, TypeOK
<1>2. UseInv
  <2>1. \A h \in Handle : allocated[h] <=> h \in taken
    BY DEF Init
  <2>2. \A t \in Threads : pc[t] = "idle"
    BY DEF Init
  <2>3. taken \subseteq Handle
    BY DEF Init
  <2> QED BY <2>1, <2>2, <2>3 DEF UseInv
<1>3. \A t \in Threads : ThreadInv(t)
  BY DEF Init, ThreadInv, Connecting, Exchanging, InSession, Using
<1>4. \A t \in Threads : Held(t) = {}
  <2>1. \A t \in Threads : Held(t) = HeldFor("idle", "sync")
    BY HeldIsTable DEF Init
  <2> QED BY <2>1, HeldTable DEF Points, Channel
<1>5. DescriptorsOwn
  BY <1>4 DEF DescriptorsOwn
<1>6. AsyncNeverLeaks
  <2>1. \A t \in Threads, fd \in FD : owner[fd] # <<t, "async">>
    BY DEF Init, Nobody
  <2> QED BY <2>1 DEF AsyncNeverLeaks
<1> QED BY <1>1, <1>2, <1>3, <1>5, <1>6 DEF IInv

\* Every step keeps the invariant.
LEMMA NextIInv == IInv /\ [Next]_vars => IInv'
<1> SUFFICES ASSUME IInv, [Next]_vars PROVE IInv'
  OBVIOUS
<1>1. ASSUME NEW t \in Threads, Call(t) \/ Progress(t) \/ NoAnswer(t) PROVE IInv'
  <2>1. \/ Walk(t) \/ Closing(t) \/ OpenSocket(t) \/ Connected(t)
        \/ ConnectCall(t) \/ ConnectRefused(t) \/ FreeSession(t)
    BY <1>1 DEF Call, Progress, NoAnswer, Walk, Closing
  <2> QED BY <2>1, WalkKeeps, ClosingKeeps, OpenSocketKeeps, ConnectedKeeps,
             ConnectCallKeeps, FreeSessionKeeps
<1>2. CASE UNCHANGED vars
  <2>1. \A t \in Threads : ThreadInv(t)'
    BY <1>2 DEF vars, IInv, ThreadInv
  <2>2. \A t \in Threads : /\ Held(t)' = Held(t)
                           /\ \A k \in Channel : HeldFd(t, k)' = HeldFd(t, k)
    BY <1>2 DEF vars, Held, HeldFd
  <2>3. \A t \in Threads : Held(t) \subseteq Channel
    <3>1. \A t \in Threads : pc[t] \in Points /\ chan[t] \in Channel
      BY DEF IInv, TypeOK
    <3> QED BY <3>1, HeldIsTable, HeldTable DEF HeldFor, Channel
  <2>4. DescriptorsOwn' /\ AsyncNeverLeaks'
    BY <1>2, <2>2, <2>3 DEF vars, IInv, DescriptorsOwn, AsyncNeverLeaks, Channel
  <2>5. TypeOK' /\ UseInv'
    BY <1>2 DEF vars, IInv, TypeOK, UseInv
  <2> QED BY <2>1, <2>4, <2>5 DEF IInv
<1> QED BY <1>1, <1>2 DEF Next

\* The invariant holds, whatever the server and the network do.
THEOREM IInvHolds == Spec => []IInv
<1>1. Init => IInv
  BY InitIInv
<1>2. IInv /\ [Next]_vars => IInv'
  BY NextIInv
<1> QED BY <1>1, <1>2, PTL DEF Spec

\* Every variable of the client keeps its type.
THEOREM TypeCorrect == Spec => []TypeOK
<1>1. IInv => TypeOK
  BY DEF IInv
<1> QED BY <1>1, IInvHolds, PTL

\* As long as no stream has ended, a call touches only its own descriptors.
THEOREM OwnDescriptors == Spec => []DescriptorsOwn
<1>1. IInv => DescriptorsOwn
  BY DEF IInv
<1> QED BY <1>1, IInvHolds, PTL

\* No path of hs_connect or hs_disconnect leaks an async channel.
THEOREM AsyncKept == Spec => []AsyncNeverLeaks
<1>1. IInv => AsyncNeverLeaks
  BY DEF IInv
<1> QED BY <1>1, IInvHolds, PTL

\* An entry is in use exactly if one thread works with it: no path of hs_connect
\* loses a session or frees it twice.
THEOREM SessionsAccounted == Spec => []SessionsInUse
<1>1. IInv => SessionsInUse
  <2> SUFFICES ASSUME IInv, NEW h \in Handle \ taken
               PROVE  allocated[h] <=>
                        Cardinality({t \in Threads : pc[t] # "idle" /\ device[t] = h}) = 1
    BY DEF SessionsInUse
  <2> DEFINE users == {t \in Threads : pc[t] # "idle" /\ device[t] = h}
  <2>1. \A t \in Threads : device[t] = h => t \in users
    BY ClientAssumption DEF IInv, ThreadInv, Handle, NoDevice
  <2>2. CASE allocated[h]
    <3>1. PICK t \in Threads : device[t] = h
      BY <2>2 DEF IInv, UseInv
    <3>2. users = {t}
      BY <2>1, <3>1 DEF IInv, UseInv
    <3> QED BY <2>2, <3>2, FS_Singleton
  <2>3. CASE ~allocated[h]
    <3>1. users = {}
      BY <2>3 DEF IInv, UseInv
    <3> QED BY <2>3, <3>1, FS_EmptySet
  <2> QED BY <2>2, <2>3
<1> QED BY <1>1, IInvHolds, PTL
-----------------------------------------------------------------------------
(* The account of the leaked sync channels *)

\* The thread has its sync channel in hand and will close it.
Remembered(t, fd) == "sync" \in Held(t) /\ fd = HeldFd(t, "sync")

\* SyncLeakAccount, of one thread.
LeakInv(t) ==
  /\ Cardinality(LeakedSync(t)) <= refused[t]
  /\ ~ended => Cardinality(LeakedSync(t)) = refused[t]

\* What leaks is part of the process's descriptors.
LEMMA LeaksCounted ==
  ASSUME NEW t \in Threads
  PROVE  /\ IsFiniteSet(LeakedSync(t)) /\ IsFiniteSet(LeakedSync(t)')
         /\ Cardinality(LeakedSync(t)) \in Nat /\ Cardinality(LeakedSync(t)') \in Nat
<1>1. IsFiniteSet(FD)
  <2>1. MaxFds - 1 \in Int
    BY ClientAssumption
  <2> QED BY <2>1, FS_Interval DEF FD
<1>2. LeakedSync(t) \subseteq FD /\ LeakedSync(t)' \subseteq FD
  BY DEF LeakedSync
<1>3. IsFiniteSet(LeakedSync(t)) /\ IsFiniteSet(LeakedSync(t)')
  BY <1>1, <1>2, FS_Subset
<1> QED BY <1>3, FS_CardinalityType

\* A step after which a thread has leaked no more keeps its account, if it has
\* leaked no less either as long as no stream has ended.
LEMMA AccountKept ==
  ASSUME TypeOK, NEW t \in Threads, LeakInv(t), refused'[t] = refused[t], ended => ended',
         LeakedSync(t)' \subseteq LeakedSync(t),
         ~ended' => LeakedSync(t) \subseteq LeakedSync(t)'
  PROVE  LeakInv(t)'
<1>1. refused[t] \in Nat
  BY ClientAssumption DEF TypeOK
<1>2. Cardinality(LeakedSync(t)') <= Cardinality(LeakedSync(t))
  BY LeaksCounted, FS_Subset
<1>3. Cardinality(LeakedSync(t)') <= refused'[t]
  BY <1>1, <1>2, LeaksCounted DEF LeakInv
<1>4. ~ended' => Cardinality(LeakedSync(t)') = refused'[t]
  <2>1. ~ended' => LeakedSync(t)' = LeakedSync(t)
    OBVIOUS
  <2> QED BY <2>1 DEF LeakInv
<1> QED BY <1>3, <1>4 DEF LeakInv

\* Other threads leak nothing of this thread's, and close nothing of it as long as
\* no stream has ended.
LEMMA OthersLeak ==
  ASSUME IInv, NEW t \in Threads, Frame(t), Hands(t), ended => ended',
         NEW u \in Threads \ {t}, LeakInv(u)
  PROVE  LeakInv(u)'
<1>1. /\ pc'[u] = pc[u] /\ chan'[u] = chan[u] /\ device'[u] = device[u]
      /\ sfd'[u] = sfd[u] /\ refused'[u] = refused[u]
      /\ pc[u] # "idle" => socket'[device[u]] = socket[device[u]]
  BY DEF Frame
<1>2. Held(u)' = Held(u)
  BY <1>1, HeldIsTable
<1>3. pc[u] # "idle" => HeldFd(u, "sync")' = HeldFd(u, "sync")
  BY <1>1 DEF HeldFd
<1>4. pc[u] = "idle" => "sync" \notin Held(u)
  <2>1. chan[u] \in Channel /\ "idle" \in Points
    BY DEF IInv, TypeOK, Points
  <2> QED BY <2>1, HeldIsTable, HeldTable
<1>5. \A fd \in FD :
        /\ owner'[fd] = <<u, "sync">> => owner[fd] = <<u, "sync">>
        /\ ~ended' /\ owner[fd] = <<u, "sync">> => owner'[fd] = <<u, "sync">>
  <2>1. <<u, "sync">> # Nobody /\ \A k \in Channel : <<u, "sync">> # <<t, k>>
    BY DEF Nobody
  <2> QED BY <2>1 DEF Hands
<1>6. \A fd \in FD : fd \in LeakedSync(u)' =>  fd \in LeakedSync(u)
  BY <1>2, <1>3, <1>4, <1>5 DEF LeakedSync
<1>7. ~ended' => \A fd \in FD : fd \in LeakedSync(u) =>  fd \in LeakedSync(u)'
  BY <1>2, <1>3, <1>4, <1>5 DEF LeakedSync
<1>8. LeakedSync(u) \subseteq FD /\ LeakedSync(u)' \subseteq FD
  BY DEF LeakedSync
<1>9. /\ LeakedSync(u)' \subseteq LeakedSync(u)
      /\ ~ended' => LeakedSync(u) \subseteq LeakedSync(u)'
  BY <1>6, <1>7, <1>8
<1> QED BY <1>1, <1>9, AccountKept DEF IInv

\* A thread whose sync descriptors and memory of them stay the same leaks the same.
LEMMA SameLeak ==
  ASSUME IInv, NEW t \in Threads, LeakInv(t), refused'[t] = refused[t], ended => ended',
         \A fd \in FD : owner'[fd] = <<t, "sync">> /\ ~Remembered(t, fd)' =>
                          owner[fd] = <<t, "sync">> /\ ~Remembered(t, fd),
         ~ended' => \A fd \in FD :
                      owner[fd] = <<t, "sync">> /\ ~Remembered(t, fd) =>
                        owner'[fd] = <<t, "sync">> /\ ~Remembered(t, fd)'
  PROVE  LeakInv(t)'
<1>1. /\ LeakedSync(t) = {fd \in FD : owner[fd] = <<t, "sync">> /\ ~Remembered(t, fd)}
      /\ LeakedSync(t)' = {fd \in FD : owner'[fd] = <<t, "sync">> /\ ~Remembered(t, fd)'}
  BY DEF LeakedSync, Remembered
<1>2. /\ LeakedSync(t)' \subseteq LeakedSync(t)
      /\ ~ended' => LeakedSync(t) \subseteq LeakedSync(t)'
  BY <1>1
<1> QED BY <1>2, AccountKept DEF IInv

\* The steps that open and close nothing remember what they have, but for one: an
\* Initialize exchange that fails, which forgets it and is counted.
LEMMA WalkRemembers ==
  ASSUME IInv, NEW t \in Threads, Walk(t)
  PROVE  /\ UNCHANGED <<owner, ended>>
         /\ \/ /\ refused'[t] = refused[t]
               /\ \A fd \in FD : Remembered(t, fd)' <=> Remembered(t, fd)
            \/ /\ refused'[t] = refused[t] + 1
               /\ "sync" \in Held(t) /\ "sync" \notin Held(t)'
<1>1. /\ UNCHANGED <<allocated, socket, owner, device, sfd, connects, ended, taken>>
      /\ Moves(pc[t], chan[t], pc'[t], chan'[t])
      /\ pc' \in [Threads -> Points] /\ chan' \in [Threads -> Channel]
      /\ refused' = refused \/ Fails(t)
  BY WalkMoves
<1>2. TypeOK /\ ThreadInv(t)
  BY DEF IInv
<1>3. /\ pc[t] \in Points /\ chan[t] \in Channel /\ pc'[t] \in Points /\ chan'[t] \in Channel
      /\ Held(t) = HeldFor(pc[t], chan[t]) /\ Held(t)' = HeldFor(pc'[t], chan'[t])
  BY <1>1, <1>2, HeldIsTable DEF TypeOK
<1>4. HeldFd(t, "sync")' =
        IF pc'[t] \in Connecting \cup Failing THEN sfd[t]["sync"] ELSE socket[device[t]]["sync"]
  BY <1>1 DEF HeldFd
<1>5. CASE Fails(t)
  <2>1. /\ pc[t] \in Exchanging /\ pc'[t] = ExchangeError(chan[t])
        /\ chan'[t] = chan[t]
    BY <1>2, <1>5 DEF Fails, ExchangeFails, LateFails, Goto, TypeOK, Exchanging
  <2>2. refused'[t] = IF chan[t] = "sync" THEN refused[t] + 1 ELSE refused[t]
    BY <1>2, <1>5 DEF Fails, ExchangeFails, LateFails, CountRefused, TypeOK
  <2>3. CASE chan[t] = "sync"
    BY <1>1, <1>3, <2>1, <2>2, <2>3, HeldTable DEF ExchangeError, Exchanging
  <2>4. CASE chan[t] = "async"
    <3>1. "sync" \in Held(t) /\ "sync" \in Held(t)'
      BY <1>3, <2>1, <2>4, HeldTable DEF ExchangeError, Exchanging, Channel
    <3>2. HeldFd(t, "sync")' = HeldFd(t, "sync")
      BY <1>4, <2>1, <2>4 DEF HeldFd, ExchangeError, Connecting, Exchanging, Failing
    <3> QED BY <1>1, <2>2, <2>4, <3>1, <3>2 DEF Remembered
  <2> QED BY <1>3, <2>3, <2>4 DEF Channel
<1>6. CASE refused' = refused /\ ~Fails(t)
  <2>1. ~(pc[t] \in Exchanging /\ pc'[t] = ExchangeError(chan[t]) /\ chan'[t] = chan[t])
    <3> USE <1>2, <1>6 DEF Goto, TypeOK, ExchangeError, Exchanging, Fails
    <3>1. CASE OpenFails(t) \/ Request(t)
      BY <3>1 DEF OpenFails, Request
    <3>2. CASE InitializeResponse(t) \/ AsyncInitializeResponse(t) \/ ResponseLate(t)
      BY <3>2 DEF InitializeResponse, AsyncInitializeResponse, ResponseLate
    <3>3. CASE SyncReceive(t) \/ SetSize(t) \/ SizeSent(t) \/ SizeNotSent(t)
      BY <3>3 DEF SyncReceive, SetSize, SizeSent, SizeNotSent
    <3>4. CASE Answer(t) \/ AnswerLate(t) \/ Disconnect(t)
      BY <3>4 DEF Answer, AnswerLate, Disconnect
    <3>5. CASE LateResponse(t) \/ LateAnswer(t)
      BY <3>5 DEF LateResponse, LateAnswer
    <3> QED BY <3>1, <3>2, <3>3, <3>4, <3>5 DEF Walk
  <2>2. /\ "sync" \in Held(t)' <=> "sync" \in Held(t)
        /\ "sync" \in Held(t) => HeldFd(t, "sync")' = HeldFd(t, "sync")
    <3> USE <1>2, <1>3, <1>4, HeldTable DEF HeldFd, Connecting, Failing, Using, Exchanging, Channel
    <3>1. CASE pc[t] = "socket" /\ pc'[t] = ConnectError(chan[t]) /\ chan'[t] = chan[t]
      BY <3>1 DEF ConnectError
    <3>2. CASE pc[t] \in Exchanging /\ pc'[t] \in Exchanging /\ chan'[t] = chan[t]
      BY <3>2
    <3>3. CASE /\ pc[t] \in {"response", "late"} /\ chan[t] = "sync"
               /\ pc'[t] = "socket" /\ chan'[t] = "async"
      BY <3>3
    <3>4. CASE /\ pc[t] \in {"response", "late"} /\ chan[t] = "async"
               /\ pc'[t] = "open" /\ chan'[t] = chan[t]
      BY <3>4 DEF ThreadInv
    <3>5. CASE pc[t] \in Using \cup {"open"} /\ pc'[t] \in Using \cup {"open", "d_sync"}
      BY <3>5
    <3> QED BY <1>1, <2>1, <3>1, <3>2, <3>3, <3>4, <3>5 DEF Moves
  <2> QED BY <1>1, <1>6, <2>2 DEF Remembered
<1> QED BY <1>1, <1>5, <1>6

\* So they keep the account.
LEMMA WalkCounts ==
  ASSUME IInv, NEW t \in Threads, Walk(t), LeakInv(t)
  PROVE  LeakInv(t)'
<1>1. UNCHANGED <<owner, ended>>
  BY WalkRemembers
<1>2. CASE /\ refused'[t] = refused[t]
           /\ \A fd \in FD : Remembered(t, fd)' <=> Remembered(t, fd)
  BY <1>1, <1>2, SameLeak
<1>3. CASE /\ refused'[t] = refused[t] + 1
           /\ "sync" \in Held(t) /\ "sync" \notin Held(t)'
  <2> DEFINE lost == HeldFd(t, "sync")
  <2>1. lost \in FD /\ (~ended => owner[lost] = <<t, "sync">>)
    BY <1>3, HeldInFD DEF IInv, DescriptorsOwn
  <2>2. refused[t] \in Nat
    BY ClientAssumption DEF IInv, TypeOK
  <2>3. /\ LeakedSync(t) = {fd \in FD : owner[fd] = <<t, "sync">> /\ fd # lost}
        /\ LeakedSync(t)' = {fd \in FD : owner[fd] = <<t, "sync">>}
    BY <1>1, <1>3 DEF LeakedSync
  <2>4. lost \notin LeakedSync(t)
    BY <2>3
  <2>5. Cardinality(LeakedSync(t) \cup {lost}) = Cardinality(LeakedSync(t)) + 1
    BY <2>4, LeaksCounted, FS_AddElement
  <2>6. CASE owner[lost] = <<t, "sync">>
    <3>1. LeakedSync(t)' = LeakedSync(t) \cup {lost}
      BY <2>1, <2>3, <2>6
    <3> HIDE DEF lost
    <3> QED BY <1>1, <1>3, <2>2, <2>5, <3>1, LeaksCounted DEF LeakInv
  <2>7. CASE owner[lost] # <<t, "sync">>
    <3>1. LeakedSync(t)' = LeakedSync(t)
      BY <2>1, <2>3, <2>7
    <3>2. ended'
      BY <1>1, <2>1, <2>7
    <3> HIDE DEF lost
    <3> QED BY <1>3, <2>2, <3>1, <3>2, LeaksCounted DEF LeakInv
  <2> QED BY <2>6, <2>7
<1> QED BY <1>2, <1>3, WalkRemembers

\* Closing what is remembered leaks nothing.
LEMMA ClosingCounts ==
  ASSUME IInv, NEW t \in Threads, Closing(t), LeakInv(t)
  PROVE  LeakInv(t)'
<1>1. /\ UNCHANGED <<allocated, socket, chan, device, sfd, connects, refused, taken>>
      /\ ended' \in BOOLEAN /\ (ended => ended')
      /\ pc' \in [Threads -> Points]
  BY ClosingMoves
<1>2. PICK c \in Held(t) : /\ Closes(pc[t], chan[t], pc'[t], c)
                           /\ owner' = [owner EXCEPT ![HeldFd(t, c)] = Nobody]
  BY ClosingMoves
<1>3. /\ TypeOK /\ ThreadInv(t)
      /\ pc[t] \in Points /\ chan[t] \in Channel /\ pc'[t] \in Points
      /\ Held(t) = HeldFor(pc[t], chan[t]) /\ Held(t)' = HeldFor(pc'[t], chan[t])
  BY <1>1, HeldIsTable DEF IInv, TypeOK
<1>4. c \in Channel
  BY <1>2, <1>3, HeldTable DEF HeldFor, Channel
<1>5. /\ c = "async" => ("sync" \in Held(t)' <=> "sync" \in Held(t))
      /\ "sync" \in Held(t)' =>
           "sync" \in Held(t) /\ HeldFd(t, "sync")' = HeldFd(t, "sync")
  <2>1. HeldFd(t, "sync")' =
          IF pc'[t] \in Connecting \cup Failing THEN sfd[t]["sync"]
          ELSE socket[device[t]]["sync"]
    BY <1>1 DEF HeldFd
  <2> USE <1>2, <1>3, <1>4, <2>1, HeldTable
      DEF HeldFd, Connecting, Failing, Using, Exchanging, Channel, ConnectError, ExchangeError
  <2>2. CASE pc[t] = "connect" /\ pc'[t] = ConnectError(chan[t]) /\ c = chan[t]
    BY <2>2
  <2>3. CASE pc[t] \in {"response", "late"} /\ pc'[t] = ExchangeError(chan[t]) /\ c = chan[t]
    BY <2>3
  <2>4. CASE \/ pc[t] = "close_async" /\ pc'[t] = "close_sync" /\ c = "async"
             \/ pc[t] = "close_sync" /\ pc'[t] = "free" /\ c = "sync"
    BY <2>4
  <2>5. CASE pc[t] \in {"await", "await_late"} /\ pc'[t] = "open" /\ c = chan[t]
    BY <2>5
  <2>6. CASE \/ pc[t] = "d_sync" /\ pc'[t] = "d_async" /\ c = "sync"
             \/ pc[t] = "d_async" /\ pc'[t] = "d_free" /\ c = "async"
    BY <2>6
  <2> QED BY <1>2, <2>2, <2>3, <2>4, <2>5, <2>6 DEF Closes
<1> DEFINE gone == HeldFd(t, c)
<1>6. /\ gone \in FD /\ (~ended => owner[gone] = <<t, c>>)
      /\ owner'[gone] = Nobody /\ \A fd \in FD \ {gone} : owner'[fd] = owner[fd]
  <2>1. owner \in [FD -> (Threads \X Channel) \cup {Nobody}]
    BY <1>3 DEF TypeOK
  <2>2. gone \in FD /\ (~ended => owner[gone] = <<t, c>>)
    BY <1>2, HeldInFD DEF IInv, DescriptorsOwn
  <2> QED BY <1>2, <2>1, <2>2
<1>7. \A fd \in FD : Remembered(t, fd)' => Remembered(t, fd)
  BY <1>5 DEF Remembered
<1>8. \A fd \in FD \ {gone} : Remembered(t, fd) => Remembered(t, fd)'
  <2>1. CASE c = "sync"
    BY <2>1 DEF Remembered
  <2>2. CASE c = "async"
    BY <1>5, <2>2 DEF Remembered
  <2> QED BY <1>4, <2>1, <2>2 DEF Channel
<1>9. ~ended' => owner[gone] # <<t, "sync">> \/ Remembered(t, gone)
  <2>1. CASE c = "sync"
    BY <1>2, <2>1 DEF Remembered
  <2>2. CASE c = "async"
    BY <1>1, <1>6, <2>2
  <2> QED BY <1>4, <2>1, <2>2 DEF Channel
<1>10. <<t, "sync">> # Nobody
  BY DEF Nobody
<1> HIDE DEF gone
<1>11. \A fd \in FD : owner'[fd] = <<t, "sync">> /\ ~Remembered(t, fd)' =>
                        owner[fd] = <<t, "sync">> /\ ~Remembered(t, fd)
  BY <1>6, <1>8, <1>10
<1>12. ~ended' => \A fd \in FD :
                    owner[fd] = <<t, "sync">> /\ ~Remembered(t, fd) =>
                      owner'[fd] = <<t, "sync">> /\ ~Remembered(t, fd)'
  BY <1>6, <1>7, <1>9
<1> QED BY <1>1, <1>11, <1>12, SameLeak

\* What socket opens is remembered.
LEMMA OpenSocketCounts ==
  ASSUME IInv, NEW t \in Threads, OpenSocket(t), LeakInv(t)
  PROVE  LeakInv(t)'
<1>1. PICK fd \in FD : /\ owner[fd] = Nobody
                       /\ owner' = [owner EXCEPT ![fd] = <<t, chan[t]>>]
                       /\ sfd' = [sfd EXCEPT ![t][chan[t]] = fd]
  BY DEF OpenSocket
<1>2. /\ pc[t] = "socket" /\ pc' = [pc EXCEPT ![t] = "connect"]
      /\ UNCHANGED <<chan, refused, ended>>
  BY DEF OpenSocket, Goto, history
<1>3. /\ chan[t] \in Channel /\ pc \in [Threads -> Points]
      /\ sfd \in [Threads -> [Channel -> FD \cup {NoFd}]]
      /\ owner \in [FD -> (Threads \X Channel) \cup {Nobody}]
  BY DEF IInv, TypeOK
<1>4. /\ pc'[t] = "connect" /\ sfd'[t][chan[t]] = fd
      /\ \A k \in Channel \ {chan[t]} : sfd'[t][k] = sfd[t][k]
      /\ owner'[fd] = <<t, chan[t]>> /\ \A f \in FD \ {fd} : owner'[f] = owner[f]
  BY <1>1, <1>2, <1>3
<1>5. /\ Held(t) = IF chan[t] = "async" THEN {"sync"} ELSE {}
      /\ Held(t)' = IF chan[t] = "async" THEN Channel ELSE {"sync"}
  <2>1. Held(t) = HeldFor("socket", chan[t]) /\ Held(t)' = HeldFor("connect", chan[t])
    BY <1>2, <1>4, HeldIsTable
  <2>2. "socket" \in Points /\ "connect" \in Points
    BY DEF Points, Connecting
  <2> QED BY <1>3, <2>1, <2>2, HeldTable
<1>6. HeldFd(t, "sync") = sfd[t]["sync"] /\ HeldFd(t, "sync")' = sfd'[t]["sync"]
  BY <1>2, <1>4 DEF HeldFd, Connecting
<1>7. <<t, "sync">> # Nobody /\ <<t, "async">> # <<t, "sync">>
  BY DEF Nobody
<1>8. CASE chan[t] = "sync"
  <2>1. \A f \in FD : (Remembered(t, f)' <=> f = fd) /\ ~Remembered(t, f)
    BY <1>4, <1>5, <1>6, <1>8 DEF Remembered
  <2>2. \A f \in FD : owner'[f] = <<t, "sync">> /\ ~Remembered(t, f)' <=>
                        owner[f] = <<t, "sync">> /\ ~Remembered(t, f)
    BY <1>1, <1>4, <1>7, <1>8, <2>1
  <2> QED BY <1>2, <2>2, SameLeak
<1>9. CASE chan[t] = "async"
  <2>1. \A f \in FD : Remembered(t, f)' <=> Remembered(t, f)
    BY <1>4, <1>5, <1>6, <1>9 DEF Remembered, Channel
  <2>2. \A f \in FD : owner'[f] = <<t, "sync">> <=> owner[f] = <<t, "sync">>
    BY <1>1, <1>4, <1>7, <1>9
  <2> QED BY <1>2, <2>1, <2>2, SameLeak
<1> QED BY <1>3, <1>8, <1>9 DEF Channel

\* The other steps touch neither the descriptors nor what is remembered of them.
LEMMA OtherwiseUncounted ==
  ASSUME IInv, NEW t \in Threads, LeakInv(t),
         Connected(t) \/ ConnectCall(t) \/ ConnectRefused(t) \/ FreeSession(t)
  PROVE  LeakInv(t)'
<1>1. UNCHANGED <<owner, refused, ended>>
  BY DEF Connected, ConnectCall, ConnectRefused, FreeSession, history
<1>2. /\ TypeOK /\ pc \in [Threads -> Points] /\ chan \in [Threads -> Channel]
      /\ Held(t) = HeldFor(pc[t], chan[t]) /\ Held(t)' = HeldFor(pc'[t], chan'[t])
  BY HeldIsTable DEF IInv, TypeOK
<1>3. ASSUME "sync" \notin Held(t), "sync" \notin Held(t)' PROVE LeakInv(t)'
  <2>1. \A fd \in FD : ~Remembered(t, fd) /\ ~Remembered(t, fd)'
    BY <1>3 DEF Remembered
  <2> QED BY <1>1, <2>1, SameLeak
<1>4. CASE Connected(t)
  <2>1. pc[t] = "connect" /\ pc'[t] = "request" /\ UNCHANGED <<chan, sfd>>
    BY <1>2, <1>4 DEF Connected, Goto, history
  <2>2. Held(t)' = Held(t)
    BY <1>2, <2>1, HeldTable DEF Points, Connecting, Exchanging
  <2>3. HeldFd(t, "sync")' = HeldFd(t, "sync")
    BY <2>1 DEF HeldFd, Connecting
  <2>4. \A fd \in FD : Remembered(t, fd)' <=> Remembered(t, fd)
    BY <2>2, <2>3 DEF Remembered
  <2> QED BY <1>1, <2>4, SameLeak
<1>5. CASE ConnectCall(t)
  <2>1. pc[t] = "idle" /\ pc'[t] = "socket" /\ chan'[t] = "sync"
    BY <1>2, <1>5 DEF ConnectCall, Goto
  <2>2. Held(t) = {} /\ Held(t)' = {}
    BY <1>2, <2>1, HeldTable DEF Points, Connecting, Channel
  <2> QED BY <1>3, <2>2
<1>6. CASE ConnectRefused(t)
  <2>1. pc[t] = "idle" /\ UNCHANGED <<pc, chan>>
    BY <1>6 DEF ConnectRefused
  <2>2. Held(t) = {} /\ Held(t)' = {}
    BY <1>2, <2>1, HeldTable DEF Points
  <2> QED BY <1>3, <2>2
<1>7. CASE FreeSession(t)
  <2>1. pc[t] \in {"free", "d_free"} /\ pc'[t] = "idle" /\ UNCHANGED chan
    BY <1>2, <1>7 DEF FreeSession, Goto
  <2>2. Held(t) = {} /\ Held(t)' = {}
    <3>1. {"free", "d_free", "idle"} \subseteq Points
      BY DEF Points, Failing, Leaving
    <3> QED BY <1>2, <2>1, <3>1, HeldTable
  <2> QED BY <1>3, <2>2
<1> QED BY <1>4, <1>5, <1>6, <1>7

\* Sync channels leak where the Initialize exchange fails on a connection that stays
\* open, once each time, and nowhere else, as long as no stream has ended.
THEOREM SyncLeaksCounted == Spec => []SyncLeakAccount
<1> DEFINE Account == \A t \in Threads : LeakInv(t)
<1>1. Init => Account
  <2> SUFFICES ASSUME Init, NEW t \in Threads PROVE LeakInv(t)
    OBVIOUS
  <2>1. \A fd \in FD : owner[fd] # <<t, "sync">>
    BY DEF Init, Nobody
  <2>2. LeakedSync(t) = {}
    BY <2>1 DEF LeakedSync
  <2>3. refused[t] = 0
    BY DEF Init
  <2> QED BY <2>2, <2>3, FS_EmptySet DEF LeakInv
<1>2. IInv /\ Account /\ [Next]_vars => Account'
  <2> SUFFICES ASSUME IInv, Account, [Next]_vars PROVE Account'
    OBVIOUS
  <2>1. ASSUME NEW t \in Threads, Call(t) \/ Progress(t) \/ NoAnswer(t) PROVE Account'
    <3>1. \/ Walk(t) \/ Closing(t) \/ OpenSocket(t) \/ Connected(t)
          \/ ConnectCall(t) \/ ConnectRefused(t) \/ FreeSession(t)
      BY <2>1 DEF Call, Progress, NoAnswer, Walk, Closing
    <3>2. Frame(t) /\ Hands(t) /\ (ended => ended')
      BY <3>1, WalkKeeps, ClosingKeeps, OpenSocketKeeps, ConnectedKeeps,
         ConnectCallKeeps, FreeSessionKeeps
    <3>3. LeakInv(t)'
      BY <3>1, WalkCounts, ClosingCounts, OpenSocketCounts, OtherwiseUncounted
    <3>4. ASSUME NEW u \in Threads \ {t} PROVE LeakInv(u)'
      BY <3>2, OthersLeak
    <3> QED BY <3>3, <3>4
  <2>2. CASE UNCHANGED vars
    BY <2>2 DEF vars, LeakInv, LeakedSync, Held, HeldFd
  <2> QED BY <2>1, <2>2 DEF Next
<1>3. Account => SyncLeakAccount
  BY DEF LeakInv, SyncLeakAccount
<1> HIDE DEF Account
<1> QED BY <1>1, <1>2, <1>3, IInvHolds, PTL DEF Spec

-----------------------------------------------------------------------------
(* The refinement of SessionOwners *)

\* Before the first call no thread owns a session.
LEMMA OwnersInit == Init => Table!Init
<1> SUFFICES ASSUME Init PROVE Table!Init
  OBVIOUS
<1>1. usedBar \subseteq Table!Handle
  BY DEF usedBar, Handle, Table!Handle
<1>2. ownedBar = [t \in Threads |-> {}]
  BY DEF Init, ownedBar
<1>3. QED
  BY <1>1, <1>2 DEF Table!Init

\* What a thread owns, at one place.
LEMMA OwnedBar ==
  \A t \in Threads : ownedBar[t] = IF pc[t] # "idle" THEN {device[t]} ELSE {}
BY DEF ownedBar

\* A step that neither claims nor frees, nor starts or ends a thread's calls,
\* leaves the owners alone.
LEMMA OwnersStay ==
  ASSUME UNCHANGED <<allocated, device>>,
         \A t \in Threads : pc'[t] = "idle" <=> pc[t] = "idle"
  PROVE  UNCHANGED Table!vars
<1>1. usedBar' = usedBar /\ ownedBar' = ownedBar
  BY DEF usedBar, ownedBar
<1>2. QED
  BY <1>1 DEF Table!vars

\* hs_connect makes its thread the owner of the lowest free session.
LEMMA ConnectClaims ==
  ASSUME IInv, NEW t \in Threads, ConnectCall(t)
  PROVE  Table!Claim(t)
<1>1. PICK h \in Handle :
        /\ ~allocated[h] /\ \A j \in 0 .. h - 1 : allocated[j]
        /\ allocated' = [allocated EXCEPT ![h] = TRUE]
        /\ device' = [device EXCEPT ![t] = h]
  BY DEF ConnectCall
<1>2. /\ pc[t] = "idle" /\ pc' = [pc EXCEPT ![t] = "socket"]
      /\ pc \in [Threads -> Points] /\ device \in [Threads -> Handle \cup {NoDevice}]
      /\ allocated \in [Handle -> BOOLEAN]
  BY DEF ConnectCall, Goto, IInv, TypeOK
<1>3. usedBar' = usedBar \cup {h}
  BY <1>1, <1>2 DEF usedBar
<1>4. 0 .. h - 1 \subseteq usedBar
  <2>1. \A j \in 0 .. h - 1 : j \in Handle
    BY <1>1, ClientAssumption DEF Handle
  <2>2. QED
    BY <1>1, <2>1 DEF usedBar
<1>5. \A u \in Threads : ownedBar'[u] = IF pc'[u] # "idle" THEN {device'[u]} ELSE {}
  BY DEF ownedBar
<1>6. ownedBar'[t] = {h} /\ ownedBar[t] = {}
  BY <1>1, <1>2, <1>5, OwnedBar
<1>7. \A u \in Threads \ {t} : ownedBar'[u] = ownedBar[u]
  BY <1>1, <1>2, <1>5, OwnedBar
<1>8. ownedBar' = [ownedBar EXCEPT ![t] = @ \cup {h}]
  BY <1>6, <1>7 DEF ownedBar
<1>9. h \in Table!Handle \ usedBar
  BY <1>1 DEF usedBar, Handle, Table!Handle
<1>10. QED
  BY <1>3, <1>4, <1>8, <1>9 DEF Table!Claim

\* session_free takes back what its thread, and no other, owns.
LEMMA FreeSessionFrees ==
  ASSUME IInv, NEW t \in Threads, FreeSession(t)
  PROVE  Table!Free(t)
<1>1. /\ pc[t] \in {"free", "d_free"} /\ pc' = [pc EXCEPT ![t] = "idle"]
      /\ allocated' = [allocated EXCEPT ![device[t]] = FALSE]
      /\ device' = [device EXCEPT ![t] = NoDevice]
  BY DEF FreeSession, Goto
<1>2. /\ ThreadInv(t) /\ pc \in [Threads -> Points]
      /\ device \in [Threads -> Handle \cup {NoDevice}]
      /\ allocated \in [Handle -> BOOLEAN]
  BY DEF IInv, TypeOK
<1>3. device[t] \in Handle
  BY <1>1, <1>2 DEF ThreadInv
<1>4. usedBar' = usedBar \ {device[t]}
  BY <1>1, <1>2, <1>3 DEF usedBar
<1>5. \A u \in Threads : ownedBar'[u] = IF pc'[u] # "idle" THEN {device'[u]} ELSE {}
  BY DEF ownedBar
<1>6. ownedBar[t] = {device[t]} /\ ownedBar'[t] = {}
  BY <1>1, <1>2, <1>5, OwnedBar
<1>7. \A u \in Threads \ {t} : ownedBar'[u] = ownedBar[u]
  BY <1>1, <1>2, <1>5, OwnedBar
<1>8. ownedBar' = [ownedBar EXCEPT ![t] = @ \ {device[t]}]
  BY <1>6, <1>7 DEF ownedBar
<1>9. QED
  BY <1>4, <1>6, <1>8 DEF Table!Free

\* hs_connect, on each of its paths, and hs_disconnect keep to SessionOwners: a
\* session is claimed once, freed once, by its owner, and before the call that
\* gives it up returns.
THEOREM OwnersRefined == Spec => RefinesOwners
<1>1. IInv /\ [Next]_vars => [Table!Next]_(Table!vars)
  <2> SUFFICES ASSUME IInv, [Next]_vars PROVE [Table!Next]_(Table!vars)
    OBVIOUS
  <2>1. pc \in [Threads -> Points]
    BY DEF IInv, TypeOK
  <2>2. ASSUME NEW t \in Threads, ConnectCall(t) PROVE Table!Next
    BY <2>2, ConnectClaims DEF Table!Next
  <2>3. ASSUME NEW t \in Threads, FreeSession(t) PROVE Table!Next
    BY <2>3, FreeSessionFrees DEF Table!Next
  <2>4. ASSUME NEW t \in Threads, Walk(t) PROVE UNCHANGED Table!vars
    <3>1. /\ UNCHANGED <<allocated, device>>
          /\ Moves(pc[t], chan[t], pc'[t], chan'[t])
          /\ \A u \in Threads \ {t} : pc'[u] = pc[u]
      BY <2>4, WalkMoves
    <3>2. pc[t] # "idle" /\ pc'[t] # "idle"
      BY <3>1 DEF Moves, Using, Exchanging, ConnectError, ExchangeError
    <3>3. QED
      BY <3>1, <3>2, OwnersStay
  <2>5. ASSUME NEW t \in Threads, Closing(t) PROVE UNCHANGED Table!vars
    <3>1. /\ UNCHANGED <<allocated, device>>
          /\ \A u \in Threads \ {t} : pc'[u] = pc[u]
          /\ \E k \in Held(t) : Closes(pc[t], chan[t], pc'[t], k)
      BY <2>5, ClosingMoves
    <3>2. pc[t] # "idle" /\ pc'[t] # "idle"
      BY <3>1 DEF Closes, Using, ConnectError, ExchangeError
    <3>3. QED
      BY <3>1, <3>2, OwnersStay
  <2>6. ASSUME NEW t \in Threads, OpenSocket(t) \/ Connected(t) \/ ConnectRefused(t)
        PROVE  UNCHANGED Table!vars
    <3>1. UNCHANGED <<allocated, device>>
      BY <2>6 DEF OpenSocket, Connected, ConnectRefused
    <3>2. \A u \in Threads : pc'[u] = "idle" <=> pc[u] = "idle"
      BY <2>1, <2>6 DEF OpenSocket, Connected, ConnectRefused, Goto
    <3>3. QED
      BY <3>1, <3>2, OwnersStay
  <2>7. CASE UNCHANGED vars
    BY <2>7, OwnersStay DEF vars
  <2>8. QED
    BY <2>2, <2>3, <2>4, <2>5, <2>6, <2>7
       DEF Next, Call, Progress, NoAnswer, Walk, Closing
<1>2. QED
  BY <1>1, OwnersInit, IInvHolds, PTL DEF Spec, RefinesOwners, Table!Spec
=============================================================================
