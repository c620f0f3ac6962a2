-------------------------- MODULE HislipSystemProofs --------------------------
(***************************************************************************)
(* Theorems about HislipSystem for any number of clients and sessions:     *)
(* these clients are clients of ServerProcess, their sessions are their    *)
(* own, they do not take the server down when they open a named            *)
(* subaddress, only a full table makes hs_connect fail, and hs_connect     *)
(* never waits for nothing; together with the server they are              *)
(* HislipService.                                                          *)
(***************************************************************************)
EXTENDS HislipSystem, ServerProcessProofs

-----------------------------------------------------------------------------
(* The inductive invariant *)

IsSync(c) == c[2] = "sync"

\* Messages under way to the thread or in its hands, and how many it has got.
Waiting(c) ==
  {input[c][i] : i \in 1 .. Len(input[c])} \cup (IF InHand(c) THEN {msg[c]} ELSE {})
Received(c) == Len(handled[c]) + Len(input[c]) + (IF InHand(c) THEN 1 ELSE 0)

\* The steps before the first response has been read on a channel, and before the
\* command is written.
BeforeSync == {"start", "initialize", "failed"}
BeforeAsync == BeforeSync \cup {"connect_async", "async_initialize", "close_sync"}
BeforeSend == BeforeAsync \cup {"open", "sizing", "sized"}

\* How many messages a client has written on a connection at most.
Written(c) ==
  IF IsSync(c)
    THEN IF step[c[1]] = "start" THEN 0
         ELSE IF step[c[1]] \in BeforeSend THEN 1 ELSE 2
    ELSE IF step[c[1]] \in {"start", "initialize", "connect_async"} THEN 0
         ELSE IF step[c[1]] \in BeforeAsync \cup {"open"} THEN 1 ELSE 2

\* What is sent on a connection; once it has been answered, only what is ignored.
Dropped == {"DataEnd", "AsyncMaximumMessageSize"}
Protocol(c, m) ==
  /\ \/ m.type \in Dropped
     \/ /\ IsSync(c) /\ m.type = "Initialize"
        /\ m.arg = Version /\ m.load = subaddress[c[1]]
     \/ ~IsSync(c) /\ m.type = "AsyncInitialize"
  /\ Len(output[c]) > 0 => m.type \in Dropped

WireInv ==
  /\ seen \in [Conn -> Nat]
  /\ \A c \in Conn :
       /\ Received(c) <= Written(c)
       /\ Len(output[c]) <= Len(handled[c])
       /\ \A m \in Waiting(c) : Protocol(c, m)

\* A thread leaves an open connection only because the table is full.
DoneInv ==
  \A c \in Conn : pc[c] = "done" /\ c \notin closed =>
    Len(output[c]) < Len(handled[c]) /\ allocated = Handle

\* A client leaves only when it has been answered, or the thread has left before.
ClosedInv ==
  /\ \A c \in closed : phase # "crashed" => pc[c] = "done" \/ Len(output[c]) > 0
  /\ \A p \in Clients :
       /\ step[p] \in BeforeSend \ {"close_sync", "failed"} => Sync(p) \notin closed
       /\ step[p] \in BeforeSend \ {"close_sync", "failed", "sized"}
            => Async(p) \notin closed

StepInv ==
  \A p \in Clients :
    /\ step[p] \notin BeforeSync => seen[Sync(p)] > 0
    /\ step[p] \notin BeforeAsync => seen[Async(p)] > 0
    /\ step[p] # "start" => phase # "setup"
    /\ step[p] \in {"close_sync", "failed"} /\ phase # "crashed" => allocated = Handle
    /\ HasSession(p) =>
         \E i \in Initialized(Sync(p)) : output[Sync(p)][i].arg = SessionID[p]

SystemIInv ==
  /\ IInv /\ SystemTypeOK
  /\ WireInv /\ DoneInv /\ ClosedInv /\ StepInv
  /\ ServerSurvives

-----------------------------------------------------------------------------
(* Connections, and what a client may write *)

\* The two connections of a client, and the client of a connection.
LEMMA Connections ==
  /\ \A p \in Clients :
       /\ Sync(p) \in Conn /\ Async(p) \in Conn
       /\ Sync(p)[1] = p /\ Async(p)[1] = p /\ IsSync(Sync(p)) /\ ~IsSync(Async(p))
  /\ \A c \in Conn : c[1] \in Clients
  /\ \A p, q \in Clients : Sync(p) # Async(q) /\ (Sync(p) = Sync(q) => p = q)
                           /\ (Async(p) = Async(q) => p = q)
<1>1. Conn = Clients \X {"sync", "async"}
  BY SystemAssumption
<1> QED BY <1>1 DEF Sync, Async, IsSync

\* What the clients write is among the messages of ServerProcess.
LEMMA ClientMessages ==
  ASSUME SystemTypeOK, NEW p \in Clients
  PROVE  /\ [type |-> "Initialize", arg |-> Version, load |-> subaddress[p]] \in Messages
         /\ [type |-> "AsyncInitialize", arg |-> SessionID[p], load |-> NoLoad] \in Messages
         /\ [type |-> "AsyncMaximumMessageSize", arg |-> 0, load |-> "size"] \in Messages
         /\ [type |-> "DataEnd", arg |-> 0, load |-> "data"] \in Messages
<1>1. subaddress[p] \in Subaddresses /\ SessionID[p] \in Handle
  BY DEF SystemTypeOK
<1> QED BY <1>1, SystemAssumption

\* The lengths that the counts are made of.
LEMMA Lengths ==
  ASSUME SystemIInv, NEW c \in Conn
  PROVE  /\ handled \in [Conn -> Seq(Messages)] /\ input \in [Conn -> Seq(Messages)]
         /\ output \in [Conn -> Seq(Responses)] /\ seen \in [Conn -> Nat]
         /\ seen[c] <= Len(output[c])
         /\ Written(c) \in 0 .. 2 /\ Received(c) \in Nat
         /\ InHand(c) => Received(c) = Len(handled[c]) + Len(input[c]) + 1
         /\ ~InHand(c) => Received(c) = Len(handled[c]) + Len(input[c])
<1>1. /\ handled \in [Conn -> Seq(Messages)] /\ input \in [Conn -> Seq(Messages)]
      /\ output \in [Conn -> Seq(Responses)] /\ seen \in [Conn -> Nat]
  BY DEF SystemIInv, IInv, TypeOK, SequencesInv, WireInv
<1>2. seen[c] <= Len(output[c])
  <2>1. seen[c] \in 0 .. Len(output[c])
    BY DEF SystemIInv, SystemTypeOK
  <2> QED BY <1>1, <2>1
<1>3. /\ InHand(c) => Received(c) = Len(handled[c]) + Len(input[c]) + 1
      /\ ~InHand(c) => Received(c) = Len(handled[c]) + Len(input[c])
  <2>1. CASE InHand(c)
    BY <2>1 DEF Received
  <2>2. CASE ~InHand(c)
    <3>1. Received(c) = Len(handled[c]) + Len(input[c]) + 0
      BY <2>2 DEF Received
    <3> QED BY <1>1, <2>2, <3>1
  <2> QED BY <2>1, <2>2
<1>4. Written(c) \in 0 .. 2
  BY DEF Written
<1>5. Received(c) \in Nat
  BY <1>1, <1>3
<1> QED BY <1>1, <1>2, <1>3, <1>4, <1>5

\* A client that has read an answer to all it wrote may write once more.
LEMMA MayWrite ==
  ASSUME SystemIInv, NEW c \in Conn, c \notin closed, Written(c) <= 1, Written(c) <= seen[c]
  PROVE  Sent(c) < MaxMessages
<1>1. /\ Received(c) <= Written(c) /\ Len(output[c]) <= Len(handled[c])
      /\ pc[c] = "done" => Len(output[c]) < Len(handled[c])
  BY DEF SystemIInv, WireInv, DoneInv
<1>2. /\ handled \in [Conn -> Seq(Messages)] /\ input \in [Conn -> Seq(Messages)]
      /\ output \in [Conn -> Seq(Responses)] /\ seen \in [Conn -> Nat]
      /\ seen[c] <= Len(output[c]) /\ Written(c) \in 0 .. 2
      /\ InHand(c) => Received(c) = Len(handled[c]) + Len(input[c]) + 1
      /\ ~InHand(c) => Received(c) = Len(handled[c]) + Len(input[c])
  BY Lengths
<1>3. pc[c] # "done"
  <2> SUFFICES ASSUME pc[c] = "done" PROVE FALSE
    OBVIOUS
  <2>1. Received(c) = Len(handled[c]) + Len(input[c])
    BY <1>2 DEF InHand
  <2> QED BY <1>1, <1>2, <2>1
<1>4. pc[c] \in {"read", "act", "link", "respond", "done"}
  BY DEF SystemIInv, IInv, TypeOK
<1>5. Sent(c) <= 1
  <2>1. CASE InHand(c)
    <3>1. Sent(c) = Len(handled[c]) + Len(input[c]) + 1
      BY <2>1 DEF Sent, InHand
    <3> QED BY <1>1, <1>2, <2>1, <3>1
  <2>2. CASE ~InHand(c)
    <3>1. Sent(c) = Len(handled[c]) + Len(input[c]) + 0
      BY <1>3, <1>4, <2>2 DEF Sent, InHand
    <3> QED BY <1>1, <1>2, <2>2, <3>1
  <2> QED BY <2>1, <2>2
<1>6. Sent(c) \in Int
  BY <1>2 DEF Sent
<1>7. MaxMessages >= 2 /\ MaxMessages \in Nat
  BY SystemAssumption, ServerAssumption
<1> QED BY <1>5, <1>6, <1>7

\* Nothing has been answered on a connection nothing has been written to.
LEMMA NotAnswered ==
  ASSUME SystemIInv, NEW c \in Conn, Written(c) = 0
  PROVE  Len(output[c]) = 0
<1>1. Received(c) <= 0 /\ Len(output[c]) <= Len(handled[c])
  BY DEF SystemIInv, WireInv
<1>2. /\ handled \in [Conn -> Seq(Messages)] /\ input \in [Conn -> Seq(Messages)]
      /\ output \in [Conn -> Seq(Responses)]
      /\ InHand(c) => Received(c) = Len(handled[c]) + Len(input[c]) + 1
      /\ ~InHand(c) => Received(c) = Len(handled[c]) + Len(input[c])
  BY Lengths
<1> QED BY <1>1, <1>2

\* A write is a Send of ServerProcess, unless the server has gone down.
LEMMA WriteIsSend ==
  ASSUME SystemIInv, NEW c \in Conn, NEW m \in Messages,
         Write(c, m.type, m.arg, m.load),
         m = [type |-> m.type, arg |-> m.arg, load |-> m.load],
         phase # "setup", c \notin closed, Written(c) <= 1, Written(c) <= seen[c]
  PROVE  \/ phase = "running" /\ Send(c, m) /\ input' = [input EXCEPT ![c] = Append(@, m)]
         \/ phase = "crashed" /\ UNCHANGED vars
<1>1. /\ input' = IF phase = "crashed" THEN input ELSE [input EXCEPT ![c] = Append(@, m)]
      /\ UNCHANGED <<list, subaddress_data, phase, allocated, pc, msg, payload,
                     sessionID, output, handled, closed>>
  BY DEF Write, server
<1>2. phase \in {"setup", "running", "crashed"}
  BY DEF SystemIInv, IInv, TypeOK
<1>3. CASE phase = "running"
  <2>1. Sent(c) < MaxMessages
    BY MayWrite
  <2> QED BY <1>1, <1>3, <2>1 DEF Send, shared
<1>4. CASE phase = "crashed"
  BY <1>1, <1>4 DEF vars
<1> QED BY <1>2, <1>3, <1>4

-----------------------------------------------------------------------------
(* The steps of the clients *)

\* No client touches what is the server's; it adds to closed at most.
LEMMA ClientFrame ==
  ASSUME SystemIInv, NEW p \in Clients, Client(p)
  PROVE  /\ UNCHANGED <<server, subaddress>>
         /\ closed \subseteq closed'
         /\ DoneInv' /\ ServerSurvives'
<1>1. UNCHANGED <<server, subaddress>> /\ closed \subseteq closed'
  BY DEF Client, SendInitialize, SendAsyncInitialize, ConnectAsyncFails,
         SetMaximumMessageSize, SyncSend, TakeResponse, ResponseEnds, CloseSync,
         DisconnectSync, DisconnectAsync, Write, CloseChannel, wire
<1>2. DoneInv'
  BY <1>1 DEF server, SystemIInv, DoneInv
<1>3. ServerSurvives'
  BY <1>1 DEF server, SystemIInv, ServerSurvives
<1> QED BY <1>1, <1>2, <1>3

\* A message written joins those under way, if the server is there to get it.
LEMMA WriteWire ==
  ASSUME SystemIInv, NEW c \in Conn, NEW m \in Messages,
         UNCHANGED <<server, subaddress, seen>>,
         \/ input' = [input EXCEPT ![c] = Append(@, m)]
         \/ input' = input,
         Written(c)' = Written(c) + 1,
         \A d \in Conn : Written(d)' >= Written(d),
         Written(c)' \in 0 .. 2,
         \A d \in Conn : Written(d)' \in 0 .. 2,
         Protocol(c, m)
  PROVE  WireInv'
<1>1. /\ handled \in [Conn -> Seq(Messages)] /\ input \in [Conn -> Seq(Messages)]
      /\ output \in [Conn -> Seq(Responses)] /\ seen \in [Conn -> Nat]
      /\ UNCHANGED <<pc, msg, output, handled, seen, subaddress>>
  BY DEF SystemIInv, IInv, TypeOK, SequencesInv, WireInv, server
<1>2. \A d \in Conn : /\ Received(d) <= Written(d) /\ Len(output[d]) <= Len(handled[d])
                      /\ \A w \in Waiting(d) : Protocol(d, w)
  BY DEF SystemIInv, WireInv
<1>3. \A d \in Conn : \A w : Protocol(d, w)' <=> Protocol(d, w)
  BY <1>1 DEF Protocol
<1>4. CASE input' = input
  <2>1. \A d \in Conn : Received(d)' = Received(d) /\ Waiting(d)' = Waiting(d)
    BY <1>1, <1>4 DEF Received, Waiting, InHand
  <2>2. ASSUME NEW d \in Conn PROVE Received(d)' <= Written(d)'
    <3>1. Written(d) \in 0 .. 2 /\ Received(d) \in Nat /\ Written(d)' \in 0 .. 2
      BY Lengths
    <3>2. Received(d) <= Written(d) /\ Written(d) <= Written(d)'
      BY <1>2
    <3> QED BY <2>1, <3>1, <3>2
  <2> QED BY <1>1, <1>2, <1>3, <2>1, <2>2 DEF WireInv
<1>5. CASE input' = [input EXCEPT ![c] = Append(@, m)]
  <2>1. /\ Len(input'[c]) = Len(input[c]) + 1 /\ input'[c][Len(input[c]) + 1] = m
        /\ \A i \in 1 .. Len(input[c]) : input'[c][i] = input[c][i]
        /\ \A d \in Conn \ {c} : input'[d] = input[d]
        /\ input' \in [Conn -> Seq(Messages)]
    <3>1. input[c] \in Seq(Messages) /\ input'[c] = Append(input[c], m)
      BY <1>1, <1>5
    <3> QED BY <1>1, <1>5, <3>1, Appended
  <2>2. \A d \in Conn : InHand(d)' <=> InHand(d)
    BY <1>1 DEF InHand
  <2>3. ASSUME NEW d \in Conn \ {c}
        PROVE  Received(d)' <= Written(d)' /\ \A w \in Waiting(d)' : Protocol(d, w)'
    <3>1. Received(d)' = Received(d) /\ Waiting(d)' = Waiting(d)
      BY <1>1, <2>1 DEF Received, Waiting, InHand
    <3>2. Written(d) \in 0 .. 2 /\ Received(d) \in Nat /\ Written(d)' \in 0 .. 2
      BY Lengths
    <3>3. Received(d) <= Written(d) /\ Written(d) <= Written(d)'
      BY <1>2
    <3>4. Received(d)' <= Written(d)'
      BY <3>1, <3>2, <3>3
    <3> QED BY <1>2, <1>3, <3>1, <3>4
  <2>4. Received(c)' <= Written(c)'
    <3>1. /\ InHand(c) => Received(c) = Len(handled[c]) + Len(input[c]) + 1
          /\ ~InHand(c) => Received(c) = Len(handled[c]) + Len(input[c])
          /\ Written(c) \in 0 .. 2
      BY Lengths
    <3>2. CASE InHand(c)
      <4>1. Received(c)' = Len(handled[c]) + Len(input'[c]) + 1
        BY <1>1, <2>2, <3>2 DEF Received
      <4> QED BY <1>1, <1>2, <2>1, <3>1, <3>2, <4>1
    <3>3. CASE ~InHand(c)
      <4>1. Received(c)' = Len(handled[c]) + Len(input'[c]) + 0
        BY <1>1, <2>2, <3>3 DEF Received
      <4> QED BY <1>1, <1>2, <2>1, <3>1, <3>3, <4>1
    <3> QED BY <3>2, <3>3
  <2>5. Waiting(c)' \subseteq Waiting(c) \cup {m}
    <3>1. ASSUME NEW w \in Waiting(c)' PROVE w \in Waiting(c) \cup {m}
      <4>1. CASE InHand(c) /\ w = msg[c]
        BY <4>1 DEF Waiting
      <4>2. CASE \E i \in 1 .. Len(input'[c]) : w = input'[c][i]
        <5>1. PICK i \in 1 .. Len(input'[c]) : w = input'[c][i]
          BY <4>2
        <5>2. i \in 1 .. Len(input[c]) \/ i = Len(input[c]) + 1
          BY <1>1, <2>1, <5>1
        <5> QED BY <2>1, <5>1, <5>2 DEF Waiting
      <4> QED BY <1>1, <2>2, <3>1, <4>1, <4>2 DEF Waiting
    <3> QED BY <3>1
  <2> QED BY <1>1, <1>2, <1>3, <2>3, <2>4, <2>5 DEF WireInv
<1> QED BY <1>4, <1>5

\* What a client's next step does to what is said of the steps.
LEMMA Moved ==
  ASSUME SystemIInv, NEW p \in Clients, NEW from, NEW to, Advance(p, from, to)
  PROVE  /\ step[p] = from /\ step'[p] = to
         /\ \A q \in Clients \ {p} : step'[q] = step[q]
         /\ \A d \in Conn : d[1] # p => Written(d)' = Written(d)
         /\ \A d \in Conn : Written(d) \in 0 .. 2 /\ Written(d)' \in 0 .. 2
<1>1. step' = [step EXCEPT ![p] = to] /\ step[p] = from /\ p \in DOMAIN step
  BY DEF Advance, SystemIInv, SystemTypeOK
<1>2. step'[p] = to /\ \A q \in Clients \ {p} : step'[q] = step[q]
  BY <1>1
<1>3. \A d \in Conn : d[1] # p => Written(d)' = Written(d)
  BY <1>2, Connections DEF Written, IsSync
<1>4. \A d \in Conn : Written(d) \in 0 .. 2 /\ Written(d)' \in 0 .. 2
  BY DEF Written
<1> QED BY <1>1, <1>2, <1>3, <1>4

Steps == {"start", "initialize", "connect_async", "async_initialize", "open", "sizing",
          "sized", "sent", "answered", "unanswered", "close_sync", "failed",
          "disconnect", "closed"}

\* What is written at which step, and the step it leads to.
Writes(p, from, to, c, m) ==
  \/ /\ from = "start" /\ to = "initialize" /\ c = Sync(p) /\ phase = "running"
     /\ m = [type |-> "Initialize", arg |-> Version, load |-> subaddress[p]]
  \/ /\ from = "connect_async" /\ to = "async_initialize" /\ c = Async(p)
     /\ m = [type |-> "AsyncInitialize", arg |-> SessionID[p], load |-> NoLoad]
  \/ /\ from = "open" /\ to = "sizing" /\ c = Async(p)
     /\ m = [type |-> "AsyncMaximumMessageSize", arg |-> 0, load |-> "size"]
  \/ /\ from \in {"open", "sized"} /\ to = "sent" /\ c = Sync(p)
     /\ m = [type |-> "DataEnd", arg |-> 0, load |-> "data"]

\* The four writing actions.
LEMMA WritingActions ==
  ASSUME NEW p \in Clients,
         SendInitialize(p) \/ SendAsyncInitialize(p) \/ SetMaximumMessageSize(p) \/ SyncSend(p)
  PROVE  \E from, to, c, m : /\ Writes(p, from, to, c, m) /\ Advance(p, from, to)
                             /\ Write(c, m.type, m.arg, m.load)
<1>1. CASE SendInitialize(p)
  <2> DEFINE m == [type |-> "Initialize", arg |-> Version, load |-> subaddress[p]]
  <2>1. Writes(p, "start", "initialize", Sync(p), m)
    BY <1>1 DEF Writes, SendInitialize
  <2>2. Advance(p, "start", "initialize") /\ Write(Sync(p), m.type, m.arg, m.load)
    BY <1>1 DEF SendInitialize
  <2> QED BY <2>1, <2>2
<1>2. CASE SendAsyncInitialize(p)
  <2> DEFINE m == [type |-> "AsyncInitialize", arg |-> SessionID[p], load |-> NoLoad]
  <2>1. Writes(p, "connect_async", "async_initialize", Async(p), m)
    BY <1>2 DEF Writes
  <2>2. /\ Advance(p, "connect_async", "async_initialize")
        /\ Write(Async(p), m.type, m.arg, m.load)
    BY <1>2 DEF SendAsyncInitialize
  <2> QED BY <2>1, <2>2
<1>3. CASE SetMaximumMessageSize(p)
  <2> DEFINE m == [type |-> "AsyncMaximumMessageSize", arg |-> 0, load |-> "size"]
  <2>1. Writes(p, "open", "sizing", Async(p), m)
    BY <1>3 DEF Writes
  <2>2. Advance(p, "open", "sizing") /\ Write(Async(p), m.type, m.arg, m.load)
    BY <1>3 DEF SetMaximumMessageSize
  <2> QED BY <2>1, <2>2
<1>4. CASE SyncSend(p)
  <2> DEFINE m == [type |-> "DataEnd", arg |-> 0, load |-> "data"]
  <2>1. PICK from \in {"open", "sized"} : Advance(p, from, "sent")
    BY <1>4 DEF SyncSend
  <2>2. Writes(p, from, "sent", Sync(p), m)
    BY <2>1 DEF Writes
  <2>3. Write(Sync(p), m.type, m.arg, m.load)
    BY <1>4 DEF SyncSend
  <2> QED BY <2>1, <2>2, <2>3
<1> QED BY <1>1, <1>2, <1>3, <1>4

\* They are writes that ServerProcess allows, and they keep the invariant.
LEMMA WriteKeeps ==
  ASSUME SystemIInv, NEW p \in Clients, NEW from, NEW to, NEW c, NEW m,
         Writes(p, from, to, c, m), Advance(p, from, to), Write(c, m.type, m.arg, m.load)
  PROVE  [Next]_vars /\ SystemTypeOK' /\ WireInv' /\ ClosedInv' /\ StepInv'
<1>1. /\ c \in Conn /\ c \in {Sync(p), Async(p)} /\ c[1] = p
      /\ IsSync(Sync(p)) /\ ~IsSync(Async(p)) /\ Sync(p) \in Conn /\ Async(p) \in Conn
      /\ Sync(p)[1] = p /\ Async(p)[1] = p
  BY Connections DEF Writes
<1>2. m \in Messages /\ m = [type |-> m.type, arg |-> m.arg, load |-> m.load]
  BY ClientMessages DEF Writes, SystemIInv
<1>3. /\ step[p] = from /\ step'[p] = to
      /\ \A q \in Clients \ {p} : step'[q] = step[q]
      /\ \A d \in Conn : d[1] # p => Written(d)' = Written(d)
      /\ \A d \in Conn : Written(d) \in 0 .. 2 /\ Written(d)' \in 0 .. 2
  BY Moved
<1>4. /\ UNCHANGED <<list, subaddress_data, phase, allocated, pc, msg, payload,
                     sessionID, output, handled, closed, subaddress, SessionID, seen>>
      /\ UNCHANGED <<server, subaddress, seen>>
      /\ input' = IF phase = "crashed" THEN input ELSE [input EXCEPT ![c] = Append(@, m)]
  BY <1>2 DEF Write, server
<1>5. /\ Written(c)' = Written(c) + 1
      /\ \A d \in Conn : Written(d)' >= Written(d)
  <2>1. ASSUME NEW d \in Conn, d[1] = p PROVE Written(d)' >= Written(d)
    BY <1>1, <1>3, <2>1 DEF Writes, Written, BeforeSync, BeforeAsync, BeforeSend
  <2>2. Written(c)' = Written(c) + 1
    BY <1>1, <1>3 DEF Writes, Written, BeforeSync, BeforeAsync, BeforeSend
  <2> QED BY <1>3, <2>1, <2>2
<1>6. Written(c) <= 1 /\ Written(c) <= seen[c] /\ phase # "setup" /\ c \notin closed
  <2> USE DEF BeforeSync, BeforeAsync, BeforeSend
  <2>1. Written(c) <= 1
    BY <1>1, <1>3, <1>5
  <2>2. phase # "setup"
    BY <1>3 DEF Writes, SystemIInv, StepInv
  <2>3. c \notin closed
    BY <1>3 DEF Writes, SystemIInv, ClosedInv
  <2>4. seen[c] \in Nat /\ (Written(c) = 1 => seen[c] > 0)
    <3>1. seen[c] \in Nat
      BY <1>1 DEF SystemIInv, WireInv
    <3>2. from \in {"open", "sized"} => seen[Sync(p)] > 0 /\ seen[Async(p)] > 0
      BY <1>3 DEF SystemIInv, StepInv
    <3>3. from \in {"start", "connect_async"} => Written(c) = 0
      BY <1>1, <1>3 DEF Writes, Written
    <3> QED BY <3>1, <3>2, <3>3 DEF Writes
  <2> QED BY <1>3, <1>1, <2>1, <2>2, <2>3, <2>4
<1>7. [Next]_vars
  <2>1. Send(c, m) \/ UNCHANGED vars
    BY <1>1, <1>2, <1>6, WriteIsSend
  <2> QED BY <1>1, <1>2, <2>1 DEF Next
<1>8. SystemTypeOK'
  <2>1. to \in Steps
    BY DEF Writes, Steps
  <2> QED BY <1>4, <2>1 DEF SystemIInv, SystemTypeOK, Advance, Steps
<1>9. WireInv'
  <2>1. Protocol(c, m)
    <3>1. m.type \in Dropped \/ Written(c) = 0
      BY <1>1, <1>3 DEF Writes, Written, Dropped
    <3>2. Written(c) = 0 => Len(output[c]) = 0
      BY <1>1, NotAnswered
    <3> QED BY <1>1, <3>1, <3>2 DEF Protocol, Writes, Dropped
  <2> QED BY <1>1, <1>2, <1>3, <1>4, <1>5, <2>1, WriteWire
<1>10. ClosedInv'
  <2> USE DEF BeforeSync, BeforeAsync, BeforeSend
  <2> QED BY <1>3, <1>4 DEF SystemIInv, ClosedInv, Writes
<1>11. StepInv'
  <2> USE DEF BeforeSync, BeforeAsync
  <2>1. ASSUME NEW q \in Clients
        PROVE  /\ step'[q] \notin BeforeSync => seen[Sync(q)] > 0
               /\ step'[q] \notin BeforeAsync => seen[Async(q)] > 0
               /\ step'[q] # "start" => phase # "setup"
               /\ step'[q] \in {"close_sync", "failed"} /\ phase # "crashed"
                    => allocated = Handle
    BY <1>3, <1>6 DEF SystemIInv, StepInv, Writes
  <2>2. ASSUME NEW q \in Clients, HasSession(q)'
        PROVE  \E i \in Initialized(Sync(q)) : output[Sync(q)][i].arg = SessionID[q]
    <3>1. HasSession(q)
      BY <1>3, <2>2 DEF HasSession, Writes
    <3> QED BY <3>1 DEF SystemIInv, StepInv
  <2>3. \A q \in Clients : Initialized(Sync(q))' = Initialized(Sync(q))
    BY <1>4 DEF Initialized
  <2> QED BY <1>4, <2>1, <2>2, <2>3 DEF StepInv
<1> QED BY <1>7, <1>8, <1>9, <1>10, <1>11

\* A step of a client that leaves the messages under way alone.
LEMMA WireKept ==
  ASSUME SystemIInv, UNCHANGED <<server, subaddress, input>>, seen' \in [Conn -> Nat],
         \A d \in Conn : Written(d)' \in 0 .. 2 /\ Written(d)' >= Written(d)
  PROVE  WireInv'
<1>1. UNCHANGED <<pc, msg, output, handled, input, subaddress>>
  BY DEF server
<1>2. \A d \in Conn : /\ Received(d)' = Received(d) /\ Waiting(d)' = Waiting(d)
                      /\ \A w : Protocol(d, w)' <=> Protocol(d, w)
  BY <1>1 DEF Received, Waiting, InHand, Protocol
<1>3. ASSUME NEW d \in Conn
      PROVE  Received(d)' <= Written(d)' /\ Len(output'[d]) <= Len(handled'[d])
  <2>1. Received(d) <= Written(d) /\ Len(output[d]) <= Len(handled[d])
    BY DEF SystemIInv, WireInv
  <2>2. Written(d) \in 0 .. 2 /\ Received(d) \in Nat
    BY Lengths
  <2>3. Received(d)' <= Written(d)'
    BY <1>2, <2>1, <2>2
  <2> QED BY <1>1, <2>1, <2>3
<1> QED BY <1>2, <1>3 DEF SystemIInv, WireInv

\* A response that is read: its session id is one the server has told here.
LEMMA TakeKeeps ==
  ASSUME SystemIInv, NEW p \in Clients, NEW x \in Exchange, TakeResponse(p, x)
  PROVE  UNCHANGED vars /\ SystemTypeOK' /\ WireInv' /\ ClosedInv' /\ StepInv'
<1> DEFINE c == <<p, x.chan>>
           i == seen[c] + 1
<1>1. /\ c \in Conn /\ c \in {Sync(p), Async(p)}
      /\ x.at \in {"initialize", "async_initialize", "sizing", "sent"}
      /\ x.at = "initialize" => /\ x.to = "connect_async" /\ c = Sync(p)
                                /\ x.type = "InitializeResponse"
      /\ x.at = "async_initialize" => x.to = "open" /\ c = Async(p)
      /\ x.at = "sizing" => x.to = "sized" /\ c = Async(p)
      /\ x.at = "sent" => x.to = "answered" /\ c = Sync(p)
  <2>1. /\ x.at \in {"initialize", "async_initialize", "sizing", "sent"}
        /\ x.at = "initialize" => /\ x.to = "connect_async" /\ x.chan = "sync"
                                  /\ x.type = "InitializeResponse"
        /\ x.at = "async_initialize" => x.to = "open" /\ x.chan = "async"
        /\ x.at = "sizing" => x.to = "sized" /\ x.chan = "async"
        /\ x.at = "sent" => x.to = "answered" /\ x.chan = "sync"
    BY DEF Exchange
  <2>2. (x.chan = "sync" => c = Sync(p)) /\ (x.chan = "async" => c = Async(p))
    BY DEF Sync, Async
  <2>3. Sync(p) \in Conn /\ Async(p) \in Conn
    BY Connections
  <2> HIDE DEF c
  <2> QED BY <2>1, <2>2, <2>3
<1>2. /\ Advance(p, x.at, x.to) /\ Available(c) /\ output[c][i].type = x.type
      /\ seen' = [seen EXCEPT ![c] = @ + 1]
      /\ SessionID' = [SessionID EXCEPT ![p] =
                         IF x.at = "initialize" THEN output[c][i].arg ELSE @]
      /\ UNCHANGED <<server, wire, subaddress>>
  BY DEF TakeResponse, Take, NextResponse
<1> HIDE DEF c, i
<1>3. /\ step[p] = x.at /\ step'[p] = x.to
      /\ \A q \in Clients \ {p} : step'[q] = step[q]
      /\ \A d \in Conn : d[1] # p => Written(d)' = Written(d)
      /\ \A d \in Conn : Written(d) \in 0 .. 2 /\ Written(d)' \in 0 .. 2
  BY <1>2, Moved
<1>4. UNCHANGED <<list, subaddress_data, phase, input, closed, allocated, pc, msg, payload,
                  sessionID, output, handled, subaddress>>
  BY <1>2 DEF server, wire
<1>5. /\ seen \in [Conn -> Nat] /\ output \in [Conn -> Seq(Responses)]
      /\ SessionID \in [Clients -> Handle]
  BY <1>1, Lengths DEF SystemIInv, SystemTypeOK
<1>6. i \in 1 .. Len(output[c])
  BY <1>1, <1>2, <1>5 DEF Available, i
<1>7. x.at = "initialize" => i \in Initialized(Sync(p)) /\ SessionID'[p] = output[Sync(p)][i].arg
  BY <1>1, <1>2, <1>5, <1>6 DEF Initialized
<1>8. /\ seen' \in [Conn -> Nat] /\ seen'[c] > 0
      /\ \A d \in Conn \ {c} : seen'[d] = seen[d]
      /\ seen'[c] = i
  BY <1>1, <1>2, <1>5 DEF i
<1>9. SystemTypeOK'
  <2>1. SessionID' \in [Clients -> Handle]
    <3>1. x.at = "initialize" => output[c][i].arg \in Handle
      BY <1>1, <1>7 DEF SystemIInv, IInv, ToldInv, TypeOK
    <3> QED BY <1>2, <1>5, <3>1
  <2>2. \A d \in Conn : seen'[d] \in 0 .. Len(output[d])
    <3>1. \A d \in Conn : seen[d] \in 0 .. Len(output[d])
      BY DEF SystemIInv, SystemTypeOK
    <3>2. seen'[c] \in 0 .. Len(output[c])
      BY <1>6, <1>8
    <3> QED BY <1>8, <3>1, <3>2
  <2>3. x.to \in Steps
    BY <1>1 DEF Steps
  <2> QED BY <1>2, <1>4, <2>1, <2>2, <2>3 DEF SystemIInv, SystemTypeOK, Advance, Steps
<1>10. WireInv'
  <2>1. ASSUME NEW d \in Conn, d[1] = p PROVE Written(d)' >= Written(d)
    BY <1>1, <1>3, <2>1 DEF Written, BeforeSync, BeforeAsync, BeforeSend
  <2> QED BY <1>2, <1>3, <1>4, <1>8, <2>1, WireKept
<1>11. ClosedInv'
  <2> USE DEF BeforeSync, BeforeAsync, BeforeSend
  <2> QED BY <1>1, <1>3, <1>4 DEF SystemIInv, ClosedInv
<1>12. StepInv'
  <2> USE DEF BeforeSync, BeforeAsync
  <2>1. \A d \in Conn : seen[d] > 0 => seen'[d] > 0
    BY <1>8
  <2>2. ASSUME NEW q \in Clients
        PROVE  /\ step'[q] \notin BeforeSync => seen'[Sync(q)] > 0
               /\ step'[q] \notin BeforeAsync => seen'[Async(q)] > 0
               /\ step'[q] # "start" => phase # "setup"
               /\ step'[q] \in {"close_sync", "failed"} /\ phase # "crashed"
                    => allocated = Handle
    BY <1>1, <1>3, <1>8, <2>1, Connections DEF SystemIInv, StepInv
  <2>3. ASSUME NEW q \in Clients, HasSession(q)'
        PROVE  \E j \in Initialized(Sync(q)) : output[Sync(q)][j].arg = SessionID'[q]
    <3>1. CASE q = p /\ x.at = "initialize"
      BY <1>7, <3>1
    <3>2. CASE ~(q = p /\ x.at = "initialize")
      <4>1. HasSession(q) /\ SessionID'[q] = SessionID[q]
        BY <1>1, <1>2, <1>3, <1>5, <2>3, <3>2 DEF HasSession
      <4> QED BY <4>1 DEF SystemIInv, StepInv
    <3> QED BY <3>1, <3>2
  <2>4. \A q \in Clients : Initialized(Sync(q))' = Initialized(Sync(q))
    BY <1>4 DEF Initialized
  <2> QED BY <1>4, <2>2, <2>3, <2>4 DEF StepInv
<1> QED BY <1>4, <1>9, <1>10, <1>11, <1>12 DEF vars

\* Which connection is closed at which step, and why.
Closes(p, from, to, c) ==
  \/ from = "initialize" /\ to = "failed" /\ c = Sync(p) /\ Ended(c)
  \/ from = "async_initialize" /\ to = "close_sync" /\ c = Async(p) /\ Ended(c)
  \/ from = "sizing" /\ to = "sized" /\ c = Async(p) /\ Ended(c)
  \/ from = "sent" /\ to = "unanswered" /\ c = Sync(p) /\ Ended(c)
  \/ from = "close_sync" /\ to = "failed" /\ c = Sync(p)
  \/ from \in {"open", "sized", "answered", "unanswered"} /\ to = "disconnect" /\ c = Sync(p)
  \/ from = "disconnect" /\ to = "closed" /\ c = Async(p)

\* The closing actions.
LEMMA ClosingActions ==
  ASSUME NEW p \in Clients,
         ResponseEnds(p) \/ CloseSync(p) \/ DisconnectSync(p) \/ DisconnectAsync(p)
  PROVE  \E from, to, c : Closes(p, from, to, c) /\ Advance(p, from, to) /\ CloseChannel(c)
<1>1. CASE ResponseEnds(p)
  <2>1. PICK x \in Exchange :
          /\ Ended(<<p, x.chan>>) /\ CloseChannel(<<p, x.chan>>)
          /\ Advance(p, x.at, CASE x.at = "initialize" -> "failed"
                                [] x.at = "async_initialize" -> "close_sync"
                                [] x.at = "sizing" -> "sized"
                                [] x.at = "sent" -> "unanswered")
    BY <1>1 DEF ResponseEnds
  <2>2. CASE x.at = "initialize" /\ x.chan = "sync"
    <3>1. Advance(p, "initialize", "failed")
      BY <2>1, <2>2
    <3> QED BY <2>1, <2>2, <3>1 DEF Closes, Sync
  <2>3. CASE x.at = "async_initialize" /\ x.chan = "async"
    <3>1. Advance(p, "async_initialize", "close_sync")
      BY <2>1, <2>3
    <3> QED BY <2>1, <2>3, <3>1 DEF Closes, Async
  <2>4. CASE x.at = "sizing" /\ x.chan = "async"
    <3>1. Advance(p, "sizing", "sized")
      BY <2>1, <2>4
    <3> QED BY <2>1, <2>4, <3>1 DEF Closes, Async
  <2>5. CASE x.at = "sent" /\ x.chan = "sync"
    <3>1. Advance(p, "sent", "unanswered")
      BY <2>1, <2>5
    <3> QED BY <2>1, <2>5, <3>1 DEF Closes, Sync
  <2> QED BY <2>1, <2>2, <2>3, <2>4, <2>5 DEF Exchange
<1>2. CASE CloseSync(p)
  <2>1. Closes(p, "close_sync", "failed", Sync(p))
    BY DEF Closes
  <2> QED BY <1>2, <2>1 DEF CloseSync
<1>3. CASE DisconnectSync(p)
  <2>1. PICK from \in {"open", "sized", "answered", "unanswered"} :
          Advance(p, from, "disconnect")
    BY <1>3 DEF DisconnectSync
  <2>2. Closes(p, from, "disconnect", Sync(p))
    BY <2>1 DEF Closes
  <2> QED BY <1>3, <2>1, <2>2 DEF DisconnectSync
<1>4. CASE DisconnectAsync(p)
  <2>1. Closes(p, "disconnect", "closed", Async(p))
    BY DEF Closes
  <2> QED BY <1>4, <2>1 DEF DisconnectAsync
<1> QED BY <1>1, <1>2, <1>3, <1>4

\* They are what ServerProcess calls hanging up, or change nothing it knows of.
LEMMA CloseKeeps ==
  ASSUME SystemIInv, NEW p \in Clients, NEW from, NEW to, NEW c,
         Closes(p, from, to, c), Advance(p, from, to), CloseChannel(c)
  PROVE  [Next]_vars /\ SystemTypeOK' /\ WireInv' /\ ClosedInv' /\ StepInv'
<1>1. c \in Conn /\ c \in {Sync(p), Async(p)}
  BY Connections DEF Closes
<1>2. /\ step[p] = from /\ step'[p] = to
      /\ \A q \in Clients \ {p} : step'[q] = step[q]
      /\ \A d \in Conn : d[1] # p => Written(d)' = Written(d)
      /\ \A d \in Conn : Written(d) \in 0 .. 2 /\ Written(d)' \in 0 .. 2
  BY Moved
<1>3. /\ UNCHANGED <<list, subaddress_data, phase, allocated, pc, msg, payload,
                     sessionID, output, handled, input, subaddress, SessionID, seen>>
      /\ closed' = closed \cup {c}
      /\ UNCHANGED <<server, subaddress, input>>
  BY DEF CloseChannel, server
<1>4. seen[c] \in Nat /\ Len(output[c]) \in Nat /\ seen[c] <= Len(output[c])
  <2>1. /\ output \in [Conn -> Seq(Responses)] /\ seen \in [Conn -> Nat]
        /\ seen[c] <= Len(output[c])
    BY <1>1, Lengths
  <2> QED BY <1>1, <2>1
<1>5. phase # "setup"
  BY <1>2 DEF Closes, SystemIInv, StepInv
<1>6. [Next]_vars
  <2>1. CASE c \in closed
    <3>1. closed' = closed
      BY <1>3, <2>1
    <3> QED BY <1>3, <3>1 DEF vars
  <2>2. CASE c \notin closed
    <3>1. HangUp(c)
      BY <1>3, <1>5, <2>2 DEF HangUp, shared
    <3> QED BY <1>1, <3>1 DEF Next
  <2> QED BY <2>1, <2>2
<1>7. SystemTypeOK'
  <2>1. to \in Steps
    BY DEF Closes, Steps
  <2> QED BY <1>3, <2>1 DEF SystemIInv, SystemTypeOK, Advance, Steps
<1>8. WireInv'
  <2>1. ASSUME NEW d \in Conn, d[1] = p PROVE Written(d)' >= Written(d)
    BY <1>2, <2>1 DEF Closes, Written, BeforeSync, BeforeAsync, BeforeSend
  <2>2. seen' \in [Conn -> Nat]
    BY <1>3 DEF SystemIInv, WireInv
  <2> QED BY <1>2, <1>3, <2>1, <2>2, WireKept
<1>9. ClosedInv'
  <2> USE DEF BeforeSync, BeforeAsync, BeforeSend
  <2>1. phase # "crashed" => pc[c] = "done" \/ Len(output[c]) > 0
    <3>1. CASE Ended(c)
      BY <3>1 DEF Ended
    <3>2. CASE ~Ended(c)
      <4>1. seen[c] > 0
        BY <1>2, <3>2 DEF Closes, SystemIInv, StepInv
      <4> QED BY <1>4, <4>1
    <3> QED BY <3>1, <3>2
  <2>2. \A d \in closed' : phase # "crashed" => pc[d] = "done" \/ Len(output[d]) > 0
    BY <1>3, <2>1 DEF SystemIInv, ClosedInv
  <2>3. ASSUME NEW q \in Clients
        PROVE  /\ step'[q] \in BeforeSend \ {"close_sync", "failed"}
                    => Sync(q) \notin closed'
               /\ step'[q] \in BeforeSend \ {"close_sync", "failed", "sized"}
                    => Async(q) \notin closed'
    <3>1. CASE q # p
      <4>1. Sync(q) # c /\ Async(q) # c
        BY <1>1, <3>1, Connections
      <4> QED BY <1>2, <1>3, <3>1, <4>1 DEF SystemIInv, ClosedInv
    <3>2. CASE q = p
      <4>1. Sync(p) # Async(p)
        BY Connections
      <4> QED BY <1>2, <1>3, <3>2, <4>1 DEF Closes, SystemIInv, ClosedInv
    <3> QED BY <3>1, <3>2
  <2> QED BY <1>3, <2>2, <2>3 DEF ClosedInv
<1>10. StepInv'
  <2> USE DEF BeforeSync, BeforeAsync
  <2>1. to \in {"close_sync", "failed"} /\ phase # "crashed" => allocated = Handle
    <3>1. CASE from = "close_sync"
      BY <1>2, <3>1 DEF SystemIInv, StepInv
    <3>2. CASE from \in {"initialize", "async_initialize"}
      <4>1. c \notin closed
        BY <1>2, <3>2 DEF Closes, SystemIInv, ClosedInv, BeforeSend
      <4> QED BY <1>1, <3>2, <4>1 DEF Closes, Ended, SystemIInv, DoneInv
    <3> QED BY <3>1, <3>2 DEF Closes
  <2>2. ASSUME NEW q \in Clients
        PROVE  /\ step'[q] \notin BeforeSync => seen[Sync(q)] > 0
               /\ step'[q] \notin BeforeAsync => seen[Async(q)] > 0
               /\ step'[q] # "start" => phase # "setup"
               /\ step'[q] \in {"close_sync", "failed"} /\ phase # "crashed"
                    => allocated = Handle
    BY <1>2, <1>5, <2>1 DEF SystemIInv, StepInv, Closes
  <2>3. ASSUME NEW q \in Clients, HasSession(q)'
        PROVE  \E j \in Initialized(Sync(q)) : output[Sync(q)][j].arg = SessionID[q]
    <3>1. HasSession(q)
      BY <1>2, <2>3 DEF HasSession, Closes
    <3> QED BY <3>1 DEF SystemIInv, StepInv
  <2>4. \A q \in Clients : Initialized(Sync(q))' = Initialized(Sync(q))
    BY <1>3 DEF Initialized
  <2> QED BY <1>3, <2>2, <2>3, <2>4 DEF StepInv
<1> QED BY <1>6, <1>7, <1>8, <1>9, <1>10

-----------------------------------------------------------------------------
(* The steps of the server *)

\* What was written stays written, and more may follow.
Grows ==
  \A d \in Conn :
    /\ Len(output'[d]) >= Len(output[d])
    /\ \A i \in 1 .. Len(output[d]) : output'[d][i] = output[d][i]

\* What is said of the clients alone holds after every step of the server.
LEMMA ServerFrame ==
  ASSUME SystemIInv, IInv', UNCHANGED client, Grows,
         phase # "setup" => phase' # "setup", phase' # "crashed" => phase # "crashed",
         allocated \subseteq allocated'
  PROVE  SystemTypeOK' /\ StepInv' /\ \A d \in Conn : Written(d)' = Written(d)
<1>1. UNCHANGED <<step, subaddress, SessionID, seen>>
  BY DEF client
<1>2. /\ output \in [Conn -> Seq(Responses)] /\ output' \in [Conn -> Seq(Responses)]
      /\ allocated' \subseteq Handle
  BY DEF SystemIInv, IInv, SequencesInv, TypeOK
<1>3. SystemTypeOK'
  <2>1. ASSUME NEW d \in Conn PROVE seen[d] \in 0 .. Len(output'[d])
    <3>1. seen[d] \in 0 .. Len(output[d]) /\ Len(output'[d]) >= Len(output[d])
      BY DEF SystemIInv, SystemTypeOK, Grows
    <3> QED BY <1>2, <3>1
  <2> QED BY <1>1, <2>1 DEF SystemIInv, SystemTypeOK
<1>4. StepInv'
  <2>1. ASSUME NEW d \in Conn, NEW j \in Initialized(d)
        PROVE  j \in Initialized(d)' /\ output'[d][j] = output[d][j]
    <3>1. j \in 1 .. Len(output[d]) /\ output[d][j].type = "InitializeResponse"
      BY DEF Initialized
    <3>2. output'[d][j] = output[d][j] /\ Len(output'[d]) >= Len(output[d])
      BY <3>1 DEF Grows
    <3>3. j \in 1 .. Len(output'[d])
      BY <1>2, <3>1, <3>2
    <3> QED BY <3>1, <3>2, <3>3 DEF Initialized
  <2>2. ASSUME NEW p \in Clients, HasSession(p)'
        PROVE  \E j \in Initialized(Sync(p))' : output'[Sync(p)][j].arg = SessionID'[p]
    <3>1. PICK j \in Initialized(Sync(p)) : output[Sync(p)][j].arg = SessionID[p]
      BY <1>1, <2>2 DEF SystemIInv, StepInv, HasSession
    <3>2. Sync(p) \in Conn
      BY Connections
    <3> QED BY <1>1, <2>1, <3>1, <3>2
  <2>3. ASSUME NEW p \in Clients, step[p] \in {"close_sync", "failed"}, phase' # "crashed"
        PROVE  allocated' = Handle
    BY <1>2, <2>3 DEF SystemIInv, StepInv
  <2>4. ASSUME NEW p \in Clients
        PROVE  /\ step[p] \notin BeforeSync => seen[Sync(p)] > 0
               /\ step[p] \notin BeforeAsync => seen[Async(p)] > 0
               /\ step[p] # "start" => phase' # "setup"
    BY DEF SystemIInv, StepInv
  <2> QED BY <1>1, <2>2, <2>3, <2>4 DEF StepInv
<1>5. \A d \in Conn : Written(d)' = Written(d)
  BY <1>1 DEF Written
<1> QED BY <1>3, <1>4, <1>5

\* Registration and hs_server_run.
LEMMA SetupKeeps ==
  ASSUME SystemIInv, Setup, UNCHANGED client
  PROVE  SystemIInv'
<1>1. /\ phase = "setup" /\ phase' \in {"setup", "running"}
      /\ UNCHANGED <<input, closed, allocated, pc, msg, output, handled>>
  BY DEF Setup, Register, RegisterFails, Run, wire
<1>2. IInv'
  BY NextIInv DEF Next, SystemIInv
<1>3. SystemTypeOK' /\ StepInv' /\ \A d \in Conn : Written(d)' = Written(d)
  <2>1. output \in [Conn -> Seq(Responses)]
    BY DEF SystemIInv, IInv, SequencesInv
  <2>2. Grows
    BY <1>1, <2>1 DEF Grows
  <2>3. phase # "setup" => phase' # "setup"
    BY <1>1
  <2>4. phase' # "crashed" => phase # "crashed"
    BY <1>1
  <2> QED BY <1>1, <1>2, <2>2, <2>3, <2>4, ServerFrame
<1>4. WireInv'
  BY <1>1, <1>3 DEF SystemIInv, WireInv, Received, Waiting, Protocol, InHand, client
<1>5. DoneInv' /\ ClosedInv'
  BY <1>1 DEF SystemIInv, DoneInv, ClosedInv, client
<1>6. ServerSurvives'
  BY <1>1 DEF ServerSurvives
<1> QED BY <1>2, <1>3, <1>4, <1>5, <1>6 DEF SystemIInv

\* A thread's step: what it takes, keeps and answers on its own connection.
LEMMA ThreadWire ==
  ASSUME SystemIInv, IInv', NEW c \in Conn, UNCHANGED client,
         \A d \in Conn : Written(d)' = Written(d),
         \A d \in Conn \ {c} : /\ pc'[d] = pc[d] /\ msg'[d] = msg[d] /\ input'[d] = input[d]
                               /\ output'[d] = output[d] /\ handled'[d] = handled[d],
         Received(c)' = Received(c), Waiting(c)' \subseteq Waiting(c),
         Len(output'[c]) <= Len(handled'[c]),
         Len(output'[c]) > 0 => Len(output[c]) > 0 \/ Waiting(c)' = {}
  PROVE  WireInv'
<1>1. \A d \in Conn : /\ Received(d) <= Written(d) /\ Len(output[d]) <= Len(handled[d])
                      /\ \A w \in Waiting(d) : Protocol(d, w)
  BY DEF SystemIInv, WireInv
<1>2. ASSUME NEW d \in Conn \ {c}
      PROVE  /\ Received(d)' = Received(d) /\ Waiting(d)' = Waiting(d)
             /\ \A w : Protocol(d, w)' <=> Protocol(d, w)
  <2>1. InHand(d)' <=> InHand(d)
    BY DEF InHand
  <2>2. Waiting(d)' = Waiting(d)
    BY <2>1 DEF Waiting
  <2>3. Received(d)' = Received(d)
    BY <2>1 DEF Received
  <2>4. \A w : Protocol(d, w)' <=> Protocol(d, w)
    BY DEF Protocol, client
  <2> QED BY <2>2, <2>3, <2>4
<1>3. \A w \in Waiting(c)' : Protocol(c, w)'
  BY <1>1 DEF Protocol, client
<1>4. seen' \in [Conn -> Nat]
  BY DEF SystemIInv, WireInv, client
<1> QED BY <1>1, <1>2, <1>3, <1>4 DEF WireInv

\* On a connection that has had no answer there is one message at most.
LEMMA AloneUnanswered ==
  ASSUME SystemIInv, NEW c \in Conn, InHand(c), Len(output[c]) = 0
  PROVE  Len(input[c]) = 0
<1>1. /\ handled \in [Conn -> Seq(Messages)] /\ input \in [Conn -> Seq(Messages)]
      /\ seen \in [Conn -> Nat] /\ seen[c] <= Len(output[c])
      /\ Received(c) = Len(handled[c]) + Len(input[c]) + 1
      /\ Written(c) \in 0 .. 2
  BY Lengths
<1>2. seen[c] = 0
  BY <1>1
<1>3. \E p \in Clients : c[1] = p /\ (c = Sync(p) \/ c = Async(p))
  <2>1. Conn = Clients \X {"sync", "async"}
    BY SystemAssumption
  <2> QED BY <2>1 DEF Sync, Async
<1>4. PICK p \in Clients : c[1] = p /\ (c = Sync(p) \/ c = Async(p))
  BY <1>3
<1>5. Written(c) <= 1
  <2>1. CASE c = Sync(p)
    <3>1. step[p] \in BeforeSync /\ IsSync(c)
      BY <1>2, <2>1, Connections DEF SystemIInv, StepInv
    <3> QED BY <1>4, <3>1 DEF Written, BeforeSync, BeforeAsync, BeforeSend
  <2>2. CASE c = Async(p)
    <3>1. step[p] \in BeforeAsync /\ ~IsSync(c)
      BY <1>2, <2>2, Connections DEF SystemIInv, StepInv
    <3> QED BY <1>4, <3>1 DEF Written, BeforeSync, BeforeAsync
  <2> QED BY <1>4, <2>1, <2>2
<1>6. Received(c) <= Written(c)
  BY DEF SystemIInv, WireInv
<1> QED BY <1>1, <1>5, <1>6

\* A message received, the end of the stream, a session taken, a name looked up.
LEMMA QuietKeeps ==
  ASSUME SystemIInv, NEW c \in Conn, UNCHANGED client,
         Receive(c) \/ ReceiveEnd(c) \/ NewSession(c) \/ Link(c)
  PROVE  SystemIInv'
<1>1. IInv'
  <2>1. Thread(c)
    BY DEF Thread
  <2> QED BY <2>1, NextIInv DEF Next, SystemIInv
<1>2. /\ phase = "running" /\ UNCHANGED <<phase, closed, output, handled>>
      /\ allocated \subseteq allocated'
  BY DEF Receive, ReceiveEnd, NewSession, Link, Goto, shared, wire
<1>3. /\ handled \in [Conn -> Seq(Messages)] /\ input \in [Conn -> Seq(Messages)]
      /\ output \in [Conn -> Seq(Responses)] /\ input' \in [Conn -> Seq(Messages)]
      /\ pc \in [Conn -> {"read", "act", "link", "respond", "done"}]
      /\ msg \in [Conn -> Messages \cup {NoMessage}]
  BY <1>1 DEF SystemIInv, IInv, TypeOK, SequencesInv
<1>4. SystemTypeOK' /\ StepInv' /\ \A d \in Conn : Written(d)' = Written(d)
  <2>1. Grows
    BY <1>2, <1>3 DEF Grows
  <2>2. phase # "setup" => phase' # "setup"
    BY <1>2
  <2>3. phase' # "crashed" => phase # "crashed"
    BY <1>2
  <2> QED BY <1>1, <1>2, <2>1, <2>2, <2>3, ServerFrame
<1>5. /\ \A d \in Conn \ {c} : pc'[d] = pc[d] /\ msg'[d] = msg[d] /\ input'[d] = input[d]
      /\ pc'[c] = "done" => c \in closed
      /\ pc[c] # "done"
  <2>1. CASE Receive(c)
    BY <1>3, <2>1 DEF Receive, Goto
  <2>2. CASE ReceiveEnd(c)
    BY <1>3, <2>2 DEF ReceiveEnd, Goto, wire
  <2>3. CASE NewSession(c) \/ Link(c)
    BY <1>3, <2>3 DEF NewSession, Link, Goto, wire
  <2> QED BY <2>1, <2>2, <2>3
<1>6. Received(c)' = Received(c) /\ Waiting(c)' \subseteq Waiting(c)
  <2>1. CASE Receive(c)
    <3>1. /\ input[c] \in Seq(Messages) /\ input[c] # <<>>
          /\ msg'[c] = Head(input[c]) /\ input'[c] = Tail(input[c])
          /\ pc[c] = "read" /\ pc'[c] = "act"
      BY <1>3, <2>1 DEF Receive, Goto
    <3>2. /\ Len(input'[c]) = Len(input[c]) - 1 /\ Len(input[c]) > 0
          /\ \A i \in 1 .. Len(input'[c]) : input'[c][i] = input[c][i + 1]
          /\ Head(input[c]) = input[c][1]
      BY <3>1
    <3>3. ~InHand(c) /\ InHand(c)'
      BY <3>1 DEF InHand
    <3>4. Received(c)' = Received(c)
      <4>1. Received(c) = Len(handled[c]) + Len(input[c]) + 0
        BY <3>3 DEF Received
      <4>2. Received(c)' = Len(handled[c]) + Len(input'[c]) + 1
        BY <1>2, <3>3 DEF Received
      <4>3. Len(handled[c]) \in Nat /\ Len(input[c]) \in Nat
        BY <1>3
      <4> QED BY <1>3, <3>2, <4>1, <4>2, <4>3
    <3>5. Waiting(c)' \subseteq Waiting(c)
      <4>1. ASSUME NEW i \in 1 .. Len(input'[c]) PROVE input'[c][i] \in Waiting(c)
        <5>1. i + 1 \in 1 .. Len(input[c])
          BY <1>3, <3>2
        <5> QED BY <3>2, <5>1 DEF Waiting
      <4>2. msg'[c] \in Waiting(c)
        <5>1. 1 \in 1 .. Len(input[c])
          BY <1>3, <3>2
        <5> QED BY <3>1, <3>2, <5>1 DEF Waiting
      <4> QED BY <3>3, <4>1, <4>2 DEF Waiting
    <3> QED BY <3>4, <3>5
  <2>2. CASE ReceiveEnd(c)
    <3>1. input' = input /\ ~InHand(c) /\ ~InHand(c)'
      BY <1>3, <2>2 DEF ReceiveEnd, Goto, wire, InHand
    <3> QED BY <1>2, <3>1 DEF Received, Waiting
  <2>3. CASE NewSession(c) \/ Link(c)
    <3>1. input' = input /\ msg' = msg /\ InHand(c) /\ InHand(c)'
      BY <1>3, <2>3 DEF NewSession, Link, Goto, wire, InHand
    <3> QED BY <1>2, <3>1 DEF Received, Waiting
  <2> QED BY <2>1, <2>2, <2>3
<1>7. WireInv'
  <2>1. Len(output'[c]) <= Len(handled'[c])
    BY <1>2 DEF SystemIInv, WireInv
  <2>2. Len(output'[c]) > 0 => Len(output[c]) > 0 \/ Waiting(c)' = {}
    BY <1>2
  <2>3. \A d \in Conn \ {c} : output'[d] = output[d] /\ handled'[d] = handled[d]
    BY <1>2
  <2> QED BY <1>1, <1>4, <1>5, <1>6, <2>1, <2>2, <2>3, ThreadWire
<1>8. DoneInv'
  <2>1. allocated = Handle => allocated' = Handle
    BY <1>1, <1>2 DEF IInv, TypeOK
  <2> QED BY <1>2, <1>5, <2>1 DEF SystemIInv, DoneInv
<1>9. ClosedInv'
  <2>1. \A d \in closed : d \in Conn
    BY DEF SystemIInv, IInv, TypeOK
  <2>2. ASSUME NEW d \in closed PROVE pc'[d] = "done" \/ Len(output[d]) > 0
    BY <1>2, <1>5, <2>1 DEF SystemIInv, ClosedInv
  <2>3. step' = step
    BY DEF client
  <2> QED BY <1>2, <2>2, <2>3 DEF SystemIInv, ClosedInv
<1>10. ServerSurvives'
  BY <1>2 DEF ServerSurvives
<1> QED BY <1>1, <1>4, <1>7, <1>8, <1>9, <1>10 DEF SystemIInv

\* A message done with: its answer, if any, and when the thread leaves.
LEMMA Finished ==
  ASSUME SystemIInv, NEW c \in Conn, Other(c) \/ RespondInitialize(c)
  PROVE  /\ InHand(c) /\ ~InHand(c)' /\ phase = "running"
         /\ UNCHANGED <<phase, input, closed, allocated>>
         /\ \A d \in Conn \ {c} : /\ pc'[d] = pc[d] /\ msg'[d] = msg[d]
                                  /\ output'[d] = output[d] /\ handled'[d] = handled[d]
         /\ Len(handled'[c]) = Len(handled[c]) + 1
         /\ Len(output'[c]) \in {Len(output[c]), Len(output[c]) + 1}
         /\ \A i \in 1 .. Len(output[c]) : output'[c][i] = output[c][i]
         /\ pc'[c] = "done" => /\ output' = output
                               /\ RefuseVersion(c) \/ RefuseSession(c)
<1>1. /\ handled \in [Conn -> Seq(Messages)] /\ output \in [Conn -> Seq(Responses)]
      /\ pc \in [Conn -> {"read", "act", "link", "respond", "done"}]
      /\ msg \in [Conn -> Messages \cup {NoMessage}]
      /\ IInv /\ allocated \subseteq Handle
  BY DEF SystemIInv, IInv, TypeOK, SequencesInv
<1>2. \E r : \E from \in {"act", "respond"} : \E to \in {"read", "done"} :
        /\ Finish(c, from, to, r)
        /\ r = <<>> \/ \E x \in Responses : r = <<x>>
  <2>1. CASE Other(c)
    BY <1>1, <2>1, OtherIsSilent DEF Silent
  <2>2. CASE RespondInitialize(c)
    <3> DEFINE x == Response("InitializeResponse", sessionID[c], NoName)
    <3>1. Finish(c, "respond", "read", <<x>>)
      BY <2>2 DEF RespondInitialize
    <3>2. Pending(c)
      BY <2>2 DEF RespondInitialize, Finish, Goto, Pending
    <3>3. sessionID[c] \in Handle
      BY <1>1, <3>2 DEF IInv, PendingInv
    <3>4. x \in Responses
      BY <3>3 DEF Response, Responses
    <3> HIDE DEF x
    <3> QED BY <3>1, <3>4
  <2> QED BY <2>1, <2>2
<1>3. PICK r : \E from \in {"act", "respond"} : \E to \in {"read", "done"} :
        /\ Finish(c, from, to, r)
        /\ r = <<>> \/ \E x \in Responses : r = <<x>>
  BY <1>2
<1>4. PICK from \in {"act", "respond"}, to \in {"read", "done"} :
        /\ Finish(c, from, to, r)
        /\ r = <<>> \/ \E x \in Responses : r = <<x>>
  BY <1>3
<1>5. /\ phase = "running" /\ UNCHANGED <<phase, input, closed>>
      /\ pc[c] = from /\ pc' = [pc EXCEPT ![c] = to]
      /\ msg' = [msg EXCEPT ![c] = NoMessage]
      /\ output' = [output EXCEPT ![c] = @ \o r]
      /\ handled' = [handled EXCEPT ![c] = Append(@, msg[c])]
  BY <1>4 DEF Finish, Goto, shared, wire
<1>6. /\ \A d \in Conn \ {c} : /\ pc'[d] = pc[d] /\ msg'[d] = msg[d]
                               /\ output'[d] = output[d] /\ handled'[d] = handled[d]
      /\ pc'[c] = to
  BY <1>1, <1>5
<1>7. InHand(c) /\ ~InHand(c)'
  BY <1>4, <1>5, <1>6 DEF InHand
<1>8. Len(handled'[c]) = Len(handled[c]) + 1
  <2>1. msg[c] \in Messages
    BY <1>1, <1>7 DEF IInv, MessageInv
  <2>2. handled'[c] = Append(handled[c], msg[c]) /\ handled[c] \in Seq(Messages)
    BY <1>1, <1>5
  <2> QED BY <2>1, <2>2
<1>9. /\ Len(output'[c]) \in {Len(output[c]), Len(output[c]) + 1}
      /\ \A i \in 1 .. Len(output[c]) : output'[c][i] = output[c][i]
      /\ r = <<>> => output' = output
  <2>1. output'[c] = output[c] \o r /\ output[c] \in Seq(Responses)
    BY <1>1, <1>5
  <2>2. CASE r = <<>>
    <3>1. output[c] \o <<>> = output[c]
      BY <2>1, ConcatEmptySeq
    <3>2. output' = output
      BY <1>1, <1>5, <2>2, <3>1
    <3> QED BY <3>2
  <2>3. CASE \E x \in Responses : r = <<x>>
    <3>1. PICK x \in Responses : r = <<x>>
      BY <2>3
    <3>2. /\ Len(output'[c]) = Len(output[c]) + 1
          /\ \A i \in 1 .. Len(output[c]) : output'[c][i] = output[c][i]
      BY <2>1, <3>1, Appended
    <3>3. r # <<>>
      BY <3>1
    <3> QED BY <3>2, <3>3
  <2> QED BY <1>4, <2>2, <2>3
<1>10. allocated' = allocated
  BY DEF Other, RefuseVersion, RefuseSession, AsyncInitialize, CallBack, Ignore,
         RespondInitialize
<1>11. ASSUME pc'[c] = "done"
       PROVE  output' = output /\ (RefuseVersion(c) \/ RefuseSession(c))
  <2>1. RefuseVersion(c) \/ RefuseSession(c)
    BY <1>1, <1>11 DEF Other, AsyncInitialize, CallBack, Ignore, RespondInitialize,
                      Finish, Goto
  <2>2. output' = [output EXCEPT ![c] = @ \o <<>>]
    BY <2>1 DEF RefuseVersion, RefuseSession, Finish
  <2>3. output[c] \in Seq(Responses) /\ output[c] \o <<>> = output[c]
    BY <1>1, ConcatEmptySeq
  <2> QED BY <1>1, <2>1, <2>2, <2>3
<1> QED BY <1>5, <1>6, <1>7, <1>8, <1>9, <1>10, <1>11

\* Answers and refusals.
LEMMA FinishedKeeps ==
  ASSUME SystemIInv, NEW c \in Conn, UNCHANGED client, Other(c) \/ RespondInitialize(c)
  PROVE  SystemIInv'
<1>1. IInv'
  <2>1. Thread(c)
    BY DEF Thread, Other
  <2> QED BY <2>1, NextIInv DEF Next, SystemIInv
<1>2. /\ InHand(c) /\ ~InHand(c)' /\ phase = "running"
      /\ UNCHANGED <<phase, input, closed, allocated>>
      /\ \A d \in Conn \ {c} : /\ pc'[d] = pc[d] /\ msg'[d] = msg[d]
                               /\ output'[d] = output[d] /\ handled'[d] = handled[d]
      /\ Len(handled'[c]) = Len(handled[c]) + 1
      /\ Len(output'[c]) \in {Len(output[c]), Len(output[c]) + 1}
      /\ \A i \in 1 .. Len(output[c]) : output'[c][i] = output[c][i]
      /\ pc'[c] = "done" => output' = output /\ (RefuseVersion(c) \/ RefuseSession(c))
  BY Finished
<1>3. /\ handled \in [Conn -> Seq(Messages)] /\ input \in [Conn -> Seq(Messages)]
      /\ output \in [Conn -> Seq(Responses)] /\ output' \in [Conn -> Seq(Responses)]
      /\ handled' \in [Conn -> Seq(Messages)]
      /\ Received(c) = Len(handled[c]) + Len(input[c]) + 1
  BY <1>1, <1>2, Lengths DEF SystemIInv, IInv, SequencesInv
<1>4. SystemTypeOK' /\ StepInv' /\ \A d \in Conn : Written(d)' = Written(d)
  <2>1. Grows
    <3>1. Len(output'[c]) >= Len(output[c])
      BY <1>2, <1>3
    <3>2. \A d \in Conn \ {c} : Len(output'[d]) >= Len(output[d])
      BY <1>2, <1>3
    <3> QED BY <1>2, <3>1, <3>2 DEF Grows
  <2>2. phase # "setup" => phase' # "setup"
    BY <1>2
  <2>3. phase' # "crashed" => phase # "crashed"
    BY <1>2
  <2> QED BY <1>1, <1>2, <2>1, <2>2, <2>3, ServerFrame
<1>5. WireInv'
  <2>1. Received(c)' = Received(c)
    <3>1. Received(c)' = Len(handled'[c]) + Len(input[c]) + 0
      BY <1>2 DEF Received
    <3> QED BY <1>2, <1>3, <3>1
  <2>2. Waiting(c)' \subseteq Waiting(c)
    BY <1>2 DEF Waiting
  <2>3. Len(output'[c]) <= Len(handled'[c])
    <3>1. Len(output[c]) <= Len(handled[c])
      BY DEF SystemIInv, WireInv
    <3> QED BY <1>2, <1>3, <3>1
  <2>4. Len(output'[c]) > 0 => Len(output[c]) > 0 \/ Waiting(c)' = {}
    <3>1. CASE Len(output[c]) = 0
      <4>1. Len(input[c]) = 0
        BY <1>2, <3>1, AloneUnanswered
      <4>2. 1 .. Len(input'[c]) = {}
        BY <1>2, <4>1
      <4> QED BY <1>2, <4>2 DEF Waiting
    <3>2. CASE Len(output[c]) # 0
      BY <1>3, <3>2
    <3> QED BY <3>1, <3>2
  <2>5. \A d \in Conn \ {c} : input'[d] = input[d]
    BY <1>2
  <2> QED BY <1>1, <1>2, <1>4, <2>1, <2>2, <2>3, <2>4, <2>5, ThreadWire
<1>6. DoneInv'
  <2>1. ASSUME pc'[c] = "done"
        PROVE  Len(output'[c]) < Len(handled'[c]) /\ allocated = Handle
    <3>1. Len(output[c]) <= Len(handled[c])
      BY DEF SystemIInv, WireInv
    <3>2. Len(output'[c]) < Len(handled'[c])
      BY <1>2, <1>3, <2>1, <3>1
    <3>3. ~RefuseVersion(c)
      <4>1. msg[c] \in Waiting(c)
        BY <1>2 DEF Waiting
      <4>2. Protocol(c, msg[c])
        BY <4>1 DEF SystemIInv, WireInv
      <4> QED BY <4>2 DEF RefuseVersion, Protocol, Dropped
    <3>4. RefuseSession(c)
      BY <1>2, <2>1, <3>3
    <3> QED BY <3>2, <3>4 DEF RefuseSession
  <2>2. \A d \in Conn \ {c} : pc'[d] = "done" /\ d \notin closed =>
          Len(output'[d]) < Len(handled'[d]) /\ allocated = Handle
    BY <1>2 DEF SystemIInv, DoneInv
  <2> QED BY <1>2, <2>1, <2>2 DEF DoneInv
<1>7. ClosedInv'
  <2>1. \A d \in closed : d \in Conn
    BY DEF SystemIInv, IInv, TypeOK
  <2>2. ASSUME NEW d \in closed PROVE pc'[d] = "done" \/ Len(output'[d]) > 0
    <3>1. pc[d] = "done" \/ Len(output[d]) > 0
      BY <1>2 DEF SystemIInv, ClosedInv
    <3>2. pc[c] # "done"
      BY <1>2 DEF InHand
    <3>3. Len(output[c]) > 0 => Len(output'[c]) > 0
      BY <1>2, <1>3
    <3> QED BY <1>2, <2>1, <3>1, <3>2, <3>3
  <2>3. step' = step
    BY DEF client
  <2> QED BY <1>2, <2>2, <2>3 DEF SystemIInv, ClosedInv
<1>8. ServerSurvives'
  BY <1>2 DEF ServerSurvives
<1> QED BY <1>1, <1>4, <1>5, <1>6, <1>7, <1>8 DEF SystemIInv

\* Data is never sent, and a connection is left only once it has been answered, when
\* nothing more will be written to it: one action takes the server down.
LEMMA OnlyLinkCrashes ==
  ASSUME SystemIInv, NEW c \in Conn
  PROVE  ~CallBackCrashes(c) /\ ~BrokenPipe(c)
<1>1. ASSUME InHand(c) PROVE Protocol(c, msg[c])
  <2>1. msg[c] \in Waiting(c)
    BY <1>1 DEF Waiting
  <2>2. QED
    BY <2>1 DEF SystemIInv, WireInv
<1>2. ~CallBackCrashes(c)
  BY <1>1 DEF CallBackCrashes, InHand, Protocol, Dropped
<1>3. ASSUME BrokenPipe(c) PROVE FALSE
  <2>1. /\ c \in closed /\ InHand(c) /\ pc[c] # "done" /\ phase = "running"
        /\ msg[c].type \in {"Initialize", "AsyncInitialize", "Data"}
    BY <1>3 DEF BrokenPipe, InHand, SystemIInv, IInv, MessageInv, Pending
  <2>2. Len(output[c]) > 0
    BY <2>1 DEF SystemIInv, ClosedInv
  <2>3. QED
    BY <1>1, <2>1, <2>2 DEF Protocol, Dropped
<1>4. QED
  BY <1>2, <1>3

\* The server goes down: not through a client that has opened a named subaddress.
LEMMA DownKeeps ==
  ASSUME SystemIInv, NEW c \in Conn, UNCHANGED client,
         LinkCrashes(c) \/ CallBackCrashes(c) \/ BrokenPipe(c)
  PROVE  SystemIInv'
<1>1. IInv'
  <2>1. Thread(c)
    BY DEF Thread
  <2> QED BY <2>1, NextIInv DEF Next, SystemIInv
<1>2. /\ phase = "running" /\ phase' = "crashed"
      /\ UNCHANGED <<input, closed, allocated, pc, msg, output, handled>>
  BY DEF LinkCrashes, CallBackCrashes, BrokenPipe, Crash, wire
<1>3. SystemTypeOK' /\ StepInv' /\ \A d \in Conn : Written(d)' = Written(d)
  <2>1. output \in [Conn -> Seq(Responses)]
    BY DEF SystemIInv, IInv, SequencesInv
  <2>2. Grows
    BY <1>2, <2>1 DEF Grows
  <2>3. phase # "setup" => phase' # "setup"
    BY <1>2
  <2>4. phase' # "crashed" => phase # "crashed"
    BY <1>2
  <2> QED BY <1>1, <1>2, <2>2, <2>3, <2>4, ServerFrame
<1>4. WireInv'
  BY <1>2, <1>3 DEF SystemIInv, WireInv, Received, Waiting, Protocol, InHand, client
<1>5. DoneInv' /\ ClosedInv'
  BY <1>2 DEF SystemIInv, DoneInv, ClosedInv, client
<1>6. ServerSurvives'
  <2>1. LinkCrashes(c)
    BY OnlyLinkCrashes
  <2>2. InHand(c) /\ Pending(c) /\ payload[c] = NoLoad
    BY <2>1 DEF LinkCrashes, InHand, Pending
  <2>3. msg[c].type = "Initialize" /\ msg[c].load = NoLoad
    BY <2>2 DEF SystemIInv, IInv, MessageInv, PayloadInv
  <2>4. Protocol(c, msg[c])
    <3>1. msg[c] \in Waiting(c)
      BY <2>2 DEF Waiting
    <3> QED BY <3>1 DEF SystemIInv, WireInv
  <2>5. c[1] \in Clients /\ subaddress[c[1]] = NoLoad
    BY <2>3, <2>4, Connections DEF Protocol, Dropped
  <2> QED BY <2>5 DEF ServerSurvives, client
<1> QED BY <1>1, <1>3, <1>4, <1>5, <1>6 DEF SystemIInv

-----------------------------------------------------------------------------
(* Theorems *)

\* Nothing has been sent.
LEMMA InitSystemIInv == SystemInit => SystemIInv
<1> SUFFICES ASSUME SystemInit PROVE SystemIInv
  OBVIOUS
<1>1. Init /\ IInv
  BY InitIInv DEF SystemInit
<1>2. \A c \in Conn : /\ input[c] = <<>> /\ output[c] = <<>> /\ handled[c] = <<>>
                      /\ pc[c] = "read" /\ seen[c] = 0
  BY DEF SystemInit, Init
<1>3. SystemTypeOK
  <2>1. 0 \in Handle
    BY ServerAssumption DEF Handle
  <2>2. \A c \in Conn : seen[c] \in 0 .. Len(output[c])
    BY <1>2
  <2> QED BY <2>1, <2>2 DEF SystemInit, SystemTypeOK
<1>4. \A c \in Conn : Written(c) = 0 /\ Received(c) = 0 /\ Waiting(c) = {}
  <2> SUFFICES ASSUME NEW c \in Conn
               PROVE  Written(c) = 0 /\ Received(c) = 0 /\ Waiting(c) = {}
    OBVIOUS
  <2>1. c[1] \in Clients
    BY Connections
  <2>2. Written(c) = 0
    BY <2>1 DEF SystemInit, Written
  <2>3. ~InHand(c)
    BY <1>2 DEF InHand
  <2>4. Received(c) = 0
    <3>1. Received(c) = Len(<<>>) + Len(<<>>) + 0
      BY <1>2, <2>3 DEF Received
    <3>2. Len(<<>>) = 0
      OBVIOUS
    <3>3. Received(c) = 0 + 0 + 0
      BY <3>1, <3>2
    <3> QED BY <3>3
  <2>5. Waiting(c) = {}
    BY <1>2, <2>3 DEF Waiting
  <2> QED BY <2>2, <2>4, <2>5
<1>5. WireInv
  <2>1. seen \in [Conn -> Nat]
    BY DEF SystemInit
  <2>2. \A c \in Conn : Received(c) <= Written(c) /\ Len(output[c]) <= Len(handled[c])
    BY <1>2, <1>4
  <2> QED BY <1>4, <2>1, <2>2 DEF WireInv
<1>6. DoneInv
  BY <1>2 DEF DoneInv
<1>7. closed = {} /\ phase = "setup" /\ \A p \in Clients : step[p] = "start"
  BY DEF SystemInit, Init
<1>8. ClosedInv /\ StepInv /\ ServerSurvives
  BY <1>7 DEF ClosedInv, StepInv, ServerSurvives, BeforeSync, BeforeAsync, HasSession
<1> QED BY <1>1, <1>3, <1>5, <1>6, <1>8 DEF SystemIInv

\* A client's step is one that ServerProcess allows and keeps the invariant.
LEMMA ClientKeeps ==
  ASSUME SystemIInv, NEW p \in Clients, Client(p)
  PROVE  [Next]_vars /\ SystemIInv'
<1>1. DoneInv' /\ ServerSurvives'
  BY ClientFrame
<1>2. [Next]_vars /\ SystemTypeOK' /\ WireInv' /\ ClosedInv' /\ StepInv'
  <2>1. CASE \/ SendInitialize(p) \/ SendAsyncInitialize(p)
             \/ SetMaximumMessageSize(p) \/ SyncSend(p)
    <3>1. PICK from, to, c, m : /\ Writes(p, from, to, c, m) /\ Advance(p, from, to)
                                /\ Write(c, m.type, m.arg, m.load)
      BY <2>1, WritingActions
    <3> QED BY <3>1, WriteKeeps
  <2>2. ASSUME NEW x \in Exchange, TakeResponse(p, x)
        PROVE  [Next]_vars /\ SystemTypeOK' /\ WireInv' /\ ClosedInv' /\ StepInv'
    BY <2>2, TakeKeeps
  <2>3. CASE ResponseEnds(p) \/ CloseSync(p) \/ DisconnectSync(p) \/ DisconnectAsync(p)
    <3>1. PICK from, to, c :
            Closes(p, from, to, c) /\ Advance(p, from, to) /\ CloseChannel(c)
      BY <2>3, ClosingActions
    <3> QED BY <3>1, CloseKeeps
  <2>4. CASE ConnectAsyncFails(p)
    <3>1. /\ phase = "crashed" /\ Advance(p, "connect_async", "close_sync")
          /\ UNCHANGED <<server, wire, subaddress, SessionID, seen>>
      BY <2>4 DEF ConnectAsyncFails
    <3>2. /\ step[p] = "connect_async" /\ step'[p] = "close_sync"
          /\ \A q \in Clients \ {p} : step'[q] = step[q]
          /\ \A d \in Conn : d[1] # p => Written(d)' = Written(d)
          /\ \A d \in Conn : Written(d) \in 0 .. 2 /\ Written(d)' \in 0 .. 2
      BY <3>1, Moved
    <3>3. UNCHANGED <<list, subaddress_data, phase, input, closed, allocated, pc, msg,
                      payload, sessionID, output, handled, subaddress, SessionID, seen>>
      BY <3>1 DEF server, wire
    <3>4. WireInv'
      <4>1. ASSUME NEW d \in Conn, d[1] = p PROVE Written(d)' >= Written(d)
        BY <3>2, <4>1 DEF Written, BeforeSync, BeforeAsync, BeforeSend
      <4>2. seen' \in [Conn -> Nat]
        BY <3>3 DEF SystemIInv, WireInv
      <4> QED BY <3>1, <3>2, <3>3, <4>1, <4>2, WireKept
    <3>5. SystemTypeOK'
      BY <3>1, <3>3 DEF SystemIInv, SystemTypeOK, Advance
    <3>6. ClosedInv'
      BY <3>1, <3>2, <3>3 DEF SystemIInv, ClosedInv
    <3>7. StepInv'
      <4>1. \A q \in Clients : Initialized(Sync(q))' = Initialized(Sync(q))
        BY <3>3 DEF Initialized
      <4> QED BY <3>1, <3>2, <3>3, <4>1
             DEF SystemIInv, StepInv, BeforeSync, BeforeAsync, HasSession
    <3>8. UNCHANGED vars
      BY <3>3 DEF vars
    <3> QED BY <3>4, <3>5, <3>6, <3>7, <3>8
  <2> QED BY <2>1, <2>2, <2>3, <2>4 DEF Client
<1>3. IInv'
  BY <1>2, NextIInv DEF SystemIInv
<1> QED BY <1>1, <1>2, <1>3 DEF SystemIInv

\* Every step of the system is one of ServerProcess and keeps the invariant.
LEMMA SystemStep ==
  SystemIInv /\ [SystemNext]_allVars => [Next]_vars /\ SystemIInv'
<1> SUFFICES ASSUME SystemIInv, [SystemNext]_allVars PROVE [Next]_vars /\ SystemIInv'
  OBVIOUS
<1>1. CASE Setup /\ UNCHANGED client
  BY <1>1, SetupKeeps DEF Next
<1>2. ASSUME NEW c \in Conn, Thread(c), UNCHANGED client
      PROVE  [Next]_vars /\ SystemIInv'
  <2>1. Next
    BY <1>2 DEF Next
  <2> QED BY <1>2, <2>1, QuietKeeps, FinishedKeeps, DownKeeps DEF Thread, Other
<1>3. ASSUME NEW p \in Clients, Client(p) PROVE [Next]_vars /\ SystemIInv'
  BY <1>3, ClientKeeps
<1>4. CASE UNCHANGED allVars
  <2>1. UNCHANGED vars /\ UNCHANGED <<step, subaddress, SessionID, seen>>
    BY <1>4 DEF allVars, client
  <2>2. IInv'
    BY <2>1, NextIInv DEF SystemIInv
  <2>3. SystemTypeOK' /\ ServerSurvives' /\ DoneInv' /\ ClosedInv'
    BY <2>1 DEF vars, SystemIInv, SystemTypeOK, ServerSurvives, DoneInv, ClosedInv
  <2>4. StepInv'
    BY <2>1 DEF vars, SystemIInv, StepInv, HasSession, Initialized
  <2>5. WireInv'
    <3>1. UNCHANGED <<server, subaddress, input>>
      BY <2>1 DEF vars, server
    <3>2. \A d \in Conn : Written(d)' = Written(d) /\ Written(d) \in 0 .. 2
      BY <2>1 DEF Written
    <3>3. seen' \in [Conn -> Nat]
      BY <2>1 DEF SystemIInv, WireInv
    <3> QED BY <3>1, <3>2, <3>3, WireKept
  <2> QED BY <2>1, <2>2, <2>3, <2>4, <2>5 DEF SystemIInv
<1> QED BY <1>1, <1>2, <1>3, <1>4 DEF SystemNext

\* The invariant holds, however clients and threads interleave.
THEOREM SystemIInvHolds == SystemSpec => []SystemIInv
<1>1. SystemInit => SystemIInv
  BY InitSystemIInv
<1>2. SystemIInv /\ [SystemNext]_allVars => SystemIInv'
  BY SystemStep
<1> QED BY <1>1, <1>2, PTL DEF SystemSpec

\* Every variable of the clients keeps its type.
THEOREM SystemTypeCorrect == SystemSpec => []SystemTypeOK
<1>1. SystemIInv => SystemTypeOK
  BY DEF SystemIInv
<1> QED BY <1>1, SystemIInvHolds, PTL

\* What these clients do is what ServerProcess lets clients do, so that all that
\* is proved of ServerProcess holds with them.
THEOREM ServerImplemented == SystemSpec => ServerSpec
<1>1. SystemInit => Init
  BY DEF SystemInit
<1>2. SystemIInv /\ [SystemNext]_allVars => [Next]_vars
  BY SystemStep
<1> QED BY <1>1, <1>2, SystemIInvHolds, PTL DEF SystemSpec, ServerSpec, Spec

\* No two connected clients share a session, and the server holds each of them.
THEOREM PairedSessions == SystemSpec => []SessionsPaired
<1>1. SystemIInv => SessionsPaired
  <2> SUFFICES ASSUME SystemIInv, NEW p \in Clients, NEW q \in Clients, HasSession(p)
               PROVE  /\ SessionID[p] \in allocated
                      /\ HasSession(q) /\ p # q => SessionID[p] # SessionID[q]
    BY DEF SessionsPaired
  <2>1. Sync(p) \in Conn /\ Sync(q) \in Conn /\ (Sync(p) = Sync(q) => p = q)
    BY Connections
  <2>2. PICK i \in Initialized(Sync(p)) : output[Sync(p)][i].arg = SessionID[p]
    BY DEF SystemIInv, StepInv
  <2>3. SessionID[p] \in allocated
    BY <2>1, <2>2 DEF SystemIInv, IInv, ToldInv
  <2>4. ASSUME HasSession(q), p # q PROVE SessionID[p] # SessionID[q]
    <3>1. PICK j \in Initialized(Sync(q)) : output[Sync(q)][j].arg = SessionID[q]
      BY <2>4 DEF SystemIInv, StepInv
    <3> QED BY <2>1, <2>2, <2>4, <3>1 DEF SystemIInv, IInv, SessionIdsUnique
  <2> QED BY <2>3, <2>4
<1> QED BY <1>1, SystemIInvHolds, PTL

\* Clients that open named subaddresses never take the server down.
THEOREM ServerNeverDown == SystemSpec => []ServerSurvives
<1>1. SystemIInv => ServerSurvives
  BY DEF SystemIInv
<1> QED BY <1>1, SystemIInvHolds, PTL

\* As long as the server is up, hs_connect fails only when it has no session left.
THEOREM FullWhenFailed == SystemSpec => []FailsOnlyWhenFull
<1>1. SystemIInv => FailsOnlyWhenFull
  BY DEF SystemIInv, StepInv, FailsOnlyWhenFull
<1> QED BY <1>1, SystemIInvHolds, PTL

-----------------------------------------------------------------------------
(* The refinement of HislipService *)

\* What SystemIInv does not say of failures and owners.  The thread of an async
\* connection leaves only when its client has; a client whose second exchange
\* failed has seen the server go down; one that was refused was refused on its
\* first connection; and only those first connections own sessions.
ServiceInv ==
  /\ \A p \in Clients :
       /\ pc[Async(p)] = "done" => Async(p) \in closed
       /\ step[p] = "close_sync" => phase = "crashed"
       /\ step[p] = "failed" /\ phase # "crashed" => pc[Sync(p)] = "done"
  /\ allocated \subseteq UNION {ownedBar[Sync(p)] : p \in Clients}

SessionIsOwned == sessionBar = [p \in Clients |-> ownedBar[Sync(p)]]

\* What the service calls a client's session is what its first connection owns.
LEMMA SessionBar == SystemIInv => SessionIsOwned
<1> SUFFICES ASSUME SystemIInv, NEW p \in Clients, HasSession(p)
             PROVE  SessionID[p] \in ownedBar[Sync(p)]
  BY DEF sessionBar, SessionIsOwned
<1>1. PICK i \in Initialized(Sync(p)) : output[Sync(p)][i].arg = SessionID[p]
  BY DEF SystemIInv, StepInv
<1>2. QED
  BY <1>1, OwnedBar, Connections

\* Sessions in use are those claimed.
LEMMA UsedIsAllocated == SystemIInv /\ ServiceInv => Service!Used = allocated
<1> SUFFICES ASSUME SystemIInv, ServiceInv PROVE Service!Used = allocated
  OBVIOUS
<1>1. \A p \in Clients : sessionBar[p] = ownedBar[Sync(p)]
  BY SessionBar DEF SessionIsOwned
<1>2. ASSUME NEW p \in Clients PROVE ownedBar[Sync(p)] \subseteq allocated
  BY OwnedBar, Connections DEF SystemIInv, IInv, ToldInv, PendingInv
<1>3. QED
  BY <1>1, <1>2 DEF Service!Used, ServiceInv

\* A step of a client moves its call and no session.
LEMMA CallMoves ==
  ASSUME SystemIInv, SystemIInv', NEW p \in Clients, Client(p),
         NEW from, NEW to, Advance(p, from, to)
  PROVE  /\ callBar[p] = CallOf(from) /\ callBar' = [callBar EXCEPT ![p] = CallOf(to)]
         /\ UNCHANGED <<phase, defaultBar, sessionBar, allocated, pc, ownedBar>>
<1>1. UNCHANGED <<phase, allocated, pc, output, sessionID, subaddress>>
  BY ClientFrame DEF server
<1>2. UNCHANGED <<defaultBar, ownedBar>>
  BY <1>1 DEF defaultBar, ownedBar, Initialized
<1>3. sessionBar' = sessionBar
  <2>1. SessionIsOwned /\ SessionIsOwned'
    BY SessionBar, PTL
  <2>2. QED
    BY <1>2, <2>1 DEF SessionIsOwned
<1>4. /\ step[p] = from /\ step'[p] = to
      /\ \A q \in Clients \ {p} : step'[q] = step[q]
  BY Moved
<1>5. callBar[p] = CallOf(from) /\ callBar' = [callBar EXCEPT ![p] = CallOf(to)]
  BY <1>4 DEF callBar
<1>6. QED
  BY <1>1, <1>2, <1>3, <1>5

\* A client whose connection owns nothing yet, but whose Initialize is in the hands
\* of the thread, is the one that waits for its first response.
LEMMA InitializeInHand ==
  ASSUME SystemIInv, ServiceInv, NEW c \in Conn,
         InHand(c), msg[c].type = "Initialize", phase = "running"
  PROVE  /\ c = Sync(c[1]) /\ c[1] \in Clients
         /\ step[c[1]] = "initialize" /\ msg[c].load = subaddress[c[1]]
         /\ Initialized(c) = {}
<1>1. Protocol(c, msg[c])
  <2>1. msg[c] \in Waiting(c)
    BY DEF Waiting
  <2>2. QED
    BY <2>1 DEF SystemIInv, WireInv
<1>2. IsSync(c) /\ Len(output[c]) = 0 /\ msg[c].load = subaddress[c[1]]
  <2>1. output \in [Conn -> Seq(Responses)]
    BY Lengths
  <2>2. QED
    BY <1>1, <2>1 DEF Protocol, Dropped
<1>3. c = Sync(c[1]) /\ c[1] \in Clients
  <2>1. Conn = Clients \X {"sync", "async"}
    BY SystemAssumption
  <2>2. QED
    BY <1>2, <2>1 DEF Sync, IsSync
<1>4. Initialized(c) = {}
  BY <1>2 DEF Initialized
<1>5. step[c[1]] = "initialize"
  <2>1. /\ seen \in [Conn -> Nat] /\ seen[c] <= Len(output[c])
        /\ handled \in [Conn -> Seq(Messages)] /\ input \in [Conn -> Seq(Messages)]
        /\ Received(c) = Len(handled[c]) + Len(input[c]) + 1
    BY Lengths
  <2>2. seen[c] = 0
    BY <1>2, <2>1
  <2>3. step[c[1]] \in BeforeSync
    BY <1>3, <2>2 DEF SystemIInv, StepInv
  <2>4. Written(c) # 0
    <3>1. Received(c) <= Written(c)
      BY DEF SystemIInv, WireInv
    <3>2. QED
      BY <2>1, <3>1
  <2>5. step[c[1]] # "start"
    BY <1>2, <2>4 DEF Written
  <2>6. step[c[1]] # "failed"
    BY <1>3 DEF ServiceInv, InHand
  <2>7. QED
    BY <2>3, <2>5, <2>6 DEF BeforeSync
<1>6. QED
  BY <1>2, <1>3, <1>4, <1>5

\* The course of a client: the steps it takes, and what makes it fail.
Course(p, from, to) ==
  \/ from = "start" /\ to = "initialize" /\ phase = "running"
  \/ from = "initialize" /\ to = "failed" /\ (pc[Sync(p)] = "done" \/ phase = "crashed")
  \/ from = "initialize" /\ to = "connect_async"
  \/ from = "connect_async" /\ to = "async_initialize"
  \/ from \in {"connect_async", "async_initialize"} /\ to = "close_sync" /\ phase = "crashed"
  \/ from = "close_sync" /\ to = "failed" /\ phase = "crashed"
  \/ from = "async_initialize" /\ to = "open"
  \/ /\ from \in {"open", "sizing", "sized", "sent"}
     /\ to \in {"sizing", "sized", "sent", "answered", "unanswered"}
  \/ from \in {"open", "sized", "answered", "unanswered"} /\ to = "disconnect"
  \/ from = "disconnect" /\ to = "closed"

\* No client takes another course.
LEMMA Courses ==
  ASSUME SystemIInv, ServiceInv, NEW p \in Clients, Client(p)
  PROVE  \E from, to : Advance(p, from, to) /\ Course(p, from, to)
<1>1. CASE SendInitialize(p) \/ SendAsyncInitialize(p) \/ SetMaximumMessageSize(p) \/ SyncSend(p)
  <2>1. PICK from, to, c, m : Writes(p, from, to, c, m) /\ Advance(p, from, to)
    BY <1>1, WritingActions
  <2>2. QED
    BY <2>1 DEF Writes, Course
<1>2. ASSUME NEW x \in Exchange, TakeResponse(p, x)
      PROVE  \E from, to : Advance(p, from, to) /\ Course(p, from, to)
  <2>1. Advance(p, x.at, x.to)
    BY <1>2 DEF TakeResponse
  <2>2. Course(p, x.at, x.to)
    BY DEF Exchange, Course
  <2>3. QED
    BY <2>1, <2>2
<1>3. CASE ResponseEnds(p) \/ CloseSync(p) \/ DisconnectSync(p) \/ DisconnectAsync(p)
  <2>1. PICK from, to, c : Closes(p, from, to, c) /\ Advance(p, from, to)
    BY <1>3, ClosingActions
  <2>2. step[p] = from
    BY <2>1 DEF Advance
  <2>3. from = "async_initialize" /\ Ended(Async(p)) => phase = "crashed"
    <3>1. step[p] = "async_initialize" /\ phase # "crashed" => Async(p) \notin closed
      BY DEF SystemIInv, ClosedInv, BeforeSend, BeforeAsync
    <3>2. QED
      BY <2>2, <3>1 DEF Ended, ServiceInv
  <2>4. from = "close_sync" => phase = "crashed"
    BY <2>2 DEF ServiceInv
  <2>5. Course(p, from, to)
    BY <2>1, <2>3, <2>4 DEF Closes, Ended, Course
  <2>6. QED
    BY <2>1, <2>5
<1>4. CASE ConnectAsyncFails(p)
  BY <1>4 DEF ConnectAsyncFails, Course
<1>5. QED
  BY <1>1, <1>2, <1>3, <1>4 DEF Client

\* A client's step keeps what the service needs.
LEMMA ClientKeepsService ==
  ASSUME SystemIInv, SystemIInv', ServiceInv, NEW p \in Clients, Client(p)
  PROVE  ServiceInv'
<1>1. PICK from, to : Advance(p, from, to) /\ Course(p, from, to)
  BY Courses
<1>2. UNCHANGED <<phase, allocated, pc, ownedBar>> /\ closed \subseteq closed'
  BY <1>1, CallMoves, ClientFrame
<1>3. /\ step[p] = from /\ step'[p] = to
      /\ \A q \in Clients \ {p} : step'[q] = step[q]
  BY <1>1, Moved
<1>4. ASSUME NEW q \in Clients
      PROVE  /\ pc'[Async(q)] = "done" => Async(q) \in closed'
             /\ step'[q] = "close_sync" => phase' = "crashed"
             /\ step'[q] = "failed" /\ phase' # "crashed" => pc'[Sync(q)] = "done"
  BY <1>1, <1>2, <1>3 DEF ServiceInv, Course
<1>5. QED
  BY <1>2, <1>4 DEF ServiceInv

\* What a thread does to its program counter, and why it leaves.
LEMMA ThreadMoves ==
  ASSUME SystemIInv, NEW c \in Conn, Thread(c)
  PROVE  /\ phase = "running" /\ closed' = closed
         /\ \A d \in Conn : pc[d] = "done" => pc'[d] = "done"
         /\ \A d \in Conn : pc'[d] = "done" /\ pc[d] # "done" =>
              \/ d \in closed
              \/ d = c /\ InHand(c) /\ msg[c].type = "Initialize"
<1>1. pc \in [Conn -> {"read", "act", "link", "respond", "done"}]
  BY DEF SystemIInv, IInv, TypeOK
<1>2. CASE Receive(c) \/ ReceiveEnd(c) \/ NewSession(c) \/ Link(c)
  BY <1>1, <1>2 DEF Receive, ReceiveEnd, NewSession, Link, Goto, wire
<1>3. CASE RefuseVersion(c) \/ RefuseSession(c)
  BY <1>1, <1>3 DEF RefuseVersion, RefuseSession, Finish, Goto, wire, InHand
<1>4. CASE RespondInitialize(c) \/ AsyncInitialize(c) \/ CallBack(c) \/ Ignore(c)
  BY <1>1, <1>4 DEF RespondInitialize, AsyncInitialize, CallBack, Ignore, Finish, Goto, wire
<1>5. CASE LinkCrashes(c) \/ CallBackCrashes(c) \/ BrokenPipe(c)
  BY <1>5 DEF LinkCrashes, CallBackCrashes, BrokenPipe, wire
<1>6. QED
  BY <1>2, <1>3, <1>4, <1>5 DEF Thread

\* A session claimed is claimed for a client's first connection.
LEMMA ClaimIsGrant ==
  ASSUME SystemIInv, ServiceInv, NEW c \in Conn, NewSession(c)
  PROVE  /\ c = Sync(c[1]) /\ c[1] \in Clients
         /\ step[c[1]] = "initialize" /\ ownedBar[c] = {}
         /\ Table!Claim(c)
<1>1. phase = "running" /\ pc[c] = "act" /\ msg[c].type = "Initialize"
  BY DEF NewSession, Goto
<1>2. /\ c = Sync(c[1]) /\ c[1] \in Clients
      /\ step[c[1]] = "initialize" /\ Initialized(c) = {}
  BY <1>1, InitializeInHand DEF InHand
<1>3. ownedBar[c] = {}
  BY <1>1, <1>2, OwnedBar DEF Pending
<1>4. QED
  BY <1>2, <1>3, NewSessionClaims DEF SystemIInv

\* Every other step of the server leaves the sessions with their owners.
LEMMA OtherwiseOwned ==
  ASSUME SystemIInv, Setup \/ \E c \in Conn : Thread(c) /\ ~NewSession(c)
  PROVE  UNCHANGED <<allocated, ownedBar>>
<1>1. ASSUME NEW c \in Conn, RespondInitialize(c) PROVE UNCHANGED <<allocated, ownedBar>>
  BY <1>1, RespondOwns DEF SystemIInv, Table!vars
<1>2. CASE \/ Setup
           \/ \E c \in Conn :
                \/ Receive(c) \/ ReceiveEnd(c) \/ Link(c) \/ Other(c)
                \/ LinkCrashes(c) \/ CallBackCrashes(c) \/ BrokenPipe(c)
  BY <1>2, OtherwiseUntold, OwnersStay DEF SystemIInv, Table!vars
<1>3. QED
  BY <1>1, <1>2 DEF Thread, Other

\* A thread's step keeps what the service needs.
LEMMA ThreadKeepsService ==
  ASSUME SystemIInv, ServiceInv, NEW c \in Conn, Thread(c), UNCHANGED client
  PROVE  ServiceInv'
<1>1. /\ phase = "running" /\ closed' = closed
      /\ \A d \in Conn : pc[d] = "done" => pc'[d] = "done"
      /\ \A d \in Conn : pc'[d] = "done" /\ pc[d] # "done" =>
           \/ d \in closed
           \/ d = c /\ InHand(c) /\ msg[c].type = "Initialize"
  BY ThreadMoves
<1>2. ASSUME NEW p \in Clients
      PROVE  /\ pc'[Async(p)] = "done" => Async(p) \in closed'
             /\ step'[p] = "close_sync" => phase' = "crashed"
             /\ step'[p] = "failed" /\ phase' # "crashed" => pc'[Sync(p)] = "done"
  <2>1. Async(p) \in Conn /\ Sync(p) \in Conn
    BY Connections
  <2>2. ~(Async(p) = c /\ InHand(c) /\ msg[c].type = "Initialize")
    BY <1>1, InitializeInHand, Connections
  <2>3. QED
    BY <1>1, <2>1, <2>2 DEF ServiceInv, client
<1>3. allocated' \subseteq UNION {ownedBar'[Sync(p)] : p \in Clients}
  <2>1. CASE NewSession(c)
    <3>1. c = Sync(c[1]) /\ c[1] \in Clients /\ Table!Claim(c)
      BY <2>1, ClaimIsGrant
    <3>2. PICK h : /\ allocated' = allocated \cup {h}
                   /\ ownedBar' = [ownedBar EXCEPT ![c] = @ \cup {h}]
      BY <3>1 DEF Table!Claim
    <3>3. \A d \in Conn : ownedBar[d] \subseteq ownedBar'[d]
      BY <3>2 DEF ownedBar
    <3>4. h \in ownedBar'[c]
      BY <3>2 DEF ownedBar
    <3>5. \A p \in Clients : ownedBar[Sync(p)] \subseteq ownedBar'[Sync(p)]
      BY <3>3, Connections
    <3>6. QED
      BY <3>1, <3>2, <3>4, <3>5 DEF ServiceInv
  <2>2. CASE ~NewSession(c)
    BY <2>2, OtherwiseOwned DEF ServiceInv
  <2>3. QED
    BY <2>1, <2>2
<1>4. QED
  BY <1>2, <1>3 DEF ServiceInv

\* No step of the system breaks it.
LEMMA ServiceStep ==
  ServiceInv /\ SystemIInv /\ [SystemNext]_allVars => ServiceInv'
<1> SUFFICES ASSUME ServiceInv, SystemIInv, [SystemNext]_allVars PROVE ServiceInv'
  OBVIOUS
<1>1. SystemIInv'
  BY SystemStep
<1>2. CASE Setup /\ UNCHANGED client
  <2>1. phase = "setup" /\ UNCHANGED <<closed, pc>>
    BY <1>2 DEF Setup, Register, RegisterFails, Run, wire
  <2>2. UNCHANGED <<allocated, ownedBar>>
    BY <1>2, OtherwiseOwned
  <2>3. \A p \in Clients : step[p] = "start"
    BY <2>1 DEF SystemIInv, StepInv
  <2>4. QED
    BY <1>2, <2>1, <2>2, <2>3 DEF ServiceInv, client
<1>3. ASSUME NEW c \in Conn, Thread(c), UNCHANGED client PROVE ServiceInv'
  BY <1>3, ThreadKeepsService
<1>4. ASSUME NEW p \in Clients, Client(p) PROVE ServiceInv'
  BY <1>1, <1>4, ClientKeepsService
<1>5. CASE UNCHANGED allVars
  <2>1. UNCHANGED <<phase, closed, pc, allocated, step, ownedBar>>
    BY <1>5 DEF allVars, vars, client, ownedBar, Initialized
  <2>2. QED
    BY <2>1 DEF ServiceInv
<1>6. QED
  BY <1>2, <1>3, <1>4, <1>5 DEF SystemNext

\* The system starts where the service does.
LEMMA ServiceInit == SystemInit => ServiceInv /\ Service!Init
<1> SUFFICES ASSUME SystemInit PROVE ServiceInv /\ Service!Init
  OBVIOUS
<1>1. /\ phase = "setup" /\ allocated = {} /\ \A c \in Conn : pc[c] = "read"
      /\ \A p \in Clients : step[p] = "start"
  BY DEF SystemInit, Init
<1>2. ServiceInv
  BY <1>1, Connections DEF ServiceInv
<1>3. \A c \in Conn : ownedBar[c] = {}
  BY OwnersInit DEF SystemInit, Table!Init
<1>4. \A p \in Clients : ~HasSession(p) /\ callBar[p] = "none"
  BY <1>1 DEF HasSession, callBar, CallOf
<1>5. sessionBar = [p \in Clients |-> {}]
  BY <1>3, <1>4, Connections DEF sessionBar
<1>6. callBar = [p \in Clients |-> "none"]
  BY <1>4 DEF callBar
<1>7. QED
  BY <1>1, <1>2, <1>5, <1>6 DEF Service!Init, defaultBar

\* A client's step is one of the service's, or none of its concern.
LEMMA ClientServes ==
  ASSUME SystemIInv, SystemIInv', ServiceInv, NEW p \in Clients, Client(p)
  PROVE  [Service!Next]_(Service!vars)
<1>1. PICK from, to : Advance(p, from, to) /\ Course(p, from, to)
  BY Courses
<1>2. /\ callBar[p] = CallOf(from) /\ callBar' = [callBar EXCEPT ![p] = CallOf(to)]
      /\ UNCHANGED <<phase, defaultBar, sessionBar>>
  BY <1>1, CallMoves
<1>3. step[p] = from /\ sessionBar[p] = ownedBar[Sync(p)]
  BY <1>1, SessionBar DEF Advance, SessionIsOwned
<1>4. CASE CallOf(to) = CallOf(from)
  <2>1. callBar' = callBar
    BY <1>2, <1>4 DEF callBar
  <2>2. QED
    BY <1>2, <2>1 DEF Service!vars
<1>5. CASE from = "start"
  <2>1. Service!Connect(p)
    BY <1>1, <1>2, <1>5 DEF Course, CallOf, Service!Connect, Service!Becomes
  <2>2. QED
    BY <2>1 DEF Service!Next
<1>6. CASE from = "async_initialize" /\ to = "open"
  <2>1. SessionID[p] \in sessionBar[p]
    BY <1>3, <1>6 DEF sessionBar, HasSession
  <2>2. Service!Open(p)
    BY <1>2, <1>6, <2>1 DEF CallOf, Service!Open, Service!Becomes
  <2>3. QED
    BY <2>2 DEF Service!Next
<1>7. CASE from = "initialize" /\ to = "failed" /\ phase # "crashed"
  <2>1. pc[Sync(p)] = "done" /\ Sync(p) \in Conn /\ IsSync(Sync(p)) /\ Sync(p)[1] = p
    BY <1>1, <1>7, Connections DEF Course
  <2>2. Len(output[Sync(p)]) < Len(handled[Sync(p)]) /\ allocated = Handle
    <3>1. Sync(p) \notin closed
      BY <1>3, <1>7 DEF SystemIInv, ClosedInv, BeforeSend, BeforeAsync, BeforeSync
    <3>2. QED
      BY <2>1, <3>1 DEF SystemIInv, DoneInv
  <2>3. Len(output[Sync(p)]) = 0
    <3>1. /\ handled \in [Conn -> Seq(Messages)] /\ input \in [Conn -> Seq(Messages)]
          /\ output \in [Conn -> Seq(Responses)]
          /\ Received(Sync(p)) = Len(handled[Sync(p)]) + Len(input[Sync(p)])
      BY <2>1, Lengths DEF InHand
    <3>2. Written(Sync(p)) = 1
      BY <1>3, <1>7, <2>1 DEF Written, BeforeSend, BeforeAsync, BeforeSync
    <3>3. Received(Sync(p)) <= Written(Sync(p))
      BY <2>1 DEF SystemIInv, WireInv
    <3>4. QED
      BY <2>1, <2>2, <3>1, <3>2, <3>3
  <2>4. sessionBar[p] = {}
    <3>1. Initialized(Sync(p)) = {} /\ ~Pending(Sync(p))
      BY <2>1, <2>3 DEF Initialized, Pending
    <3>2. QED
      BY <1>3, <2>1, <3>1, OwnedBar
  <2>5. Service!Used = Service!Handle
    BY <2>2, UsedIsAllocated DEF Service!Handle, Handle
  <2>6. Service!Fail(p)
    BY <1>2, <1>7, <2>4, <2>5 DEF CallOf, Service!Fail, Service!Becomes
  <2>7. QED
    BY <2>6 DEF Service!Next
<1>8. CASE from \in {"initialize", "close_sync"} /\ to = "failed" /\ phase = "crashed"
  <2>1. Service!Fail(p)
    BY <1>2, <1>8 DEF CallOf, Service!Fail, Service!Becomes
  <2>2. QED
    BY <2>1 DEF Service!Next
<1>9. CASE from \in {"open", "sized", "answered", "unanswered"} /\ to = "disconnect"
  <2>1. Service!Disconnect(p)
    BY <1>2, <1>9 DEF CallOf, Service!Disconnect, Service!Becomes
  <2>2. QED
    BY <2>1 DEF Service!Next
<1>10. \/ CallOf(to) = CallOf(from) \/ from = "start"
       \/ from = "async_initialize" /\ to = "open"
       \/ from \in {"initialize", "close_sync"} /\ to = "failed"
       \/ from \in {"open", "sized", "answered", "unanswered"} /\ to = "disconnect"
  BY <1>1 DEF Course, CallOf
<1>11. from = "close_sync" /\ to = "failed" => phase = "crashed"
  BY <1>1 DEF Course
<1>12. QED
  BY <1>4, <1>5, <1>6, <1>7, <1>8, <1>9, <1>10, <1>11

\* A step of the server moves no call.
LEMMA CallsStay ==
  UNCHANGED client => UNCHANGED <<defaultBar, callBar>>
BY DEF client, defaultBar, callBar

\* hs_server_run is the service's, registering is not its concern.
LEMMA SetupServes ==
  ASSUME SystemIInv, Setup, UNCHANGED client
  PROVE  [Service!Next]_(Service!vars)
<1>1. UNCHANGED <<defaultBar, callBar>>
  BY CallsStay
<1>2. sessionBar' = sessionBar
  BY OtherwiseOwned DEF sessionBar, HasSession, client
<1>3. CASE Run
  <2>1. Service!Run
    BY <1>1, <1>2, <1>3 DEF Run, Service!Run
  <2>2. QED
    BY <2>1 DEF Service!Next
<1>4. CASE phase' = phase
  BY <1>1, <1>2, <1>4 DEF Service!vars
<1>5. QED
  BY <1>3, <1>4 DEF Setup, Register, RegisterFails

\* A thread gives its client a session, takes the server down, or does nothing the
\* service speaks of.
LEMMA ThreadServes ==
  ASSUME SystemIInv, SystemIInv', ServiceInv, NEW c \in Conn, Thread(c), UNCHANGED client
  PROVE  [Service!Next]_(Service!vars)
<1> DEFINE p == c[1]
<1>1. UNCHANGED <<defaultBar, callBar>>
  BY CallsStay
<1>2. CASE NewSession(c)
  <2>1. /\ c = Sync(p) /\ p \in Clients /\ step[p] = "initialize" /\ ownedBar[c] = {}
        /\ Table!Claim(c)
    BY <1>2, ClaimIsGrant
  <2>2. PICK h \in Table!Handle \ allocated :
          /\ 0 .. h - 1 \subseteq allocated
          /\ ownedBar' = [ownedBar EXCEPT ![c] = @ \cup {h}]
    BY <2>1 DEF Table!Claim
  <2>3. SessionIsOwned /\ SessionIsOwned'
    BY SessionBar, PTL
  <2>4. sessionBar[p] = {} /\ sessionBar' = [sessionBar EXCEPT ![p] = {h}]
    <3>1. /\ ownedBar'[c] = {h}
          /\ \A d \in Conn \ {c} : ownedBar'[d] = ownedBar[d]
      BY <2>1, <2>2 DEF ownedBar
    <3>2. \A q \in Clients \ {p} : ownedBar'[Sync(q)] = ownedBar[Sync(q)]
      BY <2>1, <3>1, Connections
    <3>3. QED
      BY <2>1, <2>3, <3>1, <3>2 DEF SessionIsOwned
  <2>5. Service!Used = allocated
    BY UsedIsAllocated
  <2>6. callBar[p] = "connecting"
    BY <2>1 DEF callBar, CallOf
  <2>7. phase = "running" /\ phase' = phase
    BY <1>2 DEF NewSession, Goto, shared
  <2>8. Service!Grant(p)
    BY <1>1, <2>2, <2>4, <2>5, <2>6, <2>7 DEF Service!Grant, Service!Handle, Table!Handle
  <2>9. QED
    BY <2>1, <2>8 DEF Service!Next
<1>3. CASE ~NewSession(c)
  <2>1. UNCHANGED <<allocated, ownedBar>>
    BY <1>3, OtherwiseOwned
  <2>2. sessionBar' = sessionBar
    BY <2>1 DEF sessionBar, HasSession, client
  <2>3. CASE LinkCrashes(c)
    <3>1. /\ phase = "running" /\ phase' = "crashed" /\ pc[c] = "link" /\ payload[c] = NoLoad
      BY <2>3 DEF LinkCrashes, Crash
    <3>2. InHand(c) /\ Pending(c) /\ msg[c].type = "Initialize" /\ msg[c].load = NoLoad
      BY <3>1 DEF InHand, Pending, SystemIInv, IInv, MessageInv, PayloadInv
    <3>3. /\ c = Sync(p) /\ p \in Clients /\ step[p] = "initialize"
          /\ subaddress[p] = NoLoad
      BY <3>1, <3>2, InitializeInHand
    <3>4. sessionBar[p] # {}
      <4>1. sessionID[c] \in ownedBar[c]
        BY <3>2, OwnedBar
      <4>2. QED
        BY <3>3, <4>1 DEF sessionBar
    <3>5. callBar[p] = "connecting" /\ p \in defaultBar
      BY <3>3 DEF callBar, CallOf, defaultBar
    <3>6. Service!GoDown(p)
      BY <1>1, <2>2, <3>1, <3>4, <3>5 DEF Service!GoDown
    <3>7. QED
      BY <3>3, <3>6 DEF Service!Next
  <2>4. CASE ~LinkCrashes(c)
    <3>1. phase' = phase
      BY <1>3, <2>4, OnlyLinkCrashes
         DEF Thread, Receive, ReceiveEnd, RefuseVersion, RefuseSession, Link,
             RespondInitialize, AsyncInitialize, CallBack, Ignore, Finish, shared
    <3>2. QED
      BY <1>1, <2>2, <3>1 DEF Service!vars
  <2>5. QED
    BY <2>3, <2>4
<1>4. QED
  BY <1>2, <1>3

\* Every step of clients and server together is a step of the service or none.
LEMMA StepServes ==
  SystemIInv /\ ServiceInv /\ [SystemNext]_allVars => [Service!Next]_(Service!vars)
<1> SUFFICES ASSUME SystemIInv, ServiceInv, [SystemNext]_allVars
             PROVE  [Service!Next]_(Service!vars)
  OBVIOUS
<1>1. SystemIInv'
  BY SystemStep
<1>2. CASE Setup /\ UNCHANGED client
  BY <1>2, SetupServes
<1>3. ASSUME NEW c \in Conn, Thread(c), UNCHANGED client
      PROVE  [Service!Next]_(Service!vars)
  BY <1>1, <1>3, ThreadServes
<1>4. ASSUME NEW p \in Clients, Client(p) PROVE [Service!Next]_(Service!vars)
  BY <1>1, <1>4, ClientServes
<1>5. CASE UNCHANGED allVars
  <2>1. UNCHANGED <<phase, client, ownedBar>>
    BY <1>5 DEF allVars, vars, ownedBar, Initialized
  <2>2. UNCHANGED <<defaultBar, callBar, sessionBar>>
    BY <2>1, CallsStay DEF sessionBar, HasSession, client
  <2>3. QED
    BY <2>1, <2>2 DEF Service!vars
<1>6. QED
  BY <1>2, <1>3, <1>4, <1>5 DEF SystemNext

\* The service that clients and threads provide together, over two connections a
\* client, is HislipService: sessions are given one to a client, the lowest free
\* one, and to no other client after it; hs_connect fails when there is none left,
\* or when a client of the default subaddress has taken the server down.
THEOREM ServiceRefined == SystemSpec => RefinesService
<1>1. SystemInit => ServiceInv /\ Service!Init
  BY ServiceInit
<1>2. ServiceInv /\ SystemIInv /\ [SystemNext]_allVars => ServiceInv'
  BY ServiceStep
<1>3. SystemIInv /\ ServiceInv /\ [SystemNext]_allVars => [Service!Next]_(Service!vars)
  BY StepServes
<1>4. QED
  BY <1>1, <1>2, <1>3, SystemIInvHolds, PTL DEF SystemSpec, RefinesService, Service!Spec

-----------------------------------------------------------------------------
(* Nobody is stranded in hs_connect *)

\* Where the exchange is that a client waits for: its request is under way, or in
\* the hands of the thread, or answered, or the thread has left.
Expected(c, asked, answer) ==
  /\ seen[c] = 0
  /\ \/ /\ pc[c] = "read" /\ Len(input[c]) = 1 /\ input[c][1].type = asked
        /\ Len(output[c]) = 0
     \/ InHand(c) /\ msg[c].type = asked /\ Len(output[c]) = 0
     \/ Len(output[c]) > 0 /\ output[c][1].type = answer
     \/ pc[c] = "done"

Exchanges == {<<"Initialize", "InitializeResponse">>,
              <<"AsyncInitialize", "AsyncInitializeResponse">>}

HandshakeInv ==
  phase = "running" =>
    \A p \in Clients :
      /\ step[p] = "initialize" =>
           Expected(Sync(p), "Initialize", "InitializeResponse")
      /\ step[p] = "async_initialize" =>
           Expected(Async(p), "AsyncInitialize", "AsyncInitializeResponse")

\* A thread's step, as long as the server is up, is on its own connection.
LEMMA ThreadFrame ==
  ASSUME SystemIInv, NEW c \in Conn, Thread(c)
  PROVE  \A d \in Conn \ {c} : /\ pc'[d] = pc[d] /\ msg'[d] = msg[d] /\ input'[d] = input[d]
                               /\ output'[d] = output[d]
<1>1. /\ pc \in [Conn -> {"read", "act", "link", "respond", "done"}]
      /\ msg \in [Conn -> Messages \cup {NoMessage}]
      /\ input \in [Conn -> Seq(Messages)] /\ output \in [Conn -> Seq(Responses)]
  BY DEF SystemIInv, IInv, TypeOK, SequencesInv
<1>2. CASE Receive(c) \/ ReceiveEnd(c) \/ NewSession(c) \/ Link(c)
  BY <1>1, <1>2 DEF Receive, ReceiveEnd, NewSession, Link, Goto, wire
<1>3. CASE Other(c) \/ RespondInitialize(c)
  BY <1>3, Finished
<1>4. CASE LinkCrashes(c) \/ CallBackCrashes(c) \/ BrokenPipe(c)
  BY <1>4 DEF LinkCrashes, CallBackCrashes, BrokenPipe, wire
<1>5. QED
  BY <1>2, <1>3, <1>4 DEF Thread, Other

\* The thread brings an exchange on, or leaves.
LEMMA ThreadExpects ==
  ASSUME SystemIInv, NEW c \in Conn, Thread(c), UNCHANGED client, phase' = "running",
         NEW d \in Conn, NEW asked, NEW answer, <<asked, answer>> \in Exchanges,
         Expected(d, asked, answer)
  PROVE  Expected(d, asked, answer)'
<1>1. /\ pc \in [Conn -> {"read", "act", "link", "respond", "done"}]
      /\ msg \in [Conn -> Messages \cup {NoMessage}]
      /\ input \in [Conn -> Seq(Messages)] /\ output \in [Conn -> Seq(Responses)]
  BY DEF SystemIInv, IInv, TypeOK, SequencesInv
<1>2. seen'[d] = 0
  BY DEF client, Expected
<1>3. CASE d # c
  <2>1. /\ pc'[d] = pc[d] /\ msg'[d] = msg[d] /\ input'[d] = input[d]
        /\ output'[d] = output[d]
    BY <1>3, ThreadFrame
  <2>2. QED
    BY <1>2, <2>1 DEF Expected, InHand
<1>4. CASE d = c
  <2>1. pc[c] # "done"
    BY <1>1 DEF Thread, Receive, ReceiveEnd, RefuseVersion, NewSession, RefuseSession,
        Link, LinkCrashes, RespondInitialize, AsyncInitialize, CallBack, CallBackCrashes,
        BrokenPipe, Ignore, Finish, Goto
  <2>2. CASE Receive(c)
    <3>1. /\ output' = output /\ pc[c] = "read" /\ pc'[c] = "act"
          /\ msg'[c] = Head(input[c])
      BY <1>1, <2>2 DEF Receive, Goto
    <3>2. Len(input[c]) = 1 => msg'[c] = input[c][1]
      BY <1>1, <3>1
    <3>3. QED
      BY <1>2, <1>4, <3>1, <3>2 DEF Expected, InHand
  <2>3. CASE ReceiveEnd(c)
    <3>1. pc'[c] = "done"
      BY <1>1, <2>3 DEF ReceiveEnd, Goto
    <3>2. QED
      BY <1>2, <1>4, <3>1 DEF Expected
  <2>4. CASE NewSession(c) \/ Link(c)
    <3>1. output' = output /\ msg' = msg /\ InHand(c) /\ InHand(c)'
      BY <1>1, <2>4 DEF NewSession, Link, Goto, InHand
    <3>2. QED
      BY <1>2, <1>4, <3>1 DEF Expected, InHand
  <2>5. CASE Other(c) \/ RespondInitialize(c)
    <3>1. /\ InHand(c)
          /\ Len(output'[c]) \in {Len(output[c]), Len(output[c]) + 1}
          /\ \A i \in 1 .. Len(output[c]) : output'[c][i] = output[c][i]
      BY <2>5, Finished
    <3>2. CASE Len(output[c]) > 0 /\ output[c][1].type = answer
      <4>1. Len(output[c]) \in Nat
        BY <1>1
      <4>2. 1 \in 1 .. Len(output[c]) /\ Len(output'[c]) > 0
        BY <3>1, <3>2, <4>1
      <4>3. output'[c][1] = output[c][1]
        BY <3>1, <4>2
      <4>4. QED
        BY <1>2, <1>4, <3>2, <4>2, <4>3 DEF Expected
    <3>3. CASE InHand(c) /\ msg[c].type = asked /\ Len(output[c]) = 0
      <4>1. CASE RefuseVersion(c) \/ RefuseSession(c)
        <5>1. pc'[c] = "done"
          BY <1>1, <4>1 DEF RefuseVersion, RefuseSession, Finish, Goto
        <5>2. QED
          BY <1>2, <1>4, <5>1 DEF Expected
      <4>2. CASE AsyncInitialize(c) \/ RespondInitialize(c)
        <5>1. PICK x : x.type = answer /\ output' = [output EXCEPT ![c] = @ \o <<x>>]
          <6>1. CASE AsyncInitialize(c)
            <7>1. asked = "AsyncInitialize" /\ answer = "AsyncInitializeResponse"
              BY <3>3, <6>1 DEF AsyncInitialize, Exchanges
            <7>2. Response("AsyncInitializeResponse", 0, NoName).type = answer
              BY <7>1 DEF Response
            <7>3. QED
              BY <6>1, <7>2 DEF AsyncInitialize, Finish
          <6>2. CASE RespondInitialize(c)
            <7>1. msg[c].type = "Initialize"
              BY <6>2 DEF RespondInitialize, Finish, Goto, Pending,
                          SystemIInv, IInv, MessageInv
            <7>2. asked = "Initialize" /\ answer = "InitializeResponse"
              BY <3>3, <7>1 DEF Exchanges
            <7>3. Response("InitializeResponse", sessionID[c], NoName).type = answer
              BY <7>2 DEF Response
            <7>4. QED
              BY <6>2, <7>3 DEF RespondInitialize, Finish
          <6>3. QED
            BY <4>2, <6>1, <6>2
        <5>2. output[c] = <<>> /\ output'[c] = output[c] \o <<x>>
          BY <1>1, <3>3, <5>1
        <5>3. output'[c] = <<x>> /\ Len(<<x>>) = 1 /\ <<x>>[1] = x
          BY <5>2
        <5>4. Len(output'[c]) = 1 /\ output'[c][1] = x
          BY <5>3, Zenon
        <5>5. Len(output'[c]) > 0 /\ output'[c][1].type = answer
          BY <5>1, <5>4
        <5>6. QED
          BY <1>2, <1>4, <5>5 DEF Expected
      <4>3. ~CallBack(c) /\ ~Ignore(c)
        BY <3>3 DEF CallBack, Ignore, Exchanges
      <4>4. QED
        BY <2>5, <4>1, <4>2, <4>3 DEF Other
    <3>4. QED
      BY <1>4, <2>1, <3>1, <3>2, <3>3 DEF Expected, InHand
  <2>6. ~(LinkCrashes(c) \/ CallBackCrashes(c) \/ BrokenPipe(c))
    BY DEF LinkCrashes, CallBackCrashes, BrokenPipe, Crash
  <2>7. QED
    BY <2>2, <2>3, <2>4, <2>5, <2>6 DEF Thread, Other
<1>5. QED
  BY <1>3, <1>4

\* A client leaves the connections of the others alone; on its own it writes, reads
\* or closes.
LEMMA ClientApart ==
  ASSUME SystemIInv, NEW p \in Clients, Client(p)
  PROVE  /\ \A d \in Conn : d[1] # p => input'[d] = input[d] /\ seen'[d] = seen[d]
         /\ \/ \E from, to, c, m : /\ Writes(p, from, to, c, m) /\ Advance(p, from, to)
                                   /\ Write(c, m.type, m.arg, m.load)
            \/ step'[p] \notin {"initialize", "async_initialize"}
<1>1. input \in [Conn -> Seq(Messages)] /\ seen \in [Conn -> Nat]
  BY DEF SystemIInv, IInv, TypeOK, WireInv
<1>2. CASE SendInitialize(p) \/ SendAsyncInitialize(p) \/ SetMaximumMessageSize(p) \/ SyncSend(p)
  <2>1. PICK from, to, c, m : /\ Writes(p, from, to, c, m) /\ Advance(p, from, to)
                              /\ Write(c, m.type, m.arg, m.load)
    BY <1>2, WritingActions
  <2>2. c[1] = p
    BY <2>1, Connections DEF Writes
  <2>3. \A d \in Conn : d[1] # p => input'[d] = input[d] /\ seen'[d] = seen[d]
    BY <1>1, <2>1, <2>2 DEF Write
  <2>4. QED
    BY <2>1, <2>3
<1>3. CASE ResponseEnds(p) \/ CloseSync(p) \/ DisconnectSync(p) \/ DisconnectAsync(p)
  <2>1. PICK from, to, c : Closes(p, from, to, c) /\ Advance(p, from, to) /\ CloseChannel(c)
    BY <1>3, ClosingActions
  <2>2. step'[p] = to
    BY <2>1, Moved
  <2>3. QED
    BY <2>1, <2>2 DEF Closes, CloseChannel
<1>4. ASSUME NEW x \in Exchange, TakeResponse(p, x)
      PROVE  /\ \A d \in Conn : d[1] # p => input'[d] = input[d] /\ seen'[d] = seen[d]
             /\ step'[p] \notin {"initialize", "async_initialize"}
  <2>1. seen' = [seen EXCEPT ![<<p, x.chan>>] = @ + 1] /\ input' = input
    BY <1>4 DEF TakeResponse, Take, wire
  <2>2. Advance(p, x.at, x.to) /\ x.to \notin {"initialize", "async_initialize"}
    BY <1>4 DEF TakeResponse, Exchange
  <2>3. step'[p] = x.to
    BY <2>2, Moved
  <2>4. \A d \in Conn : d[1] # p => d # <<p, x.chan>>
    OBVIOUS
  <2>5. QED
    BY <1>1, <2>1, <2>2, <2>3, <2>4
<1>5. CASE ConnectAsyncFails(p)
  <2>1. step'[p] = "close_sync"
    BY <1>5, Moved DEF ConnectAsyncFails
  <2>2. QED
    BY <1>5, <2>1 DEF ConnectAsyncFails, wire
<1>6. QED
  BY <1>2, <1>3, <1>4, <1>5 DEF Client

\* A request written on a connection that nothing has been written to is expected to
\* be answered.
LEMMA RequestExpected ==
  ASSUME SystemIInv, NEW c \in Conn, Written(c) = 0, phase = "running",
         NEW asked, NEW answer, NEW m \in Messages, m.type = asked,
         input' = [input EXCEPT ![c] = Append(@, m)],
         UNCHANGED <<pc, msg, output, seen>>
  PROVE  Expected(c, asked, answer)'
<1>1. Len(output[c]) = 0 /\ seen[c] = 0
  <2>1. Len(output[c]) = 0
    BY NotAnswered
  <2>2. seen \in [Conn -> Nat] /\ seen[c] <= Len(output[c])
    BY Lengths
  <2>3. QED
    BY <2>1, <2>2
<1>2. /\ handled \in [Conn -> Seq(Messages)] /\ input \in [Conn -> Seq(Messages)]
      /\ InHand(c) => Received(c) = Len(handled[c]) + Len(input[c]) + 1
      /\ ~InHand(c) => Received(c) = Len(handled[c]) + Len(input[c])
  BY Lengths
<1>3. Received(c) <= 0
  BY DEF SystemIInv, WireInv
<1>4. ~InHand(c) /\ Len(input[c]) = 0
  BY <1>2, <1>3
<1>5. pc[c] \in {"read", "done"}
  <2>1. pc[c] \in {"read", "act", "link", "respond", "done"}
    BY DEF SystemIInv, IInv, TypeOK
  <2>2. QED
    BY <1>4, <2>1 DEF InHand
<1>6. Len(input'[c]) = 1 /\ input'[c][1] = m
  <2>1. input'[c] = Append(input[c], m) /\ input[c] \in Seq(Messages)
    BY <1>2
  <2>2. QED
    BY <1>4, <2>1
<1>7. QED
  BY <1>1, <1>5, <1>6 DEF Expected

\* A client's step strands nobody.
LEMMA ClientExpects ==
  ASSUME SystemIInv, HandshakeInv, NEW p \in Clients, Client(p)
  PROVE  HandshakeInv'
<1>1. UNCHANGED <<pc, msg, output, phase, subaddress>>
  BY ClientFrame DEF server
<1>2. /\ \A d \in Conn : d[1] # p => input'[d] = input[d] /\ seen'[d] = seen[d]
      /\ \/ \E from, to, c, m : /\ Writes(p, from, to, c, m) /\ Advance(p, from, to)
                                /\ Write(c, m.type, m.arg, m.load)
         \/ step'[p] \notin {"initialize", "async_initialize"}
  BY ClientApart
<1>3. \A q \in Clients \ {p} : step'[q] = step[q]
  <2>1. PICK s : step' = [step EXCEPT ![p] = s]
    BY DEF Client, SendInitialize, SendAsyncInitialize, ConnectAsyncFails,
           SetMaximumMessageSize, SyncSend, TakeResponse, ResponseEnds, CloseSync,
           DisconnectSync, DisconnectAsync, Advance
  <2>2. QED
    BY <2>1 DEF SystemIInv, SystemTypeOK
<1>4. ASSUME NEW q \in Clients \ {p}, phase = "running"
      PROVE  /\ step'[q] = "initialize" =>
                  Expected(Sync(q), "Initialize", "InitializeResponse")'
             /\ step'[q] = "async_initialize" =>
                  Expected(Async(q), "AsyncInitialize", "AsyncInitializeResponse")'
  <2>1. /\ Sync(q) \in Conn /\ Async(q) \in Conn /\ Sync(q)[1] # p /\ Async(q)[1] # p
    BY Connections
  <2>2. /\ input'[Sync(q)] = input[Sync(q)] /\ seen'[Sync(q)] = seen[Sync(q)]
        /\ input'[Async(q)] = input[Async(q)] /\ seen'[Async(q)] = seen[Async(q)]
    BY <1>2, <2>1
  <2>3. QED
    BY <1>1, <1>3, <1>4, <2>2 DEF HandshakeInv, Expected, InHand
<1>5. ASSUME phase = "running", step'[p] \in {"initialize", "async_initialize"}
      PROVE  /\ step'[p] = "initialize" =>
                  Expected(Sync(p), "Initialize", "InitializeResponse")'
             /\ step'[p] = "async_initialize" =>
                  Expected(Async(p), "AsyncInitialize", "AsyncInitializeResponse")'
  <2>1. PICK from, to, c, m : /\ Writes(p, from, to, c, m) /\ Advance(p, from, to)
                              /\ Write(c, m.type, m.arg, m.load)
    BY <1>2, <1>5
  <2>2. step[p] = from /\ step'[p] = to
    BY <2>1, Moved
  <2>3. \/ from = "start" /\ to = "initialize" /\ c = Sync(p) /\ m.type = "Initialize"
        \/ /\ from = "connect_async" /\ to = "async_initialize" /\ c = Async(p)
           /\ m.type = "AsyncInitialize"
    BY <1>5, <2>1, <2>2 DEF Writes
  <2>4. c \in Conn /\ Written(c) = 0
    BY <2>2, <2>3, Connections DEF Written
  <2>5. m \in Messages /\ m = [type |-> m.type, arg |-> m.arg, load |-> m.load]
    BY <2>1, ClientMessages DEF Writes, SystemIInv
  <2>6. input' = [input EXCEPT ![c] = Append(@, m)] /\ seen' = seen
    BY <1>5, <2>1, <2>5 DEF Write
  <2>7. \A asked, answer : m.type = asked => Expected(c, asked, answer)'
    BY <1>1, <1>5, <2>4, <2>5, <2>6, RequestExpected
  <2>8. QED
    BY <2>2, <2>3, <2>7
<1>6. QED
  BY <1>1, <1>4, <1>5 DEF HandshakeInv

\* No step strands a client.
LEMMA HandshakeStep ==
  HandshakeInv /\ SystemIInv /\ [SystemNext]_allVars => HandshakeInv'
<1> SUFFICES ASSUME HandshakeInv, SystemIInv, [SystemNext]_allVars PROVE HandshakeInv'
  OBVIOUS
<1>1. CASE Setup /\ UNCHANGED client
  <2>1. phase = "setup"
    BY <1>1 DEF Setup, Register, RegisterFails, Run
  <2>2. \A p \in Clients : step'[p] = "start"
    BY <1>1, <2>1 DEF SystemIInv, StepInv, client
  <2>3. QED
    BY <2>2 DEF HandshakeInv
<1>2. ASSUME NEW c \in Conn, Thread(c), UNCHANGED client PROVE HandshakeInv'
  <2> SUFFICES ASSUME phase' = "running", NEW p \in Clients
               PROVE  /\ step'[p] = "initialize" =>
                           Expected(Sync(p), "Initialize", "InitializeResponse")'
                      /\ step'[p] = "async_initialize" =>
                           Expected(Async(p), "AsyncInitialize", "AsyncInitializeResponse")'
    BY DEF HandshakeInv
  <2>1. phase = "running" /\ step' = step
    BY <1>2, ThreadMoves DEF client
  <2>2. Sync(p) \in Conn /\ Async(p) \in Conn
    BY Connections
  <2>3. /\ Expected(Sync(p), "Initialize", "InitializeResponse")
             => Expected(Sync(p), "Initialize", "InitializeResponse")'
        /\ Expected(Async(p), "AsyncInitialize", "AsyncInitializeResponse")
             => Expected(Async(p), "AsyncInitialize", "AsyncInitializeResponse")'
    BY <1>2, <2>2, ThreadExpects DEF Exchanges
  <2>4. QED
    BY <2>1, <2>2, <2>3 DEF HandshakeInv, Exchanges
<1>3. ASSUME NEW p \in Clients, Client(p) PROVE HandshakeInv'
  BY <1>3, ClientExpects
<1>4. CASE UNCHANGED allVars
  BY <1>4 DEF allVars, vars, client, HandshakeInv, Expected, InHand
<1>5. QED
  BY <1>1, <1>2, <1>3, <1>4 DEF SystemNext

\* As long as the server is up no client in hs_connect waits for what will not come:
\* clients and threads do not wait for each other.
THEOREM NobodyStranded == SystemSpec => []NeverStranded
<1>1. SystemInit => HandshakeInv
  BY DEF SystemInit, HandshakeInv
<1>2. SystemIInv /\ HandshakeInv => NeverStranded
  <2> SUFFICES ASSUME SystemIInv, HandshakeInv, phase = "running",
                      NEW p \in Clients, NEW x \in Exchange,
                      step[p] = x.at, x.at \in {"initialize", "async_initialize"}
               PROVE  LET c == <<p, x.chan>>
                      IN  \/ input[c] # <<>> \/ pc[c] # "read"
                          \/ Available(c) /\ NextResponse(c).type = x.type
    BY DEF NeverStranded
  <2>1. PICK c \in Conn : /\ c = <<p, x.chan>>
                          /\ \E asked : Expected(c, asked, x.type)
    <3>1. Sync(p) \in Conn /\ Async(p) \in Conn
      BY Connections
    <3>2. CASE x.at = "initialize"
      <4>1. <<p, x.chan>> = Sync(p) /\ x.type = "InitializeResponse"
        BY <3>2 DEF Exchange, Sync
      <4>2. Expected(Sync(p), "Initialize", "InitializeResponse")
        BY <3>2 DEF HandshakeInv
      <4>3. QED
        BY <3>1, <4>1, <4>2
    <3>3. CASE x.at = "async_initialize"
      <4>1. <<p, x.chan>> = Async(p) /\ x.type = "AsyncInitializeResponse"
        BY <3>3 DEF Exchange, Async
      <4>2. Expected(Async(p), "AsyncInitialize", "AsyncInitializeResponse")
        BY <3>3 DEF HandshakeInv
      <4>3. QED
        BY <3>1, <4>1, <4>2
    <3>4. QED
      BY <3>2, <3>3
  <2>2. CASE Len(input[c]) = 1
    <3>1. input[c] # <<>>
      BY <2>2
    <3>2. QED
      BY <2>1, <3>1
  <2>3. CASE pc[c] # "read"
    BY <2>1, <2>3
  <2>4. CASE seen[c] = 0 /\ Len(output[c]) > 0 /\ output[c][1].type = x.type
    <3>1. Available(c) /\ NextResponse(c).type = x.type
      <4>1. seen[c] + 1 = 1
        BY <2>4
      <4>2. QED
        BY <2>4, <4>1 DEF Available, NextResponse
    <3>2. QED
      BY <2>1, <3>1
  <2>5. QED
    BY <2>1, <2>2, <2>3, <2>4 DEF Expected, InHand
<1>3. QED
  BY <1>1, <1>2, HandshakeStep, SystemIInvHolds, PTL DEF SystemSpec
=============================================================================
