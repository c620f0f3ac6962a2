-------------------------- MODULE ServerProcessProofs --------------------------
(***************************************************************************)
(* Theorems about ServerProcess for any connections, messages, sessions    *)
(* and registrations: type correctness, that a session id is told once,    *)
(* and what ends the server.                                               *)
(***************************************************************************)
EXTENDS ServerProcess, SequenceTheorems, FiniteSetTheorems, TLAPS

-----------------------------------------------------------------------------
(* The inductive invariant *)

Responses ==
  [type : {"InitializeResponse", "AsyncInitializeResponse", "DataEnd"},
   arg : Handle \cup {m.arg : m \in Messages} \cup {0},
   by : Names \cup {NoName}]

SequencesInv ==
  /\ output \in [Conn -> Seq(Responses)]
  /\ handled \in [Conn -> Seq(Messages)]

\* The part of TypeOK that the threads do not change, but for their input.
SharedOK ==
  /\ list \in Seq(Names) /\ subaddress_data \in Names \cup {NoName}
  /\ phase \in {"setup", "running", "crashed"}
  /\ input \in [Conn -> Seq(Messages)] /\ closed \subseteq Conn

InHand(c) == pc[c] \in {"act", "link", "respond"}

\* Between session_new and the InitializeResponse.
Pending(c) == pc[c] \in {"link", "respond"}

\* A thread that acts has a message; one that has a session, an Initialize.
MessageInv ==
  \A c \in Conn : /\ InHand(c) => msg[c] \in Messages
                  /\ Pending(c) => msg[c].type = "Initialize"

\* The ids told are those of sessions that have been claimed.
ToldInv ==
  \A c \in Conn : \A i \in Initialized(c) : output[c][i].arg \in allocated

\* A session about to be told is claimed, its thread's alone, and told to nobody.
PendingInv ==
  \A c \in Conn : Pending(c) =>
    /\ sessionID[c] \in allocated
    /\ \A d \in Conn \ {c} : Pending(d) => sessionID[d] # sessionID[c]
    /\ \A d \in Conn : \A j \in Initialized(d) : output[d][j].arg # sessionID[c]

\* The pointer is NULL only before the first payload of the connection.
PayloadInv ==
  \A c \in Conn : payload[c] = NoLoad =>
    /\ InHand(c) => msg[c].load = NoLoad
    /\ \A i \in 1 .. Len(handled[c]) : handled[c][i].load = NoLoad

IInv ==
  /\ TypeOK /\ SequencesInv /\ MessageInv
  /\ ToldInv /\ PendingInv /\ SessionIdsUnique
  /\ PayloadInv /\ StaysUp

-----------------------------------------------------------------------------
(* Sequences that grow by one element *)

\* What is at each place of a sequence after one element is appended.
LEMMA Appended ==
  ASSUME NEW S, NEW s \in Seq(S), NEW x \in S
  PROVE  /\ s \o <<x>> \in Seq(S) /\ Append(s, x) \in Seq(S)
         /\ Len(s \o <<x>>) = Len(s) + 1 /\ Len(Append(s, x)) = Len(s) + 1
         /\ (s \o <<x>>)[Len(s) + 1] = x /\ Append(s, x)[Len(s) + 1] = x
         /\ \A i \in 1 .. Len(s) : (s \o <<x>>)[i] = s[i] /\ Append(s, x)[i] = s[i]
<1>1. Append(s, x) = s \o <<x>>
  BY AppendIsConcat
<1>2. /\ Append(s, x) \in Seq(S) /\ Len(Append(s, x)) = Len(s) + 1
      /\ Append(s, x)[Len(s) + 1] = x
      /\ \A i \in 1 .. Len(s) : Append(s, x)[i] = s[i]
  OBVIOUS
<1> QED BY <1>1, <1>2

\* A response more: the new one is the last, the others stay where they are.
LEMMA OneMore ==
  ASSUME SequencesInv, NEW c \in Conn, NEW x \in Responses,
         output' = [output EXCEPT ![c] = @ \o <<x>>]
  PROVE  /\ output' \in [Conn -> Seq(Responses)]
         /\ \A d \in Conn : \A i \in Initialized(d)' :
              \/ i \in Initialized(d) /\ output'[d][i] = output[d][i]
              \/ d = c /\ i = Len(output[c]) + 1 /\ output'[d][i] = x
<1>1. output \in [Conn -> Seq(Responses)] /\ output[c] \in Seq(Responses)
  BY DEF SequencesInv
<1>2. output'[c] = output[c] \o <<x>> /\ \A d \in Conn \ {c} : output'[d] = output[d]
  BY <1>1
<1>3. /\ output[c] \o <<x>> \in Seq(Responses)
      /\ Len(output'[c]) = Len(output[c]) + 1
      /\ output'[c][Len(output[c]) + 1] = x
      /\ \A i \in 1 .. Len(output[c]) : output'[c][i] = output[c][i]
  BY <1>1, <1>2, Appended
<1>4. output' \in [Conn -> Seq(Responses)]
  BY <1>1, <1>3
<1>5. ASSUME NEW d \in Conn, NEW i \in Initialized(d)'
      PROVE  \/ i \in Initialized(d) /\ output'[d][i] = output[d][i]
             \/ d = c /\ i = Len(output[c]) + 1 /\ output'[d][i] = x
  <2>1. i \in 1 .. Len(output'[d]) /\ output'[d][i].type = "InitializeResponse"
    BY <1>5 DEF Initialized
  <2>2. CASE d # c
    BY <1>2, <2>1, <2>2 DEF Initialized
  <2>3. CASE d = c
    <3>1. Len(output[c]) \in Nat
      BY <1>1
    <3>2. i \in 1 .. Len(output[c]) \/ i = Len(output[c]) + 1
      BY <1>3, <2>1, <2>3, <3>1
    <3> QED BY <1>3, <2>1, <2>3, <3>2 DEF Initialized
  <2> QED BY <2>2, <2>3
<1> QED BY <1>4, <1>5

\* A message done with: handled grows by it.
LEMMA HandledGrows ==
  ASSUME SequencesInv, NEW c \in Conn, msg[c] \in Messages,
         handled' = [handled EXCEPT ![c] = Append(@, msg[c])]
  PROVE  /\ handled' \in [Conn -> Seq(Messages)]
         /\ \A d \in Conn \ {c} : handled'[d] = handled[d]
         /\ \A i \in 1 .. Len(handled'[c]) :
              \/ handled'[c][i] = msg[c]
              \/ i \in 1 .. Len(handled[c]) /\ handled'[c][i] = handled[c][i]
<1>1. handled \in [Conn -> Seq(Messages)] /\ handled[c] \in Seq(Messages)
  BY DEF SequencesInv
<1>2. handled'[c] = Append(handled[c], msg[c])
      /\ \A d \in Conn \ {c} : handled'[d] = handled[d]
  BY <1>1
<1>3. /\ Append(handled[c], msg[c]) \in Seq(Messages)
      /\ Len(handled'[c]) = Len(handled[c]) + 1
      /\ handled'[c][Len(handled[c]) + 1] = msg[c]
      /\ \A i \in 1 .. Len(handled[c]) : handled'[c][i] = handled[c][i]
  BY <1>1, <1>2, Appended
<1>4. handled' \in [Conn -> Seq(Messages)]
  BY <1>1, <1>3
<1>5. ASSUME NEW i \in 1 .. Len(handled'[c])
      PROVE  i = Len(handled[c]) + 1 \/ i \in 1 .. Len(handled[c])
  <2>1. Len(handled[c]) \in Nat
    BY <1>1
  <2> QED BY <1>3, <2>1
<1> QED BY <1>2, <1>3, <1>4, <1>5

-----------------------------------------------------------------------------
(* Parts of the invariant that most steps keep *)

\* A step that claims nothing, tells no new id and starts no new exchange.
LEMMA SessionsKept ==
  ASSUME IInv, allocated \subseteq allocated',
         \A d \in Conn : \A i \in Initialized(d)' :
           i \in Initialized(d) /\ output'[d][i] = output[d][i],
         \A d \in Conn : Pending(d)' => Pending(d) /\ sessionID'[d] = sessionID[d]
  PROVE  ToldInv' /\ PendingInv' /\ SessionIdsUnique'
<1>1. ToldInv'
  BY DEF IInv, ToldInv
<1>2. PendingInv'
  BY DEF IInv, PendingInv
<1>3. SessionIdsUnique'
  BY DEF IInv, SessionIdsUnique
<1> QED BY <1>1, <1>2, <1>3

\* As long as the server runs there is nothing to say of how it went down.
LEMMA StillUp ==
  ASSUME phase # "crashed", phase' = phase
  PROVE  StaysUp'
  BY DEF StaysUp

\* A message done with that was the last thing in hand leaves PayloadInv.
LEMMA PayloadKept ==
  ASSUME IInv, NEW c \in Conn, InHand(c), UNCHANGED payload,
         \A d \in Conn \ {c} : pc'[d] = pc[d] /\ msg'[d] = msg[d],
         ~InHand(c)',
         handled' = [handled EXCEPT ![c] = Append(@, msg[c])]
  PROVE  PayloadInv'
<1>1. /\ SequencesInv /\ PayloadInv /\ msg[c] \in Messages
  BY DEF IInv, MessageInv
<1>2. /\ \A d \in Conn \ {c} : handled'[d] = handled[d]
      /\ \A i \in 1 .. Len(handled'[c]) :
           \/ handled'[c][i] = msg[c]
           \/ i \in 1 .. Len(handled[c]) /\ handled'[c][i] = handled[c][i]
  BY <1>1, HandledGrows
<1>3. ASSUME NEW d \in Conn \ {c}, payload'[d] = NoLoad
      PROVE  /\ InHand(d)' => msg'[d].load = NoLoad
             /\ \A i \in 1 .. Len(handled'[d]) : handled'[d][i].load = NoLoad
  BY <1>1, <1>2, <1>3 DEF PayloadInv, InHand
<1>4. ASSUME payload'[c] = NoLoad
      PROVE  \A i \in 1 .. Len(handled'[c]) : handled'[c][i].load = NoLoad
  BY <1>1, <1>2, <1>4 DEF PayloadInv
<1> QED BY <1>3, <1>4 DEF PayloadInv

\* The type part of a Finish step, whatever it does with the table.
LEMMA FinishTypes ==
  ASSUME IInv, NEW c \in Conn, NEW from \in {"act", "respond"},
         NEW to \in {"read", "done"}, NEW r, Finish(c, from, to, r)
  PROVE  /\ pc[c] = from /\ pc'[c] = to /\ phase = "running"
         /\ \A d \in Conn \ {c} : pc'[d] = pc[d] /\ msg'[d] = msg[d]
         /\ pc' \in [Conn -> {"read", "act", "link", "respond", "done"}]
         /\ msg' \in [Conn -> Messages \cup {NoMessage}]
         /\ handled' \in [Conn -> Seq(Messages)]
         /\ MessageInv' /\ PayloadInv' /\ StaysUp'
<1>1. /\ phase = "running" /\ pc[c] = from
      /\ pc' = [pc EXCEPT ![c] = to]
      /\ msg' = [msg EXCEPT ![c] = NoMessage]
      /\ handled' = [handled EXCEPT ![c] = Append(@, msg[c])]
      /\ UNCHANGED <<list, subaddress_data, phase, input, closed, payload>>
  BY DEF Finish, Goto, shared, wire
<1>2. /\ pc \in [Conn -> {"read", "act", "link", "respond", "done"}]
      /\ msg \in [Conn -> Messages \cup {NoMessage}]
      /\ SequencesInv /\ MessageInv
  BY DEF IInv, TypeOK
<1>3. /\ pc'[c] = to /\ \A d \in Conn \ {c} : pc'[d] = pc[d] /\ msg'[d] = msg[d]
  BY <1>1, <1>2
<1>4. /\ pc' \in [Conn -> {"read", "act", "link", "respond", "done"}]
      /\ msg' \in [Conn -> Messages \cup {NoMessage}]
  BY <1>1, <1>2
<1>5. InHand(c) /\ ~InHand(c)' /\ msg[c] \in Messages
  BY <1>1, <1>2, <1>3 DEF InHand, MessageInv
<1>6. handled' \in [Conn -> Seq(Messages)]
  BY <1>1, <1>2, <1>5, HandledGrows
<1>7. MessageInv'
  BY <1>2, <1>3 DEF MessageInv, InHand, Pending
<1>8. PayloadInv'
  BY <1>1, <1>3, <1>5, PayloadKept
<1>9. StaysUp'
  BY <1>1, StillUp
<1> QED BY <1>1, <1>3, <1>4, <1>6, <1>7, <1>8, <1>9

-----------------------------------------------------------------------------
(* Init and the steps *)

\* The server starts with nothing claimed, sent or told.
LEMMA InitIInv == Init => IInv
<1> SUFFICES ASSUME Init PROVE IInv
  OBVIOUS
<1>1. TypeOK
  BY DEF Init, TypeOK, Handle
<1>2. SequencesInv
  BY DEF Init, SequencesInv
<1>3. MessageInv /\ PendingInv /\ PayloadInv
  BY DEF Init, MessageInv, PendingInv, PayloadInv, InHand, Pending
<1>4. \A c \in Conn : Initialized(c) = {}
  BY DEF Init, Initialized
<1>5. ToldInv /\ SessionIdsUnique
  BY <1>4 DEF ToldInv, SessionIdsUnique
<1>6. StaysUp
  BY DEF Init, StaysUp
<1> QED BY <1>1, <1>2, <1>3, <1>5, <1>6 DEF IInv

\* Registration, hs_server_run and the clients.
LEMMA OutsideKeeps ==
  ASSUME IInv,
         \/ Setup
         \/ \E c \in Conn : (\E m \in Messages : Send(c, m)) \/ HangUp(c)
  PROVE  IInv'
<1>1. UNCHANGED <<allocated, pc, msg, payload, sessionID, output, handled>>
  BY DEF Setup, Register, RegisterFails, Run, Send, HangUp
<1>2. TypeOK'
  <2>1. /\ allocated' \subseteq Handle
        /\ pc' \in [Conn -> {"read", "act", "link", "respond", "done"}]
        /\ msg' \in [Conn -> Messages \cup {NoMessage}]
        /\ payload' \in [Conn -> {m.load : m \in Messages} \cup {NoLoad}]
        /\ sessionID' \in [Conn -> Handle \cup {-1}]
        /\ \A c \in Conn : handled'[c] \in Seq(Messages)
    BY <1>1 DEF IInv, TypeOK
  <2>2. SharedOK
    BY DEF IInv, TypeOK, SharedOK
  <2>3. SharedOK'
    <3> USE <2>2 DEF SharedOK
    <3>1. ASSUME NEW n \in Names, Register(n) PROVE SharedOK'
      <4>1. <<n>> \in Seq(Names)
        OBVIOUS
      <4>2. <<n>> \o list \in Seq(Names)
        BY <4>1, ConcatProperties
      <4> QED BY <3>1, <4>2 DEF Register, wire
    <3>2. CASE RegisterFails \/ Run
      BY <3>2 DEF RegisterFails, Run, wire
    <3>3. ASSUME NEW c \in Conn, NEW m \in Messages, Send(c, m) PROVE SharedOK'
      <4>1. Append(input[c], m) \in Seq(Messages)
        OBVIOUS
      <4> QED BY <3>3, <4>1 DEF Send, shared
    <3>4. ASSUME NEW c \in Conn, HangUp(c) PROVE SharedOK'
      BY <3>4 DEF HangUp, shared
    <3> QED BY <3>1, <3>2, <3>3, <3>4 DEF Setup
  <2> QED BY <2>1, <2>3 DEF TypeOK, SharedOK
<1>3. SequencesInv' /\ MessageInv' /\ PayloadInv'
  BY <1>1 DEF IInv, SequencesInv, MessageInv, PayloadInv, InHand, Pending
<1>4. ToldInv' /\ PendingInv' /\ SessionIdsUnique'
  BY <1>1 DEF IInv, ToldInv, PendingInv, SessionIdsUnique, Pending, Initialized
<1>5. StaysUp'
  <2>1. CASE Setup
    BY <2>1 DEF Setup, Register, RegisterFails, Run, StaysUp
  <2>2. CASE \E c \in Conn : (\E m \in Messages : Send(c, m)) \/ HangUp(c)
    <3>1. /\ phase' = phase /\ subaddress_data' = subaddress_data
          /\ closed' = {} => closed = {}
      BY <2>2 DEF Send, HangUp, shared
    <3> QED BY <1>1, <3>1 DEF IInv, StaysUp
  <2> QED BY <2>1, <2>2
<1> QED BY <1>2, <1>3, <1>4, <1>5 DEF IInv

\* A message is taken, the stream has ended, or the name has been looked up.
LEMMA QuietStepKeeps ==
  ASSUME IInv, NEW c \in Conn, Receive(c) \/ ReceiveEnd(c) \/ Link(c)
  PROVE  IInv'
<1>1. /\ phase = "running" /\ phase' = phase /\ closed' = closed
      /\ UNCHANGED <<list, subaddress_data, allocated, sessionID, output, handled>>
  BY DEF Receive, ReceiveEnd, Link, Goto, shared, wire
<1>2. /\ pc' \in [Conn -> {"read", "act", "link", "respond", "done"}]
      /\ \A d \in Conn \ {c} :
           pc'[d] = pc[d] /\ msg'[d] = msg[d] /\ payload'[d] = payload[d]
      /\ Pending(c)' => Pending(c)
  <2> USE DEF IInv, TypeOK, Goto, Pending
  <2>1. CASE Receive(c)
    BY <2>1 DEF Receive
  <2>2. CASE ReceiveEnd(c)
    BY <2>2 DEF ReceiveEnd
  <2>3. CASE Link(c)
    BY <2>3 DEF Link
  <2> QED BY <2>1, <2>2, <2>3
<1>3. /\ input' \in [Conn -> Seq(Messages)]
      /\ msg' \in [Conn -> Messages \cup {NoMessage}]
      /\ payload' \in [Conn -> {m.load : m \in Messages} \cup {NoLoad}]
      /\ InHand(c)' => msg'[c] \in Messages
      /\ Pending(c)' => msg'[c].type = "Initialize"
      /\ payload'[c] = NoLoad => payload[c] = NoLoad /\ (InHand(c)' => msg'[c].load = NoLoad)
  <2>1. /\ input \in [Conn -> Seq(Messages)] /\ MessageInv /\ PayloadInv
        /\ msg \in [Conn -> Messages \cup {NoMessage}]
        /\ payload \in [Conn -> {m.load : m \in Messages} \cup {NoLoad}]
        /\ pc \in [Conn -> {"read", "act", "link", "respond", "done"}]
    BY DEF IInv, TypeOK
  <2>2. CASE Receive(c)
    <3>1. /\ input[c] \in Seq(Messages) /\ input[c] # <<>>
          /\ msg' = [msg EXCEPT ![c] = Head(input[c])]
          /\ input' = [input EXCEPT ![c] = Tail(@)]
          /\ payload' = [payload EXCEPT ![c] =
               IF Head(input[c]).load = NoLoad THEN @ ELSE Head(input[c]).load]
          /\ pc'[c] = "act"
      BY <2>1, <2>2 DEF Receive, Goto
    <3>2. Head(input[c]) \in Messages /\ Tail(input[c]) \in Seq(Messages)
      BY <3>1
    <3>3. Head(input[c]).load \in {m.load : m \in Messages}
      BY <3>2
    <3>4. /\ input' \in [Conn -> Seq(Messages)]
          /\ msg' \in [Conn -> Messages \cup {NoMessage}]
          /\ payload' \in [Conn -> {m.load : m \in Messages} \cup {NoLoad}]
      BY <2>1, <3>1, <3>2, <3>3
    <3>5. msg'[c] = Head(input[c])
          /\ payload'[c] = (IF Head(input[c]).load = NoLoad THEN payload[c]
                            ELSE Head(input[c]).load)
      BY <2>1, <3>1
    <3> QED BY <3>1, <3>2, <3>4, <3>5 DEF Pending
  <2>3. CASE ReceiveEnd(c)
    BY <2>1, <2>3 DEF ReceiveEnd, Goto, wire, InHand, Pending
  <2>4. CASE Link(c)
    BY <2>1, <2>4 DEF Link, Goto, wire, InHand, Pending, MessageInv, PayloadInv
  <2> QED BY <2>2, <2>3, <2>4
<1>4. TypeOK'
  BY <1>1, <1>2, <1>3 DEF IInv, TypeOK
<1>5. SequencesInv'
  BY <1>1 DEF IInv, SequencesInv
<1>6. MessageInv'
  BY <1>2, <1>3 DEF IInv, MessageInv, InHand, Pending
<1>7. ToldInv' /\ PendingInv' /\ SessionIdsUnique'
  <2>1. \A d \in Conn : Pending(d)' => Pending(d) /\ sessionID'[d] = sessionID[d]
    BY <1>1, <1>2 DEF Pending
  <2>2. \A d \in Conn : \A i \in Initialized(d)' :
          i \in Initialized(d) /\ output'[d][i] = output[d][i]
    BY <1>1 DEF Initialized
  <2> QED BY <1>1, <2>1, <2>2, SessionsKept
<1>8. PayloadInv'
  BY <1>1, <1>2, <1>3 DEF IInv, PayloadInv, InHand
<1>9. StaysUp'
  BY <1>1, StillUp
<1> QED BY <1>4, <1>5, <1>6, <1>7, <1>8, <1>9 DEF IInv

\* session_new gives the thread an entry nobody has.
LEMMA NewSessionKeeps ==
  ASSUME IInv, NEW c \in Conn, NewSession(c)
  PROVE  IInv'
<1>1. PICK h \in Handle \ allocated :
        /\ allocated' = allocated \cup {h}
        /\ sessionID' = [sessionID EXCEPT ![c] = h]
  BY DEF NewSession
<1>2. /\ phase = "running" /\ pc[c] = "act" /\ pc' = [pc EXCEPT ![c] = "link"]
      /\ msg[c].type = "Initialize"
      /\ UNCHANGED <<list, subaddress_data, phase, input, closed, msg, payload,
                     output, handled>>
  BY DEF NewSession, Goto, shared, wire
<1>3. /\ pc \in [Conn -> {"read", "act", "link", "respond", "done"}]
      /\ sessionID \in [Conn -> Handle \cup {-1}] /\ allocated \subseteq Handle
  BY DEF IInv, TypeOK
<1>4. /\ pc'[c] = "link" /\ sessionID'[c] = h
      /\ \A d \in Conn \ {c} : pc'[d] = pc[d] /\ sessionID'[d] = sessionID[d]
  BY <1>1, <1>2, <1>3
<1>5. TypeOK'
  BY <1>1, <1>2, <1>3 DEF IInv, TypeOK
<1>6. SequencesInv' /\ MessageInv' /\ PayloadInv'
  BY <1>2, <1>4 DEF IInv, SequencesInv, MessageInv, PayloadInv, InHand, Pending
<1>7. \A d \in Conn : Initialized(d)' = Initialized(d)
  BY <1>2 DEF Initialized
<1>8. ToldInv' /\ SessionIdsUnique'
  BY <1>1, <1>2, <1>7 DEF IInv, ToldInv, SessionIdsUnique
<1>9. PendingInv'
  <2>1. \A d \in Conn : \A j \in Initialized(d) : output[d][j].arg # h
    BY <1>1 DEF IInv, ToldInv
  <2>2. \A d \in Conn \ {c} : Pending(d) => sessionID[d] \in allocated /\ sessionID[d] # h
    BY <1>1 DEF IInv, PendingInv
  <2>3. \A d \in Conn \ {c} : Pending(d)' <=> Pending(d)
    BY <1>4 DEF Pending
  <2>4. ASSUME NEW d \in Conn, Pending(d)'
        PROVE  /\ sessionID'[d] \in allocated'
               /\ \A e \in Conn \ {d} : Pending(e)' => sessionID'[e] # sessionID'[d]
               /\ \A e \in Conn : \A j \in Initialized(e)' : output'[e][j].arg # sessionID'[d]
    <3>1. CASE d = c
      BY <1>1, <1>2, <1>4, <1>7, <2>1, <2>2, <2>3, <3>1
    <3>2. CASE d # c
      BY <1>1, <1>2, <1>4, <1>7, <2>1, <2>2, <2>3, <2>4, <3>2 DEF IInv, PendingInv
    <3> QED BY <3>1, <3>2
  <2> QED BY <2>4 DEF PendingInv
<1>10. StaysUp'
  BY <1>2, StillUp
<1> QED BY <1>5, <1>6, <1>8, <1>9, <1>10 DEF IInv

\* The server goes down: through an Initialize without a payload ever, a Data
\* message without a registered subaddress, or a client that has left.
LEMMA CrashKeeps ==
  ASSUME IInv, NEW c \in Conn, LinkCrashes(c) \/ CallBackCrashes(c) \/ BrokenPipe(c)
  PROVE  IInv'
<1>1. /\ phase' = "crashed"
      /\ UNCHANGED <<list, subaddress_data, input, closed, allocated, pc, msg, payload,
                     sessionID, output, handled>>
  BY DEF LinkCrashes, CallBackCrashes, BrokenPipe, Crash, wire
<1>2. TypeOK'
  BY <1>1 DEF IInv, TypeOK
<1>3. SequencesInv' /\ MessageInv' /\ PayloadInv'
  BY <1>1 DEF IInv, SequencesInv, MessageInv, PayloadInv, InHand, Pending
<1>4. ToldInv' /\ PendingInv' /\ SessionIdsUnique'
  BY <1>1 DEF IInv, ToldInv, PendingInv, SessionIdsUnique, Pending, Initialized
<1>5. StaysUp'
  <2>1. CASE LinkCrashes(c)
    <3>1. pc[c] = "link" /\ payload[c] = NoLoad
      BY <2>1 DEF LinkCrashes
    <3>2. msg[c].type = "Initialize"
      BY <3>1 DEF IInv, MessageInv, Pending
    <3>3. /\ msg[c].load = NoLoad
          /\ \A i \in 1 .. Len(handled[c]) : handled[c][i].load = NoLoad
      BY <3>1 DEF IInv, PayloadInv, InHand
    <3> QED BY <1>1, <3>2, <3>3 DEF StaysUp
  <2>2. CASE CallBackCrashes(c)
    BY <1>1, <2>2 DEF CallBackCrashes, StaysUp
  <2>3. CASE BrokenPipe(c)
    BY <1>1, <2>3 DEF BrokenPipe, StaysUp
  <2> QED BY <2>1, <2>2, <2>3
<1> QED BY <1>2, <1>3, <1>4, <1>5 DEF IInv

\* No response, or one that tells no session id.
Silent(r) ==
  \/ r = <<>>
  \/ \E x \in Responses : x.type # "InitializeResponse" /\ r = <<x>>

Other(c) ==
  \/ RefuseVersion(c) \/ RefuseSession(c) \/ AsyncInitialize(c)
  \/ CallBack(c) \/ Ignore(c)

\* What these steps have in common: a message is done with and no id told.
LEMMA OtherIsSilent ==
  ASSUME IInv, NEW c \in Conn, Other(c)
  PROVE  \E r : \E to \in {"read", "done"} : Finish(c, "act", to, r) /\ Silent(r)
<1>1. CASE RefuseVersion(c) \/ RefuseSession(c)
  <2>1. Finish(c, "act", "done", <<>>)
    BY <1>1 DEF RefuseVersion, RefuseSession
  <2>2. Silent(<<>>)
    BY DEF Silent
  <2> QED BY <2>1, <2>2
<1>2. CASE AsyncInitialize(c)
  <2> DEFINE x == Response("AsyncInitializeResponse", 0, NoName)
  <2>1. x \in Responses /\ x.type # "InitializeResponse"
    BY DEF Response, Responses
  <2>2. Silent(<<x>>)
    BY <2>1 DEF Silent
  <2>3. Finish(c, "act", "read", <<x>>)
    BY <1>2 DEF AsyncInitialize
  <2> HIDE DEF x
  <2> QED BY <2>2, <2>3
<1>3. CASE CallBack(c)
  <2> DEFINE x == Response("DataEnd", msg[c].arg, subaddress_data)
  <2>1. msg[c] \in Messages
    BY <1>3 DEF IInv, MessageInv, InHand, CallBack, Finish, Goto
  <2>2. msg[c].arg \in {m.arg : m \in Messages}
    BY <2>1
  <2>3. subaddress_data \in Names \cup {NoName}
    BY DEF IInv, TypeOK
  <2>4. x \in Responses /\ x.type # "InitializeResponse"
    BY <2>2, <2>3 DEF Response, Responses
  <2>5. Silent(<<x>>) /\ Silent(<<>>)
    BY <2>4 DEF Silent
  <2>6. \/ Finish(c, "act", "read", <<x>>)
        \/ Finish(c, "act", "read", <<>>)
    BY <1>3 DEF CallBack, message_sync
  <2> HIDE DEF x
  <2> QED BY <2>5, <2>6
<1>4. CASE Ignore(c)
  <2>1. Finish(c, "act", "read", <<>>)
    BY <1>4 DEF Ignore
  <2>2. Silent(<<>>)
    BY DEF Silent
  <2> QED BY <2>1, <2>2
<1> QED BY <1>1, <1>2, <1>3, <1>4 DEF Other

\* They keep the invariant.
LEMMA OtherResponseKeeps ==
  ASSUME IInv, NEW c \in Conn, Other(c)
  PROVE  IInv'
<1>1. PICK r : \E to \in {"read", "done"} : Finish(c, "act", to, r) /\ Silent(r)
  BY OtherIsSilent
<1>a. PICK to \in {"read", "done"} : Finish(c, "act", to, r) /\ Silent(r)
  BY <1>1
<1>2. /\ output' = [output EXCEPT ![c] = @ \o r]
      /\ handled' = [handled EXCEPT ![c] = Append(@, msg[c])]
      /\ UNCHANGED <<list, subaddress_data, phase, input, closed, payload>>
  BY <1>a DEF Finish, shared, wire
<1>3. /\ allocated' = allocated
      /\ sessionID' \in [Conn -> Handle \cup {-1}]
      /\ \A d \in Conn \ {c} : sessionID'[d] = sessionID[d]
  <2> USE DEF IInv, TypeOK
  <2>1. CASE RefuseSession(c)
    BY <2>1 DEF RefuseSession
  <2>2. CASE ~RefuseSession(c)
    BY <2>2 DEF Other, RefuseVersion, AsyncInitialize, CallBack, Ignore
  <2> QED BY <2>1, <2>2
<1>4. /\ pc'[c] = to
      /\ \A d \in Conn \ {c} : pc'[d] = pc[d] /\ msg'[d] = msg[d]
      /\ pc' \in [Conn -> {"read", "act", "link", "respond", "done"}]
      /\ msg' \in [Conn -> Messages \cup {NoMessage}]
      /\ handled' \in [Conn -> Seq(Messages)]
      /\ MessageInv' /\ PayloadInv' /\ StaysUp'
  BY <1>a, FinishTypes
<1>5. TypeOK'
  BY <1>2, <1>3, <1>4 DEF IInv, TypeOK
<1>6. /\ output' \in [Conn -> Seq(Responses)]
      /\ \A d \in Conn : \A i \in Initialized(d)' :
           i \in Initialized(d) /\ output'[d][i] = output[d][i]
  <2>1. CASE r = <<>>
    <3>1. output \in [Conn -> Seq(Responses)]
      BY DEF IInv, SequencesInv
    <3>2. output[c] \o <<>> = output[c]
      BY <3>1, ConcatEmptySeq
    <3>3. output' = output
      BY <1>2, <2>1, <3>1, <3>2
    <3> QED BY <3>1, <3>3 DEF Initialized
  <2>2. CASE \E x \in Responses : x.type # "InitializeResponse" /\ r = <<x>>
    <3>1. PICK x \in Responses : x.type # "InitializeResponse" /\ r = <<x>>
      BY <2>2
    <3>2. output' = [output EXCEPT ![c] = @ \o <<x>>] /\ SequencesInv
      BY <1>2, <3>1 DEF IInv
    <3>3. /\ output' \in [Conn -> Seq(Responses)]
          /\ \A d \in Conn : \A i \in Initialized(d)' :
               \/ i \in Initialized(d) /\ output'[d][i] = output[d][i]
               \/ d = c /\ i = Len(output[c]) + 1 /\ output'[d][i] = x
      BY <3>2, OneMore
    <3>4. \A d \in Conn : \A i \in Initialized(d)' :
            output'[d][i].type = "InitializeResponse"
      BY DEF Initialized
    <3> QED BY <3>1, <3>3, <3>4
  <2> QED BY <1>a, <2>1, <2>2 DEF Silent
<1>7. SequencesInv'
  BY <1>4, <1>6 DEF SequencesInv
<1>8. ToldInv' /\ PendingInv' /\ SessionIdsUnique'
  <2>1. \A d \in Conn : Pending(d)' => Pending(d) /\ sessionID'[d] = sessionID[d]
    BY <1>3, <1>4 DEF Pending
  <2> QED BY <1>3, <1>6, <2>1, SessionsKept
<1> QED BY <1>4, <1>5, <1>7, <1>8 DEF IInv

\* InitializeResponse tells the id the thread holds.
LEMMA RespondKeeps ==
  ASSUME IInv, NEW c \in Conn, RespondInitialize(c)
  PROVE  IInv'
<1> DEFINE x == Response("InitializeResponse", sessionID[c], NoName)
<1>1. /\ Finish(c, "respond", "read", <<x>>)
      /\ UNCHANGED <<allocated, sessionID>>
  BY DEF RespondInitialize
<1>2. /\ pc[c] = "respond" /\ pc'[c] = "read"
      /\ \A d \in Conn \ {c} : pc'[d] = pc[d] /\ msg'[d] = msg[d]
      /\ pc' \in [Conn -> {"read", "act", "link", "respond", "done"}]
      /\ msg' \in [Conn -> Messages \cup {NoMessage}]
      /\ handled' \in [Conn -> Seq(Messages)]
      /\ MessageInv' /\ PayloadInv' /\ StaysUp'
  BY <1>1, FinishTypes
<1>3. TypeOK'
  <2>1. UNCHANGED <<list, subaddress_data, phase, input, closed, payload>>
    BY <1>1 DEF Finish, shared, wire
  <2> QED BY <1>1, <1>2, <2>1 DEF IInv, TypeOK
<1>4. Pending(c) /\ sessionID[c] \in allocated /\ allocated \subseteq Handle
  BY <1>2 DEF IInv, PendingInv, Pending, TypeOK
<1>5. x \in Responses /\ x.arg = sessionID[c]
  BY <1>4 DEF Response, Responses
<1>6. output' = [output EXCEPT ![c] = @ \o <<x>>] /\ SequencesInv
  BY <1>1 DEF Finish, IInv
<1>7. /\ output' \in [Conn -> Seq(Responses)]
      /\ \A d \in Conn : \A i \in Initialized(d)' :
           \/ i \in Initialized(d) /\ output'[d][i] = output[d][i]
           \/ d = c /\ i = Len(output[c]) + 1 /\ output'[d][i] = x
  <2> HIDE DEF x
  <2> QED BY <1>5, <1>6, OneMore
<1>8. SequencesInv'
  BY <1>2, <1>7 DEF SequencesInv
<1>9. ToldInv'
  BY <1>1, <1>4, <1>5, <1>7 DEF IInv, ToldInv
<1>10. \A d \in Conn : \A j \in Initialized(d) : output[d][j].arg # sessionID[c]
  BY <1>4 DEF IInv, PendingInv
<1>11. SessionIdsUnique'
  <2> HIDE DEF x
  <2>1. SUFFICES ASSUME NEW d \in Conn, NEW e \in Conn,
                        NEW i \in Initialized(d)', NEW j \in Initialized(e)',
                        output'[d][i].arg = output'[e][j].arg
                 PROVE  d = e /\ i = j
    BY DEF SessionIdsUnique
  <2>2. /\ \/ i \in Initialized(d) /\ output'[d][i] = output[d][i]
           \/ d = c /\ i = Len(output[c]) + 1 /\ output'[d][i] = x
        /\ \/ j \in Initialized(e) /\ output'[e][j] = output[e][j]
           \/ e = c /\ j = Len(output[c]) + 1 /\ output'[e][j] = x
    BY <1>7
  <2>3. CASE i \in Initialized(d) /\ j \in Initialized(e)
             /\ output'[d][i] = output[d][i] /\ output'[e][j] = output[e][j]
    BY <2>1, <2>3 DEF IInv, SessionIdsUnique
  <2>4. CASE i \in Initialized(d) /\ output'[d][i] = output[d][i] /\ output'[e][j] = x
    BY <1>5, <1>10, <2>1, <2>4
  <2>5. CASE j \in Initialized(e) /\ output'[e][j] = output[e][j] /\ output'[d][i] = x
    BY <1>5, <1>10, <2>1, <2>5
  <2> QED BY <2>2, <2>3, <2>4, <2>5
<1>12. PendingInv'
  <2>1. \A d \in Conn : Pending(d)' => d # c /\ Pending(d)
    BY <1>2 DEF Pending
  <2>2. \A d \in Conn : Pending(d)' => sessionID[d] # sessionID[c]
    BY <1>4, <2>1 DEF IInv, PendingInv
  <2> HIDE DEF x
  <2> QED BY <1>1, <1>5, <1>7, <2>1, <2>2 DEF IInv, PendingInv
<1> QED BY <1>2, <1>3, <1>8, <1>9, <1>11, <1>12 DEF IInv

\* Every step keeps the invariant.
LEMMA NextIInv == IInv /\ [Next]_vars => IInv'
<1> SUFFICES ASSUME IInv, [Next]_vars PROVE IInv'
  OBVIOUS
<1>1. CASE \/ Setup
           \/ \E c \in Conn : (\E m \in Messages : Send(c, m)) \/ HangUp(c)
  BY <1>1, OutsideKeeps
<1>2. ASSUME NEW c \in Conn, Thread(c) PROVE IInv'
  BY <1>2, QuietStepKeeps, NewSessionKeeps, CrashKeeps, OtherResponseKeeps, RespondKeeps
     DEF Thread, Other
<1>3. CASE UNCHANGED vars
  BY <1>3 DEF vars, IInv, TypeOK, SequencesInv, MessageInv, ToldInv, PendingInv,
              SessionIdsUnique, PayloadInv, StaysUp, Initialized, InHand, Pending
<1> QED BY <1>1, <1>2, <1>3 DEF Next

-----------------------------------------------------------------------------
(* Theorems *)

\* The invariant holds, however the threads interleave.
THEOREM IInvHolds == Spec => []IInv
<1>1. Init => IInv
  BY InitIInv
<1>2. IInv /\ [Next]_vars => IInv'
  BY NextIInv
<1> QED BY <1>1, <1>2, PTL DEF Spec

\* Every variable of the server keeps its type.
THEOREM TypeCorrect == Spec => []TypeOK
<1>1. IInv => TypeOK
  BY DEF IInv
<1> QED BY <1>1, IInvHolds, PTL

\* hs_process never tells a session id twice, on one connection or on several.
THEOREM IdsToldOnce == Spec => []SessionIdsUnique
<1>1. IInv => SessionIdsUnique
  BY DEF IInv
<1> QED BY <1>1, IInvHolds, PTL

\* With its last registration done and no client gone, a server goes down only
\* through an Initialize on a connection that has never brought a payload.
THEOREM ServerStaysUp == Spec => []StaysUp
<1>1. IInv => StaysUp
  BY DEF IInv
<1> QED BY <1>1, IInvHolds, PTL

-----------------------------------------------------------------------------
(* The account of the sessions *)

Told == UNION {{c} \X Initialized(c) : c \in Conn}
Holding == {c \in Conn : Pending(c)}

\* SessionAccount counts, so that it needs its sets to be finite: they are, even
\* with any number of connections, since each step adds one element at most.
AccountInv ==
  /\ IsFiniteSet(allocated) /\ IsFiniteSet(Told) /\ IsFiniteSet(Holding)
  /\ SessionAccount

\* The account in terms of the two sets.
LEMMA AccountIsSum ==
  SessionAccount <=> Cardinality(allocated) = Cardinality(Told) + Cardinality(Holding)
  BY DEF SessionAccount, Told, Holding, Pending

\* What a response adds to the ids told on its connection.
LEMMA ToldGrows ==
  ASSUME SequencesInv, NEW c \in Conn, NEW x \in Responses,
         output' = [output EXCEPT ![c] = @ \o <<x>>]
  PROVE  /\ \A d \in Conn \ {c} : Initialized(d)' = Initialized(d)
         /\ Initialized(c)' = Initialized(c) \cup
              IF x.type = "InitializeResponse" THEN {Len(output[c]) + 1} ELSE {}
         /\ Len(output[c]) + 1 \notin Initialized(c)
<1>1. output \in [Conn -> Seq(Responses)] /\ output[c] \in Seq(Responses)
  BY DEF SequencesInv
<1>2. output'[c] = output[c] \o <<x>> /\ \A d \in Conn \ {c} : output'[d] = output[d]
  BY <1>1
<1>3. /\ Len(output'[c]) = Len(output[c]) + 1
      /\ output'[c][Len(output[c]) + 1] = x
      /\ \A i \in 1 .. Len(output[c]) : output'[c][i] = output[c][i]
  BY <1>1, <1>2, Appended
<1>4. Len(output[c]) \in Nat
  BY <1>1
<1>5. 1 .. Len(output'[c]) = (1 .. Len(output[c])) \cup {Len(output[c]) + 1}
  BY <1>3, <1>4
<1>6. Initialized(c)' = Initialized(c) \cup
        IF x.type = "InitializeResponse" THEN {Len(output[c]) + 1} ELSE {}
  <2>1. Initialized(c)' = {i \in 1 .. Len(output'[c]) : output'[c][i].type = "InitializeResponse"}
    BY DEF Initialized
  <2>2. Initialized(c) = {i \in 1 .. Len(output[c]) : output[c][i].type = "InitializeResponse"}
    BY DEF Initialized
  <2> QED BY <1>3, <1>5, <2>1, <2>2
<1>7. Len(output[c]) + 1 \notin Initialized(c)
  BY <1>4 DEF Initialized
<1> QED BY <1>2, <1>6, <1>7 DEF Initialized

\* Nothing claimed, nothing told, nothing begun.
LEMMA AccountKept ==
  ASSUME AccountInv, allocated' = allocated,
         \A d \in Conn : Initialized(d)' = Initialized(d),
         \A d \in Conn : Pending(d)' <=> Pending(d)
  PROVE  AccountInv'
<1>1. Told' = Told /\ Holding' = Holding
  BY DEF Told, Holding
<1> QED BY <1>1, AccountIsSum DEF AccountInv, SessionAccount, Told, Holding, Pending

\* A session claimed is one more in hand.
LEMMA NewSessionCounts ==
  ASSUME IInv, AccountInv, NEW c \in Conn, NewSession(c)
  PROVE  AccountInv'
<1>1. PICK h \in Handle \ allocated : allocated' = allocated \cup {h}
  BY DEF NewSession
<1>2. pc[c] = "act" /\ pc' = [pc EXCEPT ![c] = "link"] /\ output' = output
  BY DEF NewSession, Goto
<1>3. pc \in [Conn -> {"read", "act", "link", "respond", "done"}]
  BY DEF IInv, TypeOK
<1>4. c \notin Holding /\ Holding' = Holding \cup {c}
  BY <1>2, <1>3 DEF Holding, Pending
<1>5. Told' = Told
  BY <1>2 DEF Told, Initialized
<1>6. IsFiniteSet(allocated) /\ IsFiniteSet(Told) /\ IsFiniteSet(Holding)
  BY DEF AccountInv
<1>7. /\ IsFiniteSet(allocated') /\ Cardinality(allocated') = Cardinality(allocated) + 1
      /\ IsFiniteSet(Holding') /\ Cardinality(Holding') = Cardinality(Holding) + 1
  BY <1>1, <1>4, <1>6, FS_AddElement
<1>8. Cardinality(allocated) = Cardinality(Told) + Cardinality(Holding)
  BY AccountIsSum DEF AccountInv
<1>9. Cardinality(Told) \in Nat /\ Cardinality(Holding) \in Nat
  BY <1>6, FS_CardinalityType
<1>10. Cardinality(allocated') = Cardinality(Told') + Cardinality(Holding')
  BY <1>5, <1>7, <1>8, <1>9
<1>11. SessionAccount'
  BY <1>10 DEF SessionAccount, Told, Holding, Pending
<1> QED BY <1>5, <1>6, <1>7, <1>11 DEF AccountInv

\* An id told is one less in hand.
LEMMA RespondCounts ==
  ASSUME IInv, AccountInv, NEW c \in Conn, RespondInitialize(c)
  PROVE  AccountInv'
<1> DEFINE x == Response("InitializeResponse", sessionID[c], NoName)
           new == <<c, Len(output[c]) + 1>>
<1>1. /\ Finish(c, "respond", "read", <<x>>) /\ allocated' = allocated
      /\ output' = [output EXCEPT ![c] = @ \o <<x>>]
  BY DEF RespondInitialize, Finish
<1>2. /\ pc[c] = "respond" /\ pc'[c] = "read"
      /\ \A d \in Conn \ {c} : pc'[d] = pc[d]
  BY <1>1, FinishTypes
<1>3. sessionID[c] \in Handle
  BY <1>2 DEF IInv, PendingInv, Pending, TypeOK
<1>4. x \in Responses /\ x.type = "InitializeResponse"
  BY <1>3 DEF Response, Responses
<1>5. /\ \A d \in Conn \ {c} : Initialized(d)' = Initialized(d)
      /\ Initialized(c)' = Initialized(c) \cup {Len(output[c]) + 1}
      /\ Len(output[c]) + 1 \notin Initialized(c)
  <2>1. SequencesInv
    BY DEF IInv
  <2> HIDE DEF x
  <2> QED BY <1>1, <1>4, <2>1, ToldGrows
<1>6. Told' = Told \cup {new} /\ new \notin Told
  <2>1. \A d \in Conn : {d} \X Initialized(d)' =
          ({d} \X Initialized(d)) \cup (IF d = c THEN {new} ELSE {})
    BY <1>5
  <2> QED BY <1>5, <2>1 DEF Told
<1>7. Holding' = Holding \ {c} /\ c \in Holding
  BY <1>2 DEF Holding, Pending
<1>8. IsFiniteSet(allocated) /\ IsFiniteSet(Told) /\ IsFiniteSet(Holding)
  BY DEF AccountInv
<1>9. /\ IsFiniteSet(Told') /\ Cardinality(Told') = Cardinality(Told) + 1
      /\ IsFiniteSet(Holding') /\ Cardinality(Holding') = Cardinality(Holding) - 1
  <2> HIDE DEF new
  <2> QED BY <1>6, <1>7, <1>8, FS_AddElement, FS_RemoveElement
<1>10. Cardinality(allocated) = Cardinality(Told) + Cardinality(Holding)
  BY AccountIsSum DEF AccountInv
<1>11. Cardinality(Told) \in Nat /\ Cardinality(Holding) \in Nat
  BY <1>8, FS_CardinalityType
<1>12. Cardinality(allocated') = Cardinality(Told') + Cardinality(Holding')
  BY <1>1, <1>9, <1>10, <1>11
<1>13. SessionAccount'
  BY <1>12 DEF SessionAccount, Told, Holding, Pending
<1> QED BY <1>1, <1>8, <1>9, <1>13 DEF AccountInv

\* Every step but session_new and the InitializeResponse leaves the sessions, what
\* was told of them, and what is about to be told as they are.
LEMMA OtherwiseUntold ==
  ASSUME IInv,
         \/ Setup
         \/ \E c \in Conn :
              \/ (\E m \in Messages : Send(c, m)) \/ HangUp(c)
              \/ Receive(c) \/ ReceiveEnd(c) \/ Link(c) \/ Other(c)
              \/ LinkCrashes(c) \/ CallBackCrashes(c) \/ BrokenPipe(c)
         \/ UNCHANGED vars
  PROVE  /\ allocated' = allocated
         /\ \A d \in Conn :
              /\ Initialized(d)' = Initialized(d)
              /\ \A i \in Initialized(d) : output'[d][i] = output[d][i]
              /\ Pending(d)' <=> Pending(d)
              /\ Pending(d) => sessionID'[d] = sessionID[d]
<1> DEFINE Untold ==
      /\ allocated' = allocated
      /\ \A d \in Conn :
           /\ Initialized(d)' = Initialized(d)
           /\ \A i \in Initialized(d) : output'[d][i] = output[d][i]
           /\ Pending(d)' <=> Pending(d)
           /\ Pending(d) => sessionID'[d] = sessionID[d]
<1>a. pc \in [Conn -> {"read", "act", "link", "respond", "done"}]
      /\ sessionID \in [Conn -> Handle \cup {-1}]
  BY DEF IInv, TypeOK
<1>1. CASE \/ Setup \/ UNCHANGED vars
           \/ \E c \in Conn :
                \/ (\E m \in Messages : Send(c, m)) \/ HangUp(c)
                \/ LinkCrashes(c) \/ CallBackCrashes(c) \/ BrokenPipe(c)
  <2>1. UNCHANGED <<allocated, pc, sessionID, output>>
    BY <1>1 DEF Setup, Register, RegisterFails, Run, Send, HangUp, LinkCrashes,
                CallBackCrashes, BrokenPipe, vars
  <2> QED BY <2>1 DEF Initialized, Pending
<1>2. ASSUME NEW c \in Conn, Receive(c) \/ ReceiveEnd(c) \/ Link(c) PROVE Untold
  <2>1. UNCHANGED <<allocated, sessionID, output>>
    BY <1>2 DEF Receive, ReceiveEnd, Link
  <2>2. \A d \in Conn : Pending(d)' <=> Pending(d)
    BY <1>a, <1>2 DEF Receive, ReceiveEnd, Link, Goto, Pending
  <2> QED BY <2>1, <2>2 DEF Initialized
<1>3. ASSUME NEW c \in Conn, Other(c) PROVE Untold
  <2>1. PICK r : \E to \in {"read", "done"} : Finish(c, "act", to, r) /\ Silent(r)
    BY <1>3, OtherIsSilent
  <2>2. PICK to \in {"read", "done"} : Finish(c, "act", to, r) /\ Silent(r)
    BY <2>1
  <2>3. allocated' = allocated /\ \A d \in Conn \ {c} : sessionID'[d] = sessionID[d]
    <3>1. CASE RefuseSession(c)
      BY <1>a, <3>1 DEF RefuseSession
    <3>2. CASE ~RefuseSession(c)
      BY <1>3, <3>2 DEF Other, RefuseVersion, AsyncInitialize, CallBack, Ignore
    <3> QED BY <3>1, <3>2
  <2>4. pc[c] = "act" /\ pc'[c] = to /\ \A d \in Conn \ {c} : pc'[d] = pc[d]
    BY <2>2, FinishTypes
  <2>5. \A d \in Conn : /\ Pending(d)' <=> Pending(d)
                        /\ Pending(d) => sessionID'[d] = sessionID[d]
    BY <2>2, <2>3, <2>4 DEF Pending
  <2>6. output' = [output EXCEPT ![c] = @ \o r] /\ SequencesInv
    BY <2>2 DEF Finish, IInv
  <2>7. \A d \in Conn : /\ Initialized(d)' = Initialized(d)
                        /\ \A i \in Initialized(d) : output'[d][i] = output[d][i]
    <3>1. CASE r = <<>>
      <4>1. output \in [Conn -> Seq(Responses)] /\ output[c] \o <<>> = output[c]
        BY <2>6, ConcatEmptySeq DEF SequencesInv
      <4>2. output' = output
        BY <2>6, <3>1, <4>1
      <4> QED BY <4>2 DEF Initialized
    <3>2. CASE \E x \in Responses : x.type # "InitializeResponse" /\ r = <<x>>
      <4>1. PICK x \in Responses : x.type # "InitializeResponse" /\ r = <<x>>
        BY <3>2
      <4>2. output' = [output EXCEPT ![c] = @ \o <<x>>]
        BY <2>6, <4>1
      <4>3. /\ \A d \in Conn \ {c} : Initialized(d)' = Initialized(d)
            /\ Initialized(c)' = Initialized(c) \cup
                 IF x.type = "InitializeResponse" THEN {Len(output[c]) + 1} ELSE {}
            /\ Len(output[c]) + 1 \notin Initialized(c)
        BY <2>6, <4>2, ToldGrows
      <4>4. \A d \in Conn : \A i \in Initialized(d)' :
              \/ i \in Initialized(d) /\ output'[d][i] = output[d][i]
              \/ d = c /\ i = Len(output[c]) + 1 /\ output'[d][i] = x
        BY <2>6, <4>2, OneMore
      <4> QED BY <4>1, <4>3, <4>4
    <3> QED BY <2>2, <3>1, <3>2 DEF Silent
  <2> QED BY <2>3, <2>5, <2>7
<1> QED BY <1>1, <1>2, <1>3

\* Every other step leaves the account alone.
LEMMA OtherwiseUncounted ==
  ASSUME IInv, AccountInv,
         \/ Setup
         \/ \E c \in Conn :
              \/ (\E m \in Messages : Send(c, m)) \/ HangUp(c)
              \/ Receive(c) \/ ReceiveEnd(c) \/ Link(c) \/ Other(c)
              \/ LinkCrashes(c) \/ CallBackCrashes(c) \/ BrokenPipe(c)
         \/ UNCHANGED vars
  PROVE  AccountInv'
BY OtherwiseUntold, AccountKept

\* The sessions claimed are those told to a client or about to be, however many
\* connections there are and whatever they send.
THEOREM SessionsAccounted == Spec => []SessionAccount
<1>1. Init => AccountInv
  <2> SUFFICES ASSUME Init PROVE AccountInv
    OBVIOUS
  <2>1. allocated = {} /\ Holding = {}
    BY DEF Init, Holding, Pending
  <2>2. Told = {}
    BY DEF Init, Told, Initialized
  <2>3. /\ IsFiniteSet({}) /\ Cardinality({}) = 0
    BY FS_EmptySet
  <2> QED BY <2>1, <2>2, <2>3, AccountIsSum DEF AccountInv
<1>2. IInv /\ AccountInv /\ [Next]_vars => AccountInv'
  BY NewSessionCounts, RespondCounts, OtherwiseUncounted DEF Next, Thread, Other
<1>3. AccountInv => SessionAccount
  BY DEF AccountInv
<1> QED BY <1>1, <1>2, <1>3, IInvHolds, PTL DEF Spec

-----------------------------------------------------------------------------
(* The responses *)

\* RepliesFollowRequests, of one connection.
RepliesInv(c) ==
  /\ \/ Len(output[c]) = Cardinality(Asked(c))
     \/ pc[c] = "done" /\ Len(output[c]) = Cardinality(Asked(c)) - 1
  /\ \A i \in Asked(c) :
       Place(c, i) <= Len(output[c])
         => Answers(output[c][Place(c, i)], handled[c][i])

\* Nothing has been handled while the subaddresses are registered, so that what is
\* answerable does not change afterwards.
SetupInv == phase = "setup" => \A c \in Conn : handled[c] = <<>>

\* A step that handles nothing on a connection leaves its responses alone.
LEMMA RepliesKept ==
  ASSUME NEW c \in Conn, RepliesInv(c), pc[c] = "done" => pc'[c] = "done",
         UNCHANGED subaddress_data, output'[c] = output[c], handled'[c] = handled[c]
  PROVE  RepliesInv(c)'
<1>1. Asked(c)' = Asked(c)
  BY DEF Asked, Answerable
<1>2. \A i : Place(c, i)' = Place(c, i)
  BY <1>1 DEF Place
<1>3. \A r, m : Answers(r, m)' <=> Answers(r, m)
  BY DEF Answers
<1>4. RepliesInv(c)' =
        /\ \/ Len(output[c]) = Cardinality(Asked(c))
           \/ pc'[c] = "done" /\ Len(output[c]) = Cardinality(Asked(c)) - 1
        /\ \A i \in Asked(c) :
             Place(c, i) <= Len(output[c])
               => Answers(output[c][Place(c, i)], handled[c][i])
  BY <1>1, <1>2, <1>3 DEF RepliesInv
<1>5. QED
  BY <1>4 DEF RepliesInv

\* The places of the requests are places of a sequence.
LEMMA Places ==
  ASSUME SequencesInv, NEW c \in Conn
  PROVE  /\ IsFiniteSet(Asked(c)) /\ Cardinality(Asked(c)) \in Nat
         /\ \A i \in Asked(c) : Place(c, i) \in Nat \ {0}
<1>1. Len(handled[c]) \in Nat
  BY DEF SequencesInv
<1>2. IsFiniteSet(1 .. Len(handled[c]))
  BY <1>1, FS_Interval
<1>3. IsFiniteSet(Asked(c))
  BY <1>2, FS_Subset DEF Asked
<1>4. ASSUME NEW i \in Asked(c) PROVE Place(c, i) \in Nat \ {0}
  <2> DEFINE upto == {j \in Asked(c) : j <= i}
  <2>1. i \in upto
    BY <1>1, <1>4 DEF Asked
  <2>2. IsFiniteSet(upto)
    BY <1>3, FS_Subset
  <2>3. Cardinality(upto) \in Nat /\ Cardinality(upto) # 0
    BY <2>1, <2>2, FS_CardinalityType, FS_EmptySet
  <2> QED BY <2>3 DEF Place
<1> QED BY <1>3, <1>4, FS_CardinalityType

\* A message done with is at most one request more, the last one.
LEMMA AskedGrows ==
  ASSUME SequencesInv, NEW c \in Conn, msg[c] \in Messages,
         handled' = [handled EXCEPT ![c] = Append(@, msg[c])],
         subaddress_data' = subaddress_data
  PROVE  LET last == Len(handled[c]) + 1
         IN  /\ last \notin Asked(c)
             /\ Asked(c)' = Asked(c) \cup (IF Answerable(msg[c]) THEN {last} ELSE {})
             /\ \A i \in Asked(c) : Place(c, i)' = Place(c, i) /\ handled'[c][i] = handled[c][i]
             /\ handled'[c][last] = msg[c]
             /\ Answerable(msg[c]) =>
                  \A i \in {last} : Place(c, i)' = Cardinality(Asked(c)')
<1> DEFINE last == Len(handled[c]) + 1
<1>1. handled \in [Conn -> Seq(Messages)] /\ handled[c] \in Seq(Messages)
  BY DEF SequencesInv
<1>2. handled'[c] = Append(handled[c], msg[c])
  BY <1>1
<1>3. /\ Len(handled'[c]) = last /\ handled'[c][last] = msg[c]
      /\ \A i \in 1 .. Len(handled[c]) : handled'[c][i] = handled[c][i]
  BY <1>1, <1>2, Appended
<1>4. Len(handled[c]) \in Nat
  BY <1>1
<1>5. 1 .. Len(handled'[c]) = (1 .. Len(handled[c])) \cup {last}
  BY <1>3, <1>4
<1>6. \A m : Answerable(m)' <=> Answerable(m)
  BY DEF Answerable
<1>7. Asked(c)' = {i \in 1 .. Len(handled'[c]) : Answerable(handled'[c][i])}
  BY <1>6 DEF Asked
<1>8. last \notin Asked(c)
  BY <1>4 DEF Asked
<1>9. Asked(c)' = Asked(c) \cup (IF Answerable(msg[c]) THEN {last} ELSE {})
  <2>1. Asked(c) = {i \in 1 .. Len(handled[c]) : Answerable(handled[c][i])}
    BY DEF Asked
  <2> QED BY <1>3, <1>5, <1>7, <2>1
<1>10. \A i \in Asked(c) : i \in 1 .. Len(handled[c])
  BY DEF Asked
<1>11. ASSUME NEW i \in Asked(c) PROVE Place(c, i)' = Place(c, i)
  <2>1. ~(last <= i)
    BY <1>4, <1>10
  <2>2. {j \in Asked(c)' : j <= i} = {j \in Asked(c) : j <= i}
    BY <1>9, <2>1
  <2> QED BY <2>2 DEF Place
<1>12. ASSUME Answerable(msg[c]), NEW i \in {last}
       PROVE  Place(c, i)' = Cardinality(Asked(c)')
  <2>1. \A j \in Asked(c)' : j <= i
    BY <1>4, <1>9, <1>10, <1>12
  <2>2. {j \in Asked(c)' : j <= i} = Asked(c)'
    BY <2>1
  <2> QED BY <2>2 DEF Place
<1> QED BY <1>3, <1>8, <1>9, <1>10, <1>11, <1>12

\* A message done with and what has been written for it, whatever the handler.
Answered(c, to, r) ==
  \/ ~Answerable(msg[c]) /\ r = <<>>
  \/ Answerable(msg[c]) /\ \E x \in Responses : r = <<x>> /\ Answers(x, msg[c])
  \/ Answerable(msg[c]) /\ r = <<>> /\ to = "done"

\* What a handler writes keeps the responses in step with the requests.
LEMMA FinishReplies ==
  ASSUME IInv, NEW c \in Conn, NEW from \in {"act", "respond"},
         NEW to \in {"read", "done"}, NEW r, Finish(c, from, to, r),
         RepliesInv(c), Answered(c, to, r)
  PROVE  RepliesInv(c)'
<1>1. /\ pc[c] = from /\ pc'[c] = to /\ SequencesInv /\ msg[c] \in Messages
      /\ handled' = [handled EXCEPT ![c] = Append(@, msg[c])]
      /\ output' = [output EXCEPT ![c] = @ \o r]
      /\ subaddress_data' = subaddress_data
  <2>1. pc[c] = from /\ pc'[c] = to
    BY FinishTypes
  <2>2. msg[c] \in Messages
    BY <2>1 DEF IInv, MessageInv, InHand
  <2> QED BY <2>1, <2>2 DEF Finish, IInv, shared
<1>2. PICK last : last = Len(handled[c]) + 1
  OBVIOUS
<1>3. /\ last \notin Asked(c)
      /\ Asked(c)' = Asked(c) \cup (IF Answerable(msg[c]) THEN {last} ELSE {})
      /\ \A i \in Asked(c) : Place(c, i)' = Place(c, i) /\ handled'[c][i] = handled[c][i]
      /\ handled'[c][last] = msg[c]
      /\ Answerable(msg[c]) =>
           \A i \in {last} : Place(c, i)' = Cardinality(Asked(c)')
  BY <1>1, <1>2, AskedGrows
<1>4. /\ IsFiniteSet(Asked(c)) /\ Cardinality(Asked(c)) \in Nat
      /\ \A i \in Asked(c) : Place(c, i) \in Nat \ {0}
  BY <1>1, Places
<1>5. Len(output[c]) = Cardinality(Asked(c))
  BY <1>1 DEF RepliesInv
<1>6. output \in [Conn -> Seq(Responses)] /\ output[c] \in Seq(Responses)
  BY <1>1 DEF SequencesInv
<1>7. \A m, x : Answers(x, m)' <=> Answers(x, m)
  BY DEF Answers
<1>8. \A i \in Asked(c) : Place(c, i) <= Len(output[c])
                            => Answers(output[c][Place(c, i)], handled[c][i])
  BY DEF RepliesInv
<1>9. Answerable(msg[c]) => Cardinality(Asked(c)') = Cardinality(Asked(c)) + 1
  BY <1>3, <1>4, FS_AddElement
<1>10. ASSUME r = <<>> PROVE output'[c] = output[c]
  BY <1>1, <1>6, <1>10, ConcatEmptySeq
<1>11. CASE ~Answerable(msg[c]) /\ r = <<>>
  <2>1. Asked(c)' = Asked(c) /\ output'[c] = output[c]
    BY <1>3, <1>10, <1>11
  <2>2. \A i \in Asked(c)' :
          Place(c, i)' <= Len(output'[c])
            => Answers(output'[c][Place(c, i)'], handled'[c][i])
    BY <1>3, <1>8, <2>1
  <2> QED BY <1>5, <2>1, <2>2 DEF RepliesInv, Answers
<1>12. CASE /\ Answerable(msg[c])
            /\ \E x \in Responses : r = <<x>> /\ Answers(x, msg[c])
  <2>1. PICK x \in Responses : r = <<x>> /\ Answers(x, msg[c])
    BY <1>12
  <2>2. output'[c] = output[c] \o <<x>>
    BY <1>1, <1>6, <2>1
  <2>3. /\ Len(output'[c]) = Len(output[c]) + 1
        /\ output'[c][Len(output[c]) + 1] = x
        /\ \A k \in 1 .. Len(output[c]) : output'[c][k] = output[c][k]
    BY <1>6, <2>2, Appended
  <2>4. Len(output'[c]) = Cardinality(Asked(c)')
    BY <1>5, <1>9, <1>12, <2>3
  <2>5. ASSUME NEW i \in Asked(c), Place(c, i)' <= Len(output'[c])
        PROVE  Answers(output'[c][Place(c, i)'], handled'[c][i])
    <3>1. Place(c, i) <= Len(output[c])
      <4> DEFINE upto == {j \in Asked(c) : j <= i}
      <4>1. Cardinality(upto) <= Cardinality(Asked(c))
        BY <1>4, FS_Subset
      <4> QED BY <1>5, <4>1 DEF Place
    <3>2. Place(c, i) \in 1 .. Len(output[c])
      BY <1>4, <1>5, <3>1
    <3> QED BY <1>3, <1>8, <2>3, <3>1, <3>2
  <2>6. ASSUME NEW i \in {last}
        PROVE  Answers(output'[c][Place(c, i)'], handled'[c][i])
    <3>1. Place(c, i)' = Len(output[c]) + 1
      BY <1>3, <1>5, <1>9, <1>12
    <3> QED BY <1>3, <2>1, <2>3, <3>1
  <2>7. \A i \in Asked(c)' :
          Place(c, i)' <= Len(output'[c])
            => Answers(output'[c][Place(c, i)'], handled'[c][i])
    BY <1>3, <1>12, <2>5, <2>6
  <2> QED BY <2>4, <2>7 DEF RepliesInv, Answers
<1>13. CASE Answerable(msg[c]) /\ r = <<>> /\ to = "done"
  <2>1. output'[c] = output[c]
    BY <1>10, <1>13
  <2>2. Len(output'[c]) = Cardinality(Asked(c)') - 1
    BY <1>4, <1>5, <1>9, <1>13, <2>1
  <2>3. ASSUME NEW i \in {last} PROVE ~(Place(c, i)' <= Len(output'[c]))
    <3>1. Place(c, i)' = Cardinality(Asked(c)) + 1
      BY <1>3, <1>9, <1>13
    <3> QED BY <1>4, <1>5, <2>1, <3>1
  <2>4. \A i \in Asked(c)' :
          Place(c, i)' <= Len(output'[c])
            => Answers(output'[c][Place(c, i)'], handled'[c][i])
    BY <1>3, <1>8, <1>13, <2>1, <2>3
  <2> QED BY <1>1, <1>13, <2>2, <2>4 DEF RepliesInv, Answers
<1> QED BY <1>11, <1>12, <1>13 DEF Answered

\* Each handler writes the response its message has, or ends the connection.
LEMMA HandlersAnswer ==
  ASSUME IInv, NEW c \in Conn, Other(c) \/ RespondInitialize(c)
  PROVE  \E from \in {"act", "respond"}, to \in {"read", "done"} : \E r :
           Finish(c, from, to, r) /\ Answered(c, to, r)
<1>1. CASE RefuseVersion(c) \/ RefuseSession(c)
  <2>1. Finish(c, "act", "done", <<>>) /\ msg[c].type = "Initialize"
    BY <1>1 DEF RefuseVersion, RefuseSession
  <2>2. Answered(c, "done", <<>>)
    BY <2>1 DEF Answered, Answerable
  <2> QED BY <2>1, <2>2
<1>2. CASE AsyncInitialize(c)
  <2> DEFINE x == Response("AsyncInitializeResponse", 0, NoName)
  <2>1. Finish(c, "act", "read", <<x>>) /\ msg[c].type = "AsyncInitialize"
    BY <1>2 DEF AsyncInitialize
  <2>2. x \in Responses /\ Answers(x, msg[c]) /\ Answerable(msg[c])
    BY <2>1 DEF Response, Responses, Answers, Answerable
  <2> HIDE DEF x
  <2>3. Answered(c, "read", <<x>>)
    BY <2>2 DEF Answered
  <2> QED BY <2>1, <2>3
<1>3. CASE CallBack(c)
  <2> DEFINE x == Response("DataEnd", msg[c].arg, subaddress_data)
             r == IF subaddress_data \in WithCallback THEN <<x>> ELSE <<>>
  <2>1. Finish(c, "act", "read", r) /\ msg[c].type = "Data"
    BY <1>3 DEF CallBack, message_sync
  <2>2. msg[c] \in Messages /\ subaddress_data \in Names \cup {NoName}
    BY <2>1 DEF IInv, TypeOK, MessageInv, InHand, Finish, Goto
  <2>3. x \in Responses /\ Answers(x, msg[c])
    BY <2>1, <2>2 DEF Response, Responses, Answers
  <2>4. Answerable(msg[c]) <=> subaddress_data \in WithCallback
    BY <2>1 DEF Answerable
  <2> HIDE DEF x
  <2>5. Answered(c, "read", r)
    BY <2>3, <2>4 DEF Answered
  <2> HIDE DEF r
  <2> QED BY <2>1, <2>5
<1>4. CASE Ignore(c)
  <2>1. /\ Finish(c, "act", "read", <<>>)
        /\ msg[c].type \in {"DataEnd", "AsyncMaximumMessageSize", "Other"}
    BY <1>4 DEF Ignore
  <2>2. Answered(c, "read", <<>>)
    BY <2>1 DEF Answered, Answerable
  <2> QED BY <2>1, <2>2
<1>5. CASE RespondInitialize(c)
  <2> DEFINE x == Response("InitializeResponse", sessionID[c], NoName)
  <2>1. Finish(c, "respond", "read", <<x>>)
    BY <1>5 DEF RespondInitialize
  <2>2. pc[c] = "respond"
    BY <2>1, FinishTypes
  <2>3. msg[c].type = "Initialize" /\ sessionID[c] \in Handle
    BY <2>2 DEF IInv, MessageInv, PendingInv, Pending, TypeOK
  <2>4. x \in Responses /\ Answers(x, msg[c]) /\ Answerable(msg[c])
    BY <2>3 DEF Response, Responses, Answers, Answerable
  <2> HIDE DEF x
  <2>5. Answered(c, "read", <<x>>)
    BY <2>4 DEF Answered
  <2> QED BY <2>1, <2>5
<1> QED BY <1>1, <1>2, <1>3, <1>4, <1>5 DEF Other

\* Each connection gets its responses in the order of its requests, whatever the
\* other connections do.
THEOREM RepliesInOrder == Spec => []RepliesFollowRequests
<1> DEFINE Replies == SetupInv /\ \A c \in Conn : RepliesInv(c)
<1>1. Init => Replies
  <2> SUFFICES ASSUME Init PROVE Replies
    OBVIOUS
  <2>1. SetupInv
    BY DEF Init, SetupInv
  <2>2. ASSUME NEW c \in Conn PROVE RepliesInv(c)
    <3>1. output[c] = <<>> /\ handled[c] = <<>>
      BY DEF Init
    <3>2. Asked(c) = {}
      BY <3>1 DEF Asked
    <3> QED BY <3>1, <3>2, FS_EmptySet DEF RepliesInv
  <2> QED BY <2>1, <2>2
<1>2. IInv /\ Replies /\ [Next]_vars => Replies'
  <2> SUFFICES ASSUME IInv, Replies, [Next]_vars PROVE Replies'
    OBVIOUS
  <2>1. CASE Setup
    <3>1. phase = "setup" /\ UNCHANGED <<pc, output, handled>>
      BY <2>1 DEF Setup, Register, RegisterFails, Run
    <3>2. SetupInv'
      BY <3>1 DEF SetupInv
    <3>3. ASSUME NEW c \in Conn PROVE RepliesInv(c)'
      <4>1. handled[c] = <<>> /\ handled'[c] = <<>>
        BY <3>1 DEF SetupInv
      <4>2. Asked(c) = {} /\ Asked(c)' = {}
        BY <4>1 DEF Asked
      <4> QED BY <3>1, <4>2 DEF RepliesInv
    <3> QED BY <3>2, <3>3
  <2>2. ASSUME NEW c \in Conn, Other(c) \/ RespondInitialize(c) PROVE Replies'
    <3>1. PICK from \in {"act", "respond"}, to \in {"read", "done"} : \E r :
            Finish(c, from, to, r) /\ Answered(c, to, r)
      BY <2>2, HandlersAnswer
    <3>2. PICK r : Finish(c, from, to, r) /\ Answered(c, to, r)
      BY <3>1
    <3>3. RepliesInv(c)'
      BY <3>2, FinishReplies
    <3>4. ASSUME NEW d \in Conn \ {c} PROVE RepliesInv(d)'
      <4>1. /\ pc \in [Conn -> {"read", "act", "link", "respond", "done"}]
            /\ DOMAIN output = Conn /\ DOMAIN handled = Conn
        BY DEF IInv, TypeOK, SequencesInv
      <4>2. pc'[d] = pc[d] /\ output'[d] = output[d]
        BY <3>2, <4>1 DEF Finish, Goto
      <4>3. handled'[d] = handled[d] /\ subaddress_data' = subaddress_data
        BY <3>2, <4>1 DEF Finish, shared
      <4> QED BY <4>2, <4>3, RepliesKept
    <3>5. SetupInv'
      BY <3>2 DEF SetupInv, Finish, Goto, shared
    <3> QED BY <3>3, <3>4, <3>5
  <2>3. ASSUME UNCHANGED <<subaddress_data, output, handled>>, phase' = "setup" => phase = "setup",
               \A c \in Conn : pc[c] = "done" => pc'[c] = "done"
        PROVE  Replies'
    <3>1. SetupInv'
      BY <2>3 DEF SetupInv
    <3>2. ASSUME NEW c \in Conn PROVE RepliesInv(c)'
      BY <2>3, RepliesKept
    <3> QED BY <3>1, <3>2
  <2>4. ASSUME NEW c \in Conn, \/ (\E m \in Messages : Send(c, m)) \/ HangUp(c)
                               \/ LinkCrashes(c) \/ CallBackCrashes(c) \/ BrokenPipe(c)
        PROVE  Replies'
    BY <2>3, <2>4 DEF Send, HangUp, LinkCrashes, CallBackCrashes, BrokenPipe, shared, Crash
  <2>5. ASSUME NEW c \in Conn,
               Receive(c) \/ ReceiveEnd(c) \/ NewSession(c) \/ Link(c)
        PROVE  Replies'
    <3>1. pc \in [Conn -> {"read", "act", "link", "respond", "done"}]
      BY DEF IInv, TypeOK
    <3>2. \A d \in Conn : pc[d] = "done" => pc'[d] = "done"
      BY <2>5, <3>1 DEF Receive, ReceiveEnd, NewSession, Link, Goto
    <3>3. UNCHANGED <<subaddress_data, output, handled, phase>>
      BY <2>5 DEF Receive, ReceiveEnd, NewSession, Link, shared
    <3> QED BY <2>3, <3>2, <3>3
  <2>6. CASE UNCHANGED vars
    BY <2>3, <2>6 DEF vars
  <2> QED BY <2>1, <2>2, <2>4, <2>5, <2>6 DEF Next, Thread, Other
<1>3. Replies => RepliesFollowRequests
  BY DEF RepliesInv, RepliesFollowRequests
<1> HIDE DEF Replies
<1> QED BY <1>1, <1>2, <1>3, IInvHolds, PTL DEF Spec

-----------------------------------------------------------------------------
(* The refinement of SessionOwners *)

\* No connection owns a session when the server starts.
LEMMA OwnersInit == Init => Table!Init
<1> SUFFICES ASSUME Init PROVE Table!Init
  OBVIOUS
<1>1. \A c \in Conn : Initialized(c) = {} /\ ~Pending(c)
  BY DEF Init, Initialized, Pending
<1>2. ownedBar = [c \in Conn |-> {}]
  BY <1>1 DEF ownedBar, Pending
<1>3. QED
  BY <1>2 DEF Init, Table!Init

\* What a connection owns, at one place.
LEMMA OwnedBar ==
  /\ ownedBar = [c \in Conn |-> ownedBar[c]]
  /\ \A c \in Conn : ownedBar[c] =
       {output[c][i].arg : i \in Initialized(c)}
         \cup (IF Pending(c) THEN {sessionID[c]} ELSE {})
BY DEF ownedBar, Pending

\* session_new makes the connection the owner of the lowest free entry.
LEMMA NewSessionClaims ==
  ASSUME IInv, NEW c \in Conn, NewSession(c)
  PROVE  Table!Claim(c)
<1>1. PICK h \in Handle \ allocated :
        /\ 0 .. h - 1 \subseteq allocated
        /\ allocated' = allocated \cup {h}
        /\ sessionID' = [sessionID EXCEPT ![c] = h]
  BY DEF NewSession
<1>2. pc[c] = "act" /\ pc' = [pc EXCEPT ![c] = "link"] /\ output' = output
  BY DEF NewSession, Goto
<1>3. /\ pc \in [Conn -> {"read", "act", "link", "respond", "done"}]
      /\ sessionID \in [Conn -> Handle \cup {-1}]
  BY DEF IInv, TypeOK
<1>4. /\ ~Pending(c) /\ Pending(c)' /\ sessionID'[c] = h
      /\ \A d \in Conn \ {c} : (Pending(d)' <=> Pending(d)) /\ sessionID'[d] = sessionID[d]
  BY <1>1, <1>2, <1>3 DEF Pending
<1>5. \A d \in Conn : ownedBar'[d] =
        {output[d][i].arg : i \in Initialized(d)}
          \cup (IF Pending(d)' THEN {sessionID'[d]} ELSE {})
  BY <1>2 DEF ownedBar, Initialized, Pending
<1>6. ownedBar'[c] = ownedBar[c] \cup {h}
  BY <1>4, <1>5, OwnedBar
<1>7. \A d \in Conn \ {c} : ownedBar'[d] = ownedBar[d]
  BY <1>4, <1>5, OwnedBar
<1>8. ownedBar' = [ownedBar EXCEPT ![c] = @ \cup {h}]
  BY <1>6, <1>7 DEF ownedBar
<1>9. QED
  BY <1>1, <1>8 DEF Table!Claim, Table!Handle, Handle

\* The InitializeResponse tells what the connection owns already.
LEMMA RespondOwns ==
  ASSUME IInv, NEW c \in Conn, RespondInitialize(c)
  PROVE  UNCHANGED Table!vars
<1> DEFINE x == Response("InitializeResponse", sessionID[c], NoName)
<1>1. /\ Finish(c, "respond", "read", <<x>>)
      /\ UNCHANGED <<allocated, sessionID>>
      /\ output' = [output EXCEPT ![c] = @ \o <<x>>]
  BY DEF RespondInitialize, Finish
<1>2. /\ pc[c] = "respond" /\ pc'[c] = "read"
      /\ \A d \in Conn \ {c} : pc'[d] = pc[d]
  BY <1>1, FinishTypes
<1>3. sessionID[c] \in Handle
  BY <1>2 DEF IInv, PendingInv, Pending, TypeOK
<1>4. x \in Responses /\ x.type = "InitializeResponse" /\ x.arg = sessionID[c]
  BY <1>3 DEF Response, Responses
<1>5. SequencesInv
  BY DEF IInv
<1> HIDE DEF x
<1>6. /\ \A d \in Conn \ {c} : Initialized(d)' = Initialized(d)
      /\ Initialized(c)' = Initialized(c) \cup {Len(output[c]) + 1}
      /\ Len(output[c]) + 1 \notin Initialized(c)
  BY <1>1, <1>4, <1>5, ToldGrows
<1>7. \A d \in Conn : \A i \in Initialized(d)' :
        \/ i \in Initialized(d) /\ output'[d][i] = output[d][i]
        \/ d = c /\ i = Len(output[c]) + 1 /\ output'[d][i] = x
  BY <1>1, <1>4, <1>5, OneMore
<1>8. {output'[c][i].arg : i \in Initialized(c)'} =
        {output[c][i].arg : i \in Initialized(c)} \cup {sessionID[c]}
  <2>1. \A i \in Initialized(c) : output'[c][i] = output[c][i]
    BY <1>6, <1>7
  <2>2. output'[c][Len(output[c]) + 1].arg = sessionID[c]
    BY <1>4, <1>6, <1>7
  <2>3. QED
    BY <1>6, <2>1, <2>2
<1>9. \A d \in Conn \ {c} :
        {output'[d][i].arg : i \in Initialized(d)'} = {output[d][i].arg : i \in Initialized(d)}
  BY <1>6, <1>7
<1>10. Pending(c) /\ ~Pending(c)' /\ \A d \in Conn \ {c} : Pending(d)' <=> Pending(d)
  BY <1>2 DEF Pending
<1>11. \A d \in Conn : ownedBar'[d] =
         {output'[d][i].arg : i \in Initialized(d)'}
           \cup (IF Pending(d)' THEN {sessionID[d]} ELSE {})
  BY <1>1 DEF ownedBar, Pending
<1>12. ownedBar'[c] = ownedBar[c]
  BY <1>8, <1>10, <1>11, OwnedBar
<1>13. \A d \in Conn \ {c} : ownedBar'[d] = ownedBar[d]
  BY <1>9, <1>10, <1>11, OwnedBar
<1>14. ownedBar' = ownedBar
  BY <1>12, <1>13 DEF ownedBar
<1>15. QED
  BY <1>1, <1>14 DEF Table!vars

\* The other steps change no owner.
LEMMA OwnersStay ==
  ASSUME allocated' = allocated,
         \A d \in Conn :
           /\ Initialized(d)' = Initialized(d)
           /\ \A i \in Initialized(d) : output'[d][i] = output[d][i]
           /\ Pending(d)' <=> Pending(d)
           /\ Pending(d) => sessionID'[d] = sessionID[d]
  PROVE  UNCHANGED Table!vars
<1>1. \A d \in Conn : ownedBar'[d] =
        {output'[d][i].arg : i \in Initialized(d)'}
          \cup (IF Pending(d)' THEN {sessionID'[d]} ELSE {})
  BY DEF ownedBar, Pending
<1>2. \A d \in Conn : {output'[d][i].arg : i \in Initialized(d)'} =
                        {output[d][i].arg : i \in Initialized(d)}
  OBVIOUS
<1>3. \A d \in Conn : ownedBar'[d] = ownedBar[d]
  BY <1>1, <1>2, OwnedBar
<1>4. ownedBar' = ownedBar
  BY <1>3 DEF ownedBar
<1>5. QED
  BY <1>4 DEF Table!vars

\* The connection threads keep to SessionOwners: a session is told to the client
\* of the one connection it was claimed for, and no step gives it to another.
THEOREM OwnersRefined == Spec => RefinesOwners
<1>1. IInv /\ [Next]_vars => [Table!Next]_(Table!vars)
  <2> SUFFICES ASSUME IInv, [Next]_vars PROVE [Table!Next]_(Table!vars)
    OBVIOUS
  <2>1. ASSUME NEW c \in Conn, NewSession(c) PROVE Table!Next
    BY <2>1, NewSessionClaims DEF Table!Next
  <2>2. ASSUME NEW c \in Conn, RespondInitialize(c) PROVE UNCHANGED Table!vars
    BY <2>2, RespondOwns
  <2>3. CASE \/ Setup
             \/ \E c \in Conn :
                  \/ (\E m \in Messages : Send(c, m)) \/ HangUp(c)
                  \/ Receive(c) \/ ReceiveEnd(c) \/ Link(c) \/ Other(c)
                  \/ LinkCrashes(c) \/ CallBackCrashes(c) \/ BrokenPipe(c)
             \/ UNCHANGED vars
    BY <2>3, OtherwiseUntold, OwnersStay
  <2>4. QED
    BY <2>1, <2>2, <2>3 DEF Next, Thread, Other
<1>2. QED
  BY <1>1, OwnersInit, IInvHolds, PTL DEF Spec, RefinesOwners, Table!Spec
=============================================================================
