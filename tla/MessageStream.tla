----------------------------- MODULE MessageStream -----------------------------
(***************************************************************************)
(* Messages on a TCP connection: msg_create and msg_send of src/message.c  *)
(* write them one after the other, and one of two loops reads them back,   *)
(* the one of hs_process in src/server.c or msg_receive in src/message.c.  *)
(* A write takes any part of what it is given and a read returns any part  *)
(* of what it asks for ("TODO: Read until exact length done") or -1.  All  *)
(* of these lengths are ints, but a payload's has 64 bits.  Bytes are      *)
(* positions in the stream: of a header read anywhere but at the start of  *)
(* a message only this is known, that it may hold anything.                *)
(***************************************************************************)
EXTENDS WireFormat

CONSTANTS
  HeaderSize,   \* MSG_HEADER_SIZE
  WordSize,     \* values of a uint64_t
  Messages,     \* what a peer sends: [ok, type, size], ok for a right prologue
  MaximumSizes, \* config->message_size_max of a server, payload_size_max of a client
  MaxMessages,  \* bound: messages sent on the connection
  MaxBytes,     \* bound: bytes of them
  MaxFailures   \* bound: reads that return -1

ASSUME StreamAssumption ==
  /\ WordSize = Half * Half
  /\ HeaderSize \in Nat \ {0} /\ FitsInt(HeaderSize + MaxFailures)
  /\ MaxMessages \in Nat /\ MaxBytes \in Nat /\ MaxFailures \in Nat
  /\ MaximumSizes \subseteq 0 .. WordSize - 1
  /\ \A m \in Messages : m.ok \in BOOLEAN /\ m.size \in 0 .. WordSize - 1

VARIABLES
  reader,    \* constant: "server" for hs_process, "client" for msg_receive
  maximum,   \* constant: its configured size, of MaximumSizes
  sent,      \* the messages written, where, how many bytes of them, and with
             \* their payload_length as it is sent
  eof,       \* the peer has closed its end
  pos,       \* bytes read so far
  pc,        \* "header", "payload" or "closed"
  left,      \* the int the next read is asked for: bytes_left_to_read
  header,    \* the header received, and the message it is the header of
  got,       \* history: the messages handled or returned
  failures,  \* history: reads that returned -1
  reads      \* history: "whole", "split" payloads, "torn" for anything worse

vars == <<reader, maximum, sent, eof, pos, pc, left, header, got, failures, reads>>

\* A message in the stream is not known for what is read out of step.
Unknown == 0
NoHeader == [msg |-> Unknown, ok |-> TRUE, type |-> "none", size |-> 0]

\* Mutant: hs_server_init does not look at the size.
InitServerUnchecked == reader = "server"

\* hs_server_init refuses a size below the header's.
InitServer == reader = "server" /\ maximum >= HeaderSize

Init ==
  /\ reader \in {"server", "client"}
  /\ maximum \in MaximumSizes
  /\ InitServer \/ reader = "client"
  /\ sent = <<>>
  /\ eof = FALSE
  /\ pos = 0
  /\ pc = "header"
  /\ left = HeaderSize
  /\ header = NoHeader
  /\ got = <<>>
  /\ failures = 0
  /\ reads = "whole"

\* The bytes of message i, from Start(i) up to End(i), as the sender wrote them.
Start(i) == sent[i].start
End(i) == sent[i].start + sent[i].length
Written == IF sent = <<>> THEN 0 ELSE End(Len(sent))

-----------------------------------------------------------------------------
(* The sender: msg_create and msg_send *)

Write(m, length) ==
  /\ ~eof
  /\ Len(sent) < MaxMessages /\ Written + length <= MaxBytes
  /\ sent' = Append(sent, [start |-> Written, length |-> length, ok |-> m.ok,
                           type |-> m.type, size |-> m.size,
                           payload_length |-> htonll(m.size)])
  /\ UNCHANGED <<reader, maximum, eof, pos, pc, left, header, got, failures, reads>>

\* tcp_write is given an int and writes once, some or all of it; with a negative
\* length it fails and nothing has been sent.
msg_send(m) == \E length \in 1 .. AsInt(HeaderSize + m.size) : Write(m, length)

\* Another implementation of the protocol writes all of its message.
PeerSends(m) == Write(m, HeaderSize + m.size)

Close ==
  /\ ~eof
  /\ eof' = TRUE
  /\ UNCHANGED <<reader, maximum, sent, pos, pc, left, header, got, failures, reads>>

-----------------------------------------------------------------------------
(* The receiver *)

\* tcp_read of up to left bytes returns n of them.
tcp_read(n) ==
  /\ n \in 1 .. left
  /\ pos + n <= Written
  /\ pos' = pos + n
  /\ UNCHANGED <<reader, maximum, sent, eof, failures>>

\* What a header read with n bytes now may hold.  The client reads into the start
\* of the header every time, so that only the last read counts.
Decoded(n) ==
  LET here == {i \in 1 .. Len(sent) : Start(i) = pos /\ sent[i].length >= HeaderSize}
  IN  IF n >= HeaderSize /\ here # {}
        THEN {[msg |-> i, ok |-> sent[i].ok, type |-> sent[i].type,
               size |-> ntohll(sent[i].payload_length)] : i \in here}
        ELSE {[msg |-> Unknown, ok |-> m.ok, type |-> m.type, size |-> m.size] :
                m \in Messages}

Limit == IF reader = "server" THEN (maximum - HeaderSize) % WordSize ELSE maximum

\* Mutant: a message that just fits is refused.
RefusedFull(h) ==
  \/ ~h.ok
  \/ reader = "client" /\ h.type = "Error"
  \/ h.size > 0 /\ h.size >= Limit

\* A wrong prologue or too large a payload; msg_receive also gives up on Error and
\* FatalError.  The payload stays in the stream.
Refused(h) ==
  \/ ~h.ok
  \/ reader = "client" /\ h.type = "Error"
  \/ h.size > Limit

Worst(now) == IF reads = "torn" THEN "torn" ELSE now

\* hs_process drops a header that comes in pieces; msg_receive reads on for the rest.
HeaderPiece(n) ==
  /\ pc = "header"
  /\ tcp_read(n)
  /\ n < left
  /\ left' = IF reader = "client" THEN left - n ELSE left
  /\ reads' = "torn"
  /\ UNCHANGED <<pc, header, got>>

\* Mutant: bytes_left_to_read is left as the last message has left it.
HandleKeepsCount(h, own) ==
  /\ got' = Append(got, [msg |-> h.msg, size |-> h.size, own |-> own])
  /\ pc' = "header"
  /\ left' = 0
  /\ header' = NoHeader

\* The message is handled or returned; a payload is its own if it was read where it
\* is in the stream by one read.
Handle(h, own) ==
  /\ got' = Append(got, [msg |-> h.msg, size |-> h.size, own |-> own])
  /\ pc' = "header"
  /\ left' = HeaderSize
  /\ header' = NoHeader

\* Nothing to read: the loop of msg_receive is not entered with a count that is
\* not positive as an int.
NoPayload(h) == h.size = 0 \/ (reader = "client" /\ AsInt(h.size) <= 0)

HeaderComplete ==
  /\ pc = "header"
  /\ tcp_read(left)
  /\ UNCHANGED reads
  /\ \E h \in Decoded(left) :
       \/ /\ Refused(h)
          /\ left' = HeaderSize
          /\ UNCHANGED <<pc, header, got>>
       \/ /\ ~Refused(h) /\ NoPayload(h)
          /\ Handle(h, h.msg # Unknown /\ h.size = 0)
       \/ /\ ~Refused(h) /\ ~NoPayload(h)
          /\ pc' = "payload"
          /\ left' = AsInt(h.size)
          /\ header' = h
          /\ UNCHANGED got

Own(n) ==
  /\ header.msg # Unknown
  /\ pos = Start(header.msg) + HeaderSize
  /\ pos + header.size = End(header.msg)
  /\ n >= header.size

\* Mutant: msg_receive makes do with one read, as hs_process does.
PayloadPieceOnce(n) ==
  /\ pc = "payload"
  /\ tcp_read(n)
  /\ n < left
  /\ reads' = IF reader = "client" THEN Worst("split") ELSE "torn"
  /\ Handle(header, FALSE)

\* hs_process handles the message with what one read has given it; msg_receive
\* reads on for the rest, but always into the start of the payload.
PayloadPiece(n) ==
  /\ pc = "payload"
  /\ tcp_read(n)
  /\ n < left
  /\ IF reader = "client"
       THEN /\ left' = left - n
            /\ reads' = Worst("split")
            /\ UNCHANGED <<pc, header, got>>
       ELSE /\ reads' = "torn"
            /\ Handle(header, FALSE)

PayloadComplete ==
  /\ pc = "payload"
  /\ tcp_read(left)
  /\ UNCHANGED reads
  /\ Handle(header, Own(left))

\* A payload length that is no positive int.  Zero bytes are read as if the stream
\* had ended, as soon as select finds it readable; a negative length, larger than
\* any buffer as a size_t, fails, and the message goes without its payload.
PayloadNarrowed ==
  /\ pc = "payload"
  /\ left <= 0
  /\ pos < Written \/ eof
  /\ IF left = 0 THEN pc' = "closed" /\ UNCHANGED <<left, header, got>>
     ELSE Handle(header, FALSE)
  /\ UNCHANGED <<reader, maximum, sent, eof, pos, failures, reads>>

\* -1 is one byte more to read for msg_receive, where the count may overflow and the
\* loop end or go on; hs_process drops the header, or handles the message without
\* its payload.
ReadFails ==
  /\ pc # "closed"
  /\ failures < MaxFailures
  /\ failures' = failures + 1
  /\ reads' = "torn"
  /\ \/ /\ reader = "client" /\ left > 0
        /\ left' = AsInt(left + 1)
        /\ UNCHANGED <<pc, header, got>>
     \/ /\ reader = "client" => left > 0 /\ ~FitsInt(left + 1)
        /\ pc = "payload"
        /\ Handle(header, FALSE)
     \/ /\ reader = "server" /\ pc = "header"
        /\ UNCHANGED <<pc, left, header, got>>
  /\ UNCHANGED <<reader, maximum, sent, eof, pos>>

\* Mutant: the end of the stream is looked for before headers only.
EndBeforeHeader ==
  /\ pc = "header"
  /\ eof /\ pos = Written
  /\ pc' = "closed"
  /\ UNCHANGED <<reader, maximum, sent, eof, pos, left, header, got, failures, reads>>

\* Mutant: that the peer has closed is looked at before what is left to read.
EndEarly ==
  /\ pc # "closed"
  /\ eof
  /\ pc' = "closed"
  /\ UNCHANGED <<reader, maximum, sent, eof, pos, left, header, got, failures, reads>>

\* The end of the stream: tcp_stop and return, or tcp_disconnect and -1.
EndOfStream ==
  /\ pc # "closed"
  /\ left > 0
  /\ eof /\ pos = Written
  /\ pc' = "closed"
  /\ UNCHANGED <<reader, maximum, sent, eof, pos, left, header, got, failures, reads>>

Receive ==
  \/ \E n \in 1 .. left : HeaderPiece(n) \/ PayloadPiece(n)
  \/ HeaderComplete \/ PayloadComplete \/ PayloadNarrowed \/ EndOfStream

Next == (\E m \in Messages : msg_send(m) \/ PeerSends(m)) \/ Close \/ Receive \/ ReadFails

\* The receiver is scheduled: select reports what has arrived and the end.
Spec == Init /\ [][Next]_vars /\ WF_vars(Receive)
-----------------------------------------------------------------------------
(* Properties *)

TypeOK ==
  /\ reader \in {"server", "client"} /\ maximum \in MaximumSizes
  /\ eof \in BOOLEAN
  /\ pos \in 0 .. Written
  /\ pc \in {"header", "payload", "closed"}
  /\ left \in -Half .. Half /\ (pc = "header" => left > 0)
  /\ header.msg \in 0 .. Len(sent)
  /\ failures \in 0 .. MaxFailures
  /\ reads \in {"whole", "split", "torn"}

\* What the sizes agreed on allow, in plain numbers.
Acceptable(m) ==
  /\ m.ok
  /\ IF reader = "server" THEN m.size = 0 \/ m.size + HeaderSize <= maximum
     ELSE m.type # "Error" /\ m.size <= maximum

\* All of the message has been written, and either loop reads just these bytes: no
\* payload, or one whose length it accepts and an int can hold.
Passes(m) ==
  /\ m.length = HeaderSize + m.size
  /\ m.size = 0 \/ (Acceptable(m) /\ FitsInt(m.size))

\* The reader has met a message that does not pass: what it takes for headers from
\* then on may be bytes of a payload.
OutOfStep == \E i \in 1 .. Len(sent) : Start(i) < pos /\ ~Passes(sent[i])

Received == {i \in 1 .. Len(sent) : End(i) <= pos /\ Acceptable(sent[i])}

\* Until a message does not pass (it was written in part, is refused with a payload,
\* or its payload is longer than an int can say), the messages are taken once each
\* and in order, the refused ones left out: by hs_process if its reads return all
\* they ask for, by msg_receive even if payloads come in pieces; and each has its
\* own payload if they do not.
TakenInOrder ==
  reads # "torn" /\ ~OutOfStep =>
    /\ {got[k].msg : k \in DOMAIN got} = Received
    /\ \A k \in DOMAIN got : \A j \in 1 .. k - 1 : got[j].msg < got[k].msg
    /\ reads = "whole" => \A k \in DOMAIN got : got[k].own

\* However the stream is read, in step or out of step, hs_process handles no
\* payload beyond the configured size of a message.
WithinMaximum ==
  reader = "server" =>
    \A k \in DOMAIN got : got[k].size > 0 => got[k].size + HeaderSize <= maximum

\* A payload length is on the wire in network byte order.
NetworkOrder ==
  \A i \in DOMAIN sent : InNetworkOrder(sent[i].payload_length, sent[i].size)

\* Each acceptable message is taken in the end, as long as the reads return all
\* they ask for and no message has been met that does not pass.
EachTaken ==
  \A i \in 1 .. MaxMessages :
    (i <= Len(sent) /\ Acceptable(sent[i]))
      ~> (i \in {got[k].msg : k \in DOMAIN got} \/ reads # "whole" \/ OutOfStep)

\* When the peer has closed its end, the receiver closes its own, however the
\* stream has been read and wherever in a message it ends.
StreamEnds == eof ~> pc = "closed"

-----------------------------------------------------------------------------
(***************************************************************************)
(* Refinement of MessageQueue: a message is taken with the last byte of it *)
(* that is read, and refused with the last one of its header.              *)
(***************************************************************************)
Kind(m) ==
  IF ~Passes(m) THEN "harmful" ELSE IF Acceptable(m) THEN "wanted" ELSE "skipped"

queueBar == [i \in DOMAIN sent |-> Kind(sent[i])]
takenBar == [k \in DOMAIN got |-> got[k].msg]
placeBar == IF reads = "torn" THEN "torn" ELSE IF OutOfStep THEN "lost" ELSE "kept"
endedBar == pc = "closed"

Queue == INSTANCE MessageQueue
  WITH queue <- queueBar, taken <- takenBar, place <- placeBar, ended <- endedBar

\* Both loops implement MessageQueue step by step: a reader in its place takes the
\* oldest message it wants, only a torn read or a message that does not pass costs
\* it its place, and it never gives back or reorders what it has taken.
RefinesQueue == Queue!Spec
=============================================================================
