-------------------------- MODULE MessageStreamProofs --------------------------
(***************************************************************************)
(* Theorems about MessageStream, for every base of bytes, header size, set *)
(* of messages and maximum, and any number of messages sent.               *)
(*                                                                         *)
(* First the byte order conversions, by digits: htonll and ntohll undo     *)
(* each other and put the most significant byte first.  Then the reader:   *)
(* as long as no read has come short of a header and every message met     *)
(* passes, it stands at the start of a message, or within the payload of   *)
(* the one whose header it has, with exactly the bytes left up to its end. *)
(* Last the refinement of MessageQueue: where the reader stands says which *)
(* message is due.                                                         *)
(***************************************************************************)
EXTENDS MessageStream, SequenceTheorems, TLAPS

-----------------------------------------------------------------------------
(* The byte order conversions *)

\* A number written with one digit more: dividing gives back the digits.
LEMMA Digit ==
  ASSUME NEW B \in Nat \ {0}, NEW q \in Nat, NEW r \in 0 .. B - 1
  PROVE  (q * B + r) % B = r /\ (q * B + r) \div B = q
<1> DEFINE x == q * B + r
           d == x \div B
           m == x % B
<1>1. x \in Nat OBVIOUS
<1>2. d \in Nat /\ m \in 0 .. B - 1 /\ x = B * d + m BY <1>1
<1> HIDE DEF d, m
<1>3. ~(d < q)
  <2> SUFFICES ASSUME d < q PROVE FALSE OBVIOUS
  <2>1. B * (q - d) >= B BY <1>2
  <2> QED BY <2>1, <1>2
<1>4. ~(q < d)
  <2> SUFFICES ASSUME q < d PROVE FALSE OBVIOUS
  <2>1. B * (d - q) >= B BY <1>2
  <2> QED BY <2>1, <1>2
<1>5. d = q BY <1>3, <1>4, <1>2
<1> QED BY <1>5, <1>2 DEF d, m

\* Quotient and remainder make up the number.
LEMMA Split ==
  ASSUME NEW B \in Nat \ {0}, NEW x \in Nat
  PROVE  x % B \in 0 .. B - 1 /\ x \div B \in Nat /\ x = (x \div B) * B + (x % B)
OBVIOUS

\* Dividing by the base takes one digit off.
LEMMA SplitBound ==
  ASSUME NEW B \in Nat \ {0}, NEW C \in Nat \ {0}, NEW x \in 0 .. C * B - 1
  PROVE  x \div B \in 0 .. C - 1
<1>1. x \div B \in Nat /\ x = (x \div B) * B + (x % B) /\ x % B \in 0 .. B - 1 BY Split
<1>2. ~(x \div B >= C)
  <2> SUFFICES ASSUME x \div B >= C PROVE FALSE OBVIOUS
  <2> DEFINE d == x \div B
  <2>1. d \in Nat /\ x = d * B + (x % B) /\ d >= C /\ x % B \in Nat BY <1>1
  <2> HIDE DEF d
  <2>2. d * B >= C * B
    <3>1. d = C + (d - C) /\ (d - C) \in Nat BY <2>1
    <3>2. (d - C) * B \in Nat BY <3>1
    <3>3. d * B = C * B + (d - C) * B BY <3>1
    <3> QED BY <3>2, <3>3, <2>1
  <2> QED BY <2>1, <2>2
<1> QED BY <1>1, <1>2

\* The values of a byte.
Digits == 0 .. Base - 1

\* The constants of WireFormat are positive.
LEMMA HalfValues == Half \in Nat \ {0} /\ Base \in Nat \ {0, 1}
<1>1. Base \in Nat \ {0, 1} BY WireAssumption
<1>2. Base * Base \in Nat \ {0} BY <1>1
<1>3. Base * Base * Base \in Nat \ {0} BY <1>1, <1>2
<1> QED BY <1>1, <1>3 DEF Half

\* Appending a digit to a number of the right size.
LEMMA Horner ==
  ASSUME NEW C \in Nat \ {0}, NEW q \in 0 .. C - 1, NEW r \in Digits
  PROVE  q * Base + r \in 0 .. C * Base - 1
<1>1. Base \in Nat \ {0} /\ r \in 0 .. Base - 1 BY WireAssumption DEF Digits
<1>2. (C - 1 - q) * Base \in Nat BY <1>1
<1>3. C * Base = q * Base + (C - 1 - q) * Base + Base BY <1>1
<1>4. q * Base \in Nat /\ C * Base \in Nat BY <1>1
<1>5. q * Base + r <= C * Base - 1 BY <1>1, <1>2, <1>3, <1>4
<1> QED BY <1>5, <1>4, <1>1

\* A half is the value of its four bytes.
LEMMA BytesOfHalf ==
  ASSUME NEW x \in 0 .. Half - 1
  PROVE  /\ Bytes(x) \in Digits \X Digits \X Digits \X Digits
         /\ Value(Bytes(x)) = x
<1> DEFINE y == x \div Base
           z == y \div Base
           w == z \div Base
<1>1. /\ Base \in Nat \ {0} /\ Base * Base \in Nat \ {0} /\ Base * Base * Base \in Nat \ {0}
      /\ x \in Nat /\ x \in 0 .. (Base * Base * Base) * Base - 1
  BY HalfValues DEF Half
<1>2. /\ x % Base \in Digits /\ y \in 0 .. Base * Base * Base - 1
      /\ x = y * Base + (x % Base)
  <2>1. y \in 0 .. Base * Base * Base - 1
    <3> DEFINE C == Base * Base * Base
    <3>1. C \in Nat \ {0} /\ x \in 0 .. C * Base - 1 /\ Base \in Nat \ {0} BY <1>1
    <3> HIDE DEF C
    <3>2. x \div Base \in 0 .. C - 1 BY <3>1, SplitBound
    <3> QED BY <3>2 DEF C
  <2> QED BY <2>1, <1>1, Split DEF Digits
<1>3. /\ y % Base \in Digits /\ z \in 0 .. Base * Base - 1
      /\ y = z * Base + (y % Base)
  <2> HIDE DEF y
  <2>1. z \in 0 .. Base * Base - 1
    <3> DEFINE C == Base * Base
    <3>1. C \in Nat \ {0} /\ y \in 0 .. C * Base - 1 /\ Base \in Nat \ {0} BY <1>1, <1>2
    <3> HIDE DEF C
    <3>2. y \div Base \in 0 .. C - 1 BY <3>1, SplitBound
    <3> QED BY <3>2 DEF C
  <2>2. y \in Nat BY <1>2, <1>1
  <2> QED BY <2>1, <2>2, <1>1, Split DEF Digits
<1>4. /\ z % Base \in Digits /\ w \in 0 .. Base - 1
      /\ z = w * Base + (z % Base)
  <2> HIDE DEF y, z
  <2>1. w \in 0 .. Base - 1
    <3>1. z \in 0 .. Base * Base - 1 /\ Base \in Nat \ {0} BY <1>1, <1>3
    <3> QED BY <3>1, SplitBound
  <2>2. z \in Nat BY <1>3, <1>1
  <2> QED BY <2>1, <2>2, <1>1, Split DEF Digits
<1>5. w % Base = w /\ w \in Digits
  <2> HIDE DEF w
  <2> QED BY <1>1, <1>4 DEF Digits
<1>6. Bytes(x) = <<x % Base, y % Base, z % Base, w>>
  BY <1>5 DEF Bytes, Low, Rest
<1>7. Value(Bytes(x)) = ((w * Base + (z % Base)) * Base + (y % Base)) * Base + (x % Base)
  BY <1>6 DEF Value
<1> QED BY <1>2, <1>3, <1>4, <1>5, <1>6, <1>7

\* Four bytes are those of their value.
LEMMA HalfOfBytes ==
  ASSUME NEW a \in Digits, NEW b \in Digits, NEW c \in Digits, NEW d \in Digits
  PROVE  /\ Value(<<a, b, c, d>>) \in 0 .. Half - 1
         /\ Bytes(Value(<<a, b, c, d>>)) = <<a, b, c, d>>
<1> DEFINE z == d * Base + c
           y == z * Base + b
           x == y * Base + a
<1>1. /\ Base \in Nat \ {0} /\ Base * Base \in Nat \ {0} /\ Base * Base * Base \in Nat \ {0}
      /\ a \in 0 .. Base - 1 /\ b \in 0 .. Base - 1 /\ c \in 0 .. Base - 1 /\ d \in 0 .. Base - 1
  BY HalfValues DEF Digits
<1>2. z \in 0 .. Base * Base - 1 BY <1>1, Horner
<1>3. y \in 0 .. Base * Base * Base - 1
  <2> HIDE DEF z
  <2> DEFINE C == Base * Base
  <2>1. C \in Nat \ {0} /\ z \in 0 .. C - 1 BY <1>1, <1>2
  <2> HIDE DEF C
  <2>2. z * Base + b \in 0 .. C * Base - 1 BY <2>1, Horner
  <2> QED BY <2>2 DEF C
<1>4. x \in 0 .. Half - 1
  <2> HIDE DEF y
  <2> DEFINE C == Base * Base * Base
  <2>1. C \in Nat \ {0} /\ y \in 0 .. C - 1 BY <1>1, <1>3
  <2> HIDE DEF C
  <2>2. y * Base + a \in 0 .. C * Base - 1 BY <2>1, Horner
  <2> QED BY <2>2 DEF C, Half
<1>5. x % Base = a /\ x \div Base = y
  <2> HIDE DEF y
  <2>1. y \in Nat BY <1>3, <1>1
  <2> QED BY <2>1, <1>1, Digit
<1>6. y % Base = b /\ y \div Base = z
  <2> HIDE DEF z
  <2>1. z \in Nat BY <1>2, <1>1
  <2> QED BY <2>1, <1>1, Digit
<1>7. z % Base = c /\ z \div Base = d
  <2>1. d \in Nat BY <1>1
  <2> QED BY <2>1, <1>1, Digit
<1>8. d % Base = d BY <1>1
<1>9. Value(<<a, b, c, d>>) = x BY DEF Value
<1> HIDE DEF x, y, z
<1> QED BY <1>4, <1>5, <1>6, <1>7, <1>8, <1>9 DEF Bytes, Low, Rest

\* htonl reverses the bytes of a half, and undoes itself.
LEMMA htonlReverses ==
  ASSUME NEW x \in 0 .. Half - 1
  PROVE  /\ htonl(x) \in 0 .. Half - 1
         /\ Bytes(htonl(x)) = <<Bytes(x)[4], Bytes(x)[3], Bytes(x)[2], Bytes(x)[1]>>
         /\ htonl(htonl(x)) = x
<1> DEFINE b == Bytes(x)
           r == <<b[4], b[3], b[2], b[1]>>
<1>1. b \in Digits \X Digits \X Digits \X Digits /\ Value(b) = x BY BytesOfHalf
<1> HIDE DEF b
<1>2. /\ b[1] \in Digits /\ b[2] \in Digits /\ b[3] \in Digits /\ b[4] \in Digits
      /\ b = <<b[1], b[2], b[3], b[4]>>
  BY <1>1
<1>3. Value(r) \in 0 .. Half - 1 /\ Bytes(Value(r)) = r BY <1>2, HalfOfBytes
<1>4. htonl(x) = Value(r) BY DEF htonl, b
<1>5. Bytes(htonl(x)) = r BY <1>3, <1>4
<1>6. htonl(htonl(x)) = Value(<<r[4], r[3], r[2], r[1]>>) BY <1>5 DEF htonl
<1>7. <<r[4], r[3], r[2], r[1]>> = b BY <1>2
<1> QED BY <1>1, <1>3, <1>4, <1>5, <1>6, <1>7 DEF b

\* A word is made of two halves.
LEMMA Halves ==
  ASSUME NEW x \in 0 .. Half * Half - 1
  PROVE  /\ x % Half \in 0 .. Half - 1 /\ x \div Half \in 0 .. Half - 1
         /\ x = (x \div Half) * Half + (x % Half)
<1>1. Half \in Nat \ {0} BY HalfValues
<1>2. x \in Nat /\ Half * Half \in Nat BY <1>1
<1> HIDE DEF Half
<1>3. x \div Half \in 0 .. Half - 1 BY <1>1, SplitBound
<1> QED BY <1>1, <1>2, <1>3, Split

\* htonll (message.h:42) swaps the halves and converts each.
LEMMA htonllHalfway ==
  ASSUME NEW x \in 0 .. Half * Half - 1
  PROVE  /\ htonll(x) % Half = htonl(x \div Half)
         /\ htonll(x) \div Half = htonl(x % Half)
<1>1. /\ Half \in Nat \ {0}
      /\ htonl(x % Half) \in 0 .. Half - 1 /\ htonl(x \div Half) \in 0 .. Half - 1
  BY HalfValues, Halves, htonlReverses
<1>2. htonl(x % Half) \in Nat BY <1>1
<1> QED BY <1>1, <1>2, Digit DEF htonll

\* What msg_create converts with htonll the receiver gets back with ntohll, for
\* every 64-bit length.
LEMMA RoundTrip ==
  ASSUME NEW x \in 0 .. Half * Half - 1
  PROVE  ntohll(htonll(x)) = x
<1>1. htonl(htonl(x % Half)) = x % Half /\ htonl(htonl(x \div Half)) = x \div Half
  BY Halves, htonlReverses
<1> QED BY <1>1, htonllHalfway, Halves DEF ntohll

\* htonll puts the most significant byte first, for every 64-bit length.
LEMMA OnTheWire ==
  ASSUME NEW x \in 0 .. Half * Half - 1
  PROVE  InNetworkOrder(htonll(x), x)
<1> DEFINE l == Bytes(x % Half)
           h == Bytes(x \div Half)
<1>1. /\ Bytes(htonl(x % Half)) = <<l[4], l[3], l[2], l[1]>>
      /\ Bytes(htonl(x \div Half)) = <<h[4], h[3], h[2], h[1]>>
  BY Halves, htonlReverses
<1>2. l \in Digits \X Digits \X Digits \X Digits /\ h \in Digits \X Digits \X Digits \X Digits
  BY Halves, BytesOfHalf
<1> HIDE DEF l, h
<1>3. l = <<l[1], l[2], l[3], l[4]>> /\ h = <<h[1], h[2], h[3], h[4]>> BY <1>2
<1> DEFINE L == <<l[1], l[2], l[3], l[4]>>
           H == <<h[1], h[2], h[3], h[4]>>
           rL == <<l[4], l[3], l[2], l[1]>>
           rH == <<h[4], h[3], h[2], h[1]>>
<1>4. Memory(x) = L \o H BY <1>3 DEF Memory, l, h
<1>5. Memory(htonll(x)) = rH \o rL BY <1>1, htonllHalfway DEF Memory
<1>6. /\ L \in Seq(Digits) /\ H \in Seq(Digits) /\ rL \in Seq(Digits) /\ rH \in Seq(Digits)
      /\ Len(L) = 4 /\ Len(H) = 4 /\ Len(rL) = 4 /\ Len(rH) = 4
  BY <1>2
<1>7. ASSUME NEW s \in Seq(Digits), NEW t \in Seq(Digits), Len(s) = 4, Len(t) = 4,
             NEW i \in 1 .. 8
      PROVE  (s \o t)[i] = IF i <= 4 THEN s[i] ELSE t[i - 4]
  <2>1. i \in 1 .. Len(s) + Len(t) BY <1>7
  <2>2. \A j \in 1 .. Len(s) + Len(t) :
          (s \o t)[j] = IF j <= Len(s) THEN s[j] ELSE t[j - Len(s)]
    BY ConcatProperties, Zenon
  <2>3. (s \o t)[i] = IF i <= Len(s) THEN s[i] ELSE t[i - Len(s)] BY <2>1, <2>2, Zenon
  <2> QED BY <2>3, <1>7, Zenon
<1>8. ASSUME NEW i \in 1 .. 8
      PROVE  /\ Memory(x)[i] = IF i <= 4 THEN L[i] ELSE H[i - 4]
             /\ Memory(htonll(x))[i] = IF i <= 4 THEN rH[i] ELSE rL[i - 4]
  <2> HIDE DEF L, H, rL, rH
  <2>1. (L \o H)[i] = IF i <= 4 THEN L[i] ELSE H[i - 4] BY <1>6, <1>7
  <2>2. (rH \o rL)[i] = IF i <= 4 THEN rH[i] ELSE rL[i - 4] BY <1>6, <1>7
  <2> QED BY <1>4, <1>5, <2>1, <2>2
<1>9. 1 .. 8 = {1, 2, 3, 4, 5, 6, 7, 8} OBVIOUS
<1> QED BY <1>8, <1>9 DEF InNetworkOrder

\* A length put into an int is an int, and itself if it fits.
LEMMA Narrowing ==
  \A x \in Nat : /\ AsInt(x) \in Int /\ -Half <= AsInt(x) /\ AsInt(x) <= Half
                 /\ FitsInt(x) => AsInt(x) = x
<1> SUFFICES ASSUME NEW x \in Nat
             PROVE  /\ AsInt(x) \in Int /\ -Half <= AsInt(x) /\ AsInt(x) <= Half
                    /\ FitsInt(x) => AsInt(x) = x
  OBVIOUS
<1> DEFINE r == x % Half
<1>1. Half \in Nat \ {0} BY HalfValues
<1>2. r \in 0 .. Half - 1 BY <1>1
<1>3. FitsInt(x) => r = x
  <2> SUFFICES ASSUME FitsInt(x) PROVE r = x OBVIOUS
  <2>1. x \in 0 .. Half - 1 BY <1>1 DEF FitsInt
  <2> QED BY <1>1, <2>1
<1>4. AsInt(x) = IF 2 * r < Half THEN r ELSE r - Half BY DEF AsInt
<1> HIDE DEF r
<1>5. FitsInt(x) => 2 * r < Half BY <1>3 DEF FitsInt
<1> QED BY <1>1, <1>2, <1>3, <1>4, <1>5

-----------------------------------------------------------------------------
(* The inductive invariant *)

Types == {m.type : m \in Messages} \cup {"none"}
Headers == [msg : Nat, ok : BOOLEAN, type : Types, size : 0 .. WordSize - 1]
Sent == [start : Nat, length : Nat \ {0}, ok : BOOLEAN, type : Types, size : 0 .. WordSize - 1, payload_length : Int]
Gotten == [msg : Nat, size : Nat, own : BOOLEAN]

\* The messages lie one behind the other in the stream.
SentInv ==
  /\ sent \in Seq(Sent)
  /\ \A i \in 1 .. Len(sent) : sent[i].payload_length = htonll(sent[i].size)
  /\ \A i \in 1 .. Len(sent) : End(i) <= Written
  /\ \A i, j \in 1 .. Len(sent) : i < j => End(i) <= Start(j)
  /\ \A i \in 1 .. Len(sent) : i + 1 \in 1 .. Len(sent) => Start(i + 1) = End(i)

\* The types, with what the arithmetic needs of them.
TypeInv ==
  /\ reader \in {"server", "client"} /\ maximum \in MaximumSizes
  /\ eof \in BOOLEAN
  /\ pos \in Nat /\ pos <= Written
  /\ pc \in {"header", "payload", "closed"}
  /\ header \in Headers /\ header.msg <= Len(sent)
  /\ got \in Seq(Gotten)
  /\ failures \in 0 .. MaxFailures
  /\ left \in Int /\ -Half <= left /\ left <= Half
  /\ pc = "header" => left \in 1 .. HeaderSize + failures
  /\ reads \in {"whole", "split", "torn"}

\* A payload that is being read has passed the check of its size.
SizeInv ==
  reader = "server" =>
    /\ maximum >= HeaderSize
    /\ pc = "payload" => header.size + HeaderSize <= maximum

\* Between two messages the next byte is the first of a message or not sent yet.
Boundary == pos = Written \/ \E i \in 1 .. Len(sent) : Start(i) = pos

\* Within a payload the bytes left are those up to the end of its message.
Inside ==
  /\ header.msg \in 1 .. Len(sent)
  /\ header.size = sent[header.msg].size
  /\ Acceptable(sent[header.msg]) /\ Passes(sent[header.msg])
  /\ pos + left = End(header.msg)
  /\ left \in 1 .. header.size
  /\ reads = "whole" => left = header.size

\* TakenInOrder, for a reader that is in step.
Taken ==
  /\ {got[k].msg : k \in DOMAIN got} = Received
  /\ \A k \in DOMAIN got : \A j \in 1 .. k - 1 : got[j].msg < got[k].msg
  /\ reads = "whole" => \A k \in DOMAIN got : got[k].own

Step == reads # "torn" /\ ~OutOfStep

\* In step, the reader knows where in the stream it is.
PlaceInv ==
  Step => /\ pc = "header" => left = HeaderSize /\ Boundary
          /\ pc = "payload" => Inside
          /\ Taken

\* The inductive invariant.
IInv == SentInv /\ TypeInv /\ SizeInv /\ WithinMaximum /\ PlaceInv

\* The constants of MessageStream.
LEMMA Numbers ==
  /\ WordSize \in Nat \ {0} /\ HeaderSize \in Nat /\ HeaderSize >= 1
  /\ MaxMessages \in Nat /\ MaxBytes \in Nat /\ MaxFailures \in Nat
  /\ Half \in Nat /\ 2 * (HeaderSize + MaxFailures) < Half
  /\ MaximumSizes \subseteq 0 .. WordSize - 1
  /\ \A m \in Messages : m.ok \in BOOLEAN /\ m.type \in Types /\ m.size \in 0 .. WordSize - 1
<1>1. Half \in Nat /\ Half >= 1 BY HalfValues
<1>2. WordSize \in Nat \ {0} BY <1>1, StreamAssumption
<1>3. \A m \in Messages : m.type \in Types BY DEF Types
<1>4. 2 * (HeaderSize + MaxFailures) < Half BY StreamAssumption DEF FitsInt
<1> QED BY <1>1, <1>2, <1>3, <1>4, StreamAssumption

\* The bytes left of a header are in the range of left.
LEMMA RoomForHeader ==
  \A f \in 0 .. MaxFailures :
    /\ \A l \in 1 .. HeaderSize + f : l \in Int /\ -Half <= l /\ l <= Half
    /\ HeaderSize \in 1 .. HeaderSize + f
BY Numbers

\* The conversions of payload lengths.
LEMMA Conversions ==
  \A x \in 0 .. WordSize - 1 :
    /\ htonll(x) \in Int
    /\ ntohll(htonll(x)) = x
    /\ InNetworkOrder(htonll(x), x)
<1> SUFFICES ASSUME NEW x \in 0 .. WordSize - 1
             PROVE  htonll(x) \in Int /\ ntohll(htonll(x)) = x /\ InNetworkOrder(htonll(x), x)
  OBVIOUS
<1>1. x \in 0 .. Half * Half - 1 BY StreamAssumption
<1>2. htonll(x) \in Int
  <2>1. /\ Half \in Int
        /\ htonl(x % Half) \in 0 .. Half - 1 /\ htonl(x \div Half) \in 0 .. Half - 1
    BY <1>1, HalfValues, Halves, htonlReverses
  <2>2. htonl(x % Half) \in Int /\ htonl(x \div Half) \in Int BY <2>1
  <2> QED BY <2>1, <2>2 DEF htonll
<1> QED BY <1>1, <1>2, RoundTrip, OnTheWire

\* What follows of the messages from SentInv, as a formula of its own.
SentFacts ==
  /\ Len(sent) \in Nat /\ Written \in Nat
  /\ \A i \in 1 .. Len(sent) :
       /\ sent[i] \in Sent /\ sent[i].size \in 0 .. WordSize - 1
       /\ sent[i].size \in Nat /\ sent[i].ok \in BOOLEAN
       /\ Start(i) \in Nat /\ End(i) \in Nat /\ Start(i) < End(i)
       /\ Passes(sent[i]) => End(i) = Start(i) + HeaderSize + sent[i].size

\* What SentInv says of the messages in the stream.
LEMMA FieldsTyped == SentInv => SentFacts
<1> SUFFICES ASSUME SentInv PROVE SentFacts OBVIOUS
<1>1. Len(sent) \in Nat /\ \A i \in 1 .. Len(sent) : sent[i] \in Sent BY DEF SentInv
<1>2. ASSUME NEW i \in 1 .. Len(sent)
      PROVE  /\ sent[i].size \in 0 .. WordSize - 1
             /\ sent[i].size \in Nat /\ sent[i].ok \in BOOLEAN
             /\ Start(i) \in Nat /\ End(i) \in Nat /\ Start(i) < End(i)
             /\ Passes(sent[i]) => End(i) = Start(i) + HeaderSize + sent[i].size
  <2>1. /\ sent[i].size \in 0 .. WordSize - 1 /\ sent[i].size \in Nat
        /\ sent[i].ok \in BOOLEAN
        /\ sent[i].start \in Nat /\ sent[i].length \in Nat \ {0}
    BY <1>1, Numbers DEF Sent
  <2>2. Start(i) \in Nat /\ End(i) \in Nat /\ Start(i) < End(i) BY <2>1 DEF Start, End
  <2>3. Passes(sent[i]) => End(i) = Start(i) + HeaderSize + sent[i].size
    BY <2>1, Numbers DEF Start, End, Passes
  <2> QED BY <2>1, <2>2, <2>3
<1>3. Written \in Nat
  <2>1. CASE sent = <<>> BY <2>1 DEF Written
  <2>2. CASE sent # <<>>
    <3>1. sent \in Seq(Sent) BY DEF SentInv
    <3>2. Len(sent) # 0 BY <2>2, <3>1
    <3>3. Len(sent) \in 1 .. Len(sent) BY <3>2, <1>1
    <3> QED BY <2>2, <3>3, <1>2 DEF Written
  <2> QED BY <2>1, <2>2
<1> QED BY <1>1, <1>2, <1>3 DEF SentFacts

\* The same, for use where SentInv is assumed.
LEMMA Fields ==
  ASSUME SentInv
  PROVE  /\ Len(sent) \in Nat /\ Written \in Nat
         /\ \A i \in 1 .. Len(sent) :
              /\ sent[i] \in Sent /\ sent[i].size \in 0 .. WordSize - 1
              /\ sent[i].size \in Nat /\ sent[i].ok \in BOOLEAN
              /\ Start(i) \in Nat /\ End(i) \in Nat /\ Start(i) < End(i)
              /\ Passes(sent[i]) => End(i) = Start(i) + HeaderSize + sent[i].size
BY FieldsTyped DEF SentFacts

\* What starts where the reader is has not been read, what starts before has.
LEMMA Ordered ==
  ASSUME SentInv, NEW i \in 1 .. Len(sent), NEW j \in 1 .. Len(sent)
  PROVE  /\ i < j => End(i) <= Start(j) /\ Start(i) < Start(j) /\ End(i) < End(j)
         /\ Start(i) = Start(j) => i = j
<1>1. /\ i \in Nat /\ j \in Nat
      /\ Start(i) \in Nat /\ Start(j) \in Nat /\ End(i) \in Nat /\ End(j) \in Nat
      /\ Start(i) < End(i) /\ Start(j) < End(j)
  BY Fields
<1>2. (i < j => End(i) <= Start(j)) /\ (j < i => End(j) <= Start(i)) BY DEF SentInv
<1>4. i < j => Start(i) < Start(j) /\ End(i) < End(j) BY <1>1, <1>2
<1>5. j < i => Start(j) < Start(i) BY <1>1, <1>2
<1>6. i < j \/ j < i \/ i = j BY <1>1
<1>7. Start(i) = Start(j) => i = j BY <1>1, <1>4, <1>5, <1>6
<1> QED BY <1>2, <1>4, <1>7

\* Behind a message the next one starts, or nothing has been written.
LEMMA NextBoundary ==
  ASSUME SentInv, NEW i \in 1 .. Len(sent)
  PROVE  End(i) = Written \/ \E j \in 1 .. Len(sent) : Start(j) = End(i)
<1>1. Len(sent) \in Nat BY Fields
<1>2. CASE i = Len(sent)
  <2>1. sent # <<>> BY <1>2
  <2> QED BY <1>2, <2>1 DEF Written
<1>3. CASE i # Len(sent)
  <2>1. i + 1 \in 1 .. Len(sent) BY <1>1, <1>3
  <2>2. Start(i + 1) = End(i) BY <2>1 DEF SentInv
  <2> QED BY <2>1, <2>2
<1> QED BY <1>2, <1>3

\* The type of an empty header.
LEMMA NoHeaderTyped == NoHeader \in Headers /\ NoHeader.msg = 0
<1>1. 0 \in 0 .. WordSize - 1 /\ 0 \in Nat BY Numbers
<1>2. NoHeader = [msg |-> 0, ok |-> TRUE, type |-> "none", size |-> 0]
  BY DEF NoHeader, Unknown
<1>3. NoHeader.msg = 0 BY <1>2
<1>4. "none" \in Types BY DEF Types
<1>5. TRUE \in BOOLEAN OBVIOUS
<1>6. NoHeader \in Headers BY <1>1, <1>2, <1>4, <1>5, Zenon DEF Headers
<1> QED BY <1>3, <1>6

\* The invariant holds when the connection is set up.
LEMMA InitHolds == Init => IInv
<1> SUFFICES ASSUME Init PROVE IInv OBVIOUS
<1>1. sent = <<>> /\ got = <<>> /\ Len(sent) = 0 BY DEF Init
<1>2. Written = 0 BY <1>1 DEF Written
<1>3. SentInv BY <1>1 DEF SentInv
<1>4. TypeInv
  <2>1. header \in Headers /\ header.msg <= Len(sent)
    <3>1. header = NoHeader BY DEF Init
    <3> QED BY <3>1, <1>1, NoHeaderTyped
  <2>2. /\ failures \in 0 .. MaxFailures /\ left \in 1 .. HeaderSize + failures
        /\ left \in Int /\ -Half <= left /\ left <= Half
    BY Numbers DEF Init
  <2>3. got \in Seq(Gotten) BY <1>1
  <2>4. pos \in Nat /\ pos <= Written BY <1>2 DEF Init
  <2> QED BY <2>1, <2>2, <2>3, <2>4 DEF Init, TypeInv
<1>5. SizeInv BY DEF Init, InitServer, SizeInv
<1>6. WithinMaximum BY <1>1 DEF WithinMaximum
<1>7. PlaceInv
  <2>1. Boundary BY <1>2 DEF Init, Boundary
  <2>2. Taken
    <3>1. Received = {} BY <1>1 DEF Received
    <3>2. DOMAIN got = {} BY <1>1
    <3> QED BY <3>1, <3>2 DEF Taken
  <2> QED BY <2>1, <2>2 DEF PlaceInv, Init
<1> QED BY <1>3, <1>4, <1>5, <1>6, <1>7 DEF IInv

-----------------------------------------------------------------------------
(* The sender *)

\* A message that is sent has at least one byte on the wire.
LEMMA Sends ==
  ASSUME NEW m \in Messages, msg_send(m) \/ PeerSends(m)
  PROVE  \E length \in Nat \ {0} : Write(m, length)
<1>1. m.size \in Nat /\ HeaderSize \in Nat /\ HeaderSize >= 1 BY Numbers
<1>2. CASE msg_send(m)
  <2>1. AsInt(HeaderSize + m.size) \in Int BY <1>1, Narrowing
  <2>2. PICK length \in 1 .. AsInt(HeaderSize + m.size) : Write(m, length)
    BY <1>2 DEF msg_send
  <2>3. length \in Nat \ {0} BY <2>1
  <2> QED BY <2>2, <2>3
<1>3. CASE PeerSends(m)
  <2>1. HeaderSize + m.size \in Nat \ {0} BY <1>1
  <2> QED BY <1>3, <2>1 DEF PeerSends
<1> QED BY <1>2, <1>3

\* Write puts a message behind the others.
LEMMA WriteSent ==
  ASSUME SentInv, NEW m \in Messages, NEW length \in Nat \ {0}, Write(m, length)
  PROVE  /\ SentInv'
         /\ Len(sent') = Len(sent) + 1
         /\ \A i \in 1 .. Len(sent) : sent'[i] = sent[i] /\ Start(i)' = Start(i) /\ End(i)' = End(i)
         /\ sent'[Len(sent) + 1].start = Written
         /\ Written' > Written
<1> DEFINE n == Len(sent) + 1
           new == [start |-> Written, length |-> length, ok |-> m.ok, type |-> m.type,
                   size |-> m.size, payload_length |-> htonll(m.size)]
<1>1. sent \in Seq(Sent) /\ Len(sent) \in Nat /\ Written \in Nat BY Fields DEF SentInv
<1>2. sent' = Append(sent, new) BY DEF Write
<1>3. m.ok \in BOOLEAN /\ m.type \in Types /\ m.size \in 0 .. WordSize - 1 BY Numbers
<1>4. new \in Sent /\ htonll(m.size) \in Int
  <2>1. m.size \in 0 .. WordSize - 1 BY <1>3
  <2>2. htonll(m.size) \in Int BY <2>1, Conversions
  <2> QED BY <1>1, <1>3, <2>2 DEF Sent
<1> HIDE DEF new
<1>5. /\ sent' \in Seq(Sent) /\ Len(sent') = n /\ sent'[n] = new
      /\ \A i \in 1 .. Len(sent) : sent'[i] = sent[i]
  BY <1>1, <1>2, <1>4
<1>6. \A i \in 1 .. Len(sent) : Start(i)' = Start(i) /\ End(i)' = End(i)
  BY <1>5 DEF Start, End
<1>7. /\ new.start = Written /\ new.length = length /\ new.size = m.size
      /\ new.payload_length = htonll(new.size)
  BY DEF new
<1>8. ASSUME NEW k \in 1 .. Len(sent'), k = n
      PROVE  Start(k)' = Written /\ End(k)' = Written + length
  BY <1>5, <1>7, <1>8 DEF Start, End
<1>9. Written' = Written + length
  <2>1. sent' # <<>> BY <1>5, <1>1
  <2>2. Written' = sent'[n].start + sent'[n].length
    BY <2>1, <1>5 DEF Written, End
  <2> QED BY <2>2, <1>5, <1>7
<1>10. length \in Nat /\ length >= 1 OBVIOUS
<1>11. 1 .. Len(sent') = 1 .. Len(sent) \cup {n} BY <1>5, <1>1
<1>12. \A i \in 1 .. Len(sent) :
         End(i) \in Nat /\ End(i) <= Written
  BY Fields DEF SentInv
<1>13. SentInv'
  <2>1. \A i \in 1 .. Len(sent') : sent'[i].payload_length = htonll(sent'[i].size)
    BY <1>5, <1>7, <1>11 DEF SentInv
  <2>2. \A i \in 1 .. Len(sent') : End(i)' <= Written'
    <3> SUFFICES ASSUME NEW i \in 1 .. Len(sent') PROVE End(i)' <= Written'
      BY DEF End
    <3>1. CASE i = n BY <3>1, <1>1, <1>8, <1>9, <1>10
    <3>2. CASE i \in 1 .. Len(sent) BY <3>2, <1>1, <1>6, <1>9, <1>10, <1>12
    <3> QED BY <3>1, <3>2, <1>11
  <2>3. ASSUME NEW i \in 1 .. Len(sent'), NEW j \in 1 .. Len(sent'), i < j
        PROVE  End(i)' <= Start(j)'
    <3>1. i \in 1 .. Len(sent) BY <2>3, <1>1, <1>5
    <3>2. CASE j = n BY <3>1, <3>2, <1>6, <1>8, <1>12
    <3>3. CASE j \in 1 .. Len(sent) BY <2>3, <3>1, <3>3, <1>6 DEF SentInv
    <3> QED BY <3>2, <3>3, <1>11
  <2>4. ASSUME NEW i \in 1 .. Len(sent'), i + 1 \in 1 .. Len(sent')
        PROVE  Start(i + 1)' = End(i)'
    <3>1. i \in 1 .. Len(sent) BY <2>4, <1>1, <1>5
    <3>4. ASSUME i + 1 = n
          PROVE  \A k \in {i + 1} : Start(k)' = Written
      BY <2>4, <3>4, <1>8
    <3>2. CASE i + 1 = n
      <4>1. i = Len(sent) BY <3>1, <3>2, <1>1
      <4>2. Written = End(i)
        <5>1. sent # <<>> BY <3>1
        <5> QED BY <4>1, <5>1 DEF Written
      <4> QED BY <3>1, <3>2, <3>4, <4>2, <1>6
    <3>3. CASE i + 1 \in 1 .. Len(sent) BY <3>1, <3>3, <1>6 DEF SentInv
    <3> QED BY <2>4, <3>2, <3>3, <1>11
  <2> QED BY <1>5, <2>1, <2>2, <2>3, <2>4 DEF SentInv
<1>14. Written' > Written BY <1>1, <1>9, <1>10
<1> QED BY <1>5, <1>6, <1>7, <1>13, <1>14

\* Sending preserves the invariant: what has been read does not change.
LEMMA SendKeeps ==
  ASSUME IInv, NEW m \in Messages, NEW length \in Nat \ {0}, Write(m, length)
  PROVE  IInv'
<1>1. SentInv /\ TypeInv /\ SizeInv /\ WithinMaximum /\ PlaceInv BY DEF IInv
<1>2. /\ SentInv'
      /\ Len(sent') = Len(sent) + 1
      /\ \A i \in 1 .. Len(sent) : sent'[i] = sent[i] /\ Start(i)' = Start(i) /\ End(i)' = End(i)
      /\ sent'[Len(sent) + 1].start = Written
      /\ Written' > Written
  BY <1>1, WriteSent
<1>3. UNCHANGED <<reader, maximum, eof, pos, pc, left, header, got, failures, reads>>
  BY DEF Write
<1>4. /\ Len(sent) \in Nat /\ Written \in Nat /\ Written' \in Nat
      /\ pos \in Nat /\ pos <= Written
      /\ \A i \in 1 .. Len(sent') : /\ Start(i)' \in Nat /\ End(i)' \in Nat
                                    /\ Start(i)' < End(i)'
  <2>1. SentFacts' BY <1>2, FieldsTyped, PTL
  <2>2. /\ Written' \in Nat
        /\ \A i \in 1 .. Len(sent') : /\ Start(i)' \in Nat /\ End(i)' \in Nat
                                      /\ Start(i)' < End(i)'
    BY <2>1 DEF SentFacts
  <2> QED BY <2>2, <1>1, Fields, Numbers DEF TypeInv
<1>5. TypeInv'
  <2>1. header \in Headers => header.msg \in Nat BY DEF Headers
  <2> QED BY <1>1, <1>2, <1>3, <1>4, <2>1 DEF TypeInv
<1>6. SizeInv' BY <1>1, <1>3 DEF SizeInv
<1>7. WithinMaximum' BY <1>1, <1>3 DEF WithinMaximum
<1>8. 1 .. Len(sent') = 1 .. Len(sent) \cup {Len(sent) + 1} BY <1>2, <1>4
<1>9. \A i \in 1 .. Len(sent) : /\ Acceptable(sent[i])' <=> Acceptable(sent[i])
                                /\ Passes(sent[i])' <=> Passes(sent[i])
  BY <1>2, <1>3 DEF Acceptable, Passes
<1>10. OutOfStep => OutOfStep'
  <2> SUFFICES ASSUME OutOfStep PROVE OutOfStep' OBVIOUS
  <2>1. PICK i \in 1 .. Len(sent) : Start(i) < pos /\ ~Passes(sent[i]) BY DEF OutOfStep
  <2>2. i \in 1 .. Len(sent') /\ (Start(i) < pos /\ ~Passes(sent[i]))'
    BY <2>1, <1>2, <1>3, <1>8, <1>9
  <2> QED BY <2>2 DEF OutOfStep, Passes, Acceptable, Start
<1>11. Received' = Received
  <2>1. ASSUME NEW i \in 1 .. Len(sent'), i = Len(sent) + 1
        PROVE  ~(End(i) <= pos)'
    <3>1. Start(i)' = Written BY <1>2, <2>1 DEF Start
    <3>2. End(i)' > Written BY <3>1, <1>4, <2>1
    <3> QED BY <3>2, <1>3, <1>4, <2>1
  <2>2. \A i \in 1 .. Len(sent) : (End(i) <= pos)' <=> End(i) <= pos BY <1>2, <1>3
  <2>3. Received' = {i \in 1 .. Len(sent') : (End(i) <= pos)' /\ Acceptable(sent[i])'}
    BY DEF Received, Acceptable, End
  <2>4. \A i \in 1 .. Len(sent) :
          ((End(i) <= pos)' /\ Acceptable(sent[i])') <=> (End(i) <= pos /\ Acceptable(sent[i]))
    BY <1>9, <2>2
  <2> QED BY <1>8, <2>1, <2>3, <2>4 DEF Received
<1>12. PlaceInv'
  <2> SUFFICES ASSUME Step' PROVE (/\ pc = "header" => left = HeaderSize /\ Boundary
                                   /\ pc = "payload" => Inside
                                   /\ Taken)'
    BY DEF PlaceInv
  <2>1. Step BY <1>3, <1>10 DEF Step
  <2>2. Taken' BY <1>1, <1>3, <1>11, <2>1 DEF Taken, PlaceInv
  <2>3. ASSUME pc = "header" PROVE left' = HeaderSize /\ Boundary'
    <3>1. left = HeaderSize /\ Boundary BY <1>1, <2>1, <2>3 DEF PlaceInv
    <3>2. CASE pos = Written
      <4>1. PICK k \in 1 .. Len(sent') : k = Len(sent) + 1 BY <1>8
      <4>2. Start(k)' = pos' BY <4>1, <1>2, <1>3, <3>2 DEF Start
      <4> QED BY <4>2, <3>1, <1>3 DEF Boundary
    <3>3. CASE \E i \in 1 .. Len(sent) : Start(i) = pos
      <4>1. PICK i \in 1 .. Len(sent) : Start(i) = pos BY <3>3
      <4>2. i \in 1 .. Len(sent') /\ Start(i)' = pos' BY <4>1, <1>2, <1>3, <1>8
      <4> QED BY <4>2, <3>1, <1>3 DEF Boundary
    <3> QED BY <3>1, <3>2, <3>3 DEF Boundary
  <2>4. ASSUME pc = "payload" PROVE Inside'
    <3>1. Inside BY <1>1, <2>1, <2>4 DEF PlaceInv
    <3>2. \A i \in {header.msg} : i \in 1 .. Len(sent) BY <3>1 DEF Inside
    <3>3. \A i \in {header.msg} :
            /\ i \in 1 .. Len(sent') /\ sent'[i] = sent[i] /\ End(i)' = End(i)
            /\ Acceptable(sent[i])' <=> Acceptable(sent[i])
            /\ Passes(sent[i])' <=> Passes(sent[i])
      BY <3>2, <1>2, <1>8, <1>9
    <3>4. header' = header /\ header'.msg = header.msg BY <1>3
    <3> QED BY <3>1, <3>3, <3>4, <1>3 DEF Inside, Passes, Acceptable, End
  <2> QED BY <2>2, <2>3, <2>4, <1>3
<1> QED BY <1>2, <1>5, <1>6, <1>7, <1>12 DEF IInv

-----------------------------------------------------------------------------
(* The receiver *)

\* A step of the receiver, or of the end of the connection.
Unmoved == UNCHANGED <<reader, maximum, sent>>

\* The receiver leaves the messages sent where they are.
LEMMA SentStays ==
  ASSUME Unmoved
  PROVE  /\ SentInv => SentInv'
         /\ Written' = Written
         /\ \A i : Start(i)' = Start(i) /\ End(i)' = End(i)
         /\ \A i : Acceptable(sent[i])' <=> Acceptable(sent[i])
         /\ \A i : Passes(sent[i])' <=> Passes(sent[i])
<1>1. reader' = reader /\ maximum' = maximum /\ sent' = sent BY DEF Unmoved
<1>2. Written' = Written BY <1>1 DEF Written, End
<1>3. \A i : Start(i)' = Start(i) /\ End(i)' = End(i) BY <1>1 DEF Start, End
<1>4. \A i : Acceptable(sent[i])' <=> Acceptable(sent[i]) BY <1>1 DEF Acceptable
<1>5. \A i : Passes(sent[i])' <=> Passes(sent[i]) BY <1>1 DEF Passes, Acceptable
<1>6. SentInv => SentInv' BY <1>1, <1>2, <1>3 DEF SentInv
<1> QED BY <1>2, <1>3, <1>4, <1>5, <1>6

\* Out of step remains out of step.
LEMMA OutOfStepStays ==
  ASSUME SentInv, Unmoved, pos \in Nat, pos' \in Nat, pos <= pos'
  PROVE  OutOfStep => OutOfStep'
<1> SUFFICES ASSUME OutOfStep PROVE OutOfStep' OBVIOUS
<1>1. PICK i \in 1 .. Len(sent) : Start(i) < pos /\ ~Passes(sent[i]) BY DEF OutOfStep
<1>2. Start(i) \in Nat BY Fields
<1>3. i \in 1 .. Len(sent') /\ (Start(i) < pos /\ ~Passes(sent[i]))'
  BY <1>1, <1>2, SentStays DEF Unmoved
<1> QED BY <1>3 DEF OutOfStep, Passes, Acceptable, Start

\* While the reader is within message i it has received only earlier ones; with its
\* end it has received it too, if it is acceptable.
LEMMA ReceivedMoves ==
  ASSUME SentInv, Unmoved, pos \in Nat, pos' \in Nat, pos <= pos',
         NEW i \in 1 .. Len(sent), Start(i) <= pos, pos < End(i)
  PROVE  /\ \A j \in Received : j < i
         /\ pos' < End(i) => Received' = Received
         /\ pos' = End(i) => Received' = Received \cup {j \in {i} : Acceptable(sent[j])}
<1>1. /\ Len(sent) \in Nat
      /\ \A j \in 1 .. Len(sent) : Start(j) \in Nat /\ End(j) \in Nat /\ Start(j) < End(j)
  BY Fields
<1>2. Received' = {j \in 1 .. Len(sent) : End(j) <= pos' /\ Acceptable(sent[j])}
  <2>1. Received' = {j \in 1 .. Len(sent') : (End(j) <= pos)' /\ Acceptable(sent[j])'}
    BY DEF Received, Acceptable, End
  <2> QED BY <2>1, SentStays DEF Unmoved
<1>3. ASSUME NEW j \in 1 .. Len(sent), j < i PROVE End(j) <= pos
  <2>1. End(j) <= Start(i) BY <1>3, Ordered
  <2> QED BY <2>1, <1>1
<1>4. ASSUME NEW j \in 1 .. Len(sent), i < j PROVE End(i) < End(j) /\ ~(End(j) <= pos)
  <2>1. End(i) < End(j) BY <1>4, Ordered
  <2> QED BY <2>1, <1>1
<1>5. ~(End(i) <= pos) BY <1>1
<1>6. \A j \in 1 .. Len(sent) : j < i \/ j = i \/ i < j BY <1>1
<1>7. \A j \in Received : j < i BY <1>4, <1>5, <1>6 DEF Received
<1>8. ASSUME pos' < End(i) PROVE Received' = Received
  <2>1. ASSUME NEW j \in 1 .. Len(sent) PROVE End(j) <= pos' <=> End(j) <= pos
    BY <1>1, <1>3, <1>4, <1>5, <1>6, <1>8
  <2> QED BY <1>2, <2>1 DEF Received
<1>9. ASSUME pos' = End(i)
      PROVE  Received' = Received \cup {j \in {i} : Acceptable(sent[j])}
  <2>1. ASSUME NEW j \in 1 .. Len(sent) PROVE End(j) <= pos' <=> End(j) <= pos \/ j = i
    BY <1>1, <1>3, <1>4, <1>5, <1>6, <1>9
  <2> QED BY <1>2, <2>1 DEF Received
<1> QED BY <1>7, <1>8, <1>9

\* Handling the message just received keeps the order in which they are taken.
LEMMA TakenGrows ==
  ASSUME Taken, got \in Seq(Gotten), NEW i \in Nat, NEW s, NEW own,
         got' = Append(got, [msg |-> i, size |-> s, own |-> own]),
         Received' = Received \cup {i}, Received \subseteq Nat,
         \A j \in Received : j < i,
         reads' = "whole" => reads = "whole" /\ own
  PROVE  Taken'
<1> DEFINE new == [msg |-> i, size |-> s, own |-> own]
           n == Len(got) + 1
<1>1. /\ DOMAIN got = 1 .. Len(got) /\ Len(got) \in Nat
      /\ DOMAIN got' = 1 .. n /\ got'[n] = new
      /\ \A k \in 1 .. Len(got) : got'[k] = got[k]
  <2>1. new.msg = i OBVIOUS
  <2> HIDE DEF new
  <2>2. got' = Append(got, new) BY DEF new
  <2> QED BY <2>2
<1>2. 1 .. n = 1 .. Len(got) \cup {n} BY <1>1
<1>3. new.msg = i /\ new.own = own OBVIOUS
<1> HIDE DEF new
<1>4. {got'[k].msg : k \in DOMAIN got'} = Received'
  <2>1. {got[k].msg : k \in 1 .. Len(got)} = Received BY <1>1 DEF Taken
  <2>2. {got'[k].msg : k \in 1 .. n} = {got[k].msg : k \in 1 .. Len(got)} \cup {i}
    BY <1>1, <1>2, <1>3
  <2> QED BY <2>1, <2>2, <1>1
<1>5. ASSUME NEW k \in DOMAIN got', NEW j \in 1 .. k - 1
      PROVE  got'[j].msg < got'[k].msg
  <2>1. j \in 1 .. Len(got) BY <1>1
  <2>2. CASE k \in 1 .. Len(got) BY <1>1, <2>1, <2>2 DEF Taken
  <2>3. CASE k = n
    <3>1. got[j].msg \in Received BY <1>1, <2>1 DEF Taken
    <3> QED BY <1>1, <1>3, <2>1, <2>3, <3>1
  <2> QED BY <1>1, <1>2, <2>2, <2>3
<1>6. ASSUME reads' = "whole", NEW k \in DOMAIN got' PROVE got'[k].own
  <2>1. CASE k \in 1 .. Len(got) BY <1>1, <1>6, <2>1 DEF Taken
  <2>2. CASE k = n BY <1>1, <1>3, <1>6, <2>2
  <2> QED BY <1>1, <1>2, <2>1, <2>2
<1> QED BY <1>4, <1>5, <1>6 DEF Taken

\* Reading without handling anything.
LEMMA TakenStays ==
  ASSUME Taken, got' = got, Received' = Received, reads' = "whole" => reads = "whole"
  PROVE  Taken'
BY DEF Taken

\* A header is typed, and known only if it is read where a message starts: it is that
\* of message i if it is read whole and i has a whole header.
LEMMA Decodes ==
  ASSUME SentInv, NEW n \in Nat, NEW h \in Decoded(n)
  PROVE  /\ h \in Headers /\ h.msg <= Len(sent)
         /\ h.msg = Unknown \/ (h.msg \in 1 .. Len(sent) /\ Start(h.msg) = pos)
         /\ \A i \in 1 .. Len(sent) :
              n >= HeaderSize /\ Start(i) = pos /\ sent[i].length >= HeaderSize =>
                /\ h.msg = i /\ h.ok = sent[i].ok /\ h.type = sent[i].type
                /\ h.size = sent[i].size
<1> DEFINE here == {i \in 1 .. Len(sent) : Start(i) = pos /\ sent[i].length >= HeaderSize}
<1>1. CASE n >= HeaderSize /\ here # {}
  <2>1. PICK i \in here : h = [msg |-> i, ok |-> sent[i].ok, type |-> sent[i].type,
                               size |-> ntohll(sent[i].payload_length)]
    BY <1>1 DEF Decoded
  <2>2. i \in 1 .. Len(sent) /\ i \in Nat /\ i <= Len(sent) /\ Start(i) = pos BY Fields
  <2>3. ntohll(sent[i].payload_length) = sent[i].size
    <3>1. sent[i].payload_length = htonll(sent[i].size) BY <2>2 DEF SentInv
    <3>2. sent[i].size \in 0 .. WordSize - 1 BY <2>2, Fields
    <3> QED BY <3>1, <3>2, Conversions
  <2>4. sent[i] \in Sent BY <2>2, Fields
  <2>5. h = [msg |-> i, ok |-> sent[i].ok, type |-> sent[i].type, size |-> sent[i].size]
    BY <2>1, <2>3
  <2>6. /\ h.msg = i /\ h.ok = sent[i].ok /\ h.type = sent[i].type /\ h.size = sent[i].size
        /\ h \in Headers
    BY <2>2, <2>4, <2>5, Zenon DEF Headers, Sent
  <2>7. \A j \in 1 .. Len(sent) : Start(j) = pos => j = i BY <2>2, Ordered
  <2> QED BY <2>2, <2>6, <2>7
<1>2. CASE ~(n >= HeaderSize /\ here # {})
  <2>1. PICK m \in Messages : h = [msg |-> Unknown, ok |-> m.ok, type |-> m.type, size |-> m.size]
    BY <1>2 DEF Decoded
  <2>2. m.ok \in BOOLEAN /\ m.type \in Types /\ m.size \in 0 .. WordSize - 1 BY Numbers
  <2>3. Unknown \in Nat /\ Unknown <= Len(sent) BY Fields DEF Unknown
  <2>4. h.msg = Unknown BY <2>1
  <2>5. h \in Headers BY <2>1, <2>2, <2>3, Zenon DEF Headers
  <2> QED BY <1>2, <2>3, <2>4, <2>5
<1> QED BY <1>1, <1>2

\* The unsigned comparisons of hs_process and msg_receive refuse what the sizes
\* agreed on do not allow.
LEMMA Refusals ==
  ASSUME TypeInv, SizeInv, NEW h \in Headers
  PROVE  /\ ~Refused(h) /\ reader = "server" => h.size = 0 \/ h.size + HeaderSize <= maximum
         /\ \A i : h.ok = sent[i].ok /\ h.type = sent[i].type /\ h.size = sent[i].size =>
                     (Refused(h) <=> ~Acceptable(sent[i]))
<1>1. h.size \in 0 .. WordSize - 1 /\ h.size \in Nat BY Numbers DEF Headers
<1>2. maximum \in 0 .. WordSize - 1 /\ HeaderSize \in Nat /\ WordSize \in Nat
  BY Numbers DEF TypeInv
<1>3. CASE reader = "server"
  <2>1. maximum >= HeaderSize BY <1>3 DEF SizeInv
  <2>2. Limit = maximum - HeaderSize
    <3>1. (maximum - HeaderSize) % WordSize = maximum - HeaderSize BY <1>2, <2>1
    <3> QED BY <1>3, <3>1 DEF Limit
  <2>3. h.size > Limit <=> ~(h.size = 0 \/ h.size + HeaderSize <= maximum)
    BY <1>1, <1>2, <2>1, <2>2
  <2>4. Refused(h) <=> ~h.ok \/ ~(h.size = 0 \/ h.size + HeaderSize <= maximum)
    BY <1>3, <2>3 DEF Refused
  <2>5. \A i : Acceptable(sent[i]) <=>
          sent[i].ok /\ (sent[i].size = 0 \/ sent[i].size + HeaderSize <= maximum)
    BY <1>3 DEF Acceptable
  <2> QED BY <2>4, <2>5, Zenon
<1>4. CASE reader = "client"
  <2>1. Limit = maximum BY <1>4 DEF Limit
  <2>2. h.size > Limit <=> ~(h.size <= maximum) BY <1>1, <1>2, <2>1
  <2>3. Refused(h) <=> ~h.ok \/ h.type = "Error" \/ ~(h.size <= maximum)
    BY <1>4, <2>2 DEF Refused
  <2>4. \A i : Acceptable(sent[i]) <=>
          sent[i].ok /\ sent[i].type # "Error" /\ sent[i].size <= maximum
    BY <1>4 DEF Acceptable
  <2>5. reader # "server" BY <1>4
  <2> QED BY <2>3, <2>4, <2>5, Zenon
<1> QED BY <1>3, <1>4 DEF TypeInv

\* Handling a message whose size has been checked.
LEMMA HandleKeeps ==
  ASSUME TypeInv, SizeInv, WithinMaximum, Unmoved, eof' = eof,
         NEW h \in Headers, NEW own \in BOOLEAN, Handle(h, own),
         pos' \in Nat, pos' <= Written, failures' \in 0 .. MaxFailures,
         reads' \in {"whole", "split", "torn"},
         reader = "server" => h.size = 0 \/ h.size + HeaderSize <= maximum
  PROVE  TypeInv' /\ SizeInv' /\ WithinMaximum'
<1> DEFINE new == [msg |-> h.msg, size |-> h.size, own |-> own]
           n == Len(got) + 1
<1>1. h.msg \in Nat /\ h.size \in Nat BY Numbers DEF Headers
<1>2. new \in Gotten /\ new.size = h.size BY <1>1, Zenon DEF Gotten
<1> HIDE DEF new
<1>3. got \in Seq(Gotten) /\ got' = Append(got, new) BY DEF TypeInv, Handle, new
<1>4. /\ got' \in Seq(Gotten) /\ DOMAIN got' = 1 .. Len(got) \cup {n} /\ got'[n] = new
      /\ \A k \in 1 .. Len(got) : got'[k] = got[k]
      /\ DOMAIN got = 1 .. Len(got)
  BY <1>2, <1>3
<1>5. pc' = "header" /\ left' = HeaderSize /\ header' = NoHeader BY DEF Handle
<1>6. NoHeader \in Headers /\ NoHeader.msg <= Len(sent)
  <2>1. Len(sent) >= 0 BY DEF TypeInv, Headers
  <2> QED BY <2>1, NoHeaderTyped
<1>7. TypeInv'
  <2>1. left' \in Int /\ -Half <= left' /\ left' <= Half /\ left' \in 1 .. HeaderSize + failures'
    BY <1>5, RoomForHeader
  <2> QED BY <2>1, <1>4, <1>5, <1>6, SentStays DEF TypeInv, Unmoved
<1>8. SizeInv' BY <1>5 DEF SizeInv, Unmoved
<1>9. WithinMaximum'
  <2> SUFFICES ASSUME reader = "server", NEW k \in DOMAIN got', got'[k].size > 0
               PROVE  got'[k].size + HeaderSize <= maximum
    BY DEF WithinMaximum, Unmoved
  <2>1. CASE k \in 1 .. Len(got) BY <1>4, <2>1 DEF WithinMaximum
  <2>2. CASE k = n BY <1>1, <1>2, <1>4, <2>2
  <2> QED BY <1>4, <2>1, <2>2
<1> QED BY <1>7, <1>8, <1>9

\* What tcp_read leaves alone and where it gets to.
LEMMA Reads ==
  ASSUME SentInv, TypeInv, NEW n, tcp_read(n)
  PROVE  /\ Unmoved /\ eof' = eof /\ failures' = failures
         /\ pos \in Nat /\ pos' \in Nat /\ pos' = pos + n /\ pos' <= Written
         /\ pos <= pos' /\ left \in Nat /\ left >= 1 /\ n \in Nat /\ n >= 1 /\ n <= left
<1>1. left \in Int /\ n \in 1 .. left /\ pos' = pos + n /\ pos + n <= Written
  BY DEF TypeInv, tcp_read
<1>2. left \in Nat /\ left >= 1 /\ n \in Nat /\ n >= 1 /\ n <= left BY <1>1
<1>3. pos \in Nat BY DEF TypeInv
<1> QED BY <1>1, <1>2, <1>3 DEF tcp_read, Unmoved

\* A reader in step has always been in step.
LEMMA StepStays ==
  ASSUME SentInv, Unmoved, pos \in Nat, pos' \in Nat, pos <= pos',
         reads = "torn" => reads' = "torn"
  PROVE  Step' => Step
BY OutOfStepStays DEF Step

\* A header that comes in pieces preserves the invariant: it is torn.
LEMMA HeaderPieceKeeps ==
  ASSUME IInv, NEW n \in 1 .. left, HeaderPiece(n)
  PROVE  IInv'
<1>1. SentInv /\ TypeInv /\ SizeInv /\ WithinMaximum BY DEF IInv
<1>2. n \in Nat /\ n < left /\ tcp_read(n) BY DEF HeaderPiece
<1>3. /\ Unmoved /\ eof' = eof /\ failures' = failures
      /\ pos' \in Nat /\ pos' <= Written /\ left \in Nat /\ n >= 1
  BY <1>1, <1>2, Reads
<1>4. SentInv' /\ Written' = Written BY <1>1, <1>3, SentStays
<1>5. reads' = "torn" /\ pc' = pc /\ header' = header /\ got' = got BY DEF HeaderPiece
<1>6. left' \in Int /\ -Half <= left' /\ left' <= Half /\ left' \in 1 .. HeaderSize + failures'
  <2>1. /\ failures \in 0 .. MaxFailures /\ failures' = failures
        /\ left \in 1 .. HeaderSize + failures
    BY <1>1, <1>3 DEF TypeInv, HeaderPiece
  <2>2. left' = left \/ left' = left - n BY DEF HeaderPiece
  <2>3. left' \in 1 .. HeaderSize + failures'
    <3>1. failures \in Nat /\ HeaderSize \in Nat BY <2>1, Numbers
    <3> QED BY <1>2, <1>3, <2>1, <2>2, <3>1
  <2> QED BY <2>1, <2>3, RoomForHeader
<1>7. TypeInv' BY <1>1, <1>3, <1>4, <1>5, <1>6 DEF TypeInv, Unmoved
<1>8. SizeInv' BY <1>1, <1>3, <1>5 DEF SizeInv, Unmoved
<1>9. WithinMaximum' BY <1>1, <1>3, <1>5 DEF WithinMaximum, Unmoved
<1>10. PlaceInv' BY <1>5 DEF PlaceInv, Step
<1> QED BY <1>4, <1>7, <1>8, <1>9, <1>10 DEF IInv

\* In step, a header read at once is that of the next message in the stream, if that
\* one passes; if not, it may be anything.
LEMMA HeaderInStep ==
  ASSUME IInv, Step, pc = "header", tcp_read(left), NEW h \in Decoded(left)
  PROVE  \E i \in 1 .. Len(sent) :
           /\ Start(i) = pos /\ pos < pos' /\ h.msg \in {Unknown, i}
           /\ Passes(sent[i]) =>
                /\ pos' = Start(i) + HeaderSize
                /\ h.msg = i /\ h.size = sent[i].size /\ (Refused(h) <=> ~Acceptable(sent[i]))
                /\ NoPayload(h) <=> sent[i].size = 0
                /\ AsInt(sent[i].size) = sent[i].size \/ sent[i].size = 0
<1>1. SentInv /\ TypeInv /\ SizeInv /\ PlaceInv BY DEF IInv
<1>2. left = HeaderSize /\ Boundary BY <1>1 DEF PlaceInv
<1>3. left \in Nat /\ left >= HeaderSize BY <1>2, Numbers
<1>4. pos \in Nat /\ pos' = pos + left /\ pos' <= Written /\ left >= 1 BY <1>1, <1>3, Reads
<1>5. pos # Written
  <2>1. Written \in Nat BY <1>1, Fields
  <2> QED BY <2>1, <1>3, <1>4
<1>6. PICK i \in 1 .. Len(sent) : Start(i) = pos BY <1>2, <1>5 DEF Boundary
<1>7. h.msg \in {Unknown, i}
  <2>1. h.msg = Unknown \/ (h.msg \in 1 .. Len(sent) /\ Start(h.msg) = pos)
    BY <1>1, <1>3, Decodes
  <2> QED BY <2>1, <1>1, <1>6, Ordered
<1>8. ASSUME Passes(sent[i])
      PROVE  /\ h.msg = i /\ h.size = sent[i].size /\ (Refused(h) <=> ~Acceptable(sent[i]))
             /\ NoPayload(h) <=> sent[i].size = 0
             /\ AsInt(sent[i].size) = sent[i].size \/ sent[i].size = 0
  <2>1. sent[i].length >= HeaderSize /\ sent[i].size \in Nat
    <3>1. sent[i].size \in Nat BY <1>1, Fields
    <3> QED BY <3>1, <1>8, Numbers DEF Passes
  <2>2. /\ h \in Headers
        /\ h.msg = i /\ h.ok = sent[i].ok /\ h.type = sent[i].type /\ h.size = sent[i].size
    BY <1>1, <1>3, <1>6, <2>1, Decodes
  <2>3. Refused(h) <=> ~Acceptable(sent[i]) BY <1>1, <2>2, Refusals
  <2>4. AsInt(sent[i].size) = sent[i].size \/ sent[i].size = 0
    BY <1>8, <2>1, Narrowing DEF Passes
  <2>5. NoPayload(h) <=> sent[i].size = 0 BY <2>1, <2>2, <2>4 DEF NoPayload
  <2> QED BY <2>2, <2>3, <2>4, <2>5
<1>9. pos < pos' /\ pos' = Start(i) + HeaderSize
  <2>1. pos < pos' BY <1>3, <1>4
  <2>2. pos' = pos + HeaderSize BY <1>2, <1>4
  <2> QED BY <2>1, <2>2, <1>6
<1> QED BY <1>6, <1>7, <1>8, <1>9

\* A header read at once preserves the invariant, whether the message is refused,
\* handled without a payload, or has one that is read next.
LEMMA HeaderCompleteKeeps ==
  ASSUME IInv, HeaderComplete
  PROVE  IInv'
<1>1. SentInv /\ TypeInv /\ SizeInv /\ WithinMaximum /\ PlaceInv BY DEF IInv
<1>2. pc = "header" /\ tcp_read(left) /\ reads' = reads BY DEF HeaderComplete
<1>3. /\ Unmoved /\ eof' = eof /\ failures' = failures
      /\ pos \in Nat /\ pos' \in Nat /\ pos' = pos + left /\ pos' <= Written
      /\ pos <= pos' /\ left \in Nat /\ left >= 1
  BY <1>1, <1>2, Reads
<1>4. SentInv' /\ Written' = Written BY <1>1, <1>3, SentStays
<1>5. failures' \in 0 .. MaxFailures /\ reads' \in {"whole", "split", "torn"}
  BY <1>1, <1>2, <1>3 DEF TypeInv
<1>6. PICK h \in Decoded(left) :
         \/ /\ Refused(h)
            /\ left' = HeaderSize
            /\ UNCHANGED <<pc, header, got>>
         \/ /\ ~Refused(h) /\ NoPayload(h)
            /\ Handle(h, h.msg # Unknown /\ h.size = 0)
         \/ /\ ~Refused(h) /\ ~NoPayload(h)
            /\ pc' = "payload"
            /\ left' = AsInt(h.size)
            /\ header' = h
            /\ UNCHANGED got
  BY DEF HeaderComplete
<1>7. h \in Headers /\ h.msg <= Len(sent) BY <1>1, <1>3, Decodes
<1>8. ~Refused(h) /\ reader = "server" => h.size = 0 \/ h.size + HeaderSize <= maximum
  BY <1>1, <1>7, Refusals
<1>9. h.size \in 0 .. WordSize - 1 /\ h.size \in Nat BY <1>7, Numbers DEF Headers
\* In step this is the header of the next message, and that passes.
<1>10. ASSUME Step'
       PROVE  /\ Taken
              /\ \E i \in 1 .. Len(sent) :
                   /\ Start(i) = pos /\ pos' = Start(i) + HeaderSize /\ Passes(sent[i])
                   /\ h.msg = i /\ h.size = sent[i].size /\ (Refused(h) <=> ~Acceptable(sent[i]))
                   /\ NoPayload(h) <=> sent[i].size = 0
                   /\ AsInt(sent[i].size) = sent[i].size \/ sent[i].size = 0
  <2>1. Step BY <1>1, <1>2, <1>3, <1>10, StepStays
  <2>2. Taken BY <1>1, <2>1 DEF PlaceInv
  <2>3. PICK i \in 1 .. Len(sent) :
           /\ Start(i) = pos /\ pos < pos'
           /\ Passes(sent[i]) =>
                /\ pos' = Start(i) + HeaderSize
                /\ h.msg = i /\ h.size = sent[i].size /\ (Refused(h) <=> ~Acceptable(sent[i]))
                /\ NoPayload(h) <=> sent[i].size = 0
                /\ AsInt(sent[i].size) = sent[i].size \/ sent[i].size = 0
    BY <1>2, <2>1, HeaderInStep
  <2>4. Passes(sent[i])
    <3> SUFFICES ASSUME ~Passes(sent[i]) PROVE FALSE OBVIOUS
    <3>1. i \in 1 .. Len(sent') /\ (Start(i) < pos /\ ~Passes(sent[i]))'
      BY <1>3, <2>3, SentStays DEF Unmoved
    <3>2. OutOfStep' BY <3>1 DEF OutOfStep, Passes, Acceptable, Start
    <3> QED BY <1>10, <3>2 DEF Step
  <2> QED BY <2>2, <2>3, <2>4
<1>11. ASSUME NEW i \in 1 .. Len(sent), Start(i) = pos, pos' = Start(i) + HeaderSize,
              Passes(sent[i])
       PROVE  /\ Start(i) <= pos /\ pos < End(i) /\ pos' <= End(i)
              /\ sent[i].size = 0 => pos' = End(i)
              /\ sent[i].size > 0 => pos' < End(i)
              /\ \A j \in Received : j < i
              /\ pos' < End(i) => Received' = Received
              /\ pos' = End(i) => Received' = Received \cup {j \in {i} : Acceptable(sent[j])}
  <2>1. /\ Start(i) \in Nat /\ End(i) \in Nat /\ sent[i].size \in Nat
        /\ End(i) = Start(i) + HeaderSize + sent[i].size
    BY <1>1, <1>11, Fields
  <2>2. HeaderSize \in Nat /\ HeaderSize >= 1 BY Numbers
  <2>3. /\ Start(i) <= pos /\ pos < End(i) /\ pos' <= End(i)
        /\ sent[i].size = 0 => pos' = End(i)
        /\ sent[i].size > 0 => pos' < End(i)
    BY <1>11, <2>1, <2>2
  <2> QED BY <1>1, <1>3, <2>3, ReceivedMoves
\* At the end of a message the reader is between two messages.
<1>12. ASSUME NEW i \in 1 .. Len(sent), pos' = End(i) PROVE Boundary'
  <2>1. End(i) = Written \/ \E j \in 1 .. Len(sent) : Start(j) = End(i)
    BY <1>1, NextBoundary
  <2>2. sent' = sent BY <1>3 DEF Unmoved
  <2>3. pos' = Written' \/ \E j \in 1 .. Len(sent') : Start(j)' = pos'
    BY <1>3, <1>4, <1>12, <2>1, <2>2, SentStays
  <2> QED BY <2>3 DEF Boundary
<1>13. CASE Refused(h) /\ left' = HeaderSize /\ UNCHANGED <<pc, header, got>>
  <2>1. TypeInv'
    <3>1. left' \in Int /\ -Half <= left' /\ left' <= Half /\ left' \in 1 .. HeaderSize + failures'
      BY <1>5, <1>13, RoomForHeader
    <3> QED BY <1>1, <1>3, <1>4, <1>5, <1>13, <3>1 DEF TypeInv, Unmoved
  <2>2. SizeInv' BY <1>1, <1>3, <1>13 DEF SizeInv, Unmoved
  <2>3. WithinMaximum' BY <1>1, <1>3, <1>13 DEF WithinMaximum, Unmoved
  <2>4. ASSUME Step' PROVE left' = HeaderSize /\ Boundary' /\ Taken'
    <3>1. PICK i \in 1 .. Len(sent) :
            /\ Start(i) = pos /\ pos' = Start(i) + HeaderSize /\ Passes(sent[i])
            /\ Refused(h) <=> ~Acceptable(sent[i])
      BY <1>10, <2>4
    <3>2. ~Acceptable(sent[i]) BY <1>13, <3>1
    <3>3. sent[i].size = 0 BY <3>1, <3>2 DEF Passes
    <3>4. pos' = End(i) BY <1>11, <3>1, <3>3
    <3>5. Received' = Received
      <4>1. Received' = Received \cup {j \in {i} : Acceptable(sent[j])} BY <1>11, <3>1, <3>4
      <4>2. {j \in {i} : Acceptable(sent[j])} = {} BY <3>2
      <4> QED BY <4>1, <4>2
    <3>6. Taken BY <1>10, <2>4
    <3>7. Taken' BY <1>2, <1>13, <3>5, <3>6, TakenStays
    <3> QED BY <1>12, <1>13, <3>4, <3>7
  <2>5. PlaceInv' BY <1>2, <1>13, <2>4 DEF PlaceInv
  <2> QED BY <1>4, <2>1, <2>2, <2>3, <2>5 DEF IInv
<1>14. CASE ~Refused(h) /\ NoPayload(h) /\ Handle(h, h.msg # Unknown /\ h.size = 0)
  <2> DEFINE own == h.msg # Unknown /\ h.size = 0
  <2>1. own \in BOOLEAN OBVIOUS
  <2>2. TypeInv' /\ SizeInv' /\ WithinMaximum'
    <3>1. Handle(h, own) BY <1>14
    <3> HIDE DEF own
    <3> QED BY <1>1, <1>3, <1>5, <1>7, <1>8, <1>14, <2>1, <3>1, HandleKeeps
  <2>3. pc' = "header" /\ left' = HeaderSize
        /\ got' = Append(got, [msg |-> h.msg, size |-> h.size, own |-> own])
    BY <1>14 DEF Handle
  <2>4. ASSUME Step' PROVE Boundary' /\ Taken'
    <3>1. PICK i \in 1 .. Len(sent) :
            /\ Start(i) = pos /\ pos' = Start(i) + HeaderSize /\ Passes(sent[i])
            /\ h.msg = i /\ h.size = sent[i].size /\ (Refused(h) <=> ~Acceptable(sent[i]))
            /\ NoPayload(h) <=> sent[i].size = 0
      BY <1>10, <2>4
    <3>2. Acceptable(sent[i]) /\ sent[i].size = 0 BY <1>14, <3>1
    <3>3. pos' = End(i) BY <1>11, <3>1, <3>2
    <3>4. Received' = Received \cup {i} /\ \A j \in Received : j < i
      BY <1>11, <3>1, <3>2, <3>3
    <3>5. i \in Nat /\ Received \subseteq Nat BY DEF Received
    <3>6. own BY <3>1, <3>2 DEF Unknown
    <3>7. Taken /\ got \in Seq(Gotten) BY <1>1, <1>10, <2>4 DEF TypeInv
    <3>8. got' = Append(got, [msg |-> i, size |-> h.size, own |-> own]) BY <2>3, <3>1
    <3> HIDE DEF own
    <3>9. Taken' BY <1>2, <3>4, <3>5, <3>6, <3>7, <3>8, TakenGrows
    <3> QED BY <1>12, <3>3, <3>9
  <2>5. PlaceInv' BY <2>3, <2>4 DEF PlaceInv
  <2> QED BY <1>4, <2>2, <2>5 DEF IInv
<1>15. CASE /\ ~Refused(h) /\ ~NoPayload(h)
            /\ pc' = "payload"
            /\ left' = AsInt(h.size)
            /\ header' = h
            /\ UNCHANGED got
  <2>1. TypeInv'
    <3>1. left' \in Int /\ -Half <= left' /\ left' <= Half BY <1>9, <1>15, Narrowing
    <3> QED BY <1>1, <1>3, <1>4, <1>5, <1>7, <1>15, <3>1 DEF TypeInv, Unmoved
  <2>2. SizeInv'
    <3>1. h.size # 0 BY <1>15 DEF NoPayload
    <3> QED BY <1>1, <1>3, <1>8, <1>15, <3>1 DEF SizeInv, Unmoved
  <2>3. WithinMaximum' BY <1>1, <1>3, <1>15 DEF WithinMaximum, Unmoved
  <2>4. ASSUME Step' PROVE Inside' /\ Taken'
    <3>1. PICK i \in 1 .. Len(sent) :
            /\ Start(i) = pos /\ pos' = Start(i) + HeaderSize /\ Passes(sent[i])
            /\ h.msg = i /\ h.size = sent[i].size /\ (Refused(h) <=> ~Acceptable(sent[i]))
            /\ NoPayload(h) <=> sent[i].size = 0
            /\ AsInt(sent[i].size) = sent[i].size \/ sent[i].size = 0
      BY <1>10, <2>4
    <3>2. Acceptable(sent[i]) /\ sent[i].size # 0 BY <1>15, <3>1
    <3>3. left' = h.size /\ left' > 0 BY <1>9, <1>15, <3>1, <3>2
    <3>4. pos' < End(i) BY <1>9, <1>11, <3>1, <3>2
    <3>5. Received' = Received BY <1>11, <3>1, <3>4
    <3>6. Taken' BY <1>2, <1>10, <1>15, <2>4, <3>5, TakenStays
    <3>7. End(i) = Start(i) + HeaderSize + sent[i].size /\ Start(i) \in Nat /\ HeaderSize \in Nat
      BY <1>1, <3>1, Fields, Numbers
    <3>8. pos' + left' = End(i) BY <1>9, <3>1, <3>3, <3>7
    <3>9. header' = h /\ header'.msg = i /\ sent' = sent BY <1>3, <1>15, <3>1 DEF Unmoved
    <3>10. Acceptable(sent[i])' /\ Passes(sent[i])' /\ End(i)' = End(i)
      BY <1>3, <3>1, <3>2, SentStays
    <3>11. /\ header'.msg \in 1 .. Len(sent')
           /\ header'.size = sent'[header'.msg].size
           /\ (Acceptable(sent[header.msg]))' /\ (Passes(sent[header.msg]))'
           /\ pos' + left' = (End(header.msg))'
           /\ left' \in 1 .. header'.size /\ left' = header'.size
      <4>1. (Acceptable(sent[header.msg]))' BY <3>9, <3>10 DEF Acceptable
      <4>2. (Passes(sent[header.msg]))' BY <3>9, <3>10 DEF Passes, Acceptable
      <4>3. (End(header.msg))' = End(i)' BY <3>9 DEF End
      <4>4. left' \in 1 .. header'.size /\ left' = header'.size BY <1>9, <3>3, <3>9
      <4> QED BY <3>1, <3>8, <3>9, <3>10, <4>1, <4>2, <4>3, <4>4
    <3>12. Inside' BY <3>11 DEF Inside
    <3> QED BY <3>6, <3>12
  <2>5. PlaceInv' BY <1>15, <2>4 DEF PlaceInv
  <2> QED BY <1>4, <2>1, <2>2, <2>3, <2>5 DEF IInv
<1> QED BY <1>6, <1>13, <1>14, <1>15

\* A payload that comes in pieces: msg_receive keeps its place in the stream.
LEMMA PayloadPieceKeeps ==
  ASSUME IInv, NEW n \in 1 .. left, PayloadPiece(n)
  PROVE  IInv'
<1>1. SentInv /\ TypeInv /\ SizeInv /\ WithinMaximum /\ PlaceInv BY DEF IInv
<1>2. n < left /\ tcp_read(n) /\ pc = "payload" BY DEF PayloadPiece
<1>3. /\ Unmoved /\ eof' = eof /\ failures' = failures /\ n \in Nat
      /\ pos \in Nat /\ pos' \in Nat /\ pos' = pos + n /\ pos' <= Written
      /\ pos <= pos' /\ left \in Nat /\ n >= 1
  BY <1>1, <1>2, Reads
<1>4. SentInv' /\ Written' = Written BY <1>1, <1>3, SentStays
<1>5. failures' \in 0 .. MaxFailures BY <1>1, <1>3 DEF TypeInv
<1>6. header \in Headers BY <1>1 DEF TypeInv
<1>7. CASE reader = "client" /\ left' = left - n /\ reads' = Worst("split")
           /\ UNCHANGED <<pc, header, got>>
  <2>1. TypeInv'
    <3>1. left' \in Int /\ -Half <= left' /\ left' <= Half
      <4>1. left \in Int /\ left <= Half /\ Half \in Nat BY <1>1, Numbers DEF TypeInv
      <4> QED BY <1>2, <1>3, <1>7, <4>1
    <3>2. reads' \in {"whole", "split", "torn"} BY <1>7 DEF Worst
    <3> QED BY <1>1, <1>2, <1>3, <1>4, <1>5, <1>7, <3>1, <3>2 DEF TypeInv, Unmoved
  <2>2. SizeInv' BY <1>1, <1>3, <1>7 DEF SizeInv, Unmoved
  <2>3. WithinMaximum' BY <1>1, <1>3, <1>7 DEF WithinMaximum, Unmoved
  <2>4. ASSUME Step' PROVE Inside' /\ Taken'
    <3>1. reads = "torn" => reads' = "torn" BY <1>7 DEF Worst
    <3>2. reads' # "whole" BY <1>7 DEF Worst
    <3>3. Step BY <1>1, <1>3, <2>4, <3>1, StepStays
    <3>4. Inside /\ Taken BY <1>1, <1>2, <3>3 DEF PlaceInv
    <3>5. PICK i \in 1 .. Len(sent) : i = header.msg BY <3>4 DEF Inside
    <3>6. /\ header.size = sent[i].size /\ Acceptable(sent[i]) /\ Passes(sent[i])
          /\ pos + left = End(i) /\ left \in 1 .. header.size
      BY <3>4, <3>5 DEF Inside
    <3>7. /\ Start(i) \in Nat /\ End(i) \in Nat /\ sent[i].size \in Nat /\ HeaderSize \in Nat
          /\ End(i) = Start(i) + HeaderSize + sent[i].size
      BY <1>1, <3>6, Fields, Numbers
    <3>8. Start(i) <= pos /\ pos < End(i) /\ pos' < End(i) /\ pos' + left' = End(i)
          /\ left' \in 1 .. header.size
      <4>1. left' = left - n /\ pos' = pos + n /\ n \in Nat /\ n >= 1 /\ n < left
        BY <1>2, <1>3, <1>7
      <4>2. left' \in 1 .. header.size BY <4>1, <3>6, <3>7
      <4>3. pos \in Nat /\ left \in Nat BY <1>3
      <4>4. pos + left = End(i) BY <3>6
      <4>5. pos' + left' = End(i) BY <4>1, <4>3, <4>4
      <4>6. pos' < End(i) /\ pos < End(i) BY <4>1, <4>3, <4>4
      <4>7. left <= header.size /\ header.size = sent[i].size BY <3>6
      <4>8. Start(i) <= pos BY <4>3, <4>4, <4>7, <3>7
      <4> QED BY <4>2, <4>5, <4>6, <4>8
    <3>9. Received' = Received BY <1>1, <1>3, <3>8, ReceivedMoves
    <3>10. Taken' BY <1>7, <3>2, <3>4, <3>9, TakenStays
    <3>11. header' = header /\ sent' = sent BY <1>3, <1>7 DEF Unmoved
    <3>12. Acceptable(sent[i])' /\ Passes(sent[i])' /\ End(i)' = End(i)
      BY <1>3, <3>6, SentStays
    <3>13. /\ (Acceptable(sent[header.msg]))' /\ (Passes(sent[header.msg]))'
           /\ (End(header.msg))' = End(i)'
      BY <3>5, <3>11, <3>12 DEF Passes, Acceptable, End
    <3>14. Inside' BY <3>2, <3>5, <3>6, <3>8, <3>11, <3>12, <3>13 DEF Inside
    <3> QED BY <3>10, <3>14
  <2>5. PlaceInv' BY <1>2, <1>7, <2>4 DEF PlaceInv
  <2> QED BY <1>4, <2>1, <2>2, <2>3, <2>5 DEF IInv
<1>8. CASE reads' = "torn" /\ Handle(header, FALSE)
  <2>1. reader = "server" => header.size = 0 \/ header.size + HeaderSize <= maximum
    BY <1>1, <1>2 DEF SizeInv
  <2>2. TypeInv' /\ SizeInv' /\ WithinMaximum'
    BY <1>1, <1>3, <1>5, <1>6, <1>8, <2>1, HandleKeeps
  <2>3. PlaceInv' BY <1>8 DEF PlaceInv, Step
  <2> QED BY <1>4, <2>2, <2>3 DEF IInv
<1> QED BY <1>7, <1>8 DEF PayloadPiece

\* The last part of a payload preserves the invariant.
LEMMA PayloadCompleteKeeps ==
  ASSUME IInv, PayloadComplete
  PROVE  IInv'
<1>1. SentInv /\ TypeInv /\ SizeInv /\ WithinMaximum /\ PlaceInv BY DEF IInv
<1>2. pc = "payload" /\ tcp_read(left) /\ reads' = reads /\ Handle(header, Own(left))
  BY DEF PayloadComplete
<1>3. left \in Nat BY <1>1, <1>2, Reads
<1>4. /\ Unmoved /\ eof' = eof /\ failures' = failures
      /\ pos \in Nat /\ pos' \in Nat /\ pos' = pos + left /\ pos' <= Written
      /\ pos <= pos' /\ left >= 1
  BY <1>1, <1>2, <1>3, Reads
<1>5. SentInv' /\ Written' = Written BY <1>1, <1>4, SentStays
<1>6. TypeInv' /\ SizeInv' /\ WithinMaximum'
  <2>1. reader = "server" => header.size = 0 \/ header.size + HeaderSize <= maximum
    BY <1>1, <1>2 DEF SizeInv
  <2>2. header \in Headers /\ failures' \in 0 .. MaxFailures
        /\ reads' \in {"whole", "split", "torn"}
    BY <1>1, <1>2, <1>4 DEF TypeInv
  <2>3. Own(left) \in BOOLEAN BY DEF Own
  <2> QED BY <1>1, <1>2, <1>4, <2>1, <2>2, <2>3, HandleKeeps
<1>7. pc' = "header" /\ left' = HeaderSize
      /\ got' = Append(got, [msg |-> header.msg, size |-> header.size, own |-> Own(left)])
  BY <1>2 DEF Handle
<1>8. ASSUME Step' PROVE Boundary' /\ Taken'
  <2>1. Step BY <1>1, <1>2, <1>4, <1>8, StepStays
  <2>2. Inside /\ Taken BY <1>1, <1>2, <2>1 DEF PlaceInv
  <2>3. PICK i \in 1 .. Len(sent) : i = header.msg BY <2>2 DEF Inside
  <2>4. /\ header.size = sent[i].size /\ Acceptable(sent[i]) /\ Passes(sent[i])
        /\ pos + left = End(i) /\ left \in 1 .. header.size
        /\ reads = "whole" => left = header.size
    BY <2>2, <2>3 DEF Inside
  <2>5. /\ Start(i) \in Nat /\ End(i) \in Nat /\ sent[i].size \in Nat /\ HeaderSize \in Nat
        /\ End(i) = Start(i) + HeaderSize + sent[i].size
    BY <1>1, <2>4, Fields, Numbers
  <2>6. Start(i) <= pos /\ pos < End(i) /\ pos' = End(i) BY <1>3, <1>4, <2>4, <2>5
  <2>7. Received' = Received \cup {i} /\ \A j \in Received : j < i
    <3>1. /\ Received' = Received \cup {j \in {i} : Acceptable(sent[j])}
          /\ \A j \in Received : j < i
      BY <1>1, <1>4, <2>6, ReceivedMoves
    <3>2. {j \in {i} : Acceptable(sent[j])} = {i} BY <2>4
    <3> QED BY <3>1, <3>2
  <2>8. reads = "whole" => Own(left)
    <3> SUFFICES ASSUME reads = "whole" PROVE Own(left) OBVIOUS
    <3>1. left = header.size BY <2>4
    <3>2. pos = Start(i) + HeaderSize BY <1>3, <1>4, <2>4, <2>5, <3>1
    <3>3. header.msg # Unknown BY <2>3 DEF Unknown
    <3>4. left >= header.size BY <3>1, <1>3
    <3>5. pos + header.size = End(header.msg) BY <2>3, <2>4, <3>1
    <3> QED BY <2>3, <3>2, <3>3, <3>4, <3>5 DEF Own
  <2>9. i \in Nat /\ Received \subseteq Nat BY DEF Received
  <2>10. got \in Seq(Gotten) BY <1>1 DEF TypeInv
  <2>11. got' = Append(got, [msg |-> i, size |-> header.size, own |-> Own(left)])
    BY <1>7, <2>3
  <2>12. Taken'
    <3> DEFINE own == Own(left)
    <3>1. reads' = "whole" => reads = "whole" /\ own BY <1>2, <2>8
    <3> HIDE DEF own
    <3>2. got' = Append(got, [msg |-> i, size |-> header.size, own |-> own]) BY <2>11 DEF own
    <3> QED BY <2>2, <2>7, <2>9, <2>10, <3>1, <3>2, TakenGrows
  <2>13. End(i) = Written \/ \E j \in 1 .. Len(sent) : Start(j) = End(i)
    BY <1>1, NextBoundary
  <2>14. sent' = sent BY <1>4 DEF Unmoved
  <2>15. pos' = Written' \/ \E j \in 1 .. Len(sent') : Start(j)' = pos'
    BY <1>4, <1>5, <2>6, <2>13, <2>14, SentStays
  <2> QED BY <2>12, <2>15 DEF Boundary
<1>9. PlaceInv' BY <1>7, <1>8 DEF PlaceInv
<1> QED BY <1>5, <1>6, <1>9 DEF IInv

\* A reader in step has a payload length that is a positive int.
LEMMA InStepPositive ==
  ASSUME IInv, Step, pc = "payload"
  PROVE  left > 0
<1>1. Inside BY DEF IInv, PlaceInv
<1>2. left \in 1 .. header.size BY <1>1 DEF Inside
<1> QED BY <1>2

\* What PayloadNarrowed leaves alone; the reader is out of step already.
LEMMA Narrowed ==
  ASSUME IInv, PayloadNarrowed
  PROVE  /\ Unmoved /\ eof' = eof /\ pos \in Nat /\ pos' = pos /\ pos' <= Written
         /\ failures' = failures /\ reads' = reads /\ pc = "payload" /\ ~Step /\ ~Step'
<1>1. SentInv /\ TypeInv BY DEF IInv
<1>2. /\ Unmoved /\ eof' = eof /\ pos' = pos /\ failures' = failures /\ reads' = reads
      /\ pc = "payload" /\ left <= 0
  BY DEF PayloadNarrowed, Unmoved
<1>3. pos \in Nat /\ pos <= Written /\ left \in Int BY <1>1 DEF TypeInv
<1>4. ~Step BY <1>2, <1>3, InStepPositive
<1>5. pos <= pos' /\ pos' \in Nat BY <1>2, <1>3
<1>6. ~Step' BY <1>1, <1>2, <1>3, <1>4, <1>5, StepStays
<1> QED BY <1>2, <1>3, <1>4, <1>6

\* A payload length that is no positive int preserves the invariant.
LEMMA PayloadNarrowedKeeps ==
  ASSUME IInv, PayloadNarrowed
  PROVE  IInv'
<1>1. SentInv /\ TypeInv /\ SizeInv /\ WithinMaximum BY DEF IInv
<1>2. /\ Unmoved /\ eof' = eof /\ pos \in Nat /\ pos' = pos /\ pos' <= Written
      /\ failures' = failures /\ reads' = reads /\ pc = "payload" /\ ~Step'
  BY Narrowed
<1>3. SentInv' /\ Written' = Written BY <1>1, <1>2, SentStays
<1>4. PlaceInv' BY <1>2 DEF PlaceInv
<1>5. CASE pc' = "closed" /\ UNCHANGED <<left, header, got>>
  <2>1. TypeInv' BY <1>1, <1>2, <1>3, <1>5 DEF TypeInv, Unmoved
  <2>2. SizeInv' BY <1>1, <1>2, <1>5 DEF SizeInv, Unmoved
  <2>3. WithinMaximum' BY <1>1, <1>2, <1>5 DEF WithinMaximum, Unmoved
  <2> QED BY <1>3, <1>4, <2>1, <2>2, <2>3 DEF IInv
<1>6. CASE Handle(header, FALSE)
  <2>1. reader = "server" => header.size = 0 \/ header.size + HeaderSize <= maximum
    BY <1>1, <1>2 DEF SizeInv
  <2>2. /\ header \in Headers /\ pos' \in Nat /\ failures' \in 0 .. MaxFailures
        /\ reads' \in {"whole", "split", "torn"}
    BY <1>1, <1>2 DEF TypeInv
  <2>3. TypeInv' /\ SizeInv' /\ WithinMaximum'
    BY <1>1, <1>2, <1>6, <2>1, <2>2, HandleKeeps
  <2> QED BY <1>3, <1>4, <2>3 DEF IInv
<1> QED BY <1>5, <1>6 DEF PayloadNarrowed

\* A read that returns -1 preserves the invariant.
LEMMA ReadFailsKeeps ==
  ASSUME IInv, ReadFails
  PROVE  IInv'
<1>1. SentInv /\ TypeInv /\ SizeInv /\ WithinMaximum BY DEF IInv
<1>2. /\ Unmoved /\ eof' = eof /\ pos' = pos
      /\ failures < MaxFailures /\ failures' = failures + 1 /\ reads' = "torn"
  BY DEF ReadFails, Unmoved
<1>3. SentInv' /\ Written' = Written BY <1>1, <1>2, SentStays
<1>4. failures \in Nat /\ failures' \in 0 .. MaxFailures /\ HeaderSize \in Nat
  BY <1>1, <1>2, Numbers DEF TypeInv
<1>5. PlaceInv' BY <1>2 DEF PlaceInv, Step
<1>6. CASE left > 0 /\ left' = AsInt(left + 1) /\ UNCHANGED <<pc, header, got>>
  <2>1. left + 1 \in Nat BY <1>1, <1>6 DEF TypeInv
  <2>2. left' \in Int /\ -Half <= left' /\ left' <= Half BY <1>6, <2>1, Narrowing
  <2>3. ASSUME pc' = "header" PROVE left' \in 1 .. HeaderSize + failures'
    <3>1. left \in 1 .. HeaderSize + failures BY <1>1, <1>6, <2>3 DEF TypeInv
    <3>2. left + 1 \in 1 .. HeaderSize + failures' BY <1>2, <1>4, <3>1
    <3>3. FitsInt(left + 1) BY <1>4, <3>2, Numbers DEF FitsInt
    <3> QED BY <1>6, <2>1, <3>2, <3>3, Narrowing
  <2>4. TypeInv' BY <1>1, <1>2, <1>3, <1>4, <1>6, <2>2, <2>3 DEF TypeInv, Unmoved
  <2>5. SizeInv' BY <1>1, <1>2, <1>6 DEF SizeInv, Unmoved
  <2>6. WithinMaximum' BY <1>1, <1>2, <1>6 DEF WithinMaximum, Unmoved
  <2> QED BY <1>3, <1>5, <2>4, <2>5, <2>6 DEF IInv
<1>7. CASE pc = "payload" /\ Handle(header, FALSE)
  <2>1. reader = "server" => header.size = 0 \/ header.size + HeaderSize <= maximum
    BY <1>1, <1>7 DEF SizeInv
  <2>2. header \in Headers /\ pos' \in Nat /\ pos' <= Written BY <1>1, <1>2 DEF TypeInv
  <2>3. TypeInv' /\ SizeInv' /\ WithinMaximum'
    BY <1>1, <1>2, <1>4, <1>7, <2>1, <2>2, HandleKeeps
  <2> QED BY <1>3, <1>5, <2>3 DEF IInv
<1>8. CASE pc = "header" /\ UNCHANGED <<pc, left, header, got>>
  <2>1. left' \in 1 .. HeaderSize + failures'
    <3>1. left \in 1 .. HeaderSize + failures BY <1>1, <1>8 DEF TypeInv
    <3> QED BY <1>2, <1>4, <1>8, <3>1
  <2>2. TypeInv' BY <1>1, <1>2, <1>3, <1>4, <1>8, <2>1 DEF TypeInv, Unmoved
  <2>3. SizeInv' BY <1>1, <1>2, <1>8 DEF SizeInv, Unmoved
  <2>4. WithinMaximum' BY <1>1, <1>2, <1>8 DEF WithinMaximum, Unmoved
  <2> QED BY <1>3, <1>5, <2>2, <2>3, <2>4 DEF IInv
<1> QED BY <1>6, <1>7, <1>8 DEF ReadFails

\* The end of the stream, and the peer closing its own.
LEMMA EndsKeep ==
  ASSUME IInv, Unmoved, UNCHANGED <<pos, left, header, got, failures, reads>>,
         eof' \in BOOLEAN, pc' \in {pc, "closed"}
  PROVE  IInv'
<1>1. SentInv /\ TypeInv /\ SizeInv /\ WithinMaximum /\ PlaceInv BY DEF IInv
<1>2. SentInv' /\ Written' = Written BY <1>1, SentStays
<1>3. TypeInv' BY <1>1, <1>2 DEF TypeInv, Unmoved
<1>4. SizeInv' BY <1>1 DEF SizeInv, Unmoved
<1>5. WithinMaximum' BY <1>1 DEF WithinMaximum, Unmoved
<1>6. PlaceInv'
  <2>1. Boundary' <=> Boundary BY SentStays DEF Boundary, Unmoved
  <2>2. sent' = sent /\ reader' = reader /\ maximum' = maximum BY DEF Unmoved
  <2>3. Inside' <=> Inside BY <2>2 DEF Inside, Passes, Acceptable, End
  <2>4. Received' = Received /\ (OutOfStep' <=> OutOfStep)
    BY <2>2 DEF Received, OutOfStep, Passes, Acceptable, Start, End
  <2>5. (Taken' <=> Taken) /\ (Step' <=> Step) BY <2>4 DEF Taken, Step
  <2> QED BY <1>1, <2>1, <2>3, <2>5 DEF PlaceInv
<1> QED BY <1>2, <1>3, <1>4, <1>5, <1>6 DEF IInv

\* Every step preserves the invariant.
LEMMA NextKeeps == IInv /\ [Next]_vars => IInv'
<1> SUFFICES ASSUME IInv, [Next]_vars PROVE IInv' OBVIOUS
<1>1. eof \in BOOLEAN BY DEF IInv, TypeInv
<1>2. ASSUME NEW m \in Messages, msg_send(m) \/ PeerSends(m) PROVE IInv'
  BY <1>2, Sends, SendKeeps
<1>3. CASE Close BY <1>1, <1>3, EndsKeep DEF Close, Unmoved
<1>4. CASE EndOfStream BY <1>1, <1>4, EndsKeep DEF EndOfStream, Unmoved
<1>5. ASSUME NEW n \in 1 .. left, HeaderPiece(n) PROVE IInv' BY <1>5, HeaderPieceKeeps
<1>6. ASSUME NEW n \in 1 .. left, PayloadPiece(n) PROVE IInv' BY <1>6, PayloadPieceKeeps
<1>7. CASE HeaderComplete BY <1>7, HeaderCompleteKeeps
<1>8. CASE PayloadComplete BY <1>8, PayloadCompleteKeeps
<1>9. CASE ReadFails BY <1>9, ReadFailsKeeps
<1>10. CASE PayloadNarrowed BY <1>10, PayloadNarrowedKeeps
<1>11. CASE UNCHANGED vars BY <1>1, <1>11, EndsKeep DEF vars, Unmoved
<1> QED BY <1>2, <1>3, <1>4, <1>5, <1>6, <1>7, <1>8, <1>9, <1>10, <1>11 DEF Next, Receive

-----------------------------------------------------------------------------
(* The refinement of MessageQueue *)

\* The value of Kind is always one of the three.
LEMMA KindTyped == \A i : Kind(sent[i]) \in Queue!Kinds
BY DEF Kind, Queue!Kinds

\* The queue has an entry for every message sent.
LEMMA QueueBar ==
  ASSUME SentInv
  PROVE  /\ Len(sent) \in Nat /\ DOMAIN sent = 1 .. Len(sent)
         /\ queueBar \in Seq(Queue!Kinds) /\ Len(queueBar) = Len(sent)
         /\ DOMAIN queueBar = 1 .. Len(sent)
         /\ \A i \in 1 .. Len(sent) :
              /\ queueBar[i] = Kind(sent[i])
              /\ queueBar[i] = "wanted" <=> Passes(sent[i]) /\ Acceptable(sent[i])
              /\ queueBar[i] = "harmful" <=> ~Passes(sent[i])
<1>1. Len(sent) \in Nat /\ DOMAIN sent = 1 .. Len(sent) BY DEF SentInv
<1>2. queueBar \in [1 .. Len(sent) -> Queue!Kinds] BY <1>1, KindTyped DEF queueBar
<1>3. queueBar \in Seq(Queue!Kinds) /\ Len(queueBar) = Len(sent) BY <1>1, <1>2
<1>4. \A i \in 1 .. Len(sent) :
        /\ queueBar[i] = Kind(sent[i])
        /\ queueBar[i] = "wanted" <=> Passes(sent[i]) /\ Acceptable(sent[i])
        /\ queueBar[i] = "harmful" <=> ~Passes(sent[i])
  BY <1>1 DEF queueBar, Kind
<1> QED BY <1>1, <1>2, <1>3, <1>4

\* The history of the messages taken, by their index.
LEMMA TakenBar ==
  ASSUME got \in Seq(Gotten)
  PROVE  /\ takenBar \in Seq(Nat) /\ Len(takenBar) = Len(got)
         /\ DOMAIN takenBar = DOMAIN got
         /\ \A k \in DOMAIN got : takenBar[k] = got[k].msg
<1>1. DOMAIN got = 1 .. Len(got) /\ Len(got) \in Nat /\ \A k \in 1 .. Len(got) : got[k].msg \in Nat
  <2>1. \A k \in 1 .. Len(got) : got[k] \in Gotten OBVIOUS
  <2> QED BY <2>1 DEF Gotten
<1>2. takenBar \in [1 .. Len(got) -> Nat] BY <1>1 DEF takenBar
<1>3. takenBar \in Seq(Nat) /\ Len(takenBar) = Len(got) BY <1>1, <1>2
<1> QED BY <1>1, <1>2, <1>3 DEF takenBar

\* Handling a message appends its index.
LEMMA TakenBarGrows ==
  ASSUME got \in Seq(Gotten), NEW i \in Nat, NEW s \in Nat, NEW own \in BOOLEAN,
         got' = Append(got, [msg |-> i, size |-> s, own |-> own])
  PROVE  takenBar' = Append(takenBar, i)
<1> DEFINE new == [msg |-> i, size |-> s, own |-> own]
           n == Len(got) + 1
<1>1. new.msg = i /\ new \in Gotten BY Zenon DEF Gotten
<1> HIDE DEF new
<1>2. got' = Append(got, new) BY DEF new
<1>3. /\ Len(got) \in Nat /\ DOMAIN got = 1 .. Len(got)
      /\ DOMAIN got' = 1 .. n /\ got'[n] = new
      /\ \A k \in 1 .. Len(got) : got'[k] = got[k]
  BY <1>1, <1>2
<1>4. /\ takenBar \in Seq(Nat) /\ Len(takenBar) = Len(got)
      /\ \A k \in 1 .. Len(got) : takenBar[k] = got[k].msg
  BY <1>3, TakenBar
<1>5. takenBar' = [k \in 1 .. n |-> got'[k].msg] BY <1>3 DEF takenBar
<1> DEFINE bar == takenBar
           appended == Append(bar, i)
<1>6. bar \in Seq(Nat) /\ Len(bar) \in Nat /\ Len(bar) + 1 = n BY <1>3, <1>4
<1> HIDE DEF bar
<1>7. /\ appended \in [1 .. Len(bar) + 1 -> Nat] /\ appended[Len(bar) + 1] = i
      /\ \A k \in 1 .. Len(bar) : appended[k] = bar[k]
  <2>1. appended \in Seq(Nat) /\ Len(appended) = Len(bar) + 1 BY <1>6
  <2>2. appended[Len(bar) + 1] = i /\ \A k \in 1 .. Len(bar) : appended[k] = bar[k] BY <1>6
  <2> HIDE DEF appended
  <2> QED BY <2>1, <2>2
<1> HIDE DEF appended, n
<1>8. appended = [k \in 1 .. n |-> appended[k]] BY <1>6, <1>7
<1>9. ASSUME NEW k \in 1 .. n PROVE got'[k].msg = appended[k]
  <2>1. CASE k = n BY <1>1, <1>3, <1>6, <1>7, <2>1
  <2>2. CASE k # n
    <3>1. k \in 1 .. Len(got) /\ k \in 1 .. Len(bar) BY <1>3, <1>4, <1>6, <2>2 DEF n, bar
    <3> QED BY <1>3, <1>4, <1>7, <3>1 DEF bar
  <2> QED BY <2>1, <2>2
<1>10. takenBar' = appended BY <1>5, <1>8, <1>9
<1> QED BY <1>10 DEF appended, bar

\* The queue is the sender's alone.
LEMMA QueueStays == Unmoved => queueBar' = queueBar
BY DEF Unmoved, queueBar, Kind, Passes, Acceptable

\* While a reader in step is within message i, it is done with all messages before
\* it and with none from it on.
LEMMA DueNext ==
  ASSUME SentInv, TypeInv, Step, Taken, NEW i \in 1 .. Len(sent), Start(i) <= pos, pos < End(i)
  PROVE  Queue!Due(i)
<1>1. /\ Len(sent) \in Nat /\ pos \in Nat /\ got \in Seq(Gotten)
      /\ \A j \in 1 .. Len(sent) : Start(j) \in Nat /\ End(j) \in Nat /\ Start(j) < End(j)
  BY Fields DEF TypeInv
<1>2. i \in DOMAIN queueBar BY QueueBar
<1>3. ASSUME NEW j \in 1 .. i - 1
      PROVE  queueBar[j] # "harmful" /\ (queueBar[j] = "wanted" => Queue!HasTaken(j))
  <2>1. j \in 1 .. Len(sent) /\ j < i BY <1>1
  <2>2. End(j) <= pos
    <3>1. End(j) <= Start(i) BY <2>1, Ordered
    <3> QED BY <3>1, <2>1, <1>1
  <2>3. Start(j) < pos BY <2>1, <2>2, <1>1
  <2>4. queueBar[j] # "harmful"
    <3>1. Passes(sent[j]) BY <2>1, <2>3 DEF Step, OutOfStep
    <3> QED BY <2>1, <3>1, QueueBar
  <2>5. ASSUME queueBar[j] = "wanted" PROVE Queue!HasTaken(j)
    <3>1. Acceptable(sent[j]) BY <2>1, <2>5, QueueBar
    <3>2. j \in Received BY <2>1, <2>2, <3>1 DEF Received
    <3>3. PICK k \in DOMAIN got : got[k].msg = j BY <3>2 DEF Taken
    <3> QED BY <1>1, <3>3, TakenBar DEF Queue!HasTaken
  <2> QED BY <2>4, <2>5
<1>4. ASSUME NEW k \in DOMAIN takenBar PROVE takenBar[k] < i
  <2>1. k \in DOMAIN got /\ takenBar[k] = got[k].msg BY <1>1, TakenBar
  <2>2. got[k].msg \in Received BY <2>1 DEF Taken
  <2>3. \A j \in Received : j < i
    <3> SUFFICES ASSUME NEW j \in Received PROVE j < i OBVIOUS
    <3>1. j \in 1 .. Len(sent) /\ End(j) <= pos BY DEF Received
    <3>2. End(j) < End(i) BY <3>1, <1>1
    <3>3. ~(i < j)
      <4>1. i < j => End(i) < End(j) BY <3>1, Ordered
      <4> QED BY <3>1, <3>2, <4>1, <1>1
    <3>4. j # i BY <3>2, <1>1
    <3> QED BY <3>1, <3>3, <3>4, <1>1
  <2> QED BY <2>1, <2>2, <2>3
<1> QED BY <1>2, <1>3, <1>4 DEF Queue!Due

\* A reader that goes on within message i, in step, remains in step if the message
\* passes.
LEMMA StepRemains ==
  ASSUME SentInv, Unmoved, Step, pos \in Nat, pos' \in Nat, reads' # "torn",
         NEW i \in 1 .. Len(sent), Start(i) <= pos, pos' <= End(i), Passes(sent[i])
  PROVE  Step'
<1> SUFFICES ASSUME OutOfStep' PROVE FALSE BY DEF Step
<1>1. PICK j \in 1 .. Len(sent') : (Start(j) < pos /\ ~Passes(sent[j]))'
  <2>1. \E j \in 1 .. Len(sent') : Start(j)' < pos' /\ ~Passes(sent[j])'
    BY DEF OutOfStep, Start, Passes, Acceptable
  <2> QED BY <2>1
<1>2. j \in 1 .. Len(sent) /\ Start(j) < pos' /\ ~Passes(sent[j])
  BY <1>1, SentStays DEF Unmoved
<1>3. /\ Start(i) \in Nat /\ End(i) \in Nat /\ Start(j) \in Nat /\ End(j) \in Nat
      /\ Start(j) < End(j) /\ i \in Nat /\ j \in Nat
  BY <1>2, Fields
<1>4. j # i BY <1>2
<1>5. CASE j < i
  <2>1. End(j) <= Start(i) BY <1>2, <1>5, Ordered
  <2>2. Start(j) < pos BY <1>3, <2>1
  <2> QED BY <1>2, <2>2 DEF Step, OutOfStep
<1>6. CASE i < j
  <2>1. End(i) <= Start(j) BY <1>2, <1>6, Ordered
  <2> QED BY <1>2, <1>3, <2>1
<1> QED BY <1>3, <1>4, <1>5, <1>6

\* In step the place is kept, otherwise it is not.
LEMMA PlaceBar == (placeBar = "kept" <=> Step) /\ placeBar \in {"kept", "lost", "torn"}
BY DEF placeBar, Step

\* Out of step, or with a read that goes wrong, whatever the receiver does is a
\* step of a reader that strays.
LEMMA Strays ==
  ASSUME IInv, Unmoved, eof' = eof, pos \in Nat, pos' \in Nat, pos <= pos',
         pc # "closed", pc' # "closed", reads = "torn" => reads' = "torn",
         ~Step \/ reads' = "torn",
         \/ got' = got
         \/ \E h \in Headers, own \in BOOLEAN : h.msg <= Len(sent) /\ Handle(h, own)
  PROVE  Queue!Stray
<1>1. SentInv /\ TypeInv BY DEF IInv
<1>2. queueBar' = queueBar BY QueueStays
<1>3. endedBar = FALSE /\ endedBar' = FALSE BY DEF endedBar
<1>4. placeBar' \in {placeBar, "torn"} \ {"kept"}
  <2>1. placeBar' # "kept" BY <1>1, StepStays DEF placeBar, Step
  <2>2. CASE reads' = "torn" BY <2>1, <2>2 DEF placeBar
  <2>3. CASE reads' # "torn"
    <3>1. reads # "torn" /\ OutOfStep BY <2>3 DEF Step
    <3>2. OutOfStep' BY <1>1, <3>1, OutOfStepStays
    <3> QED BY <2>1, <2>3, <3>1, <3>2 DEF placeBar
  <2> QED BY <2>2, <2>3
<1>5. takenBar' = takenBar \/ \E i \in 0 .. Len(queueBar) : takenBar' = Append(takenBar, i)
  <2>1. CASE got' = got BY <2>1 DEF takenBar
  <2>2. CASE \E h \in Headers, own \in BOOLEAN : h.msg <= Len(sent) /\ Handle(h, own)
    <3>1. PICK h \in Headers, own \in BOOLEAN : h.msg <= Len(sent) /\ Handle(h, own)
      BY <2>2
    <3>2. h.msg \in Nat /\ h.size \in Nat BY Numbers DEF Headers
    <3>3. got \in Seq(Gotten) BY <1>1 DEF TypeInv
    <3>4. got' = Append(got, [msg |-> h.msg, size |-> h.size, own |-> own])
      BY <3>1 DEF Handle
    <3>5. takenBar' = Append(takenBar, h.msg) BY <3>2, <3>3, <3>4, TakenBarGrows
    <3>6. h.msg \in 0 .. Len(queueBar) BY <1>1, <3>1, <3>2, QueueBar
    <3> QED BY <3>5, <3>6
  <2> QED BY <2>1, <2>2
<1> QED BY <1>2, <1>3, <1>4, <1>5 DEF Queue!Stray

\* In step, a message handled as it is due is taken from the queue.
LEMMA Takes ==
  ASSUME IInv, Unmoved, eof' = eof, Step, Step', pc # "closed", pc' # "closed",
         NEW i \in 1 .. Len(sent), Start(i) <= pos, pos < End(i),
         Passes(sent[i]), Acceptable(sent[i]),
         NEW h \in Headers, h.msg = i, NEW own \in BOOLEAN, Handle(h, own)
  PROVE  Queue!Take
<1>1. SentInv /\ TypeInv /\ Taken BY DEF IInv, PlaceInv
<1>2. Queue!Due(i) /\ i \in DOMAIN queueBar /\ queueBar[i] = "wanted"
  BY <1>1, DueNext, QueueBar
<1>3. takenBar' = Append(takenBar, i)
  <2>1. h.msg \in Nat /\ h.size \in Nat /\ got \in Seq(Gotten)
    BY <1>1, Numbers DEF Headers, TypeInv
  <2>2. got' = Append(got, [msg |-> i, size |-> h.size, own |-> own]) BY DEF Handle
  <2> QED BY <2>1, <2>2, TakenBarGrows
<1>4. placeBar = "kept" /\ placeBar' = "kept" BY DEF placeBar, Step
<1>5. ~endedBar /\ endedBar' = endedBar BY DEF endedBar
<1> QED BY <1>2, <1>3, <1>4, <1>5, QueueStays DEF Queue!Take

\* A step in step that handles nothing is none of the queue's.
LEMMA Stutters ==
  ASSUME Unmoved, eof' = eof, Step, Step', got' = got, pc # "closed", pc' # "closed"
  PROVE  UNCHANGED Queue!vars
<1>1. placeBar = "kept" /\ placeBar' = "kept" BY DEF placeBar, Step
<1>2. endedBar' = endedBar BY DEF endedBar
<1>3. takenBar' = takenBar BY DEF takenBar
<1> QED BY <1>1, <1>2, <1>3, QueueStays DEF Queue!vars

\* Before anything is sent the queue is empty and the reader at its start.
LEMMA QueueInit == Init => Queue!Init
<1> SUFFICES ASSUME Init PROVE Queue!Init OBVIOUS
<1>1. sent = <<>> /\ got = <<>> /\ eof = FALSE /\ pc = "header" /\ reads = "whole" BY DEF Init
<1>2. DOMAIN sent = {} /\ DOMAIN got = {} /\ 1 .. Len(sent) = {} BY <1>1
<1>3. queueBar = <<>> /\ takenBar = <<>> BY <1>2 DEF queueBar, takenBar
<1>4. ~OutOfStep BY <1>2 DEF OutOfStep
<1>5. placeBar = "kept" /\ endedBar = FALSE BY <1>1, <1>4 DEF placeBar, endedBar
<1> QED BY <1>1, <1>3, <1>5 DEF Queue!Init

\* What is written is put at the end of the queue, whatever the reader does.
LEMMA SendQueues ==
  ASSUME IInv, NEW m \in Messages, NEW length \in Nat \ {0}, Write(m, length)
  PROVE  \E kind \in Queue!Kinds : Queue!Send(kind)
<1>1. SentInv /\ TypeInv BY DEF IInv
<1>2. /\ SentInv'
      /\ Len(sent') = Len(sent) + 1
      /\ \A i \in 1 .. Len(sent) : sent'[i] = sent[i] /\ Start(i)' = Start(i)
      /\ sent'[Len(sent) + 1].start = Written
  BY <1>1, WriteSent
<1>3. UNCHANGED <<reader, maximum, eof, pos, pc, got, reads>> /\ ~eof BY DEF Write
<1>4. /\ Len(sent) \in Nat /\ Written \in Nat /\ HeaderSize \in Nat /\ HeaderSize >= 1
      /\ pos \in Nat /\ pos <= Written
      /\ 1 .. Len(sent') = 1 .. Len(sent) \cup {Len(sent) + 1}
  <2>1. Len(sent) \in Nat /\ Written \in Nat BY <1>1, Fields
  <2>2. 1 .. Len(sent') = 1 .. Len(sent) \cup {Len(sent) + 1} BY <2>1, <1>2
  <2> QED BY <1>1, <2>1, <2>2, Numbers DEF TypeInv
<1>5. \A i \in 1 .. Len(sent) : /\ Passes(sent[i])' <=> Passes(sent[i])
                                /\ Kind(sent[i])' = Kind(sent[i])
  BY <1>2, <1>3 DEF Passes, Acceptable, Kind
<1>6. OutOfStep' <=> OutOfStep
  <2>1. OutOfStep' <=> \E i \in 1 .. Len(sent') : Start(i)' < pos' /\ ~Passes(sent[i])'
    BY DEF OutOfStep, Start, Passes, Acceptable
  <2>2. \A i \in {Len(sent) + 1} : ~(Start(i)' < pos')
    <3>1. \A i \in {Len(sent) + 1} : Start(i)' = Written BY <1>2 DEF Start
    <3>2. ~(Written < pos') BY <1>3, <1>4
    <3> QED BY <3>1, <3>2
  <2>3. \A i \in 1 .. Len(sent) :
          Start(i)' < pos' /\ ~Passes(sent[i])' <=> Start(i) < pos /\ ~Passes(sent[i])
    BY <1>2, <1>3, <1>5
  <2> QED BY <1>4, <2>1, <2>2, <2>3 DEF OutOfStep
<1> PICK new : sent'[Len(sent) + 1] = new OBVIOUS
<1> DEFINE bar == queueBar
           kind == Kind(new)
<1>7. kind \in Queue!Kinds BY DEF Kind, Queue!Kinds
<1>8. queueBar' = Append(queueBar, kind)
  <2>1. /\ bar \in Seq(Queue!Kinds) /\ Len(bar) = Len(sent)
        /\ \A i \in 1 .. Len(sent) : bar[i] = Kind(sent[i])
    BY <1>1, QueueBar
  <2>2. DOMAIN sent' = 1 .. Len(sent) + 1 BY <1>2 DEF SentInv
  <2>3. queueBar' = [i \in 1 .. Len(sent) + 1 |-> Kind(sent[i])'] BY <2>2 DEF queueBar, Kind, Passes, Acceptable
  <2>4. \A i \in {Len(sent) + 1} : Kind(sent[i])' = kind BY <1>3 DEF Kind, Passes, Acceptable
  <2> HIDE DEF bar, kind
  <2> DEFINE appended == Append(bar, kind)
             n == Len(sent) + 1
  <2>5. /\ appended \in Seq(Queue!Kinds) /\ Len(appended) = n /\ appended[n] = kind
        /\ \A i \in 1 .. Len(sent) : appended[i] = bar[i]
    BY <1>7, <2>1
  <2> HIDE DEF appended
  <2>6. appended = [i \in 1 .. n |-> appended[i]] BY <2>5, <1>4
  <2>7. \A i \in 1 .. n : appended[i] = Kind(sent[i])'
    <3>1. \A i \in 1 .. Len(sent) : appended[i] = Kind(sent[i])' BY <2>1, <2>5, <1>5
    <3>2. 1 .. n = 1 .. Len(sent) \cup {n} BY <1>4
    <3> QED BY <3>1, <3>2, <2>4, <2>5
  <2>8. queueBar' = appended BY <2>3, <2>6, <2>7
  <2> QED BY <2>8 DEF appended, bar
<1>9. placeBar' = placeBar BY <1>3, <1>6 DEF placeBar
<1>10. takenBar' = takenBar /\ endedBar' = endedBar BY <1>3 DEF takenBar, endedBar
<1> QED BY <1>3, <1>7, <1>8, <1>9, <1>10 DEF Queue!Send

\* A header read at once: the message is taken, if it is wanted and has no payload;
\* the place is lost, if it does not pass.
LEMMA HeaderCompleteQueues ==
  ASSUME IInv, HeaderComplete
  PROVE  Queue!Take \/ Queue!Lose \/ Queue!Stray \/ UNCHANGED Queue!vars
<1>1. SentInv /\ TypeInv /\ SizeInv /\ PlaceInv BY DEF IInv
<1>2. pc = "header" /\ tcp_read(left) /\ reads' = reads BY DEF HeaderComplete
<1>3. /\ Unmoved /\ eof' = eof /\ pos \in Nat /\ pos' \in Nat /\ pos <= pos' /\ left \in Nat
  BY <1>1, <1>2, Reads
<1> DEFINE Own0(h) == h.msg # Unknown /\ h.size = 0
<1>4. PICK h \in Decoded(left) :
         \/ /\ Refused(h)
            /\ UNCHANGED <<pc, header, got>>
         \/ /\ ~Refused(h) /\ NoPayload(h)
            /\ Handle(h, Own0(h))
         \/ /\ ~Refused(h) /\ ~NoPayload(h)
            /\ pc' = "payload"
            /\ UNCHANGED got
  BY DEF HeaderComplete
<1>5. h \in Headers /\ h.msg <= Len(sent) /\ Own0(h) \in BOOLEAN BY <1>1, <1>3, Decodes
<1>6. pc # "closed" /\ pc' # "closed" BY <1>2, <1>4 DEF Handle
<1>7. got' = got \/ Handle(h, Own0(h)) BY <1>4
<1> DEFINE own == Own0(h)
<1>8. CASE ~Step
  <2>1. own \in BOOLEAN /\ (got' = got \/ Handle(h, own)) BY <1>5, <1>7
  <2> HIDE DEF own
  <2>2. Queue!Stray BY <1>2, <1>3, <1>5, <1>6, <1>8, <2>1, Strays
  <2> QED BY <2>2
<1>9. CASE Step
  <2>1. PICK i \in 1 .. Len(sent) :
          /\ Start(i) = pos /\ pos < pos' /\ h.msg \in {Unknown, i}
          /\ Passes(sent[i]) =>
               /\ pos' = Start(i) + HeaderSize
               /\ h.msg = i /\ h.size = sent[i].size /\ (Refused(h) <=> ~Acceptable(sent[i]))
               /\ NoPayload(h) <=> sent[i].size = 0
    BY <1>2, <1>9, HeaderInStep
  <2>2. /\ Start(i) \in Nat /\ End(i) \in Nat /\ Start(i) < End(i) /\ sent[i].size \in Nat
        /\ Passes(sent[i]) => End(i) = Start(i) + HeaderSize + sent[i].size
        /\ HeaderSize \in Nat
    BY <1>1, Fields, Numbers
  <2>3. Start(i) <= pos /\ pos < End(i) BY <2>1, <2>2
  <2>4. reads' # "torn" BY <1>2, <1>9 DEF Step
  <2>5. CASE Passes(sent[i])
    <3>1. pos' <= End(i) BY <2>1, <2>2, <2>5
    <3>2. Step' BY <1>1, <1>3, <1>9, <2>3, <2>4, <2>5, <3>1, StepRemains
    <3>3. CASE got' = got
      <4>1. UNCHANGED Queue!vars BY <1>3, <1>6, <1>9, <3>2, <3>3, Stutters
      <4> QED BY <4>1
    <3>4. CASE ~Refused(h) /\ Handle(h, Own0(h))
      <4>1. Acceptable(sent[i]) /\ h.msg = i BY <2>1, <2>5, <3>4
      <4>2. own \in BOOLEAN /\ Handle(h, own) BY <1>5, <3>4
      <4> HIDE DEF own
      <4>3. Queue!Take BY <1>3, <1>5, <1>6, <1>9, <2>3, <2>5, <3>2, <4>1, <4>2, Takes
      <4> QED BY <4>3
    <3> QED BY <1>4, <3>3, <3>4
  <2>6. CASE ~Passes(sent[i])
    <3>1. OutOfStep'
      <4>1. i \in 1 .. Len(sent') /\ (Start(i) < pos /\ ~Passes(sent[i]))'
        BY <1>3, <2>1, <2>6, SentStays DEF Unmoved
      <4> QED BY <4>1 DEF OutOfStep, Passes, Acceptable, Start
    <3>2. takenBar' = takenBar \/ \E j \in {0, i} : takenBar' = Append(takenBar, j)
      <4>1. CASE got' = got BY <4>1 DEF takenBar
      <4>2. CASE Handle(h, Own0(h))
        <5>1. h.msg \in Nat /\ h.size \in Nat /\ got \in Seq(Gotten)
          BY <1>1, <1>5, Numbers DEF Headers, TypeInv
        <5>2. got' = Append(got, [msg |-> h.msg, size |-> h.size, own |-> own])
          BY <4>2 DEF Handle
        <5>3. own \in BOOLEAN BY <1>5
        <5> HIDE DEF own
        <5>4. takenBar' = Append(takenBar, h.msg) BY <5>1, <5>2, <5>3, TakenBarGrows
        <5>5. h.msg \in {0, i} BY <2>1 DEF Unknown
        <5> QED BY <5>4, <5>5
      <4> QED BY <1>7, <4>1, <4>2
    <3>3. placeBar = "kept" /\ placeBar' = "lost" BY <1>9, <2>4, <3>1 DEF placeBar, Step
    <3>4. queueBar' = queueBar BY <1>3, QueueStays
    <3>5. Taken BY <1>1, <1>9 DEF PlaceInv
    <3>6. Queue!Due(i) BY <1>1, <1>9, <2>3, <3>5, DueNext
    <3>7. i \in DOMAIN queueBar /\ queueBar[i] = "harmful" BY <1>1, <2>6, QueueBar
    <3>8. ~endedBar /\ endedBar' = endedBar BY <1>6 DEF endedBar
    <3>9. Queue!Lose BY <1>3, <3>2, <3>3, <3>4, <3>6, <3>7, <3>8 DEF Queue!Lose
    <3> QED BY <3>9
  <2> QED BY <2>5, <2>6
<1> QED BY <1>8, <1>9

\* A part of a payload: msg_receive reads on in its place, hs_process loses it.
LEMMA PayloadPieceQueues ==
  ASSUME IInv, NEW n \in 1 .. left, PayloadPiece(n)
  PROVE  Queue!Stray \/ UNCHANGED Queue!vars
<1>1. SentInv /\ TypeInv /\ PlaceInv BY DEF IInv
<1>2. n < left /\ tcp_read(n) /\ pc = "payload" BY DEF PayloadPiece
<1>3. /\ Unmoved /\ eof' = eof /\ pos \in Nat /\ pos' \in Nat /\ pos <= pos'
      /\ pos' = pos + n /\ left \in Nat /\ n \in Nat
  BY <1>1, <1>2, Reads
<1>4. header \in Headers /\ header.msg <= Len(sent) BY <1>1 DEF TypeInv
<1>5. CASE reader = "client" /\ reads' = Worst("split") /\ UNCHANGED <<pc, header, got>>
  <2>1. /\ reads = "torn" => reads' = "torn"
        /\ reads # "torn" => reads' # "torn"
        /\ got' = got /\ pc # "closed" /\ pc' # "closed"
    BY <1>2, <1>5 DEF Worst
  <2>2. CASE ~Step
    <3>1. Queue!Stray BY <1>3, <2>1, <2>2, Strays
    <3> QED BY <3>1
  <2>3. CASE Step
    <3>1. Inside BY <1>1, <1>2, <2>3 DEF PlaceInv
    <3>2. PICK i \in 1 .. Len(sent) : i = header.msg BY <3>1 DEF Inside
    <3>3. /\ header.size = sent[i].size /\ Passes(sent[i]) /\ pos + left = End(i)
          /\ left \in 1 .. header.size
      BY <3>1, <3>2 DEF Inside
    <3>4. /\ Start(i) \in Nat /\ End(i) \in Nat /\ sent[i].size \in Nat /\ HeaderSize \in Nat
          /\ End(i) = Start(i) + HeaderSize + sent[i].size
      BY <1>1, <3>3, Fields, Numbers
    <3>5. Start(i) <= pos /\ pos' <= End(i) BY <1>2, <1>3, <3>3, <3>4
    <3>6. reads' # "torn" BY <2>1, <2>3 DEF Step
    <3>7. Step' BY <1>1, <1>3, <2>3, <3>3, <3>5, <3>6, StepRemains
    <3>8. UNCHANGED Queue!vars BY <1>3, <2>1, <2>3, <3>7, Stutters
    <3> QED BY <3>8
  <2> QED BY <2>2, <2>3
<1>6. CASE reads' = "torn" /\ Handle(header, FALSE)
  <2>1. pc # "closed" /\ pc' # "closed" BY <1>2, <1>6 DEF Handle
  <2>2. Queue!Stray BY <1>3, <1>4, <1>6, <2>1, Strays
  <2> QED BY <2>2
<1> QED BY <1>5, <1>6 DEF PayloadPiece

\* The last part of a payload: the message is taken.
LEMMA PayloadCompleteQueues ==
  ASSUME IInv, PayloadComplete
  PROVE  Queue!Take \/ Queue!Stray
<1>1. SentInv /\ TypeInv /\ PlaceInv BY DEF IInv
<1>2. pc = "payload" /\ tcp_read(left) /\ reads' = reads /\ Handle(header, Own(left))
  BY DEF PayloadComplete
<1>3. left \in Nat BY <1>1, <1>2, Reads
<1>4. /\ Unmoved /\ eof' = eof /\ pos \in Nat /\ pos' \in Nat /\ pos' = pos + left
      /\ pos <= pos' /\ left >= 1
  BY <1>1, <1>2, <1>3, Reads
<1>5. header \in Headers /\ header.msg <= Len(sent) /\ Own(left) \in BOOLEAN
  BY <1>1 DEF TypeInv, Own
<1>6. pc # "closed" /\ pc' # "closed" BY <1>2 DEF Handle
<1>7. CASE ~Step
  <2>1. Queue!Stray BY <1>2, <1>4, <1>5, <1>6, <1>7, Strays
  <2> QED BY <2>1
<1>8. CASE Step
  <2>1. Inside BY <1>1, <1>2, <1>8 DEF PlaceInv
  <2>2. PICK i \in 1 .. Len(sent) : i = header.msg BY <2>1 DEF Inside
  <2>3. /\ header.size = sent[i].size /\ Acceptable(sent[i]) /\ Passes(sent[i])
        /\ pos + left = End(i) /\ left \in 1 .. header.size
    BY <2>1, <2>2 DEF Inside
  <2>4. /\ Start(i) \in Nat /\ End(i) \in Nat /\ sent[i].size \in Nat /\ HeaderSize \in Nat
        /\ End(i) = Start(i) + HeaderSize + sent[i].size
    BY <1>1, <2>3, Fields, Numbers
  <2>5. Start(i) <= pos /\ pos < End(i) /\ pos' <= End(i) BY <1>3, <1>4, <2>3, <2>4
  <2>6. reads' # "torn" BY <1>2, <1>8 DEF Step
  <2>7. Step' BY <1>1, <1>4, <1>8, <2>3, <2>5, <2>6, StepRemains
  <2>8. Queue!Take BY <1>2, <1>4, <1>5, <1>6, <1>8, <2>2, <2>3, <2>5, <2>7, Takes
  <2> QED BY <2>8
<1> QED BY <1>7, <1>8

\* A payload length that is no positive int: a reader out of its place takes the
\* message or meets what it takes for the end.
LEMMA PayloadNarrowedQueues ==
  ASSUME IInv, PayloadNarrowed
  PROVE  Queue!Stray \/ Queue!End
<1>1. TypeInv BY DEF IInv
<1>2. /\ Unmoved /\ eof' = eof /\ pos \in Nat /\ pos' = pos
      /\ reads' = reads /\ pc = "payload" /\ ~Step /\ ~Step'
  BY Narrowed
<1>3. pos <= pos' /\ pos' \in Nat BY <1>2
<1>4. CASE pc' = "closed" /\ UNCHANGED <<left, header, got>>
  <2>1. queueBar' = queueBar /\ takenBar' = takenBar BY <1>2, <1>4, QueueStays DEF takenBar
  <2>2. ~endedBar /\ endedBar' = TRUE BY <1>2, <1>4 DEF endedBar
  <2>3. placeBar # "kept" /\ placeBar' = placeBar
    <3>1. OutOfStep' <=> OutOfStep
      BY <1>2 DEF Unmoved, OutOfStep, Passes, Acceptable, Start
    <3> QED BY <1>2, <3>1 DEF placeBar, Step
  <2>4. Queue!End BY <1>2, <2>1, <2>2, <2>3 DEF Queue!End
  <2> QED BY <2>4
<1>5. CASE Handle(header, FALSE)
  <2>1. header \in Headers /\ header.msg <= Len(sent) BY <1>1 DEF TypeInv
  <2>2. pc # "closed" /\ pc' # "closed" BY <1>2, <1>5 DEF Handle
  <2>3. Queue!Stray BY <1>2, <1>3, <1>5, <2>1, <2>2, Strays
  <2> QED BY <2>3
<1> QED BY <1>4, <1>5 DEF PayloadNarrowed

\* The end of the stream: a reader in step has taken all that it wants.
LEMMA EndQueues ==
  ASSUME IInv, EndOfStream
  PROVE  Queue!End
<1>1. SentInv /\ TypeInv /\ PlaceInv BY DEF IInv
<1>2. /\ eof /\ pos = Written /\ pc # "closed" /\ pc' = "closed"
      /\ UNCHANGED <<reader, maximum, sent, eof, pos, got, reads>>
  BY DEF EndOfStream
<1>3. Unmoved /\ queueBar' = queueBar /\ takenBar' = takenBar /\ ~endedBar /\ endedBar'
  BY <1>2, QueueStays DEF Unmoved, takenBar, endedBar
<1>4. placeBar' = placeBar
  BY <1>2 DEF placeBar, OutOfStep, Start, Passes, Acceptable
<1>5. ASSUME placeBar = "kept", NEW i \in DOMAIN queueBar, queueBar[i] = "wanted"
      PROVE  Queue!HasTaken(i)
  <2>1. i \in 1 .. Len(sent) /\ Acceptable(sent[i]) BY <1>1, <1>5, QueueBar
  <2>2. End(i) <= pos BY <1>1, <1>2, <2>1 DEF SentInv
  <2>3. i \in Received BY <2>1, <2>2 DEF Received
  <2>4. Step BY <1>5, PlaceBar
  <2>5. Taken BY <1>1, <2>4 DEF PlaceInv
  <2>6. PICK k \in DOMAIN got : got[k].msg = i BY <2>3, <2>5 DEF Taken
  <2>7. got \in Seq(Gotten) BY <1>1 DEF TypeInv
  <2> QED BY <2>6, <2>7, TakenBar DEF Queue!HasTaken
<1>6. eof \in BOOLEAN /\ endedBar' = TRUE BY <1>1, <1>2 DEF TypeInv, endedBar
<1> QED BY <1>2, <1>3, <1>4, <1>5, <1>6 DEF Queue!End

\* Every step of the sender or of either reader is one of the queue, or none.
LEMMA QueueStep == IInv /\ [Next]_vars => [Queue!Next]_(Queue!vars)
<1> SUFFICES ASSUME IInv, [Next]_vars PROVE [Queue!Next]_(Queue!vars) OBVIOUS
<1>1. SentInv /\ TypeInv BY DEF IInv
<1>2. ASSUME NEW m \in Messages, msg_send(m) \/ PeerSends(m) PROVE Queue!Next
  BY <1>2, Sends, SendQueues DEF Queue!Next
<1>3. ASSUME Close PROVE Queue!Next
  <2>1. ~eof /\ eof' = TRUE /\ UNCHANGED <<reader, maximum, sent, pos, pc, got, reads>>
    BY <1>3 DEF Close
  <2>2. UNCHANGED <<queueBar, takenBar, placeBar, endedBar>>
    BY <2>1 DEF queueBar, Kind, takenBar, placeBar, endedBar, OutOfStep, Start, Passes, Acceptable
  <2>3. Queue!Close BY <2>1, <2>2 DEF Queue!Close
  <2> QED BY <2>3 DEF Queue!Next
<1>4. ASSUME NEW n \in 1 .. left, HeaderPiece(n) PROVE Queue!Next
  <2>1. tcp_read(n) /\ pc = "header" /\ pc' = pc /\ got' = got /\ reads' = "torn"
    BY <1>4 DEF HeaderPiece
  <2>2. Unmoved /\ eof' = eof /\ pos \in Nat /\ pos' \in Nat /\ pos <= pos'
    BY <1>1, <2>1, Reads
  <2>3. Queue!Stray BY <2>1, <2>2, Strays
  <2> QED BY <2>3 DEF Queue!Next
<1>5. ASSUME ReadFails PROVE Queue!Next
  <2>1. /\ Unmoved /\ eof' = eof /\ pos' = pos /\ reads' = "torn" /\ pc # "closed"
        /\ UNCHANGED <<pc, got>> \/ Handle(header, FALSE)
    BY <1>5 DEF ReadFails, Unmoved
  <2>2. pos \in Nat /\ header \in Headers /\ header.msg <= Len(sent) BY <1>1 DEF TypeInv
  <2>3. pc' # "closed" BY <2>1 DEF Handle
  <2>4. pos <= pos' /\ pos' \in Nat BY <2>1, <2>2
  <2>5. Queue!Stray BY <2>1, <2>2, <2>3, <2>4, Strays
  <2> QED BY <2>5 DEF Queue!Next
<1>6. ASSUME NEW n \in 1 .. left, PayloadPiece(n) PROVE [Queue!Next]_(Queue!vars)
  BY <1>6, PayloadPieceQueues DEF Queue!Next
<1>7. ASSUME HeaderComplete PROVE [Queue!Next]_(Queue!vars)
  BY <1>7, HeaderCompleteQueues DEF Queue!Next
<1>8. ASSUME PayloadComplete PROVE [Queue!Next]_(Queue!vars)
  BY <1>8, PayloadCompleteQueues DEF Queue!Next
<1>9. ASSUME EndOfStream PROVE [Queue!Next]_(Queue!vars)
  BY <1>9, EndQueues DEF Queue!Next
<1>10. ASSUME UNCHANGED vars PROVE UNCHANGED Queue!vars
  BY <1>10 DEF vars, Queue!vars, queueBar, Kind, takenBar, placeBar, endedBar,
               OutOfStep, Start, Passes, Acceptable
<1>11. ASSUME PayloadNarrowed PROVE Queue!Next
  BY <1>11, PayloadNarrowedQueues DEF Queue!Next
<1> QED
  BY <1>2, <1>3, <1>4, <1>5, <1>6, <1>7, <1>8, <1>9, <1>10, <1>11 DEF Next, Receive

-----------------------------------------------------------------------------
(* The theorems *)

\* The inductive invariant of the stream and its reader holds in every state.
THEOREM IInvHolds == Spec => []IInv
BY InitHolds, NextKeeps, PTL DEF Spec

\* Every variable keeps its type, whatever is sent and however it is read.
THEOREM TypeCorrect == Spec => []TypeOK
<1>1. IInv => TypeOK
  <2> SUFFICES ASSUME IInv PROVE TypeOK OBVIOUS
  <2>1. SentInv /\ TypeInv BY DEF IInv
  <2>2. pos \in 0 .. Written BY <2>1, Fields DEF TypeInv
  <2>3. header.msg \in 0 .. Len(sent) BY <2>1, Fields DEF TypeInv, Headers
  <2>4. left \in -Half .. Half /\ (pc = "header" => left > 0)
    <3>1. Half \in Nat BY Numbers
    <3> QED BY <2>1, <3>1 DEF TypeInv
  <2> QED BY <2>1, <2>2, <2>3, <2>4 DEF TypeInv, TypeOK
<1> QED BY <1>1, IInvHolds, PTL

\* For any header size, messages and maximum: until a message does not pass (written
\* in part, refused with its payload, or with a payload longer than an int can say),
\* hs_process and msg_receive take every acceptable message once, in order and with
\* its own payload, as far as their reads allow.
THEOREM TakenOnce == Spec => []TakenInOrder
<1>1. IInv => TakenInOrder BY DEF IInv, PlaceInv, Step, Taken, TakenInOrder
<1> QED BY <1>1, IInvHolds, PTL

\* However a stream of any messages is read, even out of step, hs_process handles
\* no payload beyond config->message_size_max.
THEOREM SizesKept == Spec => []WithinMaximum
<1>1. IInv => WithinMaximum BY DEF IInv
<1> QED BY <1>1, IInvHolds, PTL

\* Every payload length, of any value of 64 bits, is in network byte order on
\* the wire.
THEOREM LengthsInNetworkOrder == Spec => []NetworkOrder
<1>1. IInv => NetworkOrder
  <2> SUFFICES ASSUME IInv, NEW i \in DOMAIN sent
               PROVE  InNetworkOrder(sent[i].payload_length, sent[i].size)
    BY DEF NetworkOrder
  <2>1. SentInv BY DEF IInv
  <2>2. i \in 1 .. Len(sent) BY <2>1 DEF SentInv
  <2>3. sent[i].payload_length = htonll(sent[i].size) /\ sent[i].size \in 0 .. WordSize - 1
    BY <2>1, <2>2, Fields DEF SentInv
  <2> QED BY <2>3, Conversions
<1> QED BY <1>1, IInvHolds, PTL

\* Whatever is sent and however it is read, both loops implement MessageQueue: in its
\* place a reader takes the oldest message it wants, and it keeps its place unless a
\* read comes short or it meets a message that does not pass, be it for a payload of
\* 2^31 bytes or more.
THEOREM QueueRefined == Spec => RefinesQueue
BY IInvHolds, QueueInit, QueueStep, PTL DEF Spec, RefinesQueue, Queue!Spec
================================================================================
