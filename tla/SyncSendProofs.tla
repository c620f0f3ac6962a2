---------------------------- MODULE SyncSendProofs ----------------------------
(***************************************************************************)
(* Theorems about SyncSend for words, headers, sizes and lengths of any    *)
(* values within SendAssumption: type correctness, that a command which    *)
(* fits is sent once, and how every call that returns has ended.           *)
(***************************************************************************)
EXTENDS SyncSend, TLAPS

\* Dividing a command by the room in a message.
LEMMA Division ==
  ASSUME NEW l \in Nat, NEW room \in Nat \ {0}
  PROVE  /\ l % room \in 0 .. room - 1
         /\ l \div room \in Nat
         /\ l = (l \div room) * room + (l % room)
  OBVIOUS

\* A count of messages is at most the bytes in them.
LEMMA Factor ==
  ASSUME NEW q \in Nat, NEW room \in Nat \ {0}
  PROVE  q <= q * room
  OBVIOUS

\* A word wraps to itself.
LEMMA NoWrap ==
  ASSUME NEW x \in 0 .. WordSize - 1
  PROVE  x % WordSize = x
  BY SendAssumption

\* Any integer wraps to a word.
LEMMA Wraps ==
  ASSUME NEW x \in Int, WordSize > 0
  PROVE  x % WordSize \in Word
  BY SendAssumption DEF Word

\* What SendAssumption says of one length, the product bounded from below.
LEMMA LengthBounds ==
  ASSUME NEW l \in Lengths
  PROVE  /\ l \in Nat /\ HeaderSize \in Nat \ {0} /\ WordSize \in Nat /\ MaxFailures \in Nat
         /\ l * HeaderSize \in Nat
         /\ l + l * HeaderSize + HeaderSize + MaxFailures < WordSize
<1>1. l \in Nat /\ HeaderSize \in Nat \ {0} /\ WordSize \in Nat /\ MaxFailures \in Nat
      /\ l + (l + 1) * HeaderSize + MaxFailures < WordSize
  BY SendAssumption
<1>2. (l + 1) * HeaderSize = l * HeaderSize + HeaderSize /\ l * HeaderSize \in Nat
  BY <1>1
<1> QED BY <1>1, <1>2

\* The room of a size other than the header's is a positive word: the true
\* difference above the header, a number larger than any command below it.
LEMMA RoomPositive ==
  ASSUME NEW size \in Sizes, size # HeaderSize, NEW l \in Lengths
  PROVE  /\ Room(size) \in Nat \ {0}
         /\ size > HeaderSize => Room(size) = size - HeaderSize
         /\ size < HeaderSize => l < Room(size)
<1>1. size \in 0 .. WordSize - 1 /\ WordSize \in Nat \ {0} /\ HeaderSize \in Nat \ {0}
  BY SendAssumption
<1>2. CASE size > HeaderSize
  <2>1. size - HeaderSize \in 0 .. WordSize - 1
    BY <1>1, <1>2
  <2>2. (size - HeaderSize) % WordSize = size - HeaderSize
    BY <2>1, NoWrap
  <2> QED BY <1>1, <1>2, <2>1, <2>2 DEF Room
<1>3. CASE size < HeaderSize
  <2>1. HeaderSize < WordSize /\ l \in Nat /\ l + HeaderSize < WordSize
    BY LengthBounds
  <2>2. (size - HeaderSize) % WordSize = WordSize + size - HeaderSize
    BY <1>1, <1>3, <2>1
  <2> QED BY <1>1, <1>3, <2>1, <2>2 DEF Room
<1> QED BY <1>1, <1>2, <1>3

\* A command has a number of bytes to send that leaves room for MaxFailures more.
LEMMA BytesBounded ==
  ASSUME NEW size \in Sizes, size # HeaderSize, NEW l \in Lengths
  PROVE  /\ BytesToSend(l, size) \in Nat
         /\ BytesToSend(l, size) + MaxFailures < WordSize
         /\ l > 0 => BytesToSend(l, size) > 0
<1> DEFINE room == Room(size)
           q == l \div room
<1>1. /\ l \in Nat /\ HeaderSize \in Nat \ {0} /\ WordSize \in Nat /\ MaxFailures \in Nat
      /\ l * HeaderSize \in Nat
      /\ l + l * HeaderSize + HeaderSize + MaxFailures < WordSize
  BY LengthBounds
<1>2. /\ room \in Nat \ {0} /\ size \in Nat
      /\ size > HeaderSize => room = size - HeaderSize
      /\ size < HeaderSize => l < room
  BY RoomPositive, SendAssumption
<1>3. l % room \in 0 .. room - 1 /\ q \in Nat /\ l = q * room + (l % room)
  BY <1>1, <1>2, Division
<1>4. CASE l % room # 0
  <2>1. q * room \in Nat
    BY <1>2, <1>3
  <2>2. l % room <= l
    BY <1>1, <1>3, <2>1
  <2>3. ((l % room) + HeaderSize) \in 0 .. WordSize - 1
    BY <1>1, <1>3, <2>2
  <2>4. BytesToSend(l, size) = (l % room) + HeaderSize
    BY <1>4, <2>3, NoWrap DEF BytesToSend
  <2> QED BY <1>1, <1>3, <2>2, <2>4
<1>5. CASE l % room = 0
  <2>1. CASE size > HeaderSize
    <3>1. q * room = l
      BY <1>1, <1>2, <1>3, <1>5
    <3>2. q <= l
      BY <1>2, <1>3, <3>1, Factor
    <3>3. q * size = q * room + q * HeaderSize
      BY <1>1, <1>2, <1>3, <2>1
    <3>4. q * HeaderSize \in Nat /\ q * HeaderSize <= l * HeaderSize
      BY <1>1, <1>3, <3>2
    <3>5. q * size \in 0 .. WordSize - 1
      BY <1>1, <3>1, <3>3, <3>4
    <3>6. BytesToSend(l, size) = q * size
      BY <1>5, <3>5, NoWrap DEF BytesToSend
    <3> QED BY <1>1, <1>3, <3>1, <3>3, <3>4, <3>6
  <2>2. CASE size < HeaderSize
    <3>1. l = 0
      BY <1>1, <1>2, <1>5, <2>2
    <3>2. q * size = 0
      BY <1>2, <1>3, <1>5, <3>1, <2>2
    <3>3. BytesToSend(l, size) = 0
      BY <1>1, <1>5, <3>2, NoWrap DEF BytesToSend
    <3> QED BY <1>1, <3>1, <3>3
  <2> QED BY <1>1, <1>2, <2>1, <2>2
<1> QED BY <1>4, <1>5

\* A command that fits is counted as itself and one header.
LEMMA FittingBytes ==
  ASSUME NEW size \in Sizes, NEW l \in Lengths, l > 0, l + HeaderSize <= size
  PROVE  BytesToSend(l, size) = l + HeaderSize
<1>1. l \in Nat /\ HeaderSize \in Nat \ {0} /\ size \in 0 .. WordSize - 1
  BY LengthBounds, SendAssumption
<1>2. Room(size) = size - HeaderSize
  BY <1>1, RoomPositive
<1>3. l + HeaderSize \in 0 .. WordSize - 1
  BY <1>1, SendAssumption
<1>4. CASE l < Room(size)
  <2>1. l % Room(size) = l
    BY <1>1, <1>2, <1>4
  <2> QED BY <1>1, <1>3, <2>1, NoWrap DEF BytesToSend
<1>5. CASE l = Room(size)
  <2>1. l % Room(size) = 0 /\ l \div Room(size) = 1
    BY <1>1, <1>5
  <2>2. 1 * size = size /\ size = l + HeaderSize
    BY <1>1, <1>2, <1>5
  <2> QED BY <1>3, <2>1, <2>2, NoWrap DEF BytesToSend
<1> QED BY <1>1, <1>2, <1>4, <1>5

-----------------------------------------------------------------------------
(* The inductive invariant *)

\* Until its first message is written, a call has still to send what it set out to,
\* and one more for each write that has failed.
StartInv ==
  pc = "send" =>
    /\ length \in Lengths /\ length > 0 /\ message_size_max # HeaderSize
    /\ out.messages = 0 =>
         remaining = BytesToSend(length, message_size_max) + out.failures

\* A command that fits is being sent by its first message.
FitInv ==
  pc = "send" /\ Fits /\ out.failures = 0 /\ ~out.short => out.messages = 0

IInv == TypeOK /\ StartInv /\ FitInv /\ FittingSentOnce /\ ReturnedEndsIffFits

\* Every initial state satisfies it.
LEMMA InitIInv == Init => IInv
<1> SUFFICES ASSUME Init PROVE IInv
  OBVIOUS
<1>1. TypeOK
  <2>1. WordSize > 0 /\ WordSize \in Nat
    BY SendAssumption DEF Init
  <2> QED BY <2>1, SendAssumption DEF Init, TypeOK, Word, Nothing
<1>2. StartInv /\ FitInv
  BY DEF Init, StartInv, FitInv
<1>3. FittingSentOnce /\ ReturnedEndsIffFits
  BY DEF Init, FittingSentOnce, ReturnedEndsIffFits, Fits
<1> QED BY <1>1, <1>2, <1>3 DEF IInv

\* Counts that stop at their bound: the first message counts one.
LEMMA UptoFacts ==
  /\ \A k \in 0 .. 2 : Upto(2, k + 1) \in 1 .. 2 /\ (k = 0 => Upto(2, k + 1) = 1)
  /\ \A b \in Word, n \in Nat : Upto(WordSize - 1, b + n) \in Word
<1>1. WordSize \in Nat
  BY SendAssumption
<1> QED BY <1>1 DEF Upto, Word

\* A call that begins sets out to send something unless its command is empty.
LEMMA CallKeeps ==
  ASSUME IInv, NEW l \in Lengths, Call(l)
  PROVE  IInv'
<1> DEFINE bytes == BytesToSend(l, server_message_size_max)
<1>1. /\ server_message_size_max \in Sizes /\ server_message_size_max # HeaderSize
      /\ length' = l /\ message_size_max' = server_message_size_max
      /\ remaining' = bytes /\ out' = Nothing
      /\ pc' = IF bytes = 0 THEN "idle" ELSE "send"
      /\ UNCHANGED <<server_message_size_max, message_id>>
  BY DEF IInv, TypeOK, Call, session
<1>2. /\ l \in Nat /\ WordSize \in Nat /\ MaxFailures \in Nat
      /\ bytes \in Nat /\ bytes + MaxFailures < WordSize /\ (l > 0 => bytes > 0)
  BY <1>1, BytesBounded, LengthBounds
<1>3. TypeOK'
  BY <1>1, <1>2 DEF IInv, TypeOK, Nothing, Word
<1>4. l = 0 => bytes = 0
  <2>1. SUFFICES ASSUME l = 0 PROVE bytes = 0
    OBVIOUS
  <2>2. Room(server_message_size_max) \in Nat \ {0}
    BY <1>1, RoomPositive
  <2>3. 0 % Room(server_message_size_max) = 0 /\ 0 \div Room(server_message_size_max) = 0
    BY <2>2
  <2>4. 0 * server_message_size_max = 0 /\ 0 % WordSize = 0
    BY <1>1, <1>2, SendAssumption
  <2> QED BY <2>1, <2>3, <2>4 DEF BytesToSend
<1>5. StartInv'
  BY <1>1, <1>2, <1>4 DEF StartInv, Nothing
<1>6. FitInv'
  BY <1>1 DEF FitInv, Nothing
<1>7. pc' = "idle" => ~(length' > 0)
  BY <1>1, <1>2
<1>8. FittingSentOnce'
  BY <1>1, <1>7 DEF FittingSentOnce, Fits, Nothing
<1>9. ReturnedEndsIffFits'
  BY <1>7 DEF ReturnedEndsIffFits
<1> QED BY <1>3, <1>5, <1>6, <1>8, <1>9 DEF IInv

\* A call that divides by zero has sent nothing.
LEMMA CrashKeeps ==
  ASSUME IInv, NEW l \in Lengths, CallCrashes(l)
  PROVE  IInv'
<1>1. /\ server_message_size_max \in Sizes
      /\ length' = l /\ message_size_max' = server_message_size_max
      /\ remaining' = remaining /\ out' = Nothing /\ pc' = "crashed"
      /\ UNCHANGED <<server_message_size_max, message_id>>
  BY DEF IInv, TypeOK, CallCrashes, session
<1>2. WordSize \in Nat /\ WordSize > 0 /\ MaxFailures \in Nat
  BY LengthBounds
<1>3. TypeOK'
  BY <1>1, <1>2 DEF IInv, TypeOK, Nothing, Word
<1> QED BY <1>1, <1>3 DEF IInv, StartInv, FitInv, FittingSentOnce, ReturnedEndsIffFits, Nothing

\* The write that leaves nothing to send is one of exactly what was left.
LEMMA WriteKeeps ==
  ASSUME IInv, NEW n, Write(n)
  PROVE  IInv'
<1>1. /\ pc = "send" /\ n \in 1 .. length + HeaderSize
      /\ message_id' = (message_id + 2) % IdSpace
      /\ remaining' = (remaining - n) % WordSize
      /\ pc' = IF remaining' = 0 THEN "idle" ELSE "send"
      /\ out' = [out EXCEPT !.messages = Upto(2, @ + 1), !.last = Type(remaining),
                            !.bytes = Upto(WordSize - 1, @ + n),
                            !.short = @ \/ n < length + HeaderSize]
      /\ UNCHANGED <<server_message_size_max, length, message_size_max>>
  BY DEF Write, NextId, Account
<1>2. /\ WordSize \in Nat /\ HeaderSize \in Nat \ {0} /\ MaxFailures \in Nat
      /\ IdSpace \in Nat \ {0}
  BY SendAssumption
<1>3. /\ length \in Nat /\ remaining \in 0 .. WordSize - 1
      /\ message_size_max \in 0 .. WordSize - 1
      /\ length + HeaderSize < WordSize
  <2>1. length \in Lengths
    BY <1>1 DEF IInv, StartInv
  <2> QED BY <1>2, <2>1, LengthBounds, SendAssumption DEF IInv, TypeOK, Word
<1>4. n \in Nat /\ n < WordSize
  BY <1>1, <1>2, <1>3
<1>5. out \in [messages : 0 .. 2, last : {"none", "Data", "DataEnd"},
               bytes : Word, failures : 0 .. MaxFailures, short : BOOLEAN]
  BY DEF IInv, TypeOK
<1>6. Type(remaining) \in {"Data", "DataEnd"}
      /\ (Type(remaining) = "DataEnd" <=> remaining <= message_size_max)
  BY <1>3 DEF Type
<1>7. /\ out'.messages = Upto(2, out.messages + 1) /\ out'.messages \in 1 .. 2
      /\ (out.messages = 0 => out'.messages = 1)
      /\ out'.last = Type(remaining) /\ out'.failures = out.failures
  BY <1>1, <1>5, UptoFacts
<1>8. out'.short \in BOOLEAN /\ (out'.short <=> out.short \/ n < length + HeaderSize)
  BY <1>1, <1>5, Zenon
<1>9. ~out'.short => ~out.short /\ ~(n < length + HeaderSize)
  BY <1>8
<1>10. remaining' = 0 => remaining = n
  BY <1>1, <1>2, <1>3, <1>4
<1>11. TypeOK'
  <2>1. remaining' \in Word
    BY <1>1, <1>2, <1>3, <1>4, Wraps
  <2>2. message_id' \in 0 .. IdSpace - 1
    BY <1>1, <1>2 DEF IInv, TypeOK
  <2>3. out' \in [messages : 0 .. 2, last : {"none", "Data", "DataEnd"},
                  bytes : Word, failures : 0 .. MaxFailures, short : BOOLEAN]
    <3>1. Upto(WordSize - 1, out.bytes + n) \in Word
      BY <1>4, <1>5, UptoFacts
    <3>2. /\ Upto(2, out.messages + 1) \in 0 .. 2
          /\ Type(remaining) \in {"none", "Data", "DataEnd"}
          /\ (out.short \/ n < length + HeaderSize) \in BOOLEAN
      BY <1>6, <1>7
    <3> QED BY <1>1, <1>5, <3>1, <3>2, Zenon
  <2>4. pc' \in {"idle", "send", "crashed"}
    BY <1>1
  <2> QED BY <1>1, <2>1, <2>2, <2>3, <2>4 DEF IInv, TypeOK
<1>12. StartInv'
  BY <1>1, <1>7 DEF IInv, StartInv
\* A first message that takes all of a fitting command leaves nothing.
<1>13. Fits /\ out.failures = 0 /\ ~out'.short /\ ~out.short
         => out.messages = 0 /\ remaining = length + HeaderSize /\ n = length + HeaderSize
  <2> SUFFICES ASSUME Fits, out.failures = 0, ~out'.short, ~out.short
               PROVE  out.messages = 0 /\ remaining = length + HeaderSize /\ n = length + HeaderSize
    OBVIOUS
  <2>1. out.messages = 0
    BY <1>1 DEF IInv, FitInv
  <2>2. length \in Lengths /\ message_size_max \in Sizes
        /\ remaining = BytesToSend(length, message_size_max) + 0
    BY <1>1, <2>1 DEF IInv, StartInv, TypeOK
  <2>3. BytesToSend(length, message_size_max) = length + HeaderSize
    BY <2>2, FittingBytes DEF Fits
  <2>4. n = length + HeaderSize
    BY <1>1, <1>2, <1>3, <1>9
  <2> QED BY <1>2, <1>3, <2>1, <2>2, <2>3, <2>4
<1>14. ~out'.short => ~out.short
  BY <1>9
<1>15. Fits' <=> Fits
  BY <1>1 DEF Fits
<1>16. Fits' /\ out'.failures = 0 /\ ~out'.short => pc' = "idle" /\ out'.messages = 1 /\ out'.last = "DataEnd"
  <2> SUFFICES ASSUME Fits, out.failures = 0, ~out'.short, ~out.short
               PROVE  pc' = "idle" /\ out'.messages = 1 /\ out'.last = "DataEnd"
    BY <1>7, <1>14, <1>15
  <2>1. out.messages = 0 /\ remaining = length + HeaderSize /\ n = length + HeaderSize
    BY <1>13
  <2>2. remaining' = 0
    BY <1>1, <1>2, <1>3, <2>1
  <2>3. remaining <= message_size_max
    BY <2>1 DEF Fits
  <2> QED BY <1>1, <1>6, <1>7, <2>1, <2>2, <2>3
<1>17. FitInv' /\ FittingSentOnce'
  BY <1>16 DEF FitInv, FittingSentOnce
<1>18. ReturnedEndsIffFits'
  <2> SUFFICES ASSUME pc' = "idle", length > 0, ~out'.short
               PROVE  out'.messages > 0 /\ (out'.last = "DataEnd" <=> Fits)
    BY <1>1, <1>15 DEF ReturnedEndsIffFits
  <2>1. remaining' = 0 /\ remaining = n
    BY <1>1, <1>10
  <2>2. n = length + HeaderSize
    BY <1>1, <1>2, <1>3, <1>9
  <2> QED BY <1>2, <1>3, <1>6, <1>7, <2>1, <2>2 DEF Fits
<1> QED BY <1>11, <1>12, <1>17, <1>18 DEF IInv

\* A failed write leaves something to send as long as nothing has been written.
LEMMA FailureKeeps ==
  ASSUME IInv, WriteFails
  PROVE  IInv'
<1>1. /\ pc = "send" /\ out.failures < MaxFailures
      /\ message_id' = (message_id + 2) % IdSpace
      /\ remaining' = (remaining - (-1)) % WordSize
      /\ pc' = IF remaining' = 0 THEN "idle" ELSE "send"
      /\ out' = [out EXCEPT !.failures = @ + 1]
      /\ UNCHANGED <<server_message_size_max, length, message_size_max>>
  BY DEF WriteFails, NextId, Account
<1>2. /\ length \in Lengths /\ length \in Nat /\ message_size_max \in Sizes
      /\ message_size_max # HeaderSize
      /\ WordSize \in Nat /\ MaxFailures \in Nat /\ IdSpace \in Nat \ {0}
      /\ remaining \in 0 .. WordSize - 1
  BY <1>1, SendAssumption DEF IInv, TypeOK, StartInv, Word
<1>3. out \in [messages : 0 .. 2, last : {"none", "Data", "DataEnd"},
               bytes : Word, failures : 0 .. MaxFailures, short : BOOLEAN]
  BY DEF IInv, TypeOK
<1>4. /\ out'.messages = out.messages /\ out'.failures = out.failures + 1
      /\ out'.short = out.short /\ out'.last = out.last
  BY <1>1, <1>3
<1>5. TypeOK'
  <2>1. remaining' \in Word
    BY <1>1, <1>2, Wraps
  <2>2. message_id' \in 0 .. IdSpace - 1
    BY <1>1, <1>2 DEF IInv, TypeOK
  <2>3. out' \in [messages : 0 .. 2, last : {"none", "Data", "DataEnd"},
                  bytes : Word, failures : 0 .. MaxFailures, short : BOOLEAN]
    BY <1>1, <1>2, <1>3
  <2>4. pc' \in {"idle", "send", "crashed"}
    BY <1>1
  <2> QED BY <1>1, <2>1, <2>2, <2>3, <2>4 DEF IInv, TypeOK
<1>6. out.messages = 0 =>
        /\ remaining' = BytesToSend(length, message_size_max) + out.failures + 1
        /\ remaining' > 0
  <2> SUFFICES ASSUME out.messages = 0
               PROVE  /\ remaining' = BytesToSend(length, message_size_max) + out.failures + 1
                      /\ remaining' > 0
    OBVIOUS
  <2>1. remaining = BytesToSend(length, message_size_max) + out.failures
    BY <1>1 DEF IInv, StartInv
  <2>2. BytesToSend(length, message_size_max) \in Nat
        /\ BytesToSend(length, message_size_max) + MaxFailures < WordSize
    BY <1>2, BytesBounded
  <2>3. out.failures \in Nat
    BY <1>2, <1>3
  <2>4. remaining - (-1) = BytesToSend(length, message_size_max) + out.failures + 1
    BY <2>1, <2>2, <2>3
  <2>5. remaining - (-1) \in 0 .. WordSize - 1
    BY <1>1, <1>2, <2>2, <2>3, <2>4
  <2> QED BY <1>1, <2>2, <2>3, <2>4, <2>5, NoWrap
<1>7. StartInv'
  <2>1. out'.messages = 0 =>
          remaining' = BytesToSend(length, message_size_max) + out'.failures
    BY <1>2, <1>3, <1>4, <1>6, BytesBounded
  <2> QED BY <1>1, <1>2, <2>1 DEF IInv, StartInv
<1>8. out'.failures # 0
  BY <1>2, <1>3, <1>4
<1>9. FitInv' /\ FittingSentOnce'
  BY <1>8 DEF FitInv, FittingSentOnce
<1>10. pc' = "idle" => out'.messages > 0
  BY <1>1, <1>3, <1>4, <1>6
<1>11. ReturnedEndsIffFits'
  BY <1>8, <1>10 DEF ReturnedEndsIffFits
<1> QED BY <1>5, <1>7, <1>9, <1>11 DEF IInv

\* The size of the session is not the size of the call.
LEMMA OthersKeep ==
  ASSUME IInv, \/ \E size \in Sizes : SetMaximumMessageSize(size)
               \/ UNCHANGED vars
  PROVE  IInv'
<1>1. /\ server_message_size_max' \in Sizes
      /\ UNCHANGED <<message_id, pc, length, message_size_max, remaining, out>>
  BY DEF SetMaximumMessageSize, vars, IInv, TypeOK
<1>2. TypeOK'
  BY <1>1 DEF IInv, TypeOK
<1>3. StartInv' /\ FitInv' /\ FittingSentOnce' /\ ReturnedEndsIffFits'
  BY <1>1 DEF IInv, StartInv, FitInv, FittingSentOnce, ReturnedEndsIffFits, Fits
<1> QED BY <1>2, <1>3 DEF IInv

\* Every step keeps it.
LEMMA NextIInv == IInv /\ [Next]_vars => IInv'
<1> SUFFICES ASSUME IInv, [Next]_vars PROVE IInv'
  OBVIOUS
<1>1. ASSUME NEW l \in Lengths, Call(l) \/ CallCrashes(l) PROVE IInv'
  BY <1>1, CallKeeps, CrashKeeps
<1>2. CASE Send
  BY <1>2, WriteKeeps, FailureKeeps DEF Send
<1>3. CASE (\E size \in Sizes : SetMaximumMessageSize(size)) \/ UNCHANGED vars
  BY <1>3, OthersKeep
<1> QED BY <1>1, <1>2, <1>3 DEF Next

\* The inductive invariant holds.
THEOREM IInvHolds == Spec => []IInv
BY InitIInv, NextIInv, PTL DEF Spec

-----------------------------------------------------------------------------
(* The theorems *)

\* The words stay words and the history what it is declared to be.
THEOREM TypeCorrect == Spec => []TypeOK
BY IInvHolds, PTL DEF IInv

\* hs_sync_send sends a command that fits one message of the size announced when
\* the call began once, as one DataEnd, for every header, word, size and length.
THEOREM FittingSent == Spec => []FittingSentOnce
BY IInvHolds, PTL DEF IInv

\* A call of hs_sync_send that returns has written the command, and has ended it
\* with DataEnd only if it fits.
THEOREM ReturnedEnds == Spec => []ReturnedEndsIffFits
BY IInvHolds, PTL DEF IInv
=============================================================================
