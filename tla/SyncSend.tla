------------------------------- MODULE SyncSend -------------------------------
(***************************************************************************)
(* hs_sync_send of src/client.c: how many bytes it sets out to send, the   *)
(* messages it writes and when it returns, for one device.  The numbers    *)
(* are unsigned words and wrap as in C.  hs_set_maximum_message_size, on   *)
(* the other channel, may change the server's message size at any moment.  *)
(* What tcp_write's write(2) accepts of a message is external.             *)
(***************************************************************************)
EXTENDS Integers

CONSTANTS
  HeaderSize,   \* MSG_HEADER_SIZE
  WordSize,     \* values of a uint64_t
  IdSpace,      \* values of a uint32_t
  InitialId,    \* session_new's message_id
  InitialSize,  \* session_new's server_message_size_max
  Sizes,        \* maximum message sizes a server may announce
  Lengths,      \* lengths of the commands an application sends
  MaxFailures   \* bound: failed writes in one call

ASSUME SendAssumption ==
  /\ HeaderSize \in Nat \ {0} /\ WordSize \in Nat /\ MaxFailures \in Nat
  /\ IdSpace \in Nat \ {0} /\ InitialId \in 0 .. IdSpace - 1
  /\ InitialSize \in Sizes /\ Sizes \subseteq 0 .. WordSize - 1
  /\ Lengths \subseteq Nat
  /\ \A l \in Lengths : l + (l + 1) * HeaderSize + MaxFailures < WordSize

VARIABLES
  server_message_size_max,  \* of the session
  message_id,               \* of the session: the id of the next message
  pc,                       \* "idle", "send" or "crashed"
  length,                   \* the caller's argument
  message_size_max,         \* hs_sync_send's copy of the server's size
  remaining,                \* message_bytes_remaining
  out                       \* history: what the call has written so far

session == <<server_message_size_max, message_id>>
vars == <<server_message_size_max, message_id, pc, length, message_size_max,
          remaining, out>>

Word == 0 .. WordSize - 1

\* Counts stop at their bounds: messages at two, bytes at WordSize - 1.
Nothing == [messages |-> 0, last |-> "none", bytes |-> 0, failures |-> 0, short |-> FALSE]
Upto(bound, n) == IF n < bound THEN n ELSE bound

Init ==
  /\ server_message_size_max = InitialSize
  /\ message_id = InitialId
  /\ pc = "idle"
  /\ length = 0
  /\ message_size_max = InitialSize
  /\ remaining = 0
  /\ out = Nothing

\* The payload that fits in a message: an unsigned difference.
Room(size) == (size - HeaderSize) % WordSize

\* Mutant: the last message's header is left out.
BytesToSendNoHeader(l, size) ==
  IF l % Room(size) # 0 THEN l % Room(size)
  ELSE ((l \div Room(size)) * size) % WordSize

\* The last part replaces the full messages before it instead of adding to them.
BytesToSend(l, size) ==
  IF l % Room(size) # 0
    THEN ((l % Room(size)) + HeaderSize) % WordSize
    ELSE ((l \div Room(size)) * size) % WordSize

Call(l) ==
  /\ pc = "idle"
  /\ server_message_size_max # HeaderSize
  /\ length' = l
  /\ message_size_max' = server_message_size_max
  /\ remaining' = BytesToSend(l, server_message_size_max)
  /\ pc' = IF remaining' = 0 THEN "idle" ELSE "send"
  /\ out' = Nothing
  /\ UNCHANGED session

\* A message without room for payload: the division by zero ends the process.
CallCrashes(l) ==
  /\ pc = "idle"
  /\ server_message_size_max = HeaderSize
  /\ length' = l
  /\ message_size_max' = server_message_size_max
  /\ pc' = "crashed"
  /\ out' = Nothing
  /\ UNCHANGED <<session, remaining>>

\* Mutant: the size is read again from the session.
TypeReread(r) == IF r > server_message_size_max THEN "Data" ELSE "DataEnd"

Type(r) == IF r > message_size_max THEN "Data" ELSE "DataEnd"

\* Mutant: a failed write ends the call as if all had been sent.
AccountGivesUp(r, n) == IF n < 0 THEN 0 ELSE (r - n) % WordSize

Account(r, n) == (r - n) % WordSize

\* Mutant: the id does not wrap.
NextIdUnbounded == message_id' = message_id + 2

NextId == message_id' = (message_id + 2) % IdSpace

\* Every message carries the whole command; n of its bytes are accepted.
Write(n) ==
  /\ pc = "send"
  /\ n \in 1 .. length + HeaderSize
  /\ NextId
  /\ remaining' = Account(remaining, n)
  /\ pc' = IF remaining' = 0 THEN "idle" ELSE "send"
  /\ out' = [out EXCEPT !.messages = Upto(2, @ + 1),
                        !.last = Type(remaining),
                        !.bytes = Upto(WordSize - 1, @ + n),
                        !.short = @ \/ n < length + HeaderSize]
  /\ UNCHANGED <<server_message_size_max, length, message_size_max>>

\* A timeout or an error: -1 is taken for a number of bytes.
WriteFails ==
  /\ pc = "send"
  /\ out.failures < MaxFailures
  /\ NextId
  /\ remaining' = Account(remaining, -1)
  /\ pc' = IF remaining' = 0 THEN "idle" ELSE "send"
  /\ out' = [out EXCEPT !.failures = @ + 1]
  /\ UNCHANGED <<server_message_size_max, length, message_size_max>>

\* hs_set_maximum_message_size stores whatever size the server announces.
SetMaximumMessageSize(size) ==
  /\ pc # "crashed"
  /\ server_message_size_max' = size
  /\ UNCHANGED <<message_id, pc, length, message_size_max, remaining, out>>

Send == WriteFails \/ \E n \in 1 .. length + HeaderSize : Write(n)

Next ==
  \/ \E l \in Lengths : Call(l) \/ CallCrashes(l)
  \/ Send
  \/ \E size \in Sizes : SetMaximumMessageSize(size)

\* A thread in hs_sync_send is scheduled and its select returns.
Spec == Init /\ [][Next]_vars /\ WF_vars(Send)

-----------------------------------------------------------------------------
(* Properties *)

TypeOK ==
  /\ server_message_size_max \in Sizes /\ message_size_max \in Sizes
  /\ message_id \in 0 .. IdSpace - 1
  /\ pc \in {"idle", "send", "crashed"}
  /\ length \in Lengths \cup {0}
  /\ remaining \in Word
  /\ out \in [messages : 0 .. 2, last : {"none", "Data", "DataEnd"},
              bytes : Word, failures : 0 .. MaxFailures, short : BOOLEAN]

\* The command fits in one message of the size the server had announced when the
\* call began.
Fits == length > 0 /\ length + HeaderSize <= message_size_max

\* A command that fits leaves as one DataEnd message and nothing else, whatever
\* size is announced meanwhile, as long as no write fails or is cut short.
FittingSentOnce ==
  Fits /\ out.failures = 0 /\ ~out.short =>
    /\ out.messages <= 1
    /\ pc = "idle" => out.messages = 1 /\ out.last = "DataEnd"

\* A call that returns has written its command, even after failed writes.  When
\* none failed it has ended the command with DataEnd exactly when it fits: a longer
\* command, or any command to a server whose size is below a header's, ends with
\* Data and the device is left waiting for the rest.  (Writes cut short excepted.)
ReturnedEndsIffFits ==
  pc = "idle" /\ length > 0 /\ ~out.short =>
    /\ out.messages > 0
    /\ out.failures = 0 => (out.last = "DataEnd" <=> Fits)

\* hs_sync_send of a command that fits returns when no write fails or is cut short.
FittingReturns ==
  (pc = "send" /\ Fits) ~> (pc = "idle" \/ out.failures > 0 \/ out.short)

\* client.c:213: "Calculate how many message bytes to send": the command and one
\* header for each message it is divided into.
MessageBytes ==
  LET room == message_size_max - HeaderSize
  IN  length + HeaderSize * ((length + room - 1) \div room)

\* No more message bytes are sent than the command divided into messages has.
SentAsCalculated ==
  message_size_max > HeaderSize /\ out.failures = 0 /\ ~out.short
    => out.bytes <= MessageBytes
=============================================================================
