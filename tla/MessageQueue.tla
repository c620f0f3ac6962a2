----------------------------- MODULE MessageQueue -----------------------------
(***************************************************************************)
(* What a connection promises to whoever reads messages from it: as long   *)
(* as the reader keeps its place in the stream it takes the messages it    *)
(* wants, each once, the oldest first, and finds the end of the stream     *)
(* only behind the last of them.  Two things make it lose its place: a     *)
(* message of which it does not read just the bytes that have been         *)
(* written, or reads that go wrong; what it takes after that may be        *)
(* anything, and it may take any byte for the end, but what it has taken   *)
(* before stays.  MessageStream, the two loops that read headers and       *)
(* payloads out of a byte stream, implements this.                         *)
(***************************************************************************)
EXTENDS Naturals, Sequences

VARIABLES
  queue,   \* what each message sent is to the reader: "wanted", "skipped" for one
           \* it refuses, "harmful" for one of which it reads too few bytes or
           \* too many
  eof,     \* the sender has closed its end
  taken,   \* history: the messages taken, by their index, or 0 for no message
  place,   \* "kept", "lost" behind a harmful message, "torn" by a read
  ended    \* the reader has met the end of the stream

vars == <<queue, eof, taken, place, ended>>

Kinds == {"wanted", "skipped", "harmful"}

Init ==
  /\ queue = <<>>
  /\ eof = FALSE
  /\ taken = <<>>
  /\ place = "kept"
  /\ ended = FALSE

Send(kind) ==
  /\ ~eof
  /\ queue' = Append(queue, kind)
  /\ UNCHANGED <<eof, taken, place, ended>>

Close ==
  /\ ~eof
  /\ eof' = TRUE
  /\ UNCHANGED <<queue, taken, place, ended>>

HasTaken(i) == \E k \in DOMAIN taken : taken[k] = i

\* The reader is done with every message before i, and with none from i on.
Due(i) ==
  /\ i \in DOMAIN queue
  /\ \A j \in 1 .. i - 1 : queue[j] # "harmful" /\ (queue[j] = "wanted" => HasTaken(j))
  /\ \A k \in DOMAIN taken : taken[k] < i

Take ==
  /\ place = "kept" /\ ~ended
  /\ \E i \in DOMAIN queue :
       Due(i) /\ queue[i] = "wanted" /\ taken' = Append(taken, i)
  /\ UNCHANGED <<queue, eof, place, ended>>

\* The reader meets a harmful message and takes it nevertheless, takes something
\* else, or refuses it.
Lose ==
  /\ place = "kept" /\ ~ended
  /\ \E i \in DOMAIN queue :
       /\ Due(i) /\ queue[i] = "harmful"
       /\ taken' = taken \/ \E j \in {0, i} : taken' = Append(taken, j)
  /\ place' = "lost"
  /\ UNCHANGED <<queue, eof, ended>>

\* A read goes wrong, or the reader is out of place already.
Stray ==
  /\ ~ended
  /\ place' \in {place, "torn"} \ {"kept"}
  /\ taken' = taken \/ \E i \in 0 .. Len(queue) : taken' = Append(taken, i)
  /\ UNCHANGED <<queue, eof, ended>>

End ==
  /\ ~ended
  /\ place = "kept" => eof /\ \A i \in DOMAIN queue : queue[i] = "wanted" => HasTaken(i)
  /\ ended' = TRUE
  /\ UNCHANGED <<queue, eof, taken, place>>

Next == (\E kind \in Kinds : Send(kind)) \/ Close \/ Take \/ Lose \/ Stray \/ End

Spec == Init /\ [][Next]_vars
=============================================================================
