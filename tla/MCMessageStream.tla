---------------------------- MODULE MCMessageStream ----------------------------
(* Model values for the run of MessageStream: a header of two bytes, words of *)
(* eight one-bit bytes and ints of four of them, so that a payload length of  *)
(* 8 is negative as an int, 16 is zero and 17 is one; maxima below, among and *)
(* beyond these.                                                              *)
EXTENDS MessageStream

SomeMessages ==
  [ok : {TRUE}, type : {"Data"}, size : {0, 1, 3, 8, 16, 17}]
    \cup [ok : {TRUE}, type : {"Error"}, size : {0}]
    \cup [ok : {FALSE}, type : {"Data"}, size : {1}]
SomeSizes == {1, 4, 20}
=============================================================================
