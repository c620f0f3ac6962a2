---------------------------- MODULE MCSessionTable ----------------------------
(* Model values for the run of SessionTable. *)
EXTENDS SessionTable

CONSTANTS t1, t2

TwoThreads == {t1, t2}
=============================================================================
