----------------------------- MODULE MCClientCalls -----------------------------
(* Model values for the run of ClientCalls. *)
EXTENDS ClientCalls

CONSTANTS t1, t2

TwoThreads == {t1, t2}
=============================================================================
