------------------------------ MODULE MCSyncSend ------------------------------
(* Model values for the runs of SyncSend: words of 32 values, a header of two *)
(* bytes, and sizes below, at and above the header's.                         *)
EXTENDS SyncSend

AnnouncedSizes == {1, 2, 3, 5, 7}
CommandLengths == 0 .. 6
=============================================================================
