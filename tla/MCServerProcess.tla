---------------------------- MODULE MCServerProcess ----------------------------
(* Messages and model values for the runs of ServerProcess. *)
EXTENDS ServerProcess, TLC

CONSTANTS c1, c2, hislip0, hislip1

OneConn == {c1}
TwoConns == {c1, c2}
Registered == {hislip0, hislip1}
Hislip0 == {hislip0}
ConnSymmetry == Permutations(Conn)

Initialize(version, name) == [type |-> "Initialize", arg |-> version, load |-> name]
AsyncOpen(id) == [type |-> "AsyncInitialize", arg |-> id, load |-> NoLoad]
DataMsg(type, id) == [type |-> type, arg |-> id, load |-> "data"]

\* Both versions, a name and no name; two message ids, and a type that is ignored.
AllMessages ==
  {Initialize(Version, hislip0), Initialize(Version, NoLoad),
   Initialize(Version + 1, hislip0), AsyncOpen(0),
   DataMsg("Data", 0), DataMsg("Data", 2), DataMsg("DataEnd", 4)}
TwoNames == {Initialize(Version, hislip0), Initialize(Version, hislip1), DataMsg("Data", 0)}
NoNames == {Initialize(Version, NoLoad)}
=============================================================================
