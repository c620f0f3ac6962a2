---------------------------- MODULE MCHislipSystem ----------------------------
(* Clients of a server with one subaddress, which may open it by name or not. *)
EXTENDS HislipSystem

CONSTANTS p1, p2, p3, hislip0

OneClient == {p1}
ThreeClients == {p1, p2, p3}
Channels == Clients \X {"sync", "async"}
Registered == {hislip0}
NameOrNone == {hislip0, NoLoad}

MayBeSent ==
  {[type |-> "Initialize", arg |-> Version, load |-> l] : l \in NameOrNone}
    \cup {[type |-> "AsyncInitialize", arg |-> h, load |-> NoLoad] : h \in Handle}
    \cup {[type |-> "DataEnd", arg |-> 0, load |-> "data"],
          [type |-> "AsyncMaximumMessageSize", arg |-> 0, load |-> "size"]}
=============================================================================
