----------------------- MODULE ConnectionDispatchProofs -----------------------
(***************************************************************************)
(* Theorems about ConnectionDispatch for any number of connections,        *)
(* messages and descriptors and any backlog: its type invariant, its four  *)
(* safety invariants, and the refinement of ConnectionService.             *)
(***************************************************************************)
EXTENDS ConnectionDispatch, TLAPS

\* What is waiting on a connection has been sent on it.
UnreadInv == \A c \in Conn : unread[c] <= sent[c]

\* A connection is behind one descriptor at most, and has been accepted.
TableInv ==
  /\ \A f, g \in FD : fdTable[f] = fdTable[g] /\ fdTable[f] # Free => f = g
  /\ \A f \in FD : fdTable[f] <= accepted

\* Threads exist for connections that have left the accept loop; a thread that has
\* begun has a descriptor, and one that is to begin finds one.
ThreadInv ==
  \A t \in Conn :
    /\ pc[t] # "none" => t <= accepted /\ ~InHand(t)
    /\ pc[t] \in Working => socket[t] \in FD
    /\ pc[t] = "created" => sd \in FD
    /\ pc[t] \in {"none", "created"} => from[t] = Free

\* The descriptor the accept loop has in hand is that of the connection accepted
\* last, unless a thread with a stale descriptor has closed it.
HandInv ==
  /\ acceptor \in {"store", "spawn"} =>
       /\ client_socket \in FD /\ accepted \in Conn
       /\ fdTable[client_socket] \in {Free, accepted}
       /\ Open(accepted) => fdTable[client_socket] = accepted
  /\ acceptor = "spawn" => sd = client_socket

\* So is, between two accepts, the one in connection_data, which the thread of that
\* connection has read.
LatestInv ==
  acceptor = "accept" /\ accepted > 0 =>
    /\ sd \in FD
    /\ Open(accepted) => fdTable[sd] = accepted
    /\ pc[accepted] \in Working => socket[accepted] = sd

\* Descriptors are given to later connections only.
OlderInv ==
  Running => \A t \in Conn :
    /\ pc[t] \in Working => At(t) = Free \/ At(t) >= t
    /\ pc[t] = "created" => fdTable[sd] = Free \/ fdTable[sd] >= t

\* Connections that come slowly keep their descriptors to themselves.
SpacedInv ==
  spaced /\ Running =>
    /\ acceptor \in {"store", "spawn"} => fdTable[client_socket] = accepted
    /\ \A t \in Conn :
         /\ pc[t] = "created" => t = accepted /\ acceptor = "accept" /\ fdTable[sd] = t
         /\ pc[t] \in Working => At(t) = t /\ from[t] \in {Free, t}
         /\ pc[t] = "done" => ~Open(t)

IInv ==
  /\ TypeOK /\ UnreadInv /\ TableInv /\ ThreadInv /\ HandInv /\ LatestInv
  /\ OlderInv /\ SpacedInv

USE DispatchAssumption DEF Conn, FD, Free, NoFd, Working, Running

\* Every initial state satisfies it.
LEMMA InitIInv == Init => IInv
<1> SUFFICES ASSUME Init PROVE IInv
  OBVIOUS
<1>1. TypeOK
  BY DEF Init, TypeOK
<1>2. UnreadInv /\ TableInv
  BY DEF Init, UnreadInv, TableInv
<1>3. ThreadInv /\ HandInv /\ LatestInv
  BY DEF Init, ThreadInv, HandInv, LatestInv
<1>4. OlderInv /\ SpacedInv
  BY DEF Init, OlderInv, SpacedInv
<1> QED BY <1>1, <1>2, <1>3, <1>4 DEF IInv

\* The clients touch neither descriptors nor threads.
LEMMA ClientsKeep ==
  ASSUME IInv, Connect \/ \E c \in Conn : Send(c) \/ HangUp(c)
  PROVE  IInv'
<1>1. UNCHANGED <<spaced, fdTable, accepted, acceptor, client_socket, sd, pc, socket, from>>
  BY DEF Connect, Send, HangUp, main, threads
<1>2. TypeOK' /\ UnreadInv'
  <2>1. CASE Connect
    BY <1>1, <2>1 DEF IInv, TypeOK, UnreadInv, Connect
  <2>2. ASSUME NEW c \in Conn, Send(c) PROVE TypeOK' /\ UnreadInv'
    <3>1. unread[c] + 1 \in 0 .. MaxMessages /\ sent[c] + 1 \in 0 .. MaxMessages
      BY <2>2 DEF IInv, TypeOK, UnreadInv, Send
    <3>2. /\ unread' = [unread EXCEPT ![c] = @ + 1] /\ sent' = [sent EXCEPT ![c] = @ + 1]
          /\ UNCHANGED <<arrived, hungUp>>
      BY <2>2 DEF Send
    <3>3. TypeOK'
      BY <1>1, <3>1, <3>2 DEF IInv, TypeOK
    <3>4. UnreadInv'
      BY <3>1, <3>2 DEF IInv, TypeOK, UnreadInv
    <3> QED BY <3>3, <3>4
  <2>3. ASSUME NEW c \in Conn, HangUp(c) PROVE TypeOK' /\ UnreadInv'
    BY <1>1, <2>3 DEF IInv, TypeOK, UnreadInv, HangUp
  <2> QED BY <2>1, <2>2, <2>3
<1>3. TableInv' /\ ThreadInv' /\ HandInv' /\ LatestInv'
  BY <1>1 DEF IInv, TableInv, ThreadInv, HandInv, LatestInv, InHand, Open
<1>4. OlderInv' /\ SpacedInv'
  BY <1>1 DEF IInv, OlderInv, SpacedInv, At, Open
<1> QED BY <1>2, <1>3, <1>4 DEF IInv

\* What a thread does between its first step and its last: it stays at its
\* descriptor, and what it reads comes from there.
LEMMA WorkKeeps ==
  ASSUME IInv, NEW t \in Conn,
         Select(t) \/ ReadMessage(t) \/ ReadEnd(t) \/ ReadFails(t) \/ Process(t)
  PROVE  IInv'
<1>1. /\ pc[t] \in Working /\ (\E p \in Working : pc' = [pc EXCEPT ![t] = p])
      /\ UNCHANGED <<arrived, sent, hungUp, spaced, fdTable, accepted, acceptor,
                     client_socket, sd, socket>>
      /\ Running
  <2> USE DEF Goto, clients, main
  <2>1. CASE Select(t)
    BY <2>1 DEF Select
  <2>2. CASE ReadMessage(t)
    BY <2>2 DEF ReadMessage
  <2>3. CASE ReadEnd(t) \/ ReadFails(t)
    BY <2>3 DEF ReadEnd, ReadFails
  <2>4. CASE Process(t)
    BY <2>4 DEF Process
  <2> QED BY <2>1, <2>2, <2>3, <2>4
<1>2. \A u \in Conn : pc'[u] = pc[u] \/ (pc[u] \in Working /\ pc'[u] \in Working)
  <2>1. PICK p \in Working : pc' = [pc EXCEPT ![t] = p]
    BY <1>1
  <2>2. pc \in [Conn -> Working \cup {"none", "created", "done"}]
    BY DEF IInv, TypeOK
  <2>3. pc'[t] = p /\ \A u \in Conn \ {t} : pc'[u] = pc[u]
    BY <2>1, <2>2
  <2> QED BY <1>1, <2>1, <2>3
<1>3. /\ from' \in [Conn -> Conn \cup {Free}]
      /\ from'[t] \in {from[t], Free, At(t)}
      /\ \A u \in Conn \ {t} : from'[u] = from[u]
  <2>1. CASE ReadMessage(t)
    <3>1. At(t) \in Conn
      BY <1>1, <2>1 DEF IInv, ReadMessage, TypeOK, ThreadInv, At
    <3> QED BY <2>1, <3>1 DEF IInv, TypeOK, ReadMessage
  <2>2. CASE ~ReadMessage(t)
    BY <2>2 DEF IInv, TypeOK, Select, ReadEnd, ReadFails, Process
  <2> QED BY <2>1, <2>2
<1>4. unread' \in [Conn -> 0 .. MaxMessages] /\ UnreadInv'
  <2>1. CASE ReadMessage(t)
    <3>1. At(t) \in Conn /\ unread[At(t)] - 1 \in 0 .. MaxMessages
      BY <1>1, <2>1 DEF IInv, ReadMessage, TypeOK, ThreadInv, At
    <3>2. unread' = [unread EXCEPT ![At(t)] = @ - 1]
      BY <2>1 DEF ReadMessage
    <3>3. UnreadInv'
      BY <1>1, <3>1, <3>2 DEF IInv, TypeOK, UnreadInv
    <3> QED BY <3>1, <3>2, <3>3 DEF IInv, TypeOK
  <2>2. CASE ~ReadMessage(t)
    BY <1>1, <2>2 DEF IInv, TypeOK, UnreadInv, Select, ReadEnd, ReadFails, Process, clients
  <2> QED BY <2>1, <2>2
<1>5. TypeOK'
  BY <1>1, <1>3, <1>4 DEF IInv, TypeOK
<1>6. TableInv' /\ HandInv'
  BY <1>1 DEF IInv, TableInv, HandInv, Open
<1>7. ThreadInv'
  BY <1>1, <1>2, <1>3 DEF IInv, ThreadInv, InHand
<1>8. LatestInv'
  <2>1. accepted > 0 => accepted \in Conn
    BY DEF IInv, TypeOK
  <2> QED BY <1>1, <1>2, <2>1 DEF IInv, LatestInv, Open
<1>9. OlderInv'
  BY <1>1, <1>2 DEF IInv, OlderInv, At
<1>10. SpacedInv'
  BY <1>1, <1>2, <1>3 DEF IInv, SpacedInv, At, Open
<1> QED BY <1>4, <1>5, <1>6, <1>7, <1>8, <1>9, <1>10 DEF IInv

\* The thread takes the descriptor it finds in connection_data.
LEMMA BeginKeeps ==
  ASSUME IInv, NEW t \in Conn, Begin(t)
  PROVE  IInv'
<1>1. /\ Running /\ pc[t] = "created" /\ pc' = [pc EXCEPT ![t] = "select"]
      /\ socket' = [socket EXCEPT ![t] = sd]
      /\ UNCHANGED <<arrived, unread, sent, hungUp, spaced, fdTable, accepted, acceptor,
                     client_socket, sd, from>>
      /\ pc \in [Conn -> Working \cup {"none", "created", "done"}]
      /\ socket \in [Conn -> FD \cup {NoFd}] /\ sd \in FD
  BY DEF Begin, Goto, clients, main, IInv, TypeOK, ThreadInv
<1>2. /\ pc'[t] = "select" /\ socket'[t] = sd
      /\ \A u \in Conn \ {t} : pc'[u] = pc[u] /\ socket'[u] = socket[u]
  BY <1>1
<1>3. TypeOK' /\ UnreadInv'
  BY <1>1 DEF IInv, TypeOK, UnreadInv
<1>4. TableInv' /\ HandInv'
  BY <1>1 DEF IInv, TableInv, HandInv, Open
<1>5. ThreadInv'
  BY <1>1, <1>2 DEF IInv, ThreadInv, InHand
<1>6. LatestInv'
  <2>1. accepted > 0 => accepted \in Conn
    BY DEF IInv, TypeOK
  <2> QED BY <1>1, <1>2, <2>1 DEF IInv, LatestInv, Open
<1>7. OlderInv'
  BY <1>1, <1>2 DEF IInv, OlderInv, At
<1>8. SpacedInv'
  <2>1. spaced => accepted = t /\ fdTable[sd] = t
    BY <1>1 DEF IInv, SpacedInv
  <2>2. spaced => from[t] \in {Free, t}
    BY <1>1 DEF IInv, ThreadInv
  <2> QED BY <1>1, <1>2, <2>1, <2>2 DEF IInv, SpacedInv, At, Open
<1> QED BY <1>3, <1>4, <1>5, <1>6, <1>7, <1>8 DEF IInv

\* tcp_stop closes what is behind the thread's number, its own connection or none
\* if connections come slowly.
LEMMA CloseKeeps ==
  ASSUME IInv, NEW t \in Conn, Close(t)
  PROVE  IInv'
<1>1. /\ Running /\ pc[t] = "close" /\ pc' = [pc EXCEPT ![t] = "done"]
      /\ fdTable' = [fdTable EXCEPT ![socket[t]] = Free]
      /\ UNCHANGED <<arrived, unread, sent, hungUp, spaced, accepted, acceptor,
                     client_socket, sd, socket, from>>
      /\ pc \in [Conn -> Working \cup {"none", "created", "done"}]
      /\ fdTable \in [FD -> Conn \cup {Free}] /\ socket[t] \in FD
  BY DEF Close, Goto, clients, main, IInv, TypeOK, ThreadInv
<1>2. /\ pc'[t] = "done" /\ \A u \in Conn \ {t} : pc'[u] = pc[u]
      /\ fdTable'[socket[t]] = Free
      /\ \A f \in FD \ {socket[t]} : fdTable'[f] = fdTable[f]
  BY <1>1
<1>3. \A c \in Conn : Open(c)' => Open(c) /\ fdTable[socket[t]] # c
  BY <1>1, <1>2 DEF IInv, TableInv, Open
<1>4. TypeOK' /\ UnreadInv'
  BY <1>1 DEF IInv, TypeOK, UnreadInv
<1>5. TableInv'
  BY <1>1, <1>2 DEF IInv, TypeOK, TableInv
<1>6. HandInv'
  <2>1. acceptor \in {"store", "spawn"} => client_socket \in FD /\ accepted \in Conn
    BY DEF IInv, HandInv
  <2> QED BY <1>1, <1>2, <1>3, <2>1 DEF IInv, HandInv
<1>7. ThreadInv'
  BY <1>1, <1>2 DEF IInv, ThreadInv, InHand
<1>8. LatestInv'
  <2>1. accepted > 0 => accepted \in Conn
    BY DEF IInv, TypeOK
  <2> QED BY <1>1, <1>2, <1>3, <2>1 DEF IInv, LatestInv
<1>9. OlderInv'
  BY <1>1, <1>2 DEF IInv, OlderInv, ThreadInv, At
<1>10. SpacedInv'
  <2> SUFFICES ASSUME spaced PROVE SpacedInv'
    BY <1>1 DEF SpacedInv
  <2>1. fdTable[socket[t]] = t
    BY <1>1 DEF IInv, SpacedInv, At
  <2>2. acceptor \in {"store", "spawn"} => fdTable'[client_socket] = accepted
    <3>1. acceptor \in {"store", "spawn"} =>
            client_socket \in FD /\ fdTable[client_socket] = accepted /\ accepted # t
      BY <1>1 DEF IInv, SpacedInv, HandInv, ThreadInv, InHand
    <3> QED BY <1>2, <2>1, <3>1
  <2>3. ASSUME NEW u \in Conn
        PROVE  /\ pc'[u] = "created" => u = accepted /\ acceptor = "accept" /\ fdTable'[sd] = u
               /\ pc'[u] \in Working => At(u)' = u /\ from[u] \in {Free, u}
    BY <1>1, <1>2, <2>1 DEF IInv, SpacedInv, ThreadInv, At
  <2>4. ASSUME NEW u \in Conn, pc'[u] = "done" PROVE ~Open(u)'
    BY <1>1, <1>2, <1>3, <2>1, <2>4 DEF IInv, SpacedInv
  <2> QED BY <1>1, <2>2, <2>3, <2>4 DEF SpacedInv
<1> QED BY <1>4, <1>5, <1>6, <1>7, <1>8, <1>9, <1>10 DEF IInv

\* accept puts a connection nobody knows behind a descriptor nobody has.
LEMMA AcceptKeeps ==
  ASSUME IInv, Accept
  PROVE  IInv'
<1>1. PICK fd \in FD :
        /\ fdTable[fd] = Free
        /\ fdTable' = [fdTable EXCEPT ![fd] = accepted + 1]
        /\ client_socket' = fd
  BY DEF Accept
<1>2. /\ acceptor = "accept" /\ acceptor' = "store" /\ accepted' = accepted + 1
      /\ accepted < arrived
      /\ (spaced => \A t \in Conn : pc[t] # "created")
      /\ UNCHANGED <<arrived, unread, sent, hungUp, spaced, sd, pc, socket, from>>
  BY DEF Accept, AcceptorAt, clients, threads
<1>3. /\ accepted + 1 \in Conn /\ accepted \in Nat
      /\ fdTable \in [FD -> Conn \cup {Free}]
      /\ \A f \in FD : fdTable[f] <= accepted
  BY <1>2 DEF IInv, TypeOK, TableInv
<1>4. fdTable'[fd] = accepted + 1 /\ \A f \in FD \ {fd} : fdTable'[f] = fdTable[f]
  BY <1>1, <1>3
<1>5. TypeOK' /\ UnreadInv'
  BY <1>1, <1>2, <1>3 DEF IInv, TypeOK, UnreadInv
<1>6. TableInv'
  BY <1>2, <1>3, <1>4 DEF IInv, TableInv
<1>7. \A t \in Conn : pc[t] # "none" => t <= accepted
  BY DEF IInv, ThreadInv
<1>8. ThreadInv'
  BY <1>2, <1>3, <1>7 DEF IInv, ThreadInv, InHand
<1>9. HandInv' /\ LatestInv'
  BY <1>1, <1>2, <1>3, <1>4 DEF HandInv, LatestInv, Open
<1>10. OlderInv'
  BY <1>2, <1>3, <1>4, <1>7 DEF IInv, OlderInv, ThreadInv, At
<1>11. SpacedInv'
  <2> SUFFICES ASSUME spaced PROVE SpacedInv'
    BY <1>2 DEF SpacedInv
  <2>1. fdTable'[client_socket'] = accepted'
    BY <1>1, <1>2, <1>4
  <2>2. ASSUME NEW t \in Conn, pc[t] \in Working PROVE At(t)' = t /\ from[t] \in {Free, t}
    BY <1>1, <1>2, <1>4, <2>2 DEF IInv, SpacedInv, ThreadInv, At
  <2>3. ASSUME NEW t \in Conn, pc[t] = "done" PROVE ~Open(t)'
    BY <1>2, <1>3, <1>4, <1>7, <2>3 DEF IInv, SpacedInv, Open
  <2> QED BY <1>2, <2>1, <2>2, <2>3 DEF SpacedInv
<1> QED BY <1>5, <1>6, <1>8, <1>9, <1>10, <1>11 DEF IInv

\* connection_data gets the descriptor in hand.
LEMMA StoreKeeps ==
  ASSUME IInv, StoreData
  PROVE  IInv'
<1>1. /\ acceptor = "store" /\ acceptor' = "spawn" /\ sd' = client_socket
      /\ UNCHANGED <<arrived, unread, sent, hungUp, spaced, fdTable, accepted,
                     client_socket, pc, socket, from>>
      /\ client_socket \in FD /\ accepted \in Conn
      /\ fdTable[client_socket] \in {Free, accepted}
  BY DEF StoreData, AcceptorAt, clients, threads, IInv, HandInv
<1>2. TypeOK' /\ UnreadInv'
  BY <1>1 DEF IInv, TypeOK, UnreadInv
<1>3. TableInv' /\ ThreadInv'
  BY <1>1 DEF IInv, TableInv, ThreadInv, InHand
<1>4. HandInv' /\ LatestInv'
  BY <1>1 DEF IInv, HandInv, LatestInv, Open
<1>5. OlderInv'
  BY <1>1 DEF IInv, OlderInv, ThreadInv, At
<1>6. SpacedInv'
  BY <1>1 DEF IInv, SpacedInv, At, Open
<1> QED BY <1>2, <1>3, <1>4, <1>5, <1>6 DEF IInv

\* The new thread finds the descriptor of its connection, or a closed one.
LEMMA SpawnKeeps ==
  ASSUME IInv, Spawn
  PROVE  IInv'
<1>1. /\ acceptor = "spawn" /\ acceptor' = "accept"
      /\ pc' = [pc EXCEPT ![accepted] = "created"]
      /\ UNCHANGED <<arrived, unread, sent, hungUp, spaced, fdTable, accepted,
                     client_socket, sd, socket, from>>
      /\ client_socket \in FD /\ accepted \in Conn /\ sd = client_socket
      /\ fdTable[client_socket] \in {Free, accepted}
      /\ pc \in [Conn -> Working \cup {"none", "created", "done"}]
  BY DEF Spawn, AcceptorAt, clients, IInv, HandInv, TypeOK
<1>2. /\ pc'[accepted] = "created" /\ pc[accepted] = "none"
      /\ \A t \in Conn \ {accepted} : pc'[t] = pc[t]
  BY <1>1 DEF IInv, ThreadInv, InHand
<1>3. TypeOK' /\ UnreadInv'
  BY <1>1 DEF IInv, TypeOK, UnreadInv
<1>4. TableInv' /\ HandInv'
  BY <1>1 DEF IInv, TableInv, HandInv
<1>5. ThreadInv'
  BY <1>1, <1>2 DEF IInv, ThreadInv, InHand
<1>6. LatestInv'
  BY <1>1, <1>2 DEF IInv, HandInv, LatestInv, Open
<1>7. OlderInv'
  BY <1>1, <1>2 DEF IInv, OlderInv, At
<1>8. SpacedInv'
  BY <1>1, <1>2 DEF IInv, SpacedInv, At, Open
<1> QED BY <1>3, <1>4, <1>5, <1>6, <1>7, <1>8 DEF IInv

\* Without a thread the descriptor stays where it is.
LEMMA SpawnFailsKeeps ==
  ASSUME IInv, SpawnFails, acceptor' = "accept"
  PROVE  IInv'
<1>1. /\ acceptor = "spawn" /\ acceptor' = "accept"
      /\ UNCHANGED <<arrived, unread, sent, hungUp, spaced, fdTable, accepted,
                     client_socket, sd, pc, socket, from>>
      /\ client_socket \in FD /\ accepted \in Conn /\ sd = client_socket
      /\ pc[accepted] = "none"
  BY DEF SpawnFails, AcceptorAt, clients, threads, IInv, HandInv, ThreadInv, InHand
<1>2. TypeOK' /\ UnreadInv'
  BY <1>1 DEF IInv, TypeOK, UnreadInv
<1>3. TableInv' /\ ThreadInv'
  BY <1>1 DEF IInv, TableInv, ThreadInv, InHand
<1>4. HandInv' /\ LatestInv'
  BY <1>1 DEF IInv, HandInv, LatestInv, Open
<1>5. OlderInv' /\ SpacedInv'
  BY <1>1 DEF IInv, OlderInv, SpacedInv, At, Open
<1> QED BY <1>2, <1>3, <1>4, <1>5 DEF IInv

\* The process ends and its descriptors with it.
LEMMA ExitKeeps ==
  ASSUME IInv, AcceptFails \/ SpawnFails, acceptor' = "exited"
  PROVE  IInv'
<1>1. /\ acceptor' = "exited" /\ fdTable' = [fd \in FD |-> Free]
      /\ UNCHANGED <<arrived, unread, sent, hungUp, spaced, accepted,
                     client_socket, sd, pc, socket, from>>
  BY DEF AcceptFails, SpawnFails, AcceptorAt, clients, threads
<1>2. TypeOK' /\ UnreadInv'
  BY <1>1 DEF IInv, TypeOK, UnreadInv
<1>3. TableInv'
  BY <1>1 DEF IInv, TableInv, TypeOK
<1>4. ThreadInv'
  BY <1>1 DEF IInv, ThreadInv, InHand
<1>5. HandInv' /\ LatestInv' /\ OlderInv' /\ SpacedInv'
  BY <1>1 DEF HandInv, LatestInv, OlderInv, SpacedInv
<1> QED BY <1>2, <1>3, <1>4, <1>5 DEF IInv

\* Every step keeps the invariant.
LEMMA NextIInv == IInv /\ [Next]_vars => IInv'
<1> SUFFICES ASSUME IInv, [Next]_vars PROVE IInv'
  OBVIOUS
<1>1. CASE Connect \/ \E c \in Conn : Send(c) \/ HangUp(c)
  BY <1>1, ClientsKeep
<1>2. ASSUME NEW t \in Conn, Thread(t) PROVE IInv'
  BY <1>2, WorkKeeps, BeginKeeps, CloseKeeps DEF Thread
<1>3. CASE AcceptLoop
  <2>1. CASE AcceptFails \/ SpawnFails
    <3>1. acceptor' \in {"accept", "exited"} /\ (AcceptFails => acceptor' = "exited")
      BY <2>1 DEF AcceptFails, SpawnFails, AcceptorAt
    <3> QED BY <2>1, <3>1, SpawnFailsKeeps, ExitKeeps
  <2> QED BY <1>3, <2>1, AcceptKeeps, StoreKeeps, SpawnKeeps DEF AcceptLoop
<1>4. CASE UNCHANGED vars
  <2>1. TypeOK' /\ UnreadInv' /\ TableInv'
    BY <1>4 DEF vars, IInv, TypeOK, UnreadInv, TableInv
  <2>2. ThreadInv' /\ HandInv' /\ LatestInv'
    BY <1>4 DEF vars, IInv, ThreadInv, HandInv, LatestInv, InHand, Open
  <2>3. OlderInv' /\ SpacedInv'
    BY <1>4 DEF vars, IInv, OlderInv, SpacedInv, At, Open
  <2> QED BY <2>1, <2>2, <2>3 DEF IInv
<1> QED BY <1>1, <1>2, <1>3, <1>4 DEF Next

\* The inductive invariant holds.
THEOREM IInvHolds == Spec => []IInv
BY InitIInv, NextIInv, PTL DEF Spec

-----------------------------------------------------------------------------
(* The theorems *)

\* The state of the accept loop, its threads and the descriptor table is of its type.
THEOREM TypeCorrect == Spec => []TypeOK
BY IInvHolds, PTL DEF IInv

\* tcp_server_start gives each connection a thread of its own as long as threads
\* run before the next accept returns, for any number of connections.
THEOREM ConnectionOwned == Spec => []OwnConnection
<1>1. IInv => OwnConnection
  BY DEF IInv, SpacedInv, OwnConnection
<1> QED BY <1>1, IInvHolds, PTL

\* Under the same condition no descriptor leaks but by a failed pthread_create.
THEOREM NoneOrphaned == Spec => []NoOrphan
<1>1. ASSUME IInv PROVE NoOrphan
  <2>1. ASSUME spaced, Running, NEW c \in Conn, Open(c), pc[c] = "none", ~InHand(c)
        PROVE  Abandoned(c)
    BY <1>1, <2>1 DEF IInv, TableInv, TypeOK, Open, Abandoned
  <2>2. ASSUME spaced, Running, NEW c \in Conn, Open(c) PROVE pc[c] # "done"
    BY <1>1, <2>2 DEF IInv, SpacedInv
  <2>3. \A c \in Conn : pc[c] \in Working \cup {"none", "created", "done"}
    BY <1>1 DEF IInv, TypeOK
  <2> QED BY <2>1, <2>2, <2>3 DEF NoOrphan
<1> QED BY <1>1, IInvHolds, PTL

\* However fast connections come in, no thread serves one made before its own.
THEOREM OlderNeverServed == Spec => []NeverOlder
<1>1. IInv => NeverOlder
  BY DEF IInv, OlderInv, NeverOlder
<1> QED BY <1>1, IInvHolds, PTL

\* The connection accepted last is served by its own thread.
THEOREM LatestIsServed == Spec => []LatestServed
<1>1. ASSUME IInv PROVE LatestServed
  <2>1. accepted > 0 => accepted \in Conn
    BY <1>1 DEF IInv, TypeOK
  <2> QED BY <1>1, <2>1 DEF IInv, LatestInv, LatestServed, At
<1> QED BY <1>1, IInvHolds, PTL

-----------------------------------------------------------------------------
(* The refinement of ConnectionService                                     *)

\* A thread has a message in hand exactly while it processes it; and when
\* connections come slowly, its client has sent one or left before it closes.
HeardInv ==
  /\ \A t \in Conn : pc[t] = "process" <=> from[t] # Free
  /\ spaced /\ Running =>
       \A t \in Conn :
         /\ pc[t] = "process" => unread[t] < sent[t]
         /\ pc[t] = "close" => Service!MayClose(t)

ServiceInv == IInv /\ HeardInv

\* The initial states satisfy it, and are initial states of the service.
LEMMA ServiceInit == Init => ServiceInv /\ Service!Init
<1> SUFFICES ASSUME Init PROVE ServiceInv /\ Service!Init
  OBVIOUS
<1>1. HeardInv
  BY DEF Init, HeardInv
<1>2. openBar = {} /\ Running
  BY DEF Init, openBar, Open
<1>3. stageBar = [t \in Conn |-> "none"] /\ atBar = [t \in Conn |-> 0]
  BY DEF Init, stageBar, atBar
<1>4. Service!Init
  BY <1>2, <1>3 DEF Init, Service!Init, Service!All, Service!Conn
<1> QED BY <1>1, <1>4, InitIInv DEF ServiceInv

\* What is open, and what the threads serve, moves with the descriptor table and
\* the threads only.
LEMMA BarsStay ==
  ASSUME UNCHANGED <<fdTable, socket>>, IInv, IInv',
         \A t \in Conn : \/ pc'[t] = pc[t]
                         \/ pc[t] \in Working /\ pc'[t] \in Working
                         \/ pc[t] \in {"none", "created"} /\ pc'[t] \in {"none", "created"}
  PROVE  UNCHANGED <<openBar, stageBar, atBar>>
<1>1. UNCHANGED openBar
  BY DEF openBar, Open
<1>2. UNCHANGED stageBar
  <2> DEFINE StageOf(p) == CASE p \in Working -> "serving"
                             [] p = "done" -> "done"
                             [] p \in {"none", "created"} -> "none"
  <2>1. \A p \in Working : StageOf(p) = "serving"
    OBVIOUS
  <2>2. StageOf("none") = "none" /\ StageOf("created") = "none"
    OBVIOUS
  <2>3. \A t \in Conn : StageOf(pc'[t]) = StageOf(pc[t])
    BY <2>1, <2>2
  <2>4. /\ stageBar = [t \in Conn |-> StageOf(pc[t])]
        /\ stageBar' = [t \in Conn |-> StageOf(pc'[t])]
    BY DEF stageBar
  <2> HIDE DEF StageOf
  <2> QED BY <2>3, <2>4
<1>3. UNCHANGED atBar
  BY DEF atBar, At
<1> QED BY <1>1, <1>2, <1>3

\* The clients of the model are those of the service.
LEMMA ClientServed ==
  ASSUME ServiceInv, Connect \/ \E c \in Conn : Send(c) \/ HangUp(c)
  PROVE  HeardInv' /\ Service!Next
<1>1. /\ Running /\ Running'
      /\ UNCHANGED <<spaced, fdTable, accepted, acceptor, client_socket, sd, pc, socket, from>>
  BY DEF Connect, Send, HangUp, main, threads
<1>2. UNCHANGED <<openBar, stageBar, atBar>>
  BY <1>1 DEF openBar, stageBar, atBar, Open, At
<1>3. arrived \in Nat /\ accepted \in Nat /\ unread \in [Conn -> Nat] /\ sent \in [Conn -> Nat]
  BY DEF ServiceInv, IInv, TypeOK
<1> USE DEF Service!clients, Service!service, Service!Conn
<1>4. CASE Connect
  <2>1. Service!Connect
    BY <1>1, <1>2, <1>4 DEF Connect, Service!Connect
  <2>2. HeardInv'
    BY <1>1, <1>4 DEF ServiceInv, HeardInv, Connect, Service!MayClose
  <2> QED BY <1>1, <2>1, <2>2 DEF Service!Next
<1>5. ASSUME NEW c \in Conn, Send(c) PROVE HeardInv' /\ Service!Next
  <2>1. Service!Send(c)
    BY <1>1, <1>2, <1>5 DEF Send, Service!Send
  <2>2. /\ c \notin hungUp /\ UNCHANGED hungUp
        /\ sent'[c] = sent[c] + 1 /\ unread'[c] = unread[c] + 1
        /\ \A d \in Conn \ {c} : sent'[d] = sent[d] /\ unread'[d] = unread[d]
    BY <1>3, <1>5 DEF Send
  <2>3. HeardInv'
    <3>1. \A u \in Conn : unread[u] < sent[u] => unread'[u] < sent'[u]
      <4> SUFFICES ASSUME NEW u \in Conn, unread[u] < sent[u] PROVE unread'[u] < sent'[u]
        OBVIOUS
      <4>1. unread[u] \in Nat /\ sent[u] \in Nat
        BY <1>3
      <4>2. CASE u = c
        BY <2>2, <4>1, <4>2
      <4>3. CASE u # c
        BY <2>2, <4>3
      <4> QED BY <4>2, <4>3
    <3>2. \A u \in Conn : Service!MayClose(u) => Service!MayClose(u)'
      BY <2>2, <3>1 DEF Service!MayClose
    <3> QED BY <1>1, <3>1, <3>2 DEF ServiceInv, HeardInv
  <2> QED BY <1>1, <2>1, <2>3 DEF Service!Next
<1>6. ASSUME NEW c \in Conn, HangUp(c) PROVE HeardInv' /\ Service!Next
  <2>1. Service!HangUp(c)
    BY <1>1, <1>2, <1>6 DEF HangUp, Service!HangUp
  <2>2. HeardInv'
    BY <1>1, <1>6 DEF ServiceInv, HeardInv, HangUp, Service!MayClose
  <2> QED BY <1>1, <2>1, <2>2 DEF Service!Next
<1> QED BY <1>4, <1>5, <1>6

\* select, a failed read and the end of the stream are steps inside the service.
LEMMA WaitingServed ==
  ASSUME ServiceInv, IInv', NEW t \in Conn, Select(t) \/ ReadEnd(t) \/ ReadFails(t)
  PROVE  HeardInv' /\ UNCHANGED Service!vars
<1>1. /\ Running /\ Running' /\ pc[t] \in {"select", "read"}
      /\ UNCHANGED <<arrived, unread, sent, hungUp, spaced, fdTable, accepted, acceptor,
                     client_socket, sd, socket, from>>
      /\ \/ pc' = [pc EXCEPT ![t] = "read"] \/ pc' = [pc EXCEPT ![t] = "select"]
         \/ pc' = [pc EXCEPT ![t] = "close"] /\ At(t) \in hungUp /\ unread[At(t)] = 0
  BY DEF Select, ReadEnd, ReadFails, Goto, clients, main
<1>2. pc \in [Conn -> Working \cup {"none", "created", "done"}]
  BY DEF ServiceInv, IInv, TypeOK
<1>3. pc'[t] \in {"select", "read", "close"}
      /\ \A u \in Conn \ {t} : pc'[u] = pc[u]
  BY <1>1, <1>2
<1>4. UNCHANGED <<openBar, stageBar, atBar>>
  BY <1>1, <1>2, <1>3, BarsStay DEF ServiceInv
<1>5. UNCHANGED Service!vars
  BY <1>1, <1>4 DEF Service!vars, Service!clients, Service!service
<1>6. spaced /\ pc'[t] = "close" => t \in hungUp /\ unread[t] = 0
  <2>1. spaced => At(t) = t
    BY <1>1 DEF ServiceInv, IInv, SpacedInv
  <2> QED BY <1>1, <1>2, <2>1
<1>7. HeardInv'
  BY <1>1, <1>3, <1>6 DEF ServiceInv, HeardInv, Service!MayClose
<1> QED BY <1>5, <1>7

\* The stage of a thread is where its program counter is.
LEMMA StageOfPc ==
  ASSUME IInv, NEW t \in Conn
  PROVE  /\ stageBar[t] = "serving" <=> pc[t] \in Working
         /\ stageBar[t] = "done" <=> pc[t] = "done"
         /\ stageBar[t] = "none" <=> pc[t] \in {"none", "created"}
<1>1. pc[t] \in Working \cup {"none", "created", "done"}
  BY DEF IInv, TypeOK
<1>2. stageBar[t] = CASE pc[t] \in Working -> "serving"
                      [] pc[t] = "done" -> "done"
                      [] pc[t] \in {"none", "created"} -> "none"
  BY DEF stageBar
<1>3. CASE pc[t] \in Working
  BY <1>2, <1>3
<1>4. CASE pc[t] = "done"
  BY <1>2, <1>4
<1>5. CASE pc[t] \in {"none", "created"}
  BY <1>2, <1>5
<1> QED BY <1>1, <1>3, <1>4, <1>5

\* One thread moves and the others stay at their stage.
LEMMA StageMoves ==
  ASSUME NEW t \in Conn, \A u \in Conn \ {t} : pc'[u] = pc[u]
  PROVE  stageBar' = [stageBar EXCEPT ![t] = stageBar'[t]]
<1> DEFINE StageOf(p) == CASE p \in Working -> "serving"
                           [] p = "done" -> "done"
                           [] p \in {"none", "created"} -> "none"
<1>1. /\ stageBar = [u \in Conn |-> StageOf(pc[u])]
      /\ stageBar' = [u \in Conn |-> StageOf(pc'[u])]
  BY DEF stageBar
<1> HIDE DEF StageOf
<1> QED BY <1>1

\* What is read comes from the connection the thread serves.
LEMMA ReadServed ==
  ASSUME ServiceInv, IInv', NEW t \in Conn, ReadMessage(t)
  PROVE  HeardInv' /\ Service!Next
<1>1. /\ Running /\ Running' /\ pc[t] = "read" /\ pc' = [pc EXCEPT ![t] = "process"]
      /\ At(t) # Free /\ unread[At(t)] > 0
      /\ unread' = [unread EXCEPT ![At(t)] = @ - 1] /\ from' = [from EXCEPT ![t] = At(t)]
      /\ UNCHANGED <<arrived, sent, hungUp, spaced, fdTable, accepted, acceptor,
                     client_socket, sd, socket>>
  BY DEF ReadMessage, Goto, main
<1>2. /\ pc \in [Conn -> Working \cup {"none", "created", "done"}]
      /\ At(t) \in Conn /\ unread \in [Conn -> Nat] /\ sent \in [Conn -> Nat]
      /\ from \in [Conn -> Conn \cup {Free}]
  BY <1>1 DEF ServiceInv, IInv, TypeOK, ThreadInv, At
<1>3. /\ pc'[t] = "process" /\ from'[t] = At(t) /\ unread'[At(t)] = unread[At(t)] - 1
      /\ \A u \in Conn \ {t} : pc'[u] = pc[u] /\ from'[u] = from[u]
      /\ \A c \in Conn \ {At(t)} : unread'[c] = unread[c]
  BY <1>1, <1>2
<1>4. UNCHANGED <<openBar, stageBar, atBar>>
  BY <1>1, <1>3, BarsStay DEF ServiceInv
<1>5. stageBar[t] = "serving" /\ atBar[t] = At(t)
  BY <1>1, StageOfPc DEF ServiceInv, atBar
<1>6. Service!Read(t)
  BY <1>1, <1>4, <1>5 DEF Service!Read, Service!service
<1>7. HeardInv'
  <2>1. \A u \in Conn : unread'[u] <= unread[u] /\ unread[u] <= sent[u]
    <3> SUFFICES ASSUME NEW u \in Conn
                 PROVE  unread'[u] <= unread[u] /\ unread[u] <= sent[u]
      OBVIOUS
    <3>1. unread[u] \in Nat /\ unread[u] <= sent[u]
      BY <1>2 DEF ServiceInv, IInv, UnreadInv
    <3>2. CASE u = At(t)
      BY <1>3, <3>1, <3>2
    <3>3. CASE u # At(t)
      BY <1>3, <3>1, <3>3
    <3> QED BY <3>1, <3>2, <3>3
  <2>2. spaced => unread'[t] < sent[t]
    BY <1>1, <1>2, <1>3, <2>1 DEF ServiceInv, IInv, SpacedInv
  <2>3. \A u \in Conn : unread[u] = 0 => unread'[u] = 0
    BY <1>1, <1>2, <1>3
  <2>4. \A u \in Conn : pc'[u] = "process" <=> from'[u] # Free
    BY <1>1, <1>2, <1>3 DEF ServiceInv, HeardInv
  <2>5. \A u \in Conn : unread[u] < sent[u] => unread'[u] < sent[u]
    <3> SUFFICES ASSUME NEW u \in Conn, unread[u] < sent[u] PROVE unread'[u] < sent[u]
      OBVIOUS
    <3>1. unread[u] \in Nat /\ unread'[u] \in Nat /\ sent[u] \in Nat
      BY <1>2 DEF IInv, TypeOK
    <3> QED BY <2>1, <3>1
  <2>6. ASSUME spaced, NEW u \in Conn
        PROVE  /\ pc'[u] = "process" => unread'[u] < sent[u]
               /\ pc'[u] = "close" => Service!MayClose(u)'
    <3>1. CASE u = t
      BY <1>3, <2>2, <2>6, <3>1
    <3>2. CASE u # t
      BY <1>1, <1>3, <2>3, <2>5, <2>6, <3>2 DEF ServiceInv, HeardInv, Service!MayClose
    <3> QED BY <3>1, <3>2
  <2> QED BY <1>1, <2>4, <2>6 DEF HeardInv
<1> QED BY <1>1, <1>6, <1>7 DEF Service!Next, Service!Conn

\* The message is answered; when connections come slowly, to the client it is from.
LEMMA ProcessServed ==
  ASSUME ServiceInv, IInv', NEW t \in Conn, Process(t)
  PROVE  HeardInv' /\ Service!Next
<1>1. /\ Running /\ Running' /\ pc[t] = "process" /\ from' = [from EXCEPT ![t] = Free]
      /\ pc' = [pc EXCEPT ![t] = "select"] \/ pc' = [pc EXCEPT ![t] = "close"]
      /\ UNCHANGED <<arrived, unread, sent, hungUp, spaced, fdTable, accepted, acceptor,
                     client_socket, sd, socket>>
  BY DEF Process, Goto, clients, main
<1>2. /\ pc \in [Conn -> Working \cup {"none", "created", "done"}]
      /\ from \in [Conn -> Conn \cup {Free}]
  BY DEF ServiceInv, IInv, TypeOK
<1>3. /\ pc'[t] \in {"select", "close"} /\ from'[t] = Free
      /\ \A u \in Conn \ {t} : pc'[u] = pc[u] /\ from'[u] = from[u]
  BY <1>1, <1>2
<1>4. UNCHANGED <<openBar, stageBar, atBar>>
  BY <1>1, <1>3, BarsStay DEF ServiceInv
<1>5. stageBar[t] = "serving" /\ atBar[t] = At(t)
  BY <1>1, StageOfPc DEF ServiceInv, atBar
<1>6. spaced => from[t] = At(t)
  BY <1>1 DEF ServiceInv, IInv, SpacedInv, HeardInv
<1>7. Service!Answer(t)
  BY <1>1, <1>4, <1>5, <1>6 DEF Service!Answer, Service!service, Service!clients
<1>8. HeardInv'
  BY <1>1, <1>3 DEF ServiceInv, HeardInv, Service!MayClose
<1> QED BY <1>1, <1>7, <1>8 DEF Service!Next, Service!Conn

\* A new thread starts with what it finds in connection_data, which is never older
\* than its own connection.
LEMMA BeginServed ==
  ASSUME ServiceInv, IInv', NEW t \in Conn, Begin(t)
  PROVE  HeardInv' /\ Service!Next
<1>1. /\ Running /\ Running' /\ pc[t] = "created" /\ pc' = [pc EXCEPT ![t] = "select"]
      /\ socket' = [socket EXCEPT ![t] = sd]
      /\ UNCHANGED <<arrived, unread, sent, hungUp, spaced, fdTable, accepted, acceptor,
                     client_socket, sd, from>>
  BY DEF Begin, Goto, clients, main
<1>2. /\ pc \in [Conn -> Working \cup {"none", "created", "done"}]
      /\ socket \in [Conn -> FD \cup {NoFd}] /\ sd \in FD
      /\ fdTable \in [FD -> Conn \cup {Free}]
  BY <1>1 DEF ServiceInv, IInv, TypeOK, ThreadInv
<1>3. /\ pc'[t] = "select" /\ socket'[t] = sd
      /\ \A u \in Conn \ {t} : pc'[u] = pc[u] /\ socket'[u] = socket[u]
  BY <1>1, <1>2
<1>4. UNCHANGED openBar
  BY <1>1 DEF openBar, Open
<1>5. stageBar[t] = "none" /\ stageBar' = [stageBar EXCEPT ![t] = "serving"]
  <2>1. stageBar'[t] = "serving"
    BY <1>3 DEF stageBar
  <2> QED BY <1>1, <1>3, <2>1, StageMoves, StageOfPc DEF ServiceInv
<1>6. atBar' = [atBar EXCEPT ![t] = fdTable[sd]]
  <2>1. atBar'[t] = fdTable[sd]
    BY <1>1, <1>3 DEF atBar, At
  <2>2. \A u \in Conn \ {t} : atBar'[u] = atBar[u]
    BY <1>1, <1>3 DEF atBar, At
  <2>3. atBar = [u \in Conn |-> atBar[u]] /\ atBar' = [u \in Conn |-> atBar'[u]]
    BY DEF atBar
  <2> QED BY <2>1, <2>2, <2>3
<1>7. /\ fdTable[sd] \in {0} \cup {d \in openBar : d >= t}
      /\ spaced => fdTable[sd] = t
  BY <1>1, <1>2 DEF ServiceInv, IInv, OlderInv, SpacedInv, openBar, Open
<1>8. Service!Start(t)
  BY <1>1, <1>4, <1>5, <1>6, <1>7 DEF Service!Start, Service!Goto, Service!clients
<1>9. HeardInv'
  BY <1>1, <1>3 DEF ServiceInv, HeardInv, Service!MayClose
<1> QED BY <1>1, <1>8, <1>9 DEF Service!Next, Service!Conn

\* tcp_stop closes the connection for every thread that has the descriptor.
LEMMA CloseServed ==
  ASSUME ServiceInv, IInv', NEW t \in Conn, Close(t)
  PROVE  HeardInv' /\ Service!Next
<1>1. /\ Running /\ Running' /\ pc[t] = "close" /\ pc' = [pc EXCEPT ![t] = "done"]
      /\ fdTable' = [fdTable EXCEPT ![socket[t]] = Free]
      /\ UNCHANGED <<arrived, unread, sent, hungUp, spaced, accepted, acceptor,
                     client_socket, sd, socket, from>>
  BY DEF Close, Goto, clients, main
<1>2. /\ pc \in [Conn -> Working \cup {"none", "created", "done"}]
      /\ \A u \in Conn : pc[u] \in Working => socket[u] \in FD
      /\ fdTable \in [FD -> Conn \cup {Free}] /\ socket[t] \in FD
  BY <1>1 DEF ServiceInv, IInv, TypeOK, ThreadInv
<1>3. /\ pc'[t] = "done" /\ \A u \in Conn \ {t} : pc'[u] = pc[u]
      /\ fdTable'[socket[t]] = Free
      /\ \A f \in FD \ {socket[t]} : fdTable'[f] = fdTable[f]
  BY <1>1, <1>2
<1>4. atBar[t] = At(t) /\ stageBar[t] = "serving"
  BY <1>1, StageOfPc DEF ServiceInv, atBar
<1>5. openBar' = openBar \ {atBar[t]}
  <2>1. \A f, g \in FD : fdTable[f] = fdTable[g] /\ fdTable[f] # Free => f = g
    BY DEF ServiceInv, IInv, TableInv
  <2>2. \A c \in Conn : Open(c)' <=> Open(c) /\ c # At(t)
    BY <1>1, <1>2, <1>3, <2>1 DEF Open, At
  <2> QED BY <1>4, <2>2 DEF openBar
<1>6. atBar' = [u \in Conn |-> IF u = t \/ atBar[u] = atBar[t] THEN 0 ELSE atBar[u]]
  <2>1. ASSUME NEW u \in Conn, u # t
        PROVE  atBar'[u] = IF atBar[u] = atBar[t] THEN 0 ELSE atBar[u]
    <3>1. CASE pc[u] \in Working
      <4>1. /\ atBar'[u] = fdTable'[socket[u]] /\ atBar[u] = fdTable[socket[u]]
            /\ socket[u] \in FD /\ socket[t] \in FD
        BY <1>1, <1>2, <1>3, <2>1, <3>1 DEF atBar, At
      <4>2. fdTable[socket[u]] = fdTable[socket[t]] /\ fdTable[socket[u]] # Free
              => socket[u] = socket[t]
        BY <4>1 DEF ServiceInv, IInv, TableInv
      <4> QED BY <1>3, <1>4, <4>1, <4>2 DEF At
    <3>2. CASE pc[u] \notin Working
      BY <1>3, <2>1, <3>2 DEF atBar
    <3> QED BY <3>1, <3>2
  <2>2. atBar'[t] = 0
    BY <1>3 DEF atBar
  <2>3. atBar' = [u \in Conn |-> atBar'[u]]
    BY DEF atBar
  <2> QED BY <2>1, <2>2, <2>3
<1>7. stageBar' = [stageBar EXCEPT ![t] = "done"]
  <2>1. stageBar'[t] = "done"
    BY <1>3 DEF stageBar
  <2> QED BY <1>1, <1>3, <2>1, StageMoves, StageOfPc DEF ServiceInv
<1>8. (spaced => atBar[t] = t /\ Service!MayClose(t)) /\ from[t] = 0
  BY <1>1, <1>4 DEF ServiceInv, IInv, SpacedInv, HeardInv
<1>9. Service!Close(t)
  BY <1>1, <1>4, <1>5, <1>6, <1>7, <1>8
     DEF Service!Close, Service!Goto, Service!clients, Service!Conn
<1>10. HeardInv'
  BY <1>1, <1>3 DEF ServiceInv, HeardInv, Service!MayClose
<1> QED BY <1>1, <1>9, <1>10 DEF Service!Next, Service!Conn

\* The connection accepted goes to its descriptor, where a thread left without one
\* may be waiting.
LEMMA AcceptServed ==
  ASSUME ServiceInv, IInv', Accept
  PROVE  HeardInv' /\ Service!Next
<1>1. PICK fd \in FD :
        fdTable[fd] = Free /\ fdTable' = [fdTable EXCEPT ![fd] = accepted + 1]
  BY DEF Accept
<1>2. /\ Running /\ Running' /\ accepted' = accepted + 1 /\ accepted < arrived
      /\ UNCHANGED <<arrived, unread, sent, hungUp, spaced, sd, pc, socket, from>>
  BY DEF Accept, AcceptorAt, clients, threads
<1>3. /\ accepted + 1 \in Conn /\ accepted \in Nat
      /\ fdTable \in [FD -> Conn \cup {Free}]
      /\ \A u \in Conn : pc[u] \in Working => socket[u] \in FD
  BY <1>2 DEF ServiceInv, IInv, TypeOK, ThreadInv
<1>4. fdTable'[fd] = accepted + 1 /\ \A f \in FD \ {fd} : fdTable'[f] = fdTable[f]
  BY <1>1, <1>3
<1>5. openBar' = openBar \cup {accepted + 1}
  <2>1. \A c \in Conn : Open(c)' <=> Open(c) \/ c = accepted + 1
    BY <1>1, <1>3, <1>4 DEF Open
  <2> QED BY <1>3, <2>1 DEF openBar
<1>6. UNCHANGED stageBar
  BY <1>2 DEF stageBar
<1> DEFINE found == {u \in Conn : pc[u] \in Working /\ socket[u] = fd}
<1>7. found \in SUBSET Service!Strays
  <2>1. ASSUME NEW u \in found PROVE stageBar[u] = "serving" /\ atBar[u] = 0
    BY <1>1, StageOfPc DEF ServiceInv, atBar, At
  <2> QED BY <2>1 DEF Service!Strays, Service!Conn
<1>8. atBar' = [u \in Conn |-> IF u \in found THEN accepted + 1 ELSE atBar[u]]
  <2>1. ASSUME NEW u \in Conn
        PROVE  atBar'[u] = IF u \in found THEN accepted + 1 ELSE atBar[u]
    <3>1. CASE pc[u] \in Working
      <4>1. atBar'[u] = fdTable'[socket[u]] /\ atBar[u] = fdTable[socket[u]]
        BY <1>2, <3>1 DEF atBar, At
      <4> QED BY <1>3, <1>4, <3>1, <4>1
    <3>2. CASE pc[u] \notin Working
      BY <1>2, <3>2 DEF atBar
    <3> QED BY <3>1, <3>2
  <2>2. atBar' = [u \in Conn |-> atBar'[u]]
    BY DEF atBar
  <2> HIDE DEF found
  <2> QED BY <2>1, <2>2
<1>9. Service!Accept
  <2> HIDE DEF found
  <2> QED BY <1>2, <1>5, <1>6, <1>7, <1>8 DEF Service!Accept, Service!clients, Service!Conn
<1>10. HeardInv'
  BY <1>2 DEF ServiceInv, HeardInv, Service!MayClose
<1> QED BY <1>2, <1>9, <1>10 DEF Service!Next

\* connection_data and pthread_create are no matter of the service.
LEMMA SpawnServed ==
  ASSUME ServiceInv, IInv', StoreData \/ Spawn \/ SpawnFails, acceptor' # "exited"
  PROVE  HeardInv' /\ UNCHANGED Service!vars
<1>1. /\ Running /\ Running'
      /\ UNCHANGED <<arrived, unread, sent, hungUp, spaced, fdTable, accepted, socket, from>>
      /\ pc' = pc \/ (acceptor = "spawn" /\ pc' = [pc EXCEPT ![accepted] = "created"])
  BY DEF StoreData, Spawn, SpawnFails, AcceptorAt, clients, threads
<1>2. \A u \in Conn : pc'[u] = pc[u] \/ (pc[u] = "none" /\ pc'[u] = "created")
  <2>1. CASE pc' = pc
    BY <2>1
  <2>2. CASE acceptor = "spawn" /\ pc' = [pc EXCEPT ![accepted] = "created"]
    <3>1. accepted \in Conn /\ pc[accepted] = "none"
      BY <2>2 DEF ServiceInv, IInv, HandInv, ThreadInv, InHand
    <3>2. pc \in [Conn -> Working \cup {"none", "created", "done"}]
      BY DEF ServiceInv, IInv, TypeOK
    <3> QED BY <2>2, <3>1, <3>2
  <2> QED BY <1>1, <2>1, <2>2
<1>3. UNCHANGED <<openBar, stageBar, atBar>>
  BY <1>1, <1>2, BarsStay DEF ServiceInv
<1>4. UNCHANGED Service!vars
  BY <1>1, <1>3 DEF Service!vars, Service!clients, Service!service
<1>5. HeardInv'
  BY <1>1, <1>2 DEF ServiceInv, HeardInv, Service!MayClose
<1> QED BY <1>4, <1>5

\* The process ends and its connections with it.
LEMMA ExitServed ==
  ASSUME ServiceInv, IInv', AcceptFails \/ SpawnFails, acceptor' = "exited"
  PROVE  HeardInv' /\ Service!Next
<1>1. /\ Running /\ ~Running' /\ fdTable' = [fd \in FD |-> Free]
      /\ UNCHANGED <<arrived, unread, sent, hungUp, spaced, accepted, pc, socket, from>>
  BY DEF AcceptFails, SpawnFails, AcceptorAt, clients, threads
<1>2. openBar' = {}
  BY <1>1 DEF openBar, Open
<1>3. UNCHANGED stageBar
  BY <1>1 DEF stageBar
<1>4. atBar' = Service!All(0)
  <2>1. \A u \in Conn : pc[u] \in Working => socket[u] \in FD
    BY DEF ServiceInv, IInv, ThreadInv
  <2>2. \A u \in Conn : atBar'[u] = 0
    BY <1>1, <2>1 DEF atBar, At
  <2>3. atBar' = [u \in Conn |-> atBar'[u]]
    BY DEF atBar
  <2> QED BY <2>2, <2>3 DEF Service!All, Service!Conn
<1>5. Service!Exit
  BY <1>1, <1>2, <1>3, <1>4 DEF Service!Exit, Service!clients
<1>6. HeardInv'
  BY <1>1 DEF ServiceInv, HeardInv
<1> QED BY <1>1, <1>5, <1>6 DEF Service!Next

\* Every step is one of the service, or none.
LEMMA ServiceStep == ServiceInv /\ [Next]_vars => ServiceInv' /\ [Service!Next]_(Service!vars)
<1> SUFFICES ASSUME ServiceInv, [Next]_vars
             PROVE  HeardInv' /\ (Service!Next \/ UNCHANGED Service!vars)
  BY NextIInv DEF ServiceInv
<1> USE DEF ServiceInv
<1>0. IInv'
  BY NextIInv
<1>1. CASE Connect \/ \E c \in Conn : Send(c) \/ HangUp(c)
  BY <1>1, ClientServed
<1>2. ASSUME NEW t \in Conn, Thread(t)
      PROVE  HeardInv' /\ (Service!Next \/ UNCHANGED Service!vars)
  BY <1>0, <1>2, WaitingServed, ReadServed, ProcessServed, BeginServed, CloseServed DEF Thread
<1>3. CASE AcceptLoop
  <2>1. AcceptFails => acceptor' = "exited"
    BY DEF AcceptFails, AcceptorAt
  <2>2. StoreData \/ Spawn => acceptor' # "exited"
    BY DEF StoreData, Spawn, AcceptorAt
  <2>3. CASE Accept
    BY <1>0, <2>3, AcceptServed
  <2>4. CASE (AcceptFails \/ SpawnFails) /\ acceptor' = "exited"
    BY <1>0, <2>4, ExitServed
  <2>5. CASE (StoreData \/ Spawn \/ SpawnFails) /\ acceptor' # "exited"
    BY <1>0, <2>5, SpawnServed
  <2> QED BY <1>3, <2>1, <2>2, <2>3, <2>4, <2>5 DEF AcceptLoop
<1>4. CASE UNCHANGED vars
  <2>1. UNCHANGED <<openBar, stageBar, atBar>>
    BY <1>4 DEF vars, openBar, stageBar, atBar, Open, At
  <2>2. UNCHANGED Service!vars
    BY <1>4, <2>1 DEF vars, Service!vars, Service!clients, Service!service
  <2>3. HeardInv'
    BY <1>4 DEF vars, HeardInv, Service!MayClose
  <2> QED BY <2>2, <2>3
<1> QED BY <1>1, <1>2, <1>3, <1>4 DEF Next

\* The accept loop and the connection threads implement ConnectionService for any
\* number of connections, messages and descriptors, whether connections come slowly
\* or race.
THEOREM ServiceRefined == Spec => RefinesService
BY ServiceInit, ServiceStep, PTL DEF Spec, RefinesService, Service!Spec
=============================================================================
