-------------------------- MODULE ConnectionDispatch --------------------------
(***************************************************************************)
(* The server's side of src/tcp.c and the receive loop of hs_process: the  *)
(* accept loop of tcp_server_start creates one detached thread per         *)
(* accepted connection and passes every one of them the address of the     *)
(* same stack variable, connection_data; each thread reads the descriptor  *)
(* it is to serve from that variable when it first runs, then loops on     *)
(* select and read and closes the descriptor when the client hangs up or   *)
(* is refused.                                                             *)
(*                                                                         *)
(* Connections are numbered in the order clients make them, which is the   *)
(* order accept returns them; thread c is the thread created for           *)
(* connection c.  A message is one successful read of the receive loop;    *)
(* what hs_process does with it is ServerProcess's subject.                *)
(*                                                                         *)
(* External, as the code uses it: the descriptor table, listen, accept,    *)
(* select, read and close, and pthread_create.                             *)
(***************************************************************************)
EXTENDS Integers, FiniteSets

CONSTANTS
  MaxConns,      \* bound: connections the clients ever make
  MaxMessages,   \* bound: messages sent on one connection
  MaxFds,        \* descriptors left to the process for connections
  Backlog        \* the parameter n of tcp_server_start

ASSUME DispatchAssumption ==
  /\ MaxConns \in Nat /\ MaxMessages \in Nat
  /\ MaxFds \in Nat \ {0} /\ Backlog \in Nat

VARIABLES
  arrived,        \* connections made so far
  accepted,       \* connections accept has returned so far
  unread,         \* messages of a connection that no thread has read
  sent,           \* messages its client has sent
  hungUp,         \* connections the client has closed
  spaced,         \* constant: no accept returns while a new thread has not run
  fdTable,        \* the connection behind each descriptor, or Free
  acceptor,       \* next step of the accept loop, "exited" when it has ended
  client_socket,  \* its local variable
  sd,             \* connection_data.sd, shared by all threads
  pc,             \* next step of each connection thread
  socket,         \* the parameter of its connection_callback
  from            \* the connection whose message it is processing

clients == <<arrived, unread, sent, hungUp, spaced>>
main == <<accepted, acceptor, client_socket, sd>>
threads == <<pc, socket, from>>
vars == <<arrived, accepted, unread, sent, hungUp, spaced, fdTable, acceptor,
          client_socket, sd, pc, socket, from>>

Conn == 1 .. MaxConns
FD == 0 .. MaxFds - 1
Free == 0
NoFd == -1
Working == {"select", "read", "process", "close"}

Running == acceptor # "exited"
Open(c) == \E fd \in FD : fdTable[fd] = c
At(t) == fdTable[socket[t]]

\* A descriptor is readable when a message or the end of the stream is there.
Readable(c) == c # Free /\ (unread[c] > 0 \/ c \in hungUp)

Init ==
  /\ arrived = 0
  /\ accepted = 0
  /\ unread = [c \in Conn |-> 0]
  /\ sent = [c \in Conn |-> 0]
  /\ hungUp = {}
  /\ spaced \in BOOLEAN
  /\ fdTable = [fd \in FD |-> Free]
  /\ acceptor = "accept"
  /\ client_socket = NoFd
  /\ sd = NoFd
  /\ pc = [c \in Conn |-> "none"]
  /\ socket = [c \in Conn |-> NoFd]
  /\ from = [c \in Conn |-> Free]

-----------------------------------------------------------------------------
(* The clients: they connect while the backlog has room (the kernel keeps  *)
(* one more than the backlog), send, and hang up.                          *)

Connect ==
  /\ Running
  /\ arrived < MaxConns
  /\ arrived - accepted <= Backlog
  /\ arrived' = arrived + 1
  /\ UNCHANGED <<unread, sent, hungUp, spaced, fdTable, main, threads>>

Send(c) ==
  /\ Running
  /\ c <= arrived /\ c \notin hungUp
  /\ sent[c] < MaxMessages
  /\ sent' = [sent EXCEPT ![c] = @ + 1]
  /\ unread' = [unread EXCEPT ![c] = @ + 1]
  /\ UNCHANGED <<arrived, hungUp, spaced, fdTable, main, threads>>

HangUp(c) ==
  /\ Running
  /\ c <= arrived /\ c \notin hungUp
  /\ hungUp' = hungUp \cup {c}
  /\ UNCHANGED <<arrived, unread, sent, spaced, fdTable, main, threads>>

-----------------------------------------------------------------------------
(* tcp_server_start, after listen *)

AcceptorAt(from_, to) ==
  /\ acceptor = from_
  /\ acceptor' = to

Accept ==
  /\ AcceptorAt("accept", "store")
  /\ accepted < arrived
  /\ spaced => \A t \in Conn : pc[t] # "created"
  /\ \E fd \in FD :
       /\ fdTable[fd] = Free
       /\ fdTable' = [fdTable EXCEPT ![fd] = accepted + 1]
       /\ client_socket' = fd
  /\ accepted' = accepted + 1
  /\ UNCHANGED <<clients, sd, threads>>

\* accept fails when the process is out of descriptors, and may fail for a
\* connection given up before it was accepted: the process exits.
AcceptFails ==
  /\ AcceptorAt("accept", "exited")
  /\ \/ \A fd \in FD : fdTable[fd] # Free
     \/ accepted < arrived /\ accepted + 1 \in hungUp
  /\ fdTable' = [fd \in FD |-> Free]
  /\ UNCHANGED <<clients, accepted, client_socket, sd, threads>>

\* Mutant: the shared variable is filled in once.
StoreDataOnce ==
  /\ AcceptorAt("store", "spawn")
  /\ sd' = IF sd = NoFd THEN client_socket ELSE sd
  /\ UNCHANGED <<clients, fdTable, accepted, client_socket, threads>>

StoreData ==
  /\ AcceptorAt("store", "spawn")
  /\ sd' = client_socket
  /\ UNCHANGED <<clients, fdTable, accepted, client_socket, threads>>

\* Mutant: the loop is left after the first connection.
SpawnOnce ==
  /\ AcceptorAt("spawn", "left")
  /\ pc' = [pc EXCEPT ![accepted] = "created"]
  /\ UNCHANGED <<clients, fdTable, accepted, client_socket, sd, socket, from>>

Spawn ==
  /\ AcceptorAt("spawn", "accept")
  /\ pc' = [pc EXCEPT ![accepted] = "created"]
  /\ UNCHANGED <<clients, fdTable, accepted, client_socket, sd, socket, from>>

\* The result of pthread_create is not looked at.  pthread_detach of the
\* identifier left in thread, indeterminate or that of an earlier thread, does
\* nothing or takes the process down.
SpawnFails ==
  /\ \/ AcceptorAt("spawn", "accept") /\ UNCHANGED fdTable
     \/ /\ AcceptorAt("spawn", "exited")
        /\ fdTable' = [fd \in FD |-> Free]
  /\ UNCHANGED <<clients, accepted, client_socket, sd, threads>>

-----------------------------------------------------------------------------
(* connection_thread and the loop of hs_process *)

Goto(t, here, to) ==
  /\ Running
  /\ pc[t] = here
  /\ pc' = [pc EXCEPT ![t] = to]

\* connection_thread reads connection_data->sd.
Begin(t) ==
  /\ Goto(t, "created", "select")
  /\ socket' = [socket EXCEPT ![t] = sd]
  /\ UNCHANGED <<clients, fdTable, main, from>>

\* Mutant: the descriptor is put into the wrong set of select.
SelectEndOnly(t) ==
  /\ Goto(t, "select", "read")
  /\ At(t) \in hungUp
  /\ UNCHANGED <<clients, fdTable, main, socket, from>>

\* select returns; on a closed descriptor it fails and the loop tries again,
\* which changes nothing.
Select(t) ==
  /\ Goto(t, "select", "read")
  /\ Readable(At(t))
  /\ UNCHANGED <<clients, fdTable, main, socket, from>>

\* Mutant: a message is taken out of an empty stream.
ReadNothing(t) ==
  /\ Goto(t, "read", "process")
  /\ At(t) # Free
  /\ unread' = [unread EXCEPT ![At(t)] = @ - 1]
  /\ from' = [from EXCEPT ![t] = At(t)]
  /\ UNCHANGED <<arrived, sent, hungUp, spaced, fdTable, main, socket>>

ReadMessage(t) ==
  /\ Goto(t, "read", "process")
  /\ At(t) # Free
  /\ unread[At(t)] > 0
  /\ unread' = [unread EXCEPT ![At(t)] = @ - 1]
  /\ from' = [from EXCEPT ![t] = At(t)]
  /\ UNCHANGED <<arrived, sent, hungUp, spaced, fdTable, main, socket>>

\* Mutants: the end of the stream closes the descriptor at once and again in
\* tcp_stop, as msg_receive and its caller do; it is taken for a short read; the
\* thread ends without tcp_stop.
ReadEndCloses(t) ==
  /\ Goto(t, "read", "close")
  /\ At(t) \in hungUp
  /\ unread[At(t)] = 0
  /\ fdTable' = [fdTable EXCEPT ![socket[t]] = Free]
  /\ UNCHANGED <<clients, main, socket, from>>

ReadEndContinues(t) ==
  /\ Goto(t, "read", "select")
  /\ At(t) \in hungUp
  /\ unread[At(t)] = 0
  /\ UNCHANGED <<clients, fdTable, main, socket, from>>

ReadEndForgets(t) ==
  /\ Goto(t, "read", "done")
  /\ At(t) \in hungUp
  /\ unread[At(t)] = 0
  /\ UNCHANGED <<clients, fdTable, main, socket, from>>

ReadEnd(t) ==
  /\ Goto(t, "read", "close")
  /\ At(t) \in hungUp
  /\ unread[At(t)] = 0
  /\ UNCHANGED <<clients, fdTable, main, socket, from>>

ReadFails(t) ==
  /\ Goto(t, "read", "select")
  /\ At(t) = Free
  /\ UNCHANGED <<clients, fdTable, main, socket, from>>

\* The message is handled, with any response written to socket, or the client
\* is refused (protocol version, no session left).
Process(t) ==
  /\ Goto(t, "process", "select") \/ Goto(t, "process", "close")
  /\ from' = [from EXCEPT ![t] = Free]
  /\ UNCHANGED <<clients, fdTable, main, socket>>

\* tcp_stop; closing a descriptor that is not open changes nothing.
Close(t) ==
  /\ Goto(t, "close", "done")
  /\ fdTable' = [fdTable EXCEPT ![socket[t]] = Free]
  /\ UNCHANGED <<clients, main, socket, from>>

Thread(t) ==
  \/ Begin(t) \/ Select(t) \/ ReadMessage(t) \/ ReadEnd(t) \/ ReadFails(t)
  \/ Process(t) \/ Close(t)

AcceptLoop == Accept \/ AcceptFails \/ StoreData \/ Spawn \/ SpawnFails

Next ==
  \/ Connect
  \/ \E c \in Conn : Send(c) \/ HangUp(c) \/ Thread(c)
  \/ AcceptLoop

Spec == Init /\ [][Next]_vars

\* The main thread and each connection thread keep being scheduled; nothing is
\* asked of the clients.
FairSpec ==
  Spec /\ WF_vars(AcceptLoop) /\ \A t \in Conn : WF_vars(Thread(t))

-----------------------------------------------------------------------------
(* Properties *)

TypeOK ==
  /\ arrived \in 0 .. MaxConns
  /\ accepted \in 0 .. arrived
  /\ unread \in [Conn -> 0 .. MaxMessages]
  /\ sent \in [Conn -> 0 .. MaxMessages]
  /\ hungUp \subseteq Conn
  /\ spaced \in BOOLEAN
  /\ fdTable \in [FD -> Conn \cup {Free}]
  /\ acceptor \in {"accept", "store", "spawn", "exited"}
  /\ client_socket \in FD \cup {NoFd}
  /\ sd \in FD \cup {NoFd}
  /\ pc \in [Conn -> Working \cup {"none", "created", "done"}]
  /\ socket \in [Conn -> FD \cup {NoFd}]
  /\ from \in [Conn -> Conn \cup {Free}]

\* As long as connections come in slowly enough for each new thread to run
\* before the next accept returns, thread c serves connection c and no other:
\* its descriptor is never closed or given to another connection behind its
\* back, and a response goes to the client whose message is being processed.
OwnConnection ==
  spaced /\ Running =>
    \A t \in Conn :
      pc[t] \in Working => At(t) = t /\ from[t] \in {Free, t}

\* The accept loop still has the connection, before its thread is created.
InHand(c) == c = accepted /\ acceptor \in {"store", "spawn"}

\* Accepted, and left without a thread when pthread_create failed.
Abandoned(c) == c <= accepted /\ ~InHand(c) /\ pc[c] = "none"

\* Under the same condition only a failed pthread_create leaks a descriptor: any
\* other open connection is in the hands of the accept loop or of its thread.
NoOrphan ==
  spaced /\ Running =>
    \A c \in Conn :
      Open(c) => InHand(c) \/ Abandoned(c) \/ pc[c] \in Working \cup {"created"}

\* What is left when connections come in faster: a thread may serve a later
\* connection than its own, or the one another thread serves, but never an
\* earlier one.
NeverOlder ==
  Running =>
    \A t \in Conn : pc[t] \in Working /\ At(t) # Free => At(t) >= t

\* And the connection accepted last is always served by its own thread once
\* that thread has begun, unless it has been closed.
LatestServed ==
  acceptor = "accept" /\ accepted > 0 /\ Open(accepted)
    /\ pc[accepted] \in Working
      => At(accepted) = accepted

\* A connection the client has closed is closed by the server too, so that a
\* client that comes and goes costs no descriptor.
HangUpEnds ==
  \A c \in Conn :
    (spaced /\ c \in hungUp /\ Open(c)) ~> (~Open(c) \/ Abandoned(c))

\* Every message on an open connection is read, unless the client is refused.
MessagesRead ==
  \A c \in Conn :
    (spaced /\ Open(c) /\ unread[c] > 0)
      ~> (unread[c] = 0 \/ ~Open(c) \/ Abandoned(c))

\* Every connection made reaches its callback, or the server exits.
ArrivalServed ==
  \A c \in Conn :
    (c <= arrived) ~> (pc[c] \in Working \cup {"done"} \/ ~Running \/ Abandoned(c))

\* tcp.c:192-194: "For each new incoming connection a callback is called in a
\* separate thread."  Once no thread remains to begin, every open connection is
\* served by one.
CallbackForEach ==
  acceptor = "accept" /\ (\A t \in Conn : pc[t] # "created") =>
    \A c \in Conn : Open(c) /\ ~Abandoned(c) =>
      \E t \in Conn : pc[t] \in Working /\ At(t) = c

-----------------------------------------------------------------------------
(* Refinement of ConnectionService: a thread serves the connection that is  *)
(* behind its descriptor at the moment.                                     *)
openBar == {c \in Conn : Open(c)}
stageBar ==
  [t \in Conn |-> CASE pc[t] \in Working -> "serving"
                    [] pc[t] = "done" -> "done"
                    [] pc[t] \in {"none", "created"} -> "none"]
atBar == [t \in Conn |-> IF pc[t] \in Working THEN At(t) ELSE Free]

Service == INSTANCE ConnectionService
  WITH orderly <- spaced, running <- Running, open <- openBar, stage <- stageBar, at <- atBar

\* Whatever the clients do, and however the threads run, the accept loop and the
\* connection threads implement ConnectionService: which connection a thread has,
\* what it reads, and when and by whom a connection is closed.
RefinesService == Service!Spec
=============================================================================
