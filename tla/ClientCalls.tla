------------------------------ MODULE ClientCalls ------------------------------
(***************************************************************************)
(* The client calls of src/client.c that open, use and close a device,     *)
(* made by the threads of one process on devices of their own: hs_connect  *)
(* with its two-channel handshake and its error labels, hs_sync_receive,   *)
(* hs_set_maximum_message_size and hs_disconnect.  What the threads share  *)
(* is the session table and the process's descriptors: a descriptor that   *)
(* one call closes is given out again to the next socket call of any       *)
(* thread, so a call that closes it a second time closes somebody else's.  *)
(*                                                                         *)
(* session_new and session_free take effect at once (SessionTable shows    *)
(* that they may be taken so); socket, connect, close and the answers of   *)
(* the server are external and as unhelpful as the code lets them be.      *)
(* hs_sync_send, which leaves descriptors alone, is left out.              *)
(***************************************************************************)
EXTENDS Integers, FiniteSets

CONSTANTS
  Threads,       \* application threads, one device each
  MaxSessions,   \* MAX_SESSIONS
  MaxFds,        \* descriptors the process has for sockets
  MaxConnects    \* bound: calls of hs_connect by one thread

ASSUME ClientAssumption ==
  /\ MaxSessions \in Nat \ {0} /\ MaxFds \in Nat \ {0}
  /\ MaxConnects \in Nat

VARIABLES
  allocated,  \* session[].allocated
  socket,     \* session[].socket_sync and session[].socket_async
  owner,      \* the thread and channel each descriptor was opened for
  pc,         \* next step of each thread
  chan,       \* the channel the step is about
  device,     \* the device of each thread, or NoDevice
  sfd,        \* sfd_sync and sfd_async of hs_connect
  connects,   \* calls of hs_connect made
  refused,    \* history: Initialize exchanges that failed without hang-up
  ended,      \* history: some read has met the end of a stream
  taken       \* constant: sessions used by the rest of the process

vars == <<allocated, socket, owner, pc, chan, device, sfd, connects, refused,
          ended, taken>>
history == <<connects, refused, ended, taken>>

Handle == 0 .. MaxSessions - 1
FD == 0 .. MaxFds - 1
NoFd == -1
NoDevice == -1
Channel == {"sync", "async"}
Nobody == <<>>

Connecting == {"socket", "connect", "request", "response", "late"}
Failing == {"close_async", "close_sync", "free"}
Using == {"size_request", "await", "await_late"}
Leaving == {"d_sync", "d_async", "d_free"}
Points == {"idle", "open"} \cup Connecting \cup Failing \cup Using \cup Leaving

Init ==
  /\ taken \in SUBSET Handle
  /\ allocated = [h \in Handle |-> h \in taken]
  /\ socket = [h \in Handle |-> [k \in Channel |-> NoFd]]
  /\ owner = [fd \in FD |-> Nobody]
  /\ pc = [t \in Threads |-> "idle"]
  /\ chan = [t \in Threads |-> "sync"]
  /\ device = [t \in Threads |-> NoDevice]
  /\ sfd = [t \in Threads |-> [k \in Channel |-> NoFd]]
  /\ connects = [t \in Threads |-> 0]
  /\ refused = [t \in Threads |-> 0]
  /\ ended = FALSE

Goto(t, from, to) ==
  /\ pc[t] = from
  /\ pc' = [pc EXCEPT ![t] = to]

\* close of a descriptor that is not open changes nothing.
CloseFd(fd) == owner' = [owner EXCEPT ![fd] = Nobody]

\* The descriptor the running call uses: its local variable in hs_connect, the
\* one recorded in the session afterwards.
Fd(t) ==
  IF pc[t] \in Connecting THEN sfd[t][chan[t]] ELSE socket[device[t]][chan[t]]

-----------------------------------------------------------------------------
(* hs_connect *)

\* session_new claims the first free entry and resets its sockets.
ConnectCall(t) ==
  /\ Goto(t, "idle", "socket")
  /\ connects[t] < MaxConnects
  /\ \E h \in Handle :
       /\ ~allocated[h] /\ \A j \in 0 .. h - 1 : allocated[j]
       /\ allocated' = [allocated EXCEPT ![h] = TRUE]
       /\ socket' = [socket EXCEPT ![h] = [k \in Channel |-> NoFd]]
       /\ device' = [device EXCEPT ![t] = h]
  /\ chan' = [chan EXCEPT ![t] = "sync"]
  /\ connects' = [connects EXCEPT ![t] = @ + 1]
  /\ UNCHANGED <<owner, sfd, refused, ended, taken>>

\* Mutant: the index left by the scan of a full table is taken for a handle.
ConnectUnchecked(t) ==
  /\ Goto(t, "idle", "socket")
  /\ connects[t] < MaxConnects
  /\ \A h \in Handle : allocated[h]
  /\ device' = [device EXCEPT ![t] = MaxSessions]
  /\ connects' = [connects EXCEPT ![t] = @ + 1]
  /\ UNCHANGED <<allocated, socket, owner, chan, sfd, refused, ended, taken>>

ConnectRefused(t) ==
  /\ pc[t] = "idle"
  /\ connects[t] < MaxConnects
  /\ \A h \in Handle : allocated[h]
  /\ connects' = [connects EXCEPT ![t] = @ + 1]
  /\ UNCHANGED <<allocated, socket, owner, pc, chan, device, sfd, refused, ended, taken>>

\* Mutants, each a jump to the label next to the right one: a socket tcp_connect
\* has closed is closed again; the sync channel stays open when the second
\* connection fails; the async channel stays open when its exchange fails; the
\* session is not freed.
ConnectErrorCloses(k) == "close_sync"
ConnectErrorFrees(k) == "free"
ExchangeErrorSkips(k) == IF k = "sync" THEN "free" ELSE "close_sync"
ExchangeErrorReturns(k) == IF k = "sync" THEN "idle" ELSE "close_async"

\* The error labels each step jumps to: error_connect_sync and the labels next
\* to it free the session only, error_connect_async closes the sync channel
\* first, and a failure of the AsyncInitialize exchange both channels.
ConnectError(k) == IF k = "sync" THEN "free" ELSE "close_sync"
ExchangeError(k) == IF k = "sync" THEN "free" ELSE "close_async"

OpenSocket(t) ==
  /\ Goto(t, "socket", "connect")
  /\ \E fd \in FD :
       /\ owner[fd] = Nobody
       /\ owner' = [owner EXCEPT ![fd] = <<t, chan[t]>>]
       /\ sfd' = [sfd EXCEPT ![t][chan[t]] = fd]
  /\ UNCHANGED <<allocated, socket, chan, device, history>>

OpenFails(t) ==
  /\ Goto(t, "socket", ConnectError(chan[t]))
  /\ \A fd \in FD : owner[fd] # Nobody
  /\ UNCHANGED <<allocated, socket, owner, chan, device, sfd, history>>

\* Connected: the descriptor is saved in the session.
Connected(t) ==
  /\ Goto(t, "connect", "request")
  /\ owner[Fd(t)] # Nobody
  /\ socket' = [socket EXCEPT ![device[t]][chan[t]] = sfd[t][chan[t]]]
  /\ UNCHANGED <<allocated, owner, chan, device, sfd, history>>

\* tcp_connect closes the socket it could not connect.
ConnectFails(t) ==
  /\ Goto(t, "connect", ConnectError(chan[t]))
  /\ CloseFd(Fd(t))
  /\ UNCHANGED <<allocated, socket, chan, device, sfd, history>>

\* Initialize or AsyncInitialize has been written.
Request(t) ==
  /\ Goto(t, "request", "response")
  /\ owner[Fd(t)] # Nobody
  /\ UNCHANGED <<allocated, socket, owner, chan, device, sfd, history>>

CountRefused(t) ==
  refused' = [refused EXCEPT ![t] = IF chan[t] = "sync" THEN @ + 1 ELSE @]

\* The write fails, or the answer is an error, malformed, too large or not the
\* expected one.
ExchangeFails(t) ==
  /\ \/ Goto(t, "request", ExchangeError(chan[t]))
     \/ Goto(t, "response", ExchangeError(chan[t])) /\ owner[Fd(t)] # Nobody
  /\ CountRefused(t)
  /\ UNCHANGED <<allocated, socket, owner, chan, device, sfd, connects, ended, taken>>

InitializeResponse(t) ==
  /\ Goto(t, "response", "socket")
  /\ chan[t] = "sync"
  /\ owner[Fd(t)] # Nobody
  /\ chan' = [chan EXCEPT ![t] = "async"]
  /\ UNCHANGED <<allocated, socket, owner, device, sfd, history>>

AsyncInitializeResponse(t) ==
  /\ Goto(t, "response", "open")
  /\ chan[t] = "async"
  /\ owner[Fd(t)] # Nobody
  /\ UNCHANGED <<allocated, socket, owner, chan, device, sfd, history>>

\* msg_receive counts a timeout as a negative number of bytes and goes on asking
\* for more than the answer has: the answer alone does not end it.
ResponseLate(t) ==
  /\ Goto(t, "response", "late")
  /\ UNCHANGED <<allocated, socket, owner, chan, device, sfd, history>>

\* Bytes of something later do end it; the last ones read are in the start of the
\* header, which may still pass for that of the response.
LateResponse(t) ==
  /\ \/ chan[t] = "sync" /\ Goto(t, "late", "socket")
     \/ chan[t] = "async" /\ Goto(t, "late", "open")
  /\ owner[Fd(t)] # Nobody
  /\ chan' = [chan EXCEPT ![t] = "async"]
  /\ UNCHANGED <<allocated, socket, owner, device, sfd, history>>

LateFails(t) ==
  /\ Goto(t, "late", ExchangeError(chan[t]))
  /\ owner[Fd(t)] # Nobody
  /\ CountRefused(t)
  /\ UNCHANGED <<allocated, socket, owner, chan, device, sfd, connects, ended, taken>>

\* At the end of the stream msg_receive closes the descriptor itself.
ResponseEnds(t) ==
  /\ \E here \in {"response", "late"} : Goto(t, here, ExchangeError(chan[t]))
  /\ owner[Fd(t)] # Nobody
  /\ CloseFd(Fd(t))
  /\ ended' = TRUE
  /\ UNCHANGED <<allocated, socket, chan, device, sfd, connects, refused, taken>>

CloseAsync(t) ==
  /\ Goto(t, "close_async", "close_sync")
  /\ CloseFd(sfd[t]["async"])
  /\ UNCHANGED <<allocated, socket, chan, device, sfd, history>>

CloseSync(t) ==
  /\ Goto(t, "close_sync", "free")
  /\ CloseFd(sfd[t]["sync"])
  /\ UNCHANGED <<allocated, socket, chan, device, sfd, history>>

\* session_free, last step of a failed hs_connect and of hs_disconnect.
FreeSession(t) ==
  /\ Goto(t, "free", "idle") \/ Goto(t, "d_free", "idle")
  /\ allocated' = [allocated EXCEPT ![device[t]] = FALSE]
  /\ device' = [device EXCEPT ![t] = NoDevice]
  /\ sfd' = [sfd EXCEPT ![t] = [k \in Channel |-> NoFd]]
  /\ UNCHANGED <<socket, owner, chan, history>>

-----------------------------------------------------------------------------
(* hs_sync_receive waits on the sync channel for a DataEnd; hs_set_maximum_ *)
(* message_size sends on the async channel and waits for its answer there.  *)

SyncReceive(t) ==
  /\ Goto(t, "open", "await")
  /\ chan' = [chan EXCEPT ![t] = "sync"]
  /\ UNCHANGED <<allocated, socket, owner, device, sfd, history>>

SetSize(t) ==
  /\ Goto(t, "open", "size_request")
  /\ chan' = [chan EXCEPT ![t] = "async"]
  /\ UNCHANGED <<allocated, socket, owner, device, sfd, history>>

SizeSent(t) ==
  /\ Goto(t, "size_request", "await")
  /\ owner[Fd(t)] # Nobody
  /\ UNCHANGED <<allocated, socket, owner, chan, device, sfd, history>>

SizeNotSent(t) ==
  /\ Goto(t, "size_request", "open")
  /\ UNCHANGED <<allocated, socket, owner, chan, device, sfd, history>>

\* Mutant: the message waited for is not recognised.
AnswerMissed(t) ==
  /\ Goto(t, "await", "await")
  /\ owner[Fd(t)] # Nobody
  /\ UNCHANGED <<allocated, socket, owner, chan, device, sfd, history>>

\* The message waited for, or one that ends the wait with an error.
Answer(t) ==
  /\ Goto(t, "await", "open")
  /\ owner[Fd(t)] # Nobody
  /\ UNCHANGED <<allocated, socket, owner, chan, device, sfd, history>>

AnswerLate(t) ==
  /\ Goto(t, "await", "await_late")
  /\ UNCHANGED <<allocated, socket, owner, chan, device, sfd, history>>

\* With bytes of later messages the call may return, or go on waiting.
LateAnswer(t) ==
  /\ Goto(t, "await_late", "open")
  /\ owner[Fd(t)] # Nobody
  /\ UNCHANGED <<allocated, socket, owner, chan, device, sfd, history>>

\* The call returns -1; the session keeps the descriptor msg_receive closed.
AnswerEnds(t) ==
  /\ \E here \in {"await", "await_late"} : Goto(t, here, "open")
  /\ owner[Fd(t)] # Nobody
  /\ CloseFd(Fd(t))
  /\ ended' = TRUE
  /\ UNCHANGED <<allocated, socket, chan, device, sfd, connects, refused, taken>>

-----------------------------------------------------------------------------
(* hs_disconnect *)

Disconnect(t) ==
  /\ Goto(t, "open", "d_sync")
  /\ UNCHANGED <<allocated, socket, owner, chan, device, sfd, history>>

CloseRecorded(t, k) ==
  LET fd == socket[device[t]][k]
  IN  IF fd = NoFd THEN UNCHANGED owner ELSE CloseFd(fd)

DisconnectSync(t) ==
  /\ Goto(t, "d_sync", "d_async")
  /\ CloseRecorded(t, "sync")
  /\ UNCHANGED <<allocated, socket, chan, device, sfd, history>>

DisconnectAsync(t) ==
  /\ Goto(t, "d_async", "d_free")
  /\ CloseRecorded(t, "async")
  /\ UNCHANGED <<allocated, socket, chan, device, sfd, history>>

-----------------------------------------------------------------------------
\* The calls the application chooses to make.
Call(t) ==
  \/ ConnectCall(t) \/ ConnectRefused(t)
  \/ SyncReceive(t) \/ SetSize(t) \/ Disconnect(t)

\* The steps of a call under way, with the answers it waits for.
Progress(t) ==
  \/ OpenSocket(t) \/ OpenFails(t) \/ Connected(t) \/ ConnectFails(t)
  \/ Request(t) \/ ExchangeFails(t)
  \/ InitializeResponse(t) \/ AsyncInitializeResponse(t)
  \/ CloseAsync(t) \/ CloseSync(t) \/ FreeSession(t)
  \/ SizeSent(t) \/ SizeNotSent(t) \/ Answer(t)
  \/ DisconnectSync(t) \/ DisconnectAsync(t)

\* What the server and the network may do instead of answering in time.
NoAnswer(t) ==
  \/ ResponseLate(t) \/ LateResponse(t) \/ LateFails(t) \/ ResponseEnds(t)
  \/ AnswerLate(t) \/ LateAnswer(t) \/ AnswerEnds(t)

Next == \E t \in Threads : Call(t) \/ Progress(t) \/ NoAnswer(t)

Spec == Init /\ [][Next]_vars

\* Threads are scheduled and a server that neither closes the connection nor lets
\* a read time out answers each request, well or badly.
FairSpec == Spec /\ \A t \in Threads : WF_vars(Progress(t))

-----------------------------------------------------------------------------
(* Properties *)

TypeOK ==
  /\ allocated \in [Handle -> BOOLEAN]
  /\ socket \in [Handle -> [Channel -> FD \cup {NoFd}]]
  /\ owner \in [FD -> (Threads \X Channel) \cup {Nobody}]
  /\ pc \in [Threads -> Points]
  /\ chan \in [Threads -> Channel]
  /\ device \in [Threads -> Handle \cup {NoDevice}]
  /\ sfd \in [Threads -> [Channel -> FD \cup {NoFd}]]
  /\ connects \in [Threads -> 0 .. MaxConnects]
  /\ refused \in [Threads -> 0 .. MaxConnects]
  /\ ended \in BOOLEAN
  /\ taken \subseteq Handle

\* The channels whose descriptors the thread still has to close at this point.
Held(t) ==
  CASE pc[t] \in {"idle", "free", "d_free"} -> {}
    [] pc[t] \in Connecting ->
         {k \in Channel : \/ k = "sync" /\ chan[t] = "async"
                          \/ k = chan[t] /\ pc[t] # "socket"}
    [] pc[t] = "close_sync" -> {"sync"}
    [] pc[t] = "d_async" -> {"async"}
    [] OTHER -> Channel

\* Held descriptors are known by hs_connect's variables or by the session.
HeldFd(t, k) ==
  IF pc[t] \in Connecting \cup Failing THEN sfd[t][k] ELSE socket[device[t]][k]

\* As long as no server has closed a connection, every descriptor a call uses or
\* is going to close is the one opened for that thread and channel: no call
\* reads, writes or closes another thread's connection.
DescriptorsOwn ==
  ~ended =>
    \A t \in Threads : \A k \in Held(t) : owner[HeldFd(t, k)] = <<t, k>>

\* hs_connect and hs_disconnect never leak an async channel: the descriptor is
\* open only while a call or a session of its thread has it.
AsyncNeverLeaks ==
  \A t \in Threads, fd \in FD :
    owner[fd] = <<t, "async">> => "async" \in Held(t) /\ fd = HeldFd(t, "async")

\* Sync descriptors that nothing remembers.
LeakedSync(t) ==
  {fd \in FD : owner[fd] = <<t, "sync">>
               /\ ~("sync" \in Held(t) /\ fd = HeldFd(t, "sync"))}

\* A sync channel leaks exactly when the Initialize exchange fails without the
\* server closing it, once each time, and on no other path.
SyncLeakAccount ==
  \A t \in Threads :
    /\ Cardinality(LeakedSync(t)) <= refused[t]
    /\ ~ended => Cardinality(LeakedSync(t)) = refused[t]

\* Each entry in use belongs to one thread that is connecting, connected or
\* disconnecting: no path of hs_connect loses a session or frees it twice.
SessionsInUse ==
  \A h \in Handle \ taken :
    allocated[h] <=>
      Cardinality({t \in Threads : pc[t] # "idle" /\ device[t] = h}) = 1

\* Every call returns when the server answers each request, well or badly, as
\* long as none of its own reads times out and no connection has been closed by
\* the server; another call that never returns does not hold it up.
CallsReturn ==
  \A t \in Threads :
    pc[t] \notin {"idle", "open"}
      ~> (pc[t] \in {"idle", "open", "late", "await_late"} \/ ended)

-----------------------------------------------------------------------------
(* Refinement of SessionOwners: a thread owns the session of its device,    *)
(* from the first step of hs_connect to the last of the call that gives it  *)
(* up.                                                                      *)
usedBar == {h \in Handle : allocated[h]}
ownedBar == [t \in Threads |-> {h \in {device[t]} : pc[t] # "idle"}]

Table == INSTANCE SessionOwners WITH Owners <- Threads, used <- usedBar, owned <- ownedBar

\* hs_connect, on every path, and hs_disconnect use the session table as it may be
\* used: no call frees a session that its thread does not own, or claims a second
\* one, and none returns without its device and still has a session.
RefinesOwners == Table!Spec
=============================================================================
