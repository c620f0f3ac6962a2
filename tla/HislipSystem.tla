----------------------------- MODULE HislipSystem -----------------------------
(***************************************************************************)
(* Client and server together: clients that run the program of             *)
(* demo/client.c (hs_connect, hs_set_maximum_message_size, hs_sync_send of *)
(* a short command, hs_sync_receive, hs_disconnect) or that of README.md,  *)
(* which sets no size, against the connection threads of                   *)
(* ServerProcess.  Each client has two connections, taken to be accepted   *)
(* one at a time and without fail, and reads the responses of a connection *)
(* in the order they were written.  ConnectionDispatch has what is left    *)
(* out: connections that race for connection_data, a failed                *)
(* pthread_create, and the exit of the server when accept fails.  That the *)
(* server survives its clients and that none is stranded is relative to    *)
(* this.                                                                   *)
(* The failures of the network are ClientCalls's subject: a connection     *)
(* ends here only when the server closes it or goes down.                  *)
(***************************************************************************)
EXTENDS ServerProcess

CONSTANTS
  Clients,      \* client processes
  Subaddresses  \* what they pass to hs_connect as subaddress, NoLoad for NULL

ASSUME SystemAssumption ==
  /\ Conn = Clients \X {"sync", "async"}
  /\ Subaddresses \subseteq Names \cup {NoLoad}
  /\ MaxMessages >= 2
  /\ {[type |-> "Initialize", arg |-> Version, load |-> n] : n \in Subaddresses}
       \subseteq Messages
  /\ {[type |-> "AsyncInitialize", arg |-> h, load |-> NoLoad] : h \in Handle}
       \subseteq Messages
  /\ [type |-> "AsyncMaximumMessageSize", arg |-> 0, load |-> "size"] \in Messages
  /\ [type |-> "DataEnd", arg |-> 0, load |-> "data"] \in Messages

VARIABLES
  step,        \* next step of each client
  subaddress,  \* constant: the subaddress each client opens
  SessionID,   \* session[device].SessionID of each client
  seen         \* responses the client has read, per connection

server == <<list, subaddress_data, phase, allocated, pc, msg, payload,
            sessionID, output, handled>>
client == <<step, subaddress, SessionID, seen>>
allVars == <<vars, client>>

Sync(p) == <<p, "sync">>
Async(p) == <<p, "async">>

SystemInit ==
  /\ Init
  /\ step = [p \in Clients |-> "start"]
  /\ subaddress \in [Clients -> Subaddresses]
  /\ SessionID = [p \in Clients |-> 0]
  /\ seen = [c \in Conn |-> 0]

Advance(p, from, to) ==
  /\ step[p] = from
  /\ step' = [step EXCEPT ![p] = to]

\* What is written to a server that has gone down is lost.
Write(c, type, arg, load) ==
  /\ input' = IF phase = "crashed" THEN input
              ELSE [input EXCEPT ![c] =
                      Append(@, [type |-> type, arg |-> arg, load |-> load])]
  /\ UNCHANGED <<server, closed, subaddress, SessionID, seen>>

Available(c) == seen[c] < Len(output[c])
NextResponse(c) == output[c][seen[c] + 1]

\* Mutant: a response is skipped.
TakeTwo(c) == seen' = [seen EXCEPT ![c] = @ + 2]

Take(c) == seen' = [seen EXCEPT ![c] = @ + 1]

\* The server has closed the connection and everything it wrote has been read.
Ended(c) == ~Available(c) /\ (pc[c] = "done" \/ phase = "crashed")

-----------------------------------------------------------------------------
(* hs_connect, perhaps hs_set_maximum_message_size, hs_sync_send of a       *)
(* command that fits one message, hs_sync_receive and hs_disconnect         *)

SendInitialize(p) ==
  /\ phase = "running"
  /\ Advance(p, "start", "initialize")
  /\ Write(Sync(p), "Initialize", Version, subaddress[p])

\* Mutant: the client sends another id.
SendAsyncOther(p) ==
  /\ phase = "running"
  /\ Advance(p, "connect_async", "async_initialize")
  /\ Write(Async(p), "AsyncInitialize", SessionID[p] + MaxSessions, NoLoad)

SendAsyncInitialize(p) ==
  /\ phase = "running"
  /\ Advance(p, "connect_async", "async_initialize")
  /\ Write(Async(p), "AsyncInitialize", SessionID[p], NoLoad)

\* The server has gone down since the first connection.
ConnectAsyncFails(p) ==
  /\ phase = "crashed"
  /\ Advance(p, "connect_async", "close_sync")
  /\ UNCHANGED <<server, wire, subaddress, SessionID, seen>>

SetMaximumMessageSize(p) ==
  /\ Advance(p, "open", "sizing")
  /\ Write(Async(p), "AsyncMaximumMessageSize", 0, "size")

SyncSend(p) ==
  /\ \E here \in {"open", "sized"} : Advance(p, here, "sent")
  /\ Write(Sync(p), "DataEnd", 0, "data")

\* The response each waiting step accepts, and where it leads.
Exchange ==
  {[at |-> "initialize", chan |-> "sync",
    type |-> "InitializeResponse", to |-> "connect_async"],
   [at |-> "async_initialize", chan |-> "async",
    type |-> "AsyncInitializeResponse", to |-> "open"],
   [at |-> "sizing", chan |-> "async",
    type |-> "AsyncMaximumMessageSizeResponse", to |-> "sized"],
   [at |-> "sent", chan |-> "sync", type |-> "DataEnd", to |-> "answered"]}

\* Mutant: the session id of the response is not kept.
TakeResponseForgets(p, x) ==
  LET c == <<p, x.chan>>
  IN  /\ Advance(p, x.at, x.to)
      /\ Available(c)
      /\ NextResponse(c).type = x.type
      /\ Take(c)
      /\ UNCHANGED <<server, wire, subaddress, SessionID>>

\* msg_receive and what its caller does with the message: InitializeResponse
\* brings the session id.
TakeResponse(p, x) ==
  LET c == <<p, x.chan>>
  IN  /\ Advance(p, x.at, x.to)
      /\ Available(c)
      /\ NextResponse(c).type = x.type
      /\ Take(c)
      /\ SessionID' = [SessionID EXCEPT ![p] =
                         IF x.at = "initialize" THEN NextResponse(c).arg ELSE @]
      /\ UNCHANGED <<server, wire, subaddress>>

CloseChannel(c) ==
  /\ closed' = closed \cup {c}
  /\ UNCHANGED <<server, input, subaddress, SessionID, seen>>

\* At the end of the stream msg_receive closes the connection and fails; the
\* labels of hs_connect then close the sync channel, if it is still open; the
\* program drops the results of the other calls and goes on.
ResponseEnds(p) ==
  \E x \in Exchange :
    /\ Ended(<<p, x.chan>>)
    /\ Advance(p, x.at, CASE x.at = "initialize" -> "failed"
                          [] x.at = "async_initialize" -> "close_sync"
                          [] x.at = "sizing" -> "sized"
                          [] x.at = "sent" -> "unanswered")
    /\ CloseChannel(<<p, x.chan>>)

CloseSync(p) ==
  /\ Advance(p, "close_sync", "failed")
  /\ CloseChannel(Sync(p))

DisconnectSync(p) ==
  /\ \E here \in {"open", "sized", "answered", "unanswered"} :
       Advance(p, here, "disconnect")
  /\ CloseChannel(Sync(p))

DisconnectAsync(p) ==
  /\ Advance(p, "disconnect", "closed")
  /\ CloseChannel(Async(p))

Client(p) ==
  \/ SendInitialize(p) \/ SendAsyncInitialize(p) \/ ConnectAsyncFails(p)
  \/ SetMaximumMessageSize(p) \/ SyncSend(p)
  \/ \E x \in Exchange : TakeResponse(p, x)
  \/ ResponseEnds(p) \/ CloseSync(p)
  \/ DisconnectSync(p) \/ DisconnectAsync(p)

SystemNext ==
  \/ (Setup \/ \E c \in Conn : Thread(c)) /\ UNCHANGED client
  \/ \E p \in Clients : Client(p)

SystemSpec ==
  /\ SystemInit /\ [][SystemNext]_allVars
  /\ \A c \in Conn : WF_vars(Thread(c))
  /\ \A p \in Clients : WF_allVars(Client(p))

-----------------------------------------------------------------------------
(* Properties *)

SystemTypeOK ==
  /\ step \in [Clients -> {"start", "initialize", "connect_async",
                           "async_initialize", "open", "sizing", "sized",
                           "sent", "answered", "unanswered", "close_sync", "failed",
                           "disconnect", "closed"}]
  /\ subaddress \in [Clients -> Subaddresses]
  /\ SessionID \in [Clients -> Handle]
  /\ \A c \in Conn : seen[c] \in 0 .. Len(output[c])

HasSession(p) == step[p] \notin {"start", "initialize", "close_sync", "failed"}

\* Two clients are never given the same session, and the id a client uses is
\* that of a session the server holds for it.
SessionsPaired ==
  \A p, q \in Clients :
    HasSession(p) => /\ SessionID[p] \in allocated
                     /\ HasSession(q) /\ p # q => SessionID[p] # SessionID[q]

\* Clients that open a named subaddress, wait for each response and then
\* disconnect never take the server down.
ServerSurvives ==
  (\A p \in Clients : subaddress[p] # NoLoad) => phase # "crashed"

\* hs_connect fails for one reason only, that the server has no session left.
FailsOnlyWhenFull ==
  phase # "crashed" =>
    \A p \in Clients : step[p] = "failed" => allocated = Handle

\* Nobody waits for nothing in hs_connect: as long as the server is up, a client's
\* request is under way or with its thread, or the thread has left, or what comes
\* next on the connection is the response the client waits for.
NeverStranded ==
  phase = "running" =>
    \A p \in Clients, x \in Exchange :
      step[p] = x.at /\ x.at \in {"initialize", "async_initialize"} =>
        LET c == <<p, x.chan>>
        IN  \/ input[c] # <<>> \/ pc[c] # "read"
            \/ Available(c) /\ NextResponse(c).type = x.type

\* hs_connect returns, one way or the other, even when another client takes the
\* server down meanwhile.
ConnectReturns ==
  \A p \in Clients : step[p] = "initialize" ~> step[p] \in {"open", "failed"}

\* What these clients send is what ServerProcess assumes of its clients, so its
\* properties hold here.
ServerSpec == Spec

\* README.md:136, demo/client.c:34: "Receive response message", then
\* hs_sync_receive: the command just sent gets its response.
ResponseReceived ==
  \A p \in Clients : step[p] = "sent" ~> step[p] = "answered"

-----------------------------------------------------------------------------
(* Refinement of HislipService: a client has the session whose id it has    *)
(* been told, and the one that its connection owns on the server.           *)
defaultBar == {p \in Clients : subaddress[p] = NoLoad}
CallOf(s) ==
  CASE s = "start" -> "none"
    [] s = "failed" -> "failed"
    [] s \in {"disconnect", "closed"} -> "closed"
    [] s \in {"open", "sizing", "sized", "sent", "answered", "unanswered"} -> "open"
    [] s \in {"initialize", "connect_async", "async_initialize", "close_sync"} -> "connecting"
callBar == [p \in Clients |-> CallOf(step[p])]
sessionBar ==
  [p \in Clients |->
     ownedBar[Sync(p)] \cup {h \in {SessionID[p]} : HasSession(p)}]

Service == INSTANCE HislipService
  WITH server <- phase, default <- defaultBar, call <- callBar, session <- sessionBar

\* Over the two connections of every client, the threads that serve them and the
\* messages between them, connecting is what HislipService says: each client gets
\* a session of its own, the one the server has claimed for it, and hs_connect
\* fails, or the server goes down, for the reasons stated there and no other.
RefinesService == Service!Spec
=============================================================================
