----------------------------- MODULE ServerProcess -----------------------------
(***************************************************************************)
(* src/server.c: the registration of subaddresses and hs_process, the loop *)
(* of every connection thread, on whole messages (their bytes are a        *)
(* subject of their own).  The threads share the list of subaddresses, the *)
(* server structure and the session table of src/session.c.                *)
(*                                                                         *)
(* A message is a record of its type, its parameter (arg: the protocol     *)
(* version, a session id or a message id) and its payload (load: the name  *)
(* of a subaddress or some data, or NoLoad).  The application's            *)
(* message_sync callback is external: it answers as the one of             *)
(* demo/server.c does, by hs_server_send_response.                         *)
(***************************************************************************)
EXTENDS Integers, Sequences, FiniteSets

CONSTANTS
  Conn,          \* connections, each with its thread
  Names,         \* subaddress names
  NoName,        \* no subaddress has been registered, or registration failed
  NoLoad,        \* no payload: a NULL pointer until one has been received
  WithCallback,  \* the names whose message_sync callback is not NULL
  MaxSessions,   \* MAX_SESSIONS
  Messages,      \* the messages clients may send
  MaxMessages,   \* bound: messages on one connection
  MaxRegister    \* bound: calls of hs_server_register_subaddress

ASSUME ServerAssumption ==
  /\ NoName \notin Names /\ NoLoad \notin Names
  /\ WithCallback \subseteq Names
  /\ MaxSessions \in Nat \ {0}
  /\ MaxMessages \in Nat /\ MaxRegister \in Nat

VARIABLES
  list,             \* subaddress_head: registered names, last one first
  subaddress_data,  \* server->subaddress_data, the name it points to
  phase,            \* "setup", then "running" in hs_server_run, or "crashed"
  input,            \* messages under way to the server, per connection
  closed,           \* connections whose client has closed them
  allocated,        \* sessions claimed by session_new
  pc,               \* next step of each connection thread
  msg,              \* the message it is handling
  payload,          \* its payload pointer, kept from message to message
  sessionID,        \* its local variable
  output,           \* responses written to the connection
  handled           \* history: the messages a connection's thread is done with

shared == <<list, subaddress_data, phase>>
wire == <<input, closed>>
vars == <<list, subaddress_data, phase, input, closed, allocated, pc, msg,
          payload, sessionID, output, handled>>

Handle == 0 .. MaxSessions - 1

\* HISLIP_VERSION_MAJOR and _MINOR as they are compared.
Version == 256

NoMessage == [type |-> "none", arg |-> 0, load |-> NoLoad]
\* by is the subaddress whose callback has answered, if one has.
Response(type, arg, by) == [type |-> type, arg |-> arg, by |-> by]

Init ==
  /\ list = <<>>
  /\ subaddress_data = NoName
  /\ phase = "setup"
  /\ input = [c \in Conn |-> <<>>]
  /\ closed = {}
  /\ allocated = {}
  /\ pc = [c \in Conn |-> "read"]
  /\ msg = [c \in Conn |-> NoMessage]
  /\ payload = [c \in Conn |-> NoLoad]
  /\ sessionID = [c \in Conn |-> -1]
  /\ output = [c \in Conn |-> <<>>]
  /\ handled = [c \in Conn |-> <<>>]

-----------------------------------------------------------------------------
(* hs_server_register_subaddress and hs_server_run *)

Register(n) ==
  /\ phase = "setup"
  /\ Len(list) < MaxRegister
  /\ subaddress_data' = n
  /\ list' = <<n>> \o list
  /\ UNCHANGED <<phase, wire, allocated, pc, msg, payload, sessionID, output, handled>>

\* Out of memory: -1 is returned, but server->subaddress_data is overwritten.
RegisterFails ==
  /\ phase = "setup"
  /\ Len(list) < MaxRegister
  /\ subaddress_data' = NoName
  /\ UNCHANGED <<list, phase, wire, allocated, pc, msg, payload, sessionID,
                 output, handled>>

Run ==
  /\ phase = "setup"
  /\ phase' = "running"
  /\ UNCHANGED <<list, subaddress_data, wire, allocated, pc, msg, payload,
                 sessionID, output, handled>>

-----------------------------------------------------------------------------
(* The clients *)

Sent(c) == Len(handled[c]) + Len(input[c]) + (IF pc[c] = "read" THEN 0 ELSE 1)

Send(c, m) ==
  /\ phase = "running"
  /\ c \notin closed
  /\ Sent(c) < MaxMessages
  /\ input' = [input EXCEPT ![c] = Append(@, m)]
  /\ UNCHANGED <<shared, closed, allocated, pc, msg, payload, sessionID,
                 output, handled>>

HangUp(c) ==
  /\ phase # "setup"
  /\ c \notin closed
  /\ closed' = closed \cup {c}
  /\ UNCHANGED <<shared, input, allocated, pc, msg, payload, sessionID,
                 output, handled>>

-----------------------------------------------------------------------------
(* hs_process *)

Goto(c, from, to) ==
  /\ phase = "running"
  /\ pc[c] = from
  /\ pc' = [pc EXCEPT ![c] = to]

Crash == phase' = "crashed"

\* Header and payload; without a payload the pointer keeps its old value.
Receive(c) ==
  /\ Goto(c, "read", "act")
  /\ input[c] # <<>>
  /\ msg' = [msg EXCEPT ![c] = Head(input[c])]
  /\ input' = [input EXCEPT ![c] = Tail(@)]
  /\ payload' = [payload EXCEPT ![c] =
                   IF Head(input[c]).load = NoLoad THEN @ ELSE Head(input[c]).load]
  /\ UNCHANGED <<shared, closed, allocated, sessionID, output, handled>>

ReceiveEnd(c) ==
  /\ Goto(c, "read", "done")
  /\ input[c] = <<>>
  /\ c \in closed
  /\ UNCHANGED <<shared, wire, allocated, msg, payload, sessionID, output, handled>>

\* The handling of a message ends; r are the responses it has sent.
Finish(c, from, to, r) ==
  /\ Goto(c, from, to)
  /\ output' = [output EXCEPT ![c] = @ \o r]
  /\ handled' = [handled EXCEPT ![c] = Append(@, msg[c])]
  /\ msg' = [msg EXCEPT ![c] = NoMessage]
  /\ UNCHANGED <<shared, wire, payload>>

\* Mutant: the session is claimed before the protocol version is checked.
RefuseVersionLate(c) ==
  /\ Finish(c, "act", "done", <<>>)
  /\ msg[c].type = "Initialize"
  /\ msg[c].arg # Version
  /\ \E h \in Handle \ allocated :
       /\ allocated' = allocated \cup {h}
       /\ sessionID' = [sessionID EXCEPT ![c] = h]

\* Unsupported protocol version: tcp_stop and return.
RefuseVersion(c) ==
  /\ Finish(c, "act", "done", <<>>)
  /\ msg[c].type = "Initialize"
  /\ msg[c].arg # Version
  /\ UNCHANGED <<allocated, sessionID>>

\* Mutant: the entry is found free but not claimed.
NewSessionUnclaimed(c) ==
  /\ Goto(c, "act", "link")
  /\ msg[c].type = "Initialize"
  /\ msg[c].arg = Version
  /\ \E h \in Handle \ allocated :
       /\ 0 .. h - 1 \subseteq allocated
       /\ sessionID' = [sessionID EXCEPT ![c] = h]
  /\ UNCHANGED <<shared, wire, allocated, msg, payload, output, handled>>

NewSession(c) ==
  /\ Goto(c, "act", "link")
  /\ msg[c].type = "Initialize"
  /\ msg[c].arg = Version
  /\ \E h \in Handle \ allocated :
       /\ 0 .. h - 1 \subseteq allocated
       /\ allocated' = allocated \cup {h}
       /\ sessionID' = [sessionID EXCEPT ![c] = h]
  /\ UNCHANGED <<shared, wire, msg, payload, output, handled>>

\* Mutant: the index of the full table is kept.
RefuseSessionIndex(c) ==
  /\ Finish(c, "act", "done", <<>>)
  /\ msg[c].type = "Initialize"
  /\ msg[c].arg = Version
  /\ allocated = Handle
  /\ sessionID' = [sessionID EXCEPT ![c] = MaxSessions]
  /\ UNCHANGED allocated

\* session_new fails: tcp_stop and return.
RefuseSession(c) ==
  /\ Finish(c, "act", "done", <<>>)
  /\ msg[c].type = "Initialize"
  /\ msg[c].arg = Version
  /\ allocated = Handle
  /\ sessionID' = [sessionID EXCEPT ![c] = -1]
  /\ UNCHANGED allocated

\* server_subaddress_link looks the name up and drops what it finds; its result
\* is never -1, so an unknown name is accepted as well.
Link(c) ==
  /\ Goto(c, "link", "respond")
  /\ list # <<>> => payload[c] # NoLoad
  /\ UNCHANGED <<shared, wire, allocated, msg, payload, sessionID, output, handled>>

\* strcmp with the NULL pointer.
LinkCrashes(c) ==
  /\ phase = "running" /\ pc[c] = "link"
  /\ list # <<>> /\ payload[c] = NoLoad
  /\ Crash
  /\ UNCHANGED <<list, subaddress_data, wire, allocated, pc, msg, payload,
                 sessionID, output, handled>>

RespondInitialize(c) ==
  /\ Finish(c, "respond", "read", <<Response("InitializeResponse", sessionID[c], NoName)>>)
  /\ UNCHANGED <<allocated, sessionID>>

\* Mutant: the response is forgotten.
AsyncInitializeSilent(c) ==
  /\ Finish(c, "act", "read", <<>>)
  /\ msg[c].type = "AsyncInitialize"
  /\ UNCHANGED <<allocated, sessionID>>

\* The session id received is not looked at.
AsyncInitialize(c) ==
  /\ Finish(c, "act", "read", <<Response("AsyncInitializeResponse", 0, NoName)>>)
  /\ msg[c].type = "AsyncInitialize"
  /\ UNCHANGED <<allocated, sessionID>>

\* Mutant: the response carries a message id of its own.
message_sync_renumbers(name, message_id) ==
  <<Response("DataEnd", message_id + 2, name)>>

\* The demo server's callback: whatever the command, one response by
\* hs_server_send_response, with the message id it was called with.
message_sync(name, message_id) == <<Response("DataEnd", message_id, name)>>

\* The callback of server->subaddress_data is called unless it is NULL.
CallBack(c) ==
  /\ Finish(c, "act", "read",
            IF subaddress_data \in WithCallback
              THEN message_sync(subaddress_data, msg[c].arg) ELSE <<>>)
  /\ msg[c].type = "Data"
  /\ subaddress_data # NoName
  /\ UNCHANGED <<allocated, sessionID>>

\* Mutant: message_sync is called without a look whether it is NULL.
CallBackCrashesNull(c) ==
  /\ phase = "running" /\ pc[c] = "act"
  /\ msg[c].type = "Data"
  /\ subaddress_data \notin WithCallback
  /\ Crash
  /\ UNCHANGED <<list, subaddress_data, wire, allocated, pc, msg, payload,
                 sessionID, output, handled>>

\* No subaddress registered last: the pointer is NULL or was never assigned.
CallBackCrashes(c) ==
  /\ phase = "running" /\ pc[c] = "act"
  /\ msg[c].type = "Data"
  /\ subaddress_data = NoName
  /\ Crash
  /\ UNCHANGED <<list, subaddress_data, wire, allocated, pc, msg, payload,
                 sessionID, output, handled>>

\* A write after the client has closed its end may raise SIGPIPE, which nothing
\* handles; or it succeeds or fails unnoticed.
BrokenPipe(c) ==
  /\ phase = "running"
  /\ c \in closed
  /\ \/ pc[c] = "respond"
     \/ /\ pc[c] = "act"
        /\ \/ msg[c].type = "AsyncInitialize"
           \/ msg[c].type = "Data" /\ subaddress_data \in WithCallback
  /\ Crash
  /\ UNCHANGED <<list, subaddress_data, wire, allocated, pc, msg, payload,
                 sessionID, output, handled>>

\* DataEnd, AsyncMaximumMessageSize and every other type: nothing is done.
Ignore(c) ==
  /\ Finish(c, "act", "read", <<>>)
  /\ msg[c].type \in {"DataEnd", "AsyncMaximumMessageSize", "Other"}
  /\ UNCHANGED <<allocated, sessionID>>

Thread(c) ==
  \/ Receive(c) \/ ReceiveEnd(c)
  \/ RefuseVersion(c) \/ NewSession(c) \/ RefuseSession(c)
  \/ Link(c) \/ LinkCrashes(c) \/ RespondInitialize(c)
  \/ AsyncInitialize(c) \/ CallBack(c) \/ CallBackCrashes(c)
  \/ BrokenPipe(c) \/ Ignore(c)

Setup == (\E n \in Names : Register(n)) \/ RegisterFails \/ Run

Next ==
  \/ Setup
  \/ \E c \in Conn : (\E m \in Messages : Send(c, m)) \/ HangUp(c) \/ Thread(c)

Spec == Init /\ [][Next]_vars

-----------------------------------------------------------------------------
(* Properties *)

TypeOK ==
  /\ list \in Seq(Names)
  /\ subaddress_data \in Names \cup {NoName}
  /\ phase \in {"setup", "running", "crashed"}
  /\ input \in [Conn -> Seq(Messages)]
  /\ closed \subseteq Conn
  /\ allocated \subseteq Handle
  /\ pc \in [Conn -> {"read", "act", "link", "respond", "done"}]
  /\ msg \in [Conn -> Messages \cup {NoMessage}]
  /\ payload \in [Conn -> {m.load : m \in Messages} \cup {NoLoad}]
  /\ sessionID \in [Conn -> Handle \cup {-1}]
  /\ \A c \in Conn : handled[c] \in Seq(Messages)

Initialized(c) ==
  {i \in 1 .. Len(output[c]) : output[c][i].type = "InitializeResponse"}

\* No two Initialize exchanges, on one connection or on several handled at the
\* same time, are told the same session id.
SessionIdsUnique ==
  \A c, d \in Conn : \A i \in Initialized(c), j \in Initialized(d) :
    output[c][i].arg = output[d][j].arg => c = d /\ i = j

\* Sessions are used up by Initialize messages and by nothing else: one for each
\* InitializeResponse sent or about to be sent, whatever became of the client.
SessionAccount ==
  Cardinality(allocated) =
    Cardinality(UNION {{c} \X Initialized(c) : c \in Conn})
    + Cardinality({c \in Conn : pc[c] \in {"link", "respond"}})

Answerable(m) ==
  \/ m.type \in {"Initialize", "AsyncInitialize"}
  \/ m.type = "Data" /\ subaddress_data \in WithCallback

Answers(r, m) ==
  \/ r.type = "InitializeResponse" /\ m.type = "Initialize"
  \/ r.type = "AsyncInitializeResponse" /\ m.type = "AsyncInitialize"
  \/ r.type = "DataEnd" /\ m.type = "Data" /\ r.arg = m.arg

\* The requests done with that have a response, and the place it has among the
\* responses.
Asked(c) == {i \in 1 .. Len(handled[c]) : Answerable(handled[c][i])}
Place(c, i) == Cardinality({j \in Asked(c) : j <= i})

\* Each connection gets one response to each request that has one, in the order
\* of the requests and with their message ids; only the Initialize that ends a
\* connection goes unanswered.
RepliesFollowRequests ==
  \A c \in Conn :
    /\ \/ Len(output[c]) = Cardinality(Asked(c))
       \/ pc[c] = "done" /\ Len(output[c]) = Cardinality(Asked(c)) - 1
    /\ \A i \in Asked(c) :
         Place(c, i) <= Len(output[c])
           => Answers(output[c][Place(c, i)], handled[c][i])

\* Once the last registration has succeeded, and as long as no client leaves, one
\* thing only ends the server: an Initialize without subaddress on a connection
\* that has never brought a payload.  An earlier payload, which payload still
\* points to, protects it (server.c:79), and a failed registration is forgotten
\* with the next one that succeeds (server.c:334).
StaysUp ==
  phase = "crashed" /\ subaddress_data # NoName /\ closed = {} =>
    \E c \in Conn :
      /\ msg[c].type = "Initialize" /\ msg[c].load = NoLoad
      /\ \A i \in 1 .. Len(handled[c]) : handled[c][i].load = NoLoad

\* client.c:81-82: "Subaddress of NULL the initialize opens the default (perhaps
\* only) device at the IP address", so looking it up does not end the server.
NullOpensDefault ==
  \A c \in Conn :
    phase = "crashed" => ~(pc[c] = "link" /\ msg[c].load = NoLoad)

Opened(c) ==
  {handled[c][i].load : i \in {j \in 1 .. Len(handled[c]) :
                                 handled[c][j].type = "Initialize"}}

\* server.c:197: "Link connection session with registered subaddress callbacks",
\* so the data of a client is handled by a subaddress it has opened.
LinkedCallback ==
  \A c \in Conn : \A i \in 1 .. Len(output[c]) :
    Initialized(c) # {} /\ output[c][i].type = "DataEnd"
      => output[c][i].by \in Opened(c)

-----------------------------------------------------------------------------
(* Refinement of SessionOwners: a connection owns the sessions it has told  *)
(* its client, and the one it is going to tell.                             *)
ownedBar ==
  [c \in Conn |->
     {output[c][i].arg : i \in Initialized(c)}
       \cup {h \in {sessionID[c]} : pc[c] \in {"link", "respond"}}]

Table == INSTANCE SessionOwners WITH Owners <- Conn, used <- allocated, owned <- ownedBar

\* The connection threads use the session table as it may be used, and what they
\* tell their clients is what they own: each session told was claimed for that
\* connection, while it was the lowest free one, and is never claimed again.
RefinesOwners == Table!Spec
=============================================================================
