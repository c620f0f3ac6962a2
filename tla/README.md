# Formal models of libhislip

TLA+ models of libhislip, the C client and server library for HiSLIP (High
Speed LAN Instrument Protocol), with the TLC runs that check them and the TLAPS
proofs about them. Paths are relative to the repository; `client.c:91` stands
for `src/client.c`, line 91.

## 1. The system

A *client* process opens a device with `hs_connect`, which makes two TCP
connections to the server: the sync channel, on which `Initialize` is answered
with a session id, and the async channel, which `AsyncInitialize` joins to that
session. Commands are then sent and answered on the sync channel
(`hs_sync_send`, `hs_sync_receive`), sizes are negotiated on the async one
(`hs_set_maximum_message_size`), and `hs_disconnect` closes both.

A *server* process registers subaddresses with their callbacks and calls
`hs_server_run`, which accepts connections for ever and gives each a detached
thread that runs `hs_process`: read a header, read the payload, act on the
message type, answer.

| component | source | state | operations | hard because |
| --- | --- | --- | --- | --- |
| session table | `session.c`, `session.h` | `session[256]`, `session_id`, `session_mutex` | `session_new`, `session_free` | shared by all threads; the error path must unlock; full table; 16-bit counter |
| TCP server | `tcp.c:198-267` | `client_socket`, one `connection_data` on the stack, the descriptor table | accept loop, `connection_thread`, `tcp_read`, `tcp_disconnect` | the next accept overwrites what the previous thread has not read yet; descriptors are reused; failures of accept and pthread_create |
| client calls | `client.c` | `session[]` fields, two descriptors | `hs_connect`, `hs_sync_receive`, `hs_set_maximum_message_size`, `hs_disconnect` | a ladder of error labels; `msg_receive` closes the socket its callers close again; timeouts are counted as bytes |
| message sending | `client.c:204-252` | `message_id`, `server_message_size_max`, bytes left | `hs_sync_send` | unsigned arithmetic that wraps; failed and cut-short writes; a size announced by the server that is taken as it is, while a call may be under way |
| server processing | `server.c` | list of subaddresses, `server->subaddress_data`, per thread `payload`, `sessionID` | `hs_server_register_subaddress`, `hs_process`, `hs_server_send_response` | threads share the server structure; NULL payloads; SIGPIPE; sessions are never freed |
| framing | `message.c`, the read loop of `server.c:83-160` | bytes left to read, the header received | `msg_create`, `msg_send`, `msg_receive`, `msg_header_verify` | reads of any size, failed reads, messages refused with their payload still in the stream |
| byte order | `message.h` | none | `htonll`, `ntohll` | a macro for 64 bits built of one for 32 |
| wording, logging, headers | `print.h`, `misc.h`, `hislip/*.h`, error tables of `message.c` | none | none | not a subject for a model |
| demos | `demo/*.c` | none | a client and a server program | the order of the calls; the callback runs on every connection's thread |

Interactions: the two kinds of process exchange messages over TCP; threads of
one process share `session[]` under `session_mutex`, the process's descriptor
table, and on the server the subaddress list and `connection_data`, without any
lock. The application's `message_sync` callback runs on the connection thread.

What makes each part correct, in a line: the session table gives an entry to one
owner at a time; the accept loop gives each connection a thread of its own; a
client call touches only its own descriptors and gives back everything when it
fails; the server answers each request once, in order, with its message id, and
a session id is told to one client; and client and server together never wait
for each other for ever. The hazards behind these are listed with their lines in
`PROJECT.json`.

## 2. Modules

| module | models | composed from |
| --- | --- | --- |
| `SessionPool` | abstract: what `session_new` and `session_free` promise, as atomic operations | |
| `SessionOwners` | abstract: the session table as its users may think of it, who owns which session | |
| `SessionTable` | `session.c`, one memory access per step, under the mutex | refines `SessionPool`, `SessionOwners` |
| `SessionTableProofs` | theorems about `SessionTable` | extends `SessionTable`, `TLAPS` |
| `ConnectionService` | abstract: what the server promises to those who connect to it | |
| `ConnectionDispatch` | the accept loop, the connection threads' receive loop, the descriptor table | refines `ConnectionService` |
| `ConnectionDispatchProofs` | theorems about it | extends `ConnectionDispatch`, `TLAPS` |
| `ClientCalls` | the connect, receive, size and disconnect calls of several threads | refines `SessionOwners` |
| `ClientCallsProofs` | theorems about it | extends `ClientCalls`, `TLAPS` |
| `SyncSend` | `hs_sync_send` on unsigned words, the size announced by the server | |
| `SyncSendProofs` | theorems about it | extends `SyncSend`, `TLAPS` |
| `WireFormat` | `htonll`, `ntohll` on bytes | |
| `MessageQueue` | abstract: messages taken one by one by a reader that may lose its place | |
| `MessageStream` | a sender, the byte stream, and the two loops that read it | extends `WireFormat`, refines `MessageQueue` |
| `MessageStreamProofs` | theorems about both | extends `MessageStream`, `TLAPS` |
| `ServerProcess` | registration and `hs_process` on whole messages | refines `SessionOwners` |
| `ServerProcessProofs` | theorems about it | extends `ServerProcess`, `TLAPS` |
| `HislipService` | abstract: what connecting to a server is to the clients | |
| `HislipSystem` | clients running `demo/client.c` or the program of `README.md` against `ServerProcess` | extends `ServerProcess`, refines `HislipService` |
| `HislipSystemProofs` | theorems about it | extends `HislipSystem`, `ServerProcessProofs` |

The `MC...` modules give the constants their values. Definitions keep the names
of the source; the comment *Mutant* marks a changed version of the definition
that follows it, which makes the named property fail and is used for nothing
else.

### 2.1 SessionTable, SessionPool and SessionOwners

State: `allocated`, `SessionID`, `session_id` are the table's, `pc`, `i`, `arg`,
`ret` the threads'. Every access to the table is a step of its own, so that the
mutex, and not the model, makes the calls atomic. `EnterNew .. ReturnNew` are the
steps of `session_new` (`session.c:41-82`), `EnterFree .. ReturnFree` those of
`session_free` (84-110) with its error exit `UnlockError`. `held` is what the
application on a thread has been given; `disciplined`, chosen once, says whether
applications free only what they hold. `SessionPool` has one atomic step per
call: claim the *lowest* free entry, refuse only when there is none, free an
allocated entry once. The other fields a new session is given (`session.c:58-64`)
are not shared before the handle is returned; the ones that matter later are in
`ClientCalls`.

`SessionOwners` is where the modules with a session table meet. Its state is
which sessions are in use and which each owner has; an owner claims the lowest
free one or frees one of its own. `SessionTable` provides it to applications that are
`disciplined`, and the connections of `ServerProcess` and the threads of
`ClientCalls` keep to it, with one atomic step where `session.c` takes many. That
is what allows these modules to leave the steps of `session_new` out.

### 2.2 ConnectionDispatch and ConnectionService

`Accept`, `StoreData`, `Spawn` are three statements of the loop in
`tcp_server_start` (`tcp.c:238-264`); between them any thread may run.
`connection_data` is the variable `sd`, one for all threads: `Begin` is the
first statement of `connection_thread`, which reads it. A thread's `Select`,
`ReadMessage`, `ReadEnd`, `ReadFails`, `Process`, `Close` are the loop of
`hs_process` seen from its descriptor. `fdTable` is external: the lowest layer
knows only which connection is behind a number, and numbers are given out again.
`AcceptFails` and `SpawnFails` are the failures the code meets with `exit` and
ignores, respectively.

`spaced`, chosen once, says that no accept returns while a created thread has
not read `connection_data`. The code does not ensure it; it is the condition
under which the strong properties hold, and what holds without it is stated
separately (`NeverOlder`, `LatestServed`, `ArrivalServed`).

`ConnectionService` says the same without descriptors, as a specification of the
server: it has connections, open or not, and threads, each of which serves a
connection or has lost the one it had. A connection that is closed is lost by
every thread that serves it; a thread without one (`Strays`) may find itself with
the next connection accepted, since that may be given the same number. When
connections come in order (`orderly`, which is `spaced`), a thread starts with
its own connection, answers the client whose message it has, and closes its own
connection only, after the client has left or over one of its messages.

### 2.3 ClientCalls

Each thread works on a device of its own. `pc` follows `hs_connect` through its
two rounds (`chan`), socket, connect, request, response; `ConnectError` and
`ExchangeError` are the labels the failures jump to (`client.c:170-181`).
`owner` records for whom each descriptor was opened; a closed number may be
handed to any thread. `ResponseEnds` and `AnswerEnds` are `msg_receive` closing
the descriptor at the end of the stream, after which its caller closes it again.
A timeout leads to `late`: `msg_receive` counts -1 bytes read and asks for one byte
more than the answer has, so that the answer alone does not end it. The end of the
stream does (`ResponseEnds`, `AnswerEnds`), and so do bytes of a later message:
since the last bytes read lie in the start of the header, the call then takes its
answer for good or for bad (`LateResponse`, `LateFails`, `LateAnswer`). `ended` and
`refused` are history variables.

### 2.4 SyncSend

One device. `Call` computes what `client.c:210-221` computes, on words of
`WordSize` values that wrap: `Room` is the payload that fits in a message,
`BytesToSend` is `message_bytes_remaining`, in which the last part replaces the
full messages instead of adding to them. `CallCrashes` is the division by zero
when the server has announced exactly a header's size. `Write(n)` is one turn of
the loop whose write accepts `n` bytes of header and command: every message
carries the *whole* command, the id grows by two, and its type is `DataEnd` when
no more than a message's size remains. `WriteFails` is a turn whose write
returns -1, which is subtracted like a number of bytes. `SetMaximumMessageSize`
may store another size at any moment; the call has copied its own. `out` is a
history variable: messages, bytes and failed writes of the current call, each
capped at a bound.

### 2.5 WireFormat, MessageStream and MessageQueue

`WireFormat` states `htonll` and `ntohll` as built on a little-endian host, out
of the 32-bit conversion, for bytes of any base; `InNetworkOrder` is the
reference. `AsInt` is what becomes of a `uint64_t` in an `int`: its low half, in
two's complement.

`MessageStream` has a sender, the stream, as the sequence of messages written
with the byte positions where they start and how many bytes of them were written,
and one of two readers, chosen once: `"server"` is the loop of `hs_process`
(`server.c:83-160`), `"client"` is `msg_receive` (`message.c:155-248`). The sender
is this library's `msg_send`, whose one write may be cut short and is given an
`int`, or another implementation that writes all of a message (`PeerSends`). A
read returns 1 to `left` of the bytes that have come, or -1 (`ReadFails`); `left`
is an `int`. A payload length that does not fit one is narrowed
(`message.c:231`, `server.c:152`): as a negative number or zero it keeps the loop of
`msg_receive` from reading anything (`NoPayload`), while `hs_process` takes zero
for the end of the stream and handles a message whose length is negative with an
unread payload (`PayloadNarrowed`). That `read` and `write` fail when given a
negative length, larger than any buffer as a `size_t`, is external.
`HeaderComplete` decodes the header, verifies it and decides; `HeaderPiece` and
`PayloadPiece` are reads of less than was asked for, where the loops differ: the
server drops the piece of a header and handles a message with the piece of a
payload, the client reads on, but into the *start* of the buffer. A refused
message leaves its payload in the stream. A header that is not read by one read
at the start of a message holds bytes of something else, and the model lets it
hold any header (`Decoded`). `reads` is a history variable with the worst that
has happened: `"whole"`, `"split"` (payloads in pieces) or `"torn"`.

`TakenInOrder` is what the modules on whole messages rest on: as long as reads
return what they are asked for and every message met `Passes`, the messages come
one by one, in order, each with its own payload. A message passes if it was
written as a whole and has no payload, or one that the reader accepts and whose
length fits an `int`.

`MessageQueue` is the same for the whole life of a connection, without bytes. The
messages sent are wanted by the reader, skipped, or harmful: those that do not
pass. In its place the reader takes the oldest message it wants and finds the end
of the stream behind the last one only; it loses its place by a harmful message
(`Lose`) or by a read that comes short, and never finds it again. `MessageStream` implements it with either reader.

### 2.6 ServerProcess

A message is a type, a parameter and a payload. `Receive` takes header and
payload together (see 2.5); `payload` keeps its old value when there is none, as
the pointer does. `Initialize` takes three steps (`NewSession`, `Link`,
`RespondInitialize`), since other threads run between them; the other types take
one. `LinkCrashes`, `CallBackCrashes` and `BrokenPipe` are the points where the
process ends: `strcmp` with a NULL payload, a callback through
`server->subaddress_data` when the last registration failed or none was made,
and SIGPIPE. `server_subaddress_link` looks a name up and stores the result in
its own parameter, so `Link` changes nothing; its result is a `bool` and is
compared with -1, so nothing is refused. `allocated` and `Data` follow the code:
sessions are never freed, and `Data` goes to the subaddress registered last.
`message_sync` is the callback of `demo/server.c`.

### 2.7 HislipSystem and HislipService

Each client has its two connections, both accepted, and runs connect, perhaps
`hs_set_maximum_message_size` (as `demo/client.c` does; the program of `README.md`
does not), send, receive, disconnect. `Exchange` lists the steps that wait for a
response, with the type each expects. Messages a client writes go into
`ServerProcess`'s `input`, its responses are read in order from `output`. The
model leaves the set-up of connections to `ConnectionDispatch` and network failures
to `ClientCalls`: here every connection is accepted, gets its thread and is served
by it. That the server stays up (`ServerSurvives`), that nobody is stranded and
that `hs_connect` returns are relative to that; a failing `accept`, after which the
server exits (`tcp.c:245-250`), and connections that race for `connection_data`
are in `ConnectionDispatch`, where they are steps of the model.
`ServerSpec` says that what these clients do is allowed by
`ServerProcess`, so what is shown there holds here.

`HislipService` is the system as its users see it, without messages, connections
or threads: a call of `hs_connect` begins, is given the lowest session no client
has, and opens, or fails; it fails only if all sessions have been given away or
the server is down; and only a client that opens the default subaddress takes
the server down, after it has been given a session. A session is a client's from
the moment the server's thread has claimed it, which the client learns later and
may never learn; and it stays that client's, since the server frees none.

## 3. Runs

| run | question | bounds | outcome |
| --- | --- | --- | --- |
| `session_table` | is the table right under every interleaving, for disciplined callers and others; does it implement `SessionPool` and `SessionOwners`? | 2 threads, 2 entries, 2 ids | holds |
| `dispatch` | does each connection get its thread, its callback, and its descriptor closed; is `ConnectionService` implemented, spaced or not? | 3 connections, 2 descriptors, 1 message each, backlog 1 | holds |
| `dispatch_callback` | "a callback is called in a separate thread" for each connection (`tcp.c:192-194`) | 2 connections | violated |
| `client` | whose descriptors does a call touch, what leaks, do calls return; are sessions used as `SessionOwners` says? | 2 threads, 2 entries some of which other threads may have taken, 3 descriptors, one connect each | holds |
| `sync_send` | is a command that fits sent once, what does a call that returns have written, when does it return? | 32-value words, 2-byte header, announced sizes 1, 2, 3, 5, 7, commands of 0 to 6 bytes, 2 failed writes, 8 ids | holds |
| `sync_send_bytes` | "Calculate how many message bytes to send" (`client.c:213`) | as `sync_send` | violated |
| `stream` | what do the two read loops take out of the stream, and do they end; do both implement `MessageQueue`? | 2 messages of 8 kinds and at most 10 bytes, payload lengths 0, 1, 3, 8, 16, 17, ints of 16 values, maximum sizes 1, 4, 20, 1 failed read, bytes of 2 values | holds |
| `server` | are session ids unique, sessions accounted for, replies matched, what ends the server; are sessions used as `SessionOwners` says? | 2 connections, 2 messages each out of 7, 2 subaddresses, 2 sessions | holds |
| `server_null` | "Subaddress of NULL ... opens the default" (`client.c:81-82`) | 1 connection | violated |
| `server_link` | "Link connection session with registered subaddress callbacks" (`server.c:197`) | 1 connection | violated |
| `system` | do clients share the server correctly, does connecting end, and can it get stuck (`NeverStranded`); is `HislipService` implemented? | 3 clients, 2 sessions | holds |
| `system_response` | is the command of `README.md`'s client answered? | 1 client | violated |

Why the bounds are enough: the session table needs two threads for a race and
two entries to tell "lowest free" from "any" and a full table from an empty one;
two ids make the counter wrap. Three connections over two descriptors make a
number be reused while another thread is late, and exhaust the table. Three
descriptors for two clients (which need four) make socket calls fail and
descriptors move between threads. Two connections with two messages each meet
every pair of handlers in every order, with two sessions used up by two
Initialize messages and refused to a third. Three clients are one more than the
sessions of the system run.

`sync_send`: the sizes lie below, at and above a header's, so the payload room
wraps, is zero, one and several bytes; the commands are shorter than the room,
its multiples and longer; 32 values leave room for the longest call, whose bytes
left wrap once (`SendAssumption`); two failed writes can undo each other's
effect; 8 ids wrap within a call. `stream`: with a header of 2 bytes, payloads
of 1 and 3 are shorter and longer than a header, so that what is left of a
refused message is read as part of a header and as more than one; an `int` is
half a word, four bits, in which lengths of 8, 16 and 17 are negative, zero and
one; of the two messages either can be refused, cut or followed by the other; the
maxima refuse all payloads, those an `int` cannot hold, and none, and 1 is below a
header's size, which `hs_server_init` refuses. A payload of 8 is within
the 10 bytes of the run, those of 16 and 17 are in it as `msg_send` writes them, in
part; such a one written whole, and a count that leaves the range of an `int` by a
failed read, are reached by the proofs alone.
The byte order functions are checked for the sizes sent in words of eight
two-valued bytes, which tells the halves and the bytes apart; the proofs cover
every length and bytes of 256 values.

Deadlock checking is off where the system may stop: all clients have been served,
the bound on calls is reached, the process is down, or the stream has been read to
its end. It is on for
`session_table`, where some thread can always move.

### What the violations show

- `dispatch_callback`: two connections in quick succession; both threads read
  the second descriptor, and the first client is never served.
- `server_null`: after one registration, an `Initialize` without payload makes
  the server compare with a NULL pointer.
- `server_link`: a client that opened one subaddress has its data handled by the
  one registered last.
- `sync_send_bytes`: each message carries the whole command, whatever its size,
  so a command longer than a message is written several times over; the bytes
  written are not those calculated.
- `system_response`: a short command is one `DataEnd` message, `hs_process`
  drops `DataEnd`, and the client waits for ever.

More disagreements are visible in the models and have no run: `n` of
`tcp_server_start` bounds the listen queue only, not the clients connected
(`tcp.c:227`); an unknown subaddress is accepted (`server.c:199-204`); the server
answers `AsyncMaximumMessageSize` no more than `DataEnd`, so that `demo/client.c`
waits in `hs_set_maximum_message_size` (step `"sizing"` of `HislipSystem`) and
does not come to its command.

## 4. Fairness

- `SessionTable!FairSpec`: each thread inside a call is scheduled again (weak
  fairness per thread). Nothing is assumed about which waiter gets the mutex,
  which is why the property is that the mutex is released, not that every call
  returns.
- `ConnectionDispatch!FairSpec`: the main thread and each connection thread keep
  being scheduled. Nothing is asked of clients.
- `ClientCalls!FairSpec`: the steps of a call under way, an answer of the server
  that has come well or badly included, are taken. Timeouts and ended streams
  (`NoAnswer`) may happen instead but are not obliged to, and `CallsReturn`
  excepts the calls that meet them, because after them the code does not return
  or works on descriptors that are no longer its own.
- `SyncSend!Spec`: a thread in `hs_sync_send` is scheduled and `select` finds the
  socket writable or times out. A write may fail every time it is allowed to;
  `FittingReturns` excepts the calls one of whose writes has failed or been cut
  short.
- `MessageStream!Spec`: the reader is scheduled and reads what has come, in pieces
  of any size. The sender need not send or close; `StreamEnds` asks for its end.
- `HislipSystem!SystemSpec`: connection threads and clients proceed. The
  application is not obliged to register or run a server.

Strong fairness is assumed nowhere.

## 5. Proofs

`SessionTableProofs` proves, for every set of threads, every table size and
every width of the counter (`TableAssumption`: sizes are positive and
`NoThread` is no thread):

- `TypeCorrect`: `Spec => []TypeOK`;
- `IInvHolds`: the inductive invariant `TableInv /\ OwnInv`;
- `HandlesExclusive`: `Spec => []ExclusiveHandles`;
- `TableAccounted`: `Spec => []AllocatedIffOwned`;
- `PoolRefined`: `Spec => RefinesPool`, the safety part of the claim that
  `session.c` implements `SessionPool`;
- `OwnersRefined`: `Spec => RefinesOwners`, that it implements `SessionOwners`
  for applications that free only what they hold.

The argument. `ExclusiveHandles` alone is not inductive: nothing in it says that
the entry a thread is about to claim is free. `MutexInv` says that a thread is
between lock and unlock exactly if it holds the mutex, so that at most one is;
from it `ScanInv` follows: what a scan has passed is allocated, the entry to be
claimed is free and the one to be released allocated, since no other thread can
have changed the table meanwhile. With `AllocatedIffOwned` a free entry has no
owner, so `ClaimEntry` adds an owner to an entry that has none, `Release` takes
the only owner away, and all other steps leave table and owners alone (lemma
`OwnersKept`). `CallInv` says that a thread does not hold the handle it is
passing in or out twice. The refinement uses `ScanInv` again: the entry claimed
is the lowest free one, and a scan that reached the end has seen a full table.
The step that takes effect is the one that assigns `ret`; all others stutter.
For `SessionOwners` the steps that take effect are `ClaimEntry` and `Release`,
by the same `ScanInv` and the lemmas that say whose the entry then is.

In each of the modules below `IInvHolds` (`SystemIInvHolds`) is the inductive
invariant, from which the other theorems follow. Each is proved for every value
of the constants its assumption allows (`DispatchAssumption`,
`ClientAssumption`, `SendAssumption`, `ServerAssumption`, `SystemAssumption`):
the assumptions give the constants their types and say that sizes are positive;
`SendAssumption` adds that the longest call fits the word size,
`SystemAssumption` that the messages the clients write are among `Messages` and
that a connection may carry the two messages a client writes on it.

`ConnectionDispatchProofs`: `TypeCorrect`, `ConnectionOwned` (`OwnConnection`),
`NoneOrphaned`, `OlderNeverServed`, `LatestIsServed`. The properties speak of the
connection behind a thread's descriptor, and a step that changes them is taken by
the accept loop two statements earlier. `TableInv` says that a connection is
behind one descriptor at most; `HandInv` what `client_socket` and then `sd`
hold between accept and the creation of the thread; `LatestInv` that `sd` keeps
that until the next accept, and that the last thread has read it. `OlderInv`
extends `NeverOlder` to threads that have yet to read `sd`. `SpacedInv` does the
same for `OwnConnection` under `spaced`, where at most one thread is to begin,
and adds that a thread that is done has closed its connection.
`ServiceRefined` is `Spec => RefinesService`. Closing one descriptor loses its
connection for all threads that have the number, and for nobody else, because a
connection is behind one descriptor (`TableInv`); a thread starts with no older
connection than its own by `OlderInv`, with its own by `SpacedInv`. What was
missing is why a thread closes: `HeardInv` says that it has a message in hand
exactly while it processes it, and that when connections are spaced, one has been
read from its client, or the client has left, by the time it closes.

`ClientCallsProofs`: `TypeCorrect`, `OwnDescriptors` (`DescriptorsOwn`),
`AsyncKept` (`AsyncNeverLeaks`), `SessionsAccounted` (`SessionsInUse`),
`SyncLeaksCounted` (`SyncLeakAccount`). `ThreadInv` says what a thread's
variables and its session say of each other at each step (above all that both
name the same descriptors, so that what `hs_connect` opened is what
`hs_disconnect` closes), `UseInv` that a session in use belongs to one thread.
Other threads are kept out by two facts about any step of thread `t`: `Frame`
(the sessions and variables of others are untouched) and `Hands` (a descriptor
changes hands by being closed, by its thread as long as no stream has ended, or
by being opened from free); lemma `OthersKept` draws the conclusion once for all
actions. `LeakInv` keeps `SyncLeakAccount` for each thread. By `Frame` and
`Hands` a step of one thread neither leaks nor closes what is another's; in a
step of its own the sync channel it has in hand (`Remembered`) becomes a
device's or is closed, or an `Initialize` exchange fails, which forgets the
descriptor and is counted in the same step. `OwnersRefined`: a thread owns the
session of its device from the first step of `hs_connect` until `session_free`;
`UseInv` makes the session claimed free and the one freed its own, and by `Frame`
nothing else moves.

`SyncSendProofs`: `TypeCorrect`, `FittingSent` (`FittingSentOnce`),
`ReturnedEnds` (`ReturnedEndsIffFits`). The lemmas about division and wrapping
(`RoomPositive`, `BytesBounded`, `FittingBytes`, `Wraps`) say how many bytes a
call sets out to send. `StartInv` carries this number, with one more for each
failed write, to the first message; `FitInv` says that a command that fits is
still before its first message as long as it is being sent.

`ServerProcessProofs`: `OwnersRefined`, `TypeCorrect`, `IdsToldOnce` (`SessionIdsUnique`),
`ServerStaysUp` (`StaysUp`), `SessionsAccounted` (`SessionAccount`),
`RepliesInOrder` (`RepliesFollowRequests`).
Uniqueness of the ids told needs those about to be told: `PendingInv` says that a
session between `session_new` and the response is claimed, its thread's alone and
told to nobody, `ToldInv` that ids told are claimed, so that a fresh claim is
neither. `PayloadInv` says that the payload pointer is NULL only while nothing
with a payload has come, which is why only a first message can end the server.
`SessionAccount` counts: `AccountInv` adds that the sets counted are finite, even
with infinitely many connections, since each step adds one element at most; a
claim adds a session and a connection that holds one, a response moves that
connection from the second summand into the first. `RepliesFollowRequests` gives
each answerable request of a connection its place among those before it.
`RepliesInv` says that there are as many responses as such requests, or one less
if the thread has ended over writing the last;
`SetupInv` says that nothing has been handled while subaddresses are being
registered, so that which requests have an answer never changes afterwards.
For `OwnersRefined` a connection owns what it has in hand between `NewSession`
and the response and what its client has been told, so that the response moves a
session from the first to the second and leaves the owners alone.

`MessageStreamProofs`: `TypeCorrect`, `TakenOnce` (`TakenInOrder`), `SizesKept`
(`WithinMaximum`), `LengthsInNetworkOrder` (`NetworkOrder`), from
`WireAssumption` and `StreamAssumption` (a header, and the failed reads of a run
counted on top of it, fit an `int`).
The first part is arithmetic on digits: a half is the value of its four bytes
and four bytes are those of their value (`BytesOfHalf`, `HalfOfBytes`), so that
`htonl` reverses them and undoes itself, and `ntohll(htonll(x)) = x`
(`RoundTrip`). `TakenInOrder` says nothing of where in the stream the reader is.
`PlaceInv` does: in step, it stands before a header at the start of a message or
at the end of what has been written, and within a payload the bytes left are
those up to the end of its message. `SentInv` says that the messages lie one
behind the other, so that reading message `i` to its end adds `i`, larger than
all before, to what has been received (`ReceivedMoves`), and that the end of one
is the start of the next (`NextBoundary`). `Refusals` shows that the unsigned
comparisons of the code refuse what plain numbers do, for which the server's size
must not be below a header's: `hs_server_init` checks it. `Narrowing` says that a
length that fits an `int` is not changed by becoming one; a reader that meets
another, or a message that was not written to its end, is out of step by
definition (`Passes`), and all that is claimed of it is `WithinMaximum`.
`QueueRefined` (`Spec => RefinesQueue`) needs nothing more. A message is taken
when its header is complete if it has no payload, and when its payload is if it
has one. By `PlaceInv` a reader in step stands behind the last message it is done
with, so the message it meets there is the one due (`DueNext`), and at the end of
the stream none is left. What an earlier message was to the reader does not
change with what is sent later (`QueueStays`, `StepRemains`), and a reader out of
place may take anything (`Strays`).

`HislipSystemProofs`: `SystemTypeCorrect`, `ServerImplemented` (`SystemSpec =>
ServerSpec`: these clients are clients of `ServerProcess`), `PairedSessions`,
`ServerNeverDown` (`ServerSurvives`), `FullWhenFailed` (`FailsOnlyWhenFull`),
`ServiceRefined` (`SystemSpec => RefinesService`), `NobodyStranded`
(`NeverStranded`). On top of the invariant of `ServerProcess`, `WireInv` says that a connection has
received no more messages than its client has written, each of which is what the
protocol asks for, and only messages that are ignored once it has been answered;
`StepInv` that a client that has gone beyond a step has read the response.
Together they give the bound of `Send`, hence `ServerImplemented`: a client
writes again only after reading an answer to all it wrote before. `DoneInv` says
that a thread leaves an open connection only when the table is full, `ClosedInv`
that a client leaves only after being answered (so no response meets a broken
pipe); these two give `FullWhenFailed` and `ServerNeverDown`.

`ServiceRefined` looks at the system as a whole: the server's claim is a step of
the service (`ClaimIsGrant`), its response is not, and the client's steps move
its call along (`Courses`). A client's session is the one its first connection
owns on the server (`SessionBar`), so the invariant of `ServerProcess` speaks of
the clients' sessions. `ServiceInv` adds what that invariant does not say of
failures: a client whose second exchange fails has seen the server go down, one
that was refused was refused on its first connection, and no connection but
these first ones owns a session, so that "all sessions are given away" on the
server is the same as among the clients (`UsedIsAllocated`).

`NeverStranded` is the part of `ConnectReturns` that a proof can reach: a client
in `hs_connect` that waits for a response has a request on its way, in a thread's
hands, or the response (or the end of the stream) to read; it never waits while
the thread waits too. `HandshakeInv` makes it inductive by saying which of these
it is: the connection has carried one request, of the expected type, and the
thread has it before it, in hand, has answered it with the type that the client
wants, or has left. That the step is then taken is fairness, and with TLC.

Only model-checked:

- every liveness property (`MutexReleased`, `HangUpEnds`, `MessagesRead`,
  `ArrivalServed`, `CallsReturn`, `FittingReturns`, `EachTaken`, `StreamEnds`,
  `ConnectReturns`), which is outside what the installed provers can do.

All other properties of passing runs, the eight refinements included, are also
proved.

Proved and not run: seven invariants that say part of what a refinement on a run
says, in words that are worth having as theorems: `AllocatedIffOwned` (see
`RefinesPool` and `RefinesOwners`), `SessionIdsUnique` and `SessionsInUse` (see
`RefinesOwners`), `NeverOlder` (see `ConnectionService!Start` and `!Accept`),
`SessionsPaired`, `ServerSurvives` and `FailsOnlyWhenFull` (see
`HislipService!Grant`, `!GoDown` and `!Fail`).

## 6. Not modelled

- `socket`, `bind`, `listen` failures of the server: the process exits before
  anything else runs.
- Out-of-memory in `msg_create` (its result is never looked at) and in the two
  read loops: `msg_receive` then returns -1 (`message.c:215-220`), `hs_process`
  drops the message and is left with a NULL `payload` (`server.c:144-149`), in
  both cases with the payload still in the stream, as after a refused one. Sizes
  given to `malloc` that wrap (`message.c:121`, 215), for lengths next to 2^64.
- In `HislipSystem`, connections that race and an `accept` that fails
  (`ConnectionDispatch` has both).
- A process that is killed by SIGPIPE over a write of its client side; on the
  server side it is `BrokenPipe`.
- The payload bytes: `hs_sync_receive` drops the payloads of `Data` messages
  before the `DataEnd` (`client.c:268-282`), which the server never sends.
- A limit on clients served at once: there is none in the code (`tcp.c:227-228`).
- A response the server cannot write because the client does not read for the
  two seconds of `message_timeout`: `output` is what the socket has taken, and
  the responses of the bounded runs fit its buffer.
- `hs_sync_send_receive`: `hs_sync_send` followed by `hs_sync_receive`, both
  results dropped.
- Error texts, debug output, headers without code, build files, `man` pages.

## 7. Plan

Done: every module above, with the proofs of all their safety properties; each
module with a state of its own but `SyncSend` implements an abstract
specification, and `SessionOwners` is the same one on both sides of the session
table.

Left: the case of long commands in `HislipSystem`, for which the server would
have to answer more than `Data`; for `SyncSend`, an abstract specification of a
call that sends each command once, which only commands that fit would keep to; and
the safety parts of the other liveness properties, in the way `NeverStranded` is
one of `ConnectReturns`.
