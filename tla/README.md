# yijian: a TLA+ model of the instant-messaging server

The repository is a chat server (`src/imserver.cxx`, `src/yijian/`): one libev
event loop that owns the connections, a thread pool that runs the message
handlers, and a mongo database the handlers write to. This directory models the
server in TLA+, checks it with TLC and proves part of it with TLAPS.

## The system

| Part | State | Operations | Talks to |
|---|---|---|---|
| Handler thread pool, `threads_work.{h,cxx}` | a job queue, a wake-up flag and a list of connections to write per thread, one flag for the submitter | `sentWork`, `thread_func`, `pushPingnode`, `foreachio` | called by the event loop, runs handlers |
| Event loop and connection registry, `libev_server.{h,cxx}` | `Read_IO`/`Write_IO` per socket, the ping list, the map from device uuid to connection, the write queues | accept, read, write, async and timer callbacks | jobs to the pool, `ev_async_send` back, sockets |
| Session check and dispatch, `typemap.cxx`, end of `server_msg_typemap.cxx` | the session id of a connection, `connectInfo_` of the thread | `missing_check`, `dispatch` | handlers |
| Login, connect, disconnect, logout, `server_msg_typemap.cxx`, `mongo.cxx` | `connectInfo` documents, `devices` of a user | one handler each, `findUUID`, `insertUUID`, `updateUUID`, `updateSessionID` | mongo, the connection |
| Friend request, same files | `addFriend`, `messageNode`, `messageNodeCount`, `nodeMessage`, `user`, `userUnread` | `addFriend`, `addFriendAuthorize`, `queryAddfriendInfo` | mongo, several writes per handler |
| Conversation messages, same files | `messageNodeCount`, `nodeMessage`, `userUnread` | `NodeMessage`, `QueryMessage`, `QueryOneMessage`, unread report at connect | mongo, notifications |
| Message framing, `buffer_yi.*` | one buffer per frame | split, length code, parser, writer | sockets |
| Peer servers, `libev_server.cxx` | list of peer connections | `serverconnect`, `serverdisconnect`, forwarding | other servers |
| Register, profiles, versions, same files | `user` documents and their `version`; the copies devices keep | `Register`, `SetUserProperty`, `QueryUser`, `QueryUserVersion`, the friend lists | mongo, devices |
| Groups | `messageNode` | `CreateGroup`, `GroupAddMember` | mongo |
| Media | `media` | `Media`, `QueryMedia`, one database call each | mongo |
| Client library, `net_yi.*`, `lib_client.*`, and client database, `kvdb.*` | callback map, session id, leveldb cache | send, receive, store | the server |

What is hard in it:

* the loop and the pool thread share connections: a job may finish after its
  connection was given up, replaced or timed out;
* a `Read_IO` lives as long as some list, map, queue or job refers to it;
* the pool's hand-over uses two boolean flags and an unlocked test of a queue;
* one handler is a chain of database writes without a transaction, and several
  servers may work on one database;
* a login spans two documents, and `clientconnect` ends the process if they
  disagree (`users().at`);
* devices keep copies of documents and ask for versions to see whether they are old;
* the session id is counted at both ends and wraps while messages are in flight.

What makes each part correct: the pool runs every job once, in order, and never
stops the loop; the registry releases connections that ended, but for one case, and sends
notifications to the right one; a connected client's requests pass the session
check; what a handler recorded or answered is true after a crash at any point;
message ids are unique and notifications name stored messages; a login a device was
told of stays good, and a version of a user document names one state of its profile and
friends.

## Modules

`JobQueue` is the abstract specification of the pool: a queue, a running job and
the sequence of finished jobs.

`WorkPool` models `sentWork` and `thread_func`, one step per critical section.
`q`, `isWait` and `poolIsWait` are `q_workfun_`, `Thread_Data::c_isWait_` and
`noti_threads::c_isWait_`; `wpc` and `spc` say where each thread and the caller
are. A thread inside `condition_variable::wait` is "asleep" and moves on a
notification or a spurious wake-up. Undefined behaviour is a choice: the
constructor never sets the pool's own flag, so it starts with either value; the
selection loop compares with a queue whose mutex it has released; the drain loop
calls `empty()` without the mutex and may miss a push that nothing orders before
the call.

`ImServer` is the connection layer. A step is one callback of the loop or one
job of the pool thread; jobs run one at a time in order, which is what
`WorkPool` shows for the one thread the server creates (`libev_server.cxx:485`).
`io`, `age`, `pinglist`, `uuidmap` and `wq` are the fields of `Read_IO`, the time
since `ping_time`, `pinglist_`, `uuidnode_map_` and `buffers_p`; `nodes` is
`v_pingnode_sp_`; `rows`, `devices` and `local` are the `connectInfo` documents,
the device arrays and the thread's static `connectInfo_`. `Alive` is the
reference count. Clients are part of the environment: they send unchecked types
with id 0, number the checked ones from the id in their `clientconnectres` and wrap at
`MaxSessionID`. That is an assumption: the client library of this repository counts on
(`lib_client.cxx:319`). A database that fails after a handler has mounted its success
answer is left out (`devices` in `Login`, `unreadNodes` in `ClientConnect`); see below.
`Restart` keeps the documents only; `Init` has what earlier runs left, a login cut
between its two writes included. The pool's capacity is `MaxJobs`; when it is
full the read callback is not taken, where the code blocks the whole loop.

`Lifetime` adds to `ImServer` one history variable: the nodes that were registered in the
uuid map after they had been given up.

`Friends` runs `addFriend` and `addFriendAuthorize` write by write. A worker is a
pool thread of some server over the same database. `Fail` is a write that throws
(before or after it took effect), `Crash` the end of the worker's server. The
statuses of the request are the code's own progress record. Users may send messages to
the new node before its count is raised; those messages are not in this module.

`Conversation` does the same for `NodeMessage`, with `QueryMessage` and the unread
report of `ClientConnect` as single database operations. Nodes are those
`addFriend` creates. Their documents have `memebers` where `queryNode` reads
`members` and `version`, so the group branch of `NodeMessage` always throws.

`MessageService` is what `Conversation` promises, without counters, workers or
databases: a request is open, is stored once under an id above all those
acknowledged before it came, is acknowledged, and users are told of acknowledged ids.
`ServiceSpec` in `Conversation` is this specification under the mapping in which
`open` is the set of workers past their first step, `stored` the message documents,
`promised` and `told` the answers and marks users have seen. A crash or a failure
maps to `End`, which undoes nothing.

`Accounts` runs register, login, connect, disconnect, the property writes and the
queries over user and `connectInfo` documents, one database operation at a time, on
the pool thread of one server, against devices that keep what they were told.
`account`, `row` and `local` are the user documents, the `connectInfo` documents and
`connectInfo_`; `known`, `copy` and `heard` are the logins, documents and versions a
device has been told. `Throw` is any operation failing, `Crash` the server stopping
between two of them, `Reconnect` a connection ending with answers on their way. The
session ids and flags of the same documents are in `ImServer`.

`NetYi` is the client: application threads in `put_map_send`, one lock, one read and
one write of `read_io_->sessionid`, one queue and one map operation at a time,
against the loop thread in `call_map` and its three watchers. `cbmap`, `mutex`, `out`
are `sessionid_cbfunc_map_`, its mutex and `buffers_p`; `ran` and `stopped` are
history. The callback chooses what to call next and whether to stop. At the other end
are the loop and one worker of the server, as far as session ids go: `ServerRead` gives a
frame the id it expects, `Dispatch` refuses a frame with another one and mounts every
answer, refusals included, under the expected id, whatever id the request had
(`server_msg_typemap.cxx:103-110`). `nodesid` is the node's id. `isConnect` needs no
variable: an id of 100 or more is expected only after the `clientconnectres` was mounted,
and a frame that has such an id is sent after it was written (while fewer than 100 frames
are sent before it, which the bound on calls stands for), so no frame is refused with
11011. The loop's step on the node's id and the worker's are one step each. `FirstSid`
stands for 100. `pending` and `across` are history: whether something was sent before a
connect, or between it and its `clientconnectres`. A program of this commit that logs in
and then connects is such a program, because the library counts ids for every
frame. At this commit the library and the server disagree on the signature of
`set_sessionid`, so the client of `ImServer` is not this one.

`Frames` is what `ImServer` takes as one step: a message as frames. The sizes of
pieces, the length code and what the parser needs to finish a frame are operators;
`vec` is `buffer_sp_v`, `bufs` the buffer objects with their last flag and
`remain_data_length_`, `wq` the write queues with indices into `bufs`, so that two
queues may hold one buffer. `mutex` is the `buffers_p_mutex` the pool thread holds
between pushing the frames of a message and marking the last. A byte nothing was
read into is a choice (`garbage`). Every frame is one TLS record, because it is
written by one `SSL_write`, and `SSL_read` returns bytes of one record: that is
OpenSSL's side. `WriteFails` is an `SSL_write` that fails, `WANT_WRITE` on a full socket
included: `socket_write` throws and the callback gives the node up with its queue as it
was. `served` is the node's place in the ping list and the uuid map; a
node that lost it may still be written to while something refers to it, which
`ImServer` decides and this module leaves open. A client that leaves is in `ImServer`.

`KvDb` is the client database: the application's thread in `put_map_send` and its
variants, step by step, against the loop thread in `dispatch`, which sends a query
itself for a notification. `cbmap` and `mmap` are the two callback maps, `temp`
and `msgs` the keys of messages in leveldb, which a restart keeps. `Restart` is the end of the
process, by an exception or not. `kvdb.cxx` is not built at this commit and expects a
server that answers a query with the messages themselves; `Serve` is that server.

`RoomToCall` and `RoomToStore` only say again what the bounds on calls and
notifications imply, for the ranges of the counters.

`MC*` modules and `.cfg` files are the TLC instances; the `*_proofs` modules hold the
theorems about the module they are named for. Definitions marked "Fault" in the modules are plausible errors; each
property is shown to notice one (`mutants` in `PROJECT.json`).

## Runs

| Run | Instance | Checks |
|---|---|---|
| `serial` | 1 thread, capacity 2, 5 jobs | `SerialSpec`: the pool implements `JobQueue`, fairness included; `PopFindsJob`; `SentWorkReturns` |
| `two` | 2 threads, capacity 1, 4 jobs | `ThreadWakeup`, `SubmitWakeup`, `ExactlyOnce`, `EveryJobRuns`, `TypeOK` |
| `session` | 1 connection, 4 messages of all types, a failing write, a restart, documents of a login cut short | `InStep`: a client that follows the rules is never out of step with the session check; `TypeOK` |
| `connections` | 2 connections, 2 devices, 1 user, a failing document write | `PingSorted`, `MappedOwnDevice`, `OwnDocument` |
| `live` | 2 connections of 1 device that connect twice, leave or vanish, fair scheduling | `ConnectSettles`, `Released` |
| `accounts` | 2 users, 2 devices, 5 requests, a fault and a crash | `LoginStands`, `VersionNamesState`, `NeverBack`, `TypeOK` |
| `workers` | 2 users, 2 workers, 2 nodes, a fault and a crash | `StatusIsTrue`, `OneConversation`, `AnswersHold`, `TypeOK` |
| `messages` | 2 users, 2 workers, 3 messages, a fault and a crash | `ServiceSpec`: several servers over one database implement `MessageService`; `UnreadCovers`, `TypeOK` |
| `calls` | 1 application thread and the loop thread, 3 calls, 2 answers to a query | `OwnAnswer`, `InStep`, `StopIsFinal`, `EveryRequestCalled`, `TypeOK` |
| `frames` | 3 devices, buffers of 8 bytes, requests of 0, 3, 4 and 5 bytes, 2 requests, a failing write | `WholeRequests`, `Framed`, `DropHasCause`, `EveryRequestAnswered`, `TypeOK` |
| `kvdb` | 3 calls, a notification and its query, 2 answers to a query, a restart | `CacheTrue`, `KeptOnce`, `OwnAnswer`, `TypeOK` |
| `notified` | 3 devices, 1 request | `EachDeviceNotified`, which the code contradicts |

**Bounds.** Capacity 1 and 2 make queues full after one or two jobs; more jobs
than capacity plus threads force the full-queue wait, and `WorkPool_proofs`
removes the bounds. In `Frames` a buffer of 8 bytes has room for 3 bytes of data,
and a byte of the length code counts to 3 instead of 128: sizes 0, 3, 4 and 5 are
an empty message, a frame that is just full, a second frame of one byte and one of
two. Its three connections are a sender and two devices that share its notification.
Ids 2..4 make the wrap happen after three messages. Two
connections are an old and a new one of a device, or one of each of two devices, the
cases the registry properties turn on. In `live` a client connects twice, so that its
second connect meets a write watcher that is about to stop, and its answer a node that was
given up in between: without the exception for such a node `Released` fails.
One connection is enough for `InStep`: a
connection's session id is touched by its own callbacks and jobs only. The refusal
of a connection over the limit and two users on one device are not reached in these
runs; the second is in `Accounts`. There, a device that was logged in as one user
before and a new one, five requests (two logins, a connection and two requests on it),
one fault and one crash cut every chain at every point. Five requests also bring two devices
to copies of one version told with different lists of devices; that both are of a version the
document has left would take a sixth, and is proved. `Accounts_proofs` removes the
bounds. It has one server, because two servers that read, change and write one
`connectInfo` document lose each other's entries (below). Two workers and one fault and
crash each put a second chain and a cut at every point of a chain. `ImServer` has at most
two devices because one buffer object shared by several recipients is `Frames`' subject. In `KvDb` three calls are one before a restart
and two after it, a message and the query that reads it back, say; two were too few
to show what a key left from before the restart does to the database (below). In
`NetYi` two calls are a request and its competitor, the third comes after the
`clientconnectres` or is sent across it; one application thread and the callbacks of the loop are the
two callers the mutex separates.

**Fairness.** Weak fairness of the loop's steps and of each thread in
`WorkPool`: the threads are scheduled, every job returns, and mutexes are
released. In `ImServer`: libev calls a ready watcher, the timer repeats, the pool
runs its jobs (`EveryJobRuns`), time passes and the network delivers or closes.
In `NetYi`: the loop takes its ready watchers, a thread that began a put goes on, a
callback returns, and the server reads and answers. In `Frames`: libev calls a ready watcher
of a node that is still served, and the pool thread goes on with its job; a write that can
go on is not obliged to succeed first, so `EveryRequestAnswered` excepts a failed one.
Nothing is assumed of clients, faults or spurious wake-ups.

Deadlock is checked in the runs of `WorkPool`, whose threads always have a spurious wake-up
left. The other `.cfg` files have `CHECK_DEADLOCK FALSE`: with the bounded number of
messages, calls and connections used up the system is idle.

### What the violation shows

`notified`: a notification for the devices of a user is one vector of buffers,
pushed on every queue. The first device written to takes `remain_data_length_` of
each buffer to 0, and `makeReWrite`, which would set it again, is never called. For
the next device `SSL_write` is asked for no bytes, fails, and the write callback
drops the node. The comment at `server_msg_typemap.cxx:166-167` promises the
notification to all of them; it heads the `mountBuffer2Node` of a `NodeSpecifiy`, and the
one of a `NodeUser` next to it, which notifications use, has the same body.
`DropHasCause` and `EveryRequestAnswered` name the case
as an exception and show that nothing else of this kind happens.

### Seen while modelling, without a run

* A node given up after a read error can come back: a connect job still queued
  answers later and `uuidnode_put` registers the node again
  (`libev_server.cxx:809`). It is in no ping list and is not read, so it stays. It
  takes a write watcher that is still started, from an earlier answer, to write the
  `clientconnectres` while the node is referred to. `Released` states the exception.
* When the report of unread messages fails after a `clientconnectres` was mounted
  (`server_msg_typemap.cxx:459`), a second one, of an error, follows it. A client that has
  begun to connect again by then takes it for the answer to that. The same happens to a
  login whose `devices()` fails for the notification (`:322`).
* The frames `serverconnect` and `serverdisconnect` would move a node from the ping list to
  the list of peers and back out of it (`libev_server.cxx:682-697`); nothing in the repository
  sends them.
* A frame sent across a `clientconnectres` gets an id the server does not expect. It is
  refused under the expected one, which may be the key of another call: that call is told
  the error, and if it stops, its own answer finds nobody. `OwnAnswer` shows that nothing but
  an error goes astray; `InStep` and `EveryRequestCalled` except the programs that do this.
* A write to a full socket gives the connection up (`buffer_yi.cxx:383-387`,
  `libev_server.cxx:844`), whatever the frame: `SSL_write` asks to be called again and the
  code takes that for an error.
* `uuidnode_delete` erases by uuid (`libev_server.cxx:757`, `:109`, `:795`): when a
  device has reconnected, the end of its old connection removes the new one from
  the map, and the device gets no notifications. The code that would have dropped
  the old node is commented out (`libev_server.cxx:811`).
* `netyi::call_map` erases through an iterator it took before the callback ran
  (`net_yi.cxx:140`). A login made from the callback of a signup, or by a thread that
  callback woke, has put its own callback in the same element: it is erased without
  having been called, and the login's answer finds nobody.
* A frame of no data or of one byte is never finished by the parser, which goes on
  to read the data it already has (`buffer_yi.cxx:142`); the client's next record
  closes the connection. A message whose size is 1 more than a multiple of 1019
  ends in such a frame. A continuation frame shorter than 128 bytes that begins
  with a byte above 127 is parsed by a byte nothing was read into
  (`buffer_yi.cxx:93`). `EveryRequestAnswered` excepts these (`Unreadable`).
* `kvdb` puts a callback after the frame was sent: an answer read in between is
  dropped and the callback stays in the map. For a message the answer then finds no
  temporary key and the exception ends the process (`kvdb.cxx:1141`).
* `kvdb::error` looks for the callback of every call in one map: the error to a
  query, to a logout or to a login is told to nobody.
* `kvdb` keeps no lock over `client_send`, and the loop thread sends queries too: two
  frames may get one id or leave out of order, and the server refuses all that
  follows. The properties of `KvDb` except this (`overlap`).
* The temporary key of a message whose answer was an error, or never came, is never
  deleted or sent again. If the server did not get the message, the next connection
  begins with its session id (after a new login ids begin again at 100): an answer
  that comes before the next message has its own key takes the old one for it, stores
  the old text under the new id, and leaves the new message under a key nobody will
  delete. `CacheTrue` excepts old text, `KeptOnce` runs with such a key (`stale`).
* `kvdb::putMsg` refuses message id 0, which is the first message of every friend
  request: reading that message ends the client's process.
* The message with id `MaxSessionID` of a client that counts up to it is refused
  with 11010 (`libev_server.cxx:705`); `InStep` states the exception.
* Error 11010 names an id the node has already left (`server_msg_typemap.cxx:1350`).
* `CreateGroup` erases every member (nobody is in his own blacklist) and tests
  `<= 3`, so it refuses every group with "at least 3 people"
  (`server_msg_typemap.cxx:719-737`).
* A failed `clientconnectres` marks the node connected too (`libev_server.cxx:805-807`).
* Unread marks start at 1, message ids at 0 (`mongo.cxx:1151`): the first report to
  a returning user may name message 1 of a conversation that only holds message 0.
  `MessageService` states the exception (`x.id = 1`).
* `insertUnreadNode` swallows its failure and the request is recorded as finished
  (`mongo.cxx:1155`); `StatusIsTrue` counts one missing counter per failure.
* The client sets and advances its session id without a common lock
  (`lib_client.cxx:198`, `:319`): a request sent while the `clientconnectres` is read
  may put the old count back, and the server refuses all that follows.
* A write failure on a node without a uuid only refreshes its ping time.
* A device without a `connectInfo` document makes `findUUID` leave the document of
  an earlier job in `connectInfo_`; `OwnDocument` states the exception. If the user
  is not in that document, `users().at` ends the process (`AbortOnConnect`).
* A friend request cut by a crash stays as it is: a new one is refused with 40004,
  an authorization with 40009. `StatusIsTrue` says that what it made by halves is
  not recorded as finished. `queryAddfriendInfo` shows the newest requests up to a limit of
  10, or 50 at most (`mongo.cxx:622-624`), and refused requests are never closed, so an older
  one may be hidden from the users.
* Two servers authorizing one request may move its status backwards; the facts
  the status stands for stay true.
* An acknowledged message whose unread update threw is not in the mark:
  `UnreadCovers` allows one such message per failed update.
* `clientconnect` leaves the document's `userID` alone: after two users have logged in
  on a device, the `clientconnectres` names the last who logged in, whoever connected
  (`server_msg_typemap.cxx:442-452`).
* Two servers that update one `connectInfo` document read it and write it back whole
  (`mongo.cxx:1040`, `:1105`): an entry of `users` can be lost, and the user it was for
  ends the process at `users().at`. `Accounts` has one server for this reason.
* A device's copy of a user document is replaced by what another user of the device
  was told, with the friend list stripped and the same version: the version does not
  say that the list is missing. `VersionNamesState` compares the list of `own` copies only.
* Adding or changing a device in a user document does not move its version
  (`mongo.cxx:224-277`), and the user himself is told the list of devices
  (`server_msg_typemap.cxx:821-830`): two copies of one version may differ in it, so
  `VersionNamesState` is about the profile and the friends.
* `setUserProperty` parses a birthday with `std::stoi` (`mongo.cxx:373`), whose exception
  is none of those the handler catches.
* `QueryMedia` always answers an error, and a failure of `insertMedia` (40061) is answered
  as success.
* The map `dispatch` fills under `std::call_once` is static and the flag is not
  (`server_msg_typemap.cxx:1151`): each call fills it again, which only a pool of one
  thread makes safe.
* The notification of a login goes to the devices of the user the connection was
  connected as, which is nobody on a new connection.

## Proofs

`WorkPool_proofs`, from `PoolAssumption` only (at least one thread, capacity at
least one), for every number of threads, capacity and number of jobs:

* `TypeCorrect` and `PopSafe`. `PopFindsJob` alone is not inductive: that the
  queue is not empty at a pop follows from the test before it, and typing the
  popped job needs the queue to hold submitted jobs. The invariant is `TypeInv ==
  TypeOK /\ PopFindsJob /\ JobInHand`, where `JobInHand` says the selected job has
  been submitted.
* `NoLostThreadWakeup`. `ThreadWakeup` speaks of threads at their wait; a thread
  gets there from "notify", which it may enter on a stale `empty()`. `WakeInv`
  extends the claim to that state: queued work implies a flag set or about to be
  set.
* `NoLostSubmitWakeup`, on the same invariant: a full queue means its thread is
  busy or has a wake-up, and a busy thread passes "notify".
* `JobsInOrder`, the order of each thread, which `serial` checks for the one thread the
  server has and which is proved, not run, for more. `OrderInv` adds that the job in hand is newer than every queued
  or running one.
* `RunsOnce`. `Once` states `ExactlyOnce` place by place: a push moves the job in hand
  from nowhere to one place, a pop and a return move it on, and no other job moves.
* `PoolIsSerial`: with one thread, `Spec => Serial!SafeSpec`. The invariant
  `Accounted` says that finished, running, queued and in-hand jobs are the
  numbers submitted so far, so each pool step is a step of `JobQueue` or a stutter.

`Conversation_proofs`, from `ConversationAssumption` (conversations have members,
there are finitely many workers), for every number of users, conversations, workers,
messages, faults and restarts:

* `TypeCorrect`. `TypeOK` alone is not inductive: that an id stays below the bound on
  messages needs `Counted`, by which the counter of a conversation and the workers that
  are about to take a number are together at most the requests sent.
* `ServiceImplemented`: `Spec => ServiceSpec`. `InHand` says what a worker at each
  operation has already written (a number in hand is below the counter and above all
  acknowledged before its request; after the insert its message is the stored one),
  `OneWorker` that no two work on one request, `Backed` that marks and acknowledgements
  name stored messages. Each step is then one of the service or a stutter.
* `UnreadHolds`. `UnreadCovers` is not inductive: a worker that has passed its failed
  update is about to send the notification the mark lacks. `Owed` counts these
  notifications as sent, and shows one failed update for each that is not covered.

From `ServiceImplemented` alone, `ServiceKeepsItsWord` then shows `AckedOnce` and
`ToldIsStored` of the workers. That neither is inductive without `StoredOnce` is a fact about
the service: what is told rests on what was promised, and that on nothing being stored twice.

`Accounts_proofs`, from `AccountsAssumption` and `NoDocAssumption` (the null values are
not documents, sets of users or devices), for every number of users, devices, requests,
versions, faults and restarts: `TypeCorrect`, `LoginsStand`, `VersionsName` and
`NothingGoesBack`. Their one invariant follows what is told from the database to the
device: `LoginSoFar` is what the chain of a login has written at each operation,
`LocalCovers` says the thread's `connectInfo_` has every entry of the document it would
be written over, so no write loses a login; `Answers` says that each answer on its way
is true, is not below what its device has heard, and is in order with those behind it;
`Kept` says the same of what devices keep. `Agreement` compares answers on their way and
copies kept with one another, because two devices may keep a version the document has left:
what `VersionsName` says of two copies needs it. All of it survives a step because documents
only grow (`DocsGrow`, `RowsGrow`): a document changes under a higher version only.
`Answers` is needed because an answer can be read long after the document moved on.
That a request names a user with a document (`GoodRequest`, `GoodNodes`) is part of it:
without it a write of a property could be one of a document that is not there.

`Friends_proofs`, from `FriendsAssumption`, for every number of users, workers,
conversations, faults and restarts: `TypeCorrect`, `StatusTrue`, `OneConversationHolds` and
`AnswersStand`. The invariant says of each worker what its chain has already written
(`Hands`), that only the worker that inserted a request is in the chain that creates its
conversation (`OneAdder`), and that each entry of a friend list and each answer rests on a
`Settled` conversation: one whose request is past `createNode`. (The first part of
`StatusIsTrue`, that a friendship of one side has a request which is not recorded as
finished, rests on it.) What is settled stays so
under every write of any worker (`SettledStays`), which is why two workers may be in the
chain of an agreement at once. The count in `StatusIsTrue` is not inductive: a worker whose
counter was swallowed has yet to record `finish`. `Owed` also counts the users such a worker
has passed.

`ImServer_proofs`, from `ServerAssumption` and `RowAssumption` (the null values are not
connections, devices, users or documents; session ids have room between their bounds), for
every number of connections, users, messages, jobs, faults and restarts: `TypeCorrect`,
`PingInOrder`, `MappedOwn`, `OwnDocuments` and `RequestsInStep`. Their invariant `Inv` adds
to the types what each refers to another part for:

* `Typed` bounds the session ids of jobs by `MaxSessionID - 1`, and those of documents to
  `Stamp`: none, or `MinSessionID` and up to `MaxSessionID - 1`. The type
  invariant alone is not inductive: ClientConnect hands out the stored id plus one, which
  stays a session id only because the loop never gives `MaxSessionID` to a message.
* `Idle`: nothing refers to a socket that is not open yet. `socket_accept_callback` puts
  its node at the end of the ping list, and the list would hold it twice otherwise.
* `Linked`: a message in flight or in the pool names the device of its client, and a node
  stands for no device but its client's. A `clientconnectres` registers the device the
  node has when it is written, not the one it had when the job ran.
* `JobEffect` says once what any path through `dispatch` leaves alone.
* `OwnDocuments` adds `Keyed`: a document is kept under its own uuid, so `updateUUID` of
  what `findUUID` found writes the document it came from.
* `RequestsInStep` adds `Session`. `InStep` speaks of a client that is connected and is not
  inductive: the id of a connection is set by the job of its `clientconnect` and learnt by
  the client two steps later. `OneAsk` says there is one `clientconnect` on its way at most,
  be it as a message, a job or an answer, and nothing is left to read once it has
  been read, so no message is given an id of the old count and checked by the new one;
  `Start` that an answer that succeeds carries the node's id; `Chain` that the checked
  messages not yet read follow on from the node's id, also after the client has left or
  asked to connect again; `Phase` that messages sent before the first answer are not mixed
  with those sent after it; `Given` that the jobs hold the ids their messages name.
  `FollowsTail` and `FollowsAppend` say what reading and sending do to a run of ids.

`NetYi_proofs`, from `NetAssumption` (the threads are distinct, the ids of one run do not
wrap), for every set of threads and kinds of calls and every bound on calls, answers and
notifications: `TypeCorrect`, `OwnAnswers` and `StoppedForGood`, from one invariant `Inv`:

* `Tag` says that an id given out after the `clientconnectres` is tied to a call: by a put, by
  the map, by the loop's `call_map` or by a frame that is written, on its way, given to the
  worker or answered. `OwnAnswer` looks at the callback that runs and is not inductive;
  `IdsUnique`, by which such an id is tied to one call, is, with `IdsPast`: what is tied is
  below the id the next put will take. Ids from before may be given out twice, when a connect
  fails, and this is why an answer must not come under one.
* `ServerSids` is what the server adds: it answers a request, other than by an error, only if
  the frame has the id that was expected, and that is one given out after the
  `clientconnectres`. Without it the answer could be under the id of another call.
* `NextId` is that id. It is not `sessionid` while a thread is between reading it and
  writing it back: a `clientconnectres` read meanwhile is overwritten. `ConnectOnce` and
  `IdBound` say that the one `clientconnect` sets the id to the first one, when at most as
  many ids as calls were given out, all below it.
* `CalledOnce` says that a callback is in the map under one key, and that one which
  stopped is there only until the loop erases it, which `StoppedForGood` needs.

`KvDb_proofs`, from `KvDbAssumption` (bounds are numbers), for every choice of calls and
every number of calls, notifications, answers and restarts: `TypeCorrect`, `CacheIsTrue`,
`OwnAnswers` and `MessageKeptOnce`. The invariant has three layers, for what the code keeps
in any case, and what it keeps only while two rare things have not happened:

* `Base`: types, and counts which show that the ids of a process stay in their range. A
  frame, a callback and a temporary key are of a call of the kind that makes them.
* `Session`, while no two threads were in `client_send` at once (`overlap`, which the code
  does not exclude): frames are sent in the order of their ids (`Serial`); an id is tied
  to one call of this process (`TagsUnique`, `TagsPast`), as in `NetYi`; the
  acknowledgement of a message is ahead of every copy of it read from the server
  (`BackOrder`); the callback of a call is in its map, about to be put, or has run
  (`CallbackKept`); and the message a frame or a key stands for is the one the server stored
  (`Messages`). `CacheTrue` and `OwnAnswer` rest on this layer: a message moves
  from the key its answer names, so it is the right one only if no other call shares the key.
* `Clean`, while further no key of an earlier process can be met (`stale`): a fresh id finds
  no message under it (`FreshIds`, `OwnTemp`), a message the server stored is under the
  server's id or its answer is still to be read (`AllDelivered`), and one acknowledged is
  nowhere else (`AckedOnce`). `KeptOnce` follows; alone it says nothing of a message that is
  stored but not acknowledged, which every step of the answer turns on.

`Frames_proofs`, from `FrameAssumption` (buffers have room for the header and a byte of data,
two bytes of the length code are enough for the most data), for every capacity, base of the length code, size
of requests, answers and notifications, and number of connections and requests:
`TypeCorrect`, `WholeRequestsServed`, `FramedInOrder` and `DropsHaveCause`. The invariant
`Inv` has a part for each direction:

* `Reading`: what is in flight are frames of requests in the order they were sent, up to a
  last one; `buffer_sp_v` holds the first frames of one request, and while the node can read,
  the next frame in flight goes on with it (`GoesOn`). `WholeRequests` looks at jobs only:
  without `GoesOn` a last frame could complete the frames of another request.
* `Writing`: the line of a connection is what it was sent and then its queue, so a write leaves
  it alone and only a mount makes it longer. In it messages are whole and buffers in the order
  of their making (`LineInOrder`), what is still to be mounted is behind everything a
  connection has (`NotYet`), and an answer's buffers are one connection's (`OneOwner`). The
  flag of an answer that is pushed and not marked yet is held back by the mutex (`Marks`).
* `UsedWasWritten` and `Dropped`: a buffer with nothing left was written to some connection,
  and a node lost its place because it stalled, a write of its own failed, or it has such a
  buffer in front. Because buffers in a line are distinct, that connection is another one:
  `DropHasCause`.

`PiecesOfMessage` says what the loop of `yijianBuffer` does to a size, which is all the rest
uses of it.

Model-checked only: all liveness (the fairness part of `SerialSpec`, `SentWorkReturns`,
`EveryJobRuns`, `ConnectSettles`, `Released`, `EveryRequestCalled`,
`EveryRequestAnswered`), which the prover does not reach, `InStep` of `NetYi`, and that
`EachDeviceNotified` fails.

## Not modelled

* Peer servers: every call that connects to one is commented out
  (`libev_server.cxx:530`, `:558`), so a server never has a peer, and no frame
  `serverconnect` or `serverdisconnect` is ever sent.
* Groups: `CreateGroup` refuses every request (above), so none ever exists.
  `GroupAddMember` on a conversation of two moves the version of the node and then
  throws on an empty bulk write (`mongo.cxx:745-777`). `QueryNode` and
  `QueryNodeVersion` throw on every node `addFriend` made.
* Media: one insert that nothing reads back, because `queryMedia` always throws.
* Set-up and read errors of the client library (an error ends its process); login,
  connect, media transfer and friend request lists of the client database, which at
  this commit cannot log in and then connect to this server, because it counts the
  session id for every frame.
* TLS set-up, and the generated protobuf code: 44 670 of the 53 428 lines the
  repository counts as implementation are generated (`chat_message.pb.*`).
* A failure of `updateSessionID`, which is swallowed, is left out of `ImServer`.
  Accesses to `uuidnode_map_` by the pool thread are not locked in the code; the model
  takes each lookup as one step.

## Plan

1. Compose `Frames` with the registry of `ImServer`: which nodes a shared buffer
   drops, and whether a node that lost its place is still written to.
2. Login and connect of `kvdb` under their shared key, and its media transfer (which
   appends whole messages to a key it shares with `temp`), once it is built again.
3. Several servers in `Accounts`: what lost updates of a `connectInfo` document cost.
4. An abstract specification of the friend request chain.
