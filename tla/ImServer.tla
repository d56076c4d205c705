------------------------------ MODULE ImServer ------------------------------
(***************************************************************************)
(* The connection layer of imserver: the libev event loop                  *)
(* (yijian/libev_server.cxx), the pool thread that runs dispatch           *)
(* (yijian/server_msg_typemap.cxx) and the connectInfo documents they keep *)
(* in mongo (yijian/mongo.cxx).                                            *)
(*                                                                         *)
(* The event loop and the pool thread interleave: each event callback is   *)
(* one step of the loop, each job one step of the thread.  Jobs run one at *)
(* a time in submission order, which is what WorkPool shows of the pool    *)
(* with one thread.  A message is a type, a session id and the user and    *)
(* device it names; the bodies of the requests that only read or write     *)
(* other collections are left to other modules ("request", "ping").        *)
(*                                                                         *)
(* A Read_IO lives as long as a shared_ptr to it does: in the ping list,   *)
(* the uuid map, a queued job or the list of nodes to start writing.  Its  *)
(* deleter closes the socket, so "released" is a derived notion (Alive).   *)
(*                                                                         *)
(* Left out: the frames serverconnect and serverdisconnect, which no code  *)
(* of the repository sends, and a database that fails after a handler has  *)
(* mounted its success answer (devices in Login, unreadNodes in            *)
(* ClientConnect): the handler then mounts an error answer behind it.      *)
(***************************************************************************)
EXTENDS Naturals, Sequences, FiniteSets, SequencesExt

CONSTANTS
    Conn,            \* accepted sockets (Read_IO objects), used once each
    Device,          \* device uuids
    User,            \* user ids
    NoConn, NoDevice, NoUser, NoRow,
    MinSessionID, MaxSessionID,
    Garbage,         \* values an uninitialised sessionid may hold
    Stored,          \* session ids the database may hold at the start, 0: none
    ClientTypes,     \* message types the clients send
    Events,          \* what else may happen: "tick" (time passes), "close" and
                     \* "vanish" (a client leaves, with or without a FIN),
                     \* "writefail" (SSL_write fails), "badlogin",
                     \* "reconnect" (a connected client sends clientconnect)
    PingTimeout,     \* PINGPONGTIMEOUT
    MaxConnections,  \* sockets the server keeps open
    MaxJobs,         \* jobs the pool holds before the loop blocks
    MaxInFlight,     \* unanswered messages a client allows itself
    MaxSend,         \* bound: messages sent over a connection
    DbFaults,        \* bound: insertUUID and updateUUID calls that throw
    Crashes          \* bound: server restarts

\* A notification is one buffer object pushed to every device it is for; with
\* two devices the sender excluded there is one recipient.
ASSUME ServerAssumption ==
    /\ MinSessionID \in Nat /\ MaxSessionID \in Nat
    /\ 0 < MinSessionID /\ MinSessionID < MaxSessionID
    /\ Garbage \subseteq 0..MaxSessionID
    /\ Stored \subseteq {0} \cup MinSessionID..(MaxSessionID - 1)
    /\ PingTimeout \in Nat /\ MaxJobs \in Nat \ {0} /\ MaxInFlight \in Nat \ {0}
    /\ MaxConnections \in Nat /\ MaxSend \in Nat
    /\ DbFaults \in Nat /\ Crashes \in Nat
    /\ NoConn \notin Conn /\ NoDevice \notin Device /\ NoUser \notin User
    /\ Cardinality(Device) <= 2

VARIABLES
    io,        \* the fields of each Read_IO that the server uses
    age,       \* seconds since ping_time, capped above the timeout
    pinglist,  \* pinglist_, front first
    uuidmap,   \* uuidnode_map_
    wq,        \* Write_IO::buffers_p
    jobs,      \* jobs given to the pool, the running one first
    nodes,     \* v_pingnode_sp_: connections whose write watcher must start
    async,     \* ev_async_send is pending
    devices,   \* user documents: the devices array
    rows,      \* connectInfo documents by UUID
    local,     \* connectInfo_, the pool thread's static ConnectInfo
    cl,        \* the client at the other end of each connection
    sock,      \* bytes in flight to the server, as messages
    back,      \* bytes in flight to the client, as messages
    budget     \* what is left of DbFaults and Crashes

loopVars == <<io, age, pinglist, uuidmap>>
outVars == <<wq, nodes, async>>
dbVars == <<devices, rows, local>>
netVars == <<cl, sock, back>>
vars == <<loopVars, outVars, jobs, dbVars, netVars, budget>>

\* missing_check: the types whose session id is checked.  "early" stands for
\* any of them sent by a client that has not connected.
Checked == {"request", "logout", "clientdisconnect", "early"}
Unchecked == {"login", "clientconnect", "ping"}
Request == [type : Checked \cup Unchecked, sid : Nat, user : User,
            uuid : Device, ok : BOOLEAN]
Answer == {"res", "pong", "loginres", "logoutres", "clientconnectres",
           "clientdisconnectres", "error", "loginnoti"}
\* e is the error number the answer carries, 0 for none.
Response == [type : Answer, sid : Nat, e : Nat]

MissingCheck(type) == type \in Checked

Alive(c) ==
    \/ c \in ToSet(pinglist)
    \/ \E d \in Device : uuidmap[d] = c
    \/ \E i \in 1..Len(jobs) : jobs[i].conn = c
    \/ c \in nodes

\* A ConnectInfo; users[u] = 0 when u is not in its map of session ids.
Row == [uuid : Device \cup {NoDevice}, user : User \cup {NoUser},
        isLogin : BOOLEAN, isConnected : BOOLEAN,
        users : [User -> 0..MaxSessionID]]
ASSUME RowAssumption == NoRow \notin Row

EmptyInfo == [uuid |-> NoDevice, user |-> NoUser, isLogin |-> FALSE,
              isConnected |-> FALSE, users |-> [u \in User |-> 0]]

\* The id after s, for a client that keeps to MinSessionID..MaxSessionID.
Succ(s) == IF s = MaxSessionID THEN MinSessionID ELSE s + 1

FreshIO == [accepted |-> FALSE, reading |-> FALSE, writing |-> FALSE,
            isConnect |-> FALSE, sessionid |-> 0, user |-> NoUser,
            uuid |-> NoDevice]

Init ==
    /\ io = [c \in Conn |-> FreshIO]
    /\ age = [c \in Conn |-> 0]
    /\ pinglist = <<>>
    /\ uuidmap = [d \in Device |-> NoConn]
    /\ wq = [c \in Conn |-> <<>>]
    /\ jobs = <<>> /\ nodes = {} /\ async = FALSE
    \* What earlier runs of the server left: users with devices and documents,
    \* nothing, or devices of logins whose insertUUID threw.
    /\ \E s \in Stored, u \in User, half \in BOOLEAN :
          /\ half => s = 0 /\ DbFaults > 0
          /\ devices = [x \in User |-> IF s = 0 /\ ~half THEN {} ELSE Device]
          /\ rows = [d \in Device |->
                IF s = 0 THEN NoRow
                ELSE [uuid |-> d, user |-> u, isLogin |-> TRUE,
                      isConnected |-> FALSE, users |-> [x \in User |-> s]]]
    /\ local = EmptyInfo
    /\ cl = [c \in Conn |-> [st |-> "none", sid |-> 0, user |-> NoUser,
                             uuid |-> NoDevice, sent |-> 0, wait |-> 0]]
    /\ sock = [c \in Conn |-> <<>>]
    /\ back = [c \in Conn |-> <<>>]
    /\ budget = [faults |-> DbFaults, crashes |-> Crashes]

-----------------------------------------------------------------------------
(* The ping list and the uuid map.                                         *)

\* ping_erase: the place of the list that the node's iterator names.
Erase(list, c) ==
    IF c \in ToSet(list) THEN RemoveAt(list, CHOOSE i \in DOMAIN list : list[i] = c)
    ELSE list

\* Fault: the node's time is refreshed and the node stays where it is.
PingStays(list, c) == list

\* ping_move2back: only a node that is in the list goes to its end.
PingMove2Back(list, c) ==
    IF c \in ToSet(list) THEN Append(Erase(list, c), c) ELSE list

\* uuidnode_delete erases the key whatever connection it maps to.
UuidDelete(map, d) == [x \in Device |-> IF x = d THEN NoConn ELSE map[x]]

\* The n nodes pingtime_callback removes: it stops at the first one that has
\* not expired.
Expired(n) ==
    /\ \A i \in 1..n : age[pinglist[i]] > PingTimeout
    /\ n < Len(pinglist) => ~(age[pinglist[n + 1]] > PingTimeout)

\* Fault: the expired node is not taken out of the uuid map.
PingTimerKeepsUuid ==
    \E n \in 1..Len(pinglist) :
        /\ Expired(n)
        /\ pinglist' = SubSeq(pinglist, n + 1, Len(pinglist))
        /\ UNCHANGED <<io, age, uuidmap, outVars, jobs, dbVars, netVars, budget>>

PingTimer ==
    \E n \in 1..Len(pinglist) :
        /\ Expired(n)
        /\ pinglist' = SubSeq(pinglist, n + 1, Len(pinglist))
        /\ uuidmap' = [d \in Device |->
                         IF \E i \in 1..n : io[pinglist[i]].uuid = d THEN NoConn ELSE uuidmap[d]]
        /\ UNCHANGED <<io, age, outVars, jobs, dbVars, netVars, budget>>

\* A second passes.
Tick ==
    /\ "tick" \in Events
    /\ age' = [c \in Conn |-> IF age[c] > PingTimeout \/ c \notin ToSet(pinglist)
                              THEN age[c] ELSE age[c] + 1]
    /\ age' # age
    /\ UNCHANGED <<io, pinglist, uuidmap, outVars, jobs, dbVars, netVars, budget>>

-----------------------------------------------------------------------------
(* Event loop callbacks.                                                   *)

\* A client opens a socket and socket_accept_callback runs.  sessionid is the
\* one field that new Read_IO leaves uninitialised.
SocketAccept(c, u, d) ==
    /\ cl[c].st = "none"
    /\ IF Cardinality({x \in Conn : Alive(x)}) < MaxConnections
       THEN /\ \E g \in Garbage :
                  io' = [io EXCEPT ![c] = [FreshIO EXCEPT !.accepted = TRUE,
                                             !.reading = TRUE, !.sessionid = g]]
            /\ age' = [age EXCEPT ![c] = 0]
            /\ pinglist' = Append(pinglist, c)
            /\ cl' = [cl EXCEPT ![c] = [@ EXCEPT !.st = "open", !.user = u, !.uuid = d]]
       ELSE /\ cl' = [cl EXCEPT ![c].st = "closed"]
            /\ UNCHANGED <<io, age, pinglist>>
    /\ UNCHANGED <<uuidmap, outVars, jobs, dbVars, sock, back, budget>>

\* Fault: no return to MinSessionID.
TakeNoWrap(c, type) ==
    IF ~MissingCheck(type) THEN [sid |-> 0, next |-> io[c].sessionid]
    ELSE [sid |-> io[c].sessionid, next |-> io[c].sessionid + 1]

\* Fault: messages whose id is not checked use one up as well.
TakeAlways(c, type) ==
    [sid |-> IF MissingCheck(type) THEN io[c].sessionid ELSE 0,
     next |-> Succ(io[c].sessionid)]

\* The session id connection_read_callback gives the message it has read, and
\* what it leaves in the node: at MaxSessionID the node's id is set back to
\* MinSessionID, which is given out without being advanced.
TakeSessionID(c, type) ==
    IF ~MissingCheck(type) THEN [sid |-> 0, next |-> io[c].sessionid]
    ELSE IF io[c].sessionid = MaxSessionID
    THEN [sid |-> MinSessionID, next |-> MinSessionID]
    ELSE [sid |-> io[c].sessionid, next |-> io[c].sessionid + 1]

\* connection_read_callback with a complete message of a client.
ReadMessage(c) ==
    /\ io[c].reading /\ Alive(c)
    /\ sock[c] # <<>>
    /\ Len(jobs) < MaxJobs
    /\ LET m == Head(sock[c])
           t == TakeSessionID(c, m.type)
       IN /\ io' = [io EXCEPT ![c].sessionid = t.next]
          /\ jobs' = Append(jobs, [conn |-> c, msg |-> m, sid |-> t.sid])
    /\ sock' = [sock EXCEPT ![c] = Tail(@)]
    /\ UNCHANGED <<age, pinglist, uuidmap, outVars, dbVars, cl, back, budget>>

\* connection_read_callback when the client has closed the socket.
ReadError(c) ==
    /\ io[c].reading /\ Alive(c)
    /\ cl[c].st = "closed" /\ sock[c] = <<>>
    /\ io' = [io EXCEPT ![c].reading = FALSE]
    /\ pinglist' = Erase(pinglist, c)
    /\ uuidmap' = UuidDelete(uuidmap, io[c].uuid)
    /\ UNCHANGED <<age, outVars, jobs, dbVars, netVars, budget>>

\* start_write_callback.
StartWrite ==
    /\ async
    /\ async' = FALSE
    /\ nodes' = {}
    /\ io' = [c \in Conn |-> [io[c] EXCEPT !.writing = @ \/ c \in nodes]]
    /\ UNCHANGED <<age, pinglist, uuidmap, wq, jobs, dbVars, netVars, budget>>

\* uuidnode_put when the frame is a clientconnectres, successful or not.
Register(c, type) ==
    IF type = "clientconnectres"
    THEN [x \in Device |-> IF x = io[c].uuid THEN c ELSE uuidmap[x]]
    ELSE uuidmap

\* Fault: only the login answer marks the node connected.
MarkOnLogin(type) == type = "loginres"

MarksConnected(type) == type = "clientconnectres"

\* connection_write_callback with a frame to send.  Before the write it moves
\* the node to the back of the ping list, registers the device for any
\* clientconnectres, and drops the node for a clientdisconnectres; a write
\* that throws drops the node too and leaves the frame in the queue.
WriteFrame(c, written) ==
    /\ io[c].writing /\ Alive(c)
    /\ wq[c] # <<>>
    /\ ~written => "writefail" \in Events
    /\ LET m == Head(wq[c])
           d == io[c].uuid
           drop == (m.type = "clientdisconnectres" \/ ~written) /\ d # NoDevice
           put == Register(c, m.type)
           moved == PingMove2Back(pinglist, c)
       IN /\ io' = [io EXCEPT ![c].isConnect = @ \/ MarksConnected(m.type)]
          /\ age' = [age EXCEPT ![c] = IF c \in ToSet(pinglist) THEN 0 ELSE @]
          /\ uuidmap' = IF drop THEN UuidDelete(put, d) ELSE put
          /\ pinglist' = IF drop THEN Erase(moved, c) ELSE moved
          /\ IF written
             THEN /\ wq' = [wq EXCEPT ![c] = Tail(@)]
                  /\ back' = [back EXCEPT ![c] =
                                IF cl[c].st \in {"closed", "gone"} THEN @ ELSE Append(@, m)]
             ELSE UNCHANGED <<wq, back>>
    /\ UNCHANGED <<nodes, async, jobs, dbVars, cl, sock, budget>>

\* connection_write_callback with nothing to send.
WriteStop(c) ==
    /\ io[c].writing /\ Alive(c)
    /\ wq[c] = <<>>
    /\ io' = [io EXCEPT ![c].writing = FALSE]
    /\ UNCHANGED <<age, pinglist, uuidmap, outVars, jobs, dbVars, netVars, budget>>

-----------------------------------------------------------------------------
(* The pool thread: dispatch of the first job.                             *)

\* Fault: the loop is not signalled after the frames are mounted.
MountNoSignal(c, msg, others, noti) ==
    /\ wq' = [x \in Conn |-> wq[x] \o (IF x = c THEN <<msg>> ELSE <<>>)
                                   \o (IF x \in others THEN <<noti>> ELSE <<>>)]
    /\ nodes' = nodes \cup {c} \cup others
    /\ UNCHANGED async

\* mountBuffer2Node to the requesting connection and to other connections:
\* frames join the write queues, the nodes join the list foreachio drains,
\* and the job ends with ev_async_send.
Mount(c, msg, others, noti) ==
    /\ wq' = [x \in Conn |-> wq[x] \o (IF x = c THEN <<msg>> ELSE <<>>)
                                   \o (IF x \in others THEN <<noti>> ELSE <<>>)]
    /\ nodes' = nodes \cup {c} \cup others
    /\ async' = TRUE

Reply(c, type, sid, e) ==
    Mount(c, [type |-> type, sid |-> sid, e |-> e], {}, <<>>)

\* updateSessionID: only the pair (uuid, user) the document already has.
UpdateSessionID(r, d, u, sid) ==
    [x \in Device |->
        IF x = d /\ r[x] # NoRow /\ r[x].users[u] # 0
        THEN [r[x] EXCEPT !.users[u] = sid] ELSE r[x]]

\* Fault: connectInfo_ is used as the last job left it.
FindNothing(r, d) == local

\* findUUID fills connectInfo_ only when the document exists.
FindUUID(r, d) == IF r[d] = NoRow THEN local ELSE r[d]

\* updateUUID sets the document of connectInfo_'s own uuid, if there is one.
UpdateUUID(r, info) ==
    [x \in Device |-> IF x = info.uuid /\ r[x] # NoRow THEN info ELSE r[x]]

\* The connections a notification for the devices of user u goes to: devices
\* of u marked logged in and connected, the sender's own device excepted, as
\* far as the uuid map knows them.
NotiTargets(r, u, own) ==
    {uuidmap[d] : d \in {x \in Device : /\ x # own
                                        /\ r[x] # NoRow
                                        /\ r[x].user = u
                                        /\ r[x].isLogin /\ r[x].isConnected
                                        /\ uuidmap[x] # NoConn}}

DbThrows ==
    /\ budget.faults > 0
    /\ budget' = [budget EXCEPT !.faults = @ - 1]

\* What a login makes of the device's document, or a new one.
LoginInfo(m) ==
    LET old == IF rows[m.uuid] = NoRow THEN EmptyInfo.users ELSE rows[m.uuid].users
    IN [uuid |-> m.uuid, user |-> m.user, isLogin |-> TRUE, isConnected |-> FALSE,
        users |-> [old EXCEPT ![m.user] = IF @ = 0 THEN MinSessionID ELSE @]]

DispatchLogin(c, m, sid) ==
    \/ /\ ~m.ok                                   \* unknown user or password
       /\ Reply(c, "loginres", sid, 11001)
       /\ UNCHANGED <<dbVars, budget>>
    \/ /\ m.ok
       /\ devices' = [devices EXCEPT ![m.user] = @ \cup {m.uuid}]
       /\ local' = LoginInfo(m)
       /\ \/ /\ rows' = [rows EXCEPT ![m.uuid] = LoginInfo(m)]
             /\ Mount(c, [type |-> "loginres", sid |-> sid, e |-> 0],
                      NotiTargets(rows', io[c].user, io[c].uuid),
                      [type |-> "loginnoti", sid |-> sid, e |-> 0])
             /\ UNCHANGED budget
          \/ /\ DbThrows                        \* insertUUID or updateUUID
             /\ Reply(c, "loginres", sid, IF rows[m.uuid] = NoRow THEN 40030 ELSE 40031)
             /\ UNCHANGED rows

\* Logout and ClientDisConnect rewrite the document through connectInfo_.
\* Logout puts the session id under the device's uuid, a key that no user has.
LeaveInfo(m, sid, r) ==
    LET info == FindUUID(r, m.uuid)
    IN IF m.type = "logout" THEN [info EXCEPT !.isConnected = FALSE, !.isLogin = FALSE]
       ELSE [info EXCEPT !.isConnected = FALSE, !.users[m.user] = sid]

DispatchLeave(c, m, sid, r) ==
    \/ /\ ~m.ok \/ m.uuid \notin devices[m.user]
       /\ Reply(c, "error", sid, IF m.type = "logout" THEN 11002 ELSE 11004)
       /\ rows' = r
       /\ UNCHANGED <<local, budget>>
    \/ /\ m.ok /\ m.uuid \in devices[m.user]
       /\ local' = LeaveInfo(m, sid, r)
       /\ \/ /\ rows' = UpdateUUID(r, LeaveInfo(m, sid, r))
             /\ Reply(c, IF m.type = "logout" THEN "logoutres" ELSE "clientdisconnectres",
                      sid, 0)
             /\ UNCHANGED budget
          \/ /\ DbThrows
             /\ rows' = r
             /\ Reply(c, "error", sid, 40031)

ConnectFails(m) == ~m.ok \/ m.uuid \notin devices[m.user]

\* users().at(userid) on a map without the key ends the process.
ConnectAborts(m) ==
    /\ ~ConnectFails(m)
    /\ FindUUID(rows, m.uuid).users[m.user] = 0

\* The id the client starts from.
ConnectID(m) == FindUUID(rows, m.uuid).users[m.user] + 1

ConnectInfo(m) == [FindUUID(rows, m.uuid) EXCEPT !.isConnected = TRUE]

\* When updateUUID throws, the node already has its user, device and id, and
\* the answer carries the id.
DispatchConnect(c, m, sid) ==
    \/ /\ ConnectFails(m)
       /\ Reply(c, "clientconnectres", sid, 11003)
       /\ UNCHANGED <<io, rows, local, budget>>
    \/ /\ ~ConnectFails(m)
       /\ io' = [io EXCEPT ![c] = [@ EXCEPT !.user = m.user, !.uuid = m.uuid,
                                            !.sessionid = ConnectID(m)]]
       /\ local' = ConnectInfo(m)
       /\ \/ /\ rows' = UpdateUUID(rows, ConnectInfo(m))
             /\ Reply(c, "clientconnectres", ConnectID(m), 0)
             /\ UNCHANGED budget
          \/ /\ DbThrows
             /\ Reply(c, "clientconnectres", ConnectID(m), 40031)
             /\ UNCHANGED rows

\* dispatch(type, ...) of a message whose session id passed the checks; r is
\* the connectInfo collection after updateSessionID.
Handle(c, m, sid, r) ==
    \/ /\ m.type = "login"
       /\ DispatchLogin(c, m, sid)
       /\ UNCHANGED io
    \/ /\ m.type = "clientconnect"
       /\ ~ConnectAborts(m)
       /\ DispatchConnect(c, m, sid)
       /\ UNCHANGED devices
    \/ /\ m.type \in {"logout", "clientdisconnect"}
       /\ DispatchLeave(c, m, sid, r)
       /\ UNCHANGED <<io, devices>>
    \/ /\ m.type \in {"request", "early", "ping"}
       /\ Reply(c, IF m.type = "ping" THEN "pong" ELSE "res", sid, 0)
       /\ rows' = r
       /\ UNCHANGED <<io, devices, local, budget>>

Refuse(c, sid, e) ==
    /\ Reply(c, "error", sid, e)
    /\ UNCHANGED <<io, dbVars, budget>>

\* dispatch(node, buffers, session_id).
Dispatch(c, m, sid) ==
    IF sid # m.sid THEN Refuse(c, sid, 11010)
    ELSE IF sid >= MinSessionID
    THEN IF io[c].isConnect /\ MissingCheck(m.type)
         THEN Handle(c, m, sid, UpdateSessionID(rows, io[c].uuid, io[c].user, sid))
         ELSE Refuse(c, sid, 11011)
    ELSE IF ~MissingCheck(m.type)
         THEN Handle(c, m, sid, rows)
         ELSE Refuse(c, sid, 11013)

RunJob ==
    /\ jobs # <<>>
    /\ LET j == Head(jobs) IN Dispatch(j.conn, j.msg, j.sid)
    /\ jobs' = Tail(jobs)
    /\ UNCHANGED <<age, pinglist, uuidmap, netVars>>

\* The process ends and is started again: what it held in memory is gone and
\* every client sees its connection close.
Restart ==
    /\ pinglist' = <<>> /\ uuidmap' = [d \in Device |-> NoConn]
    /\ jobs' = <<>> /\ nodes' = {} /\ async' = FALSE
    /\ wq' = [c \in Conn |-> <<>>]
    /\ local' = EmptyInfo
    /\ UNCHANGED <<io, age, devices, rows, netVars>>

Crash ==
    /\ budget.crashes > 0
    /\ \E c \in Conn : io[c].accepted
    /\ budget' = [budget EXCEPT !.crashes = @ - 1]
    /\ Restart

AbortOnConnect ==
    /\ jobs # <<>>
    /\ LET j == Head(jobs)
       IN j.msg.type = "clientconnect" /\ j.sid = j.msg.sid /\ ConnectAborts(j.msg)
    /\ Restart
    /\ UNCHANGED budget

-----------------------------------------------------------------------------
(* The client at the other end of connection c: it sends 0 with unchecked  *)
(* types, and with checked types the ids that follow the one its           *)
(* clientconnectres carried.                                               *)

Send(c, type, sid, ok) ==
    /\ sock' = [sock EXCEPT ![c] = Append(@, [type |-> type, sid |-> sid,
                             user |-> cl[c].user, uuid |-> cl[c].uuid, ok |-> ok])]
    /\ type \in ClientTypes
    /\ cl[c].sent < MaxSend
    /\ cl[c].wait < MaxInFlight
    /\ UNCHANGED <<loopVars, outVars, jobs, dbVars, back, budget>>

\* The client once it has sent a message.
Sent(k, st, sid) == [k EXCEPT !.st = st, !.sid = sid, !.sent = @ + 1, !.wait = @ + 1]

ClientSend(c) ==
    \/ /\ cl[c].st \in {"open", "ready"}
       /\ \E type \in {"login", "ping"}, ok \in BOOLEAN :
             /\ ~ok => type = "login" /\ "badlogin" \in Events
             /\ Send(c, type, 0, ok)
       /\ cl' = [cl EXCEPT ![c] = Sent(cl[c], cl[c].st, cl[c].sid)]
    \/ /\ cl[c].st = "open" \/ (cl[c].st = "ready" /\ "reconnect" \in Events)
       /\ Send(c, "clientconnect", 0, TRUE)
       /\ cl' = [cl EXCEPT ![c] = Sent(cl[c], "connecting", cl[c].sid)]
    \/ /\ cl[c].st = "ready"
       /\ \E type \in {"request", "logout", "clientdisconnect"} :
             Send(c, type, cl[c].sid, TRUE)
       /\ cl' = [cl EXCEPT ![c] = Sent(cl[c], "ready", Succ(cl[c].sid))]
    \/ /\ cl[c].st = "open"
       /\ \E sid \in {0, MinSessionID} : Send(c, "early", sid, TRUE)
       /\ cl' = [cl EXCEPT ![c] = Sent(cl[c], "open", cl[c].sid)]

\* The client once it has read m.
Received(k, m) ==
    LET connected == m.type = "clientconnectres"
    IN [k EXCEPT !.wait = IF m.type = "loginnoti" THEN @ ELSE @ - 1,
                 !.st = IF ~connected THEN @ ELSE IF m.e = 0 THEN "ready" ELSE "open",
                 !.sid = IF connected /\ m.e = 0 THEN m.sid ELSE @]

ClientReceive(c) ==
    /\ back[c] # <<>>
    /\ back' = [back EXCEPT ![c] = Tail(@)]
    /\ cl' = [cl EXCEPT ![c] = Received(cl[c], Head(back[c]))]
    /\ UNCHANGED <<loopVars, outVars, jobs, dbVars, sock, budget>>

\* The client closes its socket, or disappears without a FIN.
ClientLeave(c) ==
    /\ cl[c].st \in {"open", "connecting", "ready"}
    /\ \/ "close" \in Events /\ cl' = [cl EXCEPT ![c].st = "closed"]
       \/ "vanish" \in Events /\ cl' = [cl EXCEPT ![c].st = "gone"]
    /\ back' = [back EXCEPT ![c] = <<>>]
    /\ UNCHANGED <<loopVars, outVars, jobs, dbVars, sock, budget>>

\* The server has released the Read_IO and closed the socket.
ClientSeesClose(c) ==
    /\ cl[c].st \in {"open", "connecting", "ready"}
    /\ ~Alive(c) /\ back[c] = <<>>
    /\ cl' = [cl EXCEPT ![c].st = "closed"]
    /\ UNCHANGED <<loopVars, outVars, jobs, dbVars, sock, back, budget>>

-----------------------------------------------------------------------------
Write(c) == (\E written \in BOOLEAN : WriteFrame(c, written)) \/ WriteStop(c)

Next ==
    \/ \E c \in Conn : \E u \in User, d \in Device : SocketAccept(c, u, d)
    \/ \E c \in Conn : \/ ReadMessage(c) \/ ReadError(c) \/ Write(c)
                       \/ ClientSend(c) \/ ClientReceive(c) \/ ClientLeave(c)
                       \/ ClientSeesClose(c)
    \/ StartWrite \/ RunJob \/ PingTimer \/ Tick \/ Crash \/ AbortOnConnect

Spec == Init /\ [][Next]_vars

\* libev calls a ready watcher, the ping timer repeats, the pool thread runs
\* its jobs (WorkPool!EveryJobRuns), time passes and the network delivers.
\* Nothing obliges a client to send, to leave, or a fault to happen.
Fairness ==
    /\ WF_vars(StartWrite) /\ WF_vars(RunJob) /\ WF_vars(AbortOnConnect)
    /\ WF_vars(Tick) /\ WF_vars(PingTimer)
    /\ \A c \in Conn :
          /\ WF_vars(ReadMessage(c)) /\ WF_vars(ReadError(c)) /\ WF_vars(Write(c))
          /\ WF_vars(ClientReceive(c)) /\ WF_vars(ClientSeesClose(c))

FairSpec == Spec /\ Fairness

-----------------------------------------------------------------------------
(* Properties.                                                             *)

\* Type invariant.
TypeOK ==
    /\ io \in [Conn -> [accepted : BOOLEAN, reading : BOOLEAN, writing : BOOLEAN,
                        isConnect : BOOLEAN, sessionid : 0..MaxSessionID,
                        user : User \cup {NoUser}, uuid : Device \cup {NoDevice}]]
    /\ age \in [Conn -> 0..(PingTimeout + 1)]
    /\ pinglist \in Seq(Conn)
    /\ uuidmap \in [Device -> Conn \cup {NoConn}]
    /\ wq \in [Conn -> Seq(Response)] /\ back \in [Conn -> Seq(Response)]
    /\ sock \in [Conn -> Seq(Request)]
    /\ jobs \in Seq([conn : Conn, msg : Request, sid : 0..MaxSessionID])
    /\ nodes \subseteq Conn /\ async \in BOOLEAN
    /\ devices \in [User -> SUBSET Device]
    /\ rows \in [Device -> Row \cup {NoRow}] /\ local \in Row

\* The checked messages of s carry the id first and then each the successor
\* of the one before it; next is the id that comes after them.
Follows(s, first, next) ==
    LET U == {i \in 1..Len(s) : MissingCheck(s[i].type)} IN
    /\ U = {} => next = first
    /\ \A i \in U :
          /\ (\A k \in U : i <= k) => s[i].sid = first
          /\ (\A k \in U : k <= i) => next = Succ(s[i].sid)
          /\ \A k \in U : i < k /\ (\A l \in U : l <= i \/ k <= l)
                            => s[k].sid = Succ(s[i].sid)

\* While a client is connected, the node's session id and the client's count
\* stay in step, over everything in flight, in any interleaving of reads,
\* jobs and reconnects and across the wrap at MaxSessionID: the first checked
\* message not yet read carries the node's id and each next one its successor.
\* So the session checks of dispatch turn no request of a connected client
\* away, except the one that carries MaxSessionID: every other one that waits
\* to run has the id the loop gave it and a node marked connected.
InStep ==
    /\ \A c \in Conn : cl[c].st = "ready" /\ Alive(c) =>
          Follows(sock[c], io[c].sessionid, cl[c].sid)
    /\ \A i \in 1..Len(jobs) :
          LET j == jobs[i]
          IN j.msg.type \in Checked \ {"early"} /\ j.msg.sid # MaxSessionID
                => j.sid = j.msg.sid /\ j.sid >= MinSessionID /\ io[j.conn].isConnect

\* The ping list holds a node at most once and is sorted, oldest first, so
\* pingtime_callback may stop at the first node that has not expired.
PingSorted ==
    \A i, k \in 1..Len(pinglist) : i < k =>
        /\ pinglist[i] # pinglist[k]
        /\ age[pinglist[i]] >= age[pinglist[k]]

\* The uuid map sends a device's notifications to a node of that device that
\* has been told it is connected.
MappedOwnDevice ==
    \A d \in Device : uuidmap[d] # NoConn =>
        io[uuidmap[d]].uuid = d /\ io[uuidmap[d]].isConnect

\* A job rewrites only the connectInfo documents of its own device, the one
\* its message names or its node stands for, unless the named device has no
\* document: then findUUID leaves in connectInfo_ what an earlier job put
\* there, and it is that document that is rewritten.
OwnDocument ==
    [][\A d \in Device :
          rows'[d] # rows[d] =>
             LET j == Head(jobs)
             IN d \in {j.msg.uuid, io[j.conn].uuid} \/ rows[j.msg.uuid] = NoRow]_vars

\* A client that waits for its clientconnectres gets one, or sees its
\* connection closed, or leaves.
ConnectSettles ==
    \A c \in Conn : (cl[c].st = "connecting") ~> (cl[c].st # "connecting")
=============================================================================
