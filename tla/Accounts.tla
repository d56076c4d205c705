------------------------------ MODULE Accounts ------------------------------
(***************************************************************************)
(* The user documents of imserver: register, login, clientconnect,         *)
(* clientdisconnect, setuserproperty, the friend lists, queryuser and      *)
(* queryuserversion (yijian/server_msg_typemap.cxx), with one step per     *)
(* database operation (yijian/mongo.cxx), and the copies of the documents  *)
(* that the devices keep (yijian/kvdb.cxx).                                *)
(*                                                                         *)
(* There is one server with one pool thread: no other handler runs between *)
(* the operations of one, but any operation may throw and the server may   *)
(* stop between two of them.  ImServer has the session ids and the flags   *)
(* of a connectInfo document, here only the users it has an entry for      *)
(* matter; Friends has the documents a friend request goes through, here   *)
(* only its two writes to user documents.                                  *)
(***************************************************************************)
EXTENDS Naturals, Sequences, SequencesExt

CONSTANTS
    User,         \* accounts: a phone number, and the id of its document
    Device,       \* device uuids
    Value,        \* values of the properties of a user
    NoUser, NoDevice, NoDoc, NoRow, NoCopy, NoArg,
    Registered,   \* users with an account at the start
    LoggedIn,     \* the users each device was logged in as before the start
    Kinds,        \* what each device asks
    MaxVersion,   \* bound: version of a document
    MaxInFlight,  \* bound: requests a device has unanswered
    MaxAsks,      \* bound: requests in all
    Faults,       \* bound: operations that throw
    Crashes       \* bound: server restarts

\* "befriend" is the addfriendauthorize by which a user accepts another one.
Entry == {"register", "login", "connect"}
Checked == {"disconnect", "setproperty", "befriend", "queryuser", "userversion"}

ASSUME AccountsAssumption ==
    /\ Registered \subseteq User
    /\ LoggedIn \in [Device -> SUBSET Registered]
    /\ Kinds \in [Device -> SUBSET (Entry \cup Checked)]
    /\ MaxVersion \in Nat \ {0} /\ MaxInFlight \in Nat
    /\ MaxAsks \in Nat /\ Faults \in Nat /\ Crashes \in Nat
    /\ NoUser \notin User /\ NoDevice \notin Device
    /\ \A s \in SUBSET User : NoRow # s

VARIABLES
    account,  \* the user collection
    row,      \* connectInfo documents by UUID: the users each has an entry for
    local,    \* connectInfo_, the pool thread's static ConnectInfo
    jobs,     \* requests given to the pool, the one being handled first
    step,     \* its next operation
    node,     \* the userid of the Read_IO each device is connected to
    inbox,    \* answers on their way to each device
    online,   \* the user a device was told it is connected as
    known,    \* users a device was told it is logged in as
    copy,     \* the user documents a device keeps
    heard,    \* the last versions a device was told
    budget    \* what is left of MaxAsks, Faults and Crashes

vars == <<account, row, local, jobs, step, node, inbox, online, known,
          copy, heard, budget>>
clientVars == <<online, known, copy, heard>>

\* A user document.  Login and the friend pushes never add a member twice.
Doc == [value : Value, version : 1..MaxVersion, friends : SUBSET User,
        devices : SUBSET Device]

ASSUME NoDocAssumption == NoDoc \notin Doc

\* What queryuser tells of it; own: the lists of the document were not cleared.
Copy == [version : 1..MaxVersion, value : Value, own : BOOLEAN,
         friends : SUBSET User, devices : SUBSET Device]

\* lost: its connection has ended, which leaves the job its Read_IO.
Request == [kind : Entry \cup Checked, dev : Device, lost : BOOLEAN,
            user : User, arg : User \cup Value \cup {NoArg}]

Answer(body) == [kind : Entry \cup Checked, ok : BOOLEAN, user : User, body : body]

EmptyInfo == [uuid |-> NoDevice, users |-> {}]

NewDoc(v) == [value |-> v, version |-> 1, friends |-> {}, devices |-> {}]

\* What earlier runs of the server left.
Init ==
    /\ \E v \in Value :
          account = [u \in User |->
             IF u \in Registered
             THEN [NewDoc(v) EXCEPT !.devices = {d \in Device : u \in LoggedIn[d]}]
             ELSE NoDoc]
    /\ row = [d \in Device |-> IF LoggedIn[d] = {} THEN NoRow ELSE LoggedIn[d]]
    /\ local = EmptyInfo
    /\ jobs = <<>> /\ step = 1
    /\ node = [d \in Device |-> NoUser]
    /\ inbox = [d \in Device |-> <<>>]
    /\ online = [d \in Device |-> NoUser]
    /\ known = LoggedIn
    /\ copy = [d \in Device |-> [u \in User |-> NoCopy]]
    /\ heard = [d \in Device |-> [u \in User |-> 0]]
    /\ budget = [asks |-> MaxAsks, faults |-> Faults, crashes |-> Crashes]

-----------------------------------------------------------------------------
(* The devices.                                                            *)

\* Requests of the current connection that are not answered yet.
Pending(d) ==
    Len(SelectSeq(jobs, LAMBDA r : r.dev = d /\ ~r.lost)) + Len(inbox[d])

\* A device registers, logs in and connects with nothing else in flight, and
\* connects only as a user it was told is logged in.
EntryRequests(d) ==
    [kind : {"register", "login"}, user : User, arg : {NoArg}]
      \cup [kind : {"connect"}, user : known[d], arg : {NoArg}]

CheckedRequests(u) ==
    [kind : {"disconnect"}, user : {u}, arg : {NoArg}]
      \cup [kind : {"setproperty"}, user : {u}, arg : Value]
      \cup [kind : {"befriend"}, user : {u},
            arg : {x \in User \ {u} : account[x] # NoDoc}]
      \cup [kind : {"queryuser", "userversion"}, user : {u}, arg : User]

Send(d, r) ==
    /\ r.kind \in Kinds[d]
    /\ budget.asks > 0
    /\ budget' = [budget EXCEPT !.asks = @ - 1]
    /\ jobs' = Append(jobs, [kind |-> r.kind, user |-> r.user, arg |-> r.arg,
                             dev |-> d, lost |-> FALSE])
    /\ online' = [online EXCEPT ![d] = IF r.kind = "connect" THEN NoUser ELSE @]
    /\ UNCHANGED <<account, row, local, step, node, inbox, known, copy, heard>>

Ask(d) ==
    \/ /\ Pending(d) = 0
       /\ \E r \in EntryRequests(d) : Send(d, r)
    \/ /\ online[d] # NoUser
       /\ Pending(d) < MaxInFlight
       /\ \E r \in CheckedRequests(online[d]) : Send(d, r)

\* The connections of the devices in gone end: the answers on their way are
\* lost, the requests the server has read are not.
Lose(gone) ==
    /\ jobs' = [i \in DOMAIN jobs |-> [jobs[i] EXCEPT !.lost = @ \/ jobs[i].dev \in gone]]
    /\ inbox' = [d \in Device |-> IF d \in gone THEN <<>> ELSE inbox[d]]
    /\ node' = [d \in Device |-> IF d \in gone THEN NoUser ELSE node[d]]
    /\ online' = [d \in Device |-> IF d \in gone THEN NoUser ELSE online[d]]

\* A device opens a new connection.
Reconnect(d) ==
    /\ Lose({d})
    /\ UNCHANGED <<account, row, local, step, known, copy, heard, budget>>

\* loginRes, connectRes, queryuserRes, queryuserversionRes; the server closes
\* the connection of a device that has disconnected.
Receive(d) ==
    /\ inbox[d] # <<>>
    /\ LET a == Head(inbox[d])
       IN /\ known' = IF a.kind = "login" /\ a.ok
                      THEN [known EXCEPT ![d] = @ \cup {a.user}] ELSE known
          /\ copy' = IF a.kind = "queryuser" /\ a.ok
                     THEN [copy EXCEPT ![d][a.user] = a.body] ELSE copy
          /\ heard' = IF a.kind = "userversion" /\ a.ok
                      THEN [heard EXCEPT ![d][a.user] = a.body] ELSE heard
          /\ IF a.kind = "disconnect" /\ a.ok
             THEN Lose({d})
             ELSE /\ inbox' = [inbox EXCEPT ![d] = Tail(@)]
                  /\ online' = IF a.kind = "connect" /\ a.ok
                               THEN [online EXCEPT ![d] = a.user] ELSE online
                  /\ UNCHANGED <<jobs, node>>
    /\ UNCHANGED <<account, row, local, step, budget>>

-----------------------------------------------------------------------------
(* The pool thread.                                                        *)

\* currentNode_->userid: a device asks these things only once connected.
CurrentUser == IF Head(jobs).lost THEN Head(jobs).user ELSE node[Head(jobs).dev]

At(kind, n) == jobs # <<>> /\ Head(jobs).kind = kind /\ step = n

Continue == step' = step + 1 /\ UNCHANGED <<jobs, inbox>>

\* Fault: an answer overtakes those before it.
PutFirst(box, a) == <<a>> \o box

\* mountBuffer2Node pushes an answer behind those of its connection.
Put(box, a) == Append(box, a)

\* The handler ends with one answer, lost if its connection is.
Finish(ok, u, body) ==
    LET r == Head(jobs)
        a == [kind |-> r.kind, ok |-> ok, user |-> u, body |-> body]
    IN /\ jobs' = Tail(jobs) /\ step' = 1
       /\ inbox' = IF r.lost THEN inbox ELSE [inbox EXCEPT ![r.dev] = Put(@, a)]

Succeed == Finish(TRUE, Head(jobs).user, NoArg)
Fail == Finish(FALSE, Head(jobs).user, NoArg)

\* Any operation may throw; the handler's catch answers.
Throw ==
    /\ jobs # <<>>
    /\ budget.faults > 0
    /\ budget' = [budget EXCEPT !.faults = @ - 1]
    /\ Fail
    /\ UNCHANGED <<account, row, local, node, clientVars>>

\* insertUser: the index over phone number and country code is unique.
Register ==
    /\ At("register", 1)
    /\ LET u == Head(jobs).user
       IN \/ /\ account[u] = NoDoc
             /\ \E v \in Value : account' = [account EXCEPT ![u] = NewDoc(v)]
             /\ Succeed
          \/ /\ account[u] # NoDoc
             /\ Fail
             /\ UNCHANGED account
    /\ UNCHANGED <<row, local, node, clientVars, budget>>

\* queryUser and the password.
LoginQuery ==
    /\ At("login", 1)
    /\ \/ Fail
       \/ account[Head(jobs).user] # NoDoc /\ Continue
    /\ UNCHANGED <<account, row, local, node, clientVars, budget>>

\* insertDevice, or updateDevice for a device the document has.
LoginDevice ==
    /\ At("login", 2)
    /\ account' = [account EXCEPT ![Head(jobs).user].devices = @ \cup {Head(jobs).dev}]
    /\ Continue
    /\ UNCHANGED <<row, local, node, clientVars, budget>>

\* Fault: the entries of the users before are dropped.
EntryForOnly(info, d, u) == [uuid |-> d, users |-> {u}]

\* connectInfo_ after the login of u on d, from the document of d.
EntryFor(info, d, u) == [uuid |-> d, users |-> info.users \cup {u}]

\* findUUID fills connectInfo_ when it finds a document; without one, login
\* starts from an empty map and the other handlers go on with what the last
\* job left there.
FindUUID(d) == IF row[d] = NoRow THEN local ELSE [uuid |-> d, users |-> row[d]]

LoginInfo ==
    /\ At("login", 3)
    /\ LET d == Head(jobs).dev
           info == IF row[d] = NoRow THEN EmptyInfo ELSE FindUUID(d)
       IN local' = EntryFor(info, d, Head(jobs).user)
    /\ Continue
    /\ UNCHANGED <<account, row, node, clientVars, budget>>

\* updateUUID sets the document of connectInfo_'s own uuid, if there is one.
UpdateUUID ==
    row' = [d \in Device |-> IF d = local.uuid /\ row[d] # NoRow
                             THEN local.users ELSE row[d]]

\* updateUUID or, when findUUID found no document, insertUUID.
LoginWrite == row' = [row EXCEPT ![local.uuid] = local.users]

LoginRow ==
    /\ At("login", 4)
    /\ LoginWrite
    /\ Succeed
    /\ UNCHANGED <<account, local, node, clientVars, budget>>

\* clientconnect and clientdisconnect look for the device first.
DeviceQuery ==
    /\ At("connect", 1) \/ At("disconnect", 1)
    /\ IF Head(jobs).dev \in account[Head(jobs).user].devices THEN Continue ELSE Fail
    /\ UNCHANGED <<account, row, local, node, clientVars, budget>>

\* users().at(userid) on a map without the key would end the process.
ConnectInfo ==
    /\ At("connect", 2)
    /\ Head(jobs).user \in FindUUID(Head(jobs).dev).users
    /\ local' = FindUUID(Head(jobs).dev)
    /\ node' = IF Head(jobs).lost THEN node
               ELSE [node EXCEPT ![Head(jobs).dev] = Head(jobs).user]
    /\ Continue
    /\ UNCHANGED <<account, row, clientVars, budget>>

\* The session id goes back under the user's key.
DisconnectInfo ==
    /\ At("disconnect", 2)
    /\ local' = [FindUUID(Head(jobs).dev) EXCEPT !.users = @ \cup {Head(jobs).user}]
    /\ Continue
    /\ UNCHANGED <<account, row, node, clientVars, budget>>

LeaveRow ==
    /\ At("connect", 3) \/ At("disconnect", 3)
    /\ UpdateUUID
    /\ Succeed
    /\ UNCHANGED <<account, local, node, clientVars, budget>>

\* Fault: the document changes and its version stays.
WriteSilently(u, doc) == account' = [account EXCEPT ![u] = doc]

\* One update_one of a user document: what it sets or adds, and $inc of the
\* version, added or not.
Write(u, doc) ==
    /\ account[u].version < MaxVersion
    /\ account' = [account EXCEPT ![u] = [doc EXCEPT !.version = @ + 1]]

SetUserProperty ==
    /\ At("setproperty", 1)
    /\ LET u == CurrentUser
       IN Write(u, [account[u] EXCEPT !.value = Head(jobs).arg])
    /\ Succeed
    /\ UNCHANGED <<row, local, node, clientVars, budget>>

\* addFriendAuthorize pushes the invitee to the inviter's list, then the
\* inviter to the invitee's.
PushInviter ==
    /\ At("befriend", 1)
    /\ LET u == Head(jobs).arg
       IN Write(u, [account[u] EXCEPT !.friends = @ \cup {Head(jobs).user}])
    /\ Continue
    /\ UNCHANGED <<row, local, node, clientVars, budget>>

PushInvitee ==
    /\ At("befriend", 2)
    /\ LET u == Head(jobs).user
       IN Write(u, [account[u] EXCEPT !.friends = @ \cup {Head(jobs).arg}])
    /\ Succeed
    /\ UNCHANGED <<row, local, node, clientVars, budget>>

\* Fault: the version from before the last write.
ToldBefore(doc, own) ==
    [version |-> doc.version - 1, value |-> doc.value, own |-> own,
     friends |-> IF own THEN doc.friends ELSE {},
     devices |-> IF own THEN doc.devices ELSE {}]

\* The lists are told only to the user they belong to.
Told(doc, own) ==
    [version |-> doc.version, value |-> doc.value, own |-> own,
     friends |-> IF own THEN doc.friends ELSE {},
     devices |-> IF own THEN doc.devices ELSE {}]

QueryUser ==
    /\ At("queryuser", 1)
    /\ LET u == Head(jobs).arg
           own == u = CurrentUser
       IN IF account[u] = NoDoc THEN Fail ELSE Finish(TRUE, u, Told(account[u], own))
    /\ UNCHANGED <<account, row, local, node, clientVars, budget>>

QueryUserVersion ==
    /\ At("userversion", 1)
    /\ LET u == Head(jobs).arg
       IN IF account[u] = NoDoc THEN Fail ELSE Finish(TRUE, u, account[u].version)
    /\ UNCHANGED <<account, row, local, node, clientVars, budget>>

\* The server stops and starts again: its memory and its connections go.
Crash ==
    /\ budget.crashes > 0
    /\ budget' = [budget EXCEPT !.crashes = @ - 1]
    /\ local' = EmptyInfo
    /\ jobs' = <<>> /\ step' = 1
    /\ inbox' = [d \in Device |-> <<>>]
    /\ node' = [d \in Device |-> NoUser]
    /\ online' = [d \in Device |-> NoUser]
    /\ UNCHANGED <<account, row, known, copy, heard>>

Next ==
    \/ \E d \in Device : Ask(d) \/ Reconnect(d) \/ Receive(d)
    \/ Throw \/ Crash
    \/ Register
    \/ LoginQuery \/ LoginDevice \/ LoginInfo \/ LoginRow
    \/ DeviceQuery \/ ConnectInfo \/ DisconnectInfo \/ LeaveRow
    \/ SetUserProperty \/ PushInviter \/ PushInvitee
    \/ QueryUser \/ QueryUserVersion

Spec == Init /\ [][Next]_vars

-----------------------------------------------------------------------------
(* Properties.                                                             *)

\* The documents, the requests and answers on their way and what the devices
\* keep have the fields and the ranges the code gives them.
TypeOK ==
    /\ account \in [User -> Doc \cup {NoDoc}]
    /\ row \in [Device -> (SUBSET User) \cup {NoRow}]
    /\ local \in [uuid : Device \cup {NoDevice}, users : SUBSET User]
    /\ jobs \in Seq(Request)
    /\ step \in 1..4
    /\ node \in [Device -> User \cup {NoUser}]
    /\ \A d \in Device : \A a \in ToSet(inbox[d]) :
          CASE a.kind = "queryuser" /\ a.ok -> a \in Answer(Copy)
            [] a.kind = "userversion" /\ a.ok -> a \in Answer(1..MaxVersion)
            [] OTHER -> a \in Answer({NoArg})
    /\ online \in [Device -> User \cup {NoUser}]
    /\ known \in [Device -> SUBSET User]
    /\ copy \in [Device -> [User -> Copy \cup {NoCopy}]]
    /\ heard \in [Device -> [User -> 0..MaxVersion]]
    /\ budget \in [asks : 0..MaxAsks, faults : 0..Faults, crashes : 0..Crashes]

\* A login a device was told of stays good: the user's document has the device
\* and the device's connectInfo document has an entry for the user, whatever
\* failed since and whoever logged in there since.  clientconnect relies on
\* it: users().at(userid) ends the process without the entry.
LoginStands ==
    \A d \in Device : \A u \in known[d] :
        /\ account[u] # NoDoc
        /\ d \in account[u].devices
        /\ row[d] # NoRow
        /\ u \in row[d]

\* What a version names: the properties and the friend list.
SameState(c, x) ==
    c.value = x.value /\ (c.own /\ x.own => c.friends = x.friends)

\* A version names one state of the properties and the friend list of a user
\* document: a copy with the version of the document has them, the list when it
\* was told to the user himself, and so have two devices that keep copies with
\* one version, of now or of before, agree on them.  queryuserversion is of use
\* only because of it.  The list of devices, told to the user himself as well,
\* is not named by a version: insertDevice and updateDevice leave it as it is.
VersionNamesState ==
    \A d \in Device, u \in User : copy[d][u] # NoCopy =>
        LET c == copy[d][u] IN
        /\ c.version = account[u].version => SameState(c, Told(account[u], c.own))
        /\ \A e \in Device :
              copy[e][u] # NoCopy /\ copy[e][u].version = c.version
                  => SameState(c, copy[e][u])

\* What a device hears of a user document never goes back: neither its copy
\* nor the version it was told, over lost answers and new connections.
NeverBack ==
    [][\A d \in Device, u \in User :
          /\ heard'[d][u] >= heard[d][u]
          /\ copy[d][u] # NoCopy => copy'[d][u].version >= copy[d][u].version]_vars

=============================================================================
