------------------------------ MODULE Friends -------------------------------
(***************************************************************************)
(* The friend request: dispatch(AddFriend) and dispatch(AddFriendAuthorize)*)
(* (yijian/server_msg_typemap.cxx) over addFriend and addFriendAuthorize   *)
(* (yijian/mongo.cxx).  Each handler is a chain of separate writes to      *)
(* mongo.  Between them it records in the request's status how far it has  *)
(* come.  No transaction surrounds the chain: a write may throw, and the   *)
(* process may end between any two writes.                                 *)
(*                                                                         *)
(* A step is one database operation.  A write that was applied but whose   *)
(* answer was lost is the write followed by Fail.  Worker is the set of    *)
(* threads that run handlers over the same database: one in a server, and  *)
(* one more per peer server.                                               *)
(***************************************************************************)
EXTENDS Naturals, FiniteSets

CONSTANTS User, Worker,
          MaxNode,    \* bound: messageNode documents
          Faults,     \* bound: writes that throw
          Crashes     \* bound: restarts of the server

ASSUME FriendsAssumption ==
    MaxNode \in Nat /\ Faults \in Nat /\ Crashes \in Nat

VARIABLES
    req,      \* addFriend documents, by littleIDBigID
    node,     \* messageNode documents: node[n] is the pair of n's members
    count,    \* messageNodeCount documents: node id -> count
    message,  \* nodeMessage documents, as <<node, incrementID>>
    friends,  \* friends[u]: array of the user document, as <<userID, toNodeID>>
    unread,   \* userUnread documents, as <<userID, toNodeID>>
    at,       \* where each worker is in its handler
    told,     \* success answers sent so far
    budget    \* what is left of Faults and Crashes

dbVars == <<req, node, count, message, friends, unread>>
vars == <<dbVars, at, told, budget>>

Node == 1..MaxNode
Key == {{a, b} : a, b \in User}

\* What addFriend passes through before it answers, and addFriendAuthorize.
\* Each name is the next operation of the worker.
AddPC == {"insertRequest", "insertNode", "trackNode", "insertCount", "trackCount",
          "incCount", "insertMessage", "answerAdd"}
AuthPC == {"findRequest", "trackAgree", "addInviter", "trackInviter", "unreadInviter",
           "trackUnread", "addInvitee", "trackInvitee", "unreadInvitee",
           "trackFinish", "answerAuth"}

Status == {"request", "createNode", "createNodeCount", "agree", "inviter",
           "userUnreadInviter", "invitee", "finish"}
Request == [inviter : User, invitee : User, node : Node \cup {0}, status : Status]
Answer == [type : {"addfriendres", "addfriendauthorizeres"},
           inviter : User, invitee : User, node : Node]

Idle == [pc |-> "idle"]
Job == [pc : AddPC \cup AuthPC, inviter : User, invitee : User, node : Node \cup {0}]

\* An addFriend document exists for a key of DOMAIN req.
Init ==
    /\ req = <<>> /\ node = <<>> /\ count = <<>>
    /\ message = {} /\ unread = {} /\ told = {}
    /\ friends = [u \in User |-> {}]
    /\ at = [w \in Worker |-> Idle]
    /\ budget = [faults |-> Faults, crashes |-> Crashes]

IsFriend(u, v) == \E n \in Node : <<v, n>> \in friends[u]
KeyOf(w) == {at[w].inviter, at[w].invitee}
Put(f, k, v) == [x \in DOMAIN f \cup {k} |-> IF x = k THEN v ELSE f[x]]
Goto(w, pc) == at' = [at EXCEPT ![w].pc = pc]

-----------------------------------------------------------------------------
(* dispatch(AddFriend).                                                    *)

\* The checks of the handler.  The blacklist is empty in every user document
\* (no code writes it), so 11005 is never raised; a request that fails a
\* check changes nothing.
AddFriend(w, a, b) ==
    /\ at[w] = Idle
    /\ ~IsFriend(a, b)                                       \* 11020
    /\ ~IsFriend(b, a)                                       \* 11022
    /\ at' = [at EXCEPT ![w] = [pc |-> "insertRequest", inviter |-> a,
                                invitee |-> b, node |-> 0]]
    /\ UNCHANGED <<dbVars, told, budget>>

\* littleIDBigID has a unique index: a second insert throws, 40004.
InsertRequest(w) ==
    /\ at[w].pc = "insertRequest"
    /\ IF KeyOf(w) \in DOMAIN req
       THEN at' = [at EXCEPT ![w] = Idle] /\ UNCHANGED req
       ELSE /\ req' = Put(req, KeyOf(w), [inviter |-> at[w].inviter, invitee |-> at[w].invitee,
                                          node |-> 0, status |-> "request"])
            /\ Goto(w, "insertNode")
    /\ UNCHANGED <<node, count, message, friends, unread, told, budget>>

InsertNode(w) ==
    /\ at[w].pc = "insertNode"
    /\ \E n \in Node \ DOMAIN node :
          /\ \A x \in Node \ DOMAIN node : n <= x
          /\ node' = Put(node, n, KeyOf(w))
          /\ at' = [at EXCEPT ![w].pc = "trackNode", ![w].node = n]
    /\ UNCHANGED <<req, count, message, friends, unread, told, budget>>

TrackNode(w) ==
    /\ at[w].pc = "trackNode"
    /\ req' = [req EXCEPT ![KeyOf(w)].status = "createNode", ![KeyOf(w)].node = at[w].node]
    /\ Goto(w, "insertCount")
    /\ UNCHANGED <<node, count, message, friends, unread, told, budget>>

InsertCount(w) ==
    /\ at[w].pc = "insertCount"
    /\ count' = Put(count, at[w].node, 0)
    /\ Goto(w, "trackCount")
    /\ UNCHANGED <<req, node, message, friends, unread, told, budget>>

\* insertMessage takes the count before its increment as the message's id.
IncCount(w) ==
    /\ at[w].pc = "incCount"
    /\ count' = [count EXCEPT ![at[w].node] = @ + 1]
    /\ Goto(w, "insertMessage")
    /\ UNCHANGED <<req, node, message, friends, unread, told, budget>>

InsertMessage(w) ==
    /\ at[w].pc = "insertMessage"
    /\ message' = message \cup {<<at[w].node, count[at[w].node] - 1>>}
    /\ Goto(w, "answerAdd")
    /\ UNCHANGED <<req, node, count, friends, unread, told, budget>>

-----------------------------------------------------------------------------
(* dispatch(AddFriendAuthorize); only an agreement does anything.          *)

AddFriendAuthorize(w, a, b) ==
    /\ at[w] = Idle
    /\ at' = [at EXCEPT ![w] = [pc |-> "findRequest", inviter |-> a,
                                invitee |-> b, node |-> 0]]
    /\ UNCHANGED <<dbVars, told, budget>>

\* Fault: the status of the request is not looked at.
FindAnyRequest(w) ==
    /\ at[w].pc = "findRequest"
    /\ at' = [at EXCEPT ![w] =
                IF KeyOf(w) \in DOMAIN req
                THEN [@ EXCEPT !.pc = "trackAgree", !.node = req[KeyOf(w)].node]
                ELSE Idle]
    /\ UNCHANGED <<dbVars, told, budget>>

\* 40008 without a request, 40009 unless its status is createNodeCount.
FindRequest(w) ==
    /\ at[w].pc = "findRequest"
    /\ at' = [at EXCEPT ![w] =
                IF KeyOf(w) \in DOMAIN req /\ req[KeyOf(w)].status = "createNodeCount"
                THEN [@ EXCEPT !.pc = "trackAgree", !.node = req[KeyOf(w)].node]
                ELSE Idle]
    /\ UNCHANGED <<dbVars, told, budget>>

Befriend(w, u, v, pc, next) ==
    /\ at[w].pc = pc
    /\ friends' = [friends EXCEPT ![u] = @ \cup {<<v, at[w].node>>}]
    /\ Goto(w, next)
    /\ UNCHANGED <<req, node, count, message, unread, told, budget>>

AddInviter(w) == Befriend(w, at[w].inviter, at[w].invitee, "addInviter", "trackInviter")

\* Fault: the invitee gets no entry.
AddInviteeSkipped(w) ==
    /\ at[w].pc = "addInvitee"
    /\ Goto(w, "trackInvitee")
    /\ UNCHANGED <<dbVars, told, budget>>

AddInvitee(w) == Befriend(w, at[w].invitee, at[w].inviter, "addInvitee", "trackInvitee")

\* insertUnreadNode catches what the insert throws: a failure is logged and
\* the handler goes on.
InsertUnread(w) ==
    /\ at[w].pc \in {"unreadInviter", "unreadInvitee"}
    /\ LET u == IF at[w].pc = "unreadInviter" THEN at[w].inviter ELSE at[w].invitee
       IN \/ /\ unread' = unread \cup {<<u, at[w].node>>}
             /\ UNCHANGED budget
          \/ /\ budget.faults > 0
             /\ budget' = [budget EXCEPT !.faults = @ - 1]
             /\ UNCHANGED unread
    /\ Goto(w, IF at[w].pc = "unreadInviter" THEN "trackUnread" ELSE "trackFinish")
    /\ UNCHANGED <<req, node, count, message, friends, told>>

-----------------------------------------------------------------------------
(* What both chains share.                                                 *)

\* Fault: the status is recorded before the write it stands for.
TracksEarly == {<<"trackCount", "createNodeCount", "incCount">>,
                <<"trackAgree", "agree", "addInviter">>,
                <<"trackInviter", "invitee", "unreadInviter">>,
                <<"trackUnread", "userUnreadInviter", "addInvitee">>,
                <<"trackInvitee", "invitee", "unreadInvitee">>,
                <<"trackFinish", "finish", "answerAuth">>}

\* The "track" updates that only set the status.
Tracks == {<<"trackCount", "createNodeCount", "incCount">>,
           <<"trackAgree", "agree", "addInviter">>,
           <<"trackInviter", "inviter", "unreadInviter">>,
           <<"trackUnread", "userUnreadInviter", "addInvitee">>,
           <<"trackInvitee", "invitee", "unreadInvitee">>,
           <<"trackFinish", "finish", "answerAuth">>}

Track(w) ==
    /\ \E t \in Tracks :
          /\ at[w].pc = t[1]
          /\ req' = [req EXCEPT ![KeyOf(w)].status = t[2]]
          /\ Goto(w, t[3])
    /\ UNCHANGED <<node, count, message, friends, unread, told, budget>>

\* The answer and its notifications.
Answered(w) ==
    /\ at[w].pc \in {"answerAdd", "answerAuth"}
    /\ told' = told \cup
          {[type |-> IF at[w].pc = "answerAdd" THEN "addfriendres" ELSE "addfriendauthorizeres",
            inviter |-> at[w].inviter, invitee |-> at[w].invitee, node |-> at[w].node]}
    /\ at' = [at EXCEPT ![w] = Idle]
    /\ UNCHANGED <<dbVars, budget>>

\* A write throws: the handler answers 40004 or 40005 and leaves the rest.
Fail(w) ==
    /\ at[w] # Idle
    /\ budget.faults > 0
    /\ budget' = [budget EXCEPT !.faults = @ - 1]
    /\ at' = [at EXCEPT ![w] = Idle]
    /\ UNCHANGED <<dbVars, told>>

\* The server of a worker ends; nothing resumes what it was doing.
Crash(w) ==
    /\ at[w] # Idle
    /\ budget.crashes > 0
    /\ budget' = [budget EXCEPT !.crashes = @ - 1]
    /\ at' = [at EXCEPT ![w] = Idle]
    /\ UNCHANGED <<dbVars, told>>

Next ==
    \E w \in Worker :
        \/ \E a, b \in User : AddFriend(w, a, b) \/ AddFriendAuthorize(w, a, b)
        \/ InsertRequest(w) \/ InsertNode(w) \/ TrackNode(w) \/ InsertCount(w)
        \/ IncCount(w) \/ InsertMessage(w)
        \/ FindRequest(w) \/ AddInviter(w) \/ AddInvitee(w) \/ InsertUnread(w)
        \/ Track(w) \/ Answered(w) \/ Fail(w) \/ Crash(w)

Spec == Init /\ [][Next]_vars

-----------------------------------------------------------------------------
(* Properties.                                                             *)

\* Type invariant.
TypeOK ==
    /\ DOMAIN req \subseteq Key /\ \A k \in DOMAIN req : req[k] \in Request
    /\ DOMAIN node \subseteq Node /\ \A n \in DOMAIN node : node[n] \in Key
    /\ DOMAIN count \subseteq Node /\ \A n \in DOMAIN count : count[n] \in 0..1
    /\ message \subseteq Node \X {0}
    /\ friends \in [User -> SUBSET (User \X Node)]
    /\ unread \subseteq User \X Node
    /\ at \in [Worker -> Job \cup {Idle}]
    /\ told \subseteq Answer

Linked(k, n, u, v) == k = {u, v} /\ <<v, n>> \in friends[u]

\* The status that addFriend and addFriendAuthorize record is true of the
\* other collections, wherever a chain was cut and whatever other worker is
\* in the same chain: createNode means the node of exactly these two users is
\* there, createNodeCount that it counts messages, inviter that one of them
\* has the other as a friend, invitee and finish that each has the other, and
\* finish ("userUnreadInvitee", chat_message.proto:286) that both have their
\* unread counter, but for the failures that insertUnreadNode swallowed, each
\* of which costs one counter.  A friendship that only one side has (the chain
\* was cut between the two users, or is between them) has its request, and the
\* request is not recorded as finished.
StatusIsTrue ==
    /\ \A u, v \in User :
          IsFriend(u, v) /\ ~IsFriend(v, u)
              => {u, v} \in DOMAIN req /\ req[{u, v}].status # "finish"
    /\ \A k \in DOMAIN req :
          LET r == req[k] IN
          /\ r.status # "request" => r.node \in DOMAIN node /\ node[r.node] = k
          /\ r.status \notin {"request", "createNode"} => r.node \in DOMAIN count
          /\ r.status \in {"inviter", "userUnreadInviter"}
                => Linked(k, r.node, r.inviter, r.invitee) \/ Linked(k, r.node, r.invitee, r.inviter)
          /\ r.status \in {"invitee", "finish"}
                => Linked(k, r.node, r.inviter, r.invitee) /\ Linked(k, r.node, r.invitee, r.inviter)
    /\ Cardinality({p \in (DOMAIN req) \X User :
                       /\ req[p[1]].status = "finish" /\ p[2] \in p[1]
                       /\ <<p[2], req[p[1]].node>> \notin unread})
          <= Faults - budget.faults

\* Two users never get two conversations: the two entries of a friendship,
\* made by separate writes and perhaps by different workers, name the node of
\* their request, which has exactly these two members.
OneConversation ==
    \A u \in User : \A e \in friends[u] :
        LET k == {u, e[1]}
        IN k \in DOMAIN req /\ req[k].node = e[2] /\ e[2] \in DOMAIN node /\ node[e[2]] = k

\* A success that was answered stays true: after AddFriendRes the request can
\* be authorized over the node it named and holds its first message, after
\* AddFriendAuthorizeRes both users have each other.
AnswersHold ==
    \A r \in told :
        LET k == {r.inviter, r.invitee} IN
        /\ k \in DOMAIN req /\ req[k].node = r.node
        /\ r.type = "addfriendres"
              => req[k].status \notin {"request", "createNode"} /\ <<r.node, 0>> \in message
        /\ r.type = "addfriendauthorizeres"
              => Linked(k, r.node, r.inviter, r.invitee) /\ Linked(k, r.node, r.invitee, r.inviter)
=============================================================================
