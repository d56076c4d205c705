---------------------------- MODULE Conversation ----------------------------
(***************************************************************************)
(* Messages of a conversation node (yijian/server_msg_typemap.cxx,         *)
(* yijian/mongo.cxx): dispatch(NodeMessage) numbers a message with the     *)
(* node's counter, stores it, answers the sender, moves the recipient's    *)
(* unread mark and notifies; dispatch(QueryMessage) moves the reader's     *)
(* mark; dispatch(ClientConnect) reports the marks to a returning user.    *)
(*                                                                         *)
(* A step is one database operation or one mountBuffer2Node.  Worker is    *)
(* the set of threads over the same database, one per server.  The nodes   *)
(* are those addFriend makes: their documents lack the fields "version"    *)
(* and "members" (it writes "memebers"), so queryNode throws on them.      *)
(***************************************************************************)
EXTENDS Naturals, FiniteSets

CONSTANTS User, Node, Worker,
          Members,     \* Members[n]: the two users of node n
          MaxMessage,  \* bound: NodeMessage requests
          MaxQuery,    \* bound: range of a QueryMessage, 50 in the code
          Faults,      \* bound: operations that throw
          Crashes      \* bound: restarts

ASSUME ConversationAssumption ==
    /\ Members \in [Node -> SUBSET User] /\ IsFiniteSet(Worker)
    /\ MaxMessage \in Nat /\ MaxQuery \in Nat \ {0}
    /\ Faults \in Nat /\ Crashes \in Nat

VARIABLES
    count,   \* messageNodeCount
    msg,     \* nodeMessage: <<node, incrementID>> -> the request it stores
    mark,    \* userUnread: <<user, node>> -> both increments
    at,      \* where each worker is in dispatch(NodeMessage)
    sent,    \* NodeMessage requests so far
    acked,   \* NodeMessageRes sent, as <<node, incrementID, request>>
    noti,    \* NodeMessageNoti sent for messages
    back,    \* NodeMessageNoti sent to returning users
    budget

dbVars == <<count, msg, mark>>
outVars == <<acked, noti, back>>
vars == <<dbVars, outVars, at, sent, budget>>

Idle == [pc |-> "idle"]
PC == {"inc", "insert", "ack", "own", "unread", "notify", "queryNode"}
Id == 0..MaxMessage
\* touserid_outer is a user for a message to a friend, 0 for one to a group.
\* before is history: the ids acknowledged in the node when the request came.
Job == [pc : PC, from : User, to : User \cup {0}, node : Node, id : Id,
        request : 1..MaxMessage, before : SUBSET Id]
\* own: it tells the sender's other devices of the sender's message.
Noti == [user : User, node : Node, id : Id \cup {1}, own : BOOLEAN]

\* The request message of addFriend took id 0; insertUnreadNode starts both
\* increments at 1, unless its insert failed.
Init ==
    /\ count = [n \in Node |-> 1]
    /\ msg = [k \in Node \X {0} |-> 0]
    /\ \E rows \in SUBSET {k \in User \X Node : k[1] \in Members[k[2]]} :
          mark = [k \in rows |-> [unread |-> 1, readed |-> 1]]
    /\ at = [w \in Worker |-> Idle]
    /\ sent = 0
    /\ acked = {} /\ noti = {} /\ back = {}
    /\ budget = [faults |-> Faults, crashes |-> Crashes]

Put(f, k, v) == [x \in DOMAIN f \cup {k} |-> IF x = k THEN v ELSE f[x]]
Goto(w, pc) == at' = [at EXCEPT ![w].pc = pc]

Acked(n) == {a[2] : a \in {x \in acked : x[1] = n}}

-----------------------------------------------------------------------------
(* dispatch(NodeMessage).                                                  *)

NodeMessage(w, u, n, to) ==
    /\ at[w] = Idle /\ sent < MaxMessage
    /\ u \in Members[n] /\ to \in (Members[n] \ {u}) \cup {0}
    /\ sent' = sent + 1
    /\ at' = [at EXCEPT ![w] = [pc |-> "inc", from |-> u, to |-> to, node |-> n,
                                id |-> 0, request |-> sent + 1, before |-> Acked(n)]]
    /\ UNCHANGED <<dbVars, outVars, budget>>

\* Fault: the count is read and not incremented.
IncCountNot(w) ==
    /\ at[w].pc = "inc"
    /\ at' = [at EXCEPT ![w].pc = "insert", ![w].id = count[at[w].node]]
    /\ UNCHANGED <<dbVars, outVars, sent, budget>>

\* find_one_and_update is atomic and returns the document before the update.
IncCount(w) ==
    /\ at[w].pc = "inc"
    /\ count' = [count EXCEPT ![at[w].node] = @ + 1]
    /\ at' = [at EXCEPT ![w].pc = "insert", ![w].id = count[at[w].node]]
    /\ UNCHANGED <<msg, mark, outVars, sent, budget>>

\* Fault: an id that is taken is overwritten.
InsertOver(w) ==
    /\ at[w].pc = "insert"
    /\ msg' = Put(msg, <<at[w].node, count[at[w].node] - 1>>, at[w].request)
    /\ Goto(w, "ack")
    /\ UNCHANGED <<count, mark, outVars, sent, budget>>

\* (toNodeID, incrementID) has a unique index: 40051 when it is taken.
InsertMessage(w) ==
    LET k == <<at[w].node, at[w].id>> IN
    /\ at[w].pc = "insert"
    /\ IF k \in DOMAIN msg
       THEN at' = [at EXCEPT ![w] = Idle] /\ UNCHANGED msg
       ELSE msg' = Put(msg, k, at[w].request) /\ Goto(w, "ack")
    /\ UNCHANGED <<count, mark, outVars, sent, budget>>

\* The sender's answer.
Ack(w) ==
    /\ at[w].pc = "ack"
    /\ acked' = acked \cup {<<at[w].node, at[w].id, at[w].request>>}
    /\ Goto(w, IF at[w].to = 0 THEN "queryNode" ELSE "own")
    /\ UNCHANGED <<dbVars, noti, back, sent, budget>>

Notification(w, user) ==
    [user |-> user, node |-> at[w].node, id |-> at[w].id, own |-> user = at[w].from]

\* The sender's other devices.
NotifyOwn(w) ==
    /\ at[w].pc = "own"
    /\ noti' = noti \cup {Notification(w, at[w].from)}
    /\ Goto(w, "unread")
    /\ UNCHANGED <<dbVars, acked, back, sent, budget>>

\* The group branch: queryNode throws, and the sender gets an error after its
\* answer.
QueryNodeThrows(w) ==
    /\ at[w].pc = "queryNode"
    /\ at' = [at EXCEPT ![w] = Idle]
    /\ UNCHANGED <<dbVars, outVars, sent, budget>>

\* Fault: the mark is set whatever it was.
SetUnread(w) ==
    LET k == <<at[w].to, at[w].node>> IN
    /\ at[w].pc = "unread"
    /\ mark' = IF k \in DOMAIN mark THEN [mark EXCEPT ![k].unread = at[w].id] ELSE mark
    /\ Goto(w, "notify")
    /\ UNCHANGED <<count, msg, outVars, sent, budget>>

\* updateUnreadIncrement changes the row only when its mark is lower.  What
\* the update throws is caught and logged, and the handler goes on.
UpdateUnread(w) ==
    LET k == <<at[w].to, at[w].node>> IN
    /\ at[w].pc = "unread"
    /\ \/ /\ mark' = IF k \in DOMAIN mark /\ mark[k].unread < at[w].id
                     THEN [mark EXCEPT ![k].unread = at[w].id] ELSE mark
          /\ UNCHANGED budget
       \/ /\ budget.faults > 0
          /\ budget' = [budget EXCEPT !.faults = @ - 1]
          /\ UNCHANGED mark
    /\ Goto(w, "notify")
    /\ UNCHANGED <<count, msg, outVars, sent>>

Notify(w) ==
    /\ at[w].pc = "notify"
    /\ noti' = noti \cup {Notification(w, at[w].to)}
    /\ at' = [at EXCEPT ![w] = Idle]
    /\ UNCHANGED <<dbVars, acked, back, sent, budget>>

\* A database operation throws (looking up the devices to notify is one): the
\* handler answers with an error and stops.
Fail(w) ==
    /\ at[w].pc \in {"inc", "insert", "own", "notify"}
    /\ budget.faults > 0
    /\ budget' = [budget EXCEPT !.faults = @ - 1]
    /\ at' = [at EXCEPT ![w] = Idle]
    /\ UNCHANGED <<dbVars, outVars, sent>>

Crash(w) ==
    /\ at[w] # Idle
    /\ budget.crashes > 0
    /\ budget' = [budget EXCEPT !.crashes = @ - 1]
    /\ at' = [at EXCEPT ![w] = Idle]
    /\ UNCHANGED <<dbVars, outVars, sent>>

-----------------------------------------------------------------------------
(* The other handlers; each is one database operation.                     *)

\* 11008 unless the range is open (to = 0) or neither empty nor too long.
ValidQuery(from, to) == to = 0 \/ (from < to /\ to - from <= MaxQuery)

\* updateReadedIncrement to toIncrementID - 1, only upwards; an open query
\* would set -1 and so changes nothing.
QueryMessage(u, n, from, to) ==
    LET k == <<u, n>> IN
    /\ ValidQuery(from, to)
    /\ to > 0 /\ k \in DOMAIN mark /\ mark[k].readed < to - 1
    /\ mark' = [mark EXCEPT ![k].readed = to - 1]
    /\ UNCHANGED <<count, msg, outVars, at, sent, budget>>

\* "send unreaded": each mark of the user becomes a notification to his new
\* connection.
ClientConnect(u) ==
    /\ back' = back \cup {[user |-> u, node |-> k[2], id |-> mark[k].unread, own |-> FALSE] :
                            k \in {x \in DOMAIN mark : x[1] = u}}
    /\ back' # back
    /\ UNCHANGED <<dbVars, acked, noti, at, sent, budget>>

-----------------------------------------------------------------------------
Next ==
    \/ \E w \in Worker :
          \/ \E u \in User, n \in Node, to \in User \cup {0} : NodeMessage(w, u, n, to)
          \/ IncCount(w) \/ InsertMessage(w) \/ Ack(w) \/ NotifyOwn(w)
          \/ QueryNodeThrows(w) \/ UpdateUnread(w) \/ Notify(w) \/ Fail(w) \/ Crash(w)
    \/ \E u \in User, n \in Node, from, to \in Id : QueryMessage(u, n, from, to)
    \/ \E u \in User : ClientConnect(u)

Spec == Init /\ [][Next]_vars

-----------------------------------------------------------------------------
(* Properties.                                                             *)

\* Type invariant; every stored id has been counted.
TypeOK ==
    /\ count \in [Node -> 1..(MaxMessage + 1)]
    /\ \A k \in DOMAIN msg : /\ k[1] \in Node /\ k[2] \in 0..(count[k[1]] - 1)
                             /\ msg[k] \in 0..MaxMessage
    /\ DOMAIN mark \subseteq User \X Node
    /\ \A k \in DOMAIN mark : mark[k] \in [unread : Id \cup {1}, readed : Id \cup {1}]
    /\ at \in [Worker -> Job \cup {Idle}]
    /\ sent \in 0..MaxMessage
    /\ acked \subseteq Node \X Id \X (1..MaxMessage)
    /\ noti \subseteq Noti /\ back \subseteq Noti

\* The requests being handled and what users were told, as MessageService has
\* them.
Open == {[request |-> at[w].request, node |-> at[w].node, before |-> at[w].before] :
            w \in {x \in Worker : at[x] # Idle}}
Told == {[user |-> x.user, node |-> x.node, id |-> x.id] : x \in noti \cup back}

\* The workers together are the MessageService.  A NodeMessageRes is a lasting
\* promise although the counter and the insert are separate writes: the message
\* is stored once, under an id no other one has and above those acknowledged
\* before it was sent; a notification names a message that can be fetched with
\* QueryOneMessage, and so does the report to a returning user ("send unreaded",
\* server_msg_typemap.cxx:458), but for id 1, at which marks start.
Service == INSTANCE MessageService WITH
    Request <- 1..MaxMessage, Id <- Id \cup {1},
    open <- Open, stored <- msg, promised <- acked, told <- Told
ServiceSpec == Service!Spec

\* What a returning user is told covers the messages of the other user he was
\* notified of: no late update of a slower worker moves the unread mark back,
\* and each message the mark is short of is owed to an update that threw.
UnreadCovers ==
    Cardinality({x \in noti : LET k == <<x.user, x.node>> IN
                    ~x.own /\ k \in DOMAIN mark /\ mark[k].unread < x.id})
        <= Faults - budget.faults
=============================================================================
