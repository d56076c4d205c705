--------------------------- MODULE Friends_proofs ---------------------------
(***************************************************************************)
(* Proofs about friend requests, for every number of users, workers,       *)
(* conversations, faults and restarts.                                     *)
(***************************************************************************)
EXTENDS Friends, FiniteSetTheorems, TLAPS

\* A conversation that messages can be counted in: its request has come that
\* far, which no later write takes back.
Early == {"request", "createNode"}
Settled(k, n) ==
    /\ k \in DOMAIN req /\ req[k].node = n /\ req[k].status \notin Early
    /\ n \in DOMAIN node /\ node[n] = k /\ n \in DOMAIN count

\* What has been written before a worker is where it is.
Adding == AddPC \ {"insertRequest"}
Agreeing == AuthPC \ {"findRequest"}
PastInviter == {"trackInviter", "unreadInviter", "trackUnread", "addInvitee"}
PastInvitee == {"trackInvitee", "unreadInvitee", "trackFinish", "answerAuth"}

Hand(w) ==
    LET k == KeyOf(w)
        n == at[w].node
        pc == at[w].pc
    IN /\ pc \in Adding => k \in DOMAIN req
       /\ pc = "insertNode" => req[k].status = "request"
       /\ pc = "trackNode" => req[k].status = "request" /\ n \in DOMAIN node /\ node[n] = k
       /\ pc \in {"insertCount", "trackCount"} => req[k].status = "createNode" /\ req[k].node = n
       /\ pc = "trackCount" => n \in DOMAIN count
       /\ pc \in {"incCount", "insertMessage", "answerAdd"} \cup Agreeing => Settled(k, n)
       /\ pc \in {"trackCount", "incCount"} => count[n] = 0
       /\ pc = "insertMessage" => count[n] = 1
       /\ pc = "answerAdd" => <<n, 0>> \in message
       /\ pc \in PastInviter \cup PastInvitee => <<at[w].invitee, n>> \in friends[at[w].inviter]
       /\ pc \in PastInvitee => <<at[w].inviter, n>> \in friends[at[w].invitee]

Hands == \A w \in Worker : Hand(w)

\* Only the worker that inserted a request is in its chain.
OneAdder ==
    \A w, x \in Worker :
        w # x /\ at[w].pc \in Adding /\ at[x].pc \in Adding => KeyOf(w) # KeyOf(x)

\* What the status of a request stands for.
RequestTrue(k) ==
    LET r == req[k] IN
    /\ k = {r.inviter, r.invitee}
    /\ r.status # "request" => r.node \in DOMAIN node /\ node[r.node] = k
    /\ r.status \notin Early => r.node \in DOMAIN count
    /\ r.status \in {"inviter", "userUnreadInviter"} =>
          <<r.invitee, r.node>> \in friends[r.inviter]
             \/ <<r.inviter, r.node>> \in friends[r.invitee]
    /\ r.status \in {"invitee", "finish"} =>
          <<r.invitee, r.node>> \in friends[r.inviter]
             /\ <<r.inviter, r.node>> \in friends[r.invitee]

Requests == \A k \in DOMAIN req : RequestTrue(k)

Entries == \A u \in User : \A e \in friends[u] : Settled({u, e[1]}, e[2])

ToldTrue ==
    \A r \in told :
        /\ Settled({r.inviter, r.invitee}, r.node)
        /\ r.type = "addfriendres" => <<r.node, 0>> \in message
        /\ r.type = "addfriendauthorizeres" =>
              <<r.invitee, r.node>> \in friends[r.inviter]
                 /\ <<r.inviter, r.node>> \in friends[r.invitee]

Inv == TypeOK /\ Requests /\ Entries /\ ToldTrue /\ Hands /\ OneAdder

\* A worker with job j is past the counter of u, and may record the request finished.
Passed(j, u) ==
    \/ j.pc \in {"trackUnread", "addInvitee", "trackInvitee", "unreadInvitee", "trackFinish"}
          /\ u = j.inviter
    \/ j.pc = "trackFinish" /\ u = j.invitee

\* Counters of a finished or almost finished request that are not there.
Missing ==
    {p \in (DOMAIN req) \X User :
        /\ p[2] \in p[1] /\ <<p[2], req[p[1]].node>> \notin unread
        /\ req[p[1]].status = "finish"
              \/ \E w \in Worker : Passed(at[w], p[2]) /\ KeyOf(w) = p[1]}

Owed ==
    /\ IsFiniteSet(Missing)
    /\ Cardinality(Missing) <= Faults - budget.faults
    /\ budget \in [faults : 0..Faults, crashes : 0..Crashes]

-----------------------------------------------------------------------------
(* What no step takes back.                                                *)

Grows ==
    /\ \A n \in DOMAIN node : n \in DOMAIN node' /\ node'[n] = node[n]
    /\ DOMAIN count \subseteq DOMAIN count'
    /\ \A u \in User : friends[u] \subseteq friends'[u]
    /\ message \subseteq message'

RequestsStay ==
    \A k \in DOMAIN req :
        /\ k \in DOMAIN req'
        /\ req'[k].inviter = req[k].inviter /\ req'[k].invitee = req[k].invitee
        /\ req[k].status \notin Early =>
              req'[k].status \notin Early /\ req'[k].node = req[k].node

LEMMA SettledStays ==
    ASSUME Grows, RequestsStay, NEW k, NEW n, Settled(k, n)
    PROVE  Settled(k, n)'
BY DEF Grows, RequestsStay, Settled

LEMMA ToldStays ==
    ASSUME TypeOK, ToldTrue, Grows, RequestsStay, UNCHANGED told
    PROVE  ToldTrue'
<1> SUFFICES ASSUME NEW r \in told
             PROVE  /\ Settled({r.inviter, r.invitee}, r.node)'
                    /\ r.type = "addfriendres" => <<r.node, 0>> \in message'
                    /\ r.type = "addfriendauthorizeres" =>
                          <<r.invitee, r.node>> \in friends'[r.inviter]
                             /\ <<r.inviter, r.node>> \in friends'[r.invitee]
    BY DEF ToldTrue, Settled
<1>1. r.inviter \in User /\ r.invitee \in User
    BY DEF TypeOK, Answer
<1>2. Settled({r.inviter, r.invitee}, r.node)'
    BY SettledStays DEF ToldTrue
<1>3. QED
    BY <1>1, <1>2 DEF ToldTrue, Grows

LEMMA EntriesStay ==
    ASSUME Entries, Grows, RequestsStay, UNCHANGED friends
    PROVE  Entries'
<1> SUFFICES ASSUME NEW u \in User, NEW e \in friends[u]
             PROVE  Settled({u, e[1]}, e[2])'
    BY DEF Entries, Settled
<1>1. QED
    BY SettledStays DEF Entries

\* With a request as it is, what it stands for stays.
LEMMA RequestStaysTrue ==
    ASSUME TypeOK, Requests, Grows, NEW k \in DOMAIN req, req'[k] = req[k]
    PROVE  RequestTrue(k)'
<1>1. PICK r : r = req[k] /\ r = req'[k]
    OBVIOUS
<1>2. r \in Request /\ r.inviter \in User /\ r.invitee \in User
    BY <1>1 DEF TypeOK, Request
<1>3. /\ k = {r.inviter, r.invitee}
      /\ r.status # "request" => r.node \in DOMAIN node' /\ node'[r.node] = k
      /\ r.status \notin Early => r.node \in DOMAIN count'
      /\ r.status \in {"inviter", "userUnreadInviter"} =>
            <<r.invitee, r.node>> \in friends'[r.inviter]
               \/ <<r.inviter, r.node>> \in friends'[r.invitee]
      /\ r.status \in {"invitee", "finish"} =>
            <<r.invitee, r.node>> \in friends'[r.inviter]
               /\ <<r.inviter, r.node>> \in friends'[r.invitee]
    BY <1>1, <1>2 DEF Requests, RequestTrue, Grows
<1>4. QED
    BY <1>1, <1>3 DEF RequestTrue, Early

LEMMA RequestsTrue ==
    ASSUME TypeOK, Requests, Grows, UNCHANGED req
    PROVE  Requests'
BY RequestStaysTrue DEF Requests

\* Only the request k is new or changed.
LEMMA RequestsTrueBut ==
    ASSUME TypeOK, Requests, Grows, NEW k, DOMAIN req' \subseteq DOMAIN req \cup {k},
           \A x \in DOMAIN req : x # k => req'[x] = req[x], RequestTrue(k)'
    PROVE  Requests'
<1>1. ASSUME NEW x \in DOMAIN req', x # k PROVE RequestTrue(x)'
    BY <1>1, RequestStaysTrue
<1>2. QED
    BY <1>1 DEF Requests

-----------------------------------------------------------------------------
(* The workers.                                                            *)

LEMMA JobFields ==
    ASSUME TypeOK, NEW w \in Worker, at[w].pc \in AddPC \cup AuthPC
    PROVE  /\ at[w] \in Job /\ at[w] # Idle
           /\ at[w].inviter \in User /\ at[w].invitee \in User
           /\ at[w].node \in Node \cup {0} /\ KeyOf(w) \in Key
<1>1. at[w] \in Job
    BY DEF TypeOK, Idle, AddPC, AuthPC
<1>2. QED
    BY <1>1 DEF Job, KeyOf, Key, Idle, AddPC, AuthPC

\* w goes on: it keeps its request, and the others stay where they are.
Moves(w, pc) ==
    /\ at' \in [Worker -> Job \cup {Idle}]
    /\ at'[w].pc = pc /\ at'[w].node = at[w].node
    /\ at'[w].inviter = at[w].inviter /\ at'[w].invitee = at[w].invitee
    /\ KeyOf(w)' = KeyOf(w)
    /\ \A x \in Worker : x # w => at'[x] = at[x]

LEMMA GotoMoves ==
    ASSUME TypeOK, NEW w \in Worker, at[w].pc \in AddPC \cup AuthPC,
           NEW pc \in AddPC \cup AuthPC, Goto(w, pc)
    PROVE  Moves(w, pc)
<1>1. at[w] \in Job /\ at \in [Worker -> Job \cup {Idle}]
    BY JobFields DEF TypeOK
<1>2. at' = [at EXCEPT ![w].pc = pc]
    BY DEF Goto
<1>3. /\ at'[w] = [at[w] EXCEPT !.pc = pc]
      /\ \A x \in Worker : x # w => at'[x] = at[x]
    BY <1>1, <1>2
<1>4. at'[w] \in Job /\ at'[w].pc = pc /\ at'[w].node = at[w].node
      /\ at'[w].inviter = at[w].inviter /\ at'[w].invitee = at[w].invitee
    BY <1>1, <1>3 DEF Job
<1>5. at' \in [Worker -> Job \cup {Idle}]
    BY <1>1, <1>2, <1>3, <1>4
<1>6. KeyOf(w)' = KeyOf(w)
    BY <1>4 DEF KeyOf
<1>7. QED
    BY <1>3, <1>4, <1>5, <1>6 DEF Moves

\* The worker does not leave its place, and its request stays where it is, or
\* it relies only on what is settled.
LEMMA HandStays ==
    ASSUME TypeOK, Hands, Grows, RequestsStay,
           NEW x \in Worker, at'[x] = at[x],
           at[x].pc \in {"insertNode", "trackNode", "insertCount", "trackCount"} =>
               req'[KeyOf(x)] = req[KeyOf(x)],
           at[x].pc \in {"trackCount", "incCount", "insertMessage"} =>
               count'[at[x].node] = count[at[x].node]
    PROVE  Hand(x)'
<1> DEFINE k == KeyOf(x)
           n == at[x].node
           pc == at[x].pc
<1>1. Hand(x) /\ KeyOf(x)' = k /\ n' = n /\ pc' = pc
    BY DEF Hands, KeyOf
<1>2. pc \in Adding => k \in DOMAIN req'
    BY <1>1 DEF Hand, RequestsStay
<1>3. pc = "insertNode" => req'[k].status = "request"
    BY <1>1 DEF Hand
<1>4. pc = "trackNode" => req'[k].status = "request" /\ n \in DOMAIN node' /\ node'[n] = k
    BY <1>1 DEF Hand, Grows
<1>5. pc \in {"insertCount", "trackCount"} => req'[k].status = "createNode" /\ req'[k].node = n
    BY <1>1 DEF Hand
<1>6. pc = "trackCount" => n \in DOMAIN count'
    BY <1>1 DEF Hand, Grows
<1>7. pc \in {"incCount", "insertMessage", "answerAdd"} \cup Agreeing => Settled(k, n)'
    BY <1>1, SettledStays DEF Hand
<1>8. /\ pc \in {"trackCount", "incCount"} => count'[n] = 0
      /\ pc = "insertMessage" => count'[n] = 1
      /\ pc = "answerAdd" => <<n, 0>> \in message'
    BY <1>1 DEF Hand, Grows
<1>9. /\ pc \in PastInviter \cup PastInvitee => <<at[x].invitee, n>> \in friends'[at[x].inviter]
      /\ pc \in PastInvitee => <<at[x].inviter, n>> \in friends'[at[x].invitee]
    <2>1. ASSUME pc \in PastInviter \cup PastInvitee
          PROVE  at[x].inviter \in User /\ at[x].invitee \in User
        BY <2>1, JobFields DEF PastInviter, PastInvitee, AuthPC
    <2>2. QED
        BY <1>1, <2>1 DEF Hand, Grows
<1>10. QED
    BY <1>1, <1>2, <1>3, <1>4, <1>5, <1>6, <1>7, <1>8, <1>9 DEF Hand, Settled, KeyOf

\* A worker that is not in the chain of a new request, or was in it before.
LEMMA OneAdderStays ==
    ASSUME OneAdder, NEW w \in Worker, \A x \in Worker : x # w => at'[x] = at[x],
           at'[w].pc \in Adding => at[w].pc \in Adding /\ KeyOf(w)' = KeyOf(w)
    PROVE  OneAdder'
BY DEF OneAdder, KeyOf

\* A step of w that takes nothing back, and does not touch what the others
\* have in hand.
LEMMA StepOf ==
    ASSUME Inv, NEW w \in Worker, TypeOK', Requests', Entries', ToldTrue', OneAdder',
           Grows, RequestsStay, Hand(w)',
           \A x \in Worker : x # w =>
               /\ at'[x] = at[x]
               /\ at[x].pc \in {"insertNode", "trackNode", "insertCount", "trackCount"} =>
                      req'[KeyOf(x)] = req[KeyOf(x)]
               /\ at[x].pc \in {"trackCount", "incCount", "insertMessage"} =>
                      count'[at[x].node] = count[at[x].node]
    PROVE  Inv'
<1>1. TypeOK /\ Hands
    BY DEF Inv
<1>2. ASSUME NEW x \in Worker, x # w PROVE Hand(x)'
    BY <1>1, <1>2, HandStays
<1>3. Hands'
    BY <1>2 DEF Hands
<1>4. QED
    BY <1>3 DEF Inv

\* A step that changes no document.
LEMMA AtOnly ==
    ASSUME Inv, NEW w \in Worker, UNCHANGED <<dbVars, told>>,
           at' \in [Worker -> Job \cup {Idle}], \A x \in Worker : x # w => at'[x] = at[x],
           at'[w].pc \in Adding => at[w].pc \in Adding /\ KeyOf(w)' = KeyOf(w),
           Hand(w)'
    PROVE  Inv'
<1>1. TypeOK /\ Requests /\ Entries /\ ToldTrue /\ OneAdder
    BY DEF Inv
<1>2. UNCHANGED <<req, node, count, message, friends, unread, told>>
    BY DEF dbVars
<1>3. Grows /\ RequestsStay
    BY <1>2 DEF Grows, RequestsStay
<1>4. TypeOK'
    BY <1>1, <1>2 DEF TypeOK
<1>5. Requests' /\ Entries' /\ ToldTrue'
    BY <1>1, <1>2, <1>3, RequestsTrue, EntriesStay, ToldStays
<1>6. OneAdder'
    BY <1>1, OneAdderStays
<1>7. QED
    BY <1>2, <1>3, <1>4, <1>5, <1>6, StepOf

LEMMA IdleHand ==
    ASSUME NEW w \in Worker, at'[w].pc \in {"idle", "insertRequest", "findRequest"}
    PROVE  Hand(w)' /\ at'[w].pc \notin Adding
BY DEF Hand, Adding, Agreeing, AddPC, AuthPC, PastInviter, PastInvitee

\* The answer, an error or the end of its server leaves a worker idle.
LEMMA BackToIdle ==
    ASSUME TypeOK, NEW w \in Worker, at' = [at EXCEPT ![w] = Idle]
    PROVE  /\ at' \in [Worker -> Job \cup {Idle}] /\ at'[w].pc = "idle"
           /\ \A x \in Worker : x # w => at'[x] = at[x]
BY DEF TypeOK, Idle

LEMMA GiveUp ==
    ASSUME Inv, NEW w \in Worker, at' = [at EXCEPT ![w] = Idle], UNCHANGED <<dbVars, told>>
    PROVE  Inv'
<1>1. TypeOK
    BY DEF Inv
<1>2. QED
    BY <1>1, BackToIdle, IdleHand, AtOnly

LEMMA BeginStep ==
    ASSUME Inv, NEW w \in Worker, NEW a \in User, NEW b \in User,
           AddFriend(w, a, b) \/ AddFriendAuthorize(w, a, b)
    PROVE  Inv'
<1>1. TypeOK
    BY DEF Inv
<1>2. PICK pc \in {"insertRequest", "findRequest"} :
          /\ at' = [at EXCEPT ![w] = [pc |-> pc, inviter |-> a, invitee |-> b, node |-> 0]]
          /\ UNCHANGED <<dbVars, told>>
    BY DEF AddFriend, AddFriendAuthorize
<1>3. [pc |-> pc, inviter |-> a, invitee |-> b, node |-> 0] \in Job
    BY DEF Job, AddPC, AuthPC
<1>4. /\ at' \in [Worker -> Job \cup {Idle}] /\ at'[w].pc = pc
      /\ \A x \in Worker : x # w => at'[x] = at[x]
    BY <1>1, <1>2, <1>3 DEF TypeOK
<1>5. QED
    BY <1>2, <1>4, IdleHand, AtOnly

LEMMA FindRequestStep ==
    ASSUME Inv, NEW w \in Worker, FindRequest(w)
    PROVE  Inv'
<1>1. TypeOK /\ Requests
    BY DEF Inv
<1>2. at[w].pc = "findRequest" /\ UNCHANGED <<dbVars, told>>
    BY DEF FindRequest
<1>3. PICK k : k = KeyOf(w)
    OBVIOUS
<1>4. CASE ~(k \in DOMAIN req /\ req[k].status = "createNodeCount")
    <2>1. at' = [at EXCEPT ![w] = Idle]
        BY <1>3, <1>4 DEF FindRequest
    <2>2. QED
        BY <1>2, <2>1, GiveUp
<1>5. CASE k \in DOMAIN req /\ req[k].status = "createNodeCount"
    <2>1. at' = [at EXCEPT ![w] = [@ EXCEPT !.pc = "trackAgree", !.node = req[k].node]]
        BY <1>3, <1>5 DEF FindRequest
    <2>2. at[w] \in Job
        BY <1>1, <1>2, JobFields DEF AuthPC
    <2>3. /\ req[k].node \in Node \cup {0}
          /\ Settled(k, req[k].node)
        BY <1>1, <1>5 DEF TypeOK, Request, Requests, RequestTrue, Settled, Early
    <2>4. /\ at'[w] = [at[w] EXCEPT !.pc = "trackAgree", !.node = req[k].node]
          /\ \A x \in Worker : x # w => at'[x] = at[x]
        BY <1>1, <2>1 DEF TypeOK
    <2>5. /\ at'[w] \in Job /\ at'[w].pc = "trackAgree" /\ at'[w].node = req[k].node
          /\ at'[w].inviter = at[w].inviter /\ at'[w].invitee = at[w].invitee
        BY <2>2, <2>3, <2>4 DEF Job, AuthPC
    <2>6. at' \in [Worker -> Job \cup {Idle}]
        BY <1>1, <2>1, <2>4, <2>5 DEF TypeOK
    <2>7. KeyOf(w)' = k
        BY <1>3, <2>5 DEF KeyOf
    <2>8. Hand(w)' /\ at'[w].pc \notin Adding
        BY <1>2, <2>3, <2>5, <2>7
        DEF Hand, Settled, Adding, Agreeing, AddPC, AuthPC, PastInviter, PastInvitee, dbVars
    <2>9. QED
        BY <1>2, <2>4, <2>6, <2>8, AtOnly
<1>6. QED
    BY <1>4, <1>5

-----------------------------------------------------------------------------
(* addFriend.                                                              *)

LEMMA InsertRequestStep ==
    ASSUME Inv, NEW w \in Worker, InsertRequest(w)
    PROVE  Inv'
<1>1. TypeOK /\ Requests /\ Entries /\ ToldTrue /\ OneAdder /\ Hands
    BY DEF Inv
<1>2. /\ at[w].pc = "insertRequest"
      /\ UNCHANGED <<node, count, message, friends, unread, told>>
    BY DEF InsertRequest
<1>3. PICK k : k = KeyOf(w)
    OBVIOUS
<1>4. CASE k \in DOMAIN req
    <2>1. at' = [at EXCEPT ![w] = Idle] /\ UNCHANGED req
        BY <1>3, <1>4 DEF InsertRequest
    <2>2. QED
        BY <1>2, <2>1, GiveUp DEF dbVars
<1>5. CASE k \notin DOMAIN req
    <2>1. PICK r : r = [inviter |-> at[w].inviter, invitee |-> at[w].invitee,
                        node |-> 0, status |-> "request"]
        OBVIOUS
    <2>2. req' = Put(req, k, r) /\ Goto(w, "insertNode")
        BY <1>3, <1>5, <2>1 DEF InsertRequest
    <2>3. /\ at[w].inviter \in User /\ at[w].invitee \in User /\ k \in Key
          /\ k = {r.inviter, r.invitee} /\ r \in Request /\ r.status = "request"
        BY <1>1, <1>2, <1>3, <2>1, JobFields DEF AddPC, Request, Status, KeyOf
    <2>4. Moves(w, "insertNode")
        BY <1>1, <1>2, <2>2, GotoMoves DEF AddPC
    <2>5. /\ DOMAIN req' = DOMAIN req \cup {k} /\ req'[k] = r
          /\ \A x \in DOMAIN req : req'[x] = req[x]
        BY <1>5, <2>2 DEF Put
    <2>6. Grows /\ RequestsStay
        BY <1>2, <2>5 DEF Grows, RequestsStay
    <2>7. TypeOK'
        <3>1. DOMAIN req' \subseteq Key /\ \A x \in DOMAIN req' : req'[x] \in Request
            BY <1>1, <2>3, <2>5 DEF TypeOK
        <3>2. at' \in [Worker -> Job \cup {Idle}]
            BY <2>4 DEF Moves
        <3>3. QED
            BY <1>1, <1>2, <3>1, <3>2 DEF TypeOK
    <2>8. Requests'
        <3>1. RequestTrue(k)'
            BY <2>3, <2>5 DEF RequestTrue, Early
        <3>2. QED
            BY <1>1, <2>5, <2>6, <3>1, RequestsTrueBut
    <2>9. Entries' /\ ToldTrue'
        BY <1>1, <1>2, <2>6, EntriesStay, ToldStays
    <2>10. \A x \in Worker : at[x].pc \in Adding => KeyOf(x) \in DOMAIN req
        BY <1>1 DEF Hands, Hand
    <2>11. OneAdder'
        <3>1. \A x \in Worker : x # w => at'[x] = at[x] /\ KeyOf(x)' = KeyOf(x)
            BY <2>4 DEF Moves, KeyOf
        <3>2. KeyOf(w)' = k
            BY <1>3, <2>4 DEF Moves
        <3>3. ASSUME NEW x \in Worker, NEW y \in Worker, x # y,
                     at'[x].pc \in Adding, at'[y].pc \in Adding
              PROVE  KeyOf(x)' # KeyOf(y)'
            BY <1>1, <1>5, <2>10, <3>1, <3>2, <3>3 DEF OneAdder
        <3>4. QED
            BY <3>3 DEF OneAdder
    <2>12. Hand(w)'
        BY <1>3, <2>3, <2>4, <2>5
        DEF Hand, Moves, Adding, Agreeing, AddPC, AuthPC, PastInviter, PastInvitee
    <2>13. ASSUME NEW x \in Worker, x # w
           PROVE  /\ at'[x] = at[x]
                  /\ at[x].pc \in {"insertNode", "trackNode", "insertCount", "trackCount"} =>
                         req'[KeyOf(x)] = req[KeyOf(x)]
        BY <2>4, <2>5, <2>10, <2>13 DEF Moves, Adding, AddPC
    <2>14. QED
        BY <1>2, <2>6, <2>7, <2>8, <2>9, <2>11, <2>12, <2>13, StepOf
<1>6. QED
    BY <1>4, <1>5

Counting == {"insertCount", "trackCount", "incCount", "insertMessage"}

\* The node a worker counts in belongs to its request.
LEMMA OwnNode ==
    ASSUME Inv, NEW w \in Worker, at[w].pc \in Counting
    PROVE  at[w].node \in DOMAIN node /\ node[at[w].node] = KeyOf(w) /\ KeyOf(w) \in DOMAIN req
<1>1. Hand(w) /\ Requests
    BY DEF Inv, Hands
<1>2. CASE at[w].pc \in {"insertCount", "trackCount"}
    BY <1>1, <1>2 DEF Hand, Requests, RequestTrue, Adding, AddPC
<1>3. CASE at[w].pc \in {"incCount", "insertMessage"}
    BY <1>1, <1>3 DEF Hand, Settled
<1>4. QED
    BY <1>2, <1>3 DEF Counting

LEMMA OtherNode ==
    ASSUME Inv, NEW w \in Worker, NEW x \in Worker, w # x,
           at[w].pc \in Counting, at[x].pc \in Counting
    PROVE  at[w].node # at[x].node
<1>1. KeyOf(w) # KeyOf(x)
    BY DEF Inv, OneAdder, Counting, Adding, AddPC
<1>2. QED
    BY <1>1, OwnNode

\* Nor does another worker that is adding have its request.
LEMMA OtherKey ==
    ASSUME Inv, NEW w \in Worker, NEW x \in Worker, w # x,
           at[w].pc \in Adding,
           at[x].pc \in {"insertNode", "trackNode", "insertCount", "trackCount"}
    PROVE  KeyOf(x) # KeyOf(w)
BY DEF Inv, OneAdder, Adding, AddPC

LEMMA InsertNodeStep ==
    ASSUME Inv, NEW w \in Worker, InsertNode(w)
    PROVE  Inv'
<1>1. TypeOK /\ Requests /\ Entries /\ ToldTrue /\ OneAdder /\ Hand(w)
    BY DEF Inv, Hands
<1>2. /\ at[w].pc = "insertNode"
      /\ UNCHANGED <<req, count, message, friends, unread, told>>
    BY DEF InsertNode
<1>3. PICK k : k = KeyOf(w)
    OBVIOUS
<1>4. PICK n \in Node \ DOMAIN node :
          /\ node' = Put(node, n, k)
          /\ at' = [at EXCEPT ![w].pc = "trackNode", ![w].node = n]
    BY <1>3 DEF InsertNode
<1>5. at[w] \in Job /\ k \in Key
    BY <1>1, <1>2, <1>3, JobFields DEF AddPC
<1>6. /\ at'[w] = [at[w] EXCEPT !.pc = "trackNode", !.node = n]
      /\ \A x \in Worker : x # w => at'[x] = at[x]
    BY <1>1, <1>4 DEF TypeOK
<1>7. /\ at'[w] \in Job /\ at'[w].pc = "trackNode" /\ at'[w].node = n
      /\ at'[w].inviter = at[w].inviter /\ at'[w].invitee = at[w].invitee
    BY <1>5, <1>6 DEF Job, AddPC
<1>8. at' \in [Worker -> Job \cup {Idle}]
    BY <1>1, <1>4, <1>6, <1>7 DEF TypeOK
<1>9. KeyOf(w)' = k
    BY <1>3, <1>7 DEF KeyOf
<1>10. /\ DOMAIN node' = DOMAIN node \cup {n} /\ node'[n] = k
       /\ \A x \in DOMAIN node : node'[x] = node[x]
    BY <1>4 DEF Put
<1>11. Grows /\ RequestsStay
    BY <1>2, <1>10 DEF Grows, RequestsStay
<1>12. TypeOK'
    <2>1. DOMAIN node' \subseteq Node /\ \A x \in DOMAIN node' : node'[x] \in Key
        BY <1>1, <1>5, <1>10 DEF TypeOK
    <2>2. QED
        BY <1>1, <1>2, <1>8, <2>1 DEF TypeOK
<1>13. Requests' /\ Entries' /\ ToldTrue'
    BY <1>1, <1>2, <1>11, RequestsTrue, EntriesStay, ToldStays
<1>14. OneAdder'
    BY <1>1, <1>2, <1>3, <1>6, <1>9, OneAdderStays DEF Adding, AddPC
<1>15. Hand(w)'
    <2>1. k \in DOMAIN req /\ req[k].status = "request"
        BY <1>1, <1>2, <1>3 DEF Hand, Adding, AddPC
    <2>2. QED
        BY <1>2, <1>7, <1>9, <1>10, <2>1
        DEF Hand, Adding, Agreeing, AddPC, AuthPC, PastInviter, PastInvitee
<1>16. QED
    BY <1>2, <1>6, <1>11, <1>12, <1>13, <1>14, <1>15, StepOf

LEMMA TrackNodeStep ==
    ASSUME Inv, NEW w \in Worker, TrackNode(w)
    PROVE  Inv'
<1>1. TypeOK /\ Requests /\ Entries /\ ToldTrue /\ OneAdder /\ Hand(w)
    BY DEF Inv, Hands
<1>2. /\ at[w].pc = "trackNode" /\ Goto(w, "insertCount")
      /\ UNCHANGED <<node, count, message, friends, unread, told>>
    BY DEF TrackNode
<1>3. PICK k : k = KeyOf(w)
    OBVIOUS
<1>4. PICK n : n = at[w].node
    OBVIOUS
<1>5. Moves(w, "insertCount")
    BY <1>1, <1>2, GotoMoves DEF AddPC
<1>6. /\ k \in DOMAIN req /\ req[k].status = "request" /\ n \in DOMAIN node /\ node[n] = k
      /\ n \in Node /\ req[k] \in Request
    BY <1>1, <1>2, <1>3, <1>4 DEF Hand, Adding, AddPC, TypeOK
<1>7. req' = [req EXCEPT ![k].status = "createNode", ![k].node = n]
    BY <1>3, <1>4 DEF TrackNode
<1>8. /\ DOMAIN req' = DOMAIN req
      /\ req'[k] = [req[k] EXCEPT !.status = "createNode", !.node = n]
      /\ \A x \in DOMAIN req : x # k => req'[x] = req[x]
    BY <1>6, <1>7
<1>9. /\ req'[k] \in Request /\ req'[k].status = "createNode" /\ req'[k].node = n
      /\ req'[k].inviter = req[k].inviter /\ req'[k].invitee = req[k].invitee
    BY <1>6, <1>8 DEF Request, Status
<1>10. Grows /\ RequestsStay
    BY <1>2, <1>6, <1>8, <1>9 DEF Grows, RequestsStay, Early
<1>11. TypeOK'
    <2>1. DOMAIN req' \subseteq Key /\ \A x \in DOMAIN req' : req'[x] \in Request
        BY <1>1, <1>8, <1>9 DEF TypeOK
    <2>2. at' \in [Worker -> Job \cup {Idle}]
        BY <1>5 DEF Moves
    <2>3. QED
        BY <1>1, <1>2, <2>1, <2>2 DEF TypeOK
<1>12. Requests'
    <2>1. RequestTrue(k)
        BY <1>1, <1>6 DEF Requests
    <2>2. RequestTrue(k)'
        BY <1>2, <1>6, <1>9, <2>1 DEF RequestTrue, Early
    <2>3. QED
        BY <1>1, <1>8, <1>10, <2>2, RequestsTrueBut
<1>13. Entries' /\ ToldTrue'
    BY <1>1, <1>2, <1>10, EntriesStay, ToldStays
<1>14. OneAdder'
    BY <1>1, <1>2, <1>5, OneAdderStays DEF Moves, Adding, AddPC
<1>15. Hand(w)'
    BY <1>3, <1>4, <1>5, <1>8, <1>9, <1>6
    DEF Moves, Hand, Adding, Agreeing, AddPC, AuthPC, PastInviter, PastInvitee
<1>16. ASSUME NEW x \in Worker, x # w
       PROVE  /\ at'[x] = at[x]
              /\ at[x].pc \in {"insertNode", "trackNode", "insertCount", "trackCount"} =>
                     req'[KeyOf(x)] = req[KeyOf(x)]
    <2>1. at'[x] = at[x]
        BY <1>5, <1>16 DEF Moves
    <2>2. ASSUME at[x].pc \in {"insertNode", "trackNode", "insertCount", "trackCount"}
          PROVE  req'[KeyOf(x)] = req[KeyOf(x)]
        <3>1. KeyOf(x) # k
            BY <1>2, <1>3, <1>16, <2>2, OtherKey DEF Adding, AddPC
        <3>2. KeyOf(x) \in DOMAIN req
            BY <2>2 DEF Inv, Hands, Hand, Adding, AddPC
        <3>3. QED
            BY <1>8, <3>1, <3>2
    <2>3. QED
        BY <2>1, <2>2
<1>17. QED
    BY <1>2, <1>10, <1>11, <1>12, <1>13, <1>14, <1>15, <1>16, StepOf

LEMMA InsertCountStep ==
    ASSUME Inv, NEW w \in Worker, InsertCount(w)
    PROVE  Inv'
<1>1. TypeOK /\ Requests /\ Entries /\ ToldTrue /\ OneAdder /\ Hand(w)
    BY DEF Inv, Hands
<1>2. /\ at[w].pc = "insertCount" /\ Goto(w, "trackCount")
      /\ UNCHANGED <<req, node, message, friends, unread, told>>
    BY DEF InsertCount
<1>3. PICK n : n = at[w].node
    OBVIOUS
<1>4. Moves(w, "trackCount")
    BY <1>1, <1>2, GotoMoves DEF AddPC
<1>5. n \in Node
    BY <1>1, <1>2, <1>3, OwnNode DEF TypeOK, Counting
<1>6. /\ DOMAIN count' = DOMAIN count \cup {n} /\ count'[n] = 0
      /\ \A x \in DOMAIN count : x # n => count'[x] = count[x]
    BY <1>3 DEF InsertCount, Put
<1>7. Grows /\ RequestsStay
    BY <1>2, <1>6 DEF Grows, RequestsStay
<1>8. TypeOK'
    <2>1. DOMAIN count' \subseteq Node /\ \A x \in DOMAIN count' : count'[x] \in 0..1
        BY <1>1, <1>5, <1>6 DEF TypeOK
    <2>2. at' \in [Worker -> Job \cup {Idle}]
        BY <1>4 DEF Moves
    <2>3. QED
        BY <1>1, <1>2, <2>1, <2>2 DEF TypeOK
<1>9. Requests' /\ Entries' /\ ToldTrue'
    BY <1>1, <1>2, <1>7, RequestsTrue, EntriesStay, ToldStays
<1>10. OneAdder'
    BY <1>1, <1>2, <1>4, OneAdderStays DEF Moves, Adding, AddPC
<1>11. Hand(w)'
    BY <1>1, <1>2, <1>3, <1>4, <1>6
    DEF Moves, Hand, Adding, Agreeing, AddPC, AuthPC, PastInviter, PastInvitee
<1>12. ASSUME NEW x \in Worker, x # w
       PROVE  /\ at'[x] = at[x]
              /\ at[x].pc \in {"trackCount", "incCount", "insertMessage"} =>
                     count'[at[x].node] = count[at[x].node]
    <2>1. at'[x] = at[x]
        BY <1>4, <1>12 DEF Moves
    <2>2. ASSUME at[x].pc \in {"trackCount", "incCount", "insertMessage"}
          PROVE  count'[at[x].node] = count[at[x].node]
        <3>1. at[x].node # n
            BY <1>2, <1>3, <1>12, <2>2, OtherNode DEF Counting
        <3>2. at[x].node \in DOMAIN count
            BY <2>2 DEF Inv, Hands, Hand, Settled
        <3>3. QED
            BY <1>6, <3>1, <3>2
    <2>3. QED
        BY <2>1, <2>2
<1>13. QED
    BY <1>2, <1>7, <1>8, <1>9, <1>10, <1>11, <1>12, StepOf

LEMMA IncCountStep ==
    ASSUME Inv, NEW w \in Worker, IncCount(w)
    PROVE  Inv'
<1>1. TypeOK /\ Requests /\ Entries /\ ToldTrue /\ OneAdder /\ Hand(w)
    BY DEF Inv, Hands
<1>2. /\ at[w].pc = "incCount" /\ Goto(w, "insertMessage")
      /\ UNCHANGED <<req, node, message, friends, unread, told>>
    BY DEF IncCount
<1>3. PICK n : n = at[w].node
    OBVIOUS
<1>4. Moves(w, "insertMessage")
    BY <1>1, <1>2, GotoMoves DEF AddPC
<1>5. Settled(KeyOf(w), n) /\ n \in DOMAIN count /\ count[n] = 0
    BY <1>1, <1>2, <1>3 DEF Hand, Settled
<1>6. /\ DOMAIN count' = DOMAIN count /\ count'[n] = 1
      /\ \A x \in DOMAIN count : x # n => count'[x] = count[x]
    BY <1>3, <1>5 DEF IncCount
<1>7. Grows /\ RequestsStay
    BY <1>2, <1>6 DEF Grows, RequestsStay
<1>8. TypeOK'
    <2>1. DOMAIN count' \subseteq Node /\ \A x \in DOMAIN count' : count'[x] \in 0..1
        BY <1>1, <1>6 DEF TypeOK
    <2>2. at' \in [Worker -> Job \cup {Idle}]
        BY <1>4 DEF Moves
    <2>3. QED
        BY <1>1, <1>2, <2>1, <2>2 DEF TypeOK
<1>9. Requests' /\ Entries' /\ ToldTrue'
    BY <1>1, <1>2, <1>7, RequestsTrue, EntriesStay, ToldStays
<1>10. OneAdder'
    BY <1>1, <1>2, <1>4, OneAdderStays DEF Moves, Adding, AddPC
<1>11. Hand(w)'
    <2>1. Settled(KeyOf(w), n)'
        BY <1>2, <1>4, <1>5, <1>6 DEF Settled, Moves
    <2>2. KeyOf(w)' \in DOMAIN req'
        BY <2>1 DEF Settled
    <2>3. QED
        BY <1>3, <1>4, <1>6, <2>1, <2>2
        DEF Moves, Hand, Settled, Adding, Agreeing, AddPC, AuthPC, PastInviter, PastInvitee
<1>12. ASSUME NEW x \in Worker, x # w
       PROVE  /\ at'[x] = at[x]
              /\ at[x].pc \in {"trackCount", "incCount", "insertMessage"} =>
                     count'[at[x].node] = count[at[x].node]
    <2>1. at'[x] = at[x]
        BY <1>4, <1>12 DEF Moves
    <2>2. ASSUME at[x].pc \in {"trackCount", "incCount", "insertMessage"}
          PROVE  count'[at[x].node] = count[at[x].node]
        <3>1. at[x].node # n
            BY <1>2, <1>3, <1>12, <2>2, OtherNode DEF Counting
        <3>2. at[x].node \in DOMAIN count
            BY <2>2 DEF Inv, Hands, Hand, Settled
        <3>3. QED
            BY <1>6, <3>1, <3>2
    <2>3. QED
        BY <2>1, <2>2
<1>13. QED
    BY <1>2, <1>7, <1>8, <1>9, <1>10, <1>11, <1>12, StepOf

LEMMA InsertMessageStep ==
    ASSUME Inv, NEW w \in Worker, InsertMessage(w)
    PROVE  Inv'
<1>1. TypeOK /\ Requests /\ Entries /\ ToldTrue /\ OneAdder /\ Hand(w)
    BY DEF Inv, Hands
<1>2. /\ at[w].pc = "insertMessage" /\ Goto(w, "answerAdd")
      /\ UNCHANGED <<req, node, count, friends, unread, told>>
    BY DEF InsertMessage
<1>3. PICK n : n = at[w].node
    OBVIOUS
<1>4. Moves(w, "answerAdd")
    BY <1>1, <1>2, GotoMoves DEF AddPC
<1>5. Settled(KeyOf(w), n) /\ count[n] = 1 /\ n \in Node
    BY <1>1, <1>2, <1>3 DEF Hand, Settled, TypeOK
<1>6. message' = message \cup {<<n, 0>>}
    BY <1>3, <1>5 DEF InsertMessage
<1>7. Grows /\ RequestsStay
    BY <1>2, <1>6 DEF Grows, RequestsStay
<1>8. TypeOK'
    <2>1. message' \subseteq Node \X {0}
        BY <1>1, <1>5, <1>6 DEF TypeOK
    <2>2. at' \in [Worker -> Job \cup {Idle}]
        BY <1>4 DEF Moves
    <2>3. QED
        BY <1>1, <1>2, <2>1, <2>2 DEF TypeOK
<1>9. Requests' /\ Entries' /\ ToldTrue'
    BY <1>1, <1>2, <1>7, RequestsTrue, EntriesStay, ToldStays
<1>10. OneAdder'
    BY <1>1, <1>2, <1>4, OneAdderStays DEF Moves, Adding, AddPC
<1>11. Hand(w)'
    <2>1. Settled(KeyOf(w), n)'
        BY <1>2, <1>4, <1>5 DEF Settled, Moves
    <2>2. KeyOf(w)' \in DOMAIN req'
        BY <2>1 DEF Settled
    <2>3. QED
        BY <1>3, <1>4, <1>6, <2>1, <2>2
        DEF Moves, Hand, Settled, Adding, Agreeing, AddPC, AuthPC, PastInviter, PastInvitee
<1>12. \A x \in Worker : x # w => at'[x] = at[x]
    BY <1>4 DEF Moves
<1>13. QED
    BY <1>2, <1>7, <1>8, <1>9, <1>10, <1>11, <1>12, StepOf

-----------------------------------------------------------------------------
(* addFriendAuthorize.                                                     *)

\* A step of a worker whose request is settled, and that stays settled.
LEMMA SettledHand ==
    ASSUME NEW w \in Worker, Settled(KeyOf(w), at[w].node)',
           at'[w].pc \in Agreeing,
           at'[w].pc \in PastInviter \cup PastInvitee =>
               <<at'[w].invitee, at'[w].node>> \in friends'[at'[w].inviter],
           at'[w].pc \in PastInvitee =>
               <<at'[w].inviter, at'[w].node>> \in friends'[at'[w].invitee]
    PROVE  Hand(w)'
<1>1. KeyOf(w)' \in DOMAIN req'
    BY DEF Settled
<1>2. QED
    BY <1>1 DEF Hand, Adding, Agreeing, AddPC, AuthPC

LEMMA BefriendStep ==
    ASSUME Inv, NEW w \in Worker, AddInviter(w) \/ AddInvitee(w)
    PROVE  Inv'
<1>1. TypeOK /\ Requests /\ Entries /\ ToldTrue /\ OneAdder /\ Hand(w)
    BY DEF Inv, Hands
<1>2. PICK pc \in {"addInviter", "addInvitee"},
           next \in {"trackInviter", "trackInvitee"} :
          /\ at[w].pc = pc /\ Goto(w, next)
          /\ pc = "addInviter" <=> next = "trackInviter"
          /\ IF pc = "addInviter"
             THEN Befriend(w, at[w].inviter, at[w].invitee, pc, next)
             ELSE Befriend(w, at[w].invitee, at[w].inviter, pc, next)
    BY DEF AddInviter, AddInvitee, Befriend
<1>3. PICK n, a, b : n = at[w].node /\ a = at[w].inviter /\ b = at[w].invitee
    OBVIOUS
<1>4. PICK u, v : IF pc = "addInviter" THEN u = a /\ v = b ELSE u = b /\ v = a
    OBVIOUS
<1>5. /\ friends' = [friends EXCEPT ![u] = @ \cup {<<v, n>>}]
      /\ UNCHANGED <<req, node, count, message, unread, told>>
    BY <1>2, <1>3, <1>4 DEF Befriend
<1>6. a \in User /\ b \in User /\ u \in User /\ v \in User /\ KeyOf(w) = {u, v}
    BY <1>1, <1>2, <1>3, <1>4, JobFields DEF AuthPC, KeyOf
<1>7. Moves(w, next)
    BY <1>1, <1>2, GotoMoves DEF AuthPC
<1>8. Settled({u, v}, n) /\ n \in Node
    BY <1>1, <1>2, <1>3, <1>6 DEF Hand, Settled, TypeOK, Agreeing, AuthPC
<1>9. /\ friends'[u] = friends[u] \cup {<<v, n>>}
      /\ \A x \in User : x # u => friends'[x] = friends[x]
    BY <1>1, <1>5, <1>6 DEF TypeOK
<1>10. Grows /\ RequestsStay
    <2>1. \A x \in User : friends[x] \subseteq friends'[x]
        BY <1>9
    <2>2. QED
        BY <1>5, <2>1 DEF Grows, RequestsStay
<1>11. TypeOK'
    <2>1. friends' \in [User -> SUBSET (User \X Node)]
        BY <1>1, <1>5, <1>6, <1>8 DEF TypeOK
    <2>2. at' \in [Worker -> Job \cup {Idle}]
        BY <1>7 DEF Moves
    <2>3. QED
        BY <1>1, <1>5, <2>1, <2>2 DEF TypeOK
<1>12. Requests' /\ ToldTrue'
    BY <1>1, <1>5, <1>10, RequestsTrue, ToldStays
<1>13. Entries'
    <2> SUFFICES ASSUME NEW x \in User, NEW e \in friends'[x]
                 PROVE  Settled({x, e[1]}, e[2])'
        BY DEF Entries, Settled
    <2>1. CASE e \in friends[x]
        BY <1>1, <1>10, <2>1, SettledStays DEF Entries
    <2>2. CASE e \notin friends[x]
        <3>1. x = u /\ e[1] = v /\ e[2] = n
            BY <1>9, <2>2
        <3>2. QED
            BY <1>8, <1>10, <3>1, SettledStays
    <2>3. QED
        BY <2>1, <2>2
<1>14. next \notin Adding
    BY DEF Adding, AddPC
<1>15. OneAdder'
    BY <1>1, <1>7, <1>14, OneAdderStays DEF Moves
<1>16. Hand(w)'
    <2>1. Settled({u, v}, n)'
        BY <1>8, <1>10, SettledStays
    <2>2. /\ at'[w].pc = next /\ at'[w].node = n /\ at'[w].inviter = a /\ at'[w].invitee = b
          /\ KeyOf(w)' = {u, v}
        BY <1>3, <1>6, <1>7 DEF Moves
    <2>3. Settled(KeyOf(w), at[w].node)'
        BY <2>1, <2>2 DEF Settled
    <2>4. next = "trackInviter" => <<b, n>> \in friends'[a]
        BY <1>2, <1>4, <1>9
    <2>5. next = "trackInvitee" => <<b, n>> \in friends'[a] /\ <<a, n>> \in friends'[b]
        <3>1. ASSUME pc = "addInvitee" PROVE <<b, n>> \in friends[a]
            BY <1>1, <1>2, <1>3, <3>1 DEF Hand, PastInviter
        <3>2. QED
            BY <1>2, <1>4, <1>6, <1>9, <3>1
    <2>6. next \in Agreeing
        BY DEF Agreeing, AuthPC
    <2>7. QED
        BY <1>2, <2>2, <2>3, <2>4, <2>5, <2>6, SettledHand DEF PastInviter, PastInvitee
<1>17. \A x \in Worker : x # w => at'[x] = at[x]
    BY <1>7 DEF Moves
<1>18. QED
    BY <1>5, <1>10, <1>11, <1>12, <1>13, <1>15, <1>16, <1>17, StepOf

LEMMA InsertUnreadStep ==
    ASSUME Inv, NEW w \in Worker, InsertUnread(w)
    PROVE  Inv'
<1>1. TypeOK /\ Requests /\ Entries /\ ToldTrue /\ OneAdder /\ Hand(w)
    BY DEF Inv, Hands
<1>2. PICK next \in {"trackUnread", "trackFinish"} :
          /\ at[w].pc = IF next = "trackUnread" THEN "unreadInviter" ELSE "unreadInvitee"
          /\ Goto(w, next)
    BY DEF InsertUnread
<1>3. PICK n, a, b : n = at[w].node /\ a = at[w].inviter /\ b = at[w].invitee
    OBVIOUS
<1>4. a \in User /\ b \in User
    BY <1>1, <1>2, <1>3, JobFields DEF AuthPC
<1>5. Moves(w, next)
    BY <1>1, <1>2, GotoMoves DEF AuthPC
<1>6. Settled(KeyOf(w), n) /\ n \in Node
    BY <1>1, <1>2, <1>3 DEF Hand, Settled, TypeOK, Agreeing, AuthPC
<1>7. /\ UNCHANGED <<req, node, count, message, friends, told>>
      /\ unread' \in {unread, unread \cup {<<a, n>>}, unread \cup {<<b, n>>}}
    BY <1>3 DEF InsertUnread
<1>8. Grows /\ RequestsStay
    BY <1>7 DEF Grows, RequestsStay
<1>9. TypeOK'
    <2>1. unread' \subseteq User \X Node
        BY <1>1, <1>4, <1>6, <1>7 DEF TypeOK
    <2>2. at' \in [Worker -> Job \cup {Idle}]
        BY <1>5 DEF Moves
    <2>3. QED
        BY <1>1, <1>7, <2>1, <2>2 DEF TypeOK
<1>10. Requests' /\ Entries' /\ ToldTrue'
    BY <1>1, <1>7, <1>8, RequestsTrue, EntriesStay, ToldStays
<1>11. next \notin Adding
    BY DEF Adding, AddPC
<1>12. OneAdder'
    BY <1>1, <1>5, <1>11, OneAdderStays DEF Moves
<1>13. Hand(w)'
    <2>1. Settled(KeyOf(w), at[w].node)'
        BY <1>3, <1>5, <1>6, <1>7 DEF Settled, Moves
    <2>2. /\ at'[w].pc = next /\ at'[w].node = n /\ at'[w].inviter = a /\ at'[w].invitee = b
        BY <1>3, <1>5 DEF Moves
    <2>3. <<b, n>> \in friends'[a]
        BY <1>1, <1>2, <1>3, <1>7 DEF Hand, PastInviter, PastInvitee
    <2>4. next = "trackFinish" => <<a, n>> \in friends'[b]
        BY <1>1, <1>2, <1>3, <1>7 DEF Hand, PastInvitee
    <2>5. next \in Agreeing
        BY DEF Agreeing, AuthPC
    <2>6. QED
        BY <2>1, <2>2, <2>3, <2>4, <2>5, SettledHand DEF PastInvitee
<1>14. \A x \in Worker : x # w => at'[x] = at[x]
    BY <1>5 DEF Moves
<1>15. QED
    BY <1>7, <1>8, <1>9, <1>10, <1>12, <1>13, <1>14, StepOf

-----------------------------------------------------------------------------
(* What both share.                                                        *)

LEMMA TrackStep ==
    ASSUME Inv, NEW w \in Worker, Track(w)
    PROVE  Inv'
<1>1. TypeOK /\ Requests /\ Entries /\ ToldTrue /\ OneAdder /\ Hand(w)
    BY DEF Inv, Hands
<1>2. PICK t \in Tracks :
          /\ at[w].pc = t[1] /\ Goto(w, t[3])
          /\ req' = [req EXCEPT ![KeyOf(w)].status = t[2]]
    BY DEF Track
<1>3. PICK k, n, a, b : k = KeyOf(w) /\ n = at[w].node /\ a = at[w].inviter /\ b = at[w].invitee
    OBVIOUS
<1>4. PICK pc, s, next : pc = t[1] /\ s = t[2] /\ next = t[3]
    OBVIOUS
<1>5. <<pc, s, next>> \in Tracks
    BY <1>4 DEF Tracks
<1>6. pc \in AddPC \cup AuthPC /\ next \in AddPC \cup AuthPC /\ s \in Status \ Early
    BY <1>5 DEF Tracks, AddPC, AuthPC, Status, Early
<1>7. UNCHANGED <<node, count, message, friends, unread, told>>
    BY DEF Track
<1>8. a \in User /\ b \in User /\ k = {a, b}
    BY <1>1, <1>2, <1>3, <1>4, <1>6, JobFields DEF KeyOf
<1>9. Moves(w, next)
    BY <1>1, <1>2, <1>4, <1>6, GotoMoves
<1>10. pc = "trackCount" \/ pc \in Agreeing
    BY <1>5 DEF Tracks, Agreeing, AuthPC
<1>11. /\ k \in DOMAIN req /\ req[k].node = n /\ n \in DOMAIN node /\ node[n] = k
       /\ n \in DOMAIN count
       /\ pc = "trackCount" => count[n] = 0
       /\ pc # "trackCount" => req[k].status \notin Early
    <2>1. CASE pc = "trackCount"
        BY <1>1, <1>2, <1>3, <1>4, <2>1 DEF Hand, Requests, RequestTrue, Adding, AddPC
    <2>2. CASE pc \in Agreeing /\ pc # "trackCount"
        BY <1>1, <1>2, <1>3, <1>4, <2>2 DEF Hand, Settled
    <2>3. QED
        BY <1>10, <2>1, <2>2
<1>12. /\ DOMAIN req' = DOMAIN req /\ req'[k] = [req[k] EXCEPT !.status = s]
       /\ \A x \in DOMAIN req : x # k => req'[x] = req[x]
    BY <1>2, <1>3, <1>4, <1>11
<1>13. /\ req[k] \in Request
       /\ req'[k] \in Request /\ req'[k].status = s /\ req'[k].node = n
       /\ req'[k].inviter = req[k].inviter /\ req'[k].invitee = req[k].invitee
    BY <1>1, <1>6, <1>11, <1>12 DEF TypeOK, Request
<1>14. Grows /\ RequestsStay
    BY <1>6, <1>7, <1>11, <1>12, <1>13 DEF Grows, RequestsStay
<1>15. TypeOK'
    <2>1. DOMAIN req' \subseteq Key /\ \A x \in DOMAIN req' : req'[x] \in Request
        BY <1>1, <1>12, <1>13 DEF TypeOK
    <2>2. at' \in [Worker -> Job \cup {Idle}]
        BY <1>9 DEF Moves
    <2>3. QED
        BY <1>1, <1>7, <2>1, <2>2 DEF TypeOK
<1>16. /\ s \in {"inviter", "userUnreadInviter"} => <<b, n>> \in friends[a]
       /\ s \in {"invitee", "finish"} => <<b, n>> \in friends[a] /\ <<a, n>> \in friends[b]
    <2>1. /\ s \in {"inviter", "userUnreadInviter"} => pc \in PastInviter
          /\ s \in {"invitee", "finish"} => pc \in PastInvitee
        BY <1>5 DEF Tracks, PastInviter, PastInvitee
    <2>2. QED
        BY <1>1, <1>2, <1>3, <1>4, <2>1 DEF Hand
<1>17. Requests'
    <2>1. k = {req[k].inviter, req[k].invitee}
        BY <1>1, <1>11 DEF Requests, RequestTrue
    <2>2. \/ a = req[k].inviter /\ b = req[k].invitee
          \/ a = req[k].invitee /\ b = req[k].inviter
        BY <1>8, <2>1
    <2>3. RequestTrue(k)'
        BY <1>6, <1>7, <1>11, <1>13, <1>16, <2>1, <2>2 DEF RequestTrue
    <2>4. QED
        BY <1>1, <1>12, <1>14, <2>3, RequestsTrueBut
<1>18. Entries' /\ ToldTrue'
    BY <1>1, <1>7, <1>14, EntriesStay, ToldStays
<1>19. OneAdder'
    <2>1. next \in Adding => pc \in Adding
        BY <1>5 DEF Tracks, Adding, AddPC
    <2>2. QED
        BY <1>1, <1>2, <1>4, <1>9, <2>1, OneAdderStays DEF Moves
<1>20. Hand(w)'
    <2>1. /\ at'[w].pc = next /\ at'[w].node = n /\ at'[w].inviter = a /\ at'[w].invitee = b
          /\ KeyOf(w)' = k
        BY <1>3, <1>9 DEF Moves
    <2>2. Settled(KeyOf(w), at[w].node)'
        BY <1>6, <1>7, <1>11, <1>12, <1>13, <2>1 DEF Settled
    <2>3. CASE next = "incCount"
        <3>1. count'[n] = 0 /\ KeyOf(w)' \in DOMAIN req'
            BY <1>5, <1>7, <1>11, <1>12, <2>1, <2>3 DEF Tracks
        <3>2. QED
            BY <2>1, <2>2, <2>3, <3>1
            DEF Hand, Adding, Agreeing, AddPC, AuthPC, PastInviter, PastInvitee
    <2>4. CASE next # "incCount"
        <3>1. next \in Agreeing
            BY <1>5, <2>4 DEF Tracks, Agreeing, AuthPC
        <3>2. /\ next \in PastInviter => s \in {"inviter", "userUnreadInviter"}
              /\ next \in PastInvitee => s \in {"invitee", "finish"}
            BY <1>5 DEF Tracks, PastInviter, PastInvitee
        <3>3. QED
            BY <1>7, <1>16, <2>1, <2>2, <3>1, <3>2, SettledHand
    <2>5. QED
        BY <2>3, <2>4
<1>21. ASSUME NEW x \in Worker, x # w
       PROVE  /\ at'[x] = at[x]
              /\ at[x].pc \in {"insertNode", "trackNode", "insertCount", "trackCount"} =>
                     req'[KeyOf(x)] = req[KeyOf(x)]
    <2>1. at'[x] = at[x]
        BY <1>9, <1>21 DEF Moves
    <2>2. ASSUME at[x].pc \in {"insertNode", "trackNode", "insertCount", "trackCount"}
          PROVE  req'[KeyOf(x)] = req[KeyOf(x)]
        <3>1. KeyOf(x) \in DOMAIN req /\ req[KeyOf(x)].status \in Early
            BY <2>2 DEF Inv, Hands, Hand, Adding, AddPC, Early
        <3>2. KeyOf(x) # k
            BY <1>2, <1>3, <1>4, <1>11, <1>21, <2>2, <3>1, OtherKey DEF Adding, AddPC
        <3>3. QED
            BY <1>12, <3>1, <3>2
    <2>3. QED
        BY <2>1, <2>2
<1>22. QED
    BY <1>7, <1>14, <1>15, <1>17, <1>18, <1>19, <1>20, <1>21, StepOf

LEMMA AnsweredStep ==
    ASSUME Inv, NEW w \in Worker, Answered(w)
    PROVE  Inv'
<1>1. TypeOK /\ Requests /\ Entries /\ ToldTrue /\ OneAdder /\ Hand(w)
    BY DEF Inv, Hands
<1>2. PICK k, n, a, b : k = KeyOf(w) /\ n = at[w].node /\ a = at[w].inviter /\ b = at[w].invitee
    OBVIOUS
<1>3. /\ at[w].pc \in {"answerAdd", "answerAuth"} /\ at' = [at EXCEPT ![w] = Idle]
      /\ UNCHANGED <<req, node, count, message, friends, unread>>
    BY DEF Answered, dbVars
<1>4. PICK r : r = [type |-> IF at[w].pc = "answerAdd"
                             THEN "addfriendres" ELSE "addfriendauthorizeres",
                    inviter |-> a, invitee |-> b, node |-> n]
    OBVIOUS
<1>5. told' = told \cup {r}
    BY <1>2, <1>4 DEF Answered
<1>6. a \in User /\ b \in User /\ k = {a, b}
    BY <1>1, <1>2, <1>3, JobFields DEF AddPC, AuthPC, KeyOf
<1>7. Settled(k, n) /\ n \in Node
    BY <1>1, <1>2, <1>3 DEF Hand, Settled, TypeOK, Agreeing, AuthPC
<1>8. /\ at' \in [Worker -> Job \cup {Idle}] /\ at'[w].pc = "idle"
      /\ \A x \in Worker : x # w => at'[x] = at[x]
    BY <1>1, <1>3, BackToIdle
<1>9. Grows /\ RequestsStay
    BY <1>3 DEF Grows, RequestsStay
<1>10. TypeOK'
    <2>1. r \in Answer
        BY <1>4, <1>6, <1>7 DEF Answer
    <2>2. told' \subseteq Answer
        BY <1>1, <1>5, <2>1 DEF TypeOK
    <2>3. QED
        BY <1>1, <1>3, <1>8, <2>2 DEF TypeOK
<1>11. Requests' /\ Entries'
    BY <1>1, <1>3, <1>9, RequestsTrue, EntriesStay
<1>12. ToldTrue'
    <2>1. /\ at[w].pc = "answerAdd" => <<n, 0>> \in message
          /\ at[w].pc = "answerAuth" => <<b, n>> \in friends[a] /\ <<a, n>> \in friends[b]
        BY <1>1, <1>2 DEF Hand, PastInvitee
    <2>2. /\ Settled({r.inviter, r.invitee}, r.node)
          /\ r.type = "addfriendres" => <<r.node, 0>> \in message
          /\ r.type = "addfriendauthorizeres" =>
                <<r.invitee, r.node>> \in friends[r.inviter]
                   /\ <<r.inviter, r.node>> \in friends[r.invitee]
        BY <1>3, <1>4, <1>6, <1>7, <2>1
    <2>3. QED
        BY <1>1, <1>3, <1>5, <2>2 DEF ToldTrue, Settled
<1>13. Hand(w)' /\ at'[w].pc \notin Adding
    BY <1>8, IdleHand
<1>14. OneAdder'
    BY <1>1, <1>8, <1>13, OneAdderStays
<1>15. QED
    BY <1>3, <1>8, <1>9, <1>10, <1>11, <1>12, <1>13, <1>14, StepOf

-----------------------------------------------------------------------------
(* The invariant.                                                          *)

LEMMA InvInit == Init => Inv
<1> SUFFICES ASSUME Init PROVE Inv
    OBVIOUS
<1>1. TypeOK
    BY DEF Init, TypeOK
<1>2. Requests /\ Entries /\ ToldTrue
    BY DEF Init, Requests, Entries, ToldTrue
<1>3. Hands /\ OneAdder
    BY DEF Init, Hands, Hand, OneAdder, Idle, Adding, Agreeing, AddPC, AuthPC,
           PastInviter, PastInvitee
<1>4. QED
    BY <1>1, <1>2, <1>3 DEF Inv

LEMMA InvStep == Inv /\ [Next]_vars => Inv'
<1> SUFFICES ASSUME Inv, [Next]_vars PROVE Inv'
    OBVIOUS
<1>1. CASE UNCHANGED vars
    <2>1. UNCHANGED <<req, node, count, message, friends, unread, at, told>>
        BY <1>1 DEF vars, dbVars
    <2>2. TypeOK'
        BY <2>1 DEF Inv, TypeOK
    <2>3. Grows /\ RequestsStay
        BY <2>1 DEF Grows, RequestsStay
    <2>4. Requests' /\ Entries' /\ ToldTrue'
        BY <2>1, <2>3, RequestsTrue, EntriesStay, ToldStays DEF Inv
    <2>5. OneAdder'
        BY <2>1 DEF Inv, OneAdder, KeyOf
    <2>6. ASSUME NEW x \in Worker PROVE Hand(x)'
        BY <2>1, <2>3, HandStays DEF Inv
    <2>7. QED
        BY <2>2, <2>4, <2>5, <2>6 DEF Inv, Hands
<1>2. ASSUME NEW w \in Worker, NEW a \in User, NEW b \in User,
             AddFriend(w, a, b) \/ AddFriendAuthorize(w, a, b)
      PROVE  Inv'
    BY <1>2, BeginStep
<1>3. ASSUME NEW w \in Worker, Fail(w) \/ Crash(w) PROVE Inv'
    BY <1>3, GiveUp DEF Fail, Crash
<1>4. ASSUME NEW w \in Worker,
             \/ InsertRequest(w) \/ InsertNode(w) \/ TrackNode(w) \/ InsertCount(w)
             \/ IncCount(w) \/ InsertMessage(w)
      PROVE  Inv'
    BY <1>4, InsertRequestStep, InsertNodeStep, TrackNodeStep, InsertCountStep,
       IncCountStep, InsertMessageStep
<1>5. ASSUME NEW w \in Worker,
             FindRequest(w) \/ AddInviter(w) \/ AddInvitee(w) \/ InsertUnread(w)
      PROVE  Inv'
    BY <1>5, FindRequestStep, BefriendStep, InsertUnreadStep
<1>6. ASSUME NEW w \in Worker, Track(w) \/ Answered(w) PROVE Inv'
    BY <1>6, TrackStep, AnsweredStep
<1>7. QED
    BY <1>1, <1>2, <1>3, <1>4, <1>5, <1>6 DEF Next

-----------------------------------------------------------------------------
(* The counters that failures swallowed.                                   *)

\* A counter that is missed after a step of w was missed before, unless w has
\* just passed it (Q).
LEMMA MissingGrows ==
    ASSUME Inv, NEW w \in Worker, NEW Q,
           \A x \in Worker : x # w => at'[x] = at[x],
           unread \subseteq unread',
           \A k \in DOMAIN req : req[k].status \notin Early =>
               k \in DOMAIN req' /\ req'[k].node = req[k].node,
           \A k \in DOMAIN req' : req'[k].status = "finish" =>
               k \in DOMAIN req
                  /\ (req[k].status = "finish" \/ (k = KeyOf(w) /\ at[w].pc = "trackFinish")),
           \A u : Passed(at'[w], u) =>
               \/ Passed(at[w], u) /\ {at'[w].inviter, at'[w].invitee} = KeyOf(w)
               \/ <<{at'[w].inviter, at'[w].invitee}, u>> \in Q
    PROVE  Missing' \subseteq Missing \cup Q
<1> SUFFICES ASSUME NEW p \in Missing', p \notin Q PROVE p \in Missing
    OBVIOUS
<1>1. PICK k, u : p = <<k, u>> /\ p[1] = k /\ p[2] = u
    BY DEF Missing
<1>2. /\ k \in DOMAIN req' /\ u \in User /\ u \in k /\ <<u, req'[k].node>> \notin unread'
      /\ \/ req'[k].status = "finish"
         \/ \E x \in Worker : Passed(at'[x], u) /\ {at'[x].inviter, at'[x].invitee} = k
    BY <1>1 DEF Missing, KeyOf
<1>3. ASSUME NEW x \in Worker, Passed(at[x], u), KeyOf(x) = k
      PROVE  k \in DOMAIN req /\ req[k].status \notin Early
    BY <1>3 DEF Inv, Hands, Hand, Settled, Passed, Agreeing, AuthPC
<1>4. \/ k \in DOMAIN req /\ req[k].status = "finish"
      \/ \E x \in Worker : Passed(at[x], u) /\ KeyOf(x) = k
    <2>1. CASE req'[k].status = "finish"
        <3>1. k = KeyOf(w) /\ at[w].pc = "trackFinish" => Passed(at[w], u)
            BY <1>2 DEF Passed, KeyOf
        <3>2. QED
            BY <1>2, <2>1, <3>1
    <2>2. ASSUME NEW x \in Worker, Passed(at'[x], u), {at'[x].inviter, at'[x].invitee} = k
          PROVE  Passed(at[x], u) /\ KeyOf(x) = k
        <3>1. CASE x # w
            BY <2>2, <3>1 DEF KeyOf
        <3>2. CASE x = w
            BY <1>1, <2>2, <3>2
        <3>3. QED
            BY <3>1, <3>2
    <2>3. QED
        BY <1>2, <2>1, <2>2
<1>5. k \in DOMAIN req /\ req[k].status \notin Early
    BY <1>3, <1>4 DEF Early
<1>6. <<u, req[k].node>> \notin unread
    BY <1>2, <1>5
<1>7. QED
    BY <1>1, <1>2, <1>4, <1>5, <1>6 DEF Missing

LEMMA OwedKept ==
    ASSUME Owed, Missing' \subseteq Missing,
           budget' \in [faults : 0..Faults, crashes : 0..Crashes],
           budget'.faults <= budget.faults
    PROVE  Owed'
<1>1. /\ IsFiniteSet(Missing) /\ Cardinality(Missing) \in Nat
      /\ Cardinality(Missing) <= Faults - budget.faults
    BY FS_CardinalityType DEF Owed
<1>2. /\ IsFiniteSet(Missing') /\ Cardinality(Missing') \in Nat
      /\ Cardinality(Missing') <= Cardinality(Missing)
    BY <1>1, FS_Subset, FS_CardinalityType
<1>3. budget.faults \in Int /\ budget'.faults \in Int
    BY DEF Owed
<1>4. Cardinality(Missing') <= Faults - budget'.faults
    BY <1>1, <1>2, <1>3, FriendsAssumption
<1>5. QED
    BY <1>2, <1>4 DEF Owed

\* A failure was swallowed: one counter more is missing.
LEMMA OwedPaid ==
    ASSUME Owed, NEW q, Missing' \subseteq Missing \cup {q}, budget.faults > 0,
           budget' = [budget EXCEPT !.faults = @ - 1]
    PROVE  Owed'
<1>1. /\ IsFiniteSet(Missing) /\ Cardinality(Missing) \in Nat
      /\ Cardinality(Missing) <= Faults - budget.faults
    BY FS_CardinalityType DEF Owed
<1>2. /\ IsFiniteSet(Missing \cup {q})
      /\ Cardinality(Missing \cup {q}) <= Cardinality(Missing) + 1
    BY <1>1, FS_AddElement
<1>3. /\ IsFiniteSet(Missing') /\ Cardinality(Missing') \in Nat
      /\ Cardinality(Missing') <= Cardinality(Missing \cup {q})
    BY <1>2, FS_Subset, FS_CardinalityType
<1>4. Cardinality(Missing \cup {q}) \in Nat
    BY <1>2, FS_CardinalityType
<1>5. budget.faults \in 0..Faults /\ budget.crashes \in 0..Crashes
    BY DEF Owed
<1>6. budget'.faults = budget.faults - 1 /\ budget' \in [faults : 0..Faults, crashes : 0..Crashes]
    BY <1>5, FriendsAssumption DEF Owed
<1>7. Cardinality(Missing') <= Faults - budget'.faults
    BY <1>1, <1>2, <1>3, <1>4, <1>5, <1>6, FriendsAssumption
<1>8. QED
    BY <1>3, <1>6, <1>7 DEF Owed

BudgetKept ==
    /\ budget' \in [faults : 0..Faults, crashes : 0..Crashes]
    /\ budget'.faults <= budget.faults

LEMMA Unpaid ==
    ASSUME Owed, UNCHANGED budget
    PROVE  BudgetKept
BY FriendsAssumption DEF Owed, BudgetKept

\* A step that writes neither a request nor a counter.
LEMMA OwedQuiet ==
    ASSUME Inv, Owed, NEW w \in Worker, UNCHANGED <<req, unread>>, BudgetKept,
           \A x \in Worker : x # w => at'[x] = at[x],
           \A u : Passed(at'[w], u) =>
               Passed(at[w], u) /\ {at'[w].inviter, at'[w].invitee} = KeyOf(w)
    PROVE  Owed'
<1>1. Missing' \subseteq Missing \cup {}
    BY MissingGrows
<1>2. QED
    BY <1>1, OwedKept DEF BudgetKept

\* A worker that goes on to a place where it has passed no counter.
NotPassed == (AddPC \cup AuthPC \cup {"idle"}) \
    {"trackUnread", "addInvitee", "trackInvitee", "unreadInvitee", "trackFinish"}

LEMMA OwedIdle ==
    ASSUME Inv, Owed, NEW w \in Worker, BudgetKept,
           UNCHANGED <<req, unread>>, at' = [at EXCEPT ![w] = Idle]
    PROVE  Owed'
<1>1. /\ at'[w].pc = "idle"
      /\ \A x \in Worker : x # w => at'[x] = at[x]
    BY BackToIdle DEF Inv
<1>2. \A u : ~Passed(at'[w], u)
    BY <1>1 DEF Passed
<1>3. QED
    BY <1>1, <1>2, OwedQuiet

LEMMA OwedGoto ==
    ASSUME Inv, Owed, NEW w \in Worker, at[w].pc \in AddPC \cup AuthPC,
           NEW pc \in AddPC \cup AuthPC, Goto(w, pc), UNCHANGED <<req, unread, budget>>,
           pc \in NotPassed \/ (at[w].pc = "addInvitee" /\ pc = "trackInvitee")
    PROVE  Owed'
<1>1. Moves(w, pc)
    BY GotoMoves DEF Inv
<1>2. \A u : Passed(at'[w], u) =>
          Passed(at[w], u) /\ {at'[w].inviter, at'[w].invitee} = KeyOf(w)
    BY <1>1 DEF Moves, Passed, NotPassed, KeyOf
<1>3. \A x \in Worker : x # w => at'[x] = at[x]
    BY <1>1 DEF Moves
<1>4. QED
    BY <1>2, <1>3, Unpaid, OwedQuiet

LEMMA OwedBegin ==
    ASSUME Inv, Owed, NEW w \in Worker, NEW a \in User, NEW b \in User,
           AddFriend(w, a, b) \/ AddFriendAuthorize(w, a, b)
    PROVE  Owed'
<1>1. PICK pc \in {"insertRequest", "findRequest"} :
          /\ at' = [at EXCEPT ![w] = [pc |-> pc, inviter |-> a, invitee |-> b, node |-> 0]]
          /\ UNCHANGED <<dbVars, budget>>
    BY DEF AddFriend, AddFriendAuthorize
<1>2. at'[w].pc = pc /\ \A x \in Worker : x # w => at'[x] = at[x]
    BY <1>1 DEF Inv, TypeOK
<1>3. \A u : ~Passed(at'[w], u)
    BY <1>2 DEF Passed
<1>4. QED
    BY <1>1, <1>2, <1>3, Unpaid, OwedQuiet DEF dbVars

LEMMA OwedFindRequest ==
    ASSUME Inv, Owed, NEW w \in Worker, FindRequest(w)
    PROVE  Owed'
<1>1. at[w] \in Job /\ at \in [Worker -> Job \cup {Idle}]
    BY JobFields DEF Inv, FindRequest, AuthPC, TypeOK
<1>2. PICK j : /\ at' = [at EXCEPT ![w] = j]
               /\ j = Idle \/ (\E n : j = [at[w] EXCEPT !.pc = "trackAgree", !.node = n])
    BY <1>1 DEF FindRequest
<1>3. at'[w] = j /\ \A x \in Worker : x # w => at'[x] = at[x]
    BY <1>1, <1>2
<1>4. j.pc \in {"idle", "trackAgree"}
    <2>1. CASE j = Idle
        BY <2>1 DEF Idle
    <2>2. ASSUME NEW n, j = [at[w] EXCEPT !.pc = "trackAgree", !.node = n]
          PROVE  j.pc = "trackAgree"
        BY <1>1, <2>2 DEF Job
    <2>3. QED
        BY <1>2, <2>1, <2>2
<1>5. \A u : ~Passed(at'[w], u)
    BY <1>3, <1>4 DEF Passed
<1>6. QED
    BY <1>3, <1>5, Unpaid, OwedQuiet DEF FindRequest, dbVars

LEMMA OwedInsertRequest ==
    ASSUME Inv, Owed, NEW w \in Worker, InsertRequest(w)
    PROVE  Owed'
<1>1. at[w].pc = "insertRequest" /\ UNCHANGED <<unread, budget>> /\ TypeOK
    BY DEF InsertRequest, Inv
<1>2. CASE KeyOf(w) \in DOMAIN req
    BY <1>1, <1>2, Unpaid, OwedIdle DEF InsertRequest
<1>3. CASE KeyOf(w) \notin DOMAIN req
    <2>1. PICK k, r : k = KeyOf(w) /\ req' = Put(req, k, r) /\ r.status = "request"
        BY <1>3 DEF InsertRequest
    <2>2. /\ DOMAIN req' = DOMAIN req \cup {k} /\ req'[k].status = "request"
          /\ \A x \in DOMAIN req : req'[x] = req[x]
        BY <1>3, <2>1 DEF Put
    <2>3. Moves(w, "insertNode")
        BY <1>1, <1>3, GotoMoves DEF InsertRequest, AddPC
    <2>4. at'[w].pc = "insertNode" /\ \A x \in Worker : x # w => at'[x] = at[x]
        BY <2>3 DEF Moves
    <2>5. \A u : ~Passed(at'[w], u)
        BY <2>4 DEF Passed
    <2>6. Missing' \subseteq Missing \cup {}
        BY <1>1, <2>2, <2>4, <2>5, MissingGrows
    <2>7. QED
        BY <1>1, <2>6, Unpaid, OwedKept DEF BudgetKept
<1>4. QED
    BY <1>2, <1>3

LEMMA OwedInsertNode ==
    ASSUME Inv, Owed, NEW w \in Worker, InsertNode(w)
    PROVE  Owed'
<1>1. /\ at[w].pc = "insertNode" /\ at[w] \in Job /\ UNCHANGED <<req, unread, budget>>
      /\ at \in [Worker -> Job \cup {Idle}]
    BY JobFields DEF InsertNode, Inv, TypeOK, AddPC
<1>2. PICK n : at' = [at EXCEPT ![w].pc = "trackNode", ![w].node = n]
    BY DEF InsertNode
<1>3. at'[w].pc = "trackNode" /\ \A x \in Worker : x # w => at'[x] = at[x]
    BY <1>1, <1>2 DEF Job
<1>4. \A u : ~Passed(at'[w], u)
    BY <1>3 DEF Passed
<1>5. QED
    BY <1>1, <1>3, <1>4, Unpaid, OwedQuiet

LEMMA OwedTrackNode ==
    ASSUME Inv, Owed, NEW w \in Worker, TrackNode(w)
    PROVE  Owed'
<1>1. at[w].pc = "trackNode" /\ UNCHANGED <<unread, budget>> /\ TypeOK /\ Hand(w)
    BY DEF TrackNode, Inv, Hands
<1>2. PICK k : k = KeyOf(w)
    OBVIOUS
<1>3. k \in DOMAIN req /\ req[k].status = "request" /\ req[k] \in Request
    BY <1>1, <1>2 DEF Hand, Adding, AddPC, TypeOK
<1>4. /\ DOMAIN req' = DOMAIN req /\ req'[k].status = "createNode"
      /\ \A x \in DOMAIN req : x # k => req'[x] = req[x]
    BY <1>2, <1>3 DEF TrackNode, Request
<1>5. Moves(w, "insertCount")
    BY <1>1, GotoMoves DEF TrackNode, AddPC
<1>6. at'[w].pc = "insertCount" /\ \A x \in Worker : x # w => at'[x] = at[x]
    BY <1>5 DEF Moves
<1>7. \A u : ~Passed(at'[w], u)
    BY <1>6 DEF Passed
<1>8. Missing' \subseteq Missing \cup {}
    BY <1>1, <1>3, <1>4, <1>6, <1>7, MissingGrows DEF Early
<1>9. QED
    BY <1>1, <1>8, Unpaid, OwedKept DEF BudgetKept

LEMMA OwedTrack ==
    ASSUME Inv, Owed, NEW w \in Worker, Track(w)
    PROVE  Owed'
<1>1. PICK t \in Tracks :
          /\ at[w].pc = t[1] /\ Goto(w, t[3])
          /\ req' = [req EXCEPT ![KeyOf(w)].status = t[2]]
    BY DEF Track
<1>2. PICK pc, s, next : pc = t[1] /\ s = t[2] /\ next = t[3]
    OBVIOUS
<1>3. <<pc, s, next>> \in Tracks
    BY <1>2 DEF Tracks
<1>4. pc \in AddPC \cup AuthPC /\ next \in AddPC \cup AuthPC
    BY <1>3 DEF Tracks, AddPC, AuthPC
<1>5. UNCHANGED <<unread, budget>> /\ TypeOK /\ Hand(w)
    BY DEF Track, Inv, Hands
<1>6. PICK k : k = KeyOf(w)
    OBVIOUS
<1>7. k \in DOMAIN req
    <2>1. pc \in Adding \/ pc \in Agreeing
        BY <1>3 DEF Tracks, Adding, Agreeing, AddPC, AuthPC
    <2>2. QED
        BY <1>1, <1>2, <1>5, <1>6, <2>1 DEF Hand, Settled
<1>8. req[k] \in Request
    BY <1>5, <1>7 DEF TypeOK
<1>9. /\ DOMAIN req' = DOMAIN req /\ req'[k] = [req[k] EXCEPT !.status = s]
      /\ \A x \in DOMAIN req : x # k => req'[x] = req[x]
    BY <1>1, <1>2, <1>6, <1>7
<1>10. req'[k].status = s /\ req'[k].node = req[k].node
    BY <1>8, <1>9 DEF Request
<1>11. s \notin Early /\ (s = "finish" => pc = "trackFinish")
    BY <1>3 DEF Tracks, Early
<1>12. Moves(w, next)
    BY <1>1, <1>2, <1>4, <1>5, GotoMoves
<1>13. next \in NotPassed \/ <<pc, next>> \in {<<"trackUnread", "addInvitee">>,
                                              <<"trackInvitee", "unreadInvitee">>}
    BY <1>3 DEF Tracks, NotPassed, AddPC, AuthPC
<1>14. \A u : Passed(at'[w], u) =>
          Passed(at[w], u) /\ {at'[w].inviter, at'[w].invitee} = KeyOf(w)
    BY <1>1, <1>2, <1>12, <1>13 DEF Moves, Passed, NotPassed, KeyOf
<1>15. \A x \in Worker : x # w => at'[x] = at[x]
    BY <1>12 DEF Moves
<1>16. \A x \in DOMAIN req : req[x].status \notin Early =>
           x \in DOMAIN req' /\ req'[x].node = req[x].node
    BY <1>9, <1>10
<1>17. \A x \in DOMAIN req' : req'[x].status = "finish" =>
           x \in DOMAIN req
              /\ (req[x].status = "finish" \/ (x = KeyOf(w) /\ at[w].pc = "trackFinish"))
    BY <1>1, <1>2, <1>6, <1>9, <1>10, <1>11
<1>18. Missing' \subseteq Missing \cup {}
    BY <1>5, <1>14, <1>15, <1>16, <1>17, MissingGrows
<1>19. QED
    BY <1>5, <1>18, Unpaid, OwedKept DEF BudgetKept

LEMMA OwedInsertUnread ==
    ASSUME Inv, Owed, NEW w \in Worker, InsertUnread(w)
    PROVE  Owed'
<1> DEFINE next == IF at[w].pc = "unreadInviter" THEN "trackUnread" ELSE "trackFinish"
           u == IF at[w].pc = "unreadInviter" THEN at[w].inviter ELSE at[w].invitee
<1>1. /\ at[w].pc \in {"unreadInviter", "unreadInvitee"} /\ Goto(w, next)
      /\ \/ unread' = unread \cup {<<u, at[w].node>>} /\ UNCHANGED budget
         \/ /\ budget.faults > 0 /\ budget' = [budget EXCEPT !.faults = @ - 1]
            /\ UNCHANGED unread
      /\ UNCHANGED req
    BY DEF InsertUnread
<1>2. TypeOK /\ Hand(w)
    BY DEF Inv, Hands
<1>3. Moves(w, next)
    BY <1>1, <1>2, GotoMoves DEF AuthPC
<1>4. PICK k : k = KeyOf(w)
    OBVIOUS
<1>5. k \in DOMAIN req /\ req[k].node = at[w].node
    BY <1>1, <1>2, <1>4 DEF Hand, Settled, Agreeing, AuthPC
<1>6. \A v : Passed(at'[w], v) =>
           \/ Passed(at[w], v) /\ {at'[w].inviter, at'[w].invitee} = KeyOf(w)
           \/ <<{at'[w].inviter, at'[w].invitee}, v>> \in {<<k, u>>}
    BY <1>1, <1>3, <1>4 DEF Moves, Passed, KeyOf
<1>7. \A x \in Worker : x # w => at'[x] = at[x]
    BY <1>3 DEF Moves
<1>8. Missing' \subseteq Missing \cup {<<k, u>>}
    BY <1>1, <1>6, <1>7, MissingGrows
<1>9. CASE unread' = unread \cup {<<u, at[w].node>>} /\ UNCHANGED budget
    <2>1. <<k, u>> \notin Missing'
        BY <1>1, <1>5, <1>9 DEF Missing
    <2>2. QED
        BY <1>8, <1>9, <2>1, Unpaid, OwedKept DEF BudgetKept
<1>10. CASE budget.faults > 0 /\ budget' = [budget EXCEPT !.faults = @ - 1]
    BY <1>8, <1>10, OwedPaid
<1>11. QED
    BY <1>1, <1>9, <1>10

LEMMA OwedGiveUp ==
    ASSUME Inv, Owed, NEW w \in Worker, Fail(w) \/ Crash(w)
    PROVE  Owed'
<1>1. budget.faults \in 0..Faults /\ budget.crashes \in 0..Crashes
    BY DEF Owed
<1>2. CASE Fail(w)
    <2>1. budget.faults > 0 /\ budget' = [budget EXCEPT !.faults = @ - 1]
        BY <1>2 DEF Fail
    <2>2. budget'.faults = budget.faults - 1 /\ BudgetKept
        BY <1>1, <2>1, FriendsAssumption DEF Owed, BudgetKept
    <2>3. QED
        BY <1>2, <2>2, OwedIdle DEF Fail, dbVars
<1>3. CASE Crash(w)
    <2>1. budget.crashes > 0 /\ budget' = [budget EXCEPT !.crashes = @ - 1]
        BY <1>3 DEF Crash
    <2>2. budget'.faults = budget.faults /\ BudgetKept
        BY <1>1, <2>1, FriendsAssumption DEF Owed, BudgetKept
    <2>3. QED
        BY <1>3, <2>2, OwedIdle DEF Crash, dbVars
<1>4. QED
    BY <1>2, <1>3

LEMMA OwedInit == Init => Owed
<1> SUFFICES ASSUME Init PROVE Owed
    OBVIOUS
<1>1. Missing = {}
    BY DEF Init, Missing
<1>2. QED
    BY <1>1, FS_EmptySet, FriendsAssumption DEF Init, Owed

LEMMA OwedStep == Inv /\ Owed /\ [Next]_vars => Owed'
<1> SUFFICES ASSUME Inv, Owed, [Next]_vars PROVE Owed'
    OBVIOUS
<1>1. CASE UNCHANGED vars
    BY <1>1 DEF vars, dbVars, Owed, Missing, KeyOf
<1>2. ASSUME NEW w \in Worker, NEW a \in User, NEW b \in User,
             AddFriend(w, a, b) \/ AddFriendAuthorize(w, a, b)
      PROVE  Owed'
    BY <1>2, OwedBegin
<1>3. ASSUME NEW w \in Worker, Fail(w) \/ Crash(w) PROVE Owed'
    BY <1>3, OwedGiveUp
<1>4. ASSUME NEW w \in Worker, InsertRequest(w) \/ InsertNode(w) \/ TrackNode(w)
      PROVE  Owed'
    BY <1>4, OwedInsertRequest, OwedInsertNode, OwedTrackNode
<1>5. ASSUME NEW w \in Worker,
             \/ InsertCount(w) \/ IncCount(w) \/ InsertMessage(w)
             \/ AddInviter(w) \/ AddInvitee(w)
      PROVE  Owed'
    <2>1. PICK pc, next :
              /\ at[w].pc = pc /\ Goto(w, next) /\ UNCHANGED <<req, unread, budget>>
              /\ <<pc, next>> \in {<<"insertCount", "trackCount">>, <<"incCount", "insertMessage">>,
                                   <<"insertMessage", "answerAdd">>,
                                   <<"addInviter", "trackInviter">>,
                                   <<"addInvitee", "trackInvitee">>}
        BY <1>5 DEF InsertCount, IncCount, InsertMessage, AddInviter, AddInvitee, Befriend
    <2>2. /\ pc \in AddPC \cup AuthPC /\ next \in AddPC \cup AuthPC
          /\ next \in NotPassed \/ (pc = "addInvitee" /\ next = "trackInvitee")
        BY <2>1 DEF AddPC, AuthPC, NotPassed
    <2>3. QED
        BY <2>1, <2>2, OwedGoto
<1>6. ASSUME NEW w \in Worker, FindRequest(w) \/ InsertUnread(w) \/ Track(w)
      PROVE  Owed'
    BY <1>6, OwedFindRequest, OwedInsertUnread, OwedTrack
<1>7. ASSUME NEW w \in Worker, Answered(w) PROVE Owed'
    BY <1>7, Unpaid, OwedIdle DEF Answered, dbVars
<1>8. QED
    BY <1>1, <1>2, <1>3, <1>4, <1>5, <1>6, <1>7 DEF Next

-----------------------------------------------------------------------------
(* The theorems.                                                           *)

LEMMA InvAlways == Spec => []Inv
BY InvInit, InvStep, PTL DEF Spec

\* Type correctness of the collections and of the workers.
THEOREM TypeCorrect == Spec => []TypeOK
<1>1. Inv => TypeOK
    BY DEF Inv
<1>2. QED
    BY <1>1, InvAlways, PTL

LEMMA EntriesTrue ==
    ASSUME Inv
    PROVE  OneConversation
BY DEF Inv, Entries, Settled, OneConversation

\* However many handlers, restarts and failed writes: the two entries of a
\* friendship name one conversation, and it is theirs.
THEOREM OneConversationHolds == Spec => []OneConversation
BY InvAlways, EntriesTrue, PTL

\* What AddFriendRes and AddFriendAuthorizeRes promised stays true.
THEOREM AnswersStand == Spec => []AnswersHold
<1>1. ASSUME Inv PROVE AnswersHold
    <2> SUFFICES ASSUME NEW r \in told, NEW k, k = {r.inviter, r.invitee}
                 PROVE  /\ k \in DOMAIN req /\ req[k].node = r.node
                        /\ r.type = "addfriendres"
                              => /\ req[k].status \notin {"request", "createNode"}
                                 /\ <<r.node, 0>> \in message
                        /\ r.type = "addfriendauthorizeres"
                              => /\ Linked(k, r.node, r.inviter, r.invitee)
                                 /\ Linked(k, r.node, r.invitee, r.inviter)
        BY DEF AnswersHold
    <2>1. QED
        BY <1>1 DEF Inv, ToldTrue, Settled, Early, Linked
<1>2. QED
    BY <1>1, InvAlways, PTL

\* The status of a request is true of the other collections, a friendship of
\* one side only has a request that is not finished, and counters are missing
\* only for the failures that were swallowed.
THEOREM StatusTrue == Spec => []StatusIsTrue
<1>1. ASSUME Inv, NEW u \in User, NEW v \in User, IsFriend(u, v), ~IsFriend(v, u)
      PROVE  {u, v} \in DOMAIN req /\ req[{u, v}].status # "finish"
    <2>1. PICK n \in Node : <<v, n>> \in friends[u]
        BY <1>1 DEF IsFriend
    <2>2. PICK k : k = {u, v}
        OBVIOUS
    <2>3. Settled(k, n)
        BY <1>1, <2>1, <2>2 DEF Inv, Entries
    <2>4. RequestTrue(k)
        BY <1>1, <2>3 DEF Inv, Requests, Settled
    <2>5. \/ u = req[k].inviter /\ v = req[k].invitee
          \/ v = req[k].inviter /\ u = req[k].invitee
        BY <2>2, <2>4 DEF RequestTrue
    <2>6. <<u, n>> \notin friends[v]
        BY <1>1, <2>1 DEF IsFriend
    <2>7. req[k].status # "finish"
        BY <2>3, <2>4, <2>5, <2>6 DEF RequestTrue, Settled
    <2>8. QED
        BY <2>2, <2>3, <2>7 DEF Settled
<1>2. ASSUME Inv, NEW k \in DOMAIN req, NEW r, r = req[k]
      PROVE  /\ r.status # "request" => r.node \in DOMAIN node /\ node[r.node] = k
             /\ r.status \notin {"request", "createNode"} => r.node \in DOMAIN count
             /\ r.status \in {"inviter", "userUnreadInviter"}
                   => \/ Linked(k, r.node, r.inviter, r.invitee)
                      \/ Linked(k, r.node, r.invitee, r.inviter)
             /\ r.status \in {"invitee", "finish"}
                   => /\ Linked(k, r.node, r.inviter, r.invitee)
                      /\ Linked(k, r.node, r.invitee, r.inviter)
    BY <1>2 DEF Inv, Requests, RequestTrue, Linked, Early
<1>3. ASSUME Owed
      PROVE  Cardinality({p \in (DOMAIN req) \X User :
                             /\ req[p[1]].status = "finish" /\ p[2] \in p[1]
                             /\ <<p[2], req[p[1]].node>> \notin unread})
                <= Faults - budget.faults
    <2> DEFINE Lost == {p \in (DOMAIN req) \X User :
                           /\ req[p[1]].status = "finish" /\ p[2] \in p[1]
                           /\ <<p[2], req[p[1]].node>> \notin unread}
    <2>1. Lost \subseteq Missing
        BY DEF Missing
    <2>2. /\ IsFiniteSet(Missing) /\ Cardinality(Missing) \in Nat
          /\ Cardinality(Missing) <= Faults - budget.faults
          /\ budget.faults \in 0..Faults
        BY <1>3, FS_CardinalityType DEF Owed
    <2>3. Cardinality(Lost) \in Nat /\ Cardinality(Lost) <= Cardinality(Missing)
        BY <2>1, <2>2, FS_Subset, FS_CardinalityType
    <2> HIDE DEF Lost
    <2>4. Cardinality(Lost) <= Faults - budget.faults
        BY <2>2, <2>3, FriendsAssumption
    <2>5. QED
        BY <2>4 DEF Lost
<1>4. Inv /\ Owed => StatusIsTrue
    BY <1>1, <1>2, <1>3 DEF StatusIsTrue
<1>5. Spec => []Owed
    BY InvAlways, OwedInit, OwedStep, PTL DEF Spec
<1>6. QED
    BY <1>4, <1>5, InvAlways, PTL
=============================================================================
