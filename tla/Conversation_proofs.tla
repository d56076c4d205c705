------------------------ MODULE Conversation_proofs -------------------------
(***************************************************************************)
(* Proofs about conversations, for every number of users, nodes, workers,  *)
(* messages, faults and restarts.                                          *)
(***************************************************************************)
EXTENDS Conversation, FiniteSetTheorems, TLAPS

Numbered == {"ack", "own", "unread", "notify", "queryNode"}
Announced == {"own", "unread", "notify", "queryNode"}

\* A request that waits for its number is not counted yet.
Waiting == {w \in Worker : at[w].pc = "inc"}
Counted == \A n \in Node : count[n] + Cardinality(Waiting) <= sent + 1

\* What a worker has in hand is backed by what it has written so far.
Hand(w) ==
    /\ at[w].request <= sent
    /\ at[w].pc = "inc" => \A i \in at[w].before : i < count[at[w].node]
    /\ at[w].pc # "inc" => at[w].id < count[at[w].node]
    /\ at[w].pc = "insert" => \A i \in at[w].before : i < at[w].id
    /\ at[w].pc \in {"inc", "insert"} => \A k \in DOMAIN msg : msg[k] # at[w].request
    /\ at[w].pc \in Numbered => /\ <<at[w].node, at[w].id>> \in DOMAIN msg
                                /\ msg[<<at[w].node, at[w].id>>] = at[w].request
    /\ at[w].pc \in Announced => <<at[w].node, at[w].id, at[w].request>> \in acked
    /\ at[w].pc \in {"own", "unread", "notify"} => at[w].to # 0

InHand == \A w \in Worker : at[w].pc # "idle" => Hand(w)

OneWorker ==
    \A w, x \in Worker :
        w # x /\ at[w].pc # "idle" /\ at[x].pc # "idle" => at[w].request # at[x].request

\* What is stored has been sent, what is acknowledged is stored, and a mark
\* that has moved names an acknowledged message.
Backed ==
    /\ \A k \in DOMAIN msg : msg[k] <= sent
    /\ \A a \in acked : <<a[1], a[2]>> \in DOMAIN msg
    /\ \A k \in DOMAIN mark : \/ mark[k].unread = 1
                              \/ \E a \in acked : a[1] = k[2] /\ a[2] = mark[k].unread

Inv == TypeOK /\ Counted /\ InHand /\ OneWorker /\ Backed

LEMMA WaitingFinite ==
    /\ IsFiniteSet(Waiting) /\ Cardinality(Waiting) \in Nat
    /\ IsFiniteSet(Waiting') /\ Cardinality(Waiting') \in Nat
<1>1. Waiting \in SUBSET Worker /\ Waiting' \in SUBSET Worker
    BY DEF Waiting
<1>2. QED
    BY <1>1, ConversationAssumption, FS_Subset, FS_CardinalityType

\* A worker that leaves "inc" makes the set smaller by one.
LEMMA OneLess ==
    ASSUME NEW w \in Worker, at[w].pc = "inc", at'[w].pc # "inc",
           \A x \in Worker : x # w => at'[x] = at[x]
    PROVE  Cardinality(Waiting') = Cardinality(Waiting) - 1
<1>1. Waiting' = Waiting \ {w} /\ w \in Waiting
    BY DEF Waiting
<1>2. QED
    BY <1>1, WaitingFinite, FS_RemoveElement

LEMMA OneMore ==
    ASSUME NEW w \in Worker, at[w].pc # "inc",
           \A x \in Worker : x # w => at'[x] = at[x]
    PROVE  Cardinality(Waiting') <= Cardinality(Waiting) + 1
<1>1. Waiting' \in SUBSET (Waiting \cup {w}) /\ w \notin Waiting
    BY DEF Waiting
<1>2. IsFiniteSet(Waiting \cup {w}) /\ Cardinality(Waiting \cup {w}) = Cardinality(Waiting) + 1
    BY <1>1, WaitingFinite, FS_AddElement
<1>3. QED
    BY <1>1, <1>2, FS_Subset

LEMMA JobFields ==
    ASSUME TypeOK, NEW w \in Worker, at[w].pc # "idle"
    PROVE  /\ at[w] \in Job /\ at[w] # Idle /\ at[w].pc \in PC
           /\ at[w].node \in Node /\ at[w].from \in User /\ at[w].to \in User \cup {0}
           /\ at[w].id \in Id /\ at[w].id \in Nat
           /\ at[w].request \in 1..MaxMessage /\ at[w].request \in Nat
           /\ at[w].before \in SUBSET Id /\ \A i \in at[w].before : i \in Nat
<1>1. at[w] \in Job
    BY DEF TypeOK, Idle
<1>2. QED
    BY <1>1, ConversationAssumption DEF Job, Idle, Id

LEMMA InvInit == Init => Inv
<1> SUFFICES ASSUME Init
             PROVE  Inv
    OBVIOUS
<1> USE ConversationAssumption
<1>1. at = [w \in Worker |-> Idle] /\ \A w \in Worker : at[w].pc = "idle"
    BY DEF Init, Idle
<1>2. Waiting = {}
    BY <1>1 DEF Waiting
<1>3. Counted
    BY <1>2, FS_EmptySet DEF Counted, Init
<1>4. InHand /\ OneWorker
    BY <1>1 DEF InHand, Hand, OneWorker
<1>5. Backed
    BY DEF Backed, Init
<1>6. TypeOK
    BY <1>1 DEF TypeOK, Init, Id
<1>7. QED
    BY <1>3, <1>4, <1>5, <1>6 DEF Inv

\* The end of a handler, by an answer, an exception or a crash.
LEMMA EndStep ==
    ASSUME Inv, NEW w \in Worker, at' = [at EXCEPT ![w] = Idle],
           UNCHANGED <<dbVars, acked, sent, back>>,
           noti' \subseteq Noti
    PROVE  Inv'
<1> USE DEF dbVars
<1>1. /\ at \in [Worker -> Job \cup {Idle}]
      /\ at'[w].pc = "idle" /\ \A x \in Worker : x # w => at'[x] = at[x]
    BY DEF Inv, TypeOK, Idle
<1>2. TypeOK'
    BY <1>1 DEF Inv, TypeOK
<1>3. Counted'
    <2>1. Waiting' = Waiting \/ at[w].pc = "inc"
        BY <1>1 DEF Waiting
    <2>2. /\ \A n \in Node : count[n] \in Nat
          /\ sent \in Nat /\ UNCHANGED <<count, sent>>
        BY DEF Inv, TypeOK
    <2>3. CASE at[w].pc = "inc"
        <3>1. Cardinality(Waiting') = Cardinality(Waiting) - 1
            BY <1>1, <2>3, OneLess
        <3>2. QED
            BY <2>2, <3>1, WaitingFinite DEF Inv, Counted
    <2>4. QED
        BY <2>1, <2>2, <2>3 DEF Inv, Counted
<1>4. InHand'
    BY <1>1 DEF Inv, InHand, Hand
<1>5. OneWorker'
    BY <1>1 DEF Inv, OneWorker
<1>6. Backed'
    BY DEF Inv, Backed
<1>7. QED
    BY <1>2, <1>3, <1>4, <1>5, <1>6 DEF Inv

\* A worker that goes on from one operation to the next keeps the rest of its
\* job.
LEMMA GotoStep ==
    ASSUME Inv, NEW w \in Worker, NEW p \in PC, at[w].pc # "idle", Goto(w, p)
    PROVE  /\ at[w] \in Job /\ at' \in [Worker -> Job \cup {Idle}]
           /\ at'[w].pc = p
           /\ at'[w].node = at[w].node /\ at'[w].id = at[w].id
           /\ at'[w].request = at[w].request /\ at'[w].before = at[w].before
           /\ at'[w].from = at[w].from /\ at'[w].to = at[w].to
           /\ at'[w] # Idle
           /\ \A x \in Worker : x # w => at'[x] = at[x]
<1>1. at \in [Worker -> Job \cup {Idle}] /\ at[w] \in Job
    BY DEF Inv, TypeOK, Idle
<1>2. at'[w] = [at[w] EXCEPT !.pc = p] /\ at' = [at EXCEPT ![w] = [at[w] EXCEPT !.pc = p]]
    BY <1>1 DEF Goto
<1>3. [at[w] EXCEPT !.pc = p] \in Job
    BY <1>1 DEF Job
<1>4. QED
    BY <1>1, <1>2, <1>3 DEF Job, Idle, PC

\* Counted speaks of the workers at "inc" only.
LEMMA CountedKept ==
    ASSUME Inv, UNCHANGED <<count, sent>>, NEW w \in Worker,
           at[w].pc # "inc", at'[w].pc # "inc",
           \A x \in Worker : x # w => at'[x] = at[x]
    PROVE  Counted'
<1>1. Waiting' = Waiting
    BY DEF Waiting
<1>2. QED
    BY <1>1 DEF Inv, Counted

LEMMA NodeMessageStep ==
    ASSUME Inv, NEW w \in Worker, NEW u \in User, NEW n \in Node,
           NEW to \in User \cup {0}, NodeMessage(w, u, n, to)
    PROVE  Inv'
<1> DEFINE job == [pc |-> "inc", from |-> u, to |-> to, node |-> n, id |-> 0,
                   request |-> sent + 1, before |-> Acked(n)]
<1> USE ConversationAssumption DEF dbVars, outVars
<1>1. /\ at[w].pc = "idle" /\ sent < MaxMessage /\ sent' = sent + 1
      /\ at' = [at EXCEPT ![w] = job]
      /\ UNCHANGED <<count, msg, mark, acked, noti, back>>
    BY DEF NodeMessage, Idle
<1>2. /\ sent \in 0..MaxMessage /\ at \in [Worker -> Job \cup {Idle}]
      /\ \A m \in Node : count[m] \in Nat
    BY DEF Inv, TypeOK
<1>3. at'[w] = job /\ \A x \in Worker : x # w => at'[x] = at[x]
    BY <1>1, <1>2
<1>4. Acked(n) \in SUBSET Id /\ \A i \in Acked(n) : i < count[n]
    <2>1. ASSUME NEW a \in acked, a[1] = n
          PROVE  a[2] \in Id /\ a[2] < count[n]
        <3>1. a[2] \in Id /\ <<n, a[2]>> \in DOMAIN msg
            BY <2>1 DEF Inv, TypeOK, Backed
        <3>2. a[2] \in 0..(count[n] - 1)
            BY <3>1 DEF Inv, TypeOK
        <3>3. QED
            BY <1>2, <3>1, <3>2
    <2>2. QED
        BY <2>1 DEF Acked
<1>5. job \in Job
    BY <1>1, <1>2, <1>4 DEF Job, PC, Id
<1>6. TypeOK'
    BY <1>1, <1>2, <1>5 DEF Inv, TypeOK
<1>7. Counted'
    <2>1. Cardinality(Waiting') <= Cardinality(Waiting) + 1
        BY <1>1, <1>3, OneMore
    <2>2. QED
        BY <1>1, <1>2, <2>1, WaitingFinite DEF Inv, Counted
<1>8. InHand'
    <2>1. \A k \in DOMAIN msg : msg[k] # sent + 1
        BY <1>2 DEF Inv, Backed, TypeOK
    <2>2. \A x \in Worker : x # w /\ at[x].pc # "idle" => at[x].request \in Nat
        BY <1>2 DEF Job, Idle
    <2>3. QED
        BY <1>1, <1>2, <1>3, <1>4, <2>1, <2>2 DEF Inv, InHand, Hand, Numbered, Announced
<1>9. OneWorker'
    <2>1. \A x \in Worker : at[x].pc # "idle" => at[x].request # sent + 1
        <3>1. SUFFICES ASSUME NEW x \in Worker, at[x].pc # "idle"
                       PROVE  at[x].request # sent + 1
            OBVIOUS
        <3>2. at[x].request \in Nat /\ at[x].request <= sent
            BY <3>1, JobFields DEF Inv, InHand, Hand
        <3>3. QED
            BY <1>2, <3>2
    <2>2. QED
        BY <1>3, <2>1 DEF Inv, OneWorker
<1>10. Backed'
    BY <1>1, <1>2 DEF Inv, Backed, TypeOK
<1>11. QED
    BY <1>6, <1>7, <1>8, <1>9, <1>10 DEF Inv

LEMMA IncCountStep ==
    ASSUME Inv, NEW w \in Worker, IncCount(w)
    PROVE  Inv'
<1> DEFINE n == at[w].node
           job == [at[w] EXCEPT !.pc = "insert", !.id = count[n]]
<1> USE ConversationAssumption DEF outVars
<1>1. /\ at[w].pc = "inc" /\ count' = [count EXCEPT ![n] = @ + 1]
      /\ UNCHANGED <<msg, mark, acked, noti, back, sent>>
    BY DEF IncCount
<1>2. /\ sent \in 0..MaxMessage /\ at \in [Worker -> Job \cup {Idle}]
      /\ at[w] \in Job /\ n \in Node
      /\ count \in [Node -> 1..(MaxMessage + 1)]
    BY <1>1 DEF Inv, TypeOK, Idle, Job
<1>3. w \in Waiting /\ Cardinality(Waiting) > 0
    <2>1. w \in Waiting
        BY <1>1 DEF Waiting
    <2>2. QED
        BY <2>1, WaitingFinite, FS_EmptySet
<1>4. count[n] \in Id /\ count[n] <= sent
    BY <1>2, <1>3, WaitingFinite DEF Inv, Counted, Id
<1>5. job \in Job
    BY <1>2, <1>4 DEF Job, PC
<1>6. at' = [at EXCEPT ![w] = job]
    BY <1>2 DEF IncCount
<1>7. /\ at'[w].pc = "insert" /\ at'[w].id = count[n] /\ at'[w].node = n
      /\ at'[w].request = at[w].request /\ at'[w].before = at[w].before
      /\ \A x \in Worker : x # w => at'[x] = at[x]
    BY <1>2, <1>6 DEF Job
<1> HIDE DEF job
<1>8. /\ count'[n] = count[n] + 1
      /\ \A m \in Node : m # n => count'[m] = count[m]
    BY <1>1, <1>2
<1>9. TypeOK'
    <2>1. count' \in [Node -> 1..(MaxMessage + 1)]
        BY <1>1, <1>2, <1>4
    <2>2. \A k \in DOMAIN msg' : k[1] \in Node /\ k[2] \in 0..(count'[k[1]] - 1)
                                 /\ msg'[k] \in 0..MaxMessage
        BY <1>1, <1>2, <1>8 DEF Inv, TypeOK
    <2>3. QED
        BY <1>1, <1>2, <1>5, <1>6, <2>1, <2>2 DEF Inv, TypeOK
<1>10. Counted'
    <2>1. Cardinality(Waiting') = Cardinality(Waiting) - 1
        BY <1>1, <1>7, OneLess
    <2>2. QED
        BY <1>1, <1>2, <1>8, <2>1, WaitingFinite DEF Inv, Counted
<1>11. InHand'
    <2>1. ASSUME NEW x \in Worker, x # w, at[x].pc # "idle"
          PROVE  /\ at[x].pc = "inc" => \A i \in at[x].before : i < count'[at[x].node]
                 /\ at[x].pc # "inc" => at[x].id < count'[at[x].node]
        <3>1. /\ at[x].node \in Node /\ at[x].id \in Nat
              /\ \A i \in at[x].before : i \in Nat
            BY <2>1, JobFields DEF Inv
        <3>2. count'[at[x].node] \in Nat /\ count[at[x].node] \in Nat
              /\ count'[at[x].node] >= count[at[x].node]
            BY <1>2, <1>8, <3>1
        <3>3. Hand(x)
            BY <2>1 DEF Inv, InHand
        <3>4. ASSUME NEW i \in Nat, i < count[at[x].node]
              PROVE  i < count'[at[x].node]
            BY <3>2, <3>4
        <3>5. QED
            BY <3>1, <3>3, <3>4 DEF Hand
    <2>2. \A x \in Worker : x # w => at'[x] = at[x]
        BY <1>7
    <2>3. /\ at'[w].request <= sent /\ at'[w].id < count'[at'[w].node]
          /\ \A i \in at'[w].before : i < at'[w].id
          /\ \A k \in DOMAIN msg : msg[k] # at'[w].request
        <3>1. Hand(w) /\ at[w].before \in SUBSET Id
            BY <1>1, JobFields DEF Inv, InHand
        <3>2. QED
            BY <1>1, <1>2, <1>7, <1>8, <3>1 DEF Hand
    <2>4. ASSUME NEW x \in Worker, x # w, at'[x].pc # "idle"
          PROVE  Hand(x)'
        BY <1>1, <2>1, <2>2, <2>4 DEF Inv, InHand, Hand
    <2>5. QED
        BY <1>1, <1>7, <2>3, <2>4 DEF InHand, Hand, Numbered, Announced
<1>12. OneWorker'
    <2>1. at'[w].request = at[w].request /\ at[w].pc # "idle"
        BY <1>1, <1>7
    <2>2. \A x \in Worker : x # w => at'[x] = at[x]
        BY <1>7
    <2>3. QED
        BY <2>1, <2>2 DEF Inv, OneWorker
<1>13. Backed'
    BY <1>1 DEF Inv, Backed
<1>14. QED
    BY <1>9, <1>10, <1>11, <1>12, <1>13 DEF Inv

LEMMA InsertMessageStep ==
    ASSUME Inv, NEW w \in Worker, InsertMessage(w)
    PROVE  Inv'
<1> DEFINE k == <<at[w].node, at[w].id>>
<1> USE ConversationAssumption DEF outVars
<1>1. at[w].pc = "insert" /\ UNCHANGED <<count, mark, acked, noti, back, sent>>
    BY DEF InsertMessage
<1>2. CASE k \in DOMAIN msg
    <2>1. at' = [at EXCEPT ![w] = Idle] /\ UNCHANGED msg
        BY <1>2 DEF InsertMessage
    <2>2. QED
        BY <1>1, <2>1, EndStep DEF dbVars, Inv, TypeOK
<1>3. CASE k \notin DOMAIN msg
    <2>1. /\ msg' = Put(msg, k, at[w].request) /\ Goto(w, "ack")
          /\ "ack" \in PC
        BY <1>3 DEF InsertMessage, PC
    <2>2. /\ at[w] \in Job /\ at' \in [Worker -> Job \cup {Idle}]
          /\ at'[w].pc = "ack"
          /\ at'[w].node = at[w].node /\ at'[w].id = at[w].id
          /\ at'[w].request = at[w].request
          /\ \A x \in Worker : x # w => at'[x] = at[x]
        BY <1>1, <2>1, GotoStep
    <2>3. /\ DOMAIN msg' = DOMAIN msg \cup {k}
          /\ msg'[k] = at[w].request
          /\ \A x \in DOMAIN msg : msg'[x] = msg[x]
        BY <1>3, <2>1 DEF Put
    <2>4. /\ Hand(w) /\ at[w].node \in Node /\ at[w].id \in Nat
          /\ at[w].request \in 1..MaxMessage
        BY <1>1, JobFields DEF Inv, InHand
    <2>5. TypeOK'
        <3>1. at[w].id < count[at[w].node] /\ count[at[w].node] \in Nat
            BY <1>1, <2>4 DEF Hand, Inv, TypeOK
        <3>2. k[1] \in Node /\ k[2] \in 0..(count[k[1]] - 1)
            BY <2>4, <3>1
        <3>3. \A x \in DOMAIN msg' : /\ x[1] \in Node /\ x[2] \in 0..(count[x[1]] - 1)
                                     /\ msg'[x] \in 0..MaxMessage
            BY <2>3, <2>4, <3>2 DEF Inv, TypeOK
        <3>4. QED
            BY <1>1, <2>2, <3>3 DEF Inv, TypeOK
    <2>6. Counted'
        BY <1>1, <2>2, CountedKept
    <2>7. InHand'
        <3>1. Hand(w)'
            BY <1>1, <2>2, <2>3, <2>4 DEF Hand, Numbered, Announced
        <3>2. ASSUME NEW x \in Worker, x # w, at[x].pc # "idle"
              PROVE  Hand(x)'
            <4>1. Hand(x) /\ at[x].request # at[w].request
                BY <1>1, <3>2 DEF Inv, InHand, OneWorker
            <4>2. at'[x] = at[x]
                BY <2>2, <3>2
            <4>3. QED
                BY <1>1, <2>3, <4>1, <4>2 DEF Hand
        <3>3. QED
            BY <2>2, <3>1, <3>2 DEF InHand
    <2>8. OneWorker'
        <3>1. at[w].pc # "idle" /\ at'[w].request = at[w].request
            BY <1>1, <2>2
        <3>2. \A x \in Worker : x # w => at'[x] = at[x]
            BY <2>2
        <3>3. QED
            BY <3>1, <3>2 DEF Inv, OneWorker
    <2>9. Backed'
        BY <1>1, <2>3, <2>4 DEF Inv, Backed, Hand
    <2>10. QED
        BY <2>5, <2>6, <2>7, <2>8, <2>9 DEF Inv
<1>4. QED
    BY <1>2, <1>3

\* A worker that goes on without touching what is stored: its answer, its
\* notification to the own devices, the unread mark.
LEMMA GoOnStep ==
    ASSUME Inv, NEW w \in Worker, NEW p \in {"own", "queryNode", "unread", "notify"},
           at[w].pc \in {"ack", "own", "unread"}, Goto(w, p),
           UNCHANGED <<count, msg, sent>>, acked \subseteq acked',
           <<at[w].node, at[w].id, at[w].request>> \in acked',
           p # "queryNode" => at[w].to # 0
    PROVE  /\ at' \in [Worker -> Job \cup {Idle}]
           /\ Counted' /\ InHand' /\ OneWorker'
<1>1. p \in PC /\ at[w].pc # "idle" /\ at[w].pc # "inc"
    BY DEF PC
<1>2. /\ at' \in [Worker -> Job \cup {Idle}]
      /\ at'[w].pc = p
      /\ at'[w].node = at[w].node /\ at'[w].id = at[w].id
      /\ at'[w].request = at[w].request /\ at'[w].to = at[w].to
      /\ \A x \in Worker : x # w => at'[x] = at[x]
    BY <1>1, GotoStep
<1>3. Counted'
    BY <1>1, <1>2, CountedKept
<1>4. InHand'
    <2>1. Hand(w)'
        <3>1. Hand(w)
            BY <1>1 DEF Inv, InHand
        <3>2. QED
            BY <1>2, <3>1 DEF Hand, Numbered, Announced
    <2>2. ASSUME NEW x \in Worker, x # w, at[x].pc # "idle"
          PROVE  Hand(x)'
        <3>1. Hand(x) /\ at'[x] = at[x]
            BY <1>2, <2>2 DEF Inv, InHand
        <3>2. QED
            BY <3>1 DEF Hand
    <2>3. QED
        BY <1>2, <2>1, <2>2 DEF InHand
<1>5. OneWorker'
    <2>1. \A x \in Worker : x # w => at'[x] = at[x]
        BY <1>2
    <2>2. QED
        BY <1>1, <1>2, <2>1 DEF Inv, OneWorker
<1>6. QED
    BY <1>2, <1>3, <1>4, <1>5

LEMMA AckStep ==
    ASSUME Inv, NEW w \in Worker, Ack(w)
    PROVE  Inv'
<1> DEFINE a == <<at[w].node, at[w].id, at[w].request>>
           p == IF at[w].to = 0 THEN "queryNode" ELSE "own"
<1>1. /\ at[w].pc = "ack" /\ acked' = acked \cup {a} /\ Goto(w, p)
      /\ UNCHANGED <<count, msg, mark, noti, back, sent>>
    BY DEF Ack, dbVars
<1>2. /\ at' \in [Worker -> Job \cup {Idle}]
      /\ Counted' /\ InHand' /\ OneWorker'
    BY <1>1, GoOnStep
<1>3. /\ Hand(w) /\ at[w].node \in Node /\ at[w].id \in Id
      /\ at[w].request \in 1..MaxMessage
    BY <1>1, JobFields DEF Inv, InHand
<1>4. TypeOK'
    BY <1>1, <1>2, <1>3 DEF Inv, TypeOK
<1>5. Backed'
    <2>1. <<at[w].node, at[w].id>> \in DOMAIN msg
        BY <1>1, <1>3 DEF Hand, Numbered
    <2>2. QED
        BY <1>1, <2>1 DEF Inv, Backed
<1>6. QED
    BY <1>2, <1>4, <1>5 DEF Inv

LEMMA NotificationType ==
    ASSUME Inv, NEW w \in Worker, at[w].pc \in {"own", "notify"}
    PROVE  /\ Notification(w, at[w].from) \in Noti
           /\ Notification(w, at[w].to) \in Noti
<1>1. /\ at[w].node \in Node /\ at[w].id \in Id
      /\ at[w].from \in User /\ at[w].to \in User
    BY JobFields DEF Inv, InHand, Hand
<1>2. QED
    BY <1>1 DEF Notification, Noti

LEMMA NotifyOwnStep ==
    ASSUME Inv, NEW w \in Worker, NotifyOwn(w)
    PROVE  Inv'
<1>1. /\ at[w].pc = "own" /\ Goto(w, "unread")
      /\ noti' = noti \cup {Notification(w, at[w].from)}
      /\ UNCHANGED <<count, msg, mark, acked, back, sent>>
    BY DEF NotifyOwn, dbVars
<1>2. Hand(w)
    BY <1>1 DEF Inv, InHand
<1>3. /\ at' \in [Worker -> Job \cup {Idle}]
      /\ Counted' /\ InHand' /\ OneWorker'
    BY <1>1, <1>2, GoOnStep DEF Hand, Announced
<1>4. TypeOK'
    BY <1>1, <1>3, NotificationType DEF Inv, TypeOK
<1>5. Backed'
    BY <1>1 DEF Inv, Backed
<1>6. QED
    BY <1>3, <1>4, <1>5 DEF Inv

LEMMA UpdateUnreadStep ==
    ASSUME Inv, NEW w \in Worker, UpdateUnread(w)
    PROVE  Inv'
<1> DEFINE k == <<at[w].to, at[w].node>>
<1>1. /\ at[w].pc = "unread" /\ Goto(w, "notify")
      /\ UNCHANGED <<count, msg, acked, noti, back, sent>>
      /\ \/ UNCHANGED mark
         \/ k \in DOMAIN mark /\ mark' = [mark EXCEPT ![k].unread = at[w].id]
    BY DEF UpdateUnread, outVars
<1>2. /\ Hand(w) /\ at[w].id \in Id
    BY <1>1, JobFields DEF Inv, InHand
<1>3. /\ at' \in [Worker -> Job \cup {Idle}]
      /\ Counted' /\ InHand' /\ OneWorker'
    BY <1>1, <1>2, GoOnStep DEF Hand, Announced
<1>4. <<at[w].node, at[w].id, at[w].request>> \in acked
    BY <1>1, <1>2 DEF Hand, Announced
<1>5. /\ DOMAIN mark' = DOMAIN mark
      /\ \A x \in DOMAIN mark : /\ mark'[x] \in [unread : Id \cup {1}, readed : Id \cup {1}]
                                /\ \/ mark'[x].unread = mark[x].unread
                                   \/ x = k /\ mark'[x].unread = at[w].id
    BY <1>1, <1>2 DEF Inv, TypeOK
<1>6. TypeOK'
    BY <1>1, <1>3, <1>5 DEF Inv, TypeOK
<1>7. Backed'
    BY <1>1, <1>4, <1>5 DEF Inv, Backed
<1>8. QED
    BY <1>3, <1>6, <1>7 DEF Inv

\* The other handlers leave the workers alone.
LEMMA OtherStep ==
    ASSUME Inv, UNCHANGED <<count, msg, acked, noti, at, sent>>,
           DOMAIN mark' = DOMAIN mark,
           \A k \in DOMAIN mark : /\ mark'[k] \in [unread : Id \cup {1}, readed : Id \cup {1}]
                                  /\ mark'[k].unread = mark[k].unread,
           back' \subseteq Noti
    PROVE  Inv'
<1>1. TypeOK'
    BY DEF Inv, TypeOK
<1>2. Counted'
    BY DEF Inv, Counted, Waiting
<1>3. InHand'
    BY DEF Inv, InHand, Hand
<1>4. OneWorker' /\ Backed'
    BY DEF Inv, OneWorker, Backed
<1>5. QED
    BY <1>1, <1>2, <1>3, <1>4 DEF Inv

LEMMA QueryMessageStep ==
    ASSUME Inv, NEW u \in User, NEW n \in Node, NEW from \in Id, NEW to \in Id,
           QueryMessage(u, n, from, to)
    PROVE  Inv'
<1> DEFINE k == <<u, n>>
<1>1. /\ to > 0 /\ k \in DOMAIN mark /\ mark' = [mark EXCEPT ![k].readed = to - 1]
      /\ UNCHANGED <<count, msg, acked, noti, back, at, sent>>
    BY DEF QueryMessage, outVars
<1>2. to - 1 \in Id
    BY <1>1, ConversationAssumption DEF Id
<1>3. /\ DOMAIN mark' = DOMAIN mark
      /\ \A x \in DOMAIN mark : /\ mark'[x] \in [unread : Id \cup {1}, readed : Id \cup {1}]
                                /\ mark'[x].unread = mark[x].unread
    BY <1>1, <1>2 DEF Inv, TypeOK
<1>4. back' \subseteq Noti
    BY <1>1 DEF Inv, TypeOK
<1>5. QED
    BY <1>1, <1>3, <1>4, OtherStep

LEMMA ClientConnectStep ==
    ASSUME Inv, NEW u \in User, ClientConnect(u)
    PROVE  Inv'
<1>1. UNCHANGED <<count, msg, mark, acked, noti, at, sent>>
    BY DEF ClientConnect, dbVars
<1>2. \A k \in DOMAIN mark : k \in User \X Node /\ mark[k].unread \in Id \cup {1}
    BY DEF Inv, TypeOK
<1>3. back' \subseteq Noti
    <2>1. ASSUME NEW k \in DOMAIN mark, k[1] = u
          PROVE  [user |-> u, node |-> k[2], id |-> mark[k].unread, own |-> FALSE] \in Noti
        BY <1>2, <2>1 DEF Noti
    <2>2. back \subseteq Noti
        BY DEF Inv, TypeOK
    <2>3. QED
        BY <2>1, <2>2 DEF ClientConnect
<1>4. \A k \in DOMAIN mark : mark[k] \in [unread : Id \cup {1}, readed : Id \cup {1}]
    BY DEF Inv, TypeOK
<1>5. QED
    BY <1>1, <1>3, <1>4, OtherStep

LEMMA InvStep == Inv /\ [Next]_vars => Inv'
<1> SUFFICES ASSUME Inv, [Next]_vars
             PROVE  Inv'
    OBVIOUS
<1>1. CASE UNCHANGED vars
    <2>1. /\ UNCHANGED <<count, msg, mark, acked, noti, back, at, sent>>
          /\ \A k \in DOMAIN mark : mark[k] \in [unread : Id \cup {1}, readed : Id \cup {1}]
          /\ back \subseteq Noti
        BY <1>1 DEF vars, dbVars, outVars, Inv, TypeOK
    <2>2. QED
        BY <2>1, OtherStep
<1>2. ASSUME NEW w \in Worker, NEW u \in User, NEW n \in Node,
             NEW to \in User \cup {0}, NodeMessage(w, u, n, to)
      PROVE  Inv'
    BY <1>2, NodeMessageStep
<1>3. ASSUME NEW w \in Worker, IncCount(w) \/ InsertMessage(w)
      PROVE  Inv'
    BY <1>3, IncCountStep, InsertMessageStep
<1>4. ASSUME NEW w \in Worker, Ack(w) \/ NotifyOwn(w) \/ UpdateUnread(w)
      PROVE  Inv'
    BY <1>4, AckStep, NotifyOwnStep, UpdateUnreadStep
<1>5. ASSUME NEW w \in Worker, QueryNodeThrows(w) \/ Fail(w) \/ Crash(w)
      PROVE  Inv'
    <2>1. /\ at' = [at EXCEPT ![w] = Idle]
          /\ UNCHANGED <<dbVars, acked, sent, back>>
          /\ noti' \subseteq Noti
        BY <1>5 DEF QueryNodeThrows, Fail, Crash, outVars, Inv, TypeOK
    <2>2. QED
        BY <2>1, EndStep
<1>6. ASSUME NEW w \in Worker, Notify(w)
      PROVE  Inv'
    <2>1. /\ at' = [at EXCEPT ![w] = Idle] /\ at[w].pc = "notify"
          /\ UNCHANGED <<dbVars, acked, sent, back>>
          /\ noti' = noti \cup {Notification(w, at[w].to)}
        BY <1>6 DEF Notify
    <2>2. noti' \subseteq Noti
        BY <2>1, NotificationType DEF Inv, TypeOK
    <2>3. QED
        BY <2>1, <2>2, EndStep
<1>7. ASSUME NEW u \in User, NEW n \in Node, NEW from \in Id, NEW to \in Id,
             QueryMessage(u, n, from, to)
      PROVE  Inv'
    BY <1>7, QueryMessageStep
<1>8. ASSUME NEW u \in User, ClientConnect(u)
      PROVE  Inv'
    BY <1>8, ClientConnectStep
<1>9. QED
    BY <1>1, <1>2, <1>3, <1>4, <1>5, <1>6, <1>7, <1>8 DEF Next

\* The ranges of TypeOK and what the workers have in hand hold for any number
\* of workers and messages.  TypeOK alone is not inductive: that the counter
\* stays below MaxMessage + 2 needs Counted.
THEOREM TypeCorrect == Spec => []TypeOK
<1>1. Init => Inv
    BY InvInit
<1>2. Inv /\ [Next]_vars => Inv'
    BY InvStep
<1>3. Inv => TypeOK
    BY DEF Inv
<1>4. QED
    BY <1>1, <1>2, <1>3, PTL DEF Spec

-----------------------------------------------------------------------------
(* The workers implement the message service.                              *)

\* A busy worker as the service sees it.
Opened(w) == [request |-> at[w].request, node |-> at[w].node, before |-> at[w].before]

LEMMA OpenDef ==
    ASSUME TypeOK, TypeOK'
    PROVE  /\ Open = {Opened(w) : w \in {x \in Worker : at[x].pc # "idle"}}
           /\ Open' = {Opened(w)' : w \in {x \in Worker : at'[x].pc # "idle"}}
<1>1. \A j \in Job \cup {Idle} : j # Idle <=> j.pc # "idle"
    BY DEF Job, Idle, PC
<1>2. \A w \in Worker : at[w] \in Job \cup {Idle} /\ at'[w] \in Job \cup {Idle}
    BY DEF TypeOK
<1>3. \A w \in Worker : /\ at[w] # Idle <=> at[w].pc # "idle"
                        /\ at'[w] # Idle <=> at'[w].pc # "idle"
    BY <1>1, <1>2
<1>4. /\ {x \in Worker : at[x] # Idle} = {x \in Worker : at[x].pc # "idle"}
      /\ {x \in Worker : at'[x] # Idle} = {x \in Worker : at'[x].pc # "idle"}
    BY <1>3
<1>5. /\ Open = {Opened(w) : w \in {x \in Worker : at[x] # Idle}}
      /\ Open' = {Opened(w)' : w \in {x \in Worker : at'[x] # Idle}}
    BY Zenon DEF Open, Opened, Idle
<1>6. QED
    BY <1>4, <1>5

\* A worker that goes on keeps its request open, one that stops closes it.
LEMMA OpenKept ==
    ASSUME Inv, TypeOK', NEW w \in Worker, NEW p \in PC, at[w].pc # "idle", Goto(w, p)
    PROVE  Open' = Open
<1>1. /\ at'[w].pc # "idle" /\ Opened(w)' = Opened(w)
      /\ \A x \in Worker : x # w => at'[x] = at[x]
    BY GotoStep DEF Opened, PC
<1>2. \A x \in Worker : Opened(x)' = Opened(x) /\ (at'[x].pc # "idle" <=> at[x].pc # "idle")
    BY <1>1 DEF Opened
<1>3. /\ Open = {Opened(x) : x \in {y \in Worker : at[y].pc # "idle"}}
      /\ Open' = {Opened(x)' : x \in {y \in Worker : at'[y].pc # "idle"}}
    BY OpenDef DEF Inv
<1>4. QED
    BY <1>2, <1>3

LEMMA OpenClosed ==
    ASSUME Inv, TypeOK', NEW w \in Worker, at[w].pc # "idle", at' = [at EXCEPT ![w] = Idle]
    PROVE  Opened(w) \in Open /\ Open' = Open \ {Opened(w)}
<1>1. /\ at \in [Worker -> Job \cup {Idle}]
      /\ at'[w].pc = "idle" /\ \A x \in Worker : x # w => at'[x] = at[x]
    BY DEF Inv, TypeOK, Idle
<1>2. \A x \in Worker : x # w => Opened(x)' = Opened(x)
    BY <1>1 DEF Opened
<1>3. \A x \in Worker : x # w /\ at[x].pc # "idle" => Opened(x) # Opened(w)
    BY DEF Opened, Inv, OneWorker
<1>4. /\ Open = {Opened(x) : x \in {y \in Worker : at[y].pc # "idle"}}
      /\ Open' = {Opened(x)' : x \in {y \in Worker : at'[y].pc # "idle"}}
    BY OpenDef DEF Inv
<1>5. QED
    BY <1>1, <1>2, <1>3, <1>4

\* A notification to users is one of the service's if it names a message that
\* has been acknowledged, or is the mark 1.
LEMMA ToldMore ==
    ASSUME noti \subseteq noti', back \subseteq back',
           \A x \in (noti' \cup back') \ (noti \cup back) :
              x.id = 1 \/ \E a \in acked : a[1] = x.node /\ a[2] = x.id
    PROVE  Service!Telling
<1>1. Told \subseteq Told'
    BY DEF Told
<1>2. ASSUME NEW t \in Told' \ Told
      PROVE  t.id = 1 \/ \E a \in acked : a[1] = t.node /\ a[2] = t.id
    <2>1. PICK x \in noti' \cup back' : t = [user |-> x.user, node |-> x.node, id |-> x.id]
        BY <1>2 DEF Told
    <2>2. x \notin noti \cup back
        BY <1>2, <2>1 DEF Told
    <2>3. QED
        BY <2>1, <2>2
<1>3. QED
    BY <1>1, <1>2 DEF Service!Telling

LEMMA HandAcked ==
    ASSUME Inv, NEW w \in Worker, at[w].pc \in Announced, NEW user
    PROVE  \E a \in acked : /\ a[1] = Notification(w, user).node
                           /\ a[2] = Notification(w, user).id
<1>1. <<at[w].node, at[w].id, at[w].request>> \in acked
    BY DEF Inv, InHand, Hand, Announced
<1>2. QED
    BY <1>1 DEF Notification

LEMMA BeginRefines ==
    ASSUME Inv, TypeOK', NEW w \in Worker, NEW u \in User, NEW n \in Node,
           NEW to \in User \cup {0}, NodeMessage(w, u, n, to)
    PROVE  Service!Next
<1>1. /\ at[w].pc = "idle" /\ sent < MaxMessage
      /\ at' = [at EXCEPT ![w] = [pc |-> "inc", from |-> u, to |-> to, node |-> n,
                    id |-> 0, request |-> sent + 1, before |-> Acked(n)]]
      /\ UNCHANGED <<msg, acked, noti, back>>
    BY DEF NodeMessage, Idle, dbVars, outVars
<1>2. at \in [Worker -> Job \cup {Idle}] /\ sent \in 0..MaxMessage /\ MaxMessage \in Nat
    BY ConversationAssumption DEF Inv, TypeOK
<1>3. /\ at'[w].pc # "idle" /\ \A x \in Worker : x # w => at'[x] = at[x]
      /\ Opened(w)' = [request |-> sent + 1, node |-> n, before |-> Acked(n)]
    BY <1>1, <1>2 DEF Opened
<1>4. Open' = Open \cup {[request |-> sent + 1, node |-> n, before |-> Acked(n)]}
    <2>1. \A x \in Worker : x # w => Opened(x)' = Opened(x)
        BY <1>3 DEF Opened
    <2>2. QED
        BY <1>1, <1>3, <2>1, OpenDef DEF Inv
<1>5. \A o \in Open : o.request # sent + 1
    <2>1. ASSUME NEW x \in Worker, at[x].pc # "idle"
          PROVE  at[x].request # sent + 1
        <3>1. at[x].request \in Nat /\ at[x].request <= sent
            BY <2>1, JobFields DEF Inv, InHand, Hand
        <3>2. QED
            BY <1>2, <3>1
    <2>2. QED
        BY <1>3, <2>1, OpenDef DEF Opened, Inv
<1>6. \A k \in DOMAIN msg : msg[k] # sent + 1
    BY <1>2 DEF Inv, Backed, TypeOK
<1>7. Service!Begin(sent + 1, n)
    BY <1>1, <1>4, <1>5, <1>6 DEF Service!Begin, Service!IsStored, Service!Promised, Acked, Told
<1>8. QED
    BY <1>1, <1>2, <1>7 DEF Service!Next

LEMMA EndRefines ==
    ASSUME Inv, TypeOK', NEW w \in Worker, at[w].pc # "idle",
           at' = [at EXCEPT ![w] = Idle], UNCHANGED <<msg, acked>>,
           Service!Telling
    PROVE  Service!Next
<1>1. Opened(w) \in Open /\ Open' = Open \ {Opened(w)}
    BY OpenClosed
<1>2. Service!End(Opened(w))
    BY <1>1 DEF Service!End
<1>3. QED
    BY <1>1, <1>2 DEF Service!Next

LEMMA InsertRefines ==
    ASSUME Inv, TypeOK', NEW w \in Worker, InsertMessage(w)
    PROVE  Service!Next
<1> DEFINE k == <<at[w].node, at[w].id>>
<1>1. at[w].pc = "insert" /\ UNCHANGED <<acked, noti, back>>
    BY DEF InsertMessage, outVars
<1>2. CASE k \in DOMAIN msg
    <2>1. at' = [at EXCEPT ![w] = Idle] /\ UNCHANGED msg
        BY <1>2 DEF InsertMessage
    <2>2. Service!Telling
        BY <1>1, ToldMore
    <2>3. QED
        BY <1>1, <2>1, <2>2, EndRefines
<1>3. CASE k \notin DOMAIN msg
    <2>1. msg' = Put(msg, k, at[w].request) /\ Goto(w, "ack") /\ "ack" \in PC
        BY <1>3 DEF InsertMessage, PC
    <2>2. Open' = Open /\ Opened(w) \in Open
        BY <1>1, <2>1, OpenKept, OpenDef DEF Inv
    <2>3. Hand(w) /\ at[w].id \in Id
        BY <1>1, JobFields DEF Inv, InHand
    <2>4. Service!Store(Opened(w), at[w].id)
        BY <1>1, <1>3, <2>1, <2>2, <2>3
           DEF Service!Store, Service!IsStored, Hand, Opened, Put, Told
    <2>5. QED
        BY <2>2, <2>3, <2>4 DEF Service!Next
<1>4. QED
    BY <1>2, <1>3

LEMMA AckRefines ==
    ASSUME Inv, TypeOK', NEW w \in Worker, Ack(w)
    PROVE  Service!Next
<1>1. /\ at[w].pc = "ack"
      /\ acked' = acked \cup {<<at[w].node, at[w].id, at[w].request>>}
      /\ Goto(w, IF at[w].to = 0 THEN "queryNode" ELSE "own")
      /\ UNCHANGED <<msg, noti, back>>
    BY DEF Ack, dbVars
<1>2. Open' = Open /\ Opened(w) \in Open
    BY <1>1, OpenKept, OpenDef DEF Inv, PC
<1>3. Hand(w) /\ at[w].id \in Id
    BY <1>1, JobFields DEF Inv, InHand
<1>4. Service!Promise(Opened(w), at[w].id)
    BY <1>1, <1>2, <1>3 DEF Service!Promise, Hand, Numbered, Opened, Told
<1>5. QED
    BY <1>2, <1>3, <1>4 DEF Service!Next

\* Numbering a message is internal to the workers.
LEMMA IncCountStutters ==
    ASSUME Inv, TypeOK', NEW w \in Worker, IncCount(w)
    PROVE  UNCHANGED Service!vars
<1>1. /\ at[w].pc = "inc" /\ UNCHANGED <<msg, acked, noti, back>>
      /\ at' = [at EXCEPT ![w].pc = "insert", ![w].id = count[at[w].node]]
    BY DEF IncCount, outVars
<1>2. at \in [Worker -> Job \cup {Idle}] /\ at[w] \in Job
    BY <1>1, JobFields DEF Inv, TypeOK
<1>3. /\ at'[w].pc # "idle" /\ Opened(w)' = Opened(w)
      /\ \A x \in Worker : x # w => at'[x] = at[x]
    BY <1>1, <1>2 DEF Opened, Job
<1>4. \A x \in Worker : Opened(x)' = Opened(x) /\ (at'[x].pc # "idle" <=> at[x].pc # "idle")
    BY <1>1, <1>3 DEF Opened
<1>5. Open' = Open
    BY <1>4, OpenDef DEF Inv
<1>6. QED
    BY <1>1, <1>5 DEF Service!vars, Told

LEMMA UpdateUnreadStutters ==
    ASSUME Inv, TypeOK', NEW w \in Worker, UpdateUnread(w)
    PROVE  UNCHANGED Service!vars
<1>1. /\ at[w].pc = "unread" /\ Goto(w, "notify") /\ "notify" \in PC
      /\ UNCHANGED <<msg, acked, noti, back>>
    BY DEF UpdateUnread, outVars, PC
<1>2. Open' = Open
    BY <1>1, OpenKept
<1>3. QED
    BY <1>1, <1>2 DEF Service!vars, Told

LEMMA NotifyOwnRefines ==
    ASSUME Inv, TypeOK', NEW w \in Worker, NotifyOwn(w)
    PROVE  Service!Next
<1>1. /\ at[w].pc = "own" /\ Goto(w, "unread") /\ "unread" \in PC
      /\ noti' = noti \cup {Notification(w, at[w].from)}
      /\ UNCHANGED <<msg, acked, back>>
    BY DEF NotifyOwn, dbVars, PC
<1>2. Open' = Open
    BY <1>1, OpenKept
<1>3. Service!Telling
    BY <1>1, HandAcked, ToldMore DEF Announced
<1>4. QED
    BY <1>1, <1>2, <1>3 DEF Service!Next, Service!Tell

LEMMA NotifyRefines ==
    ASSUME Inv, TypeOK', NEW w \in Worker, Notify(w)
    PROVE  Service!Next
<1>1. /\ at[w].pc = "notify" /\ at' = [at EXCEPT ![w] = Idle]
      /\ noti' = noti \cup {Notification(w, at[w].to)}
      /\ UNCHANGED <<msg, acked, back>>
    BY DEF Notify, dbVars
<1>2. Service!Telling
    BY <1>1, HandAcked, ToldMore DEF Announced
<1>3. QED
    BY <1>1, <1>2, EndRefines

\* The report to a returning user: every mark that has moved names an
\* acknowledged message.
LEMMA ClientConnectRefines ==
    ASSUME Inv, NEW u \in User, ClientConnect(u)
    PROVE  Service!Next
<1>1. /\ UNCHANGED <<msg, acked, noti, at>>
      /\ back' = back \cup {[user |-> u, node |-> k[2], id |-> mark[k].unread, own |-> FALSE] :
                              k \in {x \in DOMAIN mark : x[1] = u}}
    BY DEF ClientConnect, dbVars
<1>2. Service!Telling
    <2>1. ASSUME NEW x \in back' \ back
          PROVE  x.id = 1 \/ \E a \in acked : a[1] = x.node /\ a[2] = x.id
        <3>1. PICK k \in DOMAIN mark : /\ x.node = k[2]
                                      /\ x.id = mark[k].unread
            BY <1>1, <2>1
        <3>2. QED
            BY <3>1 DEF Inv, Backed
    <2>2. QED
        BY <1>1, <2>1, ToldMore
<1>3. Open' = Open
    BY <1>1 DEF Open
<1>4. QED
    BY <1>1, <1>2, <1>3 DEF Service!Next, Service!Tell

LEMMA StepRefines ==
    Inv /\ Inv' /\ [Next]_vars => [Service!Next]_(Service!vars)
<1> SUFFICES ASSUME Inv, Inv', [Next]_vars
             PROVE  Service!Next \/ UNCHANGED Service!vars
    OBVIOUS
<1>1. TypeOK'
    BY DEF Inv
<1>2. CASE UNCHANGED vars
    BY <1>2 DEF vars, dbVars, outVars, Service!vars, Open, Told
<1>3. ASSUME NEW w \in Worker, NEW u \in User, NEW n \in Node,
             NEW to \in User \cup {0}, NodeMessage(w, u, n, to)
      PROVE  Service!Next
    BY <1>1, <1>3, BeginRefines
<1>4. ASSUME NEW w \in Worker, IncCount(w) \/ UpdateUnread(w)
      PROVE  UNCHANGED Service!vars
    BY <1>1, <1>4, IncCountStutters, UpdateUnreadStutters
<1>5. ASSUME NEW w \in Worker,
             InsertMessage(w) \/ Ack(w) \/ NotifyOwn(w) \/ Notify(w)
      PROVE  Service!Next
    BY <1>1, <1>5, InsertRefines, AckRefines, NotifyOwnRefines, NotifyRefines
<1>6. ASSUME NEW w \in Worker, QueryNodeThrows(w) \/ Fail(w) \/ Crash(w)
      PROVE  Service!Next
    <2>1. /\ at[w].pc # "idle" /\ at' = [at EXCEPT ![w] = Idle]
          /\ UNCHANGED <<msg, acked, noti, back>>
        BY <1>6, JobFields DEF QueryNodeThrows, Fail, Crash, dbVars, outVars, Idle, Inv, TypeOK, Job, PC
    <2>2. Service!Telling
        BY <2>1, ToldMore
    <2>3. QED
        BY <1>1, <2>1, <2>2, EndRefines
<1>7. ASSUME NEW u \in User, NEW n \in Node, NEW from \in Id, NEW to \in Id,
             QueryMessage(u, n, from, to)
      PROVE  UNCHANGED Service!vars
    BY <1>7 DEF QueryMessage, outVars, Service!vars, Open, Told
<1>8. ASSUME NEW u \in User, ClientConnect(u)
      PROVE  Service!Next
    BY <1>8, ClientConnectRefines
<1>9. QED
    BY <1>2, <1>3, <1>4, <1>5, <1>6, <1>7, <1>8 DEF Next

\* dispatch(NodeMessage), dispatch(QueryMessage) and dispatch(ClientConnect) of
\* any number of servers over one database are a message service, whatever
\* throws and whenever a server stops.
THEOREM ServiceImplemented == Spec => ServiceSpec
<1>1. Init => Inv
    BY InvInit
<1>2. Inv /\ [Next]_vars => Inv'
    BY InvStep
<1>3. Init => Service!Init
    <2>1. ASSUME Init
          PROVE  Open = {}
        <3>1. \A w \in Worker : at[w] = Idle
            BY <2>1 DEF Init
        <3>2. QED
            BY <3>1 DEF Open
    <2>2. QED
        BY <2>1 DEF Init, Service!Init, Told
<1>4. Inv /\ Inv' /\ [Next]_vars => [Service!Next]_(Service!vars)
    BY StepRefines
<1>5. QED
    BY <1>1, <1>2, <1>3, <1>4, PTL DEF Spec, ServiceSpec, Service!Spec

-----------------------------------------------------------------------------
(* What the service is good for.                                           *)

\* A request is stored under one id at most, and what was promised is stored.
StoredOnce ==
    /\ \A k, m \in DOMAIN msg : msg[k] \in 1..MaxMessage /\ msg[k] = msg[m] => k = m
    /\ \A a \in acked :
          /\ \E n \in Node, i \in Id \cup {1}, r \in 1..MaxMessage : a = <<n, i, r>>
          /\ <<a[1], a[2]>> \in DOMAIN msg
          /\ msg[<<a[1], a[2]>>] = a[3]
    /\ \A o \in Open : o.request \in 1..MaxMessage /\ o.node \in Node

ServiceInv == StoredOnce /\ Service!ToldIsStored

\* Neither part is inductive alone: what is told rests on what was promised,
\* which rests on the service never storing over a message.
LEMMA ServiceStep == ServiceInv /\ [Service!Next]_(Service!vars) => ServiceInv'
<1> SUFFICES ASSUME ServiceInv, [Service!Next]_(Service!vars)
             PROVE  ServiceInv'
    OBVIOUS
<1>1. PICK R, I, S, P, T, Q : /\ R = 1..MaxMessage /\ I = Id \cup {1}
                              /\ S = Open /\ P = Open' /\ T = Told /\ Q = Told'
    OBVIOUS
<1>2. /\ \A k, m \in DOMAIN msg : msg[k] \in R /\ msg[k] = msg[m] => k = m
      /\ \A a \in acked :
            /\ \E n \in Node, i \in I, r \in R : a = <<n, i, r>>
            /\ <<a[1], a[2]>> \in DOMAIN msg
            /\ msg[<<a[1], a[2]>>] = a[3]
      /\ \A o \in S : o.request \in R /\ o.node \in Node
      /\ \A x \in T : x.id = 1 \/ <<x.node, x.id>> \in DOMAIN msg
    BY <1>1 DEF ServiceInv, StoredOnce, Service!ToldIsStored
<1>3. SUFFICES
      /\ \A k, m \in DOMAIN msg' : msg'[k] \in R /\ msg'[k] = msg'[m] => k = m
      /\ \A a \in acked' :
            /\ \E n \in Node, i \in I, r \in R : a = <<n, i, r>>
            /\ <<a[1], a[2]>> \in DOMAIN msg'
            /\ msg'[<<a[1], a[2]>>] = a[3]
      /\ \A o \in P : o.request \in R /\ o.node \in Node
      /\ \A x \in Q : x.id = 1 \/ <<x.node, x.id>> \in DOMAIN msg'
    BY <1>1 DEF ServiceInv, StoredOnce, Service!ToldIsStored
<1>4. CASE UNCHANGED Service!vars
    BY <1>1, <1>2, <1>4 DEF Service!vars
<1>5. ASSUME NEW r \in R, NEW n \in Node, Service!Begin(r, n)
      PROVE  /\ msg' = msg /\ acked' = acked /\ Q = T
             /\ P = S \cup {[request |-> r, node |-> n, before |-> Service!Promised(n)]}
    BY <1>1, <1>5 DEF Service!Begin
<1>6. ASSUME NEW o \in S, NEW id \in I, Service!Store(o, id)
      PROVE  /\ P = S /\ acked' = acked /\ Q = T
             /\ <<o.node, id>> \notin DOMAIN msg
             /\ \A k \in DOMAIN msg : msg[k] # o.request
             /\ DOMAIN msg' = DOMAIN msg \cup {<<o.node, id>>}
             /\ msg'[<<o.node, id>>] = o.request
             /\ \A x \in DOMAIN msg : msg'[x] = msg[x]
    BY <1>1, <1>6 DEF Service!Store, Service!IsStored
<1>7. ASSUME NEW o \in S, NEW id \in I, Service!Promise(o, id)
      PROVE  /\ P = S /\ msg' = msg /\ Q = T
             /\ <<o.node, id>> \in DOMAIN msg /\ msg[<<o.node, id>>] = o.request
             /\ acked' = acked \cup {<<o.node, id, o.request>>}
    BY <1>1, <1>7 DEF Service!Promise
<1>8. ASSUME Service!Telling, msg' = msg, acked' = acked, P \subseteq S
      PROVE  \A x \in Q : x.id = 1 \/ <<x.node, x.id>> \in DOMAIN msg
    BY <1>1, <1>2, <1>8 DEF Service!Telling
<1>9. ASSUME NEW o \in S, Service!End(o)
      PROVE  Service!Telling /\ msg' = msg /\ acked' = acked /\ P \subseteq S
    BY <1>1, <1>9 DEF Service!End
<1>10. ASSUME Service!Tell
       PROVE  Service!Telling /\ msg' = msg /\ acked' = acked /\ P \subseteq S
    BY <1>1, <1>10 DEF Service!Tell
<1>11. \/ \E r \in R, n \in Node : Service!Begin(r, n)
       \/ \E o \in S, id \in I : Service!Store(o, id) \/ Service!Promise(o, id)
       \/ \E o \in S : Service!End(o)
       \/ Service!Tell
       \/ UNCHANGED Service!vars
    BY <1>1 DEF Service!Next
<1>12. CASE \E r \in R, n \in Node : Service!Begin(r, n)
    BY <1>2, <1>5, <1>12
<1>13. CASE \E o \in S, id \in I : Service!Store(o, id)
    <2>1. PICK o \in S, id \in I : Service!Store(o, id)
        BY <1>13
    <2>2. PICK k, r : k = <<o.node, id>> /\ r = o.request
        OBVIOUS
    <2>3. /\ P = S /\ acked' = acked /\ Q = T
          /\ k \notin DOMAIN msg /\ \A x \in DOMAIN msg : msg[x] # r
          /\ DOMAIN msg' = DOMAIN msg \cup {k} /\ msg'[k] = r
          /\ \A x \in DOMAIN msg : msg'[x] = msg[x]
        BY <1>6, <2>1, <2>2
    <2>4. \A x, y \in DOMAIN msg' : msg'[x] \in R /\ msg'[x] = msg'[y] => x = y
        BY <1>2, <2>3
    <2>5. \A a \in acked' :
              /\ \E n \in Node, i \in I, q \in R : a = <<n, i, q>>
              /\ <<a[1], a[2]>> \in DOMAIN msg'
              /\ msg'[<<a[1], a[2]>>] = a[3]
        BY <1>2, <2>3
    <2>6. QED
        BY <1>2, <2>3, <2>4, <2>5
<1>14. CASE \E o \in S, id \in I : Service!Promise(o, id)
    <2>1. PICK o \in S, id \in I : Service!Promise(o, id)
        BY <1>14
    <2>2. PICK n, r : n = o.node /\ r = o.request
        OBVIOUS
    <2>3. /\ P = S /\ msg' = msg /\ Q = T /\ n \in Node /\ r \in R
          /\ <<n, id>> \in DOMAIN msg /\ msg[<<n, id>>] = r
          /\ acked' = acked \cup {<<n, id, r>>}
        BY <1>2, <1>7, <2>1, <2>2
    <2>4. QED
        BY <1>2, <2>3
<1>15. CASE Service!Tell \/ \E o \in S : Service!End(o)
    BY <1>2, <1>8, <1>9, <1>10, <1>15
<1>16. QED
    BY <1>4, <1>11, <1>12, <1>13, <1>14, <1>15

\* The workers keep the service's promises: an acknowledged message is stored
\* under the id its sender was given, no request has two ids, and what a user
\* was told of is there to be fetched.  Only that they are a MessageService is
\* used of them.
THEOREM ServiceKeepsItsWord == Spec => [](Service!AckedOnce /\ Service!ToldIsStored)
<1>1. Service!Init => ServiceInv
    BY DEF Service!Init, ServiceInv, StoredOnce, Service!ToldIsStored
<1>2. ServiceInv /\ [Service!Next]_(Service!vars) => ServiceInv'
    BY ServiceStep
<1>3. ServiceInv => Service!AckedOnce /\ Service!ToldIsStored
    <2>1. ASSUME ServiceInv, NEW a \in acked, NEW b \in acked, a[3] = b[3]
          PROVE  a = b
        <3>1. PICK n \in Node, i \in Id \cup {1}, r \in 1..MaxMessage : a = <<n, i, r>>
            BY <2>1 DEF ServiceInv, StoredOnce
        <3>2. PICK m \in Node, l \in Id \cup {1}, q \in 1..MaxMessage : b = <<m, l, q>>
            BY <2>1 DEF ServiceInv, StoredOnce
        <3>3. r = q
            BY <2>1, <3>1, <3>2
        <3>4. /\ <<n, i>> \in DOMAIN msg /\ msg[<<n, i>>] = r
              /\ <<m, l>> \in DOMAIN msg /\ msg[<<m, l>>] = q
            BY <2>1, <3>1, <3>2 DEF ServiceInv, StoredOnce
        <3>5. <<n, i>> = <<m, l>>
            BY <2>1, <3>3, <3>4 DEF ServiceInv, StoredOnce
        <3>6. QED
            BY <3>1, <3>2, <3>3, <3>5
    <2>2. QED
        BY <2>1 DEF ServiceInv, StoredOnce, Service!AckedOnce
<1>4. QED
    BY <1>1, <1>2, <1>3, ServiceImplemented, PTL DEF ServiceSpec, Service!Spec

-----------------------------------------------------------------------------
(* The unread marks.                                                       *)

\* Notifications about to be sent count as sent: the mark of each is either
\* moved by then or its update has thrown.
Due == {Notification(w, at[w].to) : w \in {x \in Worker : at[x].pc = "notify"}}

Short(x, m) ==
    ~x.own /\ <<x.user, x.node>> \in DOMAIN m /\ m[<<x.user, x.node>>].unread < x.id
Uncovered == {x \in noti \cup Due : Short(x, mark)}

Owed ==
    /\ IsFiniteSet(Uncovered)
    /\ Cardinality(Uncovered) <= Faults - budget.faults
    /\ budget \in [faults : 0..Faults, crashes : 0..Crashes]

LEMMA OwedKept ==
    ASSUME Owed, Uncovered' \subseteq Uncovered,
           budget' \in [faults : 0..Faults, crashes : 0..Crashes],
           budget'.faults <= budget.faults
    PROVE  Owed'
<1>1. /\ IsFiniteSet(Uncovered') /\ Cardinality(Uncovered') <= Cardinality(Uncovered)
      /\ Cardinality(Uncovered') \in Nat /\ Cardinality(Uncovered) \in Nat
    BY FS_Subset, FS_CardinalityType DEF Owed
<1>2. Faults \in Nat /\ budget.faults \in 0..Faults /\ budget'.faults \in 0..Faults
    BY ConversationAssumption DEF Owed
<1>3. QED
    BY <1>1, <1>2 DEF Owed

LEMMA DueType == Inv => noti \cup Due \subseteq Noti
BY NotificationType DEF Due, Inv, TypeOK

\* Marks only move up, so what they cover stays covered.
LEMMA MarksUp ==
    ASSUME Inv, Inv', DOMAIN mark' = DOMAIN mark,
           \A k \in DOMAIN mark : mark'[k].unread >= mark[k].unread,
           NEW x \in Noti, Short(x, mark')
    PROVE  Short(x, mark)
<1> DEFINE k == <<x.user, x.node>>
<1>1. x.id \in Int /\ ~x.own /\ k \in DOMAIN mark /\ mark'[k].unread < x.id
    BY ConversationAssumption DEF Noti, Id, Short
<1>2. mark[k].unread \in Int /\ mark'[k].unread \in Int
    BY <1>1, ConversationAssumption DEF Inv, TypeOK, Id
<1>3. mark[k].unread < x.id
    BY <1>1, <1>2
<1>4. QED
    BY <1>1, <1>3 DEF Short

LEMMA NothingMore ==
    ASSUME Inv, Inv', Owed, noti' \cup Due' \subseteq noti \cup Due,
           DOMAIN mark' = DOMAIN mark,
           \A k \in DOMAIN mark : mark'[k].unread >= mark[k].unread,
           budget' \in [faults : 0..Faults, crashes : 0..Crashes],
           budget'.faults <= budget.faults
    PROVE  Owed'
<1>1. ASSUME NEW x \in Uncovered'
      PROVE  x \in Uncovered
    <2>1. x \in noti \cup Due /\ x \in Noti /\ Short(x, mark')
        BY <1>1, DueType DEF Uncovered
    <2>2. Short(x, mark)
        BY <2>1, MarksUp
    <2>3. QED
        BY <2>1, <2>2 DEF Uncovered
<1>2. QED
    BY <1>1, OwedKept

LEMMA SameMarks ==
    ASSUME Inv, UNCHANGED mark
    PROVE  /\ DOMAIN mark' = DOMAIN mark
           /\ \A k \in DOMAIN mark : mark'[k].unread >= mark[k].unread
BY ConversationAssumption DEF Inv, TypeOK, Id

\* A worker that does not come to "notify" has nothing more to send.
LEMMA DueKept ==
    ASSUME Inv, NEW w \in Worker, at'[w].pc # "notify",
           \A x \in Worker : x # w => at'[x] = at[x]
    PROVE  Due' \subseteq Due
<1>1. \A x \in Worker : x # w => Notification(x, at[x].to)' = Notification(x, at[x].to)
    BY DEF Notification
<1>2. QED
    BY <1>1 DEF Due

LEMMA UpdateUnreadOwed ==
    ASSUME Inv, Inv', Owed, NEW w \in Worker, UpdateUnread(w)
    PROVE  Owed'
<1> DEFINE k == <<at[w].to, at[w].node>>
           x == Notification(w, at[w].to)
<1>1. at[w].pc = "unread" /\ Goto(w, "notify") /\ "notify" \in PC /\ UNCHANGED noti
    BY DEF UpdateUnread, outVars, PC
<1>2. /\ at'[w].pc = "notify" /\ Notification(w, at[w].to)' = x
      /\ \A y \in Worker : y # w => at'[y] = at[y]
    BY <1>1, GotoStep DEF Notification
<1>3. noti' \cup Due' \subseteq noti \cup Due \cup {x}
    <2>1. \A y \in Worker : y # w => Notification(y, at[y].to)' = Notification(y, at[y].to)
        BY <1>2 DEF Notification
    <2>2. QED
        BY <1>1, <1>2, <2>1 DEF Due
<1>4. /\ at[w].id \in Int /\ x \in Noti
      /\ x.user = at[w].to /\ x.node = at[w].node /\ x.id = at[w].id
    <2>1. /\ at[w].node \in Node /\ at[w].id \in Id
          /\ at[w].from \in User /\ at[w].to \in User
        BY <1>1, JobFields DEF Inv, InHand, Hand
    <2>2. QED
        BY <2>1, ConversationAssumption DEF Notification, Noti, Id
<1>5. CASE /\ mark' = IF k \in DOMAIN mark /\ mark[k].unread < at[w].id
                      THEN [mark EXCEPT ![k].unread = at[w].id] ELSE mark
           /\ UNCHANGED budget
    <2>1. /\ DOMAIN mark' = DOMAIN mark
          /\ \A y \in DOMAIN mark : /\ mark'[y].unread \in Int /\ mark[y].unread \in Int
                                    /\ mark'[y].unread >= mark[y].unread
                                    /\ y = k => mark'[y].unread >= at[w].id
        BY <1>4, <1>5, ConversationAssumption DEF Inv, TypeOK, Id
    <2>2. ~Short(x, mark')
        BY <1>4, <2>1 DEF Short
    <2>3. ASSUME NEW y \in Uncovered'
          PROVE  y \in Uncovered
        <3>1. y \in noti \cup Due /\ y \in Noti /\ Short(y, mark')
            BY <1>3, <2>2, <2>3, DueType DEF Uncovered
        <3>2. Short(y, mark)
            BY <2>1, <3>1, MarksUp
        <3>3. QED
            BY <3>1, <3>2 DEF Uncovered
    <2>4. QED
        BY <1>5, <2>3, OwedKept DEF Owed
<1>6. CASE /\ budget.faults > 0 /\ budget' = [budget EXCEPT !.faults = @ - 1]
           /\ UNCHANGED mark
    <2>1. Uncovered' \in SUBSET (Uncovered \cup {x})
        BY <1>3, <1>6 DEF Uncovered, Short
    <2>2. /\ IsFiniteSet(Uncovered \cup {x})
          /\ Cardinality(Uncovered \cup {x}) <= Cardinality(Uncovered) + 1
          /\ Cardinality(Uncovered) \in Nat /\ Cardinality(Uncovered \cup {x}) \in Nat
        BY FS_AddElement, FS_CardinalityType DEF Owed
    <2>3. /\ IsFiniteSet(Uncovered')
          /\ Cardinality(Uncovered') <= Cardinality(Uncovered \cup {x})
          /\ Cardinality(Uncovered') \in Nat
        BY <2>1, <2>2, FS_Subset, FS_CardinalityType
    <2>4. /\ Faults \in Nat /\ budget.faults \in 0..Faults
          /\ budget'.faults = budget.faults - 1
          /\ budget' \in [faults : 0..Faults, crashes : 0..Crashes]
        BY <1>6, ConversationAssumption DEF Owed
    <2>5. QED
        BY <2>2, <2>3, <2>4 DEF Owed
<1>7. QED
    BY <1>5, <1>6 DEF UpdateUnread

LEMMA OwedStep == Inv /\ Inv' /\ Owed /\ [Next]_vars => Owed'
<1> SUFFICES ASSUME Inv, Inv', Owed, [Next]_vars
             PROVE  Owed'
    OBVIOUS
<1>1. ASSUME NEW w \in Worker, at'[w].pc # "notify",
             \A x \in Worker : x # w => at'[x] = at[x],
             noti' \subseteq noti \cup Due, UNCHANGED mark,
             budget' \in [faults : 0..Faults, crashes : 0..Crashes],
             budget'.faults <= budget.faults
      PROVE  Owed'
    <2>1. noti' \cup Due' \subseteq noti \cup Due
        BY <1>1, DueKept
    <2>2. QED
        BY <1>1, <2>1, SameMarks, NothingMore
<1>2. /\ at \in [Worker -> Job \cup {Idle}]
      /\ budget \in [faults : 0..Faults, crashes : 0..Crashes]
      /\ budget.faults <= budget.faults
      /\ noti \subseteq noti \cup Due
    BY ConversationAssumption DEF Inv, TypeOK, Owed
<1>3. ASSUME UNCHANGED <<at, noti, budget>>, DOMAIN mark' = DOMAIN mark,
             \A k \in DOMAIN mark : mark'[k].unread >= mark[k].unread
      PROVE  Owed'
    <2>1. Due' = Due
        BY <1>3 DEF Due, Notification
    <2>2. QED
        BY <1>2, <1>3, <2>1, NothingMore
<1>4. CASE UNCHANGED vars
    BY <1>3, <1>4, SameMarks DEF vars, dbVars, outVars
<1>5. ASSUME NEW w \in Worker, NEW u \in User, NEW n \in Node,
             NEW to \in User \cup {0}, NodeMessage(w, u, n, to)
      PROVE  Owed'
    <2>1. /\ at'[w].pc = "inc" /\ \A x \in Worker : x # w => at'[x] = at[x]
          /\ UNCHANGED <<mark, noti, budget>>
        BY <1>2, <1>5 DEF NodeMessage, dbVars, outVars
    <2>2. QED
        BY <1>1, <1>2, <2>1
<1>6. ASSUME NEW w \in Worker, IncCount(w)
      PROVE  Owed'
    <2>1. at[w] \in Job
        BY <1>6, JobFields DEF IncCount, Inv
    <2>2. /\ at'[w].pc = "insert" /\ \A x \in Worker : x # w => at'[x] = at[x]
          /\ UNCHANGED <<mark, noti, budget>>
        BY <1>2, <1>6, <2>1 DEF IncCount, outVars, Job
    <2>3. QED
        BY <1>1, <1>2, <2>2
<1>7. ASSUME NEW w \in Worker, NEW p \in PC \ {"notify"}, at[w].pc # "idle", Goto(w, p),
             noti' \subseteq noti, UNCHANGED <<mark, budget>>
      PROVE  Owed'
    <2>1. at'[w].pc # "notify" /\ \A x \in Worker : x # w => at'[x] = at[x]
        BY <1>7, GotoStep
    <2>2. QED
        BY <1>1, <1>2, <1>7, <2>1
<1>8. ASSUME NEW w \in Worker, at' = [at EXCEPT ![w] = Idle], UNCHANGED mark,
             noti' \subseteq noti \cup Due,
             budget' \in [faults : 0..Faults, crashes : 0..Crashes],
             budget'.faults <= budget.faults
      PROVE  Owed'
    <2>1. at'[w].pc # "notify" /\ \A x \in Worker : x # w => at'[x] = at[x]
        BY <1>2, <1>8 DEF Idle
    <2>2. QED
        BY <1>1, <1>8, <2>1
<1>9. ASSUME NEW w \in Worker, InsertMessage(w)
      PROVE  Owed'
    <2>1. at[w].pc = "insert" /\ UNCHANGED <<mark, noti, budget>>
        BY <1>9 DEF InsertMessage, outVars
    <2>2. at' = [at EXCEPT ![w] = Idle] \/ Goto(w, "ack")
        BY <1>9 DEF InsertMessage
    <2>3. QED
        BY <1>2, <1>7, <1>8, <2>1, <2>2 DEF PC
<1>10. ASSUME NEW w \in Worker, Ack(w)
       PROVE  Owed'
    <2>1. /\ at[w].pc = "ack" /\ UNCHANGED <<mark, noti, budget>>
          /\ Goto(w, "queryNode") \/ Goto(w, "own")
        BY <1>10 DEF Ack, dbVars
    <2>2. QED
        BY <1>7, <2>1 DEF PC
<1>11. ASSUME NEW w \in Worker, NotifyOwn(w)
       PROVE  Owed'
    \* Its notification is for the sender himself, which no mark has to cover.
    <2>1. /\ at[w].pc = "own" /\ Goto(w, "unread") /\ "unread" \in PC
          /\ noti' = noti \cup {Notification(w, at[w].from)}
          /\ UNCHANGED <<mark, budget>>
        BY <1>11 DEF NotifyOwn, dbVars, PC
    <2>2. Due' \subseteq Due
        BY <2>1, GotoStep, DueKept
    <2>3. ~Short(Notification(w, at[w].from), mark)
        BY DEF Short, Notification
    <2>4. Uncovered' \subseteq Uncovered
        BY <2>1, <2>2, <2>3 DEF Uncovered, Short
    <2>5. QED
        BY <1>2, <2>1, <2>4, OwedKept
<1>12. ASSUME NEW w \in Worker, Notify(w)
       PROVE  Owed'
    <2>1. /\ at[w].pc = "notify" /\ at' = [at EXCEPT ![w] = Idle]
          /\ noti' = noti \cup {Notification(w, at[w].to)}
          /\ UNCHANGED <<mark, budget>>
        BY <1>12 DEF Notify, dbVars
    <2>2. noti' \subseteq noti \cup Due
        BY <2>1 DEF Due
    <2>3. QED
        BY <1>2, <1>8, <2>1, <2>2
<1>13. ASSUME NEW w \in Worker, QueryNodeThrows(w) \/ Fail(w) \/ Crash(w)
       PROVE  Owed'
    <2>1. /\ at' = [at EXCEPT ![w] = Idle] /\ UNCHANGED <<mark, noti>>
          /\ \/ UNCHANGED budget
             \/ budget.faults > 0 /\ budget' = [budget EXCEPT !.faults = @ - 1]
             \/ budget.crashes > 0 /\ budget' = [budget EXCEPT !.crashes = @ - 1]
        BY <1>13 DEF QueryNodeThrows, Fail, Crash, dbVars, outVars
    <2>2. /\ budget' \in [faults : 0..Faults, crashes : 0..Crashes]
          /\ budget'.faults <= budget.faults
        BY <1>2, <2>1, ConversationAssumption
    <2>3. QED
        BY <1>2, <1>8, <2>1, <2>2
<1>14. ASSUME NEW u \in User, NEW n \in Node, NEW from \in Id, NEW to \in Id,
              QueryMessage(u, n, from, to)
       PROVE  Owed'
    <2>1. /\ UNCHANGED <<at, noti, budget>>
          /\ <<u, n>> \in DOMAIN mark
          /\ mark' = [mark EXCEPT ![<<u, n>>].readed = to - 1]
        BY <1>14 DEF QueryMessage, outVars
    <2>2. /\ DOMAIN mark' = DOMAIN mark
          /\ \A k \in DOMAIN mark : mark'[k].unread = mark[k].unread
        BY <2>1 DEF Inv, TypeOK
    <2>3. \A k \in DOMAIN mark : mark[k].unread \in Int
        BY ConversationAssumption DEF Inv, TypeOK, Id
    <2>4. QED
        BY <1>3, <2>1, <2>2, <2>3
<1>15. ASSUME NEW u \in User, ClientConnect(u)
       PROVE  Owed'
    BY <1>3, <1>15, SameMarks DEF ClientConnect, dbVars
<1>16. QED
    BY <1>4, <1>5, <1>6, <1>7, <1>9, <1>10, <1>11, <1>12, <1>13, <1>14, <1>15,
       UpdateUnreadOwed DEF Next

\* For any number of workers and messages, a user's unread marks cover the
\* messages he was notified of, except one for each update that threw.
\* UnreadCovers is not inductive: the update comes before the notification,
\* so Owed counts the notifications that are due as well.
THEOREM UnreadHolds == Spec => []UnreadCovers
<1>1. Init => Inv /\ Owed
    <2>1. ASSUME Init
          PROVE  Owed
        <3>1. noti = {} /\ Due = {}
            BY <2>1 DEF Init, Due, Idle
        <3>2. Uncovered = {}
            BY <3>1 DEF Uncovered
        <3>3. QED
            BY <2>1, <3>2, FS_EmptySet, ConversationAssumption DEF Init, Owed
    <2>2. QED
        BY <2>1, InvInit
<1>2. Inv /\ Owed /\ [Next]_vars => (Inv /\ Owed)'
    BY InvStep, OwedStep
<1>3. Owed => UnreadCovers
    <2> DEFINE S == {x \in noti : LET k == <<x.user, x.node>> IN
                        ~x.own /\ k \in DOMAIN mark /\ mark[k].unread < x.id}
    <2>1. S \in SUBSET Uncovered
        BY DEF Uncovered, Short
    <2>2. ASSUME Owed
          PROVE  Cardinality(S) <= Faults - budget.faults
        <3>1. /\ IsFiniteSet(S) /\ Cardinality(S) <= Cardinality(Uncovered)
              /\ Cardinality(S) \in Nat /\ Cardinality(Uncovered) \in Nat
            BY <2>1, <2>2, FS_Subset, FS_CardinalityType DEF Owed
        <3>2. Faults \in Nat /\ budget.faults \in 0..Faults
            BY <2>2, ConversationAssumption DEF Owed
        <3>3. QED
            BY <2>2, <3>1, <3>2 DEF Owed
    <2>3. QED
        BY <2>2 DEF UnreadCovers
<1>4. QED
    BY <1>1, <1>2, <1>3, PTL DEF Spec
=============================================================================
