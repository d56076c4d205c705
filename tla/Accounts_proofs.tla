-------------------------- MODULE Accounts_proofs ---------------------------
(***************************************************************************)
(* Proofs about accounts, for every number of users, devices, requests,    *)
(* versions, faults and restarts.                                          *)
(***************************************************************************)
EXTENDS Accounts, SequenceTheorems, TLAPS

\* What an answer may hold.
Body == Copy \cup (1..MaxVersion) \cup {NoArg}
AnyAnswer == [kind : Entry \cup Checked, ok : BOOLEAN, user : User, body : Body]

\* The login of u on d that LoginStands is about.
Stands(d, u) ==
    /\ account[u] # NoDoc /\ d \in account[u].devices
    /\ row[d] # NoRow /\ u \in row[d]

\* c tells of the document of u: of an earlier state, or of this one.
Names(u, c) ==
    /\ account[u] # NoDoc
    /\ c.version <= account[u].version
    /\ c.version = account[u].version =>
          /\ c.value = account[u].value
          /\ c.own => c.friends = account[u].friends

\* An answer is of its kind and true.
Truth(d, a) ==
    /\ a \in AnyAnswer
    /\ IF a.ok /\ a.kind = "queryuser" THEN a.body \in Copy /\ Names(a.user, a.body)
       ELSE IF a.ok /\ a.kind = "userversion"
       THEN /\ a.body \in 1..MaxVersion
            /\ account[a.user] # NoDoc /\ a.body <= account[a.user].version
       ELSE a.body = NoArg
    /\ a.ok /\ a.kind = "login" => Stands(d, a.user)
    /\ a.ok /\ a.kind = "connect" => account[a.user] # NoDoc

\* b does not take back what a told.
InOrder(a, b) ==
    a.ok /\ b.ok /\ a.user = b.user =>
        /\ a.kind = "queryuser" /\ b.kind = "queryuser" => a.body.version <= b.body.version
        /\ a.kind = "userversion" /\ b.kind = "userversion" => a.body <= b.body

\* Nor what the device has heard.
After(d, a) ==
    a.ok =>
        /\ a.kind = "queryuser" /\ copy[d][a.user] # NoCopy =>
              copy[d][a.user].version <= a.body.version
        /\ a.kind = "userversion" => heard[d][a.user] <= a.body

\* A request names users who have documents, unless it is to make or find one.
GoodRequest(r) ==
    /\ r \in Request
    /\ r.kind \notin {"register", "login"} => account[r.user] # NoDoc
    /\ r.kind \in {"queryuser", "userversion"} => r.arg \in User
    /\ r.kind = "setproperty" => r.arg \in Value
    /\ r.kind = "befriend" => r.arg \in User /\ account[r.arg] # NoDoc

GoodJobs == jobs \in Seq(Request) /\ \A i \in 1..Len(jobs) : GoodRequest(jobs[i])

\* So does a connection.
GoodNodes ==
    /\ node \in [Device -> User \cup {NoUser}]
    /\ online \in [Device -> User \cup {NoUser}]
    /\ \A d \in Device : /\ node[d] # NoUser => account[node[d]] # NoDoc
                         /\ online[d] # NoUser => account[online[d]] # NoDoc

GoodLocal == local \in [uuid : Device \cup {NoDevice}, users : SUBSET User]

GoodBudget == budget \in [asks : 0..MaxAsks, faults : 0..Faults, crashes : 0..Crashes]

Types ==
    /\ account \in [User -> Doc \cup {NoDoc}]
    /\ row \in [Device -> (SUBSET User) \cup {NoRow}]
    /\ GoodLocal /\ GoodJobs /\ GoodNodes /\ GoodBudget
    /\ step \in 1..4
    /\ inbox \in [Device -> Seq(AnyAnswer)]
    /\ known \in [Device -> SUBSET User]
    /\ copy \in [Device -> [User -> Copy \cup {NoCopy}]]
    /\ heard \in [Device -> [User -> 0..MaxVersion]]

\* How far a login has come.
LoginSoFar ==
    /\ jobs = <<>> => step = 1
    /\ jobs # <<>> /\ Head(jobs).kind = "login" =>
          LET u == Head(jobs).user
              d == Head(jobs).dev
          IN /\ step >= 2 => account[u] # NoDoc
             /\ step >= 3 => d \in account[u].devices
             /\ step = 4 => local.uuid = d /\ u \in local.users

\* connectInfo_ has every entry of the document it would be written over.
LocalCovers ==
    local.uuid \in Device /\ row[local.uuid] # NoRow =>
        row[local.uuid] \subseteq local.users

Kept ==
    \A d \in Device : \A u \in User :
        /\ u \in known[d] => Stands(d, u)
        /\ copy[d][u] # NoCopy => Names(u, copy[d][u])
        /\ heard[d][u] # 0 => account[u] # NoDoc /\ heard[d][u] <= account[u].version

Answers ==
    \A d \in Device : \A i \in 1..Len(inbox[d]) :
        /\ Truth(d, inbox[d][i]) /\ After(d, inbox[d][i])
        /\ \A k \in 1..Len(inbox[d]) : i < k => InOrder(inbox[d][i], inbox[d][k])

Inv == Types /\ LoginSoFar /\ LocalCovers /\ Kept /\ Answers

-----------------------------------------------------------------------------
(* What holds of a document and of what was told of it.                    *)

DocsGrow ==
    \A u \in User : account[u] # NoDoc =>
        /\ account'[u] # NoDoc
        /\ account[u].devices \subseteq account'[u].devices
        /\ account[u].version <= account'[u].version
        /\ account'[u].version = account[u].version =>
              /\ account'[u].value = account[u].value
              /\ account'[u].friends = account[u].friends

RowsGrow ==
    \A d \in Device : row[d] # NoRow => row'[d] # NoRow /\ row[d] \subseteq row'[d]

LEMMA DocFields ==
    ASSUME Types, NEW u \in User, account[u] # NoDoc
    PROVE  /\ account[u] \in Doc /\ account[u].version \in 1..MaxVersion
           /\ account[u].version \in Nat
BY AccountsAssumption DEF Types, Doc

LEMMA NothingGrows ==
    /\ Types /\ UNCHANGED account => DocsGrow
    /\ UNCHANGED row => RowsGrow
<1>1. ASSUME Types, UNCHANGED account
      PROVE  DocsGrow
    BY <1>1, DocFields DEF DocsGrow
<1>2. QED
    BY <1>1 DEF RowsGrow

LEMMA StandsKept ==
    ASSUME DocsGrow, RowsGrow, NEW d \in Device, NEW u \in User, Stands(d, u)
    PROVE  Stands(d, u)'
BY DEF DocsGrow, RowsGrow, Stands

\* A copy of an earlier state stays one: a document changes under a version
\* above that of every copy.
LEMMA NamesKept ==
    ASSUME Types, account' \in [User -> Doc \cup {NoDoc}], DocsGrow,
           NEW u \in User, NEW c \in Copy, Names(u, c)
    PROVE  Names(u, c)'
<1>1. /\ account[u] # NoDoc /\ account'[u] # NoDoc
      /\ account[u].version <= account'[u].version
      /\ account'[u].version = account[u].version =>
            /\ account'[u].value = account[u].value
            /\ account'[u].friends = account[u].friends
    BY DEF DocsGrow, Names
<1>2. account[u].version \in Nat /\ account'[u].version \in Nat /\ c.version \in Nat
    BY <1>1, DocFields, AccountsAssumption DEF Doc, Copy
<1>3. QED
    BY <1>1, <1>2 DEF Names

LEMMA TruthKept ==
    ASSUME Types, account' \in [User -> Doc \cup {NoDoc}], DocsGrow, RowsGrow,
           NEW d \in Device, NEW a, Truth(d, a)
    PROVE  Truth(d, a)'
<1>1. a \in AnyAnswer /\ a.user \in User
    BY DEF Truth, AnyAnswer
<1>2. CASE a.ok /\ a.kind = "queryuser"
    <2>1. a.body \in Copy /\ Names(a.user, a.body)'
        BY <1>1, <1>2, NamesKept DEF Truth
    <2>2. QED
        BY <1>1, <1>2, <2>1 DEF Truth, AnyAnswer, Body, Copy, Entry, Checked
<1>3. CASE a.ok /\ a.kind = "userversion"
    <2>1. /\ a.body \in 1..MaxVersion /\ account[a.user] # NoDoc
          /\ a.body <= account[a.user].version
        BY <1>3 DEF Truth
    <2>2. /\ account'[a.user] # NoDoc /\ account'[a.user].version \in Nat
          /\ account[a.user].version \in Nat
          /\ account[a.user].version <= account'[a.user].version
        BY <1>1, <2>1, DocFields, AccountsAssumption DEF DocsGrow, Doc
    <2>3. a.body <= account'[a.user].version
        BY <2>1, <2>2, AccountsAssumption
    <2>4. QED
        BY <1>1, <1>3, <2>1, <2>2, <2>3 DEF Truth, AnyAnswer, Body, Copy, Entry, Checked
<1>4. CASE ~(a.ok /\ a.kind \in {"queryuser", "userversion"})
    <2>1. a.ok /\ a.kind = "login" => Stands(d, a.user)'
        BY <1>1, StandsKept DEF Truth
    <2>2. a.ok /\ a.kind = "connect" => account'[a.user] # NoDoc
        BY <1>1 DEF Truth, DocsGrow
    <2>3. QED
        BY <1>1, <1>4, <2>1, <2>2 DEF Truth, AnyAnswer, Body, Copy, Entry, Checked
<1>5. QED
    BY <1>2, <1>3, <1>4

LEMMA KeptStep ==
    ASSUME Types, Kept, account' \in [User -> Doc \cup {NoDoc}], DocsGrow, RowsGrow,
           UNCHANGED <<known, copy, heard>>
    PROVE  Kept'
<1> SUFFICES ASSUME NEW d \in Device, NEW u \in User
             PROVE  /\ u \in known[d] => Stands(d, u)'
                    /\ copy[d][u] # NoCopy => Names(u, copy[d][u])'
                    /\ heard[d][u] # 0 => /\ account'[u] # NoDoc
                                          /\ heard[d][u] <= account'[u].version
    BY DEF Kept, Names, Stands
<1>1. u \in known[d] => Stands(d, u)'
    BY StandsKept DEF Kept
<1>2. copy[d][u] # NoCopy => Names(u, copy[d][u])'
    <2>1. copy[d][u] # NoCopy => copy[d][u] \in Copy
        BY DEF Types
    <2>2. QED
        BY <2>1, NamesKept DEF Kept
<1>3. ASSUME heard[d][u] # 0
      PROVE  account'[u] # NoDoc /\ heard[d][u] <= account'[u].version
    <2>1. account[u] # NoDoc /\ heard[d][u] <= account[u].version /\ heard[d][u] \in Nat
        BY <1>3, AccountsAssumption DEF Kept, Types
    <2>2. /\ account'[u] # NoDoc /\ account'[u].version \in Nat
          /\ account[u].version \in Nat
          /\ account[u].version <= account'[u].version
        BY <2>1, DocFields, AccountsAssumption DEF DocsGrow, Doc
    <2>3. QED
        BY <2>1, <2>2
<1>4. QED
    BY <1>1, <1>2, <1>3

-----------------------------------------------------------------------------
(* Requests and answers.                                                   *)

LEMMA HeadJob ==
    ASSUME Types, jobs # <<>>
    PROVE  /\ GoodRequest(Head(jobs)) /\ Head(jobs) \in Request
           /\ Head(jobs).dev \in Device /\ Head(jobs).user \in User
           /\ Head(jobs).kind \in Entry \cup Checked
           /\ Tail(jobs) \in Seq(Request)
           /\ \A i \in 1..Len(Tail(jobs)) : GoodRequest(Tail(jobs)[i])
<1>1. /\ Len(jobs) \in Nat /\ Len(jobs) >= 1 /\ Head(jobs) = jobs[1]
      /\ Tail(jobs) \in Seq(Request) /\ Len(Tail(jobs)) = Len(jobs) - 1
      /\ \A i \in 1..Len(Tail(jobs)) : Tail(jobs)[i] = jobs[i + 1]
    BY HeadTailProperties, EmptySeq, LenProperties DEF Types, GoodJobs
<1>2. GoodRequest(Head(jobs))
    BY <1>1 DEF Types, GoodJobs
<1>3. \A i \in 1..Len(Tail(jobs)) : i + 1 \in 1..Len(jobs)
    BY <1>1
<1>4. \A i \in 1..Len(Tail(jobs)) : GoodRequest(Tail(jobs)[i])
    BY <1>1, <1>3 DEF Types, GoodJobs
<1>5. Head(jobs) \in Request
    BY <1>2 DEF GoodRequest
<1>6. QED
    BY <1>1, <1>2, <1>4, <1>5 DEF Request

\* The answers of one connection: one more at the end, and one less at the
\* front.
LEMMA BoxPut ==
    ASSUME NEW box \in Seq(AnyAnswer), NEW a \in AnyAnswer
    PROVE  /\ Append(box, a) \in Seq(AnyAnswer)
           /\ Len(box) \in Nat /\ Len(Append(box, a)) = Len(box) + 1
           /\ \A i \in 1..Len(box) : Append(box, a)[i] = box[i]
           /\ Append(box, a)[Len(box) + 1] = a
BY AppendProperties, LenProperties

LEMMA BoxTake ==
    ASSUME NEW box \in Seq(AnyAnswer), box # <<>>
    PROVE  /\ Tail(box) \in Seq(AnyAnswer)
           /\ Head(box) = box[1] /\ Len(box) \in Nat /\ Len(box) >= 1
           /\ Len(Tail(box)) = Len(box) - 1
           /\ \A i \in 1..Len(Tail(box)) : Tail(box)[i] = box[i + 1]
BY HeadTailProperties, EmptySeq, LenProperties

\* What the devices have heard and what is on its way to them stays true.
LEMMA AnswersKept ==
    ASSUME Types, Answers, account' \in [User -> Doc \cup {NoDoc}], DocsGrow, RowsGrow,
           UNCHANGED <<copy, heard>>, NEW d \in Device, NEW i \in 1..Len(inbox[d]),
           NEW a, a = inbox[d][i]
    PROVE  Truth(d, a)' /\ After(d, a)' /\ a \in AnyAnswer
<1>1. Truth(d, a) /\ After(d, a)
    BY DEF Answers
<1>2. QED
    BY <1>1, TruthKept DEF After, Truth

\* One answer more: what it tells is the latest.
LEMMA AnswersPut ==
    ASSUME Inv, account' \in [User -> Doc \cup {NoDoc}], DocsGrow, RowsGrow,
           UNCHANGED <<copy, heard>>,
           NEW d \in Device, NEW a, Truth(d, a)',
           a.ok /\ a.kind = "queryuser" => a.body.version = account'[a.user].version,
           a.ok /\ a.kind = "userversion" => a.body = account'[a.user].version,
           inbox' = [inbox EXCEPT ![d] = Append(@, a)]
    PROVE  Answers' /\ inbox' \in [Device -> Seq(AnyAnswer)]
<1>1. Types /\ Answers /\ Kept
    BY DEF Inv
<1>2. a \in AnyAnswer /\ a.user \in User
    BY DEF Truth, AnyAnswer
<1>3. inbox \in [Device -> Seq(AnyAnswer)] /\ inbox[d] \in Seq(AnyAnswer)
    BY <1>1 DEF Types
<1>4. /\ inbox'[d] = Append(inbox[d], a)
      /\ \A x \in Device : x # d => inbox'[x] = inbox[x]
    BY <1>3
<1>5. /\ Len(inbox[d]) \in Nat /\ Len(inbox'[d]) = Len(inbox[d]) + 1
      /\ \A i \in 1..Len(inbox[d]) : inbox'[d][i] = inbox[d][i]
      /\ inbox'[d][Len(inbox[d]) + 1] = a
      /\ inbox'[d] \in Seq(AnyAnswer)
    BY <1>2, <1>3, <1>4, BoxPut
<1>6. After(d, a)'
    <2>1. ASSUME a.ok, a.kind = "queryuser", copy[d][a.user] # NoCopy
          PROVE  copy[d][a.user].version <= a.body.version
        <3>1. copy[d][a.user] \in Copy /\ Names(a.user, copy[d][a.user])
            BY <1>1, <1>2, <2>1 DEF Types, Kept
        <3>2. /\ copy[d][a.user].version \in Nat
              /\ account[a.user] # NoDoc /\ copy[d][a.user].version <= account[a.user].version
            BY <3>1, AccountsAssumption DEF Copy, Names
        <3>3. /\ account[a.user].version \in Nat /\ account'[a.user].version \in Nat
              /\ account[a.user].version <= account'[a.user].version
            BY <1>1, <1>2, <3>2, DocFields, AccountsAssumption DEF DocsGrow, Doc
        <3>4. QED
            BY <2>1, <3>2, <3>3
    <2>2. ASSUME a.ok, a.kind = "userversion"
          PROVE  heard[d][a.user] <= a.body
        <3>1. a.body \in 1..MaxVersion /\ heard[d][a.user] \in Nat
            BY <1>1, <1>2, <2>2, AccountsAssumption DEF Types, Truth
        <3>2. CASE heard[d][a.user] = 0
            BY <3>1, <3>2
        <3>3. CASE heard[d][a.user] # 0
            <4>1. account[a.user] # NoDoc /\ heard[d][a.user] <= account[a.user].version
                BY <1>1, <1>2, <3>3 DEF Kept
            <4>2. /\ account[a.user].version \in Nat /\ account'[a.user].version \in Nat
                  /\ account[a.user].version <= account'[a.user].version
                BY <1>1, <1>2, <4>1, DocFields, AccountsAssumption DEF DocsGrow, Doc
            <4>3. QED
                BY <2>2, <3>1, <4>1, <4>2
        <3>4. QED
            BY <3>2, <3>3
    <2>3. QED
        BY <2>1, <2>2 DEF After
<1>7. ASSUME NEW x \in Device, NEW i \in 1..Len(inbox[x]), NEW b, b = inbox[x][i]
      PROVE  Truth(x, b)' /\ After(x, b)' /\ b \in AnyAnswer
    BY <1>1, <1>7, AnswersKept
<1>8. ASSUME NEW i \in 1..Len(inbox[d]), NEW b, b = inbox[d][i]
      PROVE  InOrder(b, a)
    <2>1. Truth(d, b) /\ b \in AnyAnswer
        BY <1>1, <1>8 DEF Answers, Truth
    <2>2. ASSUME a.ok, b.ok, a.user = b.user, a.kind = "queryuser", b.kind = "queryuser"
          PROVE  b.body.version <= a.body.version
        <3>1. /\ b.body.version \in Nat /\ account[a.user] # NoDoc
              /\ b.body.version <= account[a.user].version
            BY <2>1, <2>2, AccountsAssumption DEF Truth, Names, Copy
        <3>2. /\ account[a.user].version \in Nat /\ account'[a.user].version \in Nat
              /\ account[a.user].version <= account'[a.user].version
            BY <1>1, <1>2, <3>1, DocFields, AccountsAssumption DEF DocsGrow, Doc
        <3>3. QED
            BY <2>2, <3>1, <3>2
    <2>3. ASSUME a.ok, b.ok, a.user = b.user, a.kind = "userversion", b.kind = "userversion"
          PROVE  b.body <= a.body
        <3>1. /\ b.body \in Nat /\ account[a.user] # NoDoc
              /\ b.body <= account[a.user].version
            BY <2>1, <2>3, AccountsAssumption DEF Truth
        <3>2. /\ account[a.user].version \in Nat /\ account'[a.user].version \in Nat
              /\ account[a.user].version <= account'[a.user].version
            BY <1>1, <1>2, <3>1, DocFields, AccountsAssumption DEF DocsGrow, Doc
        <3>3. QED
            BY <2>3, <3>1, <3>2
    <2>4. QED
        BY <2>2, <2>3 DEF InOrder
<1>9. ASSUME NEW x \in Device, NEW i \in 1..Len(inbox'[x]), NEW b, b = inbox'[x][i]
      PROVE  /\ Truth(x, b)' /\ After(x, b)'
             /\ \A k \in 1..Len(inbox'[x]) : i < k => InOrder(b, inbox'[x][k])
    <2>1. CASE x # d
        BY <1>1, <1>4, <1>7, <1>9, <2>1 DEF Answers
    <2>2. CASE x = d /\ i = Len(inbox[d]) + 1
        BY <1>5, <1>6, <1>9, <2>2
    <2>3. CASE x = d /\ i \in 1..Len(inbox[d])
        <3>1. b = inbox[d][i] /\ Truth(x, b)' /\ After(x, b)'
            BY <1>5, <1>7, <1>9, <2>3
        <3>2. ASSUME NEW k \in 1..Len(inbox'[d]), i < k
              PROVE  InOrder(b, inbox'[d][k])
            <4>1. CASE k = Len(inbox[d]) + 1
                BY <1>5, <1>8, <2>3, <3>1, <4>1
            <4>2. CASE k \in 1..Len(inbox[d])
                BY <1>1, <1>5, <2>3, <3>1, <3>2, <4>2 DEF Answers
            <4>3. QED
                BY <1>5, <4>1, <4>2
        <3>3. QED
            BY <2>3, <3>1, <3>2
    <2>4. QED
        BY <1>5, <2>1, <2>2, <2>3
<1>10. Answers'
    BY <1>9 DEF Answers, Truth, After, Names, Stands
<1>11. QED
    BY <1>3, <1>5, <1>10

-----------------------------------------------------------------------------
(* What a step of the pool thread does.                                    *)

LEMMA RequestKept ==
    ASSUME DocsGrow, NEW r, GoodRequest(r)
    PROVE  GoodRequest(r)'
<1>1. r \in Request /\ r.user \in User
    BY DEF GoodRequest, Request
<1>2. QED
    BY <1>1 DEF GoodRequest, DocsGrow

LEMMA NodesKept ==
    ASSUME Types, DocsGrow, UNCHANGED <<node, online>>
    PROVE  GoodNodes'
BY DEF Types, GoodNodes, DocsGrow

\* A handler that goes on: no answer, one more operation.
LEMMA ContinueStep ==
    ASSUME Inv, jobs # <<>>, Continue, step < 4,
           account' \in [User -> Doc \cup {NoDoc}],
           row' \in [Device -> (SUBSET User) \cup {NoRow}],
           GoodLocal', GoodNodes', GoodBudget', DocsGrow, RowsGrow,
           UNCHANGED <<known, copy, heard>>, LocalCovers',
           Head(jobs).kind = "login" =>
               LET u == Head(jobs).user
                   d == Head(jobs).dev
               IN /\ account'[u] # NoDoc
                  /\ step >= 2 => d \in account'[u].devices
                  /\ step >= 3 => local'.uuid = d /\ u \in local'.users
    PROVE  Inv'
<1>1. Types /\ Answers /\ Kept /\ step \in 1..4
    BY DEF Inv, Types
<1>2. step' = step + 1 /\ jobs' = jobs /\ inbox' = inbox /\ step' \in 2..4
    BY <1>1 DEF Continue
<1>3. GoodJobs'
    BY <1>1, <1>2, RequestKept DEF Types, GoodJobs
<1>4. Types'
    BY <1>1, <1>2, <1>3 DEF Types
<1>5. LoginSoFar'
    BY <1>1, <1>2 DEF LoginSoFar
<1>6. Kept'
    BY <1>1, KeptStep
<1>7. ASSUME NEW d \in Device, NEW i \in 1..Len(inbox[d]), NEW a, a = inbox[d][i]
      PROVE  Truth(d, a)' /\ After(d, a)'
    BY <1>1, <1>7, AnswersKept
<1>8. Answers'
    <2>1. \A d \in Device : \A i \in 1..Len(inbox[d]) :
              \A k \in 1..Len(inbox[d]) : i < k => InOrder(inbox[d][i], inbox[d][k])
        BY <1>1 DEF Answers
    <2>2. QED
        BY <1>2, <1>7, <2>1 DEF Answers, Truth, After, Names, Stands
<1>9. QED
    BY <1>4, <1>5, <1>6, <1>8 DEF Inv

\* A handler that ends with an answer.
LEMMA FinishStep ==
    ASSUME Inv, jobs # <<>>, NEW ok \in BOOLEAN, NEW u \in User, NEW body,
           Finish(ok, u, body),
           account' \in [User -> Doc \cup {NoDoc}],
           row' \in [Device -> (SUBSET User) \cup {NoRow}],
           GoodLocal', GoodNodes', GoodBudget', DocsGrow, RowsGrow,
           UNCHANGED <<known, copy, heard>>, LocalCovers',
           NEW d \in Device, d = Head(jobs).dev,
           NEW a, a = [kind |-> Head(jobs).kind, ok |-> ok, user |-> u, body |-> body],
           Truth(d, a)',
           ok /\ Head(jobs).kind = "queryuser" => body.version = account'[u].version,
           ok /\ Head(jobs).kind = "userversion" => body = account'[u].version
    PROVE  Inv'
<1>1. Types /\ Answers /\ Kept
    BY DEF Inv
<1>2. jobs' = Tail(jobs) /\ step' = 1
    BY DEF Finish
<1>4. GoodJobs'
    <2>1. /\ Tail(jobs) \in Seq(Request)
          /\ \A i \in 1..Len(Tail(jobs)) : GoodRequest(Tail(jobs)[i])
        BY <1>1, HeadJob
    <2>2. QED
        BY <1>2, <2>1, RequestKept DEF GoodJobs
<1>5. Kept'
    BY <1>1, KeptStep
<1>6. LoginSoFar'
    BY <1>2 DEF LoginSoFar
<1>7. Answers' /\ inbox' \in [Device -> Seq(AnyAnswer)]
    <2>1. CASE Head(jobs).lost
        <3>1. inbox' = inbox
            BY <2>1 DEF Finish
        <3>2. ASSUME NEW x \in Device, NEW i \in 1..Len(inbox[x]), NEW b, b = inbox[x][i]
              PROVE  Truth(x, b)' /\ After(x, b)'
            BY <1>1, <3>2, AnswersKept
        <3>3. \A x \in Device : \A i \in 1..Len(inbox[x]) :
                  \A k \in 1..Len(inbox[x]) : i < k => InOrder(inbox[x][i], inbox[x][k])
            BY <1>1 DEF Answers
        <3>4. inbox' \in [Device -> Seq(AnyAnswer)]
            BY <1>1, <3>1 DEF Types
        <3>5. Answers'
            BY <3>1, <3>2, <3>3 DEF Answers, Truth, After, Names, Stands
        <3>6. QED
            BY <3>4, <3>5
    <2>2. CASE ~Head(jobs).lost
        <3>1. inbox' = [inbox EXCEPT ![d] = Append(@, a)]
            BY <2>2 DEF Finish, Put
        <3>2. /\ a.ok /\ a.kind = "queryuser" => a.body.version = account'[a.user].version
              /\ a.ok /\ a.kind = "userversion" => a.body = account'[a.user].version
            OBVIOUS
        <3>3. QED
            BY <3>1, <3>2, AnswersPut
    <2>3. QED
        BY <2>1, <2>2
<1>8. Types'
    BY <1>1, <1>2, <1>4, <1>7 DEF Types
<1>9. QED
    BY <1>5, <1>6, <1>7, <1>8 DEF Inv

\* The answers that tell nothing but that the request is done or not.
LEMMA PlainTruth ==
    ASSUME Types, NEW d \in Device, NEW u \in User, NEW kind \in Entry \cup Checked,
           NEW ok \in BOOLEAN, NEW a,
           a = [kind |-> kind, ok |-> ok, user |-> u, body |-> NoArg],
           ok => kind \notin {"queryuser", "userversion"},
           ok /\ kind = "login" => /\ account'[u] # NoDoc /\ d \in account'[u].devices
                                  /\ row'[d] # NoRow /\ u \in row'[d],
           ok /\ kind = "connect" => account'[u] # NoDoc
    PROVE  Truth(d, a)'
<1>1. a \in AnyAnswer
    BY DEF AnyAnswer, Body
<1>2. QED
    BY <1>1 DEF Truth, AnyAnswer, Stands, Body, Copy

\* A step that leaves the documents and connectInfo_ alone.
LEMMA Undisturbed ==
    ASSUME Inv, UNCHANGED <<account, row, local>>
    PROVE  /\ Types /\ account' \in [User -> Doc \cup {NoDoc}]
           /\ row' \in [Device -> (SUBSET User) \cup {NoRow}]
           /\ GoodLocal' /\ LocalCovers' /\ DocsGrow /\ RowsGrow
BY NothingGrows DEF Inv, Types, GoodLocal, LocalCovers

LEMMA FailStep ==
    ASSUME Inv, jobs # <<>>, Fail, GoodBudget',
           UNCHANGED <<account, row, local, node, clientVars>>
    PROVE  Inv'
<1>1. Types /\ UNCHANGED <<known, copy, heard, node, online>>
    BY DEF Inv, clientVars
<1>2. PICK a : a = [kind |-> Head(jobs).kind, ok |-> FALSE, user |-> Head(jobs).user,
                    body |-> NoArg]
    OBVIOUS
<1>3. PICK d : d = Head(jobs).dev
    OBVIOUS
<1>4. /\ d \in Device /\ Head(jobs).user \in User
      /\ Head(jobs).kind \in Entry \cup Checked
    BY <1>1, <1>3, HeadJob
<1>5. Truth(d, a)'
    BY <1>1, <1>2, <1>4, PlainTruth
<1>6. GoodNodes'
    BY <1>1, NodesKept, Undisturbed
<1>7. QED
    BY <1>1, <1>2, <1>3, <1>4, <1>5, <1>6, Undisturbed, FinishStep DEF Fail

LEMMA SucceedStep ==
    ASSUME Inv, jobs # <<>>, Succeed,
           account' \in [User -> Doc \cup {NoDoc}],
           row' \in [Device -> (SUBSET User) \cup {NoRow}],
           DocsGrow, RowsGrow, LocalCovers',
           UNCHANGED <<local, node, clientVars, budget>>,
           Head(jobs).kind \notin {"queryuser", "userversion"},
           NEW d, d = Head(jobs).dev, NEW u, u = Head(jobs).user,
           Head(jobs).kind = "login" => Stands(d, u)'
    PROVE  Inv'
<1>1. Types /\ UNCHANGED <<known, copy, heard, node, online>>
    BY DEF Inv, clientVars
<1>2. /\ d \in Device /\ u \in User /\ Head(jobs).kind \in Entry \cup Checked
      /\ GoodRequest(Head(jobs))
    BY <1>1, HeadJob
<1>3. PICK a : a = [kind |-> Head(jobs).kind, ok |-> TRUE, user |-> u, body |-> NoArg]
    OBVIOUS
<1>4. Head(jobs).kind = "connect" => account'[u] # NoDoc
    BY <1>2 DEF GoodRequest, DocsGrow
<1>5. Truth(d, a)'
    <2>1. PICK kind : kind = Head(jobs).kind
        OBVIOUS
    <2>2. /\ kind \in Entry \cup Checked /\ kind \notin {"queryuser", "userversion"}
          /\ a = [kind |-> kind, ok |-> TRUE, user |-> u, body |-> NoArg]
          /\ kind = "login" => /\ account'[u] # NoDoc /\ d \in account'[u].devices
                               /\ row'[d] # NoRow /\ u \in row'[d]
          /\ kind = "connect" => account'[u] # NoDoc
        BY <1>2, <1>3, <1>4, <2>1 DEF Stands
    <2>3. QED
        BY <1>2, <2>2 DEF Truth, AnyAnswer, Body, Stands
<1>6. GoodNodes' /\ GoodLocal' /\ GoodBudget'
    BY <1>1, NodesKept DEF Types, GoodLocal, GoodBudget
<1>7. QED
    BY <1>1, <1>2, <1>3, <1>5, <1>6, FinishStep DEF Succeed

-----------------------------------------------------------------------------
(* The handlers.                                                           *)

LEMMA RegisterStep == Inv /\ Register => Inv'
<1> SUFFICES ASSUME Inv, Register PROVE Inv'
    OBVIOUS
<1>1. jobs # <<>> /\ Head(jobs).kind = "register" /\ UNCHANGED <<row, local, node, clientVars, budget>>
    BY DEF Register, At
<1>2. Types /\ LocalCovers
    BY DEF Inv
<1>3. PICK u : u = Head(jobs).user
    OBVIOUS
<1>4. PICK d : d = Head(jobs).dev
    OBVIOUS
<1>5. u \in User
    BY <1>1, <1>2, <1>3, HeadJob
<1>6. CASE account[u] = NoDoc
    <2>1. PICK v \in Value : account' = [account EXCEPT ![u] = NewDoc(v)]
        BY <1>3, <1>6 DEF Register
    <2>2. NewDoc(v) \in Doc
        BY AccountsAssumption DEF NewDoc, Doc
    <2>3. account' \in [User -> Doc \cup {NoDoc}]
        BY <1>2, <2>1, <2>2 DEF Types
    <2>4. DocsGrow
        <3>1. ASSUME NEW x \in User, account[x] # NoDoc
              PROVE  account'[x] = account[x] /\ account[x].version \in Nat
            BY <1>2, <1>6, <2>1, <3>1, DocFields DEF Types
        <3>2. QED
            BY <3>1 DEF DocsGrow
    <2>5. RowsGrow /\ row' \in [Device -> (SUBSET User) \cup {NoRow}] /\ LocalCovers'
        BY <1>1, <1>2, NothingGrows DEF Types, LocalCovers
    <2>6. Succeed
        BY <1>3, <1>6 DEF Register
    <2>7. QED
        BY <1>1, <1>3, <1>4, <2>3, <2>4, <2>5, <2>6, SucceedStep
<1>7. CASE account[u] # NoDoc
    <2>1. Fail /\ UNCHANGED account
        BY <1>3, <1>7 DEF Register
    <2>2. GoodBudget'
        BY <1>1, <1>2 DEF Types, GoodBudget
    <2>3. QED
        BY <1>1, <2>1, <2>2, FailStep
<1>8. QED
    BY <1>6, <1>7

LEMMA LoginQueryStep == Inv /\ LoginQuery => Inv'
<1> SUFFICES ASSUME Inv, LoginQuery PROVE Inv'
    OBVIOUS
<1>1. /\ jobs # <<>> /\ Head(jobs).kind = "login" /\ step = 1
      /\ UNCHANGED <<account, row, local, node, clientVars, budget>>
    BY DEF LoginQuery, At
<1>2. Types
    BY DEF Inv
<1>3. GoodNodes' /\ GoodBudget'
    BY <1>1, <1>2, NodesKept, Undisturbed DEF Types, GoodBudget, clientVars
<1>4. CASE Fail
    BY <1>1, <1>3, <1>4, FailStep
<1>5. CASE account[Head(jobs).user] # NoDoc /\ Continue
    BY <1>1, <1>3, <1>5, Undisturbed, ContinueStep DEF clientVars
<1>6. QED
    BY <1>4, <1>5 DEF LoginQuery

LEMMA LoginDeviceStep == Inv /\ LoginDevice => Inv'
<1> SUFFICES ASSUME Inv, LoginDevice PROVE Inv'
    OBVIOUS
<1>1. /\ jobs # <<>> /\ Head(jobs).kind = "login" /\ step = 2 /\ Continue
      /\ UNCHANGED <<row, local, node, clientVars, budget>>
    BY DEF LoginDevice, At
<1>2. Types /\ LocalCovers /\ account[Head(jobs).user] # NoDoc
    BY <1>1 DEF Inv, LoginSoFar
<1>3. PICK u \in User : u = Head(jobs).user
    BY <1>1, <1>2, HeadJob
<1>4. PICK d \in Device : d = Head(jobs).dev
    BY <1>1, <1>2, HeadJob
<1>5. account' = [account EXCEPT ![u].devices = @ \cup {d}] /\ account[u] \in Doc
    BY <1>2, <1>3, <1>4, DocFields DEF LoginDevice
<1>6. account' \in [User -> Doc \cup {NoDoc}]
    BY <1>2, <1>5 DEF Types, Doc
<1>7. /\ account'[u] # NoDoc /\ d \in account'[u].devices
      /\ account[u].devices \subseteq account'[u].devices
      /\ account'[u].version = account[u].version
      /\ account'[u].value = account[u].value
      /\ account'[u].friends = account[u].friends
      /\ \A x \in User : x # u => account'[x] = account[x]
    <2>1. account'[u] = [account[u] EXCEPT !.devices = @ \cup {d}]
        BY <1>2, <1>5 DEF Types
    <2>2. \A x \in User : x # u => account'[x] = account[x]
        BY <1>2, <1>5 DEF Types
    <2>3. account'[u] \in Doc
        BY <1>5, <2>1 DEF Doc
    <2>4. QED
        BY <1>5, <2>1, <2>2, <2>3, NoDocAssumption DEF Doc
<1>8. DocsGrow
    <2>1. \A x \in User : account[x] # NoDoc => account[x].version \in Nat
        BY <1>2, DocFields
    <2>2. QED
        BY <1>7, <2>1 DEF DocsGrow
<1>9. /\ RowsGrow /\ row' \in [Device -> (SUBSET User) \cup {NoRow}] /\ LocalCovers'
      /\ GoodLocal' /\ GoodBudget'
    BY <1>1, <1>2, NothingGrows DEF Types, LocalCovers, GoodLocal, GoodBudget
<1>10. GoodNodes'
    BY <1>1, <1>2, <1>8, NodesKept DEF clientVars
<1>11. QED
    BY <1>1, <1>3, <1>4, <1>6, <1>7, <1>8, <1>9, <1>10, ContinueStep DEF clientVars

\* What findUUID leaves in connectInfo_ has the entries of its document.
LEMMA Found ==
    ASSUME Inv, NEW d \in Device, NEW info, info = FindUUID(d)
    PROVE  /\ info \in [uuid : Device \cup {NoDevice}, users : SUBSET User]
           /\ info.uuid \in Device /\ row[info.uuid] # NoRow =>
                 row[info.uuid] \subseteq info.users
           /\ row[d] # NoRow => info.uuid = d /\ info.users = row[d]
BY DEF Inv, Types, GoodLocal, LocalCovers, FindUUID

LEMMA LoginInfoStep == Inv /\ LoginInfo => Inv'
<1> SUFFICES ASSUME Inv, LoginInfo PROVE Inv'
    OBVIOUS
<1>1. /\ jobs # <<>> /\ Head(jobs).kind = "login" /\ step = 3 /\ Continue
      /\ UNCHANGED <<account, row, node, clientVars, budget>>
    BY DEF LoginInfo, At
<1>2. /\ Types /\ account[Head(jobs).user] # NoDoc
      /\ Head(jobs).dev \in account[Head(jobs).user].devices
    BY <1>1 DEF Inv, LoginSoFar
<1>3. PICK u \in User : u = Head(jobs).user
    BY <1>1, <1>2, HeadJob
<1>4. PICK d \in Device : d = Head(jobs).dev
    BY <1>1, <1>2, HeadJob
<1>5. PICK info : info = FindUUID(d)
    OBVIOUS
<1>6. /\ local' = EntryFor(IF row[d] = NoRow THEN EmptyInfo ELSE info, d, u)
      /\ row[d] # NoRow => info.users = row[d]
      /\ info.users \in SUBSET User
    BY <1>3, <1>4, <1>5, Found DEF LoginInfo
<1>7. /\ local'.uuid = d /\ u \in local'.users /\ GoodLocal'
      /\ row[d] # NoRow => row[d] \subseteq local'.users
    BY <1>6 DEF EntryFor, EmptyInfo, GoodLocal
<1>8. LocalCovers'
    BY <1>1, <1>7 DEF LocalCovers
<1>9. /\ account' \in [User -> Doc \cup {NoDoc}] /\ GoodBudget'
      /\ row' \in [Device -> (SUBSET User) \cup {NoRow}] /\ DocsGrow /\ RowsGrow
    BY <1>1, <1>2, NothingGrows DEF Types, GoodBudget
<1>10. GoodNodes'
    BY <1>1, <1>2, <1>9, NodesKept DEF clientVars
<1>11. QED
    BY <1>1, <1>2, <1>3, <1>4, <1>7, <1>8, <1>9, <1>10, ContinueStep DEF clientVars

LEMMA LoginRowStep == Inv /\ LoginRow => Inv'
<1> SUFFICES ASSUME Inv, LoginRow PROVE Inv'
    OBVIOUS
<1>1. /\ jobs # <<>> /\ Head(jobs).kind = "login" /\ step = 4 /\ Succeed
      /\ row' = [row EXCEPT ![local.uuid] = local.users]
      /\ UNCHANGED <<account, local, node, clientVars, budget>>
    BY DEF LoginRow, LoginWrite, At
<1>2. /\ Types /\ LocalCovers
      /\ account[Head(jobs).user] # NoDoc
      /\ Head(jobs).dev \in account[Head(jobs).user].devices
      /\ local.uuid = Head(jobs).dev /\ Head(jobs).user \in local.users
    BY <1>1 DEF Inv, LoginSoFar
<1>3. PICK u \in User : u = Head(jobs).user
    BY <1>1, <1>2, HeadJob
<1>4. PICK d \in Device : d = Head(jobs).dev
    BY <1>1, <1>2, HeadJob
<1>5. local.users \in SUBSET User
    BY <1>2 DEF Types, GoodLocal
<1>6. /\ row' \in [Device -> (SUBSET User) \cup {NoRow}]
      /\ row'[d] = local.users /\ \A x \in Device : x # d => row'[x] = row[x]
    BY <1>1, <1>2, <1>4, <1>5 DEF Types
<1>7. row'[d] # NoRow
    BY <1>5, <1>6, AccountsAssumption
<1>8. RowsGrow
    BY <1>2, <1>4, <1>6, <1>7 DEF RowsGrow, LocalCovers
<1>9. LocalCovers'
    BY <1>1, <1>2, <1>4, <1>6 DEF LocalCovers
<1>10. Stands(d, u)'
    BY <1>1, <1>2, <1>3, <1>4, <1>6, <1>7 DEF Stands
<1>11. account' \in [User -> Doc \cup {NoDoc}] /\ DocsGrow
    BY <1>1, <1>2, NothingGrows DEF Types
<1>12. Head(jobs).kind \notin {"queryuser", "userversion"}
    BY <1>1
<1>13. QED
    BY <1>1, <1>3, <1>4, <1>6, <1>8, <1>9, <1>10, <1>11, <1>12, SucceedStep

LEMMA DeviceQueryStep == Inv /\ DeviceQuery => Inv'
<1> SUFFICES ASSUME Inv, DeviceQuery PROVE Inv'
    OBVIOUS
<1>1. /\ jobs # <<>> /\ Head(jobs).kind # "login" /\ step = 1
      /\ UNCHANGED <<account, row, local, node, clientVars, budget>>
    BY DEF DeviceQuery, At
<1>2. Types
    BY DEF Inv
<1>3. GoodNodes' /\ GoodBudget'
    BY <1>1, <1>2, NodesKept, Undisturbed DEF Types, GoodBudget, clientVars
<1>4. CASE Fail
    BY <1>1, <1>3, <1>4, FailStep
<1>5. CASE Continue
    BY <1>1, <1>3, <1>5, Undisturbed, ContinueStep DEF clientVars
<1>6. QED
    BY <1>4, <1>5 DEF DeviceQuery

\* A connection takes the user of a request, who has a document.
LEMMA ConnectInfoStep == Inv /\ ConnectInfo => Inv'
<1> SUFFICES ASSUME Inv, ConnectInfo PROVE Inv'
    OBVIOUS
<1>1. /\ jobs # <<>> /\ Head(jobs).kind = "connect" /\ step = 2 /\ Continue
      /\ UNCHANGED <<account, row, clientVars, budget>>
    BY DEF ConnectInfo, At
<1>2. Types
    BY DEF Inv
<1>3. PICK u \in User : u = Head(jobs).user
    BY <1>1, <1>2, HeadJob
<1>4. PICK d \in Device : d = Head(jobs).dev
    BY <1>1, <1>2, HeadJob
<1>5. account[u] # NoDoc
    BY <1>1, <1>2, <1>3, HeadJob DEF GoodRequest
<1>6. PICK info : info = FindUUID(d)
    OBVIOUS
<1>7. local' = info /\ (node' = node \/ node' = [node EXCEPT ![d] = u])
    BY <1>3, <1>4, <1>6 DEF ConnectInfo
<1>8. GoodLocal' /\ LocalCovers'
    BY <1>1, <1>6, <1>7, Found DEF GoodLocal, LocalCovers
<1>9. /\ account' \in [User -> Doc \cup {NoDoc}] /\ GoodBudget'
      /\ row' \in [Device -> (SUBSET User) \cup {NoRow}] /\ DocsGrow /\ RowsGrow
    BY <1>1, <1>2, NothingGrows DEF Types, GoodBudget
<1>10. GoodNodes'
    <2>1. CASE node' = node
        BY <1>1, <1>2, <1>9, <2>1, NodesKept DEF clientVars
    <2>2. CASE node' = [node EXCEPT ![d] = u]
        BY <1>1, <1>2, <1>5, <2>2 DEF Types, GoodNodes, clientVars
    <2>3. QED
        BY <1>7, <2>1, <2>2
<1>11. QED
    BY <1>1, <1>8, <1>9, <1>10, ContinueStep DEF clientVars

LEMMA DisconnectInfoStep == Inv /\ DisconnectInfo => Inv'
<1> SUFFICES ASSUME Inv, DisconnectInfo PROVE Inv'
    OBVIOUS
<1>1. /\ jobs # <<>> /\ Head(jobs).kind = "disconnect" /\ step = 2 /\ Continue
      /\ UNCHANGED <<account, row, node, clientVars, budget>>
    BY DEF DisconnectInfo, At
<1>2. Types
    BY DEF Inv
<1>3. PICK u \in User : u = Head(jobs).user
    BY <1>1, <1>2, HeadJob
<1>4. PICK d \in Device : d = Head(jobs).dev
    BY <1>1, <1>2, HeadJob
<1>5. PICK info : info = FindUUID(d)
    OBVIOUS
<1>6. local' = [info EXCEPT !.users = @ \cup {u}]
    BY <1>3, <1>4, <1>5 DEF DisconnectInfo
<1>7. GoodLocal' /\ LocalCovers'
    <2>1. /\ info \in [uuid : Device \cup {NoDevice}, users : SUBSET User]
          /\ info.uuid \in Device /\ row[info.uuid] # NoRow =>
                row[info.uuid] \subseteq info.users
        BY <1>5, Found
    <2>2. local'.uuid = info.uuid /\ local'.users = info.users \cup {u} /\ GoodLocal'
        BY <1>6, <2>1 DEF GoodLocal
    <2>3. QED
        BY <1>1, <2>1, <2>2 DEF LocalCovers
<1>8. /\ account' \in [User -> Doc \cup {NoDoc}] /\ GoodBudget'
      /\ row' \in [Device -> (SUBSET User) \cup {NoRow}] /\ DocsGrow /\ RowsGrow
    BY <1>1, <1>2, NothingGrows DEF Types, GoodBudget
<1>9. GoodNodes'
    BY <1>1, <1>2, <1>8, NodesKept DEF clientVars
<1>10. QED
    BY <1>1, <1>7, <1>8, <1>9, ContinueStep DEF clientVars

LEMMA LeaveRowStep == Inv /\ LeaveRow => Inv'
<1> SUFFICES ASSUME Inv, LeaveRow PROVE Inv'
    OBVIOUS
<1>1. /\ jobs # <<>> /\ Head(jobs).kind \in {"connect", "disconnect"} /\ Succeed
      /\ row' = [d \in Device |-> IF d = local.uuid /\ row[d] # NoRow
                                  THEN local.users ELSE row[d]]
      /\ UNCHANGED <<account, local, node, clientVars, budget>>
    BY DEF LeaveRow, UpdateUUID, At
<1>2. Types /\ LocalCovers /\ local.users \in SUBSET User
    BY DEF Inv, Types, GoodLocal
<1>3. row' \in [Device -> (SUBSET User) \cup {NoRow}]
    BY <1>1, <1>2 DEF Types
<1>4. RowsGrow
    BY <1>1, <1>2, AccountsAssumption DEF RowsGrow, LocalCovers
<1>5. LocalCovers'
    BY <1>1, <1>2 DEF LocalCovers
<1>6. account' \in [User -> Doc \cup {NoDoc}] /\ DocsGrow
    BY <1>1, <1>2, NothingGrows DEF Types
<1>7. PICK u : u = Head(jobs).user
    OBVIOUS
<1>8. PICK d : d = Head(jobs).dev
    OBVIOUS
<1>9. Head(jobs).kind \notin {"queryuser", "userversion", "login"}
    BY <1>1
<1>10. QED
    BY <1>1, <1>3, <1>4, <1>5, <1>6, <1>7, <1>8, <1>9, SucceedStep

\* One write of a document, to the version after it; of nobody's document,
\* nothing.
LEMMA WriteGrows ==
    ASSUME Types, NEW u, NEW doc, Write(u, doc),
           u \in User => /\ account[u] # NoDoc /\ doc \in Doc
                         /\ doc.version = account[u].version
                         /\ doc.devices = account[u].devices
    PROVE  account' \in [User -> Doc \cup {NoDoc}] /\ DocsGrow
<1>1. /\ account \in [User -> Doc \cup {NoDoc}] /\ account[u].version < MaxVersion
      /\ account' = [account EXCEPT ![u] = [doc EXCEPT !.version = @ + 1]]
    BY DEF Types, Write
<1>2. CASE u \notin User
    <2>1. account' = account
        BY <1>1, <1>2
    <2>2. QED
        BY <1>1, <2>1, NothingGrows
<1>3. CASE u \in User
    <2>1. account[u] \in Doc /\ account[u].version \in 1..MaxVersion
        BY <1>3, DocFields
    <2>2. /\ account'[u] = [doc EXCEPT !.version = @ + 1]
          /\ \A x \in User : x # u => account'[x] = account[x]
        BY <1>1, <1>3
    <2>3. doc.version + 1 \in 1..MaxVersion
        BY <1>1, <1>3, <2>1, AccountsAssumption
    <2>4. /\ account'[u] \in Doc
          /\ account'[u].version = account[u].version + 1
          /\ account'[u].devices = account[u].devices
        BY <1>3, <2>2, <2>3 DEF Doc
    <2>5. account' \in [User -> Doc \cup {NoDoc}]
        BY <1>1, <1>3, <2>4
    <2>6. DocsGrow
        <3>1. ASSUME NEW x \in User, account[x] # NoDoc, x # u
              PROVE  account'[x] = account[x] /\ account[x].version \in Nat
            BY <2>2, <3>1, DocFields
        <3>2. /\ account'[u] # NoDoc
              /\ account[u].version <= account'[u].version
              /\ account'[u].version # account[u].version
            BY <2>1, <2>4, NoDocAssumption
        <3>3. QED
            BY <2>4, <3>1, <3>2 DEF DocsGrow
    <2>7. QED
        BY <2>5, <2>6
<1>4. QED
    BY <1>2, <1>3

\* The user a handler writes for has a document, or there is none.
LEMMA CurrentUserDoc ==
    ASSUME Types, jobs # <<>>, Head(jobs).kind \notin {"register", "login"},
           NEW u, u = CurrentUser, u \in User
    PROVE  account[u] # NoDoc
<1>1. GoodRequest(Head(jobs)) /\ Head(jobs).dev \in Device
    BY HeadJob
<1>2. CASE Head(jobs).lost
    BY <1>1, <1>2 DEF CurrentUser, GoodRequest
<1>3. CASE ~Head(jobs).lost
    BY <1>1, <1>3, AccountsAssumption DEF CurrentUser, Types, GoodNodes
<1>4. QED
    BY <1>2, <1>3

LEMMA SetUserPropertyStep == Inv /\ SetUserProperty => Inv'
<1> SUFFICES ASSUME Inv, SetUserProperty PROVE Inv'
    OBVIOUS
<1>1. /\ jobs # <<>> /\ Head(jobs).kind = "setproperty" /\ Succeed
      /\ UNCHANGED <<row, local, node, clientVars, budget>>
    BY DEF SetUserProperty, At
<1>2. Types /\ LocalCovers
    BY DEF Inv
<1>3. PICK u : u = CurrentUser
    OBVIOUS
<1>4. PICK doc : doc = [account[u] EXCEPT !.value = Head(jobs).arg]
    OBVIOUS
<1>5. Write(u, doc)
    BY <1>3, <1>4 DEF SetUserProperty
<1>6. Head(jobs).arg \in Value
    BY <1>1, <1>2, HeadJob DEF GoodRequest
<1>7. ASSUME u \in User
      PROVE  /\ account[u] # NoDoc /\ doc \in Doc
             /\ doc.version = account[u].version /\ doc.devices = account[u].devices
    <2>1. account[u] # NoDoc
        BY <1>1, <1>2, <1>3, <1>7, CurrentUserDoc
    <2>2. account[u] \in Doc
        BY <1>2, <1>7, <2>1, DocFields
    <2>3. QED
        BY <1>4, <1>6, <2>1, <2>2 DEF Doc
<1>8. account' \in [User -> Doc \cup {NoDoc}] /\ DocsGrow
    BY <1>2, <1>5, <1>7, WriteGrows
<1>9. /\ RowsGrow /\ row' \in [Device -> (SUBSET User) \cup {NoRow}] /\ LocalCovers'
    BY <1>1, <1>2, NothingGrows DEF Types, LocalCovers
<1>10. PICK v : v = Head(jobs).user
    OBVIOUS
<1>11. PICK d : d = Head(jobs).dev
    OBVIOUS
<1>12. Head(jobs).kind \notin {"queryuser", "userversion", "login"}
    BY <1>1
<1>13. QED
    BY <1>1, <1>8, <1>9, <1>10, <1>11, <1>12, SucceedStep

\* One friend more in a list.
LEMMA FriendDoc ==
    ASSUME Types, NEW u \in User, account[u] # NoDoc, NEW v \in User,
           NEW doc, doc = [account[u] EXCEPT !.friends = @ \cup {v}]
    PROVE  /\ doc \in Doc /\ doc.version = account[u].version
           /\ doc.devices = account[u].devices
BY DocFields DEF Doc

LEMMA PushInviterStep == Inv /\ PushInviter => Inv'
<1> SUFFICES ASSUME Inv, PushInviter PROVE Inv'
    OBVIOUS
<1>1. /\ jobs # <<>> /\ Head(jobs).kind = "befriend" /\ step = 1 /\ Continue
      /\ UNCHANGED <<row, local, node, clientVars, budget>>
    BY DEF PushInviter, At
<1>2. Types /\ LocalCovers
    BY DEF Inv
<1>3. PICK v \in User : v = Head(jobs).user
    BY <1>1, <1>2, HeadJob
<1>4. PICK u \in User : u = Head(jobs).arg /\ account[u] # NoDoc
    BY <1>1, <1>2, HeadJob DEF GoodRequest
<1>5. PICK doc : doc = [account[u] EXCEPT !.friends = @ \cup {v}]
    OBVIOUS
<1>6. Write(u, doc)
    BY <1>3, <1>4, <1>5 DEF PushInviter
<1>7. account' \in [User -> Doc \cup {NoDoc}] /\ DocsGrow
    BY <1>2, <1>4, <1>5, <1>6, FriendDoc, WriteGrows
<1>8. /\ RowsGrow /\ row' \in [Device -> (SUBSET User) \cup {NoRow}] /\ LocalCovers'
      /\ GoodLocal' /\ GoodBudget'
    BY <1>1, <1>2, NothingGrows DEF Types, LocalCovers, GoodLocal, GoodBudget
<1>9. GoodNodes'
    BY <1>1, <1>2, <1>7, NodesKept DEF clientVars
<1>10. QED
    BY <1>1, <1>7, <1>8, <1>9, ContinueStep DEF clientVars

LEMMA PushInviteeStep == Inv /\ PushInvitee => Inv'
<1> SUFFICES ASSUME Inv, PushInvitee PROVE Inv'
    OBVIOUS
<1>1. /\ jobs # <<>> /\ Head(jobs).kind = "befriend" /\ Succeed
      /\ UNCHANGED <<row, local, node, clientVars, budget>>
    BY DEF PushInvitee, At
<1>2. Types /\ LocalCovers
    BY DEF Inv
<1>3. PICK u \in User : u = Head(jobs).user /\ account[u] # NoDoc
    BY <1>1, <1>2, HeadJob DEF GoodRequest
<1>4. PICK v \in User : v = Head(jobs).arg
    BY <1>1, <1>2, HeadJob DEF GoodRequest
<1>5. PICK doc : doc = [account[u] EXCEPT !.friends = @ \cup {v}]
    OBVIOUS
<1>6. Write(u, doc)
    BY <1>3, <1>4, <1>5 DEF PushInvitee
<1>7. account' \in [User -> Doc \cup {NoDoc}] /\ DocsGrow
    BY <1>2, <1>3, <1>4, <1>5, <1>6, FriendDoc, WriteGrows
<1>8. /\ RowsGrow /\ row' \in [Device -> (SUBSET User) \cup {NoRow}] /\ LocalCovers'
    BY <1>1, <1>2, NothingGrows DEF Types, LocalCovers
<1>9. PICK d : d = Head(jobs).dev
    OBVIOUS
<1>10. Head(jobs).kind \notin {"queryuser", "userversion", "login"}
    BY <1>1
<1>11. QED
    BY <1>1, <1>3, <1>7, <1>8, <1>9, <1>10, SucceedStep

LEMMA QueryUserStep == Inv /\ QueryUser => Inv'
<1> SUFFICES ASSUME Inv, QueryUser PROVE Inv'
    OBVIOUS
<1>1. /\ jobs # <<>> /\ Head(jobs).kind = "queryuser"
      /\ UNCHANGED <<account, row, local, node, clientVars, budget>>
    BY DEF QueryUser, At
<1>2. Types
    BY DEF Inv
<1>3. GoodNodes' /\ GoodBudget'
    BY <1>1, <1>2, NodesKept, Undisturbed DEF Types, GoodBudget, clientVars
<1>4. PICK u \in User : u = Head(jobs).arg
    BY <1>1, <1>2, HeadJob DEF GoodRequest
<1>5. PICK d \in Device : d = Head(jobs).dev
    BY <1>1, <1>2, HeadJob
<1>6. CASE account[u] = NoDoc
    <2>1. Fail
        BY <1>4, <1>6 DEF QueryUser
    <2>2. QED
        BY <1>1, <1>3, <2>1, FailStep
<1>7. CASE account[u] # NoDoc
    <2>1. PICK own \in BOOLEAN : own = (u = CurrentUser)
        OBVIOUS
    <2>2. PICK body : body = Told(account[u], own)
        OBVIOUS
    <2>3. Finish(TRUE, u, body)
        BY <1>4, <1>7, <2>1, <2>2 DEF QueryUser
    <2>4. PICK a : a = [kind |-> "queryuser", ok |-> TRUE, user |-> u, body |-> body]
        OBVIOUS
    <2>5. account[u] \in Doc /\ account[u].version \in Nat
        BY <1>2, <1>7, DocFields
    <2>6. /\ body \in Copy /\ body.version = account[u].version
          /\ body.value = account[u].value
          /\ body.own => body.friends = account[u].friends
        BY <2>1, <2>2, <2>5 DEF Told, Copy, Doc
    <2>7. Names(u, body)'
        BY <1>1, <1>7, <2>5, <2>6 DEF Names
    <2>8. a \in AnyAnswer
        BY <2>4, <2>6 DEF AnyAnswer, Body, Checked
    <2>9. Truth(d, a)'
        BY <2>4, <2>6, <2>7, <2>8 DEF Truth
    <2>10. account'[u] = account[u]
        BY <1>1
    <2>11. QED
        BY <1>1, <1>3, <1>5, <2>3, <2>4, <2>6, <2>9, <2>10, Undisturbed, FinishStep
        DEF clientVars
<1>8. QED
    BY <1>6, <1>7

LEMMA QueryUserVersionStep == Inv /\ QueryUserVersion => Inv'
<1> SUFFICES ASSUME Inv, QueryUserVersion PROVE Inv'
    OBVIOUS
<1>1. /\ jobs # <<>> /\ Head(jobs).kind = "userversion"
      /\ UNCHANGED <<account, row, local, node, clientVars, budget>>
    BY DEF QueryUserVersion, At
<1>2. Types
    BY DEF Inv
<1>3. GoodNodes' /\ GoodBudget'
    BY <1>1, <1>2, NodesKept, Undisturbed DEF Types, GoodBudget, clientVars
<1>4. PICK u \in User : u = Head(jobs).arg
    BY <1>1, <1>2, HeadJob DEF GoodRequest
<1>5. PICK d \in Device : d = Head(jobs).dev
    BY <1>1, <1>2, HeadJob
<1>6. CASE account[u] = NoDoc
    <2>1. Fail
        BY <1>4, <1>6 DEF QueryUserVersion
    <2>2. QED
        BY <1>1, <1>3, <2>1, FailStep
<1>7. CASE account[u] # NoDoc
    <2>1. PICK body : body = account[u].version
        OBVIOUS
    <2>2. Finish(TRUE, u, body)
        BY <1>4, <1>7, <2>1 DEF QueryUserVersion
    <2>3. PICK a : a = [kind |-> "userversion", ok |-> TRUE, user |-> u, body |-> body]
        OBVIOUS
    <2>4. body \in 1..MaxVersion /\ account[u].version \in Nat
        BY <1>2, <1>7, <2>1, DocFields
    <2>5. a \in AnyAnswer
        BY <2>3, <2>4 DEF AnyAnswer, Body, Checked
    <2>6. account'[u] = account[u]
        BY <1>1
    <2>7. Truth(d, a)'
        BY <1>7, <2>1, <2>3, <2>4, <2>5, <2>6 DEF Truth
    <2>8. QED
        BY <1>1, <1>3, <1>5, <2>1, <2>2, <2>3, <2>6, <2>7, Undisturbed, FinishStep
        DEF clientVars
<1>8. QED
    BY <1>6, <1>7

LEMMA ThrowStep == Inv /\ Throw => Inv'
<1> SUFFICES ASSUME Inv, Throw PROVE Inv'
    OBVIOUS
<1>1. GoodBudget'
    <2>1. GoodBudget /\ budget.faults > 0 /\ budget' = [budget EXCEPT !.faults = @ - 1]
        BY DEF Inv, Types, Throw
    <2>2. budget.faults - 1 \in 0..Faults
        BY <2>1, AccountsAssumption DEF GoodBudget
    <2>3. QED
        BY <2>1, <2>2 DEF GoodBudget
<1>2. QED
    BY <1>1, FailStep DEF Throw

-----------------------------------------------------------------------------
(* The devices, and the end of connections and of the server.              *)

\* Connections end: some of what is on its way is lost, and nothing is told.
LEMMA LossStep ==
    ASSUME Inv, UNCHANGED <<account, row, known, copy, heard>>,
           GoodLocal', GoodBudget', GoodJobs', GoodNodes', LocalCovers', LoginSoFar',
           step' \in 1..4, inbox' \in [Device -> Seq(AnyAnswer)],
           \A d \in Device : inbox'[d] \in {inbox[d], <<>>}
    PROVE  Inv'
<1>1. Types /\ Answers /\ Kept
    BY DEF Inv
<1>2. account' \in [User -> Doc \cup {NoDoc}] /\ DocsGrow /\ RowsGrow
    BY <1>1, NothingGrows DEF Types
<1>3. Types'
    BY <1>1, <1>2 DEF Types
<1>4. Kept'
    BY <1>1, <1>2, KeptStep
<1>5. ASSUME NEW x \in Device, NEW i \in 1..Len(inbox[x]), NEW b, b = inbox[x][i]
      PROVE  Truth(x, b)' /\ After(x, b)'
    BY <1>1, <1>2, <1>5, AnswersKept
<1>6. ASSUME NEW d \in Device, NEW i \in 1..Len(inbox'[d]), NEW b, b = inbox'[d][i]
      PROVE  /\ Truth(d, b)' /\ After(d, b)'
             /\ \A k \in 1..Len(inbox'[d]) : i < k => InOrder(b, inbox'[d][k])
    <2>1. CASE inbox'[d] = inbox[d]
        BY <1>1, <1>5, <1>6, <2>1 DEF Answers
    <2>2. CASE inbox'[d] = <<>>
        BY <1>6, <2>2
    <2>3. QED
        BY <2>1, <2>2
<1>7. Answers'
    BY <1>6 DEF Answers, Truth, After, Names, Stands
<1>8. QED
    BY <1>3, <1>4, <1>7 DEF Inv

LEMMA EmptyBox == <<>> \in Seq(AnyAnswer) /\ <<>> \in Seq(Request) /\ Len(<<>>) = 0
BY EmptySeq

LEMMA CrashStep == Inv /\ Crash => Inv'
<1> SUFFICES ASSUME Inv, Crash PROVE Inv'
    OBVIOUS
<1>1. Types
    BY DEF Inv
<1>2. GoodBudget'
    <2>1. GoodBudget /\ budget.crashes > 0 /\ budget' = [budget EXCEPT !.crashes = @ - 1]
        BY <1>1 DEF Types, Crash
    <2>2. budget.crashes - 1 \in 0..Crashes
        BY <2>1, AccountsAssumption DEF GoodBudget
    <2>3. QED
        BY <2>1, <2>2 DEF GoodBudget
<1>3. GoodLocal' /\ LocalCovers'
    BY AccountsAssumption DEF Crash, GoodLocal, LocalCovers, EmptyInfo
<1>4. GoodJobs' /\ LoginSoFar'
    BY EmptyBox DEF Crash, GoodJobs, LoginSoFar
<1>5. GoodNodes'
    BY DEF Crash, GoodNodes
<1>6. /\ inbox' \in [Device -> Seq(AnyAnswer)]
      /\ \A d \in Device : inbox'[d] \in {inbox[d], <<>>}
    BY EmptyBox DEF Crash
<1>7. QED
    BY <1>2, <1>3, <1>4, <1>5, <1>6, LossStep DEF Crash

LEMMA LoseStep ==
    ASSUME Inv, NEW d \in Device, Lose({d}),
           UNCHANGED <<account, row, local, step, known, copy, heard, budget>>
    PROVE  Inv'
<1>1. Types /\ LoginSoFar
    BY DEF Inv
<1>2. GoodLocal' /\ LocalCovers' /\ GoodBudget'
    BY <1>1, Undisturbed DEF Types, GoodBudget
<1>3. jobs \in Seq(Request) /\ Len(jobs) \in Nat /\ DOMAIN jobs = 1..Len(jobs)
    BY <1>1, LenProperties DEF Types, GoodJobs
<1>4. jobs' = [i \in 1..Len(jobs) |-> [jobs[i] EXCEPT !.lost = @ \/ jobs[i].dev \in {d}]]
    BY <1>3 DEF Lose
<1>5. ASSUME NEW i \in 1..Len(jobs)
      PROVE  /\ jobs'[i] \in Request
             /\ jobs'[i].kind = jobs[i].kind /\ jobs'[i].user = jobs[i].user
             /\ jobs'[i].dev = jobs[i].dev /\ jobs'[i].arg = jobs[i].arg
             /\ GoodRequest(jobs[i])
    <2>1. jobs[i] \in Request /\ GoodRequest(jobs[i])
        BY <1>1 DEF Types, GoodJobs, GoodRequest
    <2>2. QED
        BY <1>4, <2>1 DEF Request
<1>6. jobs' \in Seq(Request) /\ Len(jobs') = Len(jobs)
    <2>1. jobs' \in [1..Len(jobs) -> Request]
        BY <1>4, <1>5
    <2>2. jobs' \in Seq(Request)
        BY <1>3, <2>1, SeqDef
    <2>3. DOMAIN jobs' = 1..Len(jobs') /\ DOMAIN jobs' = 1..Len(jobs) /\ Len(jobs') \in Nat
        BY <2>1, <2>2, LenProperties
    <2>4. \A m, n \in Nat : 1..m = 1..n => m = n
        <3>1. ASSUME NEW m \in Nat, NEW n \in Nat, 1..m = 1..n, m < n
              PROVE  FALSE
            <4>1. n \in 1..n /\ n \notin 1..m
                BY <3>1
            <4>2. QED
                BY <3>1, <4>1
        <3>2. ASSUME NEW m \in Nat, NEW n \in Nat, 1..m = 1..n, n < m
              PROVE  FALSE
            <4>1. m \in 1..m /\ m \notin 1..n
                BY <3>2
            <4>2. QED
                BY <3>2, <4>1
        <3>3. QED
            BY <3>1, <3>2
    <2>5. QED
        BY <1>3, <2>2, <2>3, <2>4
<1>7. GoodJobs'
    BY <1>5, <1>6 DEF GoodJobs, GoodRequest
<1>8. LoginSoFar'
    <2>1. CASE jobs = <<>>
        BY <1>1, <1>3, <1>6, <2>1, EmptyBox DEF LoginSoFar
    <2>2. CASE jobs # <<>>
        <3>1. 1 \in 1..Len(jobs) /\ jobs' # <<>>
            BY <1>3, <1>6, <2>2, EmptySeq, EmptyBox
        <3>2. Head(jobs) = jobs[1] /\ Head(jobs') = jobs'[1]
            BY <1>3, <1>6, <2>2, <3>1, HeadTailProperties
        <3>3. /\ Head(jobs').kind = Head(jobs).kind /\ Head(jobs').user = Head(jobs).user
              /\ Head(jobs').dev = Head(jobs).dev
            BY <1>5, <3>1, <3>2
        <3>4. QED
            BY <1>1, <2>2, <3>1, <3>3 DEF LoginSoFar
    <2>3. QED
        BY <2>1, <2>2
<1>9. GoodNodes'
    BY <1>1 DEF Types, GoodNodes, Lose
<1>10. /\ inbox' \in [Device -> Seq(AnyAnswer)]
       /\ \A x \in Device : inbox'[x] \in {inbox[x], <<>>}
    BY <1>1, EmptyBox DEF Types, Lose
<1>11. step' \in 1..4
    BY <1>1 DEF Types
<1>12. QED
    BY <1>2, <1>7, <1>8, <1>9, <1>10, <1>11, LossStep

\* A request joins the others behind them.
LEMMA SendStep ==
    ASSUME Inv, NEW d \in Device, NEW r, Send(d, r),
           NEW q, q = [kind |-> r.kind, user |-> r.user, arg |-> r.arg,
                       dev |-> d, lost |-> FALSE],
           GoodRequest(q)
    PROVE  Inv'
<1>1. Types /\ LoginSoFar
    BY DEF Inv
<1>2. /\ jobs' = Append(jobs, q) /\ budget.asks > 0
      /\ budget' = [budget EXCEPT !.asks = @ - 1]
      /\ online' = [online EXCEPT ![d] = IF r.kind = "connect" THEN NoUser ELSE @]
      /\ UNCHANGED <<account, row, local, step, node, inbox, known, copy, heard>>
    BY DEF Send
<1>3. GoodBudget'
    <2>1. GoodBudget /\ budget.asks - 1 \in 0..MaxAsks
        BY <1>1, <1>2, AccountsAssumption DEF Types, GoodBudget
    <2>2. QED
        BY <1>2, <2>1 DEF GoodBudget
<1>4. GoodLocal' /\ LocalCovers'
    BY <1>1, <1>2, Undisturbed
<1>5. /\ jobs \in Seq(Request) /\ q \in Request /\ Len(jobs) \in Nat
      /\ jobs' \in Seq(Request) /\ Len(jobs') = Len(jobs) + 1
      /\ \A i \in 1..Len(jobs) : jobs'[i] = jobs[i]
      /\ jobs'[Len(jobs) + 1] = q
    BY <1>1, <1>2, AppendProperties, LenProperties DEF Types, GoodJobs, GoodRequest
<1>6. GoodJobs'
    <2>1. ASSUME NEW i \in 1..Len(jobs') PROVE GoodRequest(jobs'[i])
        <3>1. CASE i = Len(jobs) + 1
            BY <1>5, <3>1
        <3>2. CASE i \in 1..Len(jobs)
            BY <1>1, <1>5, <3>2 DEF Types, GoodJobs
        <3>3. QED
            BY <1>5, <3>1, <3>2
    <2>2. QED
        BY <1>2, <1>5, <2>1 DEF GoodJobs, GoodRequest
<1>7. LoginSoFar'
    <2>1. jobs' # <<>> /\ Head(jobs') = jobs'[1]
        BY <1>5, EmptySeq, EmptyBox, HeadTailProperties
    <2>2. CASE jobs = <<>>
        BY <1>1, <1>2, <2>1, <2>2 DEF LoginSoFar
    <2>3. CASE jobs # <<>>
        <3>1. Head(jobs') = Head(jobs)
            BY <1>5, <2>1, <2>3, EmptySeq, HeadTailProperties
        <3>2. QED
            BY <1>1, <1>2, <2>1, <2>3, <3>1 DEF LoginSoFar
    <2>4. QED
        BY <2>2, <2>3
<1>8. GoodNodes'
    BY <1>1, <1>2 DEF Types, GoodNodes
<1>9. /\ inbox' \in [Device -> Seq(AnyAnswer)] /\ step' \in 1..4
      /\ \A x \in Device : inbox'[x] \in {inbox[x], <<>>}
    BY <1>1, <1>2 DEF Types
<1>10. QED
    BY <1>2, <1>3, <1>4, <1>6, <1>7, <1>8, <1>9, LossStep

\* A device connects as a user it was told is logged in, and asks as the user
\* it was told it is connected as: both have documents.
LEMMA AskStep ==
    ASSUME Inv, NEW d \in Device, Ask(d)
    PROVE  Inv'
<1>1. Types /\ Kept
    BY DEF Inv
<1>2. PICK r : /\ Send(d, r)
               /\ \/ r \in EntryRequests(d)
                  \/ online[d] # NoUser /\ r \in CheckedRequests(online[d])
    <2>1. CASE \E r \in EntryRequests(d) : Send(d, r)
        BY <2>1
    <2>2. CASE online[d] # NoUser /\ \E r \in CheckedRequests(online[d]) : Send(d, r)
        BY <2>2
    <2>3. QED
        BY <2>1, <2>2 DEF Ask
<1>3. PICK q : q = [kind |-> r.kind, user |-> r.user, arg |-> r.arg,
                    dev |-> d, lost |-> FALSE]
    OBVIOUS
<1>4. CASE r \in EntryRequests(d)
    <2>1. CASE r \in [kind : {"register", "login"}, user : User, arg : {NoArg}]
        <3>1. GoodRequest(q)
            BY <1>3, <2>1 DEF GoodRequest, Request, Entry, Checked
        <3>2. QED
            BY <1>2, <1>3, <3>1, SendStep
    <2>2. CASE r \in [kind : {"connect"}, user : known[d], arg : {NoArg}]
        <3>1. r.user \in User /\ account[r.user] # NoDoc
            BY <1>1, <2>2 DEF Types, Kept, Stands
        <3>2. GoodRequest(q)
            BY <1>3, <2>2, <3>1 DEF GoodRequest, Request, Entry, Checked
        <3>3. QED
            BY <1>2, <1>3, <3>2, SendStep
    <2>3. QED
        BY <1>4, <2>1, <2>2 DEF EntryRequests
<1>5. CASE online[d] # NoUser /\ r \in CheckedRequests(online[d])
    <2>1. PICK u \in User : u = online[d] /\ account[u] # NoDoc
        BY <1>1, <1>5 DEF Types, GoodNodes
    <2>2. CASE r \in [kind : {"disconnect"}, user : {u}, arg : {NoArg}]
        <3>1. GoodRequest(q)
            BY <1>3, <2>1, <2>2 DEF GoodRequest, Request, Entry, Checked
        <3>2. QED
            BY <1>2, <1>3, <3>1, SendStep
    <2>3. CASE r \in [kind : {"setproperty"}, user : {u}, arg : Value]
        <3>1. GoodRequest(q)
            BY <1>3, <2>1, <2>3 DEF GoodRequest, Request, Entry, Checked
        <3>2. QED
            BY <1>2, <1>3, <3>1, SendStep
    <2>4. CASE r \in [kind : {"befriend"}, user : {u},
                      arg : {x \in User \ {u} : account[x] # NoDoc}]
        <3>1. GoodRequest(q)
            BY <1>3, <2>1, <2>4 DEF GoodRequest, Request, Entry, Checked
        <3>2. QED
            BY <1>2, <1>3, <3>1, SendStep
    <2>5. CASE r \in [kind : {"queryuser", "userversion"}, user : {u}, arg : User]
        <3>1. GoodRequest(q)
            BY <1>3, <2>1, <2>5 DEF GoodRequest, Request, Entry, Checked
        <3>2. QED
            BY <1>2, <1>3, <3>1, SendStep
    <2>6. QED
        BY <1>5, <2>1, <2>2, <2>3, <2>4, <2>5 DEF CheckedRequests
<1>6. QED
    BY <1>2, <1>4, <1>5

\* The answer a device takes.
LEMMA HeadAnswer ==
    ASSUME Types, Answers, NEW d \in Device, inbox[d] # <<>>, NEW a, a = Head(inbox[d])
    PROVE  /\ Truth(d, a) /\ After(d, a) /\ a \in AnyAnswer /\ a.user \in User
           /\ \A i \in 1..Len(Tail(inbox[d])) : InOrder(a, Tail(inbox[d])[i])
<1>1. /\ inbox[d] \in Seq(AnyAnswer) /\ Tail(inbox[d]) \in Seq(AnyAnswer)
      /\ a = inbox[d][1] /\ Len(inbox[d]) \in Nat /\ Len(inbox[d]) >= 1
      /\ Len(Tail(inbox[d])) = Len(inbox[d]) - 1
      /\ \A i \in 1..Len(Tail(inbox[d])) : Tail(inbox[d])[i] = inbox[d][i + 1]
    BY BoxTake DEF Types
<1>2. Truth(d, a) /\ After(d, a)
    BY <1>1 DEF Answers
<1>3. \A i \in 1..Len(Tail(inbox[d])) : i + 1 \in 1..Len(inbox[d]) /\ 1 < i + 1
    BY <1>1
<1>4. \A i \in 1..Len(Tail(inbox[d])) : InOrder(a, Tail(inbox[d])[i])
    BY <1>1, <1>3 DEF Answers
<1>5. a \in AnyAnswer /\ a.user \in User
    BY <1>2 DEF Truth, AnyAnswer
<1>6. QED
    BY <1>2, <1>4, <1>5

\* It is true, and those behind it do not take it back.
LEMMA ReceiveStep ==
    ASSUME Inv, NEW d \in Device, Receive(d)
    PROVE  Inv'
<1>1. Types /\ Answers /\ Kept /\ LoginSoFar
    BY DEF Inv
<1>2. inbox[d] # <<>> /\ UNCHANGED <<account, row, local, step, budget>>
    BY DEF Receive
<1>3. PICK a : a = Head(inbox[d])
    OBVIOUS
<1>4. /\ known' = IF a.kind = "login" /\ a.ok
                  THEN [known EXCEPT ![d] = @ \cup {a.user}] ELSE known
      /\ copy' = IF a.kind = "queryuser" /\ a.ok
                 THEN [copy EXCEPT ![d][a.user] = a.body] ELSE copy
      /\ heard' = IF a.kind = "userversion" /\ a.ok
                  THEN [heard EXCEPT ![d][a.user] = a.body] ELSE heard
    BY <1>3 DEF Receive
<1>5. /\ Truth(d, a) /\ After(d, a) /\ a \in AnyAnswer /\ a.user \in User
      /\ \A i \in 1..Len(Tail(inbox[d])) : InOrder(a, Tail(inbox[d])[i])
    BY <1>1, <1>2, <1>3, HeadAnswer
<1>6. CASE a.kind = "disconnect" /\ a.ok
    <2>1. Lose({d}) /\ UNCHANGED <<known, copy, heard>>
        BY <1>3, <1>4, <1>6 DEF Receive
    <2>2. QED
        BY <1>2, <2>1, LoseStep
<1>7. CASE ~(a.kind = "disconnect" /\ a.ok)
    <2>1. /\ inbox' = [inbox EXCEPT ![d] = Tail(@)]
          /\ online' = IF a.kind = "connect" /\ a.ok
                       THEN [online EXCEPT ![d] = a.user] ELSE online
          /\ UNCHANGED <<jobs, node>>
        BY <1>3, <1>7 DEF Receive
    <2>2. GoodNodes'
        <3>1. a.kind = "connect" /\ a.ok => account[a.user] # NoDoc
            BY <1>5 DEF Truth
        <3>2. QED
            BY <1>1, <1>2, <1>5, <2>1, <3>1 DEF Types, GoodNodes
    <2>3. /\ GoodJobs' /\ LoginSoFar' /\ GoodLocal' /\ LocalCovers' /\ GoodBudget'
          /\ account' \in [User -> Doc \cup {NoDoc}] /\ step' \in 1..4
          /\ row' \in [Device -> (SUBSET User) \cup {NoRow}]
        BY <1>1, <1>2, <2>1, Undisturbed
        DEF Types, GoodJobs, GoodRequest, LoginSoFar, GoodBudget
    <2>4. /\ known \in [Device -> SUBSET User]
          /\ copy \in [Device -> [User -> Copy \cup {NoCopy}]]
          /\ heard \in [Device -> [User -> 0..MaxVersion]]
          /\ inbox \in [Device -> Seq(AnyAnswer)]
        BY <1>1 DEF Types
    <2>5. /\ a.ok /\ a.kind = "queryuser" => a.body \in Copy
          /\ a.ok /\ a.kind = "userversion" => a.body \in 1..MaxVersion
        BY <1>5 DEF Truth
    <2>6. /\ known' \in [Device -> SUBSET User]
          /\ copy' \in [Device -> [User -> Copy \cup {NoCopy}]]
        BY <1>4, <1>5, <2>4, <2>5
    <2>7. heard' \in [Device -> [User -> 0..MaxVersion]]
        BY <1>4, <1>5, <2>4, <2>5, AccountsAssumption
    <2>8. /\ Tail(inbox[d]) \in Seq(AnyAnswer) /\ Len(inbox[d]) \in Nat
          /\ Len(Tail(inbox[d])) = Len(inbox[d]) - 1
          /\ \A i \in 1..Len(Tail(inbox[d])) : Tail(inbox[d])[i] = inbox[d][i + 1]
        BY <1>2, <2>4, BoxTake
    <2>9. inbox' \in [Device -> Seq(AnyAnswer)] /\ inbox'[d] = Tail(inbox[d])
        BY <2>1, <2>4, <2>8
    <2>10. \A x \in Device : x # d =>
               inbox'[x] = inbox[x] /\ copy'[x] = copy[x] /\ heard'[x] = heard[x]
                  /\ known'[x] = known[x]
        BY <1>4, <2>1, <2>4
    <2>11. Types'
        BY <2>2, <2>3, <2>6, <2>7, <2>9 DEF Types
    <2>12. \A u \in User :
              /\ u \in known'[d] =>
                    u \in known[d] \/ (u = a.user /\ a.kind = "login" /\ a.ok)
              /\ copy'[d][u] = IF u = a.user /\ a.kind = "queryuser" /\ a.ok
                               THEN a.body ELSE copy[d][u]
              /\ heard'[d][u] = IF u = a.user /\ a.kind = "userversion" /\ a.ok
                                THEN a.body ELSE heard[d][u]
        BY <1>4, <1>5, <2>4
    <2>13. Kept'
        <3>1. ASSUME NEW x \in Device, NEW u \in User
              PROVE  /\ u \in known'[x] => Stands(x, u)
                     /\ copy'[x][u] # NoCopy => Names(u, copy'[x][u])
                     /\ heard'[x][u] # 0 =>
                           account[u] # NoDoc /\ heard'[x][u] <= account[u].version
            <4>1. CASE x # d
                BY <1>1, <2>10, <4>1 DEF Kept
            <4>2. CASE x = d
                BY <1>1, <1>5, <2>12, <4>2 DEF Kept, Truth
            <4>3. QED
                BY <4>1, <4>2
        <3>2. QED
            BY <1>2, <3>1 DEF Kept, Stands, Names
    <2>14. Answers'
        <3>1. ASSUME NEW x \in Device, NEW i \in 1..Len(inbox'[x]), NEW b, b = inbox'[x][i]
              PROVE  /\ Truth(x, b) /\ After(x, b)'
                     /\ \A k \in 1..Len(inbox'[x]) : i < k => InOrder(b, inbox'[x][k])
            <4>1. CASE x # d
                BY <1>1, <2>10, <3>1, <4>1 DEF Answers, After
            <4>2. CASE x = d
                <5>1. b = inbox[d][i + 1] /\ i + 1 \in 1..Len(inbox[d]) /\ i \in Nat
                    <6>1. i \in 1..Len(Tail(inbox[d])) /\ b = Tail(inbox[d])[i]
                        BY <2>9, <3>1, <4>2
                    <6>2. i \in 1..(Len(inbox[d]) - 1) /\ b = inbox[d][i + 1]
                        BY <2>8, <6>1
                    <6>3. QED
                        BY <2>8, <6>2
                <5>2. Truth(d, b) /\ After(d, b) /\ b.user \in User
                    BY <1>1, <5>1 DEF Answers, Truth, AnyAnswer
                <5>3. ASSUME NEW k \in 1..Len(inbox'[d]), i < k
                      PROVE  InOrder(b, inbox'[d][k])
                    <6>1. inbox'[d][k] = inbox[d][k + 1] /\ k + 1 \in 1..Len(inbox[d])
                          /\ i + 1 < k + 1
                        BY <2>8, <2>9, <4>2, <5>3
                    <6>2. QED
                        BY <1>1, <5>1, <6>1 DEF Answers
                <5>4. InOrder(a, b)
                    BY <1>5, <2>9, <3>1, <4>2
                <5>5. /\ b.ok /\ b.kind = "queryuser" /\ copy'[d][b.user] # NoCopy =>
                            copy'[d][b.user].version <= b.body.version
                      /\ b.ok /\ b.kind = "userversion" => heard'[d][b.user] <= b.body
                    BY <2>12, <5>2, <5>4 DEF After, InOrder
                <5>6. After(d, b)'
                    BY <5>5 DEF After
                <5>7. QED
                    BY <4>2, <5>2, <5>3, <5>6
            <4>3. QED
                BY <4>1, <4>2
        <3>2. QED
            BY <1>2, <3>1 DEF Answers, Truth, Names, Stands, After
    <2>15. QED
        BY <2>3, <2>11, <2>13, <2>14 DEF Inv
<1>8. QED
    BY <1>6, <1>7

-----------------------------------------------------------------------------
(* The theorems.                                                           *)

LEMMA InvInit == Init => Inv
<1> SUFFICES ASSUME Init PROVE Inv
    OBVIOUS
<1>1. PICK v \in Value : account = [u \in User |->
             IF u \in Registered
             THEN [NewDoc(v) EXCEPT !.devices = {d \in Device : u \in LoggedIn[d]}]
             ELSE NoDoc]
    BY DEF Init
<1>2. ASSUME NEW u \in User, u \in Registered
      PROVE  /\ account[u] \in Doc /\ account[u] # NoDoc
             /\ account[u].devices = {d \in Device : u \in LoggedIn[d]}
    <2>1. account[u] \in Doc /\ account[u].devices = {d \in Device : u \in LoggedIn[d]}
        BY <1>1, <1>2, AccountsAssumption DEF NewDoc, Doc
    <2>2. QED
        BY <2>1, NoDocAssumption
<1>3. account \in [User -> Doc \cup {NoDoc}]
    <2>1. \A u \in User : account[u] \in Doc \cup {NoDoc}
        BY <1>1, <1>2
    <2>2. QED
        BY <1>1, <2>1
<1>4. \A d \in Device : LoggedIn[d] \in SUBSET User /\ LoggedIn[d] \subseteq Registered
    BY AccountsAssumption
<1>5. /\ row \in [Device -> (SUBSET User) \cup {NoRow}]
      /\ \A d \in Device : LoggedIn[d] # {} => row[d] = LoggedIn[d] /\ row[d] # NoRow
    BY <1>4, AccountsAssumption DEF Init
<1>6. GoodLocal /\ LocalCovers
    BY AccountsAssumption DEF Init, GoodLocal, LocalCovers, EmptyInfo
<1>7. GoodJobs /\ LoginSoFar /\ step \in 1..4
    BY EmptyBox DEF Init, GoodJobs, LoginSoFar
<1>8. GoodNodes
    BY DEF Init, GoodNodes
<1>9. GoodBudget
    BY AccountsAssumption DEF Init, GoodBudget
<1>10. /\ inbox \in [Device -> Seq(AnyAnswer)]
       /\ known \in [Device -> SUBSET User]
       /\ copy \in [Device -> [User -> Copy \cup {NoCopy}]]
       /\ heard \in [Device -> [User -> 0..MaxVersion]]
    BY <1>4, EmptyBox, AccountsAssumption DEF Init
<1>11. Kept
    <2>1. ASSUME NEW d \in Device, NEW u \in User
          PROVE  /\ u \in known[d] => Stands(d, u)
                 /\ copy[d][u] = NoCopy /\ heard[d][u] = 0
        BY <1>2, <1>4, <1>5 DEF Init, Stands
    <2>2. QED
        BY <2>1 DEF Kept
<1>12. Answers
    <2>1. \A d \in Device : Len(inbox[d]) = 0
        BY EmptyBox DEF Init
    <2>2. QED
        BY <2>1 DEF Answers
<1>13. QED
    BY <1>3, <1>5, <1>6, <1>7, <1>8, <1>9, <1>10, <1>11, <1>12 DEF Inv, Types

LEMMA InvStep == Inv /\ [Next]_vars => Inv'
<1> SUFFICES ASSUME Inv, [Next]_vars PROVE Inv'
    OBVIOUS
<1>1. ASSUME NEW d \in Device, Ask(d) \/ Reconnect(d) \/ Receive(d)
      PROVE  Inv'
    BY <1>1, AskStep, LoseStep, ReceiveStep DEF Reconnect
<1>2. CASE Throw
    BY <1>2, ThrowStep
<1>3. CASE Crash
    BY <1>3, CrashStep
<1>4. CASE Register
    BY <1>4, RegisterStep
<1>5. CASE LoginQuery \/ LoginDevice \/ LoginInfo \/ LoginRow
    BY <1>5, LoginQueryStep, LoginDeviceStep, LoginInfoStep, LoginRowStep
<1>6. CASE DeviceQuery \/ ConnectInfo \/ DisconnectInfo \/ LeaveRow
    BY <1>6, DeviceQueryStep, ConnectInfoStep, DisconnectInfoStep, LeaveRowStep
<1>7. CASE SetUserProperty \/ PushInviter \/ PushInvitee
    BY <1>7, SetUserPropertyStep, PushInviterStep, PushInviteeStep
<1>8. CASE QueryUser \/ QueryUserVersion
    BY <1>8, QueryUserStep, QueryUserVersionStep
<1>9. CASE UNCHANGED vars
    BY <1>9 DEF vars, Inv, Types, GoodLocal, GoodJobs, GoodRequest, GoodNodes, GoodBudget,
                LoginSoFar, LocalCovers, Kept, Answers, Truth, After, Names, Stands
<1>10. QED
    BY <1>1, <1>2, <1>3, <1>4, <1>5, <1>6, <1>7, <1>8, <1>9 DEF Next

LEMMA Invariant == Spec => []Inv
BY InvInit, InvStep, PTL DEF Spec

\* Documents, requests, answers and what the devices keep stay in range: the
\* handlers write only documents that are there, and tell only what they read.
THEOREM TypeCorrect == Spec => []TypeOK
<1>1. Inv => TypeOK
    <2> SUFFICES ASSUME Inv PROVE TypeOK
        OBVIOUS
    <2>1. Types /\ Answers
        BY DEF Inv
    <2>2. ASSUME NEW d \in Device, NEW a \in ToSet(inbox[d])
          PROVE  CASE a.kind = "queryuser" /\ a.ok -> a \in Answer(Copy)
                   [] a.kind = "userversion" /\ a.ok -> a \in Answer(1..MaxVersion)
                   [] OTHER -> a \in Answer({NoArg})
        <3>1. inbox[d] \in Seq(AnyAnswer)
            BY <2>1 DEF Types
        <3>2. PICK i \in 1..Len(inbox[d]) : a = inbox[d][i]
            BY <3>1, LenProperties DEF ToSet
        <3>3. Truth(d, a)
            BY <2>1, <3>2 DEF Answers
        <3>4. QED
            BY <3>3 DEF Truth, AnyAnswer, Answer
    <2>3. QED
        BY <2>1, <2>2 DEF TypeOK, Types, GoodLocal, GoodJobs, GoodNodes, GoodBudget
<1>2. QED
    BY <1>1, Invariant, PTL

\* A login a device was told of stays good, and clientconnect's
\* users().at(userid) finds its entry: every write of a connectInfo document
\* has the entries of the document it replaces.
THEOREM LoginsStand == Spec => []LoginStands
<1>1. Inv => LoginStands
    <2>1. ASSUME Inv, NEW d \in Device, NEW u \in known[d]
          PROVE  Stands(d, u)
        <3>1. u \in User
            BY <2>1 DEF Inv, Types
        <3>2. QED
            BY <2>1, <3>1 DEF Inv, Kept
    <2>2. QED
        BY <2>1 DEF LoginStands, Stands
<1>2. QED
    BY <1>1, Invariant, PTL

-----------------------------------------------------------------------------
(* Any two copies of a document.                                           *)

\* c is a copy of the document of u, with a device or on its way to one.
Heard(u, c) ==
    \/ \E d \in Device : copy[d][u] # NoCopy /\ copy[d][u] = c
    \/ \E d \in Device : \E i \in 1..Len(inbox[d]) :
          /\ inbox[d][i].ok /\ inbox[d][i].kind = "queryuser"
          /\ inbox[d][i].user = u /\ inbox[d][i].body = c

Agree(c, x) == c.version = x.version => SameState(c, x)

\* Copies with one version agree, also those of states the document has left.
Agreement ==
    \A u \in User : \A c, x \in Copy : Heard(u, c) /\ Heard(u, x) => Agree(c, x)

\* c is a copy of the document of u as it is.
Now(u, c) ==
    /\ account[u] # NoDoc /\ c.version = account[u].version
    /\ c.value = account[u].value
    /\ c.own => c.friends = account[u].friends

\* A step puts no copy in the world but one of the document as it is.
NothingElseHeard ==
    \A u \in User : \A c \in Copy : Heard(u, c)' => Heard(u, c) \/ Now(u, c)

LEMMA HeardNames ==
    ASSUME Inv, NEW u \in User, NEW c \in Copy, Heard(u, c)
    PROVE  Names(u, c)
<1>1. CASE \E d \in Device : copy[d][u] # NoCopy /\ copy[d][u] = c
    BY <1>1 DEF Inv, Kept
<1>2. CASE \E d \in Device : \E i \in 1..Len(inbox[d]) :
               /\ inbox[d][i].ok /\ inbox[d][i].kind = "queryuser"
               /\ inbox[d][i].user = u /\ inbox[d][i].body = c
    <2>1. PICK d \in Device : \E i \in 1..Len(inbox[d]) :
              /\ inbox[d][i].ok /\ inbox[d][i].kind = "queryuser"
              /\ inbox[d][i].user = u /\ inbox[d][i].body = c
        BY <1>2
    <2>2. PICK i \in 1..Len(inbox[d]) :
              /\ inbox[d][i].ok /\ inbox[d][i].kind = "queryuser"
              /\ inbox[d][i].user = u /\ inbox[d][i].body = c
        BY <2>1
    <2>3. Truth(d, inbox[d][i])
        BY DEF Inv, Answers
    <2>4. QED
        BY <2>2, <2>3 DEF Truth
<1>3. QED
    BY <1>1, <1>2 DEF Heard

LEMMA AgreementKept ==
    ASSUME Inv, Agreement, NothingElseHeard
    PROVE  Agreement'
<1>1. ASSUME NEW u \in User, NEW c \in Copy, NEW x \in Copy, Heard(u, c)', Heard(u, x)'
      PROVE  Agree(c, x)
    <2>1. (Heard(u, c) \/ Now(u, c)) /\ (Heard(u, x) \/ Now(u, x))
        BY <1>1 DEF NothingElseHeard
    <2>2. CASE Heard(u, c) /\ Heard(u, x)
        BY <2>2 DEF Agreement
    <2>3. CASE Now(u, c) \/ Now(u, x)
        <3>1. (Now(u, c) \/ Names(u, c)) /\ (Now(u, x) \/ Names(u, x))
            BY <2>1, HeardNames
        <3>2. QED
            BY <2>3, <3>1 DEF Now, Names, Agree, SameState
    <2>4. QED
        BY <2>1, <2>2, <2>3
<1>2. QED
    BY <1>1 DEF Agreement, Agree, SameState

\* The answers and the copies stay, go or are read.
LEMMA NothingHeard ==
    ASSUME Types, UNCHANGED copy,
           \A d \in Device : inbox'[d] = inbox[d] \/ inbox'[d] = <<>>
    PROVE  NothingElseHeard
<1>1. ASSUME NEW u \in User, NEW c \in Copy, NEW d \in Device, NEW i \in 1..Len(inbox'[d]),
             inbox'[d][i].ok, inbox'[d][i].kind = "queryuser",
             inbox'[d][i].user = u, inbox'[d][i].body = c
      PROVE  Heard(u, c)
    <2>1. inbox'[d] # <<>>
        BY EmptyBox
    <2>2. inbox'[d] = inbox[d]
        BY <2>1
    <2>3. QED
        BY <1>1, <2>2 DEF Heard
<1>2. QED
    BY <1>1 DEF NothingElseHeard, Heard

\* A handler answers something else, or with the document as it is.
LEMMA FinishHeard ==
    ASSUME Types, jobs # <<>>, NEW ok, NEW w, NEW body, Finish(ok, w, body), UNCHANGED copy,
           ok /\ Head(jobs).kind = "queryuser" => w \in User /\ Now(w, body)
    PROVE  NothingElseHeard
<1>1. CASE Head(jobs).lost
    <2>1. inbox' = inbox
        BY <1>1 DEF Finish
    <2>2. QED
        BY <2>1, NothingHeard
<1>2. CASE ~Head(jobs).lost
    <2>1. PICK a : a = [kind |-> Head(jobs).kind, ok |-> ok, user |-> w, body |-> body]
        OBVIOUS
    <2>2. PICK x \in Device : x = Head(jobs).dev
        BY HeadJob
    <2>3. inbox' = [inbox EXCEPT ![x] = Append(@, a)]
        BY <1>2, <2>1, <2>2 DEF Finish, Put
    <2>4. \A d \in Device : inbox[d] \in Seq(AnyAnswer)
        BY DEF Types
    <2>5. ASSUME NEW u \in User, NEW c \in Copy, NEW d \in Device,
                 NEW i \in 1..Len(inbox'[d]),
                 inbox'[d][i].ok, inbox'[d][i].kind = "queryuser",
                 inbox'[d][i].user = u, inbox'[d][i].body = c
          PROVE  Heard(u, c) \/ Now(u, c)
        <3>1. CASE d # x
            <4>1. inbox'[d] = inbox[d]
                BY <2>3, <3>1 DEF Types
            <4>2. QED
                BY <2>5, <4>1 DEF Heard
        <3>2. CASE d = x
            <4>1. PICK q \in Seq(AnyAnswer) : q = inbox[d]
                BY <2>4
            <4>2. inbox'[d] = Append(q, a)
                BY <2>3, <3>2, <4>1 DEF Types
            <4>3. Len(q) \in Nat /\ i \in 1..(Len(q) + 1)
                BY <4>2, LenProperties
            <4>4. CASE i = Len(q) + 1
                <5>1. inbox'[d][i] = a
                    BY <4>2, <4>4
                <5>2. QED
                    BY <2>1, <2>5, <5>1
            <4>5. CASE i \in 1..Len(q)
                <5>1. inbox'[d][i] = inbox[d][i]
                    BY <4>1, <4>2, <4>5
                <5>2. QED
                    BY <2>5, <4>1, <4>5, <5>1 DEF Heard
            <4>6. QED
                BY <4>3, <4>4, <4>5
        <3>3. QED
            BY <3>1, <3>2
    <2>6. QED
        BY <2>5 DEF NothingElseHeard, Heard
<1>3. QED
    BY <1>1, <1>2

\* The device takes the first answer of its box.
LEMMA ReceiveHeard ==
    ASSUME Inv, NEW d \in Device, Receive(d)
    PROVE  NothingElseHeard
<1>1. Types /\ Answers
    BY DEF Inv
<1>2. inbox[d] # <<>> /\ inbox[d] \in Seq(AnyAnswer)
    BY <1>1 DEF Receive, Types
<1>3. PICK a : a = Head(inbox[d])
    OBVIOUS
<1>4. a \in AnyAnswer /\ a.user \in User
    BY <1>1, <1>2, <1>3, HeadAnswer
<1>5. 1 \in 1..Len(inbox[d]) /\ a = inbox[d][1]
    BY <1>2, <1>3, EmptyBox, LenProperties
<1>6. copy' = IF a.kind = "queryuser" /\ a.ok
              THEN [copy EXCEPT ![d][a.user] = a.body] ELSE copy
    BY <1>3 DEF Receive
<1>7. ASSUME NEW u \in User, NEW c \in Copy, NEW x \in Device,
             copy'[x][u] # NoCopy, copy'[x][u] = c
      PROVE  Heard(u, c)
    <2>1. CASE copy'[x][u] = copy[x][u]
        BY <1>7, <2>1 DEF Heard
    <2>2. CASE a.kind = "queryuser" /\ a.ok /\ u = a.user /\ c = a.body
        BY <1>5, <2>2 DEF Heard
    <2>3. QED
        BY <1>1, <1>4, <1>6, <1>7, <2>1, <2>2 DEF Types
<1>8. ASSUME NEW x \in Device, NEW i \in 1..Len(inbox'[x])
      PROVE  \E k \in 1..Len(inbox[x]) : inbox'[x][i] = inbox[x][k]
    <2>1. inbox'[x] # <<>>
        BY EmptyBox
    <2>2. CASE inbox'[x] = inbox[x]
        BY <2>2
    <2>3. CASE x = d /\ inbox'[d] = Tail(inbox[d])
        <3>1. /\ Len(inbox[d]) \in Nat
              /\ Len(Tail(inbox[d])) = Len(inbox[d]) - 1
              /\ \A k \in 1..Len(Tail(inbox[d])) : Tail(inbox[d])[k] = inbox[d][k + 1]
            BY <1>2, BoxTake
        <3>2. i \in 1..(Len(inbox[d]) - 1) /\ inbox'[d][i] = inbox[d][i + 1]
            BY <2>3, <3>1
        <3>3. i + 1 \in 1..Len(inbox[d])
            BY <3>1, <3>2
        <3>4. QED
            BY <2>3, <3>2, <3>3
    <2>4. QED
        BY <1>1, <2>1, <2>2, <2>3 DEF Receive, Lose, Types
<1>9. QED
    BY <1>7, <1>8 DEF NothingElseHeard, Heard

\* Only queryuser puts a copy in a box.
LEMMA OtherHeard ==
    ASSUME Inv, Next, ~QueryUser, \A d \in Device : ~Receive(d)
    PROVE  NothingElseHeard
<1>1. Types /\ UNCHANGED copy
    BY DEF Inv, Next, Ask, Send, Reconnect, Throw, Crash, Register, LoginQuery, LoginDevice,
           LoginInfo, LoginRow, DeviceQuery, ConnectInfo, DisconnectInfo, LeaveRow,
           SetUserProperty, PushInviter, PushInvitee, QueryUserVersion, clientVars
<1>2. CASE jobs # <<>> /\ Fail
    BY <1>1, <1>2, FinishHeard DEF Fail
<1>3. CASE jobs # <<>> /\ Head(jobs).kind # "queryuser" /\ Succeed
    BY <1>1, <1>3, FinishHeard DEF Succeed
<1>4. CASE QueryUserVersion
    <2>1. jobs # <<>> /\ Head(jobs).kind # "queryuser"
        BY <1>4 DEF QueryUserVersion, At
    <2>2. PICK u, body : Fail \/ Finish(TRUE, u, body)
        BY <1>4 DEF QueryUserVersion
    <2>3. QED
        BY <1>1, <1>2, <2>1, <2>2, FinishHeard
<1>5. CASE \A d \in Device : inbox'[d] = inbox[d] \/ inbox'[d] = <<>>
    BY <1>1, <1>5, NothingHeard
<1>6. \/ jobs # <<>> /\ Fail
      \/ jobs # <<>> /\ Head(jobs).kind # "queryuser" /\ Succeed
      \/ QueryUserVersion
      \/ \A d \in Device : inbox'[d] = inbox[d] \/ inbox'[d] = <<>>
    <2>1. ASSUME NEW d \in Device, Ask(d) \/ Reconnect(d)
          PROVE  \A x \in Device : inbox'[x] = inbox[x] \/ inbox'[x] = <<>>
        BY <2>1 DEF Ask, Send, Reconnect, Lose
    <2>2. CASE Throw \/ Crash
        BY <2>2 DEF Throw, Crash
    <2>3. CASE \/ Register \/ LoginQuery \/ LoginDevice \/ LoginInfo \/ LoginRow
        BY <2>3 DEF Register, LoginQuery, LoginDevice, LoginInfo, LoginRow, At, Continue
    <2>4. CASE DeviceQuery \/ ConnectInfo \/ DisconnectInfo \/ LeaveRow
        BY <2>4 DEF DeviceQuery, ConnectInfo, DisconnectInfo, LeaveRow, At, Continue
    <2>5. CASE SetUserProperty \/ PushInviter \/ PushInvitee
        BY <2>5 DEF SetUserProperty, PushInviter, PushInvitee, At, Continue
    <2>6. QED
        BY <2>1, <2>2, <2>3, <2>4, <2>5 DEF Next
<1>7. QED
    BY <1>2, <1>3, <1>4, <1>5, <1>6

LEMMA QueryUserHeard ==
    ASSUME Inv, QueryUser
    PROVE  NothingElseHeard
<1>1. /\ jobs # <<>> /\ Head(jobs).kind = "queryuser" /\ Types
      /\ UNCHANGED copy
    BY DEF QueryUser, At, Inv, clientVars
<1>2. PICK u \in User : u = Head(jobs).arg
    BY <1>1, HeadJob DEF GoodRequest
<1>3. CASE account[u] = NoDoc
    <2>1. Fail
        BY <1>2, <1>3 DEF QueryUser
    <2>2. QED
        BY <1>1, <2>1, FinishHeard DEF Fail
<1>4. CASE account[u] # NoDoc
    <2>1. PICK own : own = (u = CurrentUser)
        OBVIOUS
    <2>2. PICK body : body = Told(account[u], own)
        OBVIOUS
    <2>3. Finish(TRUE, u, body)
        BY <1>2, <1>4, <2>1, <2>2 DEF QueryUser
    <2>4. Now(u, body)
        BY <1>4, <2>2 DEF Now, Told
    <2>5. QED
        BY <1>1, <2>3, <2>4, FinishHeard
<1>5. QED
    BY <1>3, <1>4

LEMMA AgreementStep ==
    ASSUME Inv, Agreement, [Next]_vars
    PROVE  Agreement'
<1>1. CASE QueryUser
    BY <1>1, QueryUserHeard, AgreementKept
<1>2. CASE \E d \in Device : Receive(d)
    BY <1>2, ReceiveHeard, AgreementKept
<1>3. CASE Next /\ ~QueryUser /\ \A d \in Device : ~Receive(d)
    BY <1>3, OtherHeard, AgreementKept
<1>4. CASE UNCHANGED vars
    BY <1>4 DEF vars, Agreement, Heard
<1>5. QED
    BY <1>1, <1>2, <1>3, <1>4

LEMMA AgreementInit ==
    ASSUME Init
    PROVE  Agreement
<1>1. ASSUME NEW u \in User, NEW c \in Copy
      PROVE  ~Heard(u, c)
    <2>1. \A d \in Device : Len(inbox[d]) = 0 /\ copy[d][u] = NoCopy
        BY EmptyBox DEF Init
    <2>2. QED
        BY <2>1 DEF Heard
<1>2. QED
    BY <1>1 DEF Agreement

\* A version names one state of the properties and the friend list of a user
\* document, between a copy and the document and between any two copies: every
\* write of these moves the version with it.  Nothing is said of the list of
\* devices, which changes without it.
THEOREM VersionsName == Spec => []VersionNamesState
<1>1. ASSUME Inv, Agreement
      PROVE  VersionNamesState
    <2>1. ASSUME NEW d \in Device, NEW u \in User, copy[d][u] # NoCopy,
                 NEW c, c = copy[d][u]
          PROVE  /\ c.version = account[u].version => SameState(c, Told(account[u], c.own))
                 /\ \A e \in Device :
                       copy[e][u] # NoCopy /\ copy[e][u].version = c.version
                           => SameState(c, copy[e][u])
        <3>1. c \in Copy /\ Names(u, c) /\ Heard(u, c)
            BY <1>1, <2>1 DEF Inv, Types, Kept, Heard
        <3>2. ASSUME NEW e \in Device, copy[e][u] # NoCopy
              PROVE  copy[e][u] \in Copy /\ Heard(u, copy[e][u])
            BY <1>1, <3>2 DEF Inv, Types, Heard
        <3>3. c.version = account[u].version => SameState(c, Told(account[u], c.own))
            BY <3>1 DEF Names, SameState, Told
        <3>4. ASSUME NEW e \in Device, copy[e][u] # NoCopy, copy[e][u].version = c.version
              PROVE  SameState(c, copy[e][u])
            BY <1>1, <3>1, <3>2, <3>4 DEF Agreement, Agree
        <3>5. QED
            BY <3>3, <3>4
    <2>2. QED
        BY <2>1 DEF VersionNamesState
<1>2. Spec => []Agreement
    BY AgreementInit, AgreementStep, Invariant, PTL DEF Spec
<1>3. QED
    BY <1>1, <1>2, Invariant, PTL

\* What a device hears never goes back: answers are put in the order their
\* handlers read the documents, and versions only grow.
THEOREM NothingGoesBack == Spec => NeverBack
<1>1. Inv /\ [Next]_vars =>
          [\A d \in Device, u \in User :
              /\ heard'[d][u] >= heard[d][u]
              /\ copy[d][u] # NoCopy => copy'[d][u].version >= copy[d][u].version]_vars
    <2> SUFFICES ASSUME Inv, Next, NEW d \in Device, NEW u \in User
                 PROVE  /\ heard'[d][u] >= heard[d][u]
                        /\ copy[d][u] # NoCopy =>
                              copy'[d][u].version >= copy[d][u].version
        OBVIOUS
    <2>1. Types /\ Answers
        BY DEF Inv
    <2>2. /\ heard \in [Device -> [User -> 0..MaxVersion]]
          /\ copy \in [Device -> [User -> Copy \cup {NoCopy}]]
        BY <2>1 DEF Types
    <2>3. heard[d][u] \in Nat /\ (copy[d][u] # NoCopy => copy[d][u].version \in Nat)
        BY <2>2, AccountsAssumption DEF Copy
    <2>4. CASE UNCHANGED <<copy, heard>>
        BY <2>3, <2>4
    <2>5. ASSUME NEW x \in Device, Receive(x)
          PROVE  /\ heard'[d][u] >= heard[d][u]
                 /\ copy[d][u] # NoCopy => copy'[d][u].version >= copy[d][u].version
        <3>1. inbox[x] # <<>>
            BY <2>5 DEF Receive
        <3>2. PICK a : a = Head(inbox[x])
            OBVIOUS
        <3>3. /\ copy' = IF a.kind = "queryuser" /\ a.ok
                         THEN [copy EXCEPT ![x][a.user] = a.body] ELSE copy
              /\ heard' = IF a.kind = "userversion" /\ a.ok
                          THEN [heard EXCEPT ![x][a.user] = a.body] ELSE heard
            BY <2>5, <3>2 DEF Receive
        <3>4. After(x, a) /\ Truth(x, a) /\ a.user \in User
            BY <2>1, <3>1, <3>2, HeadAnswer
        <3>5. /\ a.ok /\ a.kind = "userversion" =>
                    heard[x][a.user] <= a.body /\ a.body \in Nat
              /\ a.ok /\ a.kind = "queryuser" /\ copy[x][a.user] # NoCopy =>
                    copy[x][a.user].version <= a.body.version /\ a.body.version \in Nat
            BY <3>4, AccountsAssumption DEF After, Truth, Copy
        <3>6. heard'[d][u] >= heard[d][u]
            <4>1. CASE heard'[d][u] = heard[d][u]
                BY <2>3, <4>1
            <4>2. CASE d = x /\ u = a.user /\ a.ok /\ a.kind = "userversion"
                       /\ heard'[d][u] = a.body
                BY <2>3, <3>5, <4>2
            <4>3. QED
                BY <2>2, <3>3, <3>4, <4>1, <4>2
        <3>7. copy[d][u] # NoCopy => copy'[d][u].version >= copy[d][u].version
            <4>1. CASE copy'[d][u] = copy[d][u]
                BY <2>3, <4>1
            <4>2. CASE d = x /\ u = a.user /\ a.ok /\ a.kind = "queryuser"
                       /\ copy'[d][u] = a.body
                BY <2>3, <3>5, <4>2
            <4>3. QED
                BY <2>2, <3>3, <3>4, <4>1, <4>2
        <3>8. QED
            BY <3>6, <3>7
    <2>6. (\E x \in Device : Receive(x)) \/ UNCHANGED <<copy, heard>>
        BY DEF Next, Ask, Send, Reconnect, Throw, Crash, Register, LoginQuery, LoginDevice,
               LoginInfo, LoginRow, DeviceQuery, ConnectInfo, DisconnectInfo, LeaveRow,
               SetUserProperty, PushInviter, PushInvitee, QueryUser, QueryUserVersion,
               clientVars
    <2>7. QED
        BY <2>4, <2>5, <2>6
<1>2. QED
    BY <1>1, Invariant, PTL DEF Spec, NeverBack
=============================================================================
