--------------------------- MODULE ImServer_proofs ---------------------------
(***************************************************************************)
(* Proofs about the connection layer, for every number of connections,     *)
(* users, messages, jobs, faults and restarts.                             *)
(***************************************************************************)
EXTENDS ImServer, Integers, SequenceTheorems, TLAPS

-----------------------------------------------------------------------------
(* The ping list.                                                          *)

\* No node is in the list twice, and older nodes come first.
Sorted(s, a) ==
    \A i, k \in 1..Len(s) : i < k => s[i] # s[k] /\ a[s[i]] >= a[s[k]]

LEMMA InList ==
    ASSUME NEW S, NEW s \in Seq(S), NEW c
    PROVE  c \in ToSet(s) <=> \E i \in 1..Len(s) : s[i] = c
BY LenProperties DEF ToSet

\* Erasing takes one place out and leaves the order of the others.
LEMMA EraseOne ==
    ASSUME NEW S, NEW s \in Seq(S), NEW c, c \in ToSet(s)
    PROVE  \E p \in 1..Len(s) :
               /\ s[p] = c /\ Len(s) \in Nat /\ Len(s) > 0
               /\ Erase(s, c) \in Seq(S) /\ Len(Erase(s, c)) = Len(s) - 1
               /\ \A i \in 1..(Len(s) - 1) :
                     Erase(s, c)[i] = s[IF i < p THEN i ELSE i + 1]
<1>1. PICK n : n = Len(s) /\ n \in Nat /\ DOMAIN s = 1..n
    BY LenProperties
<1>2. PICK p : p = CHOOSE i \in DOMAIN s : s[i] = c
    OBVIOUS
<1>3. p \in 1..n /\ s[p] = c
    BY <1>1, <1>2 DEF ToSet
<1>4. Erase(s, c) = SubSeq(s, 1, p - 1) \o SubSeq(s, p + 1, n)
    BY <1>1, <1>2 DEF Erase, RemoveAt
<1>5. PICK l, r : l = SubSeq(s, 1, p - 1) /\ r = SubSeq(s, p + 1, n)
    OBVIOUS
<1>6. \A i \in 1..n : s[i] \in S
    BY <1>1, ElementOfSeq
<1>7. /\ l \in Seq(S) /\ Len(l) = p - 1
      /\ \A i \in 1..(p - 1) : l[i] = s[i]
    <2>1. 1 \in Int /\ p - 1 \in Int /\ \A i \in 1..(p - 1) : s[i] \in S
        BY <1>1, <1>3, <1>6
    <2>2. /\ SubSeq(s, 1, p - 1) \in Seq(S)
          /\ Len(SubSeq(s, 1, p - 1)) = IF 1 <= p - 1 THEN p - 1 - 1 + 1 ELSE 0
          /\ \A i \in 1..(p - 1 - 1 + 1) : SubSeq(s, 1, p - 1)[i] = s[1 + i - 1]
        BY <2>1, SubSeqProperties
    <2>3. QED
        BY <1>1, <1>3, <1>5, <2>2
<1>8. /\ r \in Seq(S) /\ Len(r) = n - p
      /\ \A i \in 1..(n - p) : r[i] = s[p + i]
    <2>1. p + 1 \in Int /\ n \in Int /\ \A i \in (p + 1)..n : s[i] \in S
        BY <1>1, <1>3, <1>6
    <2>2. /\ SubSeq(s, p + 1, n) \in Seq(S)
          /\ Len(SubSeq(s, p + 1, n)) = IF p + 1 <= n THEN n - (p + 1) + 1 ELSE 0
          /\ \A i \in 1..(n - (p + 1) + 1) : SubSeq(s, p + 1, n)[i] = s[p + 1 + i - 1]
        BY <2>1, SubSeqProperties
    <2>3. n - (p + 1) + 1 = n - p /\ \A i \in Int : p + 1 + i - 1 = p + i
        BY <1>1, <1>3
    <2>4. QED
        BY <1>1, <1>3, <1>5, <2>2, <2>3
<1>9. /\ l \o r \in Seq(S) /\ Len(l \o r) = Len(l) + Len(r)
      /\ \A i \in 1..(Len(l) + Len(r)) :
            (l \o r)[i] = IF i <= Len(l) THEN l[i] ELSE r[i - Len(l)]
    BY <1>7, <1>8, ConcatProperties
<1>10. Len(l) + Len(r) = n - 1 /\ n > 0
    BY <1>1, <1>3, <1>7, <1>8
<1>11. ASSUME NEW i \in 1..(n - 1)
       PROVE  (l \o r)[i] = s[IF i < p THEN i ELSE i + 1]
    <2>1. CASE i < p
        BY <1>1, <1>3, <1>7, <1>9, <1>10, <2>1
    <2>2. CASE ~(i < p)
        <3>1. i - (p - 1) \in 1..(n - p) /\ p + (i - (p - 1)) = i + 1
            BY <1>1, <1>3, <2>2
        <3>2. (l \o r)[i] = r[i - (p - 1)]
            BY <1>1, <1>3, <1>7, <1>9, <1>10, <2>2
        <3>3. QED
            BY <1>8, <2>2, <3>1, <3>2
    <2>3. QED
        BY <2>1, <2>2
<1>12. QED
    BY <1>1, <1>3, <1>4, <1>5, <1>9, <1>10, <1>11

LEMMA EraseSorted ==
    ASSUME NEW S, NEW s \in Seq(S), NEW c, NEW a, Sorted(s, a)
    PROVE  /\ Erase(s, c) \in Seq(S) /\ Sorted(Erase(s, c), a)
           /\ c \notin ToSet(Erase(s, c))
           /\ ToSet(Erase(s, c)) \subseteq ToSet(s)
<1>1. CASE c \notin ToSet(s)
    BY <1>1 DEF Erase
<1>2. CASE c \in ToSet(s)
    <2>1. PICK p \in 1..Len(s) :
              /\ s[p] = c /\ Len(s) \in Nat /\ Len(s) > 0
              /\ Erase(s, c) \in Seq(S) /\ Len(Erase(s, c)) = Len(s) - 1
              /\ \A i \in 1..(Len(s) - 1) :
                    Erase(s, c)[i] = s[IF i < p THEN i ELSE i + 1]
        BY <1>2, EraseOne
    <2>2. PICK z : z = Erase(s, c)
        OBVIOUS
    <2>3. PICK n : n = Len(s)
        OBVIOUS
    <2>4. /\ n \in Nat /\ n > 0 /\ p \in 1..n /\ s[p] = c /\ z \in Seq(S) /\ Len(z) = n - 1
          /\ \A i \in 1..(n - 1) : z[i] = s[IF i < p THEN i ELSE i + 1]
        BY <2>1, <2>2, <2>3
    <2>5. ASSUME NEW i \in 1..(n - 1)
          PROVE  \E k \in 1..n : z[i] = s[k] /\ k # p /\ k = (IF i < p THEN i ELSE i + 1)
        BY <2>4
    <2>6. Sorted(z, a)
        <3> SUFFICES ASSUME NEW i \in 1..(n - 1), NEW k \in 1..(n - 1), i < k
                     PROVE  z[i] # z[k] /\ a[z[i]] >= a[z[k]]
            BY <2>4 DEF Sorted
        <3>1. PICK x \in 1..n : z[i] = s[x] /\ x = (IF i < p THEN i ELSE i + 1)
            BY <2>5
        <3>2. PICK y \in 1..n : z[k] = s[y] /\ y = (IF k < p THEN k ELSE k + 1)
            BY <2>5
        <3>3. x < y
            BY <2>4, <3>1, <3>2
        <3>4. QED
            BY <2>3, <3>1, <3>2, <3>3 DEF Sorted
    <2>7. ASSUME NEW i \in 1..(n - 1) PROVE z[i] # c /\ z[i] \in ToSet(s)
        <3>1. PICK k \in 1..n : z[i] = s[k] /\ k # p
            BY <2>5
        <3>2. s[k] # s[p]
            <4>1. k < p \/ p < k
                BY <2>4, <3>1
            <4>2. QED
                BY <2>3, <2>4, <4>1 DEF Sorted
        <3>3. QED
            BY <2>3, <2>4, <3>1, <3>2, InList
    <2>8. c \notin ToSet(z) /\ ToSet(z) \subseteq ToSet(s)
        BY <2>4, <2>7, InList
    <2>9. QED
        BY <2>2, <2>4, <2>6, <2>8
<1>3. QED
    BY <1>1, <1>2

LEMMA AppendIn ==
    ASSUME NEW S, NEW s \in Seq(S), NEW c \in S
    PROVE  Append(s, c) \in Seq(S) /\ ToSet(Append(s, c)) = ToSet(s) \cup {c}
<1>1. PICK n, z : n = Len(s) /\ z = Append(s, c)
    OBVIOUS
<1>2. /\ n \in Nat /\ z \in Seq(S) /\ Len(z) = n + 1 /\ z[n + 1] = c
      /\ \A i \in 1..n : z[i] = s[i]
    BY <1>1
<1>3. n + 1 \in 1..(n + 1) /\ \A i \in 1..(n + 1) : i \in 1..n \/ i = n + 1
    BY <1>2
<1>4. ASSUME NEW x PROVE x \in ToSet(z) <=> x \in ToSet(s) \/ x = c
    <2>1. x \in ToSet(z) <=> \E i \in 1..(n + 1) : z[i] = x
        <3>1. x \in ToSet(z) <=> \E i \in 1..Len(z) : z[i] = x
            BY <1>2, InList
        <3>2. QED
            BY <1>2, <3>1
    <2>2. x \in ToSet(s) <=> \E i \in 1..n : s[i] = x
        <3>1. x \in ToSet(s) <=> \E i \in 1..Len(s) : s[i] = x
            BY InList
        <3>2. QED
            BY <1>1, <3>1
    <2>3. \A i \in 1..n : i \in 1..(n + 1)
        BY <1>2
    <2>4. QED
        BY <1>2, <1>3, <2>1, <2>2, <2>3
<1>5. ToSet(z) = ToSet(s) \cup {c}
    BY <1>4
<1>6. QED
    BY <1>1, <1>2, <1>5

\* A node that is not in the list joins it at the end with age 0.
LEMMA AppendSorted ==
    ASSUME NEW S, NEW s \in Seq(S), NEW c \in S, c \notin ToSet(s), NEW a, NEW b,
           Sorted(s, a), \A x \in S : x # c => b[x] = a[x],
           b[c] = 0, \A x \in S : b[x] \in Nat
    PROVE  Sorted(Append(s, c), b)
<1>1. PICK n, z : n = Len(s) /\ z = Append(s, c)
    OBVIOUS
<1>2. /\ n \in Nat /\ z \in Seq(S) /\ Len(z) = n + 1 /\ z[n + 1] = c
      /\ \A i \in 1..n : z[i] = s[i] /\ s[i] \in S /\ s[i] # c
    BY <1>1, InList, ElementOfSeq
<1>3. \A i \in 1..(n + 1) : i \in 1..n \/ i = n + 1
    BY <1>2
<1>4. Sorted(z, b)
    <2> SUFFICES ASSUME NEW i \in 1..(n + 1), NEW k \in 1..(n + 1), i < k
                 PROVE  z[i] # z[k] /\ b[z[i]] >= b[z[k]]
        BY <1>2 DEF Sorted
    <2>1. i \in 1..n
        BY <1>2
    <2>2. CASE k = n + 1
        BY <1>2, <2>1, <2>2
    <2>3. CASE k \in 1..n
        BY <1>1, <1>2, <2>1, <2>3 DEF Sorted
    <2>4. QED
        BY <1>3, <2>2, <2>3
<1>5. QED
    BY <1>1, <1>4

\* What is left when the first n nodes go.
LEMMA DropSorted ==
    ASSUME NEW S, NEW s \in Seq(S), NEW a, Sorted(s, a), NEW n \in 1..Len(s)
    PROVE  /\ SubSeq(s, n + 1, Len(s)) \in Seq(S)
           /\ Sorted(SubSeq(s, n + 1, Len(s)), a)
           /\ ToSet(SubSeq(s, n + 1, Len(s))) \subseteq ToSet(s)
<1>1. PICK m, z : m = Len(s) /\ z = SubSeq(s, n + 1, m)
    OBVIOUS
<1>2. m \in Nat /\ n \in 1..m /\ \A i \in (n + 1)..m : s[i] \in S
    BY <1>1, LenProperties, ElementOfSeq
<1>3. /\ z \in Seq(S)
      /\ Len(z) = IF n + 1 <= m THEN m - (n + 1) + 1 ELSE 0
      /\ \A i \in 1..(m - (n + 1) + 1) : z[i] = s[n + 1 + i - 1]
    BY <1>1, <1>2, SubSeqProperties
<1>4. Len(z) = m - n /\ \A i \in 1..(m - n) : z[i] = s[n + i] /\ n + i \in 1..m
    <2>1. Len(z) = m - n /\ m - (n + 1) + 1 = m - n
        BY <1>2, <1>3
    <2>2. ASSUME NEW i \in 1..(m - n) PROVE z[i] = s[n + i] /\ n + i \in 1..m
        <3>1. n + 1 + i - 1 = n + i /\ n + i \in 1..m
            BY <1>2
        <3>2. z[i] = s[n + 1 + i - 1]
            BY <1>3, <2>1
        <3>3. QED
            BY <3>1, <3>2
    <2>3. QED
        BY <2>1, <2>2
<1>5. Sorted(z, a)
    <2> SUFFICES ASSUME NEW i \in 1..(m - n), NEW k \in 1..(m - n), i < k
                 PROVE  z[i] # z[k] /\ a[z[i]] >= a[z[k]]
        BY <1>4 DEF Sorted
    <2>1. n + i < n + k
        BY <1>2
    <2>2. QED
        BY <1>1, <1>4, <2>1 DEF Sorted
<1>6. ASSUME NEW x, x \in ToSet(z) PROVE x \in ToSet(s)
    <2>1. PICK i \in 1..Len(z) : z[i] = x
        BY <1>3, <1>6, InList
    <2>2. n + i \in 1..m /\ s[n + i] = x
        BY <1>4, <2>1
    <2>3. QED
        BY <1>1, <2>2, InList
<1>7. QED
    BY <1>1, <1>3, <1>5, <1>6

-----------------------------------------------------------------------------
(* Types.                                                                  *)

Node == [accepted : BOOLEAN, reading : BOOLEAN, writing : BOOLEAN,
         isConnect : BOOLEAN, sessionid : 0..MaxSessionID,
         user : User \cup {NoUser}, uuid : Device \cup {NoDevice}]
Client == [st : {"none", "open", "connecting", "ready", "closed", "gone"},
           sid : Nat, user : User \cup {NoUser}, uuid : Device \cup {NoDevice},
           sent : Nat, wait : Int]

\* MaxSessionID itself is handed to no job and stored in no document, so the
\* id after a stored one is still one a node can hold.
Stamp == {0} \cup MinSessionID..(MaxSessionID - 1)
Job == [conn : Conn, msg : Request, sid : 0..(MaxSessionID - 1)]
Doc == [uuid : Device \cup {NoDevice}, user : User \cup {NoUser},
        isLogin : BOOLEAN, isConnected : BOOLEAN,
        users : [User -> Stamp]]

Typed ==
    /\ io \in [Conn -> Node]
    /\ age \in [Conn -> 0..(PingTimeout + 1)]
    /\ pinglist \in Seq(Conn)
    /\ uuidmap \in [Device -> Conn \cup {NoConn}]
    /\ wq \in [Conn -> Seq(Response)] /\ back \in [Conn -> Seq(Response)]
    /\ sock \in [Conn -> Seq(Request)]
    /\ jobs \in Seq(Job)
    /\ nodes \subseteq Conn /\ async \in BOOLEAN
    /\ devices \in [User -> SUBSET Device]
    /\ rows \in [Device -> Doc \cup {NoRow}] /\ local \in Doc
    /\ cl \in [Conn -> Client]
    /\ budget \in [faults : Nat, crashes : Nat]

\* A client that can send has a user and a device.
Named ==
    \A c \in Conn : cl[c].st \in {"open", "connecting", "ready"} =>
        cl[c].user \in User /\ cl[c].uuid \in Device

\* Nothing refers to a socket that is not open yet, and nothing is on its way
\* to a client that is not there.
Idle ==
    \A c \in Conn :
        /\ cl[c].st = "none" =>
              /\ c \notin ToSet(pinglist) /\ c \notin nodes /\ sock[c] = <<>>
              /\ \A d \in Device : uuidmap[d] # c
              /\ \A i \in 1..Len(jobs) : jobs[i].conn # c
        /\ cl[c].st \in {"none", "closed", "gone"} => back[c] = <<>>

\* A message comes from the client it names, a node stands for no device but
\* its client's, and so does its place in the uuid map.
Linked ==
    /\ \A c \in Conn : io[c].uuid \in {NoDevice, cl[c].uuid}
    /\ \A c \in Conn : \A i \in 1..Len(sock[c]) : sock[c][i].uuid = cl[c].uuid
    /\ \A i \in 1..Len(jobs) : jobs[i].msg.uuid = cl[jobs[i].conn].uuid
    /\ MappedOwnDevice

Inv == Typed /\ Named /\ Idle /\ Linked /\ Sorted(pinglist, age)

LEMMA Stamps ==
    /\ 0 \in Stamp /\ MinSessionID \in Stamp
    /\ Stamp \subseteq 0..(MaxSessionID - 1) /\ Stamp \subseteq 0..MaxSessionID
    /\ \A n \in 0..(MaxSessionID - 1) : n >= MinSessionID => n \in Stamp
BY ServerAssumption DEF Stamp

LEMMA TypedOK == Typed => TypeOK
<1> SUFFICES ASSUME Typed PROVE TypeOK
    OBVIOUS
<1>1. MaxSessionID \in Nat /\ MaxSessionID > 0
    BY ServerAssumption
<1>2. ASSUME NEW f \in [User -> Stamp]
      PROVE  f \in [User -> 0..MaxSessionID]
    BY Stamps
<1>3. Doc \subseteq Row
    BY <1>2 DEF Doc, Row
<1>4. Job \subseteq [conn : Conn, msg : Request, sid : 0..MaxSessionID]
    BY <1>1 DEF Job
<1>5. jobs \in Seq([conn : Conn, msg : Request, sid : 0..MaxSessionID])
    <2>1. jobs \in Seq(Job)
        BY DEF Typed
    <2>2. \A S, T : S \subseteq T => Seq(S) \subseteq Seq(T)
        BY SMT
    <2>3. QED
        BY <1>4, <2>1, <2>2
<1>6. rows \in [Device -> Row \cup {NoRow}] /\ local \in Row
    BY <1>3 DEF Typed
<1>7. QED
    BY <1>5, <1>6 DEF Typed, TypeOK, Node

-----------------------------------------------------------------------------
(* What a job may change.                                                  *)

LEMMA MountTyped ==
    ASSUME Typed, NEW c \in Conn, NEW m \in Response, NEW o, o \subseteq Conn, NEW n,
           o # {} => n \in Response, Mount(c, m, o, n)
    PROVE  /\ wq' \in [Conn -> Seq(Response)]
           /\ nodes' = (nodes \cup {c}) \cup o /\ async' \in BOOLEAN
<1>1. ASSUME NEW x \in Conn
      PROVE  wq[x] \o (IF x = c THEN <<m>> ELSE <<>>) \o (IF x \in o THEN <<n>> ELSE <<>>)
                 \in Seq(Response)
    <2>1. wq[x] \in Seq(Response) /\ <<m>> \in Seq(Response) /\ <<>> \in Seq(Response)
        BY DEF Typed
    <2>2. (IF x = c THEN <<m>> ELSE <<>>) \in Seq(Response)
        BY <2>1
    <2>3. (IF x \in o THEN <<n>> ELSE <<>>) \in Seq(Response)
        <3>1. CASE x \in o
            <4>1. n \in Response
                BY <3>1
            <4>2. <<n>> \in Seq(Response)
                BY <4>1
            <4>3. QED
                BY <3>1, <4>2
        <3>2. CASE x \notin o
            BY <3>2
        <3>3. QED
            BY <3>1, <3>2
    <2>4. QED
        BY <2>1, <2>2, <2>3, ConcatProperties
<1>2. QED
    BY <1>1 DEF Mount, Typed

\* An answer mounted on the requesting connection alone.
LEMMA ReplyTyped ==
    ASSUME Typed, NEW c \in Conn, NEW type \in Answer, NEW sid \in Nat, NEW e \in Nat,
           Reply(c, type, sid, e)
    PROVE  /\ wq' \in [Conn -> Seq(Response)]
           /\ nodes' = nodes \cup {c} /\ async' \in BOOLEAN
<1>1. PICK m : m = [type |-> type, sid |-> sid, e |-> e]
    OBVIOUS
<1>2. m \in Response
    BY <1>1 DEF Response
<1>3. PICK o, n : o = {} /\ n = <<>>
    OBVIOUS
<1>4. Mount(c, m, o, n)
    BY <1>1, <1>3 DEF Reply
<1>5. o \subseteq Conn /\ (o # {} => n \in Response)
    BY <1>3
<1>6. /\ wq' \in [Conn -> Seq(Response)]
      /\ nodes' = (nodes \cup {c}) \cup o /\ async' \in BOOLEAN
    BY <1>2, <1>4, <1>5, MountTyped
<1>7. QED
    BY <1>3, <1>6

\* The documents keep their types through the calls that write them.
LEMMA DocsTyped ==
    ASSUME NEW r \in [Device -> Doc \cup {NoRow}]
    PROVE  /\ \A info \in Doc : UpdateUUID(r, info) \in [Device -> Doc \cup {NoRow}]
           /\ \A d, u : \A sid \in Stamp :
                 UpdateSessionID(r, d, u, sid) \in [Device -> Doc \cup {NoRow}]
           /\ Typed => \A d \in Device : FindUUID(r, d) \in Doc
<1>1. ASSUME NEW info \in Doc PROVE UpdateUUID(r, info) \in [Device -> Doc \cup {NoRow}]
    BY DEF UpdateUUID
<1>2. ASSUME NEW d, NEW u, NEW sid \in Stamp
      PROVE  UpdateSessionID(r, d, u, sid) \in [Device -> Doc \cup {NoRow}]
    <2>1. ASSUME NEW x \in Doc PROVE [x EXCEPT !.users[u] = sid] \in Doc
        <3>1. PICK f : f = [x.users EXCEPT ![u] = sid]
            OBVIOUS
        <3>2. f \in [User -> Stamp]
            BY <3>1 DEF Doc
        <3>3. [x EXCEPT !.users[u] = sid] = [x EXCEPT !.users = f]
            BY <3>1
        <3>4. QED
            BY <3>2, <3>3 DEF Doc
    <2>2. QED
        BY <2>1 DEF UpdateSessionID
<1>3. ASSUME Typed, NEW d \in Device PROVE FindUUID(r, d) \in Doc
    BY <1>3 DEF FindUUID, Typed
<1>4. QED
    BY <1>1, <1>2, <1>3

\* What RunJob does with job j, as far as the invariants see it.
JobEffect(j) ==
    /\ io' \in [Conn -> Node]
    /\ \A x \in Conn :
          /\ io'[x].isConnect = io[x].isConnect
          /\ io'[x].uuid = io[x].uuid \/ (x = j.conn /\ io'[x].uuid = j.msg.uuid)
    /\ wq' \in [Conn -> Seq(Response)]
    /\ nodes' \subseteq Conn /\ async' \in BOOLEAN
    /\ \A x \in nodes' : x \in nodes \/ x = j.conn \/ \E d \in Device : uuidmap[d] = x
    /\ devices' \in [User -> SUBSET Device]
    /\ rows' \in [Device -> Doc \cup {NoRow}] /\ local' \in Doc
    /\ budget' \in [faults : Nat, crashes : Nat]

\* A job that only answers: what is left to show is the types of the documents.
LEMMA AnswerEffect ==
    ASSUME Typed, NEW j \in Job, NEW type \in Answer, NEW sid \in Nat, NEW e \in Nat,
           Reply(j.conn, type, sid, e), io' = io,
           devices' \in [User -> SUBSET Device],
           rows' \in [Device -> Doc \cup {NoRow}], local' \in Doc,
           budget' \in [faults : Nat, crashes : Nat]
    PROVE  JobEffect(j)
<1>1. PICK c : c = j.conn
    OBVIOUS
<1>2. c \in Conn
    BY <1>1 DEF Job
<1>3. /\ wq' \in [Conn -> Seq(Response)]
      /\ nodes' = nodes \cup {c} /\ async' \in BOOLEAN
    <2>1. Reply(c, type, sid, e)
        BY <1>1
    <2>2. QED
        BY <1>2, <2>1, ReplyTyped
<1>4. QED
    BY <1>1, <1>2, <1>3 DEF JobEffect, Typed

LEMMA ThrowTyped ==
    ASSUME Typed, DbThrows PROVE budget' \in [faults : Nat, crashes : Nat]
<1>1. budget.faults \in Nat /\ budget.crashes \in Nat /\ budget.faults > 0
    BY DEF Typed, DbThrows
<1>2. PICK n : n = budget.faults - 1
    OBVIOUS
<1>3. n \in Nat
    BY <1>1, <1>2
<1>4. budget' = [budget EXCEPT !.faults = n]
    BY <1>2 DEF DbThrows
<1>5. QED
    BY <1>3, <1>4 DEF Typed

LEMMA LoginEffect ==
    ASSUME Typed, NEW j \in Job, DispatchLogin(j.conn, j.msg, j.sid), io' = io
    PROVE  JobEffect(j)
<1>1. PICK c, m, sid : c = j.conn /\ m = j.msg /\ sid = j.sid
    OBVIOUS
<1>2. c \in Conn /\ m \in Request /\ sid \in Nat
    BY <1>1, ServerAssumption DEF Job
<1>3. m.user \in User /\ m.uuid \in Device
    BY <1>2 DEF Request
<1>4. "loginres" \in Answer /\ "loginnoti" \in Answer
    BY DEF Answer
<1>5. DispatchLogin(c, m, sid)
    BY <1>1
<1>6. CASE ~m.ok
    <2>1. Reply(c, "loginres", sid, 11001) /\ UNCHANGED <<dbVars, budget>>
        BY <1>5, <1>6 DEF DispatchLogin
    <2>2. QED
        <3>1. Reply(j.conn, "loginres", sid, 11001) /\ 11001 \in Nat
            BY <1>1, <2>1
        <3>2. /\ devices' \in [User -> SUBSET Device]
              /\ rows' \in [Device -> Doc \cup {NoRow}] /\ local' \in Doc
              /\ budget' \in [faults : Nat, crashes : Nat]
            BY <2>1 DEF Typed, dbVars
        <3>3. QED
            BY <1>2, <1>4, <3>1, <3>2, AnswerEffect
<1>7. CASE m.ok
    <2>1. PICK info : info = LoginInfo(m)
        OBVIOUS
    <2>2. /\ devices' = [devices EXCEPT ![m.user] = @ \cup {m.uuid}]
          /\ local' = info
          /\ \/ /\ rows' = [rows EXCEPT ![m.uuid] = info]
                /\ Mount(c, [type |-> "loginres", sid |-> sid, e |-> 0],
                         NotiTargets(rows', io[c].user, io[c].uuid),
                         [type |-> "loginnoti", sid |-> sid, e |-> 0])
                /\ UNCHANGED budget
             \/ /\ DbThrows
                /\ Reply(c, "loginres", sid, IF rows[m.uuid] = NoRow THEN 40030 ELSE 40031)
                /\ UNCHANGED rows
        BY <1>5, <1>7, <2>1 DEF DispatchLogin
    <2>3. PICK old : old = IF rows[m.uuid] = NoRow THEN EmptyInfo.users ELSE rows[m.uuid].users
        OBVIOUS
    <2>4. old \in [User -> Stamp]
        <3>1. EmptyInfo.users \in [User -> Stamp]
            BY Stamps DEF EmptyInfo
        <3>2. QED
            BY <1>3, <2>3, <3>1 DEF Typed, Doc
    <2>5. info \in Doc
        <3>1. PICK n : n = IF old[m.user] = 0 THEN MinSessionID ELSE old[m.user]
            OBVIOUS
        <3>2. n \in Stamp
            BY <1>3, <2>4, <3>1, Stamps
        <3>3. PICK f : f = [old EXCEPT ![m.user] = n]
            OBVIOUS
        <3>4. f \in [User -> Stamp]
            BY <2>4, <3>2, <3>3
        <3>5. info = [uuid |-> m.uuid, user |-> m.user, isLogin |-> TRUE,
                      isConnected |-> FALSE, users |-> f]
            BY <2>1, <2>3, <3>1, <3>3 DEF LoginInfo
        <3>6. QED
            BY <1>3, <3>4, <3>5 DEF Doc
    <2>6. devices' \in [User -> SUBSET Device]
        BY <1>3, <2>2 DEF Typed
    <2>7. CASE /\ rows' = [rows EXCEPT ![m.uuid] = info]
               /\ Mount(c, [type |-> "loginres", sid |-> sid, e |-> 0],
                        NotiTargets(rows', io[c].user, io[c].uuid),
                        [type |-> "loginnoti", sid |-> sid, e |-> 0])
               /\ UNCHANGED budget
        <3>1. PICK o, a, b :
                  /\ o = NotiTargets(rows', io[c].user, io[c].uuid)
                  /\ a = [type |-> "loginres", sid |-> sid, e |-> 0]
                  /\ b = [type |-> "loginnoti", sid |-> sid, e |-> 0]
            OBVIOUS
        <3>2. a \in Response /\ b \in Response
            BY <1>2, <1>4, <3>1 DEF Response
        <3>3. \A x \in o : x \in Conn /\ \E d \in Device : uuidmap[d] = x
            BY <3>1 DEF NotiTargets, Typed
        <3>4. Mount(c, a, o, b) /\ o \subseteq Conn
            BY <2>7, <3>1, <3>3
        <3>5. /\ wq' \in [Conn -> Seq(Response)]
              /\ nodes' = (nodes \cup {c}) \cup o /\ async' \in BOOLEAN
            BY <1>2, <3>2, <3>4, MountTyped
        <3>6. rows' \in [Device -> Doc \cup {NoRow}]
            BY <1>3, <2>5, <2>7 DEF Typed
        <3>7. QED
            BY <1>1, <1>2, <2>2, <2>5, <2>6, <2>7, <3>3, <3>5, <3>6 DEF JobEffect, Typed
    <2>8. CASE /\ DbThrows
               /\ Reply(c, "loginres", sid, IF rows[m.uuid] = NoRow THEN 40030 ELSE 40031)
               /\ UNCHANGED rows
        <3>1. PICK e : e = IF rows[m.uuid] = NoRow THEN 40030 ELSE 40031
            OBVIOUS
        <3>2. e \in Nat /\ Reply(j.conn, "loginres", sid, e)
            BY <1>1, <2>8, <3>1
        <3>3. budget' \in [faults : Nat, crashes : Nat]
            BY <2>8, ThrowTyped
        <3>4. rows' \in [Device -> Doc \cup {NoRow}] /\ local' \in Doc
            BY <2>2, <2>5, <2>8 DEF Typed
        <3>5. QED
            BY <1>2, <1>4, <2>6, <3>2, <3>3, <3>4, AnswerEffect
    <2>9. QED
        BY <2>2, <2>7, <2>8
<1>8. QED
    BY <1>6, <1>7

LEMMA LeaveEffect ==
    ASSUME Typed, NEW j \in Job, NEW r \in [Device -> Doc \cup {NoRow}], j.sid \in Stamp,
           DispatchLeave(j.conn, j.msg, j.sid, r), UNCHANGED <<io, devices>>
    PROVE  JobEffect(j)
<1>1. PICK c, m, sid : c = j.conn /\ m = j.msg /\ sid = j.sid
    OBVIOUS
<1>2. c \in Conn /\ m \in Request /\ sid \in Nat /\ sid \in Stamp
    BY <1>1, ServerAssumption DEF Job
<1>3. m.user \in User /\ m.uuid \in Device
    BY <1>2 DEF Request
<1>4. "error" \in Answer /\ "logoutres" \in Answer /\ "clientdisconnectres" \in Answer
    BY DEF Answer
<1>5. PICK off : off = LeaveInfo(m, sid, r)
    OBVIOUS
<1>6. DispatchLeave(c, m, sid, r)
    BY <1>1
<1>7. off \in Doc
    <2>1. PICK info : info = FindUUID(r, m.uuid)
        OBVIOUS
    <2>2. info \in Doc
        BY <1>3, <2>1, DocsTyped
    <2>3. PICK f : f = [info.users EXCEPT ![m.user] = sid]
        OBVIOUS
    <2>4. f \in [User -> Stamp]
        BY <1>2, <2>2, <2>3 DEF Doc
    <2>5. off = IF m.type = "logout" THEN [info EXCEPT !.isConnected = FALSE, !.isLogin = FALSE]
                ELSE [info EXCEPT !.isConnected = FALSE, !.users = f]
        BY <1>5, <2>1, <2>3 DEF LeaveInfo
    <2>6. QED
        BY <2>2, <2>4, <2>5 DEF Doc
<1>8. \E type \in Answer, e \in Nat : Reply(j.conn, type, sid, e)
    <2>1. PICK type, e : /\ type = IF m.type = "logout" THEN "logoutres" ELSE "clientdisconnectres"
                         /\ e = IF m.type = "logout" THEN 11002 ELSE 11004
        OBVIOUS
    <2>2. type \in Answer /\ e \in Nat
        BY <1>4, <2>1
    <2>3. Reply(c, "error", sid, e) \/ Reply(c, type, sid, 0) \/ Reply(c, "error", sid, 40031)
        BY <1>6, <2>1 DEF DispatchLeave
    <2>4. QED
        BY <1>1, <1>4, <2>2, <2>3
<1>9. /\ rows' = r \/ rows' = UpdateUUID(r, off)
      /\ local' = local \/ local' = off
      /\ budget' = budget \/ DbThrows
    BY <1>5, <1>6 DEF DispatchLeave
<1>10. /\ devices' \in [User -> SUBSET Device]
       /\ rows' \in [Device -> Doc \cup {NoRow}] /\ local' \in Doc
       /\ budget' \in [faults : Nat, crashes : Nat]
    BY <1>7, <1>9, DocsTyped, ThrowTyped DEF Typed
<1>11. QED
    BY <1>2, <1>8, <1>10, AnswerEffect

LEMMA ConnectEffect ==
    ASSUME Typed, NEW j \in Job, DispatchConnect(j.conn, j.msg, j.sid),
           UNCHANGED devices
    PROVE  JobEffect(j)
<1>1. PICK c, m, sid : c = j.conn /\ m = j.msg /\ sid = j.sid
    OBVIOUS
<1>2. c \in Conn /\ m \in Request /\ sid \in Nat
    BY <1>1, ServerAssumption DEF Job
<1>3. m.user \in User /\ m.uuid \in Device /\ "clientconnectres" \in Answer
    BY <1>2 DEF Request, Answer
<1>4. DispatchConnect(c, m, sid)
    BY <1>1
<1>5. CASE ConnectFails(m)
    <2>1. /\ Reply(j.conn, "clientconnectres", sid, 11003) /\ 11003 \in Nat
          /\ io' = io /\ rows' = rows /\ local' = local /\ budget' = budget
        BY <1>1, <1>4, <1>5 DEF DispatchConnect
    <2>2. /\ devices' \in [User -> SUBSET Device]
          /\ rows' \in [Device -> Doc \cup {NoRow}] /\ local' \in Doc
          /\ budget' \in [faults : Nat, crashes : Nat]
        BY <2>1 DEF Typed
    <2>3. QED
        BY <1>2, <1>3, <2>1, <2>2, AnswerEffect
<1>6. CASE ~ConnectFails(m)
    <2>1. PICK s, on, b : /\ s = ConnectID(m) /\ on = ConnectInfo(m)
                         /\ b = [io[c] EXCEPT !.user = m.user, !.uuid = m.uuid, !.sessionid = s]
        OBVIOUS
    <2>2. /\ io' = [io EXCEPT ![c] = b]
          /\ local' = on
          /\ \/ /\ rows' = UpdateUUID(rows, on)
                /\ Reply(c, "clientconnectres", s, 0)
                /\ UNCHANGED budget
             \/ /\ DbThrows
                /\ Reply(c, "clientconnectres", s, 40031)
                /\ UNCHANGED rows
        BY <1>4, <1>6, <2>1 DEF DispatchConnect
    <2>3. FindUUID(rows, m.uuid) \in Doc
        BY <1>3, DocsTyped DEF Typed
    <2>4. on \in Doc
        BY <2>1, <2>3 DEF ConnectInfo, Doc
    <2>5. s \in 0..MaxSessionID /\ s \in Nat
        <3>1. PICK n : n = FindUUID(rows, m.uuid).users[m.user]
            OBVIOUS
        <3>2. n \in Stamp /\ s = n + 1
            BY <1>3, <2>1, <2>3, <3>1 DEF ConnectID, Doc
        <3>3. n \in 0..(MaxSessionID - 1)
            BY <3>2, Stamps
        <3>4. QED
            BY <3>2, <3>3, ServerAssumption
    <2>6. /\ wq' \in [Conn -> Seq(Response)]
          /\ nodes' = nodes \cup {c} /\ async' \in BOOLEAN
        <3>1. PICK e \in {0, 40031} : Reply(c, "clientconnectres", s, e)
            BY <2>2
        <3>2. e \in Nat
            OBVIOUS
        <3>3. QED
            BY <1>2, <1>3, <2>5, <3>1, <3>2, ReplyTyped
    <2>7. /\ devices' \in [User -> SUBSET Device]
          /\ rows' \in [Device -> Doc \cup {NoRow}] /\ local' \in Doc
          /\ budget' \in [faults : Nat, crashes : Nat]
        <3>1. budget' = budget \/ DbThrows
            BY <2>2
        <3>2. UpdateUUID(rows, on) \in [Device -> Doc \cup {NoRow}]
            BY <2>4, DocsTyped DEF Typed
        <3>3. rows' \in [Device -> Doc \cup {NoRow}] /\ local' \in Doc
            BY <2>2, <2>4, <3>2 DEF Typed
        <3>4. QED
            BY <3>1, <3>3, ThrowTyped DEF Typed
    <2>8. /\ io' \in [Conn -> Node]
          /\ \A x \in Conn : /\ io'[x].isConnect = io[x].isConnect
                             /\ io'[x].uuid = io[x].uuid \/ (x = c /\ io'[x].uuid = m.uuid)
        <3>1. io[c] \in Node
            BY <1>2 DEF Typed
        <3>2. b \in Node
            BY <1>3, <2>1, <2>5, <3>1 DEF Node
        <3>3. b.isConnect = io[c].isConnect /\ b.uuid = m.uuid
            BY <2>1, <3>1 DEF Node
        <3>4. QED
            BY <1>2, <2>2, <3>2, <3>3 DEF Typed
    <2>9. QED
        BY <1>1, <1>2, <2>6, <2>7, <2>8 DEF JobEffect, Typed
<1>7. QED
    BY <1>5, <1>6

LEMMA HandleEffect ==
    ASSUME Typed, NEW j \in Job, NEW r \in [Device -> Doc \cup {NoRow}],
           j.msg.type \in {"logout", "clientdisconnect"} => j.sid \in Stamp,
           Handle(j.conn, j.msg, j.sid, r)
    PROVE  JobEffect(j)
<1>1. CASE /\ DispatchLogin(j.conn, j.msg, j.sid)
           /\ UNCHANGED io
    BY <1>1, LoginEffect
<1>2. CASE /\ DispatchConnect(j.conn, j.msg, j.sid)
           /\ UNCHANGED devices
    BY <1>2, ConnectEffect
<1>3. CASE /\ j.msg.type \in {"logout", "clientdisconnect"}
           /\ DispatchLeave(j.conn, j.msg, j.sid, r)
           /\ UNCHANGED <<io, devices>>
    BY <1>3, LeaveEffect
<1>4. CASE /\ Reply(j.conn, IF j.msg.type = "ping" THEN "pong" ELSE "res", j.sid, 0)
           /\ rows' = r
           /\ UNCHANGED <<io, devices, local, budget>>
    <2>1. PICK type : type = IF j.msg.type = "ping" THEN "pong" ELSE "res"
        OBVIOUS
    <2>2. type \in Answer
        BY <2>1 DEF Answer
    <2>3. j.sid \in Nat /\ 0 \in Nat
        BY ServerAssumption DEF Job
    <2>4. Reply(j.conn, type, j.sid, 0) /\ io' = io
        BY <1>4, <2>1
    <2>5. /\ devices' \in [User -> SUBSET Device]
          /\ rows' \in [Device -> Doc \cup {NoRow}] /\ local' \in Doc
          /\ budget' \in [faults : Nat, crashes : Nat]
        BY <1>4 DEF Typed
    <2>6. QED
        BY <2>2, <2>3, <2>4, <2>5, AnswerEffect
<1>5. QED
    BY <1>1, <1>2, <1>3, <1>4 DEF Handle

\* The documents dispatch starts from, after updateSessionID.
Refreshed(j) == UpdateSessionID(rows, io[j.conn].uuid, io[j.conn].user, j.sid)

\* The three ways of dispatch: updateSessionID is called with a session id that
\* was checked, and no other message is one that rewrites the ids.
LEMMA DispatchCases ==
    ASSUME NEW j \in Job, Dispatch(j.conn, j.msg, j.sid)
    PROVE  \/ \E e \in {11010, 11011, 11013} : Refuse(j.conn, j.sid, e)
           \/ j.sid \in Stamp /\ Handle(j.conn, j.msg, j.sid, Refreshed(j))
           \/ /\ j.msg.type \notin {"logout", "clientdisconnect"}
              /\ Handle(j.conn, j.msg, j.sid, rows)
<1>1. j.sid >= MinSessionID => j.sid \in Stamp
    BY Stamps DEF Job
<1>2. ~MissingCheck(j.msg.type) => j.msg.type \notin {"logout", "clientdisconnect"}
    BY DEF MissingCheck, Checked
<1>3. QED
    BY <1>1, <1>2 DEF Dispatch, Refreshed

LEMMA DispatchEffect ==
    ASSUME Typed, NEW j \in Job, Dispatch(j.conn, j.msg, j.sid)
    PROVE  JobEffect(j)
<1>1. j.sid \in Stamp => Refreshed(j) \in [Device -> Doc \cup {NoRow}]
    BY DocsTyped DEF Typed, Refreshed
<1>2. ASSUME NEW e \in Nat, Refuse(j.conn, j.sid, e) PROVE JobEffect(j)
    <2>1. "error" \in Answer /\ j.sid \in Nat
        BY ServerAssumption DEF Answer, Job
    <2>2. Reply(j.conn, "error", j.sid, e) /\ UNCHANGED <<io, devices, rows, local, budget>>
        BY <1>2 DEF Refuse, dbVars
    <2>3. /\ devices' \in [User -> SUBSET Device]
          /\ rows' \in [Device -> Doc \cup {NoRow}] /\ local' \in Doc
          /\ budget' \in [faults : Nat, crashes : Nat] /\ io' = io
        BY <2>2 DEF Typed
    <2>4. QED
        BY <2>1, <2>2, <2>3, AnswerEffect
<1>3. rows \in [Device -> Doc \cup {NoRow}]
    BY DEF Typed
<1>4. ASSUME NEW e \in {11010, 11011, 11013} PROVE e \in Nat
    OBVIOUS
<1>5. CASE j.sid \in Stamp /\ Handle(j.conn, j.msg, j.sid, Refreshed(j))
    BY <1>1, <1>5, HandleEffect
<1>6. CASE /\ j.msg.type \notin {"logout", "clientdisconnect"}
           /\ Handle(j.conn, j.msg, j.sid, rows)
    BY <1>3, <1>6, HandleEffect
<1>7. QED
    BY <1>2, <1>4, <1>5, <1>6, DispatchCases

\* The head leaves a queue and the others move up.
LEMMA TailOfSeq ==
    ASSUME NEW S, NEW s \in Seq(S), s # <<>>
    PROVE  /\ Len(s) \in Nat /\ 1 \in 1..Len(s) /\ Head(s) = s[1] /\ Head(s) \in S
           /\ Tail(s) \in Seq(S) /\ Len(Tail(s)) = Len(s) - 1
           /\ \A i \in 1..Len(Tail(s)) : Tail(s)[i] = s[i + 1] /\ i + 1 \in 1..Len(s)
<1>1. /\ Head(s) = s[1] /\ Head(s) \in S
      /\ Tail(s) \in Seq(S) /\ Len(Tail(s)) = Len(s) - 1
      /\ \A i \in 1..Len(Tail(s)) : Tail(s)[i] = s[i + 1]
    BY HeadTailProperties
<1>2. Len(s) \in Nat \ {0}
    BY EmptySeq
<1>3. QED
    BY <1>1, <1>2

\* A job of the queue runs.
LEMMA JobRuns ==
    ASSUME Typed, RunJob
    PROVE  \E j \in Job :
              /\ 1 \in 1..Len(jobs) /\ j = jobs[1] /\ JobEffect(j)
              /\ jobs' \in Seq(Job)
              /\ \A i \in 1..Len(jobs') : jobs'[i] = jobs[i + 1] /\ i + 1 \in 1..Len(jobs)
              /\ UNCHANGED <<age, pinglist, uuidmap, netVars>>
<1>1. PICK j : j = Head(jobs)
    OBVIOUS
<1>2. jobs # <<>> /\ Dispatch(j.conn, j.msg, j.sid) /\ jobs' = Tail(jobs)
      /\ UNCHANGED <<age, pinglist, uuidmap, netVars>>
    BY <1>1 DEF RunJob
<1>3. jobs \in Seq(Job)
    BY DEF Typed
<1>4. /\ 1 \in 1..Len(jobs) /\ Head(jobs) = jobs[1] /\ Head(jobs) \in Job
      /\ Tail(jobs) \in Seq(Job)
      /\ \A i \in 1..Len(Tail(jobs)) : Tail(jobs)[i] = jobs[i + 1] /\ i + 1 \in 1..Len(jobs)
    BY <1>2, <1>3, TailOfSeq
<1>5. JobEffect(j)
    BY <1>1, <1>2, <1>4, DispatchEffect
<1>6. QED
    BY <1>1, <1>2, <1>4, <1>5

-----------------------------------------------------------------------------
(* Every step keeps the invariant.                                         *)

LEMMA InitInv == Init => Inv
<1> SUFFICES ASSUME Init PROVE Inv
    OBVIOUS
<1>1. ToSet(<<>>) = {} /\ Len(<<>>) = 0
    BY DEF ToSet
<1>2. Typed
    <2>1. FreshIO \in Node
        BY ServerAssumption DEF FreshIO, Node
    <2>2. EmptyInfo \in Doc
        BY Stamps DEF EmptyInfo, Doc
    <2>3. [st |-> "none", sid |-> 0, user |-> NoUser, uuid |-> NoDevice, sent |-> 0, wait |-> 0]
              \in Client
        BY DEF Client
    <2>4. PICK s \in Stored, u \in User, half \in BOOLEAN :
              /\ devices = [x \in User |-> IF s = 0 /\ ~half THEN {} ELSE Device]
              /\ rows = [d \in Device |->
                    IF s = 0 THEN NoRow
                    ELSE [uuid |-> d, user |-> u, isLogin |-> TRUE,
                          isConnected |-> FALSE, users |-> [x \in User |-> s]]]
        BY DEF Init
    <2>5. devices \in [User -> SUBSET Device]
        BY <2>4
    <2>6. rows \in [Device -> Doc \cup {NoRow}]
        <3>1. s \in Stamp
            BY ServerAssumption DEF Stamp
        <3>2. QED
            BY <2>4, <3>1 DEF Doc
    <2>7. budget \in [faults : Nat, crashes : Nat]
        BY ServerAssumption DEF Init
    <2>8. age \in [Conn -> 0..(PingTimeout + 1)]
        BY ServerAssumption DEF Init
    <2>9. /\ io \in [Conn -> Node] /\ cl \in [Conn -> Client] /\ local \in Doc
          /\ uuidmap \in [Device -> Conn \cup {NoConn}]
          /\ nodes \subseteq Conn /\ async \in BOOLEAN
        BY <2>1, <2>2, <2>3 DEF Init
    <2>10. /\ pinglist \in Seq(Conn) /\ jobs \in Seq(Job)
           /\ wq \in [Conn -> Seq(Response)] /\ back \in [Conn -> Seq(Response)]
           /\ sock \in [Conn -> Seq(Request)]
        <3>1. \A S : <<>> \in Seq(S)
            BY EmptySeq
        <3>2. QED
            BY <3>1 DEF Init
    <2>11. QED
        BY <2>5, <2>6, <2>7, <2>8, <2>9, <2>10 DEF Typed
<1>3. Named /\ Idle
    BY <1>1, ServerAssumption DEF Init, Named, Idle
<1>4. Linked
    BY <1>1 DEF Init, Linked, MappedOwnDevice, FreshIO
<1>5. Sorted(pinglist, age)
    BY <1>1 DEF Init, Sorted
<1>6. QED
    BY <1>2, <1>3, <1>4, <1>5 DEF Inv

LEMMA JobsTyped ==
    ASSUME Typed, NEW i \in 1..Len(jobs)
    PROVE  jobs[i].conn \in Conn /\ jobs[i].msg \in Request
<1>1. jobs[i] \in Job
    BY ElementOfSeq DEF Typed
<1>2. QED
    BY <1>1 DEF Job

LEMMA AcceptStep ==
    ASSUME Inv, NEW c \in Conn, NEW u \in User, NEW d \in Device, SocketAccept(c, u, d)
    PROVE  Inv'
<1>1. /\ cl[c].st = "none" /\ c \notin ToSet(pinglist) /\ c \notin nodes
      /\ sock[c] = <<>> /\ back[c] = <<>> /\ \A x \in Device : uuidmap[x] # c
      /\ \A i \in 1..Len(jobs) : jobs[i].conn # c
    BY DEF Inv, Idle, SocketAccept
<1>2. UNCHANGED <<uuidmap, wq, nodes, async, jobs, devices, rows, local, sock, back, budget>>
    BY DEF SocketAccept, outVars, dbVars
<1>3. cl[c] \in Client /\ Len(<<>>) = 0
    BY DEF Inv, Typed
<1>4. CASE /\ \E g \in Garbage :
                  io' = [io EXCEPT ![c] = [FreshIO EXCEPT !.accepted = TRUE,
                                             !.reading = TRUE, !.sessionid = g]]
           /\ age' = [age EXCEPT ![c] = 0]
           /\ pinglist' = Append(pinglist, c)
           /\ cl' = [cl EXCEPT ![c] = [@ EXCEPT !.st = "open", !.user = u, !.uuid = d]]
    <2>1. PICK b \in Node : io' = [io EXCEPT ![c] = b] /\ b.uuid = NoDevice
        <3>1. PICK g \in Garbage :
                  io' = [io EXCEPT ![c] = [FreshIO EXCEPT !.accepted = TRUE,
                                             !.reading = TRUE, !.sessionid = g]]
            BY <1>4
        <3>2. g \in 0..MaxSessionID
            BY ServerAssumption
        <3>3. PICK b : b = [FreshIO EXCEPT !.accepted = TRUE, !.reading = TRUE, !.sessionid = g]
            OBVIOUS
        <3>4. FreshIO \in Node /\ FreshIO.uuid = NoDevice
            BY ServerAssumption DEF FreshIO, Node
        <3>5. b \in Node
            BY <3>2, <3>3, <3>4 DEF Node
        <3>6. b.uuid = NoDevice
            BY <3>3, <3>4 DEF Node
        <3>7. QED
            BY <3>1, <3>3, <3>5, <3>6
    <2>2. PICK k : k = [cl[c] EXCEPT !.st = "open", !.user = u, !.uuid = d]
        OBVIOUS
    <2>3. k \in Client /\ k.st = "open" /\ k.user = u /\ k.uuid = d /\ cl' = [cl EXCEPT ![c] = k]
        BY <1>3, <1>4, <2>2 DEF Client
    <2>4. pinglist' \in Seq(Conn) /\ ToSet(pinglist') = ToSet(pinglist) \cup {c}
        BY <1>4, AppendIn DEF Inv, Typed
    <2>5. age' \in [Conn -> 0..(PingTimeout + 1)] /\ age'[c] = 0
        <3>1. 0 \in 0..(PingTimeout + 1)
            BY ServerAssumption
        <3>2. QED
            BY <1>4, <3>1 DEF Inv, Typed
    <2>6. Typed'
        BY <1>2, <2>1, <2>3, <2>4, <2>5 DEF Inv, Typed
    <2>7. Named'
        BY <2>3 DEF Inv, Typed, Named
    <2>8. Idle'
        BY <1>2, <2>3, <2>4 DEF Inv, Typed, Idle
    <2>9. Linked'
        <3>1. \A x \in Conn : io'[x].uuid \in {NoDevice, cl'[x].uuid}
            BY <2>1, <2>3 DEF Inv, Typed, Linked
        <3>2. \A x \in Conn : \A i \in 1..Len(sock'[x]) : sock'[x][i].uuid = cl'[x].uuid
            BY <1>1, <1>2, <1>3, <2>3 DEF Inv, Typed, Linked
        <3>3. \A i \in 1..Len(jobs) : jobs[i].msg.uuid = cl'[jobs[i].conn].uuid
            BY <1>1, <2>3, JobsTyped DEF Inv, Typed, Linked
        <3>4. MappedOwnDevice'
            BY <1>1, <1>2, <2>1, ServerAssumption DEF Inv, Typed, Linked, MappedOwnDevice
        <3>5. QED
            BY <1>2, <3>1, <3>2, <3>3, <3>4 DEF Linked
    <2>10. Sorted(pinglist', age')
        <3>1. \A x \in Conn : age'[x] \in Nat /\ (x # c => age'[x] = age[x])
            BY <1>4, <2>5 DEF Inv, Typed
        <3>2. PICK g : g = age'
            OBVIOUS
        <3>3. pinglist \in Seq(Conn) /\ Sorted(pinglist, age)
            BY DEF Inv, Typed
        <3>4. g[c] = 0 /\ \A x \in Conn : g[x] \in Nat /\ (x # c => g[x] = age[x])
            BY <2>5, <3>1, <3>2
        <3>5. Sorted(Append(pinglist, c), g)
            BY <1>1, <3>3, <3>4, AppendSorted
        <3>6. QED
            BY <1>4, <3>2, <3>5
    <2>11. QED
        BY <2>6, <2>7, <2>8, <2>9, <2>10 DEF Inv
<1>5. CASE /\ cl' = [cl EXCEPT ![c].st = "closed"]
           /\ UNCHANGED <<io, age, pinglist>>
    <2>1. PICK k : k = [cl[c] EXCEPT !.st = "closed"]
        OBVIOUS
    <2>2. k \in Client /\ k.st = "closed" /\ k.uuid = cl[c].uuid /\ cl' = [cl EXCEPT ![c] = k]
        BY <1>3, <1>5, <2>1 DEF Client
    <2>3. Typed'
        BY <1>2, <1>5, <2>2, ZenonT(40) DEF Inv, Typed
    <2>4. Named' /\ Idle'
        BY <1>1, <1>2, <1>5, <2>2 DEF Inv, Typed, Named, Idle
    <2>5. Linked'
        <3>1. \A x \in Conn : cl'[x].uuid = cl[x].uuid
            BY <2>2 DEF Inv, Typed
        <3>2. QED
            BY <1>2, <1>5, <3>1, JobsTyped DEF Inv, Linked, MappedOwnDevice
    <2>6. QED
        BY <1>5, <2>3, <2>4, <2>5 DEF Inv, Sorted
<1>6. QED
    BY <1>4, <1>5 DEF SocketAccept

LEMMA AppendElem ==
    ASSUME NEW S, NEW s \in Seq(S), NEW x \in S
    PROVE  /\ Append(s, x) \in Seq(S)
           /\ \A i \in 1..Len(Append(s, x)) :
                 Append(s, x)[i] = x \/ (i \in 1..Len(s) /\ Append(s, x)[i] = s[i])
<1>1. /\ Append(s, x) \in Seq(S) /\ Len(Append(s, x)) = Len(s) + 1
      /\ \A i \in 1..Len(s) : Append(s, x)[i] = s[i]
      /\ Append(s, x)[Len(s) + 1] = x /\ Len(s) \in Nat
    BY AppendProperties, LenProperties
<1>2. QED
    BY <1>1

\* The parts of the state the references to a connection are kept in.
LEMMA Fields ==
    ASSUME Inv
    PROVE  /\ io \in [Conn -> Node] /\ cl \in [Conn -> Client]
           /\ pinglist \in Seq(Conn) /\ Sorted(pinglist, age)
           /\ uuidmap \in [Device -> Conn \cup {NoConn}]
           /\ sock \in [Conn -> Seq(Request)] /\ back \in [Conn -> Seq(Response)]
           /\ \A i \in 1..Len(jobs) : jobs[i].conn \in Conn /\ jobs[i].msg \in Request
BY JobsTyped DEF Inv, Typed

\* A device stays mapped to its node while nothing maps it elsewhere.
LEMMA MapKept ==
    ASSUME Inv, \A d \in Device : uuidmap'[d] \in {NoConn, uuidmap[d]},
           \A x \in Conn : /\ io'[x].uuid = io[x].uuid
                           /\ io[x].isConnect => io'[x].isConnect
    PROVE  MappedOwnDevice'
<1>1. ASSUME NEW d \in Device, uuidmap'[d] # NoConn
      PROVE  io'[uuidmap'[d]].uuid = d /\ io'[uuidmap'[d]].isConnect
    <2>1. PICK x : x = uuidmap'[d]
        OBVIOUS
    <2>2. x = uuidmap[d] /\ x # NoConn
        BY <1>1, <2>1
    <2>3. x \in Conn
        BY <2>2, Fields
    <2>4. io[x].uuid = d /\ io[x].isConnect
        BY <2>2 DEF Inv, Linked, MappedOwnDevice
    <2>5. QED
        BY <2>1, <2>3, <2>4
<1>2. QED
    BY <1>1 DEF MappedOwnDevice

LEMMA AliveOpen ==
    ASSUME Inv, NEW c \in Conn, Alive(c) PROVE cl[c].st # "none"
BY DEF Inv, Idle, Alive

LEMMA ReadMessageStep ==
    ASSUME Inv, NEW c \in Conn, ReadMessage(c)
    PROVE  Inv'
<1>1. PICK m, t, j, q : /\ m = Head(sock[c]) /\ t = TakeSessionID(c, m.type)
                       /\ j = [conn |-> c, msg |-> m, sid |-> t.sid]
                       /\ q = Tail(sock[c])
    OBVIOUS
<1>2. /\ sock[c] # <<>>
      /\ io' = [io EXCEPT ![c].sessionid = t.next]
      /\ jobs' = Append(jobs, j)
      /\ sock' = [sock EXCEPT ![c] = q]
      /\ UNCHANGED <<age, pinglist, uuidmap, wq, nodes, async, devices, rows, local,
                     cl, back, budget>>
    BY <1>1 DEF ReadMessage, outVars, dbVars
<1>3. /\ m \in Request /\ q \in Seq(Request)
      /\ 1 \in 1..Len(sock[c]) /\ m = sock[c][1]
      /\ \A i \in 1..Len(q) : q[i] = sock[c][i + 1] /\ i + 1 \in 1..Len(sock[c])
    BY <1>1, <1>2, TailOfSeq DEF Inv, Typed
<1>4. cl[c].st # "none"
    BY <1>2 DEF Inv, Idle
<1>5. t.next \in 0..MaxSessionID /\ t.sid \in 0..(MaxSessionID - 1)
    <2>1. io[c].sessionid \in 0..MaxSessionID
        BY DEF Inv, Typed, Node
    <2>2. QED
        BY <1>1, <2>1, ServerAssumption DEF TakeSessionID
<1>6. j \in Job /\ j.conn = c /\ j.msg = m
    BY <1>1, <1>3, <1>5 DEF Job
<1>7. /\ jobs' \in Seq(Job)
      /\ \A i \in 1..Len(jobs') : jobs'[i] = j \/ (i \in 1..Len(jobs) /\ jobs'[i] = jobs[i])
    BY <1>2, <1>6, AppendElem DEF Inv, Typed
<1>8. /\ io' \in [Conn -> Node]
      /\ \A x \in Conn : io'[x].uuid = io[x].uuid /\ io'[x].isConnect = io[x].isConnect
    <2>1. PICK b : b = [io[c] EXCEPT !.sessionid = t.next]
        OBVIOUS
    <2>2. io[c] \in Node
        BY DEF Inv, Typed
    <2>3. b \in Node
        BY <1>5, <2>1, <2>2 DEF Node
    <2>4. b.uuid = io[c].uuid /\ b.isConnect = io[c].isConnect
        BY <2>1, <2>2 DEF Node
    <2>5. io' = [io EXCEPT ![c] = b]
        BY <1>2, <2>1
    <2>6. QED
        BY <2>3, <2>4, <2>5 DEF Inv, Typed
<1>9. Typed'
    BY <1>2, <1>3, <1>7, <1>8 DEF Inv, Typed
<1>10. Idle'
    <2>1. \A x \in Conn : cl[x].st = "none" =>
              sock'[x] = <<>> /\ \A i \in 1..Len(jobs') : jobs'[i].conn # x
        <3> SUFFICES ASSUME NEW x \in Conn, cl[x].st = "none"
                     PROVE  sock'[x] = <<>> /\ \A i \in 1..Len(jobs') : jobs'[i].conn # x
            OBVIOUS
        <3>1. x # c /\ sock[x] = <<>> /\ \A i \in 1..Len(jobs) : jobs[i].conn # x
            BY <1>4 DEF Inv, Idle
        <3>2. sock'[x] = sock[x]
            BY <1>2, <3>1, Fields
        <3>3. QED
            BY <1>6, <1>7, <3>1, <3>2
    <2>2. QED
        BY <1>2, <2>1 DEF Inv, Idle
<1>11. Linked'
    <2>1. \A x \in Conn : \A i \in 1..Len(sock'[x]) : sock'[x][i].uuid = cl[x].uuid
        <3> SUFFICES ASSUME NEW x \in Conn, NEW i \in 1..Len(sock'[x])
                     PROVE  sock'[x][i].uuid = cl[x].uuid
            OBVIOUS
        <3>1. \A k \in 1..Len(sock[x]) : sock[x][k].uuid = cl[x].uuid
            BY DEF Inv, Linked
        <3>2. sock'[x] = IF x = c THEN q ELSE sock[x]
            BY <1>2, Fields
        <3>3. CASE x = c
            <4>1. i \in 1..Len(q) /\ sock'[x][i] = q[i]
                BY <3>2, <3>3
            <4>2. QED
                BY <1>3, <3>1, <3>3, <4>1
        <3>4. CASE x # c
            BY <3>1, <3>2, <3>4
        <3>5. QED
            BY <3>3, <3>4
    <2>2. m.uuid = cl[c].uuid
        BY <1>3 DEF Inv, Linked
    <2>3. \A i \in 1..Len(jobs') : jobs'[i].msg.uuid = cl[jobs'[i].conn].uuid
        BY <1>6, <1>7, <2>2 DEF Inv, Linked
    <2>4. MappedOwnDevice'
        BY <1>2, <1>8, MapKept
    <2>5. QED
        BY <1>2, <1>8, <2>1, <2>3, <2>4 DEF Inv, Linked
<1>12. QED
    BY <1>2, <1>9, <1>10, <1>11 DEF Inv, Named, Sorted

LEMMA ReadErrorStep ==
    ASSUME Inv, NEW c \in Conn, ReadError(c)
    PROVE  Inv'
<1>1. /\ io' = [io EXCEPT ![c].reading = FALSE]
      /\ pinglist' = Erase(pinglist, c)
      /\ uuidmap' = UuidDelete(uuidmap, io[c].uuid)
      /\ UNCHANGED <<age, wq, nodes, async, jobs, devices, rows, local, cl, sock, back, budget>>
    BY DEF ReadError, outVars, dbVars, netVars
<1>2. /\ pinglist' \in Seq(Conn) /\ Sorted(pinglist', age)
      /\ ToSet(pinglist') \subseteq ToSet(pinglist)
    BY <1>1, EraseSorted DEF Inv, Typed
<1>3. /\ uuidmap' \in [Device -> Conn \cup {NoConn}]
      /\ \A d \in Device : uuidmap'[d] \in {NoConn, uuidmap[d]}
    BY <1>1 DEF Inv, Typed, UuidDelete
<1>4. /\ io' \in [Conn -> Node]
      /\ \A x \in Conn : io'[x].uuid = io[x].uuid /\ io'[x].isConnect = io[x].isConnect
    <2>1. PICK b : b = [io[c] EXCEPT !.reading = FALSE]
        OBVIOUS
    <2>2. io[c] \in Node
        BY Fields
    <2>3. b \in Node
        BY <2>1, <2>2 DEF Node
    <2>4. b.uuid = io[c].uuid /\ b.isConnect = io[c].isConnect
        BY <2>1, <2>2 DEF Node
    <2>5. io' = [io EXCEPT ![c] = b]
        BY <1>1, <2>1
    <2>6. QED
        BY <2>3, <2>4, <2>5, Fields
<1>5. Typed'
    BY <1>1, <1>2, <1>3, <1>4 DEF Inv, Typed
<1>6. Idle'
    <2>1. \A x \in Conn : cl[x].st = "none" => \A d \in Device : uuidmap'[d] # x
        BY <1>3, ServerAssumption DEF Inv, Idle
    <2>2. QED
        BY <1>1, <1>2, <2>1 DEF Inv, Idle
<1>7. Linked'
    <2>1. MappedOwnDevice'
        BY <1>3, <1>4, MapKept
    <2>2. QED
        BY <1>1, <1>4, <2>1 DEF Inv, Linked
<1>8. QED
    BY <1>1, <1>2, <1>5, <1>6, <1>7 DEF Inv, Named, Sorted

\* A step that only touches the watchers' flags.
LEMMA FlagStep ==
    ASSUME Inv, io' \in [Conn -> Node],
           \A x \in Conn : io'[x].uuid = io[x].uuid /\ io'[x].isConnect = io[x].isConnect,
           nodes' \subseteq nodes, async' \in BOOLEAN,
           UNCHANGED <<age, pinglist, uuidmap, wq, jobs, dbVars, netVars, budget>>
    PROVE  Inv'
<1>1. UNCHANGED <<age, pinglist, uuidmap, wq, jobs, devices, rows, local, cl, sock, back, budget>>
    BY DEF dbVars, netVars
<1>2. Typed'
    BY <1>1 DEF Inv, Typed
<1>3. Idle' /\ Named'
    BY <1>1 DEF Inv, Idle, Named
<1>4. Linked'
    <2>1. MappedOwnDevice'
        BY <1>1, MapKept, Fields
    <2>2. QED
        BY <1>1, <2>1 DEF Inv, Linked
<1>5. QED
    BY <1>1, <1>2, <1>3, <1>4 DEF Inv, Sorted

LEMMA StartWriteStep == ASSUME Inv, StartWrite PROVE Inv'
<1>1. ASSUME NEW x \in Conn, NEW w \in BOOLEAN
      PROVE  /\ [io[x] EXCEPT !.writing = w] \in Node
             /\ [io[x] EXCEPT !.writing = w].uuid = io[x].uuid
             /\ [io[x] EXCEPT !.writing = w].isConnect = io[x].isConnect
    <2>1. io[x] \in Node
        BY Fields
    <2>2. QED
        BY <2>1 DEF Node
<1>2. ASSUME NEW x \in Conn
      PROVE  \E w \in BOOLEAN : io'[x] = [io[x] EXCEPT !.writing = w]
    <2>1. io'[x] = [io[x] EXCEPT !.writing = io[x].writing \/ x \in nodes]
        BY DEF StartWrite
    <2>2. QED
        BY <2>1
<1>3. io' \in [Conn -> Node]
    <2>1. io' = [x \in Conn |-> io'[x]]
        BY DEF StartWrite
    <2>2. \A x \in Conn : io'[x] \in Node
        BY <1>1, <1>2
    <2>3. QED
        BY <2>1, <2>2
<1>4. \A x \in Conn : io'[x].uuid = io[x].uuid /\ io'[x].isConnect = io[x].isConnect
    BY <1>1, <1>2
<1>5. /\ nodes' \subseteq nodes /\ async' \in BOOLEAN
      /\ UNCHANGED <<age, pinglist, uuidmap, wq, jobs, dbVars, netVars, budget>>
    BY DEF StartWrite
<1>6. QED
    BY <1>3, <1>4, <1>5, FlagStep

LEMMA WriteStopStep == ASSUME Inv, NEW c \in Conn, WriteStop(c) PROVE Inv'
<1>1. PICK b : b = [io[c] EXCEPT !.writing = FALSE]
    OBVIOUS
<1>2. io[c] \in Node
    BY Fields
<1>3. b \in Node
    BY <1>1, <1>2 DEF Node
<1>4. b.uuid = io[c].uuid /\ b.isConnect = io[c].isConnect
    BY <1>1, <1>2 DEF Node
<1>5. /\ io' = [io EXCEPT ![c] = b]
      /\ UNCHANGED <<age, pinglist, uuidmap, wq, nodes, async, jobs, dbVars, netVars, budget>>
    BY <1>1 DEF WriteStop, outVars
<1>6. /\ io' \in [Conn -> Node]
      /\ \A x \in Conn : io'[x].uuid = io[x].uuid /\ io'[x].isConnect = io[x].isConnect
    BY <1>3, <1>4, <1>5, Fields
<1>7. nodes' \subseteq nodes /\ async' \in BOOLEAN
    BY <1>5 DEF Inv, Typed
<1>8. QED
    BY <1>5, <1>6, <1>7, FlagStep

\* A second makes every node in the list older, up to the cap.
LEMMA TickStep == ASSUME Inv, Tick PROVE Inv'
<1>1. /\ age' = [c \in Conn |-> IF age[c] > PingTimeout \/ c \notin ToSet(pinglist)
                                THEN age[c] ELSE age[c] + 1]
      /\ UNCHANGED <<io, pinglist, uuidmap, wq, nodes, async, jobs, devices, rows, local,
                     cl, sock, back, budget>>
    BY DEF Tick, outVars, dbVars, netVars
<1>2. age' \in [Conn -> 0..(PingTimeout + 1)]
    <2>1. ASSUME NEW x \in Conn PROVE age'[x] \in 0..(PingTimeout + 1)
        <3>1. age[x] \in 0..(PingTimeout + 1) /\ PingTimeout \in Nat
            BY ServerAssumption DEF Inv, Typed
        <3>2. QED
            BY <1>1, <3>1
    <2>2. QED
        BY <1>1, <2>1
<1>3. Typed'
    BY <1>1, <1>2 DEF Inv, Typed
<1>4. Idle' /\ Named' /\ Linked'
    BY <1>1 DEF Inv, Idle, Named, Linked, MappedOwnDevice
<1>5. Sorted(pinglist, age')
    <2> SUFFICES ASSUME NEW i \in 1..Len(pinglist), NEW k \in 1..Len(pinglist), i < k
                 PROVE  pinglist[i] # pinglist[k] /\ age'[pinglist[i]] >= age'[pinglist[k]]
        BY DEF Sorted
    <2>1. PICK x, y : x = pinglist[i] /\ y = pinglist[k]
        OBVIOUS
    <2>2. x # y /\ age[x] >= age[y]
        BY <2>1 DEF Inv, Sorted
    <2>3. x \in Conn /\ y \in Conn /\ x \in ToSet(pinglist) /\ y \in ToSet(pinglist)
        BY <2>1, Fields, ElementOfSeq, InList
    <2>4. age[x] \in 0..(PingTimeout + 1) /\ age[y] \in 0..(PingTimeout + 1) /\ PingTimeout \in Nat
        BY <2>3, ServerAssumption DEF Inv, Typed
    <2>5. /\ age'[x] = IF age[x] > PingTimeout THEN age[x] ELSE age[x] + 1
          /\ age'[y] = IF age[y] > PingTimeout THEN age[y] ELSE age[y] + 1
        BY <1>1, <2>3
    <2>6. QED
        BY <2>1, <2>2, <2>4, <2>5
<1>6. QED
    BY <1>1, <1>3, <1>4, <1>5 DEF Inv

LEMMA PingTimerStep == ASSUME Inv, PingTimer PROVE Inv'
<1>1. PICK n \in 1..Len(pinglist) :
          /\ pinglist' = SubSeq(pinglist, n + 1, Len(pinglist))
          /\ uuidmap' = [d \in Device |->
                IF \E i \in 1..n : io[pinglist[i]].uuid = d THEN NoConn ELSE uuidmap[d]]
          /\ UNCHANGED <<io, age, wq, nodes, async, jobs, devices, rows, local,
                         cl, sock, back, budget>>
    BY DEF PingTimer, outVars, dbVars, netVars
<1>2. /\ pinglist' \in Seq(Conn) /\ Sorted(pinglist', age)
      /\ ToSet(pinglist') \subseteq ToSet(pinglist)
    BY <1>1, Fields, DropSorted
<1>3. /\ uuidmap' \in [Device -> Conn \cup {NoConn}]
      /\ \A d \in Device : uuidmap'[d] \in {NoConn, uuidmap[d]}
    BY <1>1, Fields
<1>4. Typed'
    BY <1>1, <1>2, <1>3 DEF Inv, Typed
<1>5. Idle'
    <2>1. \A x \in Conn : cl[x].st = "none" => \A d \in Device : uuidmap'[d] # x
        BY <1>3, ServerAssumption DEF Inv, Idle
    <2>2. QED
        BY <1>1, <1>2, <2>1 DEF Inv, Idle
<1>6. Linked'
    <2>1. MappedOwnDevice'
        BY <1>1, <1>3, MapKept
    <2>2. QED
        BY <1>1, <2>1 DEF Inv, Linked
<1>7. QED
    BY <1>1, <1>2, <1>4, <1>5, <1>6 DEF Inv, Named, Sorted

\* A node that writes goes to the end of the list with age 0, if it is in it.
LEMMA MoveSorted ==
    ASSUME Inv, NEW c \in Conn, NEW b \in [Conn -> Nat],
           b = [age EXCEPT ![c] = IF c \in ToSet(pinglist) THEN 0 ELSE @]
    PROVE  /\ PingMove2Back(pinglist, c) \in Seq(Conn)
           /\ ToSet(PingMove2Back(pinglist, c)) \subseteq ToSet(pinglist)
           /\ Sorted(PingMove2Back(pinglist, c), b)
<1>1. pinglist \in Seq(Conn) /\ Sorted(pinglist, age) /\ age \in [Conn -> 0..(PingTimeout + 1)]
    BY DEF Inv, Typed
<1>2. CASE c \in ToSet(pinglist)
    <2>1. PICK z : z = Erase(pinglist, c)
        OBVIOUS
    <2>2. /\ z \in Seq(Conn) /\ Sorted(z, age) /\ c \notin ToSet(z)
          /\ ToSet(z) \subseteq ToSet(pinglist)
        BY <1>1, <2>1, EraseSorted
    <2>3. PingMove2Back(pinglist, c) = Append(z, c)
        BY <1>2, <2>1 DEF PingMove2Back
    <2>4. b[c] = 0 /\ \A x \in Conn : b[x] \in Nat /\ (x # c => b[x] = age[x])
        BY <1>1, <1>2
    <2>5. Append(z, c) \in Seq(Conn) /\ ToSet(Append(z, c)) = ToSet(z) \cup {c}
        BY <2>2, AppendIn
    <2>6. Sorted(Append(z, c), b)
        BY <2>2, <2>4, AppendSorted
    <2>7. QED
        BY <1>2, <2>2, <2>3, <2>5, <2>6
<1>3. CASE c \notin ToSet(pinglist)
    <2>1. b = age
        BY <1>1, <1>3
    <2>2. PingMove2Back(pinglist, c) = pinglist
        BY <1>3 DEF PingMove2Back
    <2>3. QED
        BY <1>1, <2>1, <2>2
<1>4. QED
    BY <1>2, <1>3

LEMMA WriteFrameStep ==
    ASSUME Inv, NEW c \in Conn, NEW written \in BOOLEAN, WriteFrame(c, written)
    PROVE  Inv'
<1>1. PICK m, put, moved : /\ m = Head(wq[c]) /\ put = Register(c, m.type)
                          /\ moved = PingMove2Back(pinglist, c)
    OBVIOUS
<1>2. /\ wq[c] # <<>> /\ cl[c].st # "none"
      /\ io' = [io EXCEPT ![c].isConnect = @ \/ MarksConnected(m.type)]
      /\ age' = [age EXCEPT ![c] = IF c \in ToSet(pinglist) THEN 0 ELSE @]
      /\ uuidmap' = put \/ uuidmap' = UuidDelete(put, io[c].uuid)
      /\ pinglist' = moved \/ pinglist' = Erase(moved, c)
      /\ UNCHANGED <<nodes, async, jobs, devices, rows, local, cl, sock, budget>>
    BY <1>1, AliveOpen DEF WriteFrame, dbVars
<1>3. \/ /\ wq' = [wq EXCEPT ![c] = Tail(@)]
         /\ back' = [back EXCEPT ![c] =
                       IF cl[c].st \in {"closed", "gone"} THEN @ ELSE Append(@, m)]
      \/ UNCHANGED <<wq, back>>
    BY <1>1 DEF WriteFrame
<1>4. m \in Response /\ Tail(wq[c]) \in Seq(Response)
    BY <1>1, <1>2, TailOfSeq DEF Inv, Typed
<1>5. /\ wq' \in [Conn -> Seq(Response)] /\ back' \in [Conn -> Seq(Response)]
      /\ \A x \in Conn : back'[x] # back[x] => x = c /\ cl[c].st \notin {"none", "closed", "gone"}
    <2>1. wq \in [Conn -> Seq(Response)] /\ back \in [Conn -> Seq(Response)]
        BY DEF Inv, Typed
    <2>2. Append(back[c], m) \in Seq(Response)
        BY <1>4, <2>1
    <2>3. QED
        BY <1>2, <1>3, <1>4, <2>1, <2>2
<1>6. /\ io' \in [Conn -> Node]
      /\ \A x \in Conn : /\ io'[x].uuid = io[x].uuid
                         /\ io[x].isConnect => io'[x].isConnect
      /\ m.type = "clientconnectres" => io'[c].isConnect
    <2>1. PICK w : w = (io[c].isConnect \/ m.type = "clientconnectres")
        OBVIOUS
    <2>2. io[c] \in Node /\ w \in BOOLEAN
        BY <2>1, Fields
    <2>3. PICK b : b = [io[c] EXCEPT !.isConnect = w]
        OBVIOUS
    <2>4. b \in Node
        BY <2>2, <2>3 DEF Node
    <2>5. b.uuid = io[c].uuid /\ b.isConnect = w
        BY <2>2, <2>3 DEF Node
    <2>6. io' = [io EXCEPT ![c] = b]
        BY <1>2, <2>1, <2>3 DEF MarksConnected
    <2>7. QED
        BY <2>1, <2>4, <2>5, <2>6, Fields
<1>7. age' \in [Conn -> 0..(PingTimeout + 1)] /\ age' \in [Conn -> Nat]
    <2>1. 0 \in 0..(PingTimeout + 1)
        BY ServerAssumption
    <2>2. age' \in [Conn -> 0..(PingTimeout + 1)]
        BY <1>2, <2>1 DEF Inv, Typed
    <2>3. QED
        BY <2>2
<1>8. /\ pinglist' \in Seq(Conn) /\ Sorted(pinglist', age')
      /\ ToSet(pinglist') \subseteq ToSet(pinglist)
    <2>1. PICK b : b = age'
        OBVIOUS
    <2>2. moved \in Seq(Conn) /\ ToSet(moved) \subseteq ToSet(pinglist) /\ Sorted(moved, b)
        BY <1>1, <1>2, <1>7, <2>1, MoveSorted
    <2>3. /\ Erase(moved, c) \in Seq(Conn) /\ Sorted(Erase(moved, c), b)
          /\ ToSet(Erase(moved, c)) \subseteq ToSet(moved)
        BY <2>2, EraseSorted
    <2>4. QED
        BY <1>2, <2>1, <2>2, <2>3
<1>9. /\ uuidmap' \in [Device -> Conn \cup {NoConn}]
      /\ \A d \in Device : uuidmap'[d] \in {NoConn, uuidmap[d], c}
      /\ \A d \in Device : uuidmap'[d] = c =>
            uuidmap[d] = c \/ (d = io[c].uuid /\ m.type = "clientconnectres")
    <2>1. /\ put \in [Device -> Conn \cup {NoConn}]
          /\ \A d \in Device : put[d] = uuidmap[d]
                \/ (put[d] = c /\ d = io[c].uuid /\ m.type = "clientconnectres")
        BY <1>1, Fields DEF Register
    <2>2. /\ UuidDelete(put, io[c].uuid) \in [Device -> Conn \cup {NoConn}]
          /\ \A d \in Device : UuidDelete(put, io[c].uuid)[d] \in {NoConn, put[d]}
        BY <2>1 DEF UuidDelete
    <2>3. NoConn # c
        BY ServerAssumption
    <2>4. QED
        BY <1>2, <2>1, <2>2, <2>3
<1>10. Typed'
    BY <1>2, <1>5, <1>6, <1>7, <1>8, <1>9 DEF Inv, Typed
<1>11. Idle'
    <2> SUFFICES ASSUME NEW x \in Conn
                 PROVE  /\ cl[x].st = "none" =>
                              /\ x \notin ToSet(pinglist') /\ x \notin nodes /\ sock[x] = <<>>
                              /\ \A d \in Device : uuidmap'[d] # x
                              /\ \A i \in 1..Len(jobs) : jobs[i].conn # x
                        /\ cl[x].st \in {"none", "closed", "gone"} => back'[x] = <<>>
        BY <1>2 DEF Idle
    <2>1. cl[x].st = "none" => \A d \in Device : uuidmap'[d] # x
        BY <1>2, <1>9, ServerAssumption DEF Inv, Idle
    <2>2. QED
        BY <1>5, <1>8, <2>1 DEF Inv, Idle
<1>12. Linked'
    <2>1. ASSUME NEW d \in Device, uuidmap'[d] # NoConn
          PROVE  io'[uuidmap'[d]].uuid = d /\ io'[uuidmap'[d]].isConnect
        <3>1. CASE uuidmap'[d] = uuidmap[d]
            <4>1. PICK x : x = uuidmap[d]
                OBVIOUS
            <4>2. x \in Conn /\ io[x].uuid = d /\ io[x].isConnect
                BY <2>1, <3>1, <4>1, Fields DEF Inv, Linked, MappedOwnDevice
            <4>3. QED
                BY <1>6, <3>1, <4>1, <4>2
        <3>2. CASE uuidmap'[d] = c /\ d = io[c].uuid /\ m.type = "clientconnectres"
            BY <1>6, <3>2
        <3>3. QED
            BY <1>9, <2>1, <3>1, <3>2
    <2>2. MappedOwnDevice'
        BY <2>1 DEF MappedOwnDevice
    <2>3. QED
        BY <1>2, <1>6, <2>2 DEF Inv, Linked
<1>13. QED
    BY <1>2, <1>8, <1>10, <1>11, <1>12 DEF Inv, Named

LEMMA JobStep == ASSUME Inv, RunJob PROVE Inv'
<1>1. PICK j \in Job :
          /\ 1 \in 1..Len(jobs) /\ j = jobs[1] /\ JobEffect(j)
          /\ jobs' \in Seq(Job)
          /\ \A i \in 1..Len(jobs') : jobs'[i] = jobs[i + 1] /\ i + 1 \in 1..Len(jobs)
          /\ UNCHANGED <<age, pinglist, uuidmap, netVars>>
    BY JobRuns DEF Inv
<1>2. UNCHANGED <<age, pinglist, uuidmap, cl, sock, back>>
    BY <1>1 DEF netVars
<1>3. j.conn \in Conn /\ cl[j.conn].st # "none" /\ j.msg.uuid = cl[j.conn].uuid
    BY <1>1, Fields DEF Inv, Idle, Linked
<1>4. Typed'
    BY <1>1, <1>2 DEF Inv, Typed, JobEffect
<1>5. Idle'
    <2> SUFFICES ASSUME NEW x \in Conn, cl[x].st = "none"
                 PROVE  x \notin nodes' /\ \A i \in 1..Len(jobs') : jobs'[i].conn # x
        BY <1>2 DEF Inv, Idle
    <2>1. /\ x # j.conn /\ x \notin nodes /\ \A d \in Device : uuidmap[d] # x
          /\ \A i \in 1..Len(jobs) : jobs[i].conn # x
        BY <1>3 DEF Inv, Idle
    <2>2. x \notin nodes'
        BY <1>1, <2>1 DEF JobEffect
    <2>3. QED
        BY <1>1, <2>1, <2>2
<1>6. Linked'
    <2>1. \A x \in Conn : io'[x].uuid \in {NoDevice, cl[x].uuid}
        BY <1>1, <1>3 DEF Inv, Linked, JobEffect
    <2>2. \A i \in 1..Len(jobs') : jobs'[i].msg.uuid = cl[jobs'[i].conn].uuid
        BY <1>1 DEF Inv, Linked
    <2>3. ASSUME NEW d \in Device, uuidmap[d] # NoConn
          PROVE  io'[uuidmap[d]].uuid = d /\ io'[uuidmap[d]].isConnect
        <3>1. PICK x : x = uuidmap[d]
            OBVIOUS
        <3>2. x \in Conn /\ io[x].uuid = d /\ io[x].isConnect
            BY <2>3, <3>1, Fields DEF Inv, Linked, MappedOwnDevice
        <3>3. cl[x].uuid = d
            BY <3>2, ServerAssumption DEF Inv, Linked
        <3>4. io'[x].uuid = d /\ io'[x].isConnect
            BY <1>1, <1>3, <3>2, <3>3 DEF JobEffect
        <3>5. QED
            BY <3>1, <3>4
    <2>4. MappedOwnDevice'
        BY <1>2, <2>3 DEF MappedOwnDevice
    <2>5. QED
        BY <1>2, <2>1, <2>2, <2>4 DEF Inv, Linked
<1>7. QED
    BY <1>2, <1>4, <1>5, <1>6 DEF Inv, Named, Sorted

LEMMA RestartStep ==
    ASSUME Inv, Restart, budget' \in [faults : Nat, crashes : Nat] PROVE Inv'
<1>1. ToSet(<<>>) = {} /\ Len(<<>>) = 0
    BY DEF ToSet
<1>2. /\ pinglist' = <<>> /\ uuidmap' = [d \in Device |-> NoConn]
      /\ jobs' = <<>> /\ nodes' = {} /\ async' = FALSE
      /\ wq' = [c \in Conn |-> <<>>] /\ local' = EmptyInfo
      /\ UNCHANGED <<io, age, devices, rows, cl, sock, back>>
    BY DEF Restart, netVars
<1>3. Typed'
    <2>1. EmptyInfo \in Doc
        BY Stamps DEF EmptyInfo, Doc
    <2>2. \A S : <<>> \in Seq(S)
        BY EmptySeq
    <2>3. QED
        BY <1>2, <2>1, <2>2 DEF Inv, Typed
<1>4. Idle'
    BY <1>1, <1>2, ServerAssumption DEF Inv, Idle
<1>5. Linked'
    BY <1>1, <1>2 DEF Inv, Linked, MappedOwnDevice
<1>6. QED
    BY <1>1, <1>2, <1>3, <1>4, <1>5 DEF Inv, Named, Sorted

LEMMA CrashStep == ASSUME Inv, Crash PROVE Inv'
<1>1. PICK n : n = budget.crashes - 1
    OBVIOUS
<1>2. budget \in [faults : Nat, crashes : Nat]
    BY DEF Inv, Typed
<1>3. Restart /\ budget.crashes > 0 /\ budget' = [budget EXCEPT !.crashes = n]
    BY <1>1 DEF Crash
<1>4. n \in Nat
    BY <1>1, <1>2, <1>3
<1>5. budget' \in [faults : Nat, crashes : Nat]
    BY <1>2, <1>3, <1>4
<1>6. QED
    BY <1>3, <1>5, RestartStep

LEMMA AbortStep == ASSUME Inv, AbortOnConnect PROVE Inv'
<1>1. Restart /\ budget' = budget
    BY DEF AbortOnConnect
<1>2. budget' \in [faults : Nat, crashes : Nat]
    BY <1>1 DEF Inv, Typed
<1>3. QED
    BY <1>1, <1>2, RestartStep

\* A step of the client that leaves its user and device alone and sends nothing.
LEMMA ClientStep ==
    ASSUME Inv, NEW c \in Conn, NEW k \in Client, cl' = [cl EXCEPT ![c] = k],
           k.user = cl[c].user, k.uuid = cl[c].uuid,
           cl[c].st # "none", k.st # "none",
           k.st \in {"open", "connecting", "ready"} =>
               cl[c].st \in {"open", "connecting", "ready"},
           back' \in [Conn -> Seq(Response)],
           \A x \in Conn : back'[x] # back[x] => x = c,
           k.st \in {"closed", "gone"} => back'[c] = <<>>,
           UNCHANGED <<loopVars, outVars, jobs, dbVars, sock, budget>>
    PROVE  Inv'
<1>1. UNCHANGED <<io, age, pinglist, uuidmap, wq, nodes, async, jobs, devices, rows, local,
                 sock, budget>>
    BY DEF loopVars, outVars, dbVars
<1>2. \A x \in Conn : cl'[x] = IF x = c THEN k ELSE cl[x]
    BY Fields
<1>3. Typed'
    BY <1>1 DEF Inv, Typed
<1>4. Named'
    BY <1>2 DEF Inv, Named
<1>5. Idle'
    <2> SUFFICES ASSUME NEW x \in Conn
                 PROVE  /\ cl'[x].st = "none" =>
                              /\ x \notin ToSet(pinglist) /\ x \notin nodes /\ sock[x] = <<>>
                              /\ \A d \in Device : uuidmap[d] # x
                              /\ \A i \in 1..Len(jobs) : jobs[i].conn # x
                        /\ cl'[x].st \in {"none", "closed", "gone"} => back'[x] = <<>>
        BY <1>1 DEF Idle
    <2>1. CASE x = c
        BY <1>2, <2>1
    <2>2. CASE x # c
        BY <1>2, <2>2 DEF Inv, Idle
    <2>3. QED
        BY <2>1, <2>2
<1>6. Linked'
    <2>1. \A x \in Conn : cl'[x].uuid = cl[x].uuid
        BY <1>2
    <2>2. \A i \in 1..Len(jobs) : jobs[i].msg.uuid = cl'[jobs[i].conn].uuid
        BY <2>1, Fields DEF Inv, Linked
    <2>3. QED
        BY <1>1, <2>1, <2>2 DEF Inv, Linked, MappedOwnDevice
<1>7. QED
    BY <1>1, <1>3, <1>4, <1>5, <1>6 DEF Inv, Sorted

LEMMA ClientReceiveStep == ASSUME Inv, NEW c \in Conn, ClientReceive(c) PROVE Inv'
<1>1. PICK m, q : m = Head(back[c]) /\ q = Tail(back[c])
    OBVIOUS
<1>2. /\ back[c] # <<>> /\ back' = [back EXCEPT ![c] = q]
      /\ UNCHANGED <<loopVars, outVars, jobs, dbVars, sock, budget>>
    BY <1>1 DEF ClientReceive
<1>3. m \in Response /\ q \in Seq(Response)
    BY <1>1, <1>2, Fields, TailOfSeq
<1>4. cl[c] \in Client /\ cl[c].st \in {"open", "connecting", "ready"}
    BY <1>2, Fields DEF Inv, Idle, Client
<1>5. PICK k : k = Received(cl[c], m)
    OBVIOUS
<1>6. PICK w, st, sid :
          /\ w = IF m.type = "loginnoti" THEN cl[c].wait ELSE cl[c].wait - 1
          /\ st = IF ~(m.type = "clientconnectres") THEN cl[c].st
                  ELSE IF m.e = 0 THEN "ready" ELSE "open"
          /\ sid = IF m.type = "clientconnectres" /\ m.e = 0 THEN m.sid ELSE cl[c].sid
    OBVIOUS
<1>7. w \in Int /\ sid \in Nat /\ st \in {"open", "connecting", "ready"}
    <2>1. cl[c].wait \in Int /\ cl[c].sid \in Nat /\ m.sid \in Nat
        BY <1>3, <1>4 DEF Client, Response
    <2>2. QED
        BY <1>4, <1>6, <2>1
<1>8. k \in Client /\ k.user = cl[c].user /\ k.uuid = cl[c].uuid /\ k.st = st
    <2>1. k = [cl[c] EXCEPT !.wait = w, !.st = st, !.sid = sid]
        BY <1>5, <1>6 DEF Received
    <2>2. QED
        BY <1>4, <1>7, <2>1 DEF Client
<1>9. cl' = [cl EXCEPT ![c] = k]
    BY <1>1, <1>5 DEF ClientReceive
<1>10. back' \in [Conn -> Seq(Response)] /\ \A x \in Conn : back'[x] # back[x] => x = c
    BY <1>2, <1>3, Fields
<1>11. QED
    BY <1>2, <1>4, <1>7, <1>8, <1>9, <1>10, ClientStep

LEMMA ClientLeaveStep == ASSUME Inv, NEW c \in Conn, ClientLeave(c) PROVE Inv'
<1>1. PICK st \in {"closed", "gone"} : cl' = [cl EXCEPT ![c].st = st]
    BY DEF ClientLeave
<1>2. PICK k : k = [cl[c] EXCEPT !.st = st]
    OBVIOUS
<1>3. /\ cl[c].st # "none" /\ back' = [back EXCEPT ![c] = <<>>]
      /\ UNCHANGED <<loopVars, outVars, jobs, dbVars, sock, budget>>
    BY DEF ClientLeave
<1>4. k \in Client /\ k.user = cl[c].user /\ k.uuid = cl[c].uuid /\ k.st = st
    BY <1>2, Fields, ZenonT(40) DEF Client
<1>5. cl' = [cl EXCEPT ![c] = k]
    BY <1>1, <1>2
<1>6. /\ back' \in [Conn -> Seq(Response)] /\ back'[c] = <<>>
      /\ \A x \in Conn : back'[x] # back[x] => x = c
    BY <1>3, Fields, EmptySeq
<1>7. QED
    BY <1>3, <1>4, <1>5, <1>6, ClientStep

LEMMA ClientSeesCloseStep == ASSUME Inv, NEW c \in Conn, ClientSeesClose(c) PROVE Inv'
<1>1. PICK k : k = [cl[c] EXCEPT !.st = "closed"]
    OBVIOUS
<1>2. /\ cl[c].st # "none" /\ back[c] = <<>> /\ back' = back
      /\ cl' = [cl EXCEPT ![c] = k]
      /\ UNCHANGED <<loopVars, outVars, jobs, dbVars, sock, budget>>
    BY <1>1 DEF ClientSeesClose
<1>3. k \in Client /\ k.user = cl[c].user /\ k.uuid = cl[c].uuid /\ k.st = "closed"
    BY <1>1, Fields DEF Client
<1>4. /\ back' \in [Conn -> Seq(Response)] /\ back'[c] = <<>>
      /\ \A x \in Conn : back'[x] # back[x] => x = c
    BY <1>2, Fields
<1>5. QED
    BY <1>2, <1>3, <1>4, ClientStep

\* A client that can send adds a message that names its own device.
LEMMA SendStep ==
    ASSUME Inv, NEW c \in Conn, NEW type \in Checked \cup Unchecked, NEW sid \in Nat,
           NEW ok \in BOOLEAN, Send(c, type, sid, ok), cl[c].st \in {"open", "ready"},
           NEW st \in {"open", "connecting", "ready"}, NEW n \in Nat,
           cl' = [cl EXCEPT ![c] = Sent(cl[c], st, n)]
    PROVE  Inv'
<1>1. PICK m : m = [type |-> type, sid |-> sid, user |-> cl[c].user, uuid |-> cl[c].uuid,
                    ok |-> ok]
    OBVIOUS
<1>2. /\ sock' = [sock EXCEPT ![c] = Append(@, m)]
      /\ UNCHANGED <<io, age, pinglist, uuidmap, wq, nodes, async, jobs, devices, rows, local,
                     back, budget>>
    BY <1>1 DEF Send, loopVars, outVars, dbVars
<1>3. cl[c] \in Client /\ cl[c].user \in User /\ cl[c].uuid \in Device
    BY Fields DEF Inv, Named
<1>4. m \in Request /\ m.uuid = cl[c].uuid
    BY <1>1, <1>3 DEF Request
<1>5. PICK k : k = Sent(cl[c], st, n)
    OBVIOUS
<1>6. k \in Client /\ k.user = cl[c].user /\ k.uuid = cl[c].uuid /\ k.st = st
    <2>1. PICK a, b : a = cl[c].sent + 1 /\ b = cl[c].wait + 1
        OBVIOUS
    <2>2. a \in Nat /\ b \in Int
        BY <1>3, <2>1 DEF Client
    <2>3. k = [cl[c] EXCEPT !.st = st, !.sid = n, !.sent = a, !.wait = b]
        BY <1>5, <2>1 DEF Sent
    <2>4. QED
        BY <1>3, <2>2, <2>3 DEF Client
<1>7. cl' = [cl EXCEPT ![c] = k]
    BY <1>5
<1>8. \A x \in Conn : cl'[x] = IF x = c THEN k ELSE cl[x]
    BY <1>7, Fields
<1>9. PICK q : q = Append(sock[c], m)
    OBVIOUS
<1>10. /\ q \in Seq(Request)
       /\ \A i \in 1..Len(q) : q[i] = m \/ (i \in 1..Len(sock[c]) /\ q[i] = sock[c][i])
    BY <1>4, <1>9, Fields, AppendElem
<1>11. sock' \in [Conn -> Seq(Request)] /\ \A x \in Conn : sock'[x] = IF x = c THEN q ELSE sock[x]
    BY <1>2, <1>9, <1>10, Fields
<1>12. Typed'
    BY <1>2, <1>6, <1>7, <1>11 DEF Inv, Typed
<1>13. Named'
    BY <1>3, <1>6, <1>8 DEF Inv, Named
<1>14. Idle'
    <2> SUFFICES ASSUME NEW x \in Conn
                 PROVE  /\ cl'[x].st = "none" =>
                              /\ x \notin ToSet(pinglist) /\ x \notin nodes /\ sock'[x] = <<>>
                              /\ \A d \in Device : uuidmap[d] # x
                              /\ \A i \in 1..Len(jobs) : jobs[i].conn # x
                        /\ cl'[x].st \in {"none", "closed", "gone"} => back[x] = <<>>
        BY <1>2 DEF Idle
    <2>1. CASE x = c
        BY <1>6, <1>8, <2>1
    <2>2. CASE x # c
        BY <1>8, <1>11, <2>2 DEF Inv, Idle
    <2>3. QED
        BY <2>1, <2>2
<1>15. Linked'
    <2>1. \A x \in Conn : cl'[x].uuid = cl[x].uuid
        BY <1>6, <1>8
    <2>2. \A i \in 1..Len(jobs) : jobs[i].msg.uuid = cl'[jobs[i].conn].uuid
        BY <2>1, Fields DEF Inv, Linked
    <2>3. ASSUME NEW x \in Conn, NEW i \in 1..Len(sock'[x])
          PROVE  sock'[x][i].uuid = cl[x].uuid
        <3>1. \A l \in 1..Len(sock[x]) : sock[x][l].uuid = cl[x].uuid
            BY DEF Inv, Linked
        <3>2. CASE x = c
            <4>1. i \in 1..Len(q) /\ sock'[x][i] = q[i]
                BY <1>11, <3>2
            <4>2. QED
                BY <1>4, <1>10, <3>1, <3>2, <4>1
        <3>3. CASE x # c
            BY <1>11, <3>1, <3>3
        <3>4. QED
            BY <3>2, <3>3
    <2>4. QED
        BY <1>2, <2>1, <2>2, <2>3 DEF Inv, Linked, MappedOwnDevice
<1>16. QED
    BY <1>2, <1>12, <1>13, <1>14, <1>15 DEF Inv, Sorted

LEMMA ClientSendStep == ASSUME Inv, NEW c \in Conn, ClientSend(c) PROVE Inv'
<1>1. cl[c] \in Client /\ cl[c].sid \in Nat /\ Succ(cl[c].sid) \in Nat
    <2>1. cl[c] \in Client /\ cl[c].sid \in Nat
        BY Fields DEF Client
    <2>2. QED
        BY <2>1, ServerAssumption DEF Succ
<1>2. {"login", "ping", "clientconnect", "request", "logout", "clientdisconnect", "early"}
          \subseteq Checked \cup Unchecked
    BY DEF Checked, Unchecked
<1>3. 0 \in Nat /\ MinSessionID \in Nat
    BY ServerAssumption
<1>4. CASE /\ cl[c].st \in {"open", "ready"}
           /\ \E type \in {"login", "ping"}, ok \in BOOLEAN : Send(c, type, 0, ok)
           /\ cl' = [cl EXCEPT ![c] = Sent(cl[c], cl[c].st, cl[c].sid)]
    <2>1. PICK type \in {"login", "ping"}, ok \in BOOLEAN : Send(c, type, 0, ok)
        BY <1>4
    <2>2. PICK st, n, sid : st = cl[c].st /\ n = cl[c].sid /\ sid = 0
        OBVIOUS
    <2>3. /\ type \in Checked \cup Unchecked /\ n \in Nat /\ sid \in Nat
          /\ Send(c, type, sid, ok) /\ ok \in BOOLEAN
          /\ st \in {"open", "connecting", "ready"} /\ cl[c].st \in {"open", "ready"}
          /\ cl' = [cl EXCEPT ![c] = Sent(cl[c], st, n)]
        BY <1>1, <1>2, <1>4, <2>1, <2>2
    <2>4. Send(c, type, sid, TRUE) \/ Send(c, type, sid, FALSE)
        BY <2>3
    <2>5. TRUE \in BOOLEAN /\ FALSE \in BOOLEAN
        OBVIOUS
    <2>6. CASE Send(c, type, sid, TRUE)
        BY <2>3, <2>5, <2>6, SendStep
    <2>7. CASE Send(c, type, sid, FALSE)
        BY <2>3, <2>5, <2>7, SendStep
    <2>8. QED
        BY <2>4, <2>6, <2>7
<1>5. CASE /\ cl[c].st \in {"open", "ready"}
           /\ Send(c, "clientconnect", 0, TRUE)
           /\ cl' = [cl EXCEPT ![c] = Sent(cl[c], "connecting", cl[c].sid)]
    BY <1>1, <1>2, <1>3, <1>5, SendStep
<1>6. CASE /\ cl[c].st = "ready"
           /\ \E type \in {"request", "logout", "clientdisconnect"} :
                 Send(c, type, cl[c].sid, TRUE)
           /\ cl' = [cl EXCEPT ![c] = Sent(cl[c], "ready", Succ(cl[c].sid))]
    <2>1. PICK type \in {"request", "logout", "clientdisconnect"} :
              Send(c, type, cl[c].sid, TRUE)
        BY <1>6
    <2>2. PICK n, sid : n = Succ(cl[c].sid) /\ sid = cl[c].sid
        OBVIOUS
    <2>3. /\ type \in Checked \cup Unchecked /\ n \in Nat /\ sid \in Nat /\ TRUE \in BOOLEAN
          /\ Send(c, type, sid, TRUE) /\ cl[c].st \in {"open", "ready"}
          /\ cl' = [cl EXCEPT ![c] = Sent(cl[c], "ready", n)]
        BY <1>1, <1>2, <1>6, <2>1, <2>2
    <2>4. QED
        BY <2>3, SendStep
<1>7. CASE /\ cl[c].st = "open"
           /\ \E sid \in {0, MinSessionID} : Send(c, "early", sid, TRUE)
           /\ cl' = [cl EXCEPT ![c] = Sent(cl[c], "open", cl[c].sid)]
    <2>1. PICK sid \in {0, MinSessionID} : Send(c, "early", sid, TRUE)
        BY <1>7
    <2>2. sid \in Nat
        BY <1>3
    <2>3. QED
        BY <1>1, <1>2, <1>7, <2>1, <2>2, SendStep
<1>8. QED
    BY <1>4, <1>5, <1>6, <1>7 DEF ClientSend

LEMMA NextInv == Inv /\ [Next]_vars => Inv'
<1> SUFFICES ASSUME Inv, [Next]_vars PROVE Inv'
    OBVIOUS
<1>1. ASSUME NEW c \in Conn, NEW u \in User, NEW d \in Device, SocketAccept(c, u, d)
      PROVE  Inv'
    BY <1>1, AcceptStep
<1>2. ASSUME NEW c \in Conn, ReadMessage(c) \/ ReadError(c) PROVE Inv'
    BY <1>2, ReadMessageStep, ReadErrorStep
<1>3. ASSUME NEW c \in Conn, Write(c) PROVE Inv'
    BY <1>3, WriteFrameStep, WriteStopStep DEF Write
<1>4. ASSUME NEW c \in Conn, ClientSend(c) \/ ClientReceive(c) PROVE Inv'
    BY <1>4, ClientSendStep, ClientReceiveStep
<1>5. ASSUME NEW c \in Conn, ClientLeave(c) \/ ClientSeesClose(c) PROVE Inv'
    BY <1>5, ClientLeaveStep, ClientSeesCloseStep
<1>6. CASE StartWrite \/ RunJob
    BY <1>6, StartWriteStep, JobStep
<1>7. CASE PingTimer \/ Tick
    BY <1>7, PingTimerStep, TickStep
<1>8. CASE Crash \/ AbortOnConnect
    BY <1>8, CrashStep, AbortStep
<1>9. CASE UNCHANGED vars
    <2>1. UNCHANGED <<io, age, pinglist, uuidmap, wq, nodes, async, jobs, devices, rows, local,
                     cl, sock, back, budget>>
        BY <1>9 DEF vars, loopVars, outVars, dbVars, netVars
    <2>2. Typed'
        BY <2>1 DEF Inv, Typed
    <2>3. Named' /\ Idle'
        BY <2>1 DEF Inv, Named, Idle
    <2>4. Linked' /\ Sorted(pinglist, age)'
        BY <2>1 DEF Inv, Linked, MappedOwnDevice, Sorted
    <2>5. QED
        BY <2>2, <2>3, <2>4 DEF Inv
<1>10. QED
    BY <1>1, <1>2, <1>3, <1>4, <1>5, <1>6, <1>7, <1>8, <1>9 DEF Next

LEMMA Invariant == Spec => []Inv
BY InitInv, NextInv, PTL DEF Spec

-----------------------------------------------------------------------------
(* Which documents a job rewrites.                                         *)

\* A document is kept under its own uuid.
Keyed(r) == \A d \in Device : r[d] # NoRow => r[d].uuid = d

\* The documents after a job: besides those of the devices in s nothing has
\* changed, unless the device named by the message had no document.
Rewritten(j, s) ==
    /\ Keyed(rows')
    /\ \A d \in Device : rows'[d] # rows[d] => d \in s \/ rows[j.msg.uuid] = NoRow

LEMMA NoRowDoc == NoRow \notin Doc
<1>1. ASSUME NEW f \in [User -> Stamp]
      PROVE  f \in [User -> 0..MaxSessionID]
    BY Stamps
<1>2. Doc \subseteq Row
    BY <1>1 DEF Doc, Row
<1>3. QED
    BY <1>2, RowAssumption

\* updateSessionID keeps every document where it was.
LEMMA SessionKeyed ==
    ASSUME NEW r \in [Device -> Doc \cup {NoRow}], Keyed(r), NEW x, NEW u,
           NEW sid \in Stamp, NEW z, z = UpdateSessionID(r, x, u, sid)
    PROVE  /\ Keyed(z)
           /\ \A d \in Device : z[d] = NoRow <=> r[d] = NoRow
           /\ \A d \in Device : z[d] # r[d] => d = x
<1> SUFFICES ASSUME NEW d \in Device
             PROVE  /\ z[d] # NoRow => z[d].uuid = d
                    /\ z[d] = NoRow <=> r[d] = NoRow
                    /\ z[d] # r[d] => d = x
    BY DEF Keyed
<1>1. z[d] = IF d = x /\ r[d] # NoRow /\ r[d].users[u] # 0
             THEN [r[d] EXCEPT !.users[u] = sid] ELSE r[d]
    BY DEF UpdateSessionID
<1>2. CASE r[d] = NoRow
    BY <1>1, <1>2
<1>3. CASE r[d] # NoRow
    <2>1. r[d] \in Doc /\ r[d].uuid = d
        BY <1>3 DEF Keyed
    <2>2. PICK f : f = [r[d].users EXCEPT ![u] = sid]
        OBVIOUS
    <2>3. f \in [User -> Stamp]
        BY <2>1, <2>2 DEF Doc
    <2>4. PICK k : k = [r[d] EXCEPT !.users = f]
        OBVIOUS
    <2>5. k \in Doc /\ k.uuid = d
        BY <2>1, <2>3, <2>4 DEF Doc
    <2>6. z[d] = k \/ z[d] = r[d]
        BY <1>1, <2>2, <2>4
    <2>7. QED
        BY <1>1, <1>3, <2>1, <2>5, <2>6, NoRowDoc
<1>4. QED
    BY <1>2, <1>3

\* updateUUID writes the document of its argument's uuid.
LEMMA UpdateKeyed ==
    ASSUME NEW r \in [Device -> Doc \cup {NoRow}], Keyed(r), NEW info \in Doc,
           NEW z, z = UpdateUUID(r, info)
    PROVE  Keyed(z) /\ \A d \in Device : z[d] # r[d] => d = info.uuid
BY DEF UpdateUUID, Keyed

LEMMA LeaveRewrites ==
    ASSUME Typed, Keyed(rows), NEW j \in Job, NEW r \in [Device -> Doc \cup {NoRow}], NEW x,
           Keyed(r), \A d \in Device : r[d] = NoRow <=> rows[d] = NoRow,
           \A d \in Device : r[d] # rows[d] => d = x,
           j.sid \in Stamp, DispatchLeave(j.conn, j.msg, j.sid, r)
    PROVE  Rewritten(j, {j.msg.uuid, x})
<1>1. PICK m, sid, off : m = j.msg /\ sid = j.sid /\ off = LeaveInfo(m, sid, r)
    OBVIOUS
<1>2. m \in Request /\ m.user \in User /\ m.uuid \in Device /\ sid \in Stamp
    BY <1>1 DEF Job, Request
<1>3. rows' = r \/ rows' = UpdateUUID(r, off)
    BY <1>1 DEF DispatchLeave
<1>4. PICK info : info = FindUUID(r, m.uuid)
    OBVIOUS
<1>5. info \in Doc /\ (r[m.uuid] # NoRow => info.uuid = m.uuid)
    BY <1>2, <1>4, DocsTyped DEF FindUUID, Keyed
<1>6. off \in Doc /\ off.uuid = info.uuid
    <2>1. PICK f : f = [info.users EXCEPT ![m.user] = sid]
        OBVIOUS
    <2>2. f \in [User -> Stamp]
        BY <1>2, <1>5, <2>1 DEF Doc
    <2>3. off = IF m.type = "logout" THEN [info EXCEPT !.isConnected = FALSE, !.isLogin = FALSE]
                ELSE [info EXCEPT !.isConnected = FALSE, !.users = f]
        BY <1>1, <1>4, <2>1 DEF LeaveInfo
    <2>4. QED
        BY <1>5, <2>2, <2>3 DEF Doc
<1>7. PICK z : z = UpdateUUID(r, off)
    OBVIOUS
<1>8. Keyed(z) /\ \A d \in Device : z[d] # r[d] => d = off.uuid
    BY <1>6, <1>7, UpdateKeyed
<1>9. CASE rows' = r
    BY <1>9 DEF Rewritten, Keyed
<1>10. CASE rows' = z
    <2>1. Keyed(rows')
        BY <1>8, <1>10 DEF Keyed
    <2>2. \A d \in Device : rows'[d] # rows[d] => d = x \/ d = off.uuid
        BY <1>8, <1>10
    <2>3. QED
        BY <1>1, <1>2, <1>5, <1>6, <2>1, <2>2 DEF Rewritten
<1>11. QED
    BY <1>3, <1>7, <1>9, <1>10

LEMMA LoginRewrites ==
    ASSUME Typed, Keyed(rows), NEW j \in Job, DispatchLogin(j.conn, j.msg, j.sid)
    PROVE  Rewritten(j, {j.msg.uuid})
<1>1. PICK m, info : m = j.msg /\ info = LoginInfo(m)
    OBVIOUS
<1>2. rows' = rows \/ rows' = [rows EXCEPT ![m.uuid] = info]
    BY <1>1 DEF DispatchLogin, dbVars
<1>3. info.uuid = m.uuid /\ rows \in [Device -> Doc \cup {NoRow}]
    BY <1>1 DEF LoginInfo, Typed
<1>4. CASE rows' = rows
    BY <1>4 DEF Rewritten, Keyed
<1>5. CASE rows' = [rows EXCEPT ![m.uuid] = info]
    BY <1>1, <1>3, <1>5 DEF Rewritten, Keyed
<1>6. QED
    BY <1>2, <1>4, <1>5

LEMMA ConnectRewrites ==
    ASSUME Typed, Keyed(rows), NEW j \in Job, DispatchConnect(j.conn, j.msg, j.sid)
    PROVE  Rewritten(j, {j.msg.uuid})
<1>1. PICK m, on : m = j.msg /\ on = ConnectInfo(m)
    OBVIOUS
<1>2. rows' = rows \/ rows' = UpdateUUID(rows, on)
    BY <1>1 DEF DispatchConnect
<1>3. m.uuid \in Device /\ rows \in [Device -> Doc \cup {NoRow}]
    BY <1>1 DEF Job, Request, Typed
<1>4. PICK info : info = FindUUID(rows, m.uuid)
    OBVIOUS
<1>5. info \in Doc /\ (rows[m.uuid] # NoRow => info.uuid = m.uuid)
    BY <1>3, <1>4, DocsTyped DEF FindUUID, Keyed
<1>6. on = [info EXCEPT !.isConnected = TRUE]
    BY <1>1, <1>4 DEF ConnectInfo
<1>7. on \in Doc /\ on.uuid = info.uuid
    BY <1>5, <1>6 DEF Doc
<1>8. PICK z : z = UpdateUUID(rows, on)
    OBVIOUS
<1>9. Keyed(z) /\ \A d \in Device : z[d] # rows[d] => d = on.uuid
    BY <1>3, <1>7, <1>8, UpdateKeyed
<1>10. CASE rows' = rows
    BY <1>10 DEF Rewritten, Keyed
<1>11. CASE rows' = z
    <2>1. Keyed(rows')
        BY <1>9, <1>11 DEF Keyed
    <2>2. QED
        BY <1>1, <1>3, <1>5, <1>7, <1>9, <1>11, <2>1 DEF Rewritten
<1>12. QED
    BY <1>2, <1>8, <1>10, <1>11

\* dispatch: the message's device and the node's.
LEMMA JobRewrites ==
    ASSUME Typed, Keyed(rows), NEW j \in Job, Dispatch(j.conn, j.msg, j.sid)
    PROVE  Rewritten(j, {j.msg.uuid, io[j.conn].uuid})
<1>1. rows \in [Device -> Doc \cup {NoRow}]
    BY DEF Typed
<1>2. PICK x, z : x = io[j.conn].uuid /\ z = Refreshed(j)
    OBVIOUS
<1>3. ASSUME j.sid \in Stamp
      PROVE  /\ z \in [Device -> Doc \cup {NoRow}] /\ Keyed(z)
             /\ \A d \in Device : z[d] = NoRow <=> rows[d] = NoRow
             /\ \A d \in Device : z[d] # rows[d] => d = x
    BY <1>1, <1>2, <1>3, SessionKeyed, DocsTyped DEF Refreshed
<1>4. ASSUME NEW r \in [Device -> Doc \cup {NoRow}], Keyed(r),
             \A d \in Device : r[d] = NoRow <=> rows[d] = NoRow,
             \A d \in Device : r[d] # rows[d] => d = x,
             j.msg.type \in {"logout", "clientdisconnect"} => j.sid \in Stamp,
             Handle(j.conn, j.msg, j.sid, r)
      PROVE  Rewritten(j, {j.msg.uuid, x})
    <2>1. CASE DispatchLogin(j.conn, j.msg, j.sid) \/ DispatchConnect(j.conn, j.msg, j.sid)
        <3>1. Rewritten(j, {j.msg.uuid})
            BY <2>1, LoginRewrites, ConnectRewrites
        <3>2. QED
            BY <3>1 DEF Rewritten
    <2>2. CASE j.sid \in Stamp /\ DispatchLeave(j.conn, j.msg, j.sid, r)
        BY <1>4, <2>2, LeaveRewrites
    <2>3. CASE rows' = r
        BY <1>4, <2>3 DEF Rewritten, Keyed
    <2>4. QED
        BY <1>4, <2>1, <2>2, <2>3 DEF Handle
<1>5. CASE rows' = rows
    BY <1>5 DEF Rewritten, Keyed
<1>6. CASE j.sid \in Stamp /\ Handle(j.conn, j.msg, j.sid, z)
    BY <1>2, <1>3, <1>4, <1>6
<1>7. CASE /\ j.msg.type \notin {"logout", "clientdisconnect"}
           /\ Handle(j.conn, j.msg, j.sid, rows)
    BY <1>1, <1>2, <1>4, <1>7
<1>8. \/ rows' = rows
      \/ j.sid \in Stamp /\ Handle(j.conn, j.msg, j.sid, z)
      \/ /\ j.msg.type \notin {"logout", "clientdisconnect"}
         /\ Handle(j.conn, j.msg, j.sid, rows)
    BY <1>2, DispatchCases DEF Refuse, dbVars
<1>9. QED
    BY <1>2, <1>5, <1>6, <1>7, <1>8

\* Only a job writes documents.
LEMMA DocumentStep ==
    ASSUME Inv, Keyed(rows), [Next]_vars
    PROVE  /\ Keyed(rows')
           /\ \A d \in Device :
                 rows'[d] # rows[d] =>
                    LET j == Head(jobs)
                    IN d \in {j.msg.uuid, io[j.conn].uuid} \/ rows[j.msg.uuid] = NoRow
<1>1. CASE RunJob
    <2>1. PICK j : j = Head(jobs)
        OBVIOUS
    <2>2. jobs # <<>> /\ Dispatch(j.conn, j.msg, j.sid)
        BY <1>1, <2>1 DEF RunJob
    <2>3. j \in Job
        BY <2>1, <2>2, TailOfSeq DEF Inv, Typed
    <2>4. Rewritten(j, {j.msg.uuid, io[j.conn].uuid})
        BY <2>2, <2>3, JobRewrites DEF Inv
    <2>5. QED
        BY <2>1, <2>4 DEF Rewritten
<1>2. CASE UNCHANGED rows
    BY <1>2 DEF Keyed
<1>3. RunJob \/ UNCHANGED rows
    <2>1. ASSUME NEW c \in Conn, NEW u \in User, NEW d \in Device, SocketAccept(c, u, d)
          PROVE  UNCHANGED rows
        BY <2>1 DEF SocketAccept, dbVars
    <2>2. ASSUME NEW c \in Conn, ReadMessage(c) \/ ReadError(c) PROVE UNCHANGED rows
        BY <2>2 DEF ReadMessage, ReadError, dbVars
    <2>3. ASSUME NEW c \in Conn, Write(c) PROVE UNCHANGED rows
        BY <2>3 DEF Write, WriteFrame, WriteStop, dbVars
    <2>4. ASSUME NEW c \in Conn, ClientSend(c) \/ ClientReceive(c) PROVE UNCHANGED rows
        BY <2>4 DEF ClientSend, ClientReceive, Send, dbVars
    <2>5. ASSUME NEW c \in Conn, ClientLeave(c) \/ ClientSeesClose(c) PROVE UNCHANGED rows
        BY <2>5 DEF ClientLeave, ClientSeesClose, dbVars
    <2>6. CASE StartWrite \/ PingTimer \/ Tick \/ Crash \/ AbortOnConnect
        BY <2>6 DEF StartWrite, PingTimer, Tick, Crash, AbortOnConnect, Restart, dbVars
    <2>7. CASE UNCHANGED vars
        BY <2>7 DEF vars, dbVars
    <2>8. QED
        BY <2>1, <2>2, <2>3, <2>4, <2>5, <2>6, <2>7 DEF Next
<1>4. QED
    BY <1>1, <1>2, <1>3

-----------------------------------------------------------------------------
(* Runs of session ids.                                                    *)

CheckedIn(s) == {i \in 1..Len(s) : MissingCheck(s[i].type)}

\* A queue with no checked message.
LEMMA FollowsNone ==
    ASSUME NEW s, CheckedIn(s) = {}, NEW a
    PROVE  Follows(s, a, a)
BY DEF Follows, CheckedIn

\* A checked message that is read is the first of the run.
LEMMA FollowsTail ==
    ASSUME NEW s \in Seq(Request), s # <<>>, NEW a, NEW n, Follows(s, a, n)
    PROVE  IF MissingCheck(Head(s).type)
           THEN Head(s).sid = a /\ Follows(Tail(s), Succ(a), n)
           ELSE Follows(Tail(s), a, n)
<1>1. PICK z, U, V : z = Tail(s) /\ U = CheckedIn(s) /\ V = CheckedIn(z)
    OBVIOUS
<1>2. /\ Len(s) \in Nat /\ Len(z) = Len(s) - 1 /\ 1 \in 1..Len(s) /\ Head(s) = s[1]
      /\ \A i \in 1..Len(z) : z[i] = s[i + 1] /\ i + 1 \in 1..Len(s)
    BY <1>1, TailOfSeq
<1>3. /\ U \subseteq Nat \ {0} /\ V \subseteq Nat \ {0}
      /\ 1 \in U <=> MissingCheck(Head(s).type)
      /\ \A i \in V : i + 1 \in U /\ z[i] = s[i + 1]
      /\ \A i \in U : i # 1 => i - 1 \in V
    <2>1. ASSUME NEW i \in U, i # 1 PROVE i - 1 \in V
        <3>1. i \in 1..Len(s) /\ MissingCheck(s[i].type) /\ i - 1 \in 1..Len(z)
            BY <1>1, <1>2, <2>1 DEF CheckedIn
        <3>2. z[i - 1] = s[i]
            BY <1>2, <3>1
        <3>3. QED
            BY <1>1, <3>1, <3>2 DEF CheckedIn
    <2>2. QED
        BY <1>1, <1>2, <2>1 DEF CheckedIn
<1>4. /\ U = {} => n = a
      /\ \A i \in U :
            /\ (\A k \in U : i <= k) => s[i].sid = a
            /\ (\A k \in U : k <= i) => n = Succ(s[i].sid)
            /\ \A k \in U : i < k /\ (\A l \in U : l <= i \/ k <= l)
                              => s[k].sid = Succ(s[i].sid)
    BY <1>1 DEF Follows, CheckedIn
<1>5. ASSUME NEW i \in V
      PROVE  /\ (\A k \in V : k <= i) => n = Succ(z[i].sid)
             /\ \A k \in V : i < k /\ (\A l \in V : l <= i \/ k <= l)
                               => z[k].sid = Succ(z[i].sid)
    <2>1. ASSUME \A k \in V : k <= i PROVE n = Succ(z[i].sid)
        <3>1. \A k \in U : k <= i + 1
            BY <1>3, <2>1
        <3>2. QED
            BY <1>3, <1>4, <3>1
    <2>2. ASSUME NEW k \in V, i < k, \A l \in V : l <= i \/ k <= l
          PROVE  z[k].sid = Succ(z[i].sid)
        <3>1. \A l \in U : l <= i + 1 \/ k + 1 <= l
            BY <1>3, <2>2
        <3>2. i + 1 \in U /\ k + 1 \in U /\ i + 1 < k + 1
            BY <1>3, <2>2
        <3>3. QED
            BY <1>3, <1>4, <3>1, <3>2
    <2>3. QED
        BY <2>1, <2>2
<1>6. CASE ~MissingCheck(Head(s).type)
    <2>1. 1 \notin U
        BY <1>3, <1>6
    <2>2. V = {} => n = a
        BY <1>3, <1>4, <2>1
    <2>3. ASSUME NEW i \in V, \A k \in V : i <= k PROVE z[i].sid = a
        <3>1. \A k \in U : i + 1 <= k
            BY <1>3, <2>1, <2>3
        <3>2. QED
            BY <1>3, <1>4, <3>1
    <2>4. Follows(z, a, n)
        BY <1>1, <1>5, <2>2, <2>3 DEF Follows, CheckedIn
    <2>5. QED
        BY <1>1, <1>6, <2>4
<1>7. CASE MissingCheck(Head(s).type)
    <2>1. 1 \in U /\ \A k \in U : 1 <= k
        BY <1>3, <1>7
    <2>2. s[1].sid = a
        BY <1>4, <2>1
    <2>3. V = {} => n = Succ(a)
        <3>1. ASSUME V = {} PROVE \A k \in U : k <= 1
            BY <1>3, <3>1
        <3>2. QED
            BY <1>4, <2>1, <2>2, <3>1
    <2>4. ASSUME NEW i \in V, \A k \in V : i <= k PROVE z[i].sid = Succ(a)
        <3>1. \A l \in U : l <= 1 \/ i + 1 <= l
            BY <1>3, <2>4
        <3>2. i + 1 \in U /\ 1 < i + 1
            BY <1>3
        <3>3. QED
            BY <1>3, <1>4, <2>1, <2>2, <3>1, <3>2
    <2>5. Follows(z, Succ(a), n)
        BY <1>1, <1>5, <2>3, <2>4 DEF Follows, CheckedIn
    <2>6. QED
        BY <1>1, <1>2, <1>7, <2>2, <2>5
<1>8. QED
    BY <1>6, <1>7

\* What one more message does to a queue.
LEMMA AppendAt ==
    ASSUME NEW S, NEW s \in Seq(S), NEW x \in S
    PROVE  /\ Append(s, x) \in Seq(S) /\ Len(s) \in Nat /\ Len(Append(s, x)) = Len(s) + 1
           /\ Append(s, x)[Len(s) + 1] = x
           /\ \A i \in 1..Len(s) : Append(s, x)[i] = s[i]
BY AppendProperties, LenProperties

\* A message sent with the id that comes next makes the run longer.
LEMMA FollowsAppend ==
    ASSUME NEW s \in Seq(Request), NEW m \in Request, NEW a, NEW n, Follows(s, a, n)
    PROVE  /\ MissingCheck(m.type) /\ m.sid = n => Follows(Append(s, m), a, Succ(n))
           /\ ~MissingCheck(m.type) => Follows(Append(s, m), a, n)
<1>1. PICK z, U, V, e : /\ z = Append(s, m) /\ U = CheckedIn(s) /\ V = CheckedIn(z)
                        /\ e = Len(s) + 1
    OBVIOUS
<1>2. /\ Len(s) \in Nat /\ e \in Nat /\ Len(z) = e /\ z[e] = m
      /\ \A i \in 1..Len(s) : z[i] = s[i]
    BY <1>1, AppendAt
<1>3. /\ U \subseteq Nat /\ V \subseteq Nat /\ \A i \in U : i < e /\ i \in V /\ z[i] = s[i]
      /\ \A i \in V : i \in U \/ i = e
      /\ e \in V <=> MissingCheck(m.type)
    BY <1>1, <1>2 DEF CheckedIn
<1>4. /\ U = {} => n = a
      /\ \A i \in U :
            /\ (\A k \in U : i <= k) => s[i].sid = a
            /\ (\A k \in U : k <= i) => n = Succ(s[i].sid)
            /\ \A k \in U : i < k /\ (\A l \in U : l <= i \/ k <= l)
                              => s[k].sid = Succ(s[i].sid)
    BY <1>1 DEF Follows, CheckedIn
<1>5. CASE ~MissingCheck(m.type)
    <2>1. V = U
        BY <1>3, <1>5
    <2>2. Follows(z, a, n)
        BY <1>1, <1>3, <1>4, <2>1 DEF Follows, CheckedIn
    <2>3. QED
        BY <1>1, <1>5, <2>2
<1>6. CASE MissingCheck(m.type) /\ m.sid = n
    <2>1. V # {} /\ e \in V
        BY <1>3, <1>6
    <2>2. ASSUME NEW i \in V, \A k \in V : i <= k PROVE z[i].sid = a
        <3>1. CASE i \in U
            BY <1>3, <1>4, <2>2, <3>1
        <3>2. CASE i = e
            <4>1. U = {}
                BY <1>2, <1>3, <2>2, <3>2
            <4>2. QED
                BY <1>2, <1>4, <1>6, <3>2, <4>1
        <3>3. QED
            BY <1>3, <3>1, <3>2
    <2>3. ASSUME NEW i \in V, \A k \in V : k <= i PROVE Succ(n) = Succ(z[i].sid)
        <3>1. i = e
            BY <1>2, <1>3, <2>1, <2>3
        <3>2. QED
            BY <1>2, <1>6, <3>1
    <2>4. ASSUME NEW i \in V, NEW k \in V, i < k, \A l \in V : l <= i \/ k <= l
          PROVE  z[k].sid = Succ(z[i].sid)
        <3>1. i \in U
            <4>1. i < e
                BY <1>2, <1>3, <2>4
            <4>2. QED
                BY <1>2, <1>3, <4>1
        <3>2. CASE k \in U
            BY <1>3, <1>4, <2>4, <3>1, <3>2
        <3>3. CASE k = e
            <4>1. ASSUME NEW l \in U PROVE l <= i
                <5>1. l \in Nat /\ l < e /\ l \in V
                    BY <1>3
                <5>2. QED
                    BY <1>2, <2>4, <3>3, <5>1
            <4>2. QED
                BY <1>2, <1>3, <1>4, <1>6, <3>1, <3>3, <4>1
        <3>4. QED
            BY <1>3, <3>2, <3>3
    <2>5. Follows(z, a, Succ(n))
        BY <1>1, <2>1, <2>2, <2>3, <2>4 DEF Follows, CheckedIn
    <2>6. QED
        BY <1>1, <1>6, <2>5
<1>7. QED
    BY <1>5, <1>6

-----------------------------------------------------------------------------
(* The session ids.                                                        *)

Strict == Checked \ {"early"}
Ask == "clientconnect"
Told == "clientconnectres"

Has(q, type) == \E i \in 1..Len(q) : q[i].type = type
Once(q, type) == \A i, k \in 1..Len(q) : q[i].type = type /\ q[k].type = type => i = k

\* The pool has a clientconnect of c to run.
Asks(i, c) == jobs[i].conn = c /\ jobs[i].msg.type = Ask
Asking(c) == \E i \in 1..Len(jobs) : Asks(i, c)

\* A clientconnect has been read and its answer has not.
Pending(c) == Asking(c) \/ Has(wq[c], Told) \/ Has(back[c], Told)

\* A client has one clientconnect on its way at most and sends nothing behind
\* it, so nothing is left to read when its job gives the node a new id.
OneAsk(c) ==
    /\ \A i \in 1..Len(sock[c]) : sock[c][i].type = Ask => i = Len(sock[c])
    /\ \A i, k \in 1..Len(jobs) : Asks(i, c) /\ Asks(k, c) => i = k
    /\ Once(wq[c], Told) /\ Once(back[c], Told)
    /\ ~(Asking(c) /\ Has(wq[c], Told)) /\ ~(Asking(c) /\ Has(back[c], Told))
    /\ ~(Has(wq[c], Told) /\ Has(back[c], Told))
    /\ Has(sock[c], Ask) \/ Pending(c) => cl[c].st \in {"connecting", "closed", "gone"}
    /\ Pending(c) => sock[c] = <<>>

\* What was sent before a clientconnectres is read before what comes after.
Phase(c) ==
    /\ cl[c].st = "open" => \A i \in 1..Len(sock[c]) : sock[c][i].type \notin Strict
    /\ cl[c].st = "ready" => \A i \in 1..Len(sock[c]) : sock[c][i].type # "early"
    /\ \A i, k \in 1..Len(sock[c]) :
          sock[c][i].type \in Strict => sock[c][k].type # "early"

\* A clientconnectres that succeeds carries the node's id.
Starts(q, s) ==
    \A i \in 1..Len(q) : q[i].type = Told /\ q[i].e = 0 => q[i].sid = s /\ s >= MinSessionID
Start(c) ==
    /\ Starts(wq[c], io[c].sessionid) /\ Starts(back[c], io[c].sessionid)
    /\ Has(back[c], Told) => io[c].isConnect

\* The requests that are not read yet carry the node's id and those after it.
Chain(c) ==
    cl[c].st = "ready" \/ (\E i \in 1..Len(sock[c]) : sock[c][i].type \in Strict) =>
        /\ io[c].isConnect /\ io[c].sessionid >= MinSessionID
        /\ Follows(sock[c], io[c].sessionid, cl[c].sid)

\* The requests that wait to run.
Given(c) ==
    \A i \in 1..Len(jobs) :
        jobs[i].conn = c /\ jobs[i].msg.type \in Strict /\ jobs[i].msg.sid # MaxSessionID
        => jobs[i].sid = jobs[i].msg.sid /\ jobs[i].sid >= MinSessionID /\ io[c].isConnect

InSession(c) == OneAsk(c) /\ Phase(c) /\ Start(c) /\ Chain(c) /\ Given(c)
Session == \A c \in Conn : InSession(c)

-----------------------------------------------------------------------------
(* What a job does to them.                                                *)

\* Job j changes the node's id only for a clientconnect, and mounts a
\* clientconnectres only for one, which carries that id if it succeeds.
Said(j) ==
    /\ \A x \in Conn : io'[x].sessionid # io[x].sessionid => x = j.conn /\ j.msg.type = Ask
    /\ \A x \in Conn : \A i \in 1..Len(wq'[x]) :
          \/ i \in 1..Len(wq[x]) /\ wq'[x][i] = wq[x][i]
          \/ wq'[x][i].type # Told
          \/ /\ x = j.conn /\ j.msg.type = Ask /\ i = Len(wq[x]) + 1
             /\ wq'[x][i].e = 0 => /\ wq'[x][i].sid = io'[x].sessionid
                                   /\ wq'[x][i].sid >= MinSessionID

LEMMA MountAdds ==
    ASSUME Typed, NEW c, NEW m, NEW o, NEW n, Mount(c, m, o, n),
           NEW x \in Conn, NEW i \in 1..Len(wq'[x])
    PROVE  \/ i \in 1..Len(wq[x]) /\ wq'[x][i] = wq[x][i]
           \/ x = c /\ i = Len(wq[x]) + 1 /\ wq'[x][i] = m
           \/ x \in o /\ wq'[x][i] = n
<1>1. PICK q, a, b, z :
          /\ q = wq[x]
          /\ a = IF x = c THEN <<m>> ELSE <<>>
          /\ b = IF x \in o THEN <<n>> ELSE <<>>
          /\ z = (q \o a) \o b
    OBVIOUS
<1>2. wq'[x] = z
    BY <1>1 DEF Mount
<1>3. PICK T : T = Response \cup {m, n}
    OBVIOUS
<1>4. q \in Seq(T) /\ a \in Seq(T) /\ b \in Seq(T)
    <2>1. q \in Seq(Response)
        BY <1>1 DEF Typed
    <2>2. \A S : S \subseteq T => Seq(S) \subseteq Seq(T)
        BY SMT
    <2>3. Response \subseteq T /\ m \in T /\ n \in T
        BY <1>3
    <2>4. <<m>> \in Seq(T) /\ <<n>> \in Seq(T) /\ <<>> \in Seq(T)
        BY <2>3
    <2>5. QED
        BY <1>1, <2>1, <2>2, <2>3, <2>4
<1>5. PICK k, la, lb : k = Len(q) /\ la = Len(a) /\ lb = Len(b)
    OBVIOUS
<1>6. /\ k \in Nat /\ la \in {0, 1} /\ lb \in {0, 1}
      /\ la = 1 => x = c /\ a[1] = m
      /\ lb = 1 => x \in o /\ b[1] = n
    <2>1. Len(<<m>>) = 1 /\ <<m>>[1] = m /\ Len(<<n>>) = 1 /\ <<n>>[1] = n /\ Len(<<>>) = 0
        OBVIOUS
    <2>2. QED
        BY <1>1, <1>4, <1>5, <2>1, LenProperties
<1>7. /\ q \o a \in Seq(T) /\ Len(q \o a) = k + la
      /\ \A l \in 1..(k + la) : (q \o a)[l] = IF l <= k THEN q[l] ELSE a[l - k]
    BY <1>4, <1>5, ConcatProperties
<1>8. /\ Len(z) = (k + la) + lb
      /\ \A l \in 1..((k + la) + lb) :
            z[l] = IF l <= k + la THEN (q \o a)[l] ELSE b[l - (k + la)]
    <2>1. PICK y : y = q \o a
        OBVIOUS
    <2>2. PICK w : w = k + la
        OBVIOUS
    <2>3. y \in Seq(T) /\ Len(y) = w /\ Len(b) = lb /\ z = y \o b
        BY <1>1, <1>5, <1>7, <2>1, <2>2
    <2>4. /\ Len(y \o b) = Len(y) + Len(b)
          /\ \A l \in 1..(Len(y) + Len(b)) :
                (y \o b)[l] = IF l <= Len(y) THEN y[l] ELSE b[l - Len(y)]
        BY <1>4, <2>3, ConcatProperties
    <2>5. /\ Len(z) = w + lb
          /\ \A l \in 1..(w + lb) : z[l] = IF l <= w THEN y[l] ELSE b[l - w]
        BY <2>3, <2>4
    <2>6. QED
        BY <2>1, <2>2, <2>5
<1>9. i \in 1..((k + la) + lb) /\ i \in Nat
    BY <1>2, <1>6, <1>8
<1>10. CASE i <= k
    <2>1. i \in 1..k /\ z[i] = q[i]
        BY <1>6, <1>7, <1>8, <1>9, <1>10
    <2>2. QED
        BY <1>1, <1>2, <1>5, <2>1
<1>11. CASE k < i /\ i <= k + la
    <2>1. la = 1 /\ i = k + 1 /\ z[i] = a[1]
        BY <1>6, <1>7, <1>8, <1>9, <1>11
    <2>2. QED
        BY <1>1, <1>2, <1>5, <1>6, <2>1
<1>12. CASE k + la < i
    <2>1. lb = 1 /\ i - (k + la) = 1
        BY <1>6, <1>9, <1>12
    <2>2. z[i] = b[1]
        BY <1>6, <1>8, <1>9, <1>12, <2>1
    <2>3. QED
        BY <1>2, <1>6, <2>1, <2>2
<1>13. QED
    BY <1>6, <1>9, <1>10, <1>11, <1>12

\* A job that answers on its own connection.
LEMMA ReplySaid ==
    ASSUME Typed, NEW j \in Job, NEW type \in Answer, NEW sid \in Nat, NEW e \in Nat,
           Reply(j.conn, type, sid, e),
           \A x \in Conn : io'[x].sessionid # io[x].sessionid => x = j.conn /\ j.msg.type = Ask,
           type = Told => /\ j.msg.type = Ask
                          /\ e = 0 => sid = io'[j.conn].sessionid /\ sid >= MinSessionID
    PROVE  Said(j)
<1>1. PICK c, m : c = j.conn /\ m = [type |-> type, sid |-> sid, e |-> e]
    OBVIOUS
<1>2. c \in Conn /\ m \in Response /\ m.type = type /\ m.sid = sid /\ m.e = e
    BY <1>1 DEF Job, Response
<1>3. PICK o, n : o = {} /\ n = <<>>
    OBVIOUS
<1>4. Mount(c, m, o, n)
    BY <1>1, <1>3 DEF Reply
<1>5. ASSUME NEW x \in Conn, NEW i \in 1..Len(wq'[x])
      PROVE  \/ i \in 1..Len(wq[x]) /\ wq'[x][i] = wq[x][i]
             \/ x = c /\ i = Len(wq[x]) + 1 /\ wq'[x][i] = m
    BY <1>2, <1>3, <1>4, MountAdds
<1>6. QED
    BY <1>1, <1>2, <1>5 DEF Said

LEMMA LoginSaid ==
    ASSUME Typed, NEW j \in Job, DispatchLogin(j.conn, j.msg, j.sid), io' = io
    PROVE  Said(j)
<1>1. PICK c, m, sid : c = j.conn /\ m = j.msg /\ sid = j.sid
    OBVIOUS
<1>2. c \in Conn /\ sid \in Nat
    BY <1>1, ServerAssumption DEF Job
<1>3. "loginres" \in Answer /\ "loginnoti" \in Answer /\ "loginres" # Told /\ "loginnoti" # Told
    BY DEF Answer, Told
<1>4. CASE \E e \in {11001, 40030, 40031} : Reply(c, "loginres", sid, e)
    <2>1. PICK e \in {11001, 40030, 40031} : Reply(j.conn, "loginres", sid, e)
        BY <1>1, <1>4
    <2>2. e \in Nat
        OBVIOUS
    <2>3. QED
        BY <1>2, <1>3, <2>1, <2>2, ReplySaid
<1>5. CASE Mount(c, [type |-> "loginres", sid |-> sid, e |-> 0],
                 NotiTargets(rows', io[c].user, io[c].uuid),
                 [type |-> "loginnoti", sid |-> sid, e |-> 0])
    <2>1. PICK o, a, b :
              /\ o = NotiTargets(rows', io[c].user, io[c].uuid)
              /\ a = [type |-> "loginres", sid |-> sid, e |-> 0]
              /\ b = [type |-> "loginnoti", sid |-> sid, e |-> 0]
        OBVIOUS
    <2>2. a \in Response /\ b \in Response /\ a.type # Told /\ b.type # Told
        BY <1>2, <1>3, <2>1 DEF Response
    <2>3. o \subseteq Conn
        BY <2>1 DEF NotiTargets, Typed
    <2>4. Mount(c, a, o, b)
        BY <1>5, <2>1
    <2>5. ASSUME NEW x \in Conn, NEW i \in 1..Len(wq'[x])
          PROVE  \/ i \in 1..Len(wq[x]) /\ wq'[x][i] = wq[x][i]
                 \/ wq'[x][i].type # Told
        <3>1. \/ i \in 1..Len(wq[x]) /\ wq'[x][i] = wq[x][i]
              \/ wq'[x][i] = a \/ wq'[x][i] = b
            <4>1. \/ i \in 1..Len(wq[x]) /\ wq'[x][i] = wq[x][i]
                  \/ x = c /\ i = Len(wq[x]) + 1 /\ wq'[x][i] = a
                  \/ x \in o /\ wq'[x][i] = b
                BY <2>4, MountAdds
            <4>2. QED
                BY <4>1
        <3>2. QED
            BY <2>2, <3>1
    <2>6. QED
        BY <2>5 DEF Said
<1>6. QED
    BY <1>1, <1>4, <1>5 DEF DispatchLogin

LEMMA LeaveSaid ==
    ASSUME Typed, NEW j \in Job, NEW r, DispatchLeave(j.conn, j.msg, j.sid, r), io' = io
    PROVE  Said(j)
<1>1. PICK sid : sid = j.sid
    OBVIOUS
<1>2. sid \in Nat
    BY <1>1, ServerAssumption DEF Job
<1>3. \E type \in {"error", "logoutres", "clientdisconnectres"}, e \in {0, 11002, 11004, 40031} :
          Reply(j.conn, type, sid, e)
    BY <1>1 DEF DispatchLeave
<1>4. PICK type \in {"error", "logoutres", "clientdisconnectres"}, e \in {0, 11002, 11004, 40031} :
          Reply(j.conn, type, sid, e)
    BY <1>3
<1>5. type \in Answer /\ type # Told /\ e \in Nat
    BY DEF Answer, Told
<1>6. QED
    BY <1>2, <1>4, <1>5, ReplySaid

LEMMA ConnectSaid ==
    ASSUME Typed, NEW j \in Job, j.msg.type = Ask, ~ConnectAborts(j.msg),
           DispatchConnect(j.conn, j.msg, j.sid)
    PROVE  Said(j)
<1>1. PICK c, m, sid : c = j.conn /\ m = j.msg /\ sid = j.sid
    OBVIOUS
<1>2. c \in Conn /\ m \in Request /\ sid \in Nat
    BY <1>1, ServerAssumption DEF Job
<1>3. m.user \in User /\ m.uuid \in Device /\ Told \in Answer
    BY <1>2 DEF Request, Answer, Told
<1>4. CASE ConnectFails(m)
    <2>1. Reply(j.conn, Told, sid, 11003) /\ io' = io
        BY <1>1, <1>4 DEF DispatchConnect, Told
    <2>2. 11003 \in Nat /\ 11003 # 0
        OBVIOUS
    <2>3. QED
        BY <1>2, <1>3, <2>1, <2>2, ReplySaid
<1>5. CASE ~ConnectFails(m)
    <2>1. PICK s, b : /\ s = ConnectID(m)
                      /\ b = [io[c] EXCEPT !.user = m.user, !.uuid = m.uuid, !.sessionid = s]
        OBVIOUS
    <2>2. /\ io' = [io EXCEPT ![c] = b]
          /\ Reply(c, Told, s, 0) \/ Reply(c, Told, s, 40031)
        BY <1>1, <1>5, <2>1 DEF DispatchConnect, Told
    <2>3. PICK n : n = FindUUID(rows, m.uuid).users[m.user]
        OBVIOUS
    <2>4. n \in Stamp /\ n # 0 /\ s = n + 1
        <3>1. FindUUID(rows, m.uuid) \in Doc
            BY <1>3, DocsTyped DEF Typed
        <3>2. n # 0
            BY <1>1, <1>5, <2>3 DEF ConnectAborts
        <3>3. QED
            BY <1>3, <2>1, <2>3, <3>1, <3>2 DEF Doc, ConnectID
    <2>5. s \in Nat /\ s >= MinSessionID
        BY <2>4, ServerAssumption DEF Stamp
    <2>6. /\ io'[c].sessionid = s
          /\ \A x \in Conn : x # c => io'[x] = io[x]
        <3>1. io[c] \in Node
            BY <1>2 DEF Typed
        <3>2. b.sessionid = s
            BY <2>1, <3>1 DEF Node
        <3>3. QED
            BY <1>2, <2>2, <3>2 DEF Typed
    <2>7. PICK e \in {0, 40031} : Reply(j.conn, Told, s, e)
        BY <1>1, <2>2
    <2>8. e \in Nat
        OBVIOUS
    <2>9. QED
        BY <1>1, <1>3, <2>5, <2>6, <2>7, <2>8, ReplySaid
<1>6. QED
    BY <1>4, <1>5

LEMMA DispatchSaid ==
    ASSUME Typed, NEW j \in Job, Dispatch(j.conn, j.msg, j.sid)
    PROVE  Said(j)
<1>1. j.sid \in Nat
    BY ServerAssumption DEF Job
<1>2. ASSUME NEW e \in {11010, 11011, 11013}, Refuse(j.conn, j.sid, e) PROVE Said(j)
    <2>1. "error" \in Answer /\ "error" # Told /\ e \in Nat
        BY DEF Answer, Told
    <2>2. Reply(j.conn, "error", j.sid, e) /\ io' = io
        BY <1>2 DEF Refuse
    <2>3. QED
        BY <1>1, <2>1, <2>2, ReplySaid
<1>3. ASSUME NEW r, Handle(j.conn, j.msg, j.sid, r) PROVE Said(j)
    <2>1. CASE DispatchLogin(j.conn, j.msg, j.sid) /\ UNCHANGED io
        BY <2>1, LoginSaid
    <2>2. CASE /\ j.msg.type = "clientconnect" /\ ~ConnectAborts(j.msg)
               /\ DispatchConnect(j.conn, j.msg, j.sid)
        BY <2>2, ConnectSaid DEF Ask
    <2>3. CASE DispatchLeave(j.conn, j.msg, j.sid, r) /\ UNCHANGED io
        BY <2>3, LeaveSaid
    <2>4. CASE /\ Reply(j.conn, IF j.msg.type = "ping" THEN "pong" ELSE "res", j.sid, 0)
               /\ UNCHANGED io
        <3>1. PICK type : type = IF j.msg.type = "ping" THEN "pong" ELSE "res"
            OBVIOUS
        <3>2. type \in Answer /\ type # Told /\ Reply(j.conn, type, j.sid, 0) /\ 0 \in Nat
            BY <2>4, <3>1 DEF Answer, Told
        <3>3. QED
            BY <1>1, <2>4, <3>2, ReplySaid
    <2>5. QED
        BY <1>3, <2>1, <2>2, <2>3, <2>4 DEF Handle
<1>4. QED
    BY <1>2, <1>3, DispatchCases

-----------------------------------------------------------------------------
(* What a step does to a session.                                          *)

\* Every clientconnectres of r is one of q, where d places have been left.
FewerTold(r, q) ==
    \E d \in {0, 1} : \A i \in 1..Len(r) :
        r[i].type = Told => i + d \in 1..Len(q) /\ r[i] = q[i + d]

LEMMA FewerHas ==
    ASSUME NEW q, NEW r, FewerTold(r, q)
    PROVE  /\ Has(r, Told) => Has(q, Told)
           /\ Once(q, Told) => Once(r, Told)
           /\ \A s : Starts(q, s) => Starts(r, s)
<1>1. PICK d \in {0, 1} : \A i \in 1..Len(r) :
          r[i].type = Told => i + d \in 1..Len(q) /\ r[i] = q[i + d]
    BY DEF FewerTold
<1>2. Has(r, Told) => Has(q, Told)
    BY <1>1 DEF Has
<1>3. ASSUME Once(q, Told) PROVE Once(r, Told)
    <2> SUFFICES ASSUME NEW i \in 1..Len(r), NEW k \in 1..Len(r),
                        r[i].type = Told, r[k].type = Told
                 PROVE  i = k
        BY DEF Once
    <2>1. /\ i + d \in 1..Len(q) /\ q[i + d].type = Told
          /\ k + d \in 1..Len(q) /\ q[k + d].type = Told
        BY <1>1
    <2>2. i + d = k + d
        BY <1>3, <2>1 DEF Once
    <2>3. QED
        BY <2>2
<1>4. \A s : Starts(q, s) => Starts(r, s)
    BY <1>1 DEF Starts
<1>5. QED
    BY <1>2, <1>3, <1>4

LEMMA FewerSame == \A q : FewerTold(q, q)
BY DEF FewerTold

LEMMA FewerTail ==
    ASSUME NEW q \in Seq(Response), q # <<>> PROVE FewerTold(Tail(q), q)
<1>1. PICK r : r = Tail(q)
    OBVIOUS
<1>2. /\ Len(q) \in Nat /\ Len(r) = Len(q) - 1
      /\ \A i \in 1..Len(r) : r[i] = q[i + 1] /\ i + 1 \in 1..Len(q)
    BY <1>1, TailOfSeq
<1>3. PICK d \in {0, 1} : d = 1
    OBVIOUS
<1>4. \A i \in 1..Len(r) : r[i].type = Told => i + d \in 1..Len(q) /\ r[i] = q[i + d]
    BY <1>2, <1>3
<1>5. FewerTold(r, q)
    BY <1>4 DEF FewerTold
<1>6. QED
    BY <1>1, <1>5

LEMMA FewerAppend ==
    ASSUME NEW S, NEW q \in Seq(S), NEW m \in S, m.type # Told PROVE FewerTold(Append(q, m), q)
<1>1. \A i \in 1..Len(Append(q, m)) :
          Append(q, m)[i] = m \/ (i \in 1..Len(q) /\ Append(q, m)[i] = q[i])
    BY AppendElem
<1>2. 0 \in {0, 1} /\ \A i \in 1..Len(Append(q, m)) : i + 0 = i
    OBVIOUS
<1>3. QED
    BY <1>1, <1>2 DEF FewerTold

\* The jobs of x that wait were waiting before.
FewerJobs(x) ==
    \E d \in {0, 1} : \A i \in 1..Len(jobs') :
        jobs'[i].conn = x => i + d \in 1..Len(jobs) /\ jobs'[i] = jobs[i + d]

LEMMA FewerAsks ==
    ASSUME NEW x \in Conn, FewerJobs(x)
    PROVE  /\ Asking(x)' => Asking(x)
           /\ OneAsk(x) => \A i, k \in 1..Len(jobs') : (Asks(i, x) /\ Asks(k, x))' => i = k
           /\ Given(x) /\ (io[x].isConnect => io'[x].isConnect) => Given(x)'
<1>1. PICK d \in {0, 1} : \A i \in 1..Len(jobs') :
          jobs'[i].conn = x => i + d \in 1..Len(jobs) /\ jobs'[i] = jobs[i + d]
    BY DEF FewerJobs
<1>2. Asking(x)' => Asking(x)
    BY <1>1 DEF Asking, Asks
<1>3. OneAsk(x) => \A i, k \in 1..Len(jobs') : (Asks(i, x) /\ Asks(k, x))' => i = k
    BY <1>1 DEF OneAsk, Asks
<1>4. Given(x) /\ (io[x].isConnect => io'[x].isConnect) => Given(x)'
    BY <1>1 DEF Given
<1>5. QED
    BY <1>2, <1>3, <1>4

\* A step that neither sends nor reads for x, nor gives it an id, keeps its
\* session: answers and jobs may go, the client may leave.
LEMMA SessionKept ==
    ASSUME NEW x \in Conn, InSession(x), FewerJobs(x),
           FewerTold(wq'[x], wq[x]), FewerTold(back'[x], back[x]), sock'[x] = sock[x],
           io'[x].sessionid = io[x].sessionid, io[x].isConnect => io'[x].isConnect,
           cl'[x].sid = cl[x].sid, cl'[x].st = cl[x].st \/ cl'[x].st \in {"closed", "gone"}
    PROVE  InSession(x)'
<1>1. /\ Has(wq'[x], Told) => Has(wq[x], Told)
      /\ Has(back'[x], Told) => Has(back[x], Told)
      /\ Once(wq[x], Told) => Once(wq'[x], Told)
      /\ Once(back[x], Told) => Once(back'[x], Told)
      /\ \A s : Starts(wq[x], s) => Starts(wq'[x], s)
      /\ \A s : Starts(back[x], s) => Starts(back'[x], s)
    BY FewerHas
<1>2. /\ Asking(x)' => Asking(x)
      /\ \A i, k \in 1..Len(jobs') : (Asks(i, x) /\ Asks(k, x))' => i = k
      /\ Given(x)'
    BY FewerAsks DEF InSession
<1>3. Pending(x)' => Pending(x)
    BY <1>1, <1>2 DEF Pending
<1>4. OneAsk(x)'
    BY <1>1, <1>2, <1>3 DEF InSession, OneAsk
<1>5. Phase(x)'
    BY DEF InSession, Phase
<1>6. Start(x)'
    BY <1>1 DEF InSession, Start
<1>7. Chain(x)'
    BY DEF InSession, Chain
<1>8. QED
    BY <1>2, <1>4, <1>5, <1>6, <1>7 DEF InSession
-----------------------------------------------------------------------------
(* Every step keeps the sessions.                                          *)

LEMMA InitSession == Init => Session
<1> SUFFICES ASSUME Init, NEW x \in Conn PROVE InSession(x)
    BY DEF Session
<1>1. /\ sock[x] = <<>> /\ wq[x] = <<>> /\ back[x] = <<>> /\ jobs = <<>> /\ cl[x].st = "none"
      /\ Len(<<>>) = 0 /\ 1..0 = {}
    BY DEF Init
<1>2. ~Has(<<>>, Told) /\ Once(<<>>, Told) /\ ~Has(<<>>, Ask) /\ \A s : Starts(<<>>, s)
    BY <1>1 DEF Has, Once, Starts
<1>3. ~Asking(x)
    BY <1>1 DEF Asking
<1>4. ~Pending(x)
    BY <1>1, <1>2, <1>3 DEF Pending
<1>5. OneAsk(x)
    BY <1>1, <1>2, <1>3, <1>4 DEF OneAsk
<1>6. Phase(x) /\ Start(x) /\ Chain(x) /\ Given(x)
    BY <1>1, <1>2 DEF Phase, Start, Chain, Given
<1>7. QED
    BY <1>5, <1>6 DEF InSession

\* A step that does not touch the queues of x.
LEMMA SessionStays ==
    ASSUME NEW x \in Conn, InSession(x), jobs' = jobs \/ jobs' = <<>>,
           wq'[x] = wq[x] \/ wq'[x] = <<>>, back'[x] = back[x] \/ back'[x] = <<>>,
           sock'[x] = sock[x],
           io'[x].sessionid = io[x].sessionid, io[x].isConnect => io'[x].isConnect,
           cl'[x].sid = cl[x].sid, cl'[x].st = cl[x].st \/ cl'[x].st \in {"closed", "gone"}
    PROVE  InSession(x)'
<1>1. Len(<<>>) = 0 /\ 1..0 = {} /\ 0 \in {0, 1}
    OBVIOUS
<1>2. \A q : FewerTold(<<>>, q)
    BY <1>1 DEF FewerTold
<1>3. FewerTold(wq'[x], wq[x]) /\ FewerTold(back'[x], back[x])
    BY <1>2, FewerSame
<1>4. FewerJobs(x)
    <2>1. CASE jobs' = <<>>
        BY <1>1, <2>1 DEF FewerJobs
    <2>2. CASE jobs' = jobs
        <3>1. \A i \in 1..Len(jobs) : i + 0 = i
            OBVIOUS
        <3>2. QED
            BY <1>1, <2>2, <3>1 DEF FewerJobs
    <2>3. QED
        BY <2>1, <2>2
<1>5. QED
    BY <1>3, <1>4, SessionKept

LEMMA AcceptSession ==
    ASSUME Inv, Session, NEW c \in Conn, NEW u \in User, NEW d \in Device,
           SocketAccept(c, u, d)
    PROVE  Session'
<1> SUFFICES ASSUME NEW x \in Conn PROVE InSession(x)'
    BY DEF Session
<1>1. /\ cl[c].st = "none" /\ sock[c] = <<>> /\ back[c] = <<>>
      /\ \A i \in 1..Len(jobs) : jobs[i].conn # c
    BY DEF Inv, Idle, SocketAccept
<1>2. UNCHANGED <<wq, jobs, sock, back>>
    BY DEF SocketAccept, outVars
<1>3. /\ io \in [Conn -> Node] /\ cl \in [Conn -> Client] /\ cl[c] \in Client
    BY DEF Inv, Typed
<1>4. CASE x # c
    <2>1. io'[x] = io[x] /\ cl'[x] = cl[x]
        BY <1>3, <1>4 DEF SocketAccept
    <2>2. QED
        BY <1>2, <2>1, SessionStays DEF Session
<1>5. CASE x = c
    <2>1. cl'[c].st \in {"open", "closed"}
        <3>1. CASE cl' = [cl EXCEPT ![c] = [@ EXCEPT !.st = "open", !.user = u, !.uuid = d]]
            <4>1. PICK k : k = [cl[c] EXCEPT !.st = "open", !.user = u, !.uuid = d]
                OBVIOUS
            <4>2. k.st = "open" /\ cl' = [cl EXCEPT ![c] = k]
                BY <1>3, <3>1, <4>1 DEF Client
            <4>3. QED
                BY <1>3, <4>2
        <3>2. CASE cl' = [cl EXCEPT ![c].st = "closed"]
            BY <1>3, <3>2 DEF Client
        <3>3. QED
            BY <3>1, <3>2 DEF SocketAccept
    <2>2. ~Pending(c) /\ Once(wq[c], Told) /\ Once(back[c], Told)
        BY <1>1 DEF Session, InSession, OneAsk
    <2>3. ~Has(wq[c], Told) /\ ~Has(back[c], Told)
        BY <2>2 DEF Pending
    <2>4. /\ ~Has(<<>>, Ask) /\ Len(<<>>) = 0 /\ 1..0 = {}
        BY DEF Has
    <2>5. ~Asking(c)'
        BY <1>1, <1>2 DEF Asking, Asks
    <2>6. ~Pending(c)'
        BY <1>2, <2>3, <2>5 DEF Pending
    <2>7. OneAsk(c)'
        BY <1>1, <1>2, <2>2, <2>3, <2>4, <2>5, <2>6 DEF OneAsk, Asks
    <2>8. Phase(c)' /\ Chain(c)' /\ Given(c)'
        BY <1>1, <1>2, <2>1, <2>4 DEF Phase, Chain, Given
    <2>9. Start(c)'
        <3>1. \A s : Starts(wq[c], s) /\ Starts(back[c], s)
            BY <2>3 DEF Starts, Has
        <3>2. QED
            BY <1>2, <2>3, <3>1 DEF Start
    <2>10. QED
        BY <1>5, <2>7, <2>8, <2>9 DEF InSession
<1>6. QED
    BY <1>4, <1>5

LEMMA ReadSession ==
    ASSUME Inv, Session, NEW c \in Conn, ReadMessage(c)
    PROVE  Session'
<1> SUFFICES ASSUME NEW x \in Conn PROVE InSession(x)'
    BY DEF Session
<1>1. PICK m, t, j, q, s, a :
          /\ s = sock[c] /\ m = Head(s) /\ q = Tail(s) /\ a = io[c].sessionid
          /\ t = TakeSessionID(c, m.type) /\ j = [conn |-> c, msg |-> m, sid |-> t.sid]
    OBVIOUS
<1>2. /\ s # <<>>
      /\ io' = [io EXCEPT ![c].sessionid = t.next]
      /\ jobs' = Append(jobs, j)
      /\ sock' = [sock EXCEPT ![c] = q]
      /\ UNCHANGED <<wq, cl, back>>
    BY <1>1 DEF ReadMessage, outVars, dbVars
<1>3. /\ io \in [Conn -> Node] /\ sock \in [Conn -> Seq(Request)] /\ jobs \in Seq(Job)
      /\ s \in Seq(Request) /\ a \in 0..MaxSessionID
    BY <1>1 DEF Inv, Typed, Node
<1>4. /\ Len(s) \in Nat /\ 1 \in 1..Len(s) /\ m = s[1] /\ m \in Request
      /\ q \in Seq(Request) /\ Len(q) = Len(s) - 1
      /\ \A i \in 1..Len(q) : q[i] = s[i + 1] /\ i + 1 \in 1..Len(s)
    BY <1>1, <1>2, <1>3, TailOfSeq
<1>5. /\ t.next \in 0..MaxSessionID /\ t.sid \in 0..(MaxSessionID - 1)
      /\ ~MissingCheck(m.type) => t.next = a
      /\ MissingCheck(m.type) => t.next = Succ(a) /\ (a # MaxSessionID => t.sid = a)
    BY <1>1, <1>3, ServerAssumption DEF TakeSessionID, Succ
<1>6. j \in Job /\ j.conn = c /\ j.msg = m /\ j.sid = t.sid
    BY <1>1, <1>4, <1>5 DEF Job
<1>7. \A i \in 1..Len(jobs') :
          \/ jobs'[i] = j /\ i = Len(jobs) + 1
          \/ i \in 1..Len(jobs) /\ jobs'[i] = jobs[i]
    BY <1>2, <1>3, <1>6, AppendAt
<1>8. /\ sock'[c] = q /\ wq'[c] = wq[c] /\ back'[c] = back[c] /\ cl'[c] = cl[c]
      /\ io'[c].isConnect = io[c].isConnect /\ io'[c].sessionid = t.next
    BY <1>2, <1>3 DEF Node
<1>9. CASE x # c
    <2>1. io'[x] = io[x] /\ sock'[x] = sock[x]
        BY <1>2, <1>3, <1>9
    <2>2. FewerJobs(x)
        <3>1. 0 \in {0, 1} /\ \A i \in 1..Len(jobs') : i + 0 = i
            OBVIOUS
        <3>2. \A i \in 1..Len(jobs') :
                  jobs'[i].conn = x => i \in 1..Len(jobs) /\ jobs'[i] = jobs[i]
            BY <1>6, <1>7, <1>9
        <3>3. QED
            BY <3>1, <3>2 DEF FewerJobs
    <2>3. QED
        BY <1>2, <2>1, <2>2, FewerSame, SessionKept DEF Session
<1>10. CASE x = c
    <2>1. OneAsk(c) /\ Phase(c) /\ Start(c) /\ Chain(c) /\ Given(c)
        BY DEF Session, InSession
    <2>2. ~Pending(c)
        BY <1>1, <1>2, <2>1 DEF OneAsk
    <2>3. ~Asking(c) /\ ~Has(wq[c], Told) /\ ~Has(back[c], Told)
        BY <2>2 DEF Pending
    \* A clientconnect is the last message of the queue.
    <2>4. /\ \A i \in 1..Len(q) : q[i].type = Ask => i = Len(q)
          /\ m.type = Ask => q = <<>>
          /\ Has(q, Ask) \/ m.type = Ask => Has(s, Ask)
        <3>1. \A i \in 1..Len(s) : s[i].type = Ask => i = Len(s)
            BY <1>1, <2>1 DEF OneAsk
        <3>2. \A i \in 1..Len(q) : q[i].type = Ask => i = Len(q)
            BY <1>4, <3>1
        <3>3. m.type = Ask => Len(q) = 0
            BY <1>4, <3>1
        <3>4. m.type = Ask => q = <<>>
            BY <1>4, <3>3, EmptySeq
        <3>5. Has(q, Ask) \/ m.type = Ask => Has(s, Ask)
            BY <1>4 DEF Has
        <3>6. QED
            BY <3>2, <3>4, <3>5
    <2>5. \A i \in 1..Len(jobs') : Asks(i, c)' => i = Len(jobs) + 1 /\ m.type = Ask
        BY <1>6, <1>7, <2>3 DEF Asking, Asks
    <2>6. Pending(c)' => m.type = Ask
        BY <1>8, <2>3, <2>5 DEF Pending, Asking
    <2>7. OneAsk(c)'
        <3>1. Has(s, Ask) => cl[c].st \in {"connecting", "closed", "gone"}
            BY <1>1, <2>1 DEF OneAsk
        <3>2. Once(wq[c], Told) /\ Once(back[c], Told)
            BY <2>1 DEF OneAsk
        <3>3. \A i, k \in 1..Len(jobs') : (Asks(i, c) /\ Asks(k, c))' => i = k
            BY <2>5
        <3>4. Has(q, Ask) \/ Pending(c)' => cl[c].st \in {"connecting", "closed", "gone"}
            BY <2>4, <2>6, <3>1
        <3>5. Pending(c)' => q = <<>>
            BY <2>4, <2>6
        <3>6. QED
            BY <1>8, <2>3, <2>4, <3>2, <3>3, <3>4, <3>5 DEF OneAsk
    <2>8. Phase(c)'
        <3>1. \A i \in 1..Len(q) : \E k \in 1..Len(s) : q[i] = s[k]
            BY <1>4
        <3>2. QED
            BY <1>1, <1>8, <2>1, <3>1 DEF Phase
    <2>9. Start(c)'
        <3>1. \A n : Starts(wq[c], n) /\ Starts(back[c], n)
            BY <2>3 DEF Starts, Has
        <3>2. QED
            BY <1>8, <2>3, <3>1 DEF Start
    <2>10. ASSUME cl[c].st = "ready" \/ (\E i \in 1..Len(s) : s[i].type \in Strict)
           PROVE  /\ io[c].isConnect /\ a >= MinSessionID /\ t.next >= MinSessionID
                  /\ MissingCheck(m.type) => m.sid = a
                  /\ Follows(q, t.next, cl[c].sid)
        <3>1. io[c].isConnect /\ a >= MinSessionID /\ Follows(s, a, cl[c].sid)
            BY <1>1, <2>1, <2>10 DEF Chain
        <3>2. PICK n : n = cl[c].sid
            OBVIOUS
        <3>3. IF MissingCheck(m.type)
              THEN m.sid = a /\ Follows(q, Succ(a), n) ELSE Follows(q, a, n)
            BY <1>1, <1>2, <1>3, <3>1, <3>2, FollowsTail
        <3>4. Succ(a) >= MinSessionID
            BY <1>3, <3>1, ServerAssumption DEF Succ
        <3>5. QED
            BY <1>5, <3>1, <3>2, <3>3, <3>4
    <2>11. Chain(c)'
        <3>1. (\E i \in 1..Len(q) : q[i].type \in Strict)
                  => \E i \in 1..Len(s) : s[i].type \in Strict
            BY <1>4
        <3>2. QED
            BY <1>8, <2>10, <3>1 DEF Chain
    <2>12. Given(c)'
        <3>1. m.type \in Strict /\ m.sid # MaxSessionID =>
                  t.sid = m.sid /\ t.sid >= MinSessionID /\ io[c].isConnect
            <4>1. m.type \in Strict => MissingCheck(m.type)
                BY DEF Strict, MissingCheck
            <4>2. QED
                BY <1>4, <1>5, <2>10, <4>1
        <3>2. QED
            BY <1>6, <1>7, <1>8, <2>1, <3>1 DEF Given
    <2>13. QED
        BY <1>10, <2>7, <2>8, <2>9, <2>11, <2>12 DEF InSession
<1>11. QED
    BY <1>9, <1>10

LEMMA JobSession ==
    ASSUME Inv, Session, RunJob
    PROVE  Session'
<1> SUFFICES ASSUME NEW x \in Conn PROVE InSession(x)'
    BY DEF Session
<1>1. PICK j : j = Head(jobs)
    OBVIOUS
<1>2. /\ jobs # <<>> /\ Dispatch(j.conn, j.msg, j.sid) /\ jobs' = Tail(jobs)
      /\ UNCHANGED <<cl, sock, back>>
    BY <1>1 DEF RunJob, netVars
<1>3. Typed /\ jobs \in Seq(Job) /\ wq \in [Conn -> Seq(Response)]
    BY DEF Inv, Typed
<1>4. /\ Len(jobs) \in Nat /\ 1 \in 1..Len(jobs) /\ j = jobs[1] /\ j \in Job
      /\ \A i \in 1..Len(jobs') : jobs'[i] = jobs[i + 1] /\ i + 1 \in 1..Len(jobs)
    BY <1>1, <1>2, <1>3, TailOfSeq
<1>5. Said(j) /\ JobEffect(j)
    BY <1>2, <1>3, <1>4, DispatchSaid, DispatchEffect
<1>6. io'[x].isConnect = io[x].isConnect
    BY <1>5 DEF JobEffect
<1>7. FewerJobs(x)
    <2>1. 1 \in {0, 1}
        OBVIOUS
    <2>2. QED
        BY <1>4, <2>1 DEF FewerJobs
<1>8. CASE ~(x = j.conn /\ j.msg.type = Ask)
    <2>1. io'[x].sessionid = io[x].sessionid
        BY <1>5, <1>8 DEF Said
    <2>2. FewerTold(wq'[x], wq[x])
        <3>1. \A i \in 1..Len(wq'[x]) :
                  wq'[x][i].type = Told => i \in 1..Len(wq[x]) /\ wq'[x][i] = wq[x][i]
            BY <1>5, <1>8 DEF Said
        <3>2. 0 \in {0, 1} /\ \A i \in 1..Len(wq'[x]) : i + 0 = i
            OBVIOUS
        <3>3. QED
            BY <3>1, <3>2 DEF FewerTold
    <2>3. QED
        BY <1>2, <1>6, <1>7, <2>1, <2>2, FewerSame, SessionKept DEF Session
<1>9. CASE x = j.conn /\ j.msg.type = Ask
    <2>1. OneAsk(x) /\ Given(x)
        BY DEF Session, InSession
    <2>2. Asks(1, x) /\ Asking(x) /\ Pending(x)
        BY <1>4, <1>9 DEF Asks, Asking, Pending
    <2>3. /\ sock[x] = <<>> /\ ~Has(wq[x], Told) /\ ~Has(back[x], Told)
          /\ cl[x].st \in {"connecting", "closed", "gone"} /\ Once(back[x], Told)
        BY <2>1, <2>2 DEF OneAsk
    <2>4. \A i \in 1..Len(jobs') : ~Asks(i, x)'
        <3> SUFFICES ASSUME NEW i \in 1..Len(jobs'), Asks(i, x)' PROVE FALSE
            OBVIOUS
        <3>1. Asks(i + 1, x) /\ i + 1 \in 1..Len(jobs)
            BY <1>4 DEF Asks
        <3>2. i + 1 = 1
            BY <1>4, <2>1, <2>2, <3>1 DEF OneAsk
        <3>3. QED
            BY <3>2
    <2>5. \A i \in 1..Len(wq'[x]) : wq'[x][i].type = Told =>
              /\ i = Len(wq[x]) + 1
              /\ wq'[x][i].e = 0 => /\ wq'[x][i].sid = io'[x].sessionid
                                    /\ wq'[x][i].sid >= MinSessionID
        BY <1>5, <2>3 DEF Said, Has
    <2>6. Once(wq'[x], Told) /\ ~Asking(x)'
        BY <2>4, <2>5 DEF Once, Asking
    <2>7. ~Has(<<>>, Ask) /\ Len(<<>>) = 0 /\ 1..0 = {}
        BY DEF Has
    <2>8. OneAsk(x)'
        BY <1>2, <2>3, <2>4, <2>6, <2>7 DEF OneAsk
    <2>9. Phase(x)' /\ Chain(x)'
        BY <1>2, <2>3, <2>7 DEF Phase, Chain
    <2>10. Start(x)'
        <3>1. Starts(wq'[x], io'[x].sessionid)
            BY <2>5 DEF Starts
        <3>2. \A s : Starts(back[x], s)
            BY <2>3 DEF Starts, Has
        <3>3. QED
            BY <1>2, <2>3, <3>1, <3>2 DEF Start
    <2>11. Given(x)'
        BY <1>6, <1>7, <2>1, FewerAsks
    <2>12. QED
        BY <2>8, <2>9, <2>10, <2>11 DEF InSession
<1>10. QED
    BY <1>8, <1>9

LEMMA WriteSession ==
    ASSUME Inv, Session, NEW c \in Conn, NEW written \in BOOLEAN, WriteFrame(c, written)
    PROVE  Session'
<1> SUFFICES ASSUME NEW x \in Conn PROVE InSession(x)'
    BY DEF Session
<1>1. PICK q, b, m : q = wq[c] /\ b = back[c] /\ m = Head(q)
    OBVIOUS
<1>2. /\ q # <<>> /\ UNCHANGED <<jobs, cl, sock>>
      /\ io' = [io EXCEPT ![c].isConnect = @ \/ m.type = Told]
      /\ \/ /\ wq' = [wq EXCEPT ![c] = Tail(q)]
            /\ \/ back' = back
               \/ back' = [back EXCEPT ![c] = Append(b, m)]
         \/ UNCHANGED <<wq, back>>
    <2>1. io' = [io EXCEPT ![c].isConnect = @ \/ m.type = Told]
        BY <1>1 DEF WriteFrame, MarksConnected, Told
    <2>2. q # <<>> /\ UNCHANGED <<jobs, cl, sock>>
        BY <1>1 DEF WriteFrame
    <2>3. CASE written
        <3>1. /\ wq' = [wq EXCEPT ![c] = Tail(@)]
              /\ back' = [back EXCEPT ![c] =
                             IF cl[c].st \in {"closed", "gone"} THEN @ ELSE Append(@, m)]
            BY <1>1, <2>3 DEF WriteFrame
        <3>2. wq' = [wq EXCEPT ![c] = Tail(q)]
            BY <1>1, <3>1
        <3>3. CASE cl[c].st \in {"closed", "gone"}
            <4>1. back' = [back EXCEPT ![c] = b]
                BY <1>1, <3>1, <3>3
            <4>2. back' = back
                BY <1>1, <4>1, Fields
            <4>3. QED
                BY <2>1, <2>2, <3>2, <4>2
        <3>4. CASE cl[c].st \notin {"closed", "gone"}
            <4>1. back' = [back EXCEPT ![c] = Append(b, m)]
                BY <1>1, <3>1, <3>4
            <4>2. QED
                BY <2>1, <2>2, <3>2, <4>1
        <3>5. QED
            BY <3>3, <3>4
    <2>4. CASE ~written
        <3>1. UNCHANGED <<wq, back>>
            BY <2>4 DEF WriteFrame
        <3>2. QED
            BY <2>1, <2>2, <3>1
    <2>5. QED
        BY <2>3, <2>4
<1>3. /\ io \in [Conn -> Node] /\ wq \in [Conn -> Seq(Response)]
      /\ back \in [Conn -> Seq(Response)] /\ q \in Seq(Response) /\ b \in Seq(Response)
    BY <1>1 DEF Inv, Typed
<1>4. /\ Len(q) \in Nat /\ 1 \in 1..Len(q) /\ m = q[1] /\ m \in Response
      /\ Len(Tail(q)) = Len(q) - 1
      /\ \A i \in 1..Len(Tail(q)) : Tail(q)[i] = q[i + 1] /\ i + 1 \in 1..Len(q)
    BY <1>1, <1>2, <1>3, TailOfSeq
<1>5. /\ \A y \in Conn : io'[y].sessionid = io[y].sessionid
      /\ \A y \in Conn : io[y].isConnect => io'[y].isConnect
      /\ m.type = Told => io'[c].isConnect
    <2>1. PICK k : k = [io[c] EXCEPT !.isConnect = @ \/ m.type = Told]
        OBVIOUS
    <2>2. io[c] \in Node
        BY <1>3
    <2>3. k.sessionid = io[c].sessionid
        BY <2>1, <2>2 DEF Node
    <2>4. k.isConnect = (io[c].isConnect \/ m.type = Told)
        BY <2>1, <2>2 DEF Node
    <2>5. io' = [io EXCEPT ![c] = k]
        BY <1>2, <2>1
    <2>6. QED
        BY <1>3, <2>3, <2>4, <2>5
<1>6. FewerTold(Tail(q), q)
    BY <1>2, <1>3, FewerTail
<1>7. CASE x # c \/ ~(m.type = Told /\ back' = [back EXCEPT ![c] = Append(b, m)])
    <2>1. FewerTold(wq'[x], wq[x])
        <3>1. wq'[x] = wq[x] \/ (x = c /\ wq'[x] = Tail(q))
            BY <1>2, <1>3
        <3>2. QED
            BY <1>1, <1>6, <3>1, FewerSame
    <2>2. FewerTold(back'[x], back[x])
        <3>1. back'[x] = back[x] \/ (x = c /\ m.type # Told /\ back'[x] = Append(b, m))
            BY <1>2, <1>3, <1>7
        <3>2. m.type # Told => FewerTold(Append(b, m), b)
            BY <1>3, <1>4, FewerAppend
        <3>3. QED
            BY <1>1, <3>1, <3>2, FewerSame
    <2>3. FewerJobs(x)
        <3>1. 0 \in {0, 1} /\ \A i \in 1..Len(jobs) : i + 0 = i
            OBVIOUS
        <3>2. QED
            BY <1>2, <3>1 DEF FewerJobs
    <2>4. QED
        BY <1>2, <1>5, <2>1, <2>2, <2>3, SessionKept DEF Session
<1>8. CASE x = c /\ m.type = Told /\ back' = [back EXCEPT ![c] = Append(b, m)]
    <2>1. OneAsk(c) /\ Phase(c) /\ Start(c) /\ Chain(c) /\ Given(c)
        BY DEF Session, InSession
    <2>2. Has(q, Told) /\ Pending(c)
        BY <1>1, <1>4, <1>8 DEF Has, Pending
    <2>3. ~Asking(c) /\ ~Has(b, Told) /\ Once(q, Told)
        BY <1>1, <2>1, <2>2 DEF OneAsk
    <2>4. wq'[c] = Tail(q) \/ wq' = wq
        BY <1>2, <1>3
    \* The frame is written: an unwritten one leaves the queues as they are.
    <2>5. wq'[c] = Tail(q) /\ back'[c] = Append(b, m)
        <3>1. back'[c] = Append(b, m)
            BY <1>3, <1>8
        <3>2. Len(Append(b, m)) = Len(b) + 1 /\ Len(b) \in Nat
            BY <1>3, <1>4, AppendAt
        <3>3. back' # back
            BY <1>1, <3>1, <3>2
        <3>4. QED
            BY <1>2, <1>3, <3>1, <3>3
    <2>6. ~Has(Tail(q), Told)
        <3> SUFFICES ASSUME NEW i \in 1..Len(Tail(q)), Tail(q)[i].type = Told PROVE FALSE
            BY DEF Has
        <3>1. i + 1 \in 1..Len(q) /\ q[i + 1].type = Told
            BY <1>4
        <3>2. i + 1 = 1
            BY <1>4, <1>8, <2>3, <3>1 DEF Once
        <3>3. QED
            BY <3>2
    <2>7. \A i \in 1..Len(Append(b, m)) : Append(b, m)[i].type = Told =>
              i = Len(b) + 1 /\ Append(b, m)[i] = m
        <3>1. \A i \in 1..Len(Append(b, m)) : i \in 1..Len(b) \/ i = Len(b) + 1
            BY <1>3, <1>4, AppendAt
        <3>2. Append(b, m)[Len(b) + 1] = m /\ \A i \in 1..Len(b) : Append(b, m)[i] = b[i]
            BY <1>3, <1>4, AppendAt
        <3>3. QED
            BY <2>3, <3>1, <3>2 DEF Has
    <2>8. Once(Tail(q), Told) /\ Once(Append(b, m), Told)
        BY <2>6, <2>7 DEF Once, Has
    <2>9. /\ Asking(c)' <=> Asking(c)
          /\ \A i, k \in 1..Len(jobs) : (Asks(i, c) /\ Asks(k, c))' => i = k
        <3>1. \A i, k \in 1..Len(jobs) : Asks(i, c) /\ Asks(k, c) => i = k
            BY <2>1 DEF OneAsk
        <3>2. QED
            BY <1>2, <3>1 DEF Asking, Asks
    <2>10. OneAsk(c)'
        <3>1. sock[c] = <<>> /\ cl[c].st \in {"connecting", "closed", "gone"}
            BY <2>1, <2>2 DEF OneAsk
        <3>2. ~Has(<<>>, Ask) /\ Len(<<>>) = 0 /\ 1..0 = {}
            BY DEF Has
        <3>3. QED
            BY <1>2, <2>3, <2>5, <2>6, <2>8, <2>9, <3>1, <3>2 DEF OneAsk
    <2>11. Phase(c)' /\ Chain(c)' /\ Given(c)'
        BY <1>2, <1>5, <2>1 DEF Phase, Chain, Given
    <2>12. Start(c)'
        <3>1. m.e = 0 => m.sid = io[c].sessionid /\ io[c].sessionid >= MinSessionID
            BY <1>1, <1>4, <1>8, <2>1 DEF Start, Starts
        <3>2. Starts(Append(b, m), io[c].sessionid)
            BY <2>7, <3>1 DEF Starts
        <3>3. Starts(Tail(q), io[c].sessionid)
            BY <2>6 DEF Starts, Has
        <3>4. QED
            BY <1>5, <1>8, <2>5, <3>2, <3>3 DEF Start
    <2>13. QED
        BY <1>8, <2>10, <2>11, <2>12 DEF InSession
<1>9. QED
    BY <1>7, <1>8

\* What a client may send, and what it is then: st and s are its state and its
\* next session id, st2 and s2 those after it has sent a message.
Sends(type, sid, st, s, st2, s2) ==
    \/ type \in {"login", "ping"} /\ st2 = st /\ s2 = s
    \/ type = Ask /\ st2 = "connecting" /\ s2 = s
    \/ type \in Strict /\ sid = s /\ st = "ready" /\ st2 = "ready" /\ s2 = Succ(s)
    \/ type = "early" /\ st = "open" /\ st2 = "open" /\ s2 = s

LEMMA SendSession ==
    ASSUME Inv, Session, NEW c \in Conn, NEW m \in Request, NEW k,
           sock' = [sock EXCEPT ![c] = Append(@, m)], UNCHANGED <<io, wq, jobs, back>>,
           cl[c].st \in {"open", "ready"}, cl' = [cl EXCEPT ![c] = k],
           Sends(m.type, m.sid, cl[c].st, cl[c].sid, k.st, k.sid)
    PROVE  Session'
<1> SUFFICES ASSUME NEW x \in Conn PROVE InSession(x)'
    BY DEF Session
<1>1. PICK q, s, a, n, st : /\ s = sock[c] /\ q = Append(s, m) /\ a = io[c].sessionid
                            /\ n = cl[c].sid /\ st = cl[c].st
    OBVIOUS
<1>2. s \in Seq(Request) /\ cl \in [Conn -> Client] /\ sock \in [Conn -> Seq(Request)]
    BY <1>1, Fields
<1>3. /\ Len(s) \in Nat /\ Len(q) = Len(s) + 1 /\ q[Len(s) + 1] = m
      /\ \A i \in 1..Len(s) : q[i] = s[i]
    BY <1>1, <1>2, AppendAt
<1>4. \A i \in 1..Len(q) : i \in 1..Len(s) \/ i = Len(s) + 1
    BY <1>3
<1>5. CASE x # c
    <2>1. cl'[x] = cl[x] /\ sock'[x] = sock[x]
        BY <1>2, <1>5
    <2>2. QED
        BY <2>1, SessionStays DEF Session
<1>6. CASE x = c
    <2>1. OneAsk(c) /\ Phase(c) /\ Start(c) /\ Chain(c) /\ Given(c)
        BY DEF Session, InSession
    <2>2. sock'[c] = q /\ cl'[c] = k /\ st \in {"open", "ready"}
        BY <1>1, <1>2
    <2>3. ~Has(s, Ask) /\ ~Pending(c) /\ ~Pending(c)'
        BY <1>1, <2>1 DEF OneAsk, Pending, Asking, Asks
    <2>4. Sends(m.type, m.sid, st, n, k.st, k.sid)
        BY <1>1
    <2>5. \A i \in 1..Len(q) : q[i].type = Ask => i = Len(q) /\ m.type = Ask
        BY <1>3, <1>4, <2>3 DEF Has
    <2>6. OneAsk(c)'
        <3>1. Has(q, Ask) => k.st = "connecting"
            BY <2>4, <2>5 DEF Has, Sends, Ask, Strict, Checked
        <3>2. \A i, l \in 1..Len(jobs) : (Asks(i, c) /\ Asks(l, c))' => i = l
            BY <2>1 DEF OneAsk, Asks
        <3>3. Asking(c)' <=> Asking(c)
            BY DEF Asking, Asks
        <3>4. QED
            BY <2>1, <2>2, <2>3, <2>5, <3>1, <3>2, <3>3 DEF OneAsk
    <2>7. /\ m.type \in Strict => MissingCheck(m.type) /\ m.type # "early"
          /\ m.type \in {"login", "ping", Ask} =>
                ~MissingCheck(m.type) /\ m.type \notin Strict /\ m.type # "early"
          /\ "early" \notin Strict
        BY DEF Strict, MissingCheck, Checked, Ask
    <2>8. Phase(c)'
        <3>1. /\ st = "open" => \A i \in 1..Len(s) : s[i].type \notin Strict
              /\ st = "ready" => \A i \in 1..Len(s) : s[i].type # "early"
            BY <1>1, <2>1 DEF Phase
        <3>2. CASE st = "open"
            <4>1. m.type \notin Strict /\ k.st # "ready"
                BY <2>4, <2>7, <3>2 DEF Sends
            <4>2. \A i \in 1..Len(q) : q[i].type \notin Strict
                BY <1>3, <1>4, <3>1, <3>2, <4>1
            <4>3. QED
                BY <2>2, <4>1, <4>2 DEF Phase
        <3>3. CASE st = "ready"
            <4>1. m.type # "early" /\ k.st # "open"
                BY <2>4, <2>7, <3>3 DEF Sends
            <4>2. \A i \in 1..Len(q) : q[i].type # "early"
                BY <1>3, <1>4, <3>1, <3>3, <4>1
            <4>3. QED
                BY <2>2, <4>1, <4>2 DEF Phase
        <3>4. QED
            BY <2>2, <3>2, <3>3
    <2>9. Chain(c)'
        <3> SUFFICES ASSUME k.st = "ready" \/ (\E i \in 1..Len(q) : q[i].type \in Strict)
                     PROVE  /\ io[c].isConnect /\ a >= MinSessionID
                            /\ Follows(q, a, k.sid)
            BY <1>1, <2>2 DEF Chain
        <3>1. st = "ready" \/ (\E i \in 1..Len(s) : s[i].type \in Strict)
            BY <1>3, <1>4, <2>2, <2>4, <2>7 DEF Sends
        <3>2. io[c].isConnect /\ a >= MinSessionID /\ Follows(s, a, n)
            BY <1>1, <2>1, <3>1 DEF Chain
        <3>3. /\ MissingCheck(m.type) /\ m.sid = n => Follows(q, a, Succ(n))
              /\ ~MissingCheck(m.type) => Follows(q, a, n)
            BY <1>1, <1>2, <3>2, FollowsAppend
        <3>4. m.type # "early"
            <4>1. st = "open" => \A i \in 1..Len(s) : s[i].type \notin Strict
                BY <1>1, <2>1 DEF Phase
            <4>2. QED
                BY <2>4, <2>7, <3>1, <4>1 DEF Sends
        <3>5. QED
            BY <2>4, <2>7, <3>2, <3>3, <3>4 DEF Sends
    <2>10. Start(c)' /\ Given(c)'
        BY <2>1 DEF Start, Given
    <2>11. QED
        BY <1>6, <2>6, <2>8, <2>9, <2>10 DEF InSession
<1>7. QED
    BY <1>5, <1>6

\* Client c sends such a message.
Sending(c, type, sid, st2, s2) ==
    /\ cl[c].st \in {"open", "ready"}
    /\ \E ok \in BOOLEAN : Send(c, type, sid, ok)
    /\ cl' = [cl EXCEPT ![c] = Sent(cl[c], st2, s2)]
    /\ Sends(type, sid, cl[c].st, cl[c].sid, st2, s2)

LEMMA SentSession ==
    ASSUME Inv, Session, NEW c \in Conn, NEW type \in Checked \cup Unchecked,
           NEW sid \in Nat, NEW st, NEW n, Sending(c, type, sid, st, n)
    PROVE  Session'
<1>1. PICK ok \in BOOLEAN : Send(c, type, sid, ok)
    BY DEF Sending
<1>2. PICK m : m = [type |-> type, sid |-> sid, user |-> cl[c].user, uuid |-> cl[c].uuid,
                    ok |-> ok]
    OBVIOUS
<1>3. sock' = [sock EXCEPT ![c] = Append(@, m)] /\ UNCHANGED <<io, wq, jobs, back>>
    BY <1>1, <1>2 DEF Send, loopVars, outVars, dbVars
<1>4. /\ cl[c].st \in {"open", "ready"} /\ cl' = [cl EXCEPT ![c] = Sent(cl[c], st, n)]
      /\ Sends(type, sid, cl[c].st, cl[c].sid, st, n)
    BY DEF Sending
<1>5. cl[c] \in Client /\ cl[c].user \in User /\ cl[c].uuid \in Device
    BY <1>4, Fields DEF Inv, Named
<1>6. m \in Request
    BY <1>2, <1>5 DEF Request
<1>7. m.type = type /\ m.sid = sid
    BY <1>2
<1>8. PICK k : k = Sent(cl[c], st, n)
    OBVIOUS
<1>9. k.st = st /\ k.sid = n
    BY <1>5, <1>8 DEF Sent, Client
<1>10. cl' = [cl EXCEPT ![c] = k]
    BY <1>4, <1>8
<1>11. Sends(m.type, m.sid, cl[c].st, cl[c].sid, k.st, k.sid)
    BY <1>4, <1>7, <1>9
<1>12. QED
    BY <1>3, <1>4, <1>6, <1>10, <1>11, SendSession

LEMMA ClientSendSession ==
    ASSUME Inv, Session, NEW c \in Conn, ClientSend(c)
    PROVE  Session'
<1>1. PICK s, u : s = cl[c].st /\ u = cl[c].sid /\ u \in Nat
    BY Fields DEF Client
<1>2. {"login", "ping", "clientconnect", "request", "logout", "clientdisconnect", "early"}
          \subseteq Checked \cup Unchecked
    BY DEF Checked, Unchecked
<1>3. 0 \in Nat /\ MinSessionID \in Nat /\ TRUE \in BOOLEAN
    BY ServerAssumption
<1>4. ASSUME s \in {"open", "ready"},
             NEW type \in {"login", "ping"}, \E ok \in BOOLEAN : Send(c, type, 0, ok),
             cl' = [cl EXCEPT ![c] = Sent(cl[c], s, u)]
      PROVE  Session'
    <2>1. Sends(type, 0, s, u, s, u)
        BY DEF Sends
    <2>2. Sending(c, type, 0, s, u)
        BY <1>1, <1>4, <2>1 DEF Sending
    <2>3. QED
        BY <1>2, <1>3, <2>2, SentSession
<1>5. ASSUME s \in {"open", "ready"}, Send(c, "clientconnect", 0, TRUE),
             cl' = [cl EXCEPT ![c] = Sent(cl[c], "connecting", u)]
      PROVE  Session'
    <2>1. Sends("clientconnect", 0, s, u, "connecting", u)
        BY DEF Sends, Ask
    <2>2. Sending(c, "clientconnect", 0, "connecting", u)
        BY <1>1, <1>3, <1>5, <2>1 DEF Sending
    <2>3. QED
        BY <1>2, <1>3, <2>2, SentSession
<1>6. ASSUME s = "ready", NEW type \in {"request", "logout", "clientdisconnect"},
             Send(c, type, u, TRUE), cl' = [cl EXCEPT ![c] = Sent(cl[c], "ready", Succ(u))]
      PROVE  Session'
    <2>1. Sends(type, u, s, u, "ready", Succ(u))
        BY <1>6 DEF Sends, Strict, Checked
    <2>2. Sending(c, type, u, "ready", Succ(u))
        BY <1>1, <1>3, <1>6, <2>1 DEF Sending
    <2>3. QED
        BY <1>1, <1>2, <2>2, SentSession
<1>7. ASSUME s = "open", NEW sid \in {0, MinSessionID}, Send(c, "early", sid, TRUE),
             cl' = [cl EXCEPT ![c] = Sent(cl[c], "open", u)]
      PROVE  Session'
    <2>1. Sends("early", sid, s, u, "open", u)
        BY <1>7 DEF Sends
    <2>2. Sending(c, "early", sid, "open", u)
        BY <1>1, <1>3, <1>7, <2>1 DEF Sending
    <2>3. QED
        BY <1>2, <1>3, <2>2, SentSession
<1>8. QED
    BY <1>1, <1>4, <1>5, <1>6, <1>7 DEF ClientSend

LEMMA ReceiveSession ==
    ASSUME Inv, Session, NEW c \in Conn, ClientReceive(c)
    PROVE  Session'
<1> SUFFICES ASSUME NEW x \in Conn PROVE InSession(x)'
    BY DEF Session
<1>1. PICK b, m, q, k : /\ b = back[c] /\ m = Head(b) /\ q = Tail(b)
                        /\ k = Received(cl[c], m)
    OBVIOUS
<1>2. /\ b # <<>> /\ back' = [back EXCEPT ![c] = q] /\ cl' = [cl EXCEPT ![c] = k]
      /\ UNCHANGED <<io, wq, jobs, sock>>
    BY <1>1 DEF ClientReceive, loopVars, outVars
<1>3. /\ b \in Seq(Response) /\ cl \in [Conn -> Client] /\ cl[c] \in Client
      /\ back \in [Conn -> Seq(Response)]
    BY <1>1, Fields
<1>4. /\ Len(b) \in Nat /\ 1 \in 1..Len(b) /\ m = b[1] /\ m \in Response
      /\ \A i \in 1..Len(q) : q[i] = b[i + 1] /\ i + 1 \in 1..Len(b)
    BY <1>1, <1>2, <1>3, TailOfSeq
<1>5. /\ m.type # Told => k.st = cl[c].st /\ k.sid = cl[c].sid
      /\ m.type = Told /\ m.e = 0 => k.st = "ready" /\ k.sid = m.sid
      /\ m.type = Told /\ m.e # 0 => k.st = "open"
    <2>1. PICK w, st, sid :
              /\ w = IF m.type = "loginnoti" THEN cl[c].wait ELSE cl[c].wait - 1
              /\ st = IF ~(m.type = Told) THEN cl[c].st
                      ELSE IF m.e = 0 THEN "ready" ELSE "open"
              /\ sid = IF m.type = Told /\ m.e = 0 THEN m.sid ELSE cl[c].sid
        OBVIOUS
    <2>2. k = [cl[c] EXCEPT !.wait = w, !.st = st, !.sid = sid]
        BY <1>1, <2>1 DEF Received, Told
    <2>3. k.st = st /\ k.sid = sid
        BY <1>3, <2>2 DEF Client
    <2>4. QED
        BY <2>1, <2>3
<1>6. CASE x # c \/ m.type # Told
    <2>1. back'[x] = back[x] \/ (back'[x] = q /\ x = c)
        BY <1>2, <1>3
    <2>2. FewerTold(q, b)
        BY <1>1, <1>2, <1>3, FewerTail
    <2>3. FewerTold(back'[x], back[x])
        BY <1>1, <2>1, <2>2, FewerSame
    <2>4. cl'[x].st = cl[x].st /\ cl'[x].sid = cl[x].sid
        BY <1>2, <1>3, <1>5, <1>6
    <2>5. FewerJobs(x)
        <3>1. 0 \in {0, 1} /\ \A i \in 1..Len(jobs) : i + 0 = i
            OBVIOUS
        <3>2. QED
            BY <1>2, <3>1 DEF FewerJobs
    <2>6. QED
        BY <1>2, <2>3, <2>4, <2>5, FewerSame, SessionKept DEF Session
<1>7. CASE x = c /\ m.type = Told
    <2>1. OneAsk(c) /\ Start(c) /\ Given(c)
        BY DEF Session, InSession
    <2>2. Has(b, Told) /\ Pending(c)
        BY <1>1, <1>4, <1>7 DEF Has, Pending
    <2>3. ~Asking(c) /\ ~Has(wq[c], Told) /\ Once(b, Told) /\ Once(wq[c], Told) /\ sock[c] = <<>>
        BY <1>1, <2>1, <2>2 DEF OneAsk
    <2>4. ~Has(q, Told)
        <3> SUFFICES ASSUME NEW i \in 1..Len(q), q[i].type = Told PROVE FALSE
            BY DEF Has
        <3>1. i + 1 \in 1..Len(b) /\ b[i + 1].type = Told
            BY <1>4
        <3>2. i + 1 = 1
            BY <1>4, <1>7, <2>3, <3>1 DEF Once
        <3>3. QED
            BY <3>2
    <2>5. back'[c] = q /\ cl'[c] = k /\ k.st \in {"open", "ready"}
        BY <1>2, <1>3, <1>5, <1>7
    <2>6. /\ ~Has(<<>>, Ask) /\ Len(<<>>) = 0 /\ 1..0 = {}
          /\ Once(q, Told) /\ \A s : Starts(q, s)
        BY <2>4 DEF Has, Once, Starts
    <2>7. ~Asking(c)' /\ \A i, l \in 1..Len(jobs) : ~Asks(i, c)'
        BY <1>2, <2>3 DEF Asking, Asks
    <2>8. ~Pending(c)'
        BY <1>2, <2>3, <2>4, <2>5, <2>7 DEF Pending
    <2>9. OneAsk(c)'
        BY <1>2, <2>3, <2>4, <2>5, <2>6, <2>7, <2>8 DEF OneAsk
    <2>10. Phase(c)'
        BY <1>2, <2>3, <2>6 DEF Phase
    <2>11. Start(c)'
        BY <1>2, <2>1, <2>4, <2>5, <2>6 DEF Start
    <2>12. Chain(c)'
        <3> SUFFICES ASSUME k.st = "ready"
                     PROVE  /\ io[c].isConnect /\ io[c].sessionid >= MinSessionID
                            /\ Follows(<<>>, io[c].sessionid, k.sid)
            BY <1>2, <2>3, <2>5, <2>6 DEF Chain
        <3>1. m.e = 0 /\ k.sid = m.sid
            BY <1>5, <1>7
        <3>2. io[c].isConnect
            BY <1>1, <2>1, <2>2 DEF Start
        <3>3. k.sid = io[c].sessionid /\ io[c].sessionid >= MinSessionID
            BY <1>1, <1>4, <1>7, <2>1, <3>1 DEF Start, Starts
        <3>4. PICK a, s : a = io[c].sessionid /\ s = <<>>
            OBVIOUS
        <3>5. CheckedIn(s) = {}
            BY <2>6, <3>4 DEF CheckedIn
        <3>6. Follows(s, a, a)
            BY <3>5, FollowsNone
        <3>7. QED
            BY <3>2, <3>3, <3>4, <3>6
    <2>13. Given(c)'
        BY <1>2, <2>1 DEF Given
    <2>14. QED
        BY <1>7, <2>9, <2>10, <2>11, <2>12, <2>13 DEF InSession
<1>8. QED
    BY <1>6, <1>7

\* The steps that neither send, read nor answer.
LEMMA OtherSession ==
    ASSUME Inv, Session, jobs' = jobs \/ jobs' = <<>>, sock' = sock,
           NEW x \in Conn,
           wq'[x] = wq[x] \/ wq'[x] = <<>>, back'[x] = back[x] \/ back'[x] = <<>>,
           io'[x].sessionid = io[x].sessionid, io'[x].isConnect = io[x].isConnect,
           cl'[x].sid = cl[x].sid, cl'[x].st = cl[x].st \/ cl'[x].st \in {"closed", "gone"}
    PROVE  InSession(x)'
BY SessionStays DEF Session

\* A callback that only starts or stops watchers, or leaves the nodes alone.
LEMMA LoopSession ==
    ASSUME Inv, Session, UNCHANGED <<jobs, wq, sock, back, cl>>,
           \A x \in Conn : /\ io'[x].sessionid = io[x].sessionid
                           /\ io'[x].isConnect = io[x].isConnect
    PROVE  Session'
<1>1. ASSUME NEW x \in Conn PROVE InSession(x)'
    BY OtherSession
<1>2. QED
    BY <1>1 DEF Session

LEMMA WatcherSession ==
    ASSUME Inv, Session, NEW c \in Conn, ReadError(c) \/ WriteStop(c) \/ StartWrite
    PROVE  Session'
<1>1. io \in [Conn -> Node] /\ UNCHANGED <<jobs, wq, sock, back, cl>>
    BY Fields DEF ReadError, WriteStop, StartWrite, outVars, netVars
<1>2. ASSUME NEW x \in Conn
      PROVE  io'[x].sessionid = io[x].sessionid /\ io'[x].isConnect = io[x].isConnect
    <2>1. io[x] \in Node /\ io[c] \in Node
        BY <1>1
    <2>2. CASE io' = [io EXCEPT ![c].reading = FALSE]
        BY <1>1, <2>1, <2>2 DEF Node
    <2>3. CASE io' = [io EXCEPT ![c].writing = FALSE]
        BY <1>1, <2>1, <2>3 DEF Node
    <2>4. CASE io' = [y \in Conn |-> [io[y] EXCEPT !.writing = @ \/ y \in nodes]]
        <3>1. io'[x] = [io[x] EXCEPT !.writing = @ \/ x \in nodes]
            BY <2>4
        <3>2. io'[x].sessionid = io[x].sessionid
            BY <2>1, <3>1 DEF Node
        <3>3. io'[x].isConnect = io[x].isConnect
            BY <2>1, <3>1 DEF Node
        <3>4. QED
            BY <3>2, <3>3
    <2>5. QED
        BY <2>2, <2>3, <2>4 DEF ReadError, WriteStop, StartWrite
<1>3. QED
    BY <1>1, <1>2, LoopSession

LEMMA TimeSession ==
    ASSUME Inv, Session, PingTimer \/ Tick
    PROVE  Session'
<1>1. UNCHANGED <<io, jobs, wq, sock, back, cl>>
    BY DEF PingTimer, Tick, outVars, netVars
<1>2. QED
    BY <1>1, LoopSession

LEMMA RestartSession ==
    ASSUME Inv, Session, Crash \/ AbortOnConnect
    PROVE  Session'
<1>1. Restart
    BY DEF Crash, AbortOnConnect
<1>2. /\ jobs' = <<>> /\ wq' = [y \in Conn |-> <<>>]
      /\ UNCHANGED <<io, cl, sock, back>>
    BY <1>1 DEF Restart, netVars
<1>3. ASSUME NEW x \in Conn PROVE InSession(x)'
    <2>1. wq'[x] = <<>>
        BY <1>2
    <2>2. QED
        BY <1>2, <2>1, OtherSession
<1>4. QED
    BY <1>3 DEF Session

LEMMA LeaveSession ==
    ASSUME Inv, Session, NEW c \in Conn, ClientLeave(c) \/ ClientSeesClose(c)
    PROVE  Session'
<1>1. /\ UNCHANGED <<io, jobs, wq, sock>>
      /\ back' = [back EXCEPT ![c] = <<>>] \/ back' = back
    BY DEF ClientLeave, ClientSeesClose, loopVars, outVars
<1>2. PICK st \in {"closed", "gone"} : cl' = [cl EXCEPT ![c].st = st]
    BY DEF ClientLeave, ClientSeesClose
<1>3. cl \in [Conn -> Client] /\ back \in [Conn -> Seq(Response)]
    BY Fields
<1>4. ASSUME NEW x \in Conn PROVE InSession(x)'
    <2>1. back'[x] = back[x] \/ back'[x] = <<>>
        BY <1>1, <1>3
    <2>2. cl'[x].sid = cl[x].sid /\ (cl'[x].st = cl[x].st \/ cl'[x].st \in {"closed", "gone"})
        <3>1. cl[c] \in Client
            BY <1>3
        <3>2. PICK k : k = [cl[c] EXCEPT !.st = st]
            OBVIOUS
        <3>3. k.sid = cl[c].sid /\ k.st = st
            BY <3>1, <3>2 DEF Client
        <3>4. cl' = [cl EXCEPT ![c] = k]
            BY <1>2, <3>2
        <3>5. QED
            BY <1>3, <3>3, <3>4
    <2>3. QED
        BY <1>1, <2>1, <2>2, OtherSession
<1>5. QED
    BY <1>4 DEF Session

LEMMA NextSession == Inv /\ Session /\ [Next]_vars => Session'
<1> SUFFICES ASSUME Inv, Session, [Next]_vars PROVE Session'
    OBVIOUS
<1>1. ASSUME NEW c \in Conn, NEW u \in User, NEW d \in Device, SocketAccept(c, u, d)
      PROVE  Session'
    BY <1>1, AcceptSession
<1>2. ASSUME NEW c \in Conn, ReadMessage(c) \/ ReadError(c) PROVE Session'
    BY <1>2, ReadSession, WatcherSession
<1>3. ASSUME NEW c \in Conn, Write(c) PROVE Session'
    BY <1>3, WriteSession, WatcherSession DEF Write
<1>4. ASSUME NEW c \in Conn, ClientSend(c) \/ ClientReceive(c) PROVE Session'
    BY <1>4, ClientSendSession, ReceiveSession
<1>5. ASSUME NEW c \in Conn, ClientLeave(c) \/ ClientSeesClose(c) PROVE Session'
    BY <1>5, LeaveSession
<1>6. CASE RunJob
    BY <1>6, JobSession
<1>7. CASE StartWrite
    <2>1. CASE Conn = {}
        BY <2>1 DEF Session
    <2>2. CASE Conn # {}
        <3>1. PICK c \in Conn : TRUE
            BY <2>2
        <3>2. QED
            BY <1>7, <3>1, WatcherSession
    <2>3. QED
        BY <2>1, <2>2
<1>8. CASE PingTimer \/ Tick
    BY <1>8, TimeSession
<1>9. CASE Crash \/ AbortOnConnect
    BY <1>9, RestartSession
<1>10. CASE UNCHANGED vars
    <2>1. UNCHANGED <<io, jobs, wq, sock, back, cl>>
        BY <1>10 DEF vars, loopVars, outVars, netVars
    <2>2. QED
        BY <2>1, LoopSession
<1>11. QED
    BY <1>1, <1>2, <1>3, <1>4, <1>5, <1>6, <1>7, <1>8, <1>9, <1>10 DEF Next

LEMMA SessionInStep == Inv /\ Session => InStep
<1> SUFFICES ASSUME Inv, Session PROVE InStep
    OBVIOUS
<1>1. ASSUME NEW c \in Conn, cl[c].st = "ready"
      PROVE  Follows(sock[c], io[c].sessionid, cl[c].sid)
    BY <1>1 DEF Session, InSession, Chain
<1>2. ASSUME NEW i \in 1..Len(jobs), jobs[i].msg.type \in Strict, jobs[i].msg.sid # MaxSessionID
      PROVE  /\ jobs[i].sid = jobs[i].msg.sid /\ jobs[i].sid >= MinSessionID
             /\ io[jobs[i].conn].isConnect
    <2>1. PICK c \in Conn : c = jobs[i].conn
        BY Fields
    <2>2. Given(c)
        BY DEF Session, InSession
    <2>3. QED
        BY <1>2, <2>1, <2>2 DEF Given
<1>3. QED
    BY <1>1, <1>2 DEF InStep, Strict
-----------------------------------------------------------------------------
(* The theorems.                                                           *)

\* Every field keeps its type over any interleaving of callbacks, jobs, client
\* steps, faults and restarts: in particular dispatch's ClientConnect never
\* hands out an id past MaxSessionID, because TakeSessionID never gives
\* MaxSessionID to a message that updateSessionID could store.
THEOREM TypeCorrect == Spec => []TypeOK
<1>1. Inv => TypeOK
    BY TypedOK DEF Inv
<1>2. QED
    BY <1>1, Invariant, PTL

\* The ping list stays duplicate-free and sorted by age through accepts, read
\* errors, expiries and writes that move a node to its end, so
\* pingtime_callback may stop at the first node that has not expired.
THEOREM PingInOrder == Spec => []PingSorted
<1>1. Inv => PingSorted
    BY DEF Inv, Sorted, PingSorted
<1>2. QED
    BY <1>1, Invariant, PTL

\* A device's notifications go to a node of that device that was told it is
\* connected, whatever the order of reconnects, write errors, expiries and
\* read errors: every message names the device of the client that sent it,
\* and uuidnode_put follows isConnect.
THEOREM MappedOwn == Spec => []MappedOwnDevice
<1>1. Inv => MappedOwnDevice
    BY DEF Inv, Linked
<1>2. QED
    BY <1>1, Invariant, PTL

\* A job rewrites only the documents of the device its message names or its
\* node stands for, through every path of login, connect, logout, disconnect
\* and updateSessionID, throwing calls included, unless findUUID found no
\* document for the named device and left another one in connectInfo_.
THEOREM OwnDocuments == Spec => OwnDocument
<1>1. Init => Keyed(rows)
    BY DEF Init, Keyed
<1>2. Inv /\ Keyed(rows) /\ [Next]_vars => Keyed(rows)'
    <2>1. ASSUME Inv, Keyed(rows), [Next]_vars PROVE Keyed(rows')
        BY <2>1, DocumentStep
    <2>2. QED
        BY <2>1 DEF Keyed
<1>3. Inv /\ Keyed(rows) /\ [Next]_vars
          => [\A d \in Device :
                rows'[d] # rows[d] =>
                   LET j == Head(jobs)
                   IN d \in {j.msg.uuid, io[j.conn].uuid} \/ rows[j.msg.uuid] = NoRow]_vars
    BY DocumentStep
<1>4. QED
    BY <1>1, <1>2, <1>3, Invariant, PTL DEF Spec, OwnDocument

\* From a clientconnectres to the end of the connection the server and the
\* client count session ids alike, whatever is in flight between them: the
\* checks that dispatch makes of isConnect and of the session id refuse no
\* request of a connected client but the one that carries MaxSessionID.
THEOREM RequestsInStep == Spec => []InStep
<1>1. Init => Inv /\ Session
    BY InitInv, InitSession
<1>2. Inv /\ Session /\ [Next]_vars => (Inv /\ Session)'
    BY NextInv, NextSession
<1>3. Inv /\ Session => InStep
    BY SessionInStep
<1>4. QED
    BY <1>1, <1>2, <1>3, PTL DEF Spec
=============================================================================
