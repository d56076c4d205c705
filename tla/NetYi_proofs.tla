---------------------------- MODULE NetYi_proofs ----------------------------
(***************************************************************************)
(* Proofs about the client network library, for every set of application   *)
(* threads, every choice of calls and every bound on calls, answers and    *)
(* notifications.                                                          *)
(***************************************************************************)
EXTENDS NetYi, SequenceTheorems, TLAPS

-----------------------------------------------------------------------------
(* The inductive invariant.                                                *)

\* The kinds whose callback is kept under a session id.
Keyed == {"request", "query"}

\* The ids given out after the clientconnectres.
NewSid == {s \in Sid : s >= FirstSid}

Key == Nat \cup Reserved
MapKey == Sid \cup Reserved
CallOrNone == Call \cup {NoCall}

Busy == [step : {"inc", "push", "put"}, kind : Kinds, sid : Sid, call : Call]
AnswerKinds == AllKinds \cup {"error"}
Found == [step : {"find"}, key : Key, kind : AnswerKinds, of : CallOrNone]
Called == [step : {"calling", "erase"}, key : MapKey, kind : AnswerKinds,
           of : CallOrNone, call : Call, todo : Kinds \cup {"none"}]

\* TypeOK with the shape of every record.
Typed ==
    /\ cbmap \in [MapKey -> CallOrNone]
    /\ mutex \in Thread \cup {NoThread}
    /\ sessionid \in Sid
    /\ th \in [Thread -> {Idle} \cup Busy]
    /\ loop \in {Idle} \cup Found \cup Called
    /\ out \in Seq(Request) /\ wire \in Seq(Request)
    /\ jobs \in Seq(Job) /\ nodesid \in Nat /\ back \in Seq(Frame)
    /\ async \in BOOLEAN /\ writing \in BOOLEAN
    /\ made \in Seq(Kinds) /\ Len(made) <= MaxCalls /\ notis \in 0..MaxNoti
    /\ ran \subseteq [call : Call, key : Key, kind : AnswerKinds, of : CallOrNone]
    /\ stopped \subseteq Call /\ pending \in BOOLEAN /\ across \in BOOLEAN

\* The mutex belongs to the thread inside a put, whose call is the last made.
OneWriter ==
    /\ \A t \in Thread : th[t] # Idle <=> mutex = t
    /\ \A t \in Thread : th[t] # Idle => th[t].call = Len(made)

\* The clientconnect is in one place at a time on its way out and back.
Has(q) == \E i \in 1..Len(q) : q[i].kind = "connect"
Once(q) ==
    \A i, j \in 1..Len(q) : q[i].kind = "connect" /\ q[j].kind = "connect" => i = j

Asking == \E t \in Thread : th[t] # Idle /\ th[t].step # "put" /\ th[t].kind = "connect"
Connecting == Asking \/ Has(out) \/ Has(wire) \/ Has(jobs) \/ Has(back)

ConnectOnce ==
    /\ Once(out) /\ Once(wire) /\ Once(jobs) /\ Once(back)
    /\ Has(out) => ~Has(wire) /\ ~Has(jobs) /\ ~Has(back)
    /\ Has(wire) => ~Has(jobs) /\ ~Has(back)
    /\ Has(jobs) => ~Has(back)
    /\ ~(Asking /\ (Has(out) \/ Has(wire) \/ Has(jobs) \/ Has(back)))
    /\ Connecting => "connect" \in ToSet(made)

\* What the server makes of a frame: a connect is expected under id 0 and
\* answered with 0 or the node's first id, a request is answered, other than by
\* an error, under an id given out after the clientconnectres.
ServerSids ==
    /\ \A i \in 1..Len(jobs) : jobs[i].kind = "connect" => jobs[i].expected = 0
    /\ \A i \in 1..Len(back) : back[i].kind = "connect" => back[i].sid \in {0, FirstSid}
    /\ \A i \in 1..Len(back) : back[i].kind \in Keyed => back[i].sid \in NewSid
    /\ loop # Idle /\ loop.kind \in Keyed => loop.key \in NewSid

\* The id the next call will be given: the one a thread is about to write
\* back, whatever a clientconnectres stores meanwhile.
NextId ==
    IF mutex # NoThread /\ th[mutex].step = "inc" THEN th[mutex].sid + 1 ELSE sessionid

IdBound ==
    NextId <= IF Connecting \/ "connect" \notin ToSet(made)
              THEN Len(made) ELSE FirstSid + Len(made) - 1

\* A request or its answer, or a callback in the map, ties id s to call k.
TagIn(q, s, k) == \E i \in 1..Len(q) : q[i].kind \in Keyed /\ q[i].sid = s /\ q[i].of = k
TagPut(s, k) ==
    \E t \in Thread : th[t] # Idle /\ th[t].kind \in Keyed /\ th[t].sid = s /\ th[t].call = k
TagLoop(s, k) == loop # Idle /\ loop.kind \in Keyed /\ loop.key = s /\ loop.of = k
TagMap(s, k) == cbmap[s] = k /\ k # NoCall

Tag(s, k) ==
    \/ TagPut(s, k) \/ TagLoop(s, k) \/ TagMap(s, k)
    \/ TagIn(out, s, k) \/ TagIn(wire, s, k) \/ TagIn(jobs, s, k) \/ TagIn(back, s, k)

\* An id given out after the clientconnectres is tied to one call, and lies below
\* the next.  Ids from before it may be given out again, if the connect fails.
IdsUnique ==
    \A s \in NewSid : \A k, m \in CallOrNone : Tag(s, k) /\ Tag(s, m) => k = m
IdsPast == \A s \in NewSid : \A k \in CallOrNone : Tag(s, k) => s < NextId

\* The calls whose put is over.
Settled == IF mutex = NoThread THEN Len(made) ELSE Len(made) - 1

\* A callback is in the map once, and a stopped one only until it is erased.
CalledOnce ==
    /\ \A k \in stopped : k <= Settled
    /\ \A x \in MapKey : cbmap[x] <= Settled
    /\ loop.step \in {"calling", "erase"} => loop.call <= Settled
    /\ \A x, y \in MapKey : cbmap[x] = cbmap[y] /\ cbmap[x] # NoCall => x = y
    /\ loop.step = "calling" => \A x \in MapKey : cbmap[x] = loop.call => x = loop.key
    /\ \A x \in MapKey : cbmap[x] \in stopped => loop.step = "erase" /\ loop.key = x

Inv ==
    /\ Typed /\ OneWriter /\ ConnectOnce /\ ServerSids /\ IdBound
    /\ IdsUnique /\ IdsPast /\ CalledOnce /\ OwnAnswer

-----------------------------------------------------------------------------
(* Sequences.                                                              *)

\* What taking the first frame leaves.
LEMMA TailOfSeq ==
    ASSUME NEW S, NEW q \in Seq(S), q # <<>>
    PROVE  /\ Len(q) \in Nat /\ Len(q) > 0 /\ Head(q) = q[1] /\ Head(q) \in S
           /\ Tail(q) \in Seq(S) /\ Len(Tail(q)) = Len(q) - 1
           /\ \A i \in 1..(Len(q) - 1) : Tail(q)[i] = q[i + 1]
BY HeadTailProperties, EmptySeq, LenProperties

\* What one more frame adds.
LEMMA AppendToSeq ==
    ASSUME NEW S, NEW q \in Seq(S), NEW m \in S
    PROVE  /\ Len(q) \in Nat /\ Append(q, m) \in Seq(S) /\ Len(Append(q, m)) = Len(q) + 1
           /\ \A i \in 1..Len(q) : Append(q, m)[i] = q[i]
           /\ Append(q, m)[Len(q) + 1] = m
OBVIOUS

\* What n copies of a frame add.
LEMMA CopiesToSeq ==
    ASSUME NEW S, NEW q \in Seq(S), NEW m \in S, NEW n \in Nat \ {0}
    PROVE  LET z == q \o [i \in 1..n |-> m] IN
           /\ Len(q) \in Nat /\ z \in Seq(S) /\ Len(z) = Len(q) + n
           /\ \A i \in 1..Len(q) : z[i] = q[i]
           /\ \A i \in (Len(q) + 1)..(Len(q) + n) : z[i] = m
<1>1. PICK r : r = [i \in 1..n |-> m]
    OBVIOUS
<1>2. r \in Seq(S) /\ Len(r) = n /\ \A i \in 1..n : r[i] = m
    BY <1>1
<1>3. /\ q \o r \in Seq(S) /\ Len(q \o r) = Len(q) + Len(r)
      /\ \A i \in 1..(Len(q) + Len(r)) :
            (q \o r)[i] = IF i <= Len(q) THEN q[i] ELSE r[i - Len(q)]
    BY <1>2, ConcatProperties
<1>4. PICK l \in Nat : l = Len(q)
    BY LenProperties
<1>5. ASSUME NEW i \in (l + 1)..(l + n)
      PROVE  (q \o r)[i] = m
    BY <1>2, <1>3, <1>4
<1>6. QED
    BY <1>1, <1>2, <1>3, <1>4, <1>5

\* Frames leave from the front: nothing new appears in the queue.
LEMMA TakeFrame ==
    ASSUME NEW S, NEW q \in Seq(S), q # <<>>
    PROVE  /\ Head(q) \in S /\ Tail(q) \in Seq(S)
           /\ Has(Tail(q)) => Has(q)
           /\ Head(q).kind = "connect" => Has(q)
           /\ Once(q) => Once(Tail(q))
           /\ Once(q) /\ Head(q).kind = "connect" => ~Has(Tail(q))
           /\ \A s, k : TagIn(Tail(q), s, k) => TagIn(q, s, k)
           /\ Head(q).kind \in Keyed => TagIn(q, Head(q).sid, Head(q).of)
<1>1. PICK n : n = Len(q)
    OBVIOUS
<1>2. PICK r : r = Tail(q)
    OBVIOUS
<1>3. /\ n \in Nat /\ n > 0 /\ Head(q) = q[1] /\ Head(q) \in S
      /\ r \in Seq(S) /\ Len(r) = n - 1
      /\ \A i \in 1..(n - 1) : r[i] = q[i + 1]
    BY <1>1, <1>2, TailOfSeq
<1>4. \A i \in 1..(n - 1) : i + 1 \in 1..n /\ i + 1 # 1
    BY <1>3
<1>5. 1 \in 1..n
    BY <1>3
<1>6. (Has(r) => Has(q)) /\ (Head(q).kind = "connect" => Has(q))
    BY <1>1, <1>3, <1>4, <1>5 DEF Has
<1>7. Once(q) => Once(r)
    <2> SUFFICES ASSUME Once(q), NEW i \in 1..(n - 1), NEW j \in 1..(n - 1),
                        r[i].kind = "connect", r[j].kind = "connect"
                 PROVE  i = j
        BY <1>3 DEF Once
    <2>1. i + 1 = j + 1
        BY <1>1, <1>3, <1>4 DEF Once
    <2>2. QED
        BY <2>1
<1>8. Once(q) /\ Head(q).kind = "connect" => ~Has(r)
    BY <1>1, <1>3, <1>4, <1>5 DEF Once, Has
<1>9. \A s, k : TagIn(r, s, k) => TagIn(q, s, k)
    BY <1>1, <1>3, <1>4 DEF TagIn
<1>10. Head(q).kind \in Keyed => TagIn(q, Head(q).sid, Head(q).of)
    BY <1>1, <1>3, <1>5 DEF TagIn
<1>11. QED
    BY <1>2, <1>3, <1>6, <1>7, <1>8, <1>9, <1>10

\* Copies of a frame at the end of a queue; a clientconnect is not copied.
MoreOf(z, q, m, n) ==
    /\ Has(z) => Has(q) \/ m.kind = "connect"
    /\ Once(q) /\ (m.kind = "connect" => n = 1 /\ ~Has(q)) => Once(z)
    /\ \A s, k : TagIn(z, s, k) =>
          TagIn(q, s, k) \/ (m.kind \in Keyed /\ m.sid = s /\ m.of = k)
    /\ \A i \in 1..Len(z) : (\E j \in 1..Len(q) : z[i] = q[j]) \/ z[i] = m

LEMMA AddFrames ==
    ASSUME NEW S, NEW q \in Seq(S), NEW z \in Seq(S), NEW m \in S, NEW n \in Nat,
           Len(z) = Len(q) + n, \A i \in 1..Len(q) : z[i] = q[i],
           \A i \in (Len(q) + 1)..(Len(q) + n) : z[i] = m
    PROVE  MoreOf(z, q, m, n)
<1>1. PICK l \in Nat : l = Len(q)
    BY LenProperties
<1>2. PICK d \in Nat : d = Len(z) /\ d = l + n
    BY <1>1
<1>3. \A i \in 1..d : (i \in 1..l /\ z[i] = q[i]) \/ (i \in (l + 1)..(l + n) /\ z[i] = m)
    BY <1>1, <1>2
<1>4. Has(z) => Has(q) \/ m.kind = "connect"
    BY <1>1, <1>2, <1>3 DEF Has
<1>5. Once(q) /\ (m.kind = "connect" => n = 1 /\ ~Has(q)) => Once(z)
    <2> SUFFICES ASSUME Once(q), m.kind = "connect" => n = 1 /\ ~Has(q),
                        NEW i \in 1..d, NEW j \in 1..d,
                        z[i].kind = "connect", z[j].kind = "connect"
                 PROVE  i = j
        BY <1>2 DEF Once
    <2>1. CASE m.kind = "connect"
        <3>1. i \in (l + 1)..(l + n) /\ j \in (l + 1)..(l + n)
            BY <1>1, <1>3, <2>1 DEF Has
        <3>2. QED
            BY <2>1, <3>1
    <2>2. CASE m.kind # "connect"
        BY <1>1, <1>3, <2>2 DEF Once
    <2>3. QED
        BY <2>1, <2>2
<1>6. ASSUME NEW s, NEW k, TagIn(z, s, k)
      PROVE  TagIn(q, s, k) \/ (m.kind \in Keyed /\ m.sid = s /\ m.of = k)
    <2>1. PICK i \in 1..d : z[i].kind \in Keyed /\ z[i].sid = s /\ z[i].of = k
        BY <1>2, <1>6 DEF TagIn
    <2>2. QED
        BY <1>1, <1>3, <2>1 DEF TagIn
<1>7. \A i \in 1..d : (\E j \in 1..l : z[i] = q[j]) \/ z[i] = m
    BY <1>3
<1>8. QED
    BY <1>1, <1>2, <1>4, <1>5, <1>6, <1>7 DEF MoreOf

LEMMA AddFrame ==
    ASSUME NEW S, NEW q \in Seq(S), NEW m \in S
    PROVE  Append(q, m) \in Seq(S) /\ MoreOf(Append(q, m), q, m, 1)
<1>1. PICK z : z = Append(q, m)
    OBVIOUS
<1>2. /\ z \in Seq(S) /\ Len(z) = Len(q) + 1 /\ Len(q) \in Nat
      /\ (\A i \in 1..Len(q) : z[i] = q[i]) /\ z[Len(q) + 1] = m
    BY <1>1, AppendToSeq
<1>3. \A i \in (Len(q) + 1)..(Len(q) + 1) : z[i] = m
    BY <1>2
<1>4. QED
    BY <1>1, <1>2, <1>3, AddFrames

LEMMA AddCopies ==
    ASSUME NEW S, NEW q \in Seq(S), NEW m \in S, NEW n \in Nat \ {0}
    PROVE  LET z == q \o [i \in 1..n |-> m] IN z \in Seq(S) /\ MoreOf(z, q, m, n)
<1>1. PICK z : z = q \o [i \in 1..n |-> m]
    OBVIOUS
<1>2. /\ z \in Seq(S) /\ Len(z) = Len(q) + n
      /\ \A i \in 1..Len(q) : z[i] = q[i]
      /\ \A i \in (Len(q) + 1)..(Len(q) + n) : z[i] = m
    BY <1>1, CopiesToSeq
<1>3. n \in Nat
    OBVIOUS
<1>4. QED
    BY <1>1, <1>2, <1>3, AddFrames

-----------------------------------------------------------------------------
(* What the invariant says, in the form the steps use.                     *)

LEMMA Numbers ==
    /\ MaxCalls \in Nat /\ MaxCalls > 0 /\ 2 * MaxCalls <= 65536 /\ FirstSid = MaxCalls
    /\ Sid = 0..(2 * MaxCalls - 1) /\ Call = 1..MaxCalls /\ NoCall = 0
    /\ CallOrNone = 0..MaxCalls
    /\ NoThread \notin Thread /\ Loop \in Thread
    /\ MaxNoti \in Nat /\ MaxAnswers \in Nat
    /\ NewSid = FirstSid..(2 * MaxCalls - 1) /\ NewSid \subseteq Sid
    /\ Sid \subseteq Nat /\ MapKey \subseteq Key
<1>1. MaxCalls \in Nat /\ MaxCalls > 0 /\ 2 * MaxCalls <= 65536
    BY NetAssumption
<1>2. FirstSid + MaxCalls - 1 = 2 * MaxCalls - 1
    BY <1>1 DEF FirstSid
<1>3. QED
    BY <1>1, <1>2, NetAssumption
       DEF FirstSid, Sid, NewSid, Call, NoCall, CallOrNone, Thread, Key, MapKey

LEMMA KeyOfIs ==
    ASSUME NEW kind \in AnswerKinds, NEW sid \in Nat
    PROVE  /\ KeyOf(kind, sid) \in Key
           /\ kind \in Keyed => KeyOf(kind, sid) = sid
           /\ kind # "error" /\ sid \in Sid => KeyOf(kind, sid) \in MapKey
           /\ kind # "error" /\ KeyOf(kind, sid) \in Nat => kind \in Keyed
<1>1. -1 \notin Nat /\ -2 \notin Nat /\ -4 \notin Nat
    OBVIOUS
<1>2. -1 \in MapKey /\ -2 \in MapKey /\ -4 \in MapKey /\ sid \in Key
      /\ -1 \in Key /\ -2 \in Key /\ -4 \in Key /\ (sid \in Sid => sid \in MapKey)
    BY DEF Key, MapKey, Reserved
<1>3. CASE kind \in {"login", "connect"}
    BY <1>1, <1>2, <1>3 DEF KeyOf, Keyed
<1>4. CASE kind = "leave"
    BY <1>1, <1>2, <1>4 DEF KeyOf, Keyed
<1>5. CASE kind = "onuser"
    BY <1>1, <1>2, <1>5 DEF KeyOf, Keyed
<1>6. CASE kind \in {"request", "query", "error"}
    BY <1>1, <1>2, <1>6 DEF KeyOf, Keyed
<1>7. QED
    BY <1>3, <1>4, <1>5, <1>6 DEF AllKinds, AnswerKinds

LEMMA FrameFields ==
    ASSUME NEW m \in Frame
    PROVE  m.kind \in AnswerKinds /\ m.sid \in Nat /\ m.of \in CallOrNone
BY DEF Frame, AnswerKinds, CallOrNone

LEMMA BusyFields ==
    ASSUME NEW b \in Busy
    PROVE  /\ b.step \in {"inc", "push", "put"} /\ b # Idle
           /\ b.kind \in Kinds /\ b.kind \in AllKinds /\ b.sid \in Sid /\ b.call \in Call
<1>1. b.step \in {"inc", "push", "put"} /\ b.kind \in Kinds /\ b.sid \in Sid /\ b.call \in Call
    BY DEF Busy
<1>2. b # Idle
    BY <1>1 DEF Idle
<1>3. QED
    BY <1>1, <1>2, NetAssumption

\* A thread inside a put holds the mutex, and no other is inside one.
LEMMA InPut ==
    ASSUME Inv, NEW t \in Thread, th[t] # Idle
    PROVE  /\ th[t] \in Busy /\ mutex = t /\ mutex # NoThread
           /\ th[t].step \in {"inc", "push", "put"}
           /\ th[t].kind \in Kinds /\ th[t].kind \in AllKinds /\ th[t].sid \in Sid
           /\ th[t].call \in Call /\ th[t].call = Len(made)
           /\ \A u \in Thread : u # t => th[u] = Idle
<1>1. th[t] \in Busy
    BY DEF Inv, Typed
<1>2. mutex = t /\ th[t].call = Len(made) /\ \A u \in Thread : u # t => th[u] = Idle
    BY DEF Inv, OneWriter
<1>3. QED
    BY <1>1, <1>2, BusyFields, Numbers

LEMMA StepNotIdle == \A t \in Thread : th[t].step # "idle" => th[t] # Idle
BY DEF Idle

\* Nobody is inside a put while the mutex is free.
LEMMA NoPut ==
    ASSUME Inv, mutex = NoThread
    PROVE  /\ \A t \in Thread : th[t] = Idle
           /\ NextId = sessionid /\ Settled = Len(made) /\ ~Asking
BY Numbers DEF Inv, OneWriter, NextId, Settled, Asking

LEMMA Counts ==
    ASSUME Inv
    PROVE  /\ NextId \in Nat /\ NextId <= 2 * MaxCalls - 1
           /\ Len(made) \in Nat /\ Len(made) <= MaxCalls
           /\ Settled \in Int
           /\ NextId > Len(made) => ~Connecting /\ "connect" \in ToSet(made)
           /\ NextId <= FirstSid + Len(made)
           /\ sessionid \in Nat
<1>1. sessionid \in Nat /\ Len(made) \in Nat /\ Len(made) <= MaxCalls
    BY Numbers, LenProperties DEF Inv, Typed
<1>2. NextId \in Nat
    <2>1. CASE mutex # NoThread /\ th[mutex].step = "inc"
        <3>1. mutex \in Thread
            BY <2>1 DEF Inv, Typed
        <3>2. th[mutex].sid \in Sid
            BY <2>1, <3>1, InPut, StepNotIdle
        <3>3. QED
            BY <2>1, <3>2, Numbers DEF NextId
    <2>2. CASE ~(mutex # NoThread /\ th[mutex].step = "inc")
        BY <1>1, <2>2 DEF NextId
    <2>3. QED
        BY <2>1, <2>2
<1>3. CASE Connecting \/ "connect" \notin ToSet(made)
    <2>1. NextId <= Len(made)
        BY <1>3 DEF Inv, IdBound
    <2>2. QED
        BY <1>1, <1>2, <2>1, Numbers DEF Settled
<1>4. CASE ~(Connecting \/ "connect" \notin ToSet(made))
    <2>1. NextId <= FirstSid + Len(made) - 1
        BY <1>4 DEF Inv, IdBound
    <2>2. QED
        BY <1>1, <1>2, <1>4, <2>1, Numbers DEF Settled
<1>5. QED
    BY <1>3, <1>4

\* Ids stay tied to one call while nothing new is tied to one.
LEMMA TagsKept ==
    ASSUME Inv, \A s \in NewSid : \A k \in CallOrNone : Tag(s, k)' => Tag(s, k),
           NextId' \in Int, NextId <= NextId' \/ NextId <= FirstSid
    PROVE  IdsUnique' /\ IdsPast'
<1>1. IdsUnique'
    BY DEF Inv, IdsUnique
<1>2. ASSUME NEW s \in NewSid, NEW k \in CallOrNone, Tag(s, k)'
      PROVE  s < NextId'
    <2>1. s < NextId
        BY <1>2 DEF Inv, IdsPast
    <2>2. s \in Nat /\ FirstSid <= s /\ FirstSid \in Nat
        BY Numbers
    <2>3. QED
        BY <2>1, <2>2, Counts
<1>3. QED
    BY <1>1, <1>2 DEF IdsPast

\* What follows where no frame moves and nobody calls.
LEMMA FramesKept ==
    ASSUME Inv, UNCHANGED <<th, out, wire, jobs, back, mutex, sessionid, made>>
    PROVE  /\ OneWriter' /\ ConnectOnce' /\ IdBound'
           /\ NextId' = NextId /\ Settled' = Settled
           /\ \A s, k : /\ TagPut(s, k)' <=> TagPut(s, k)
                        /\ TagIn(out, s, k)' <=> TagIn(out, s, k)
                        /\ TagIn(wire, s, k)' <=> TagIn(wire, s, k)
                        /\ TagIn(jobs, s, k)' <=> TagIn(jobs, s, k)
                        /\ TagIn(back, s, k)' <=> TagIn(back, s, k)
<1>1. OneWriter' /\ NextId' = NextId /\ Settled' = Settled
    BY DEF Inv, OneWriter, NextId, Settled
<1>2. (Asking' <=> Asking) /\ (Connecting' <=> Connecting)
    BY DEF Asking, Connecting, Has
<1>3. ConnectOnce'
    BY <1>2 DEF Inv, ConnectOnce, Once, Has
<1>4. IdBound'
    BY <1>1, <1>2 DEF Inv, IdBound
<1>5. QED
    BY <1>1, <1>3, <1>4 DEF TagPut, TagIn

\* What the server makes of frames stands where it and the client's loop do not move.
LEMMA SidsKept ==
    ASSUME Inv, UNCHANGED <<jobs, back>>,
           loop' # Idle /\ loop'.kind \in Keyed =>
              loop # Idle /\ loop.kind \in Keyed /\ loop'.key = loop.key
    PROVE  ServerSids'
BY DEF Inv, ServerSids

\* The bound on ids stands where no id is given out.
LEMMA BoundKept ==
    ASSUME Inv, Connecting' => Connecting, UNCHANGED made, NextId' = NextId
    PROVE  IdBound'
<1>1. CASE Connecting' \/ "connect" \notin ToSet(made)
    <2>1. NextId <= Len(made)
        BY <1>1 DEF Inv, IdBound
    <2>2. QED
        BY <1>1, <2>1 DEF IdBound
<1>2. CASE ~(Connecting' \/ "connect" \notin ToSet(made))
    <2>1. CASE Connecting
        <3>1. NextId <= Len(made)
            BY <2>1 DEF Inv, IdBound
        <3>2. Len(made) <= FirstSid + Len(made) - 1
            BY Counts, Numbers
        <3>3. NextId <= FirstSid + Len(made) - 1
            BY <3>1, <3>2, Counts, Numbers
        <3>4. QED
            BY <1>2, <3>3 DEF IdBound
    <2>2. CASE ~Connecting
        BY <1>2, <2>2 DEF Inv, IdBound
    <2>3. QED
        BY <2>1, <2>2
<1>3. QED
    BY <1>1, <1>2

\* One more call is one more kind made.
LEMMA MadeMore ==
    ASSUME Inv, NEW kind \in Kinds, Len(made) < MaxCalls, made' = Append(made, kind)
    PROVE  /\ made' \in Seq(Kinds) /\ Len(made') = Len(made) + 1 /\ Len(made') <= MaxCalls
           /\ Len(made) \in Nat /\ Len(made) + 1 \in Call
           /\ ToSet(made') = ToSet(made) \cup {kind}
<1>1. made \in Seq(Kinds)
    BY DEF Inv, Typed
<1>2. PICK n : n = Len(made) /\ n \in Nat
    BY <1>1, LenProperties
<1>3. PICK q : q = made'
    OBVIOUS
<1>4. /\ q \in Seq(Kinds) /\ Len(q) = n + 1
      /\ (\A i \in 1..n : q[i] = made[i]) /\ q[n + 1] = kind
    BY <1>1, <1>2, <1>3, AppendToSeq
<1>5. ToSet(q) = ToSet(made) \cup {kind}
    <2>1. DOMAIN q = 1..(n + 1) /\ DOMAIN made = 1..n
        BY <1>1, <1>2, <1>4, LenProperties
    <2>2. 1..(n + 1) = (1..n) \cup {n + 1}
        BY <1>2
    <2>3. QED
        BY <1>4, <2>1, <2>2 DEF ToSet
<1>6. QED
    BY <1>2, <1>3, <1>4, <1>5, Numbers

\* A callback that makes its call stays where it is in call_map.
LEMMA LoopCalls ==
    ASSUME Inv, NEW t \in Thread, NEW kind, MayCall(t, kind), Made(t)
    PROVE  /\ loop' \in {Idle} \cup Found \cup Called
           /\ loop'.step = loop.step /\ (loop' # Idle <=> loop # Idle)
           /\ loop # Idle => loop'.key = loop.key /\ loop'.of = loop.of
                           /\ loop'.kind = loop.kind
           /\ loop.step \in {"calling", "erase"} => loop'.call = loop.call
<1>1. CASE t = Loop
    <2>1. loop.step = "calling" /\ loop' = [loop EXCEPT !.todo = "none"]
        BY <1>1 DEF MayCall, Made
    <2>2. loop \in Called
        BY <2>1 DEF Inv, Typed, Idle, Found
    <2>3. /\ loop' \in Called /\ loop'.step = "calling" /\ loop'.key = loop.key
          /\ loop'.of = loop.of /\ loop'.call = loop.call /\ loop'.kind = loop.kind
        BY <2>1, <2>2 DEF Called
    <2>4. QED
        BY <2>1, <2>3 DEF Idle
<1>2. CASE t # Loop
    BY <1>2 DEF Made, Inv, Typed
<1>3. QED
    BY <1>1, <1>2

-----------------------------------------------------------------------------
(* The inductive step, one lemma per action.                               *)

LEMMA InitInv == Init => Inv
<1> SUFFICES ASSUME Init PROVE Inv
    OBVIOUS
<1>1. /\ cbmap \in [MapKey -> CallOrNone] /\ \A x \in MapKey : cbmap[x] = NoCall
    BY Numbers DEF Init, MapKey, CallOrNone
<1>2. /\ \A S : <<>> \in Seq(S)
      /\ Len(<<>>) = 0
    BY EmptySeq
<1>3. th \in [Thread -> {Idle} \cup Busy] /\ \A t \in Thread : th[t] = Idle
    BY DEF Init
<1>4. Typed
    <2>1. sessionid \in Sid /\ notis \in 0..MaxNoti
        BY Numbers DEF Init
    <2>4. /\ mutex \in Thread \cup {NoThread}
          /\ loop \in {Idle} \cup Found \cup Called
          /\ async \in BOOLEAN /\ writing \in BOOLEAN
        BY DEF Init
    <2>5. /\ ran \subseteq [call : Call, key : Key, kind : AnswerKinds, of : CallOrNone]
          /\ stopped \subseteq Call /\ pending \in BOOLEAN /\ across \in BOOLEAN
        BY DEF Init
    <2>2. /\ out \in Seq(Request) /\ wire \in Seq(Request)
          /\ jobs \in Seq(Job) /\ nodesid \in Nat /\ back \in Seq(Frame)
        BY <1>2 DEF Init
    <2>3. made \in Seq(Kinds) /\ Len(made) <= MaxCalls
        BY <1>2, Numbers DEF Init
    <2>6. QED
        BY <1>1, <1>3, <2>1, <2>2, <2>3, <2>4, <2>5 DEF Typed
<1>5. \A t \in Thread : mutex # t
    BY Numbers DEF Init
<1>6. OneWriter
    BY <1>3, <1>5 DEF OneWriter
<1>7. \A q : q = <<>> => ~Has(q) /\ Once(q) /\ \A s, k : ~TagIn(q, s, k)
    BY <1>2 DEF Has, Once, TagIn
<1>8. /\ ~Has(out) /\ ~Has(wire) /\ ~Has(jobs) /\ ~Has(back)
      /\ Once(out) /\ Once(wire) /\ Once(jobs) /\ Once(back) /\ ~Asking
    BY <1>3, <1>7 DEF Init, Asking
<1>9. ConnectOnce
    BY <1>2, <1>8 DEF ConnectOnce, Connecting, Init
<1>15. ServerSids
    BY <1>2 DEF ServerSids, Init
<1>10. IdBound
    <2>1. NextId = 0 /\ Len(made) = 0 /\ ToSet(made) = {}
        BY <1>2 DEF Init, NextId, ToSet
    <2>2. QED
        BY <2>1 DEF IdBound
<1>11. ASSUME NEW s \in NewSid, NEW k \in CallOrNone PROVE ~Tag(s, k)
    <2>1. s \in MapKey
        BY Numbers DEF MapKey
    <2>2. ~TagPut(s, k) /\ ~TagLoop(s, k) /\ ~TagMap(s, k)
        BY <1>1, <1>3, <2>1 DEF TagPut, TagLoop, TagMap, Init
    <2>3. QED
        BY <1>7, <2>2 DEF Tag, Init
<1>12. IdsUnique /\ IdsPast
    BY <1>11 DEF IdsUnique, IdsPast
<1>13. CalledOnce /\ OwnAnswer
    <2>1. Settled = 0 /\ loop.step = "idle" /\ stopped = {} /\ ran = {}
        BY <1>2 DEF Init, Settled, Idle
    <2>2. QED
        BY <1>1, <2>1, Numbers DEF CalledOnce, OwnAnswer
<1>14. QED
    BY <1>4, <1>6, <1>9, <1>10, <1>12, <1>13, <1>15 DEF Inv

\* The next id is written back while the thread holds the mutex: it is above
\* every id given out, even if a clientconnectres stored another meanwhile.
LEMMA IncStep == ASSUME Inv, NEW t \in Thread, IncSessionID(t) PROVE Inv'
<1>1. /\ th[t].step = "inc" /\ sessionid' = NextSid(th[t].sid)
      /\ th' = [th EXCEPT ![t].step = "push"]
      /\ UNCHANGED <<cbmap, mutex, loop, sendVars, netVars, made, histVars>>
    BY DEF IncSessionID
<1>2. th[t] # Idle
    BY <1>1, StepNotIdle
<1>3. PICK b \in Busy : b = th[t] /\ b.step = "inc" /\ mutex = t /\ b.sid \in Sid
    BY <1>1, <1>2, InPut
<1>4. NextId = b.sid + 1 /\ sessionid' = b.sid + 1 /\ sessionid' \in Sid
    <2>1. NextId = b.sid + 1
        BY <1>1, <1>3, Numbers DEF NextId
    <2>2. b.sid + 1 \in 0..(2 * MaxCalls - 1) /\ b.sid + 1 < 65536
        BY <1>3, <2>1, Counts, Numbers
    <2>3. (b.sid + 1) % 65536 = b.sid + 1
        BY <2>2, Numbers
    <2>4. QED
        BY <1>1, <1>3, <2>1, <2>2, <2>3, Numbers DEF NextSid
<1>5. PICK d : d = [b EXCEPT !.step = "push"]
    OBVIOUS
<1>6. /\ d \in Busy /\ d.step = "push" /\ d.kind = b.kind /\ d.sid = b.sid /\ d.call = b.call
    BY <1>5 DEF Busy
<1>7. /\ th' \in [Thread -> {Idle} \cup Busy] /\ th'[t] = d
      /\ \A u \in Thread : u # t => th'[u] = th[u]
    BY <1>1, <1>3, <1>5, <1>6 DEF Inv, Typed
<1>8. Typed'
    BY <1>1, <1>4, <1>7 DEF Inv, Typed, sendVars, netVars, histVars, callVars
<1>9. d # Idle
    BY <1>6, BusyFields
<1>10. OneWriter'
    BY <1>1, <1>2, <1>3, <1>6, <1>7, <1>9 DEF Inv, OneWriter
<1>11. UNCHANGED <<out, wire, jobs, back, made, loop>>
    BY <1>1 DEF sendVars, netVars
<1>21. ServerSids'
    BY <1>11, SidsKept
<1>12. Asking' <=> Asking
    BY <1>1, <1>2, <1>3, <1>6, <1>7, <1>9 DEF Asking
<1>13. Connecting' <=> Connecting
    BY <1>11, <1>12 DEF Connecting, Has
<1>14. ConnectOnce'
    BY <1>11, <1>12, <1>13 DEF Inv, ConnectOnce, Once, Has
<1>15. NextId' = NextId
    BY <1>1, <1>3, <1>4, <1>6, <1>7 DEF NextId
<1>16. IdBound'
    BY <1>11, <1>13, <1>15 DEF Inv, IdBound
<1>17. ASSUME NEW s \in NewSid, NEW k \in CallOrNone
       PROVE  Tag(s, k)' => Tag(s, k)
    <2>1. TagPut(s, k)' => TagPut(s, k)
        BY <1>2, <1>3, <1>6, <1>7 DEF TagPut
    <2>2. TagLoop(s, k)' <=> TagLoop(s, k)
        BY <1>1 DEF TagLoop
    <2>3. TagMap(s, k)' <=> TagMap(s, k)
        BY <1>1 DEF TagMap
    <2>4. QED
        BY <1>11, <2>1, <2>2, <2>3 DEF Tag, TagIn
<1>18. IdsUnique' /\ IdsPast'
    BY <1>15, <1>17, Counts, TagsKept
<1>19. CalledOnce' /\ OwnAnswer'
    BY <1>1 DEF Inv, CalledOnce, OwnAnswer, Settled, histVars, callVars
<1>20. QED
    BY <1>8, <1>10, <1>14, <1>16, <1>18, <1>19, <1>21 DEF Inv

\* The frame is queued: the clientconnect moves from the thread to the queue.
LEMMA PushStep == ASSUME Inv, NEW t \in Thread, PushBuffer(t) PROVE Inv'
<1>1. /\ th[t].step = "push" /\ async' = TRUE
      /\ out' = Append(out, [kind |-> th[t].kind, sid |-> th[t].sid, of |-> th[t].call])
      /\ th' = [th EXCEPT ![t].step = "put"]
      /\ UNCHANGED <<cbmap, mutex, sessionid, loop, writing, netVars, made, histVars>>
    BY DEF PushBuffer
<1>2. th[t] # Idle
    BY <1>1, StepNotIdle
<1>3. PICK b \in Busy : b = th[t] /\ b.step = "push" /\ mutex = t
    BY <1>1, <1>2, InPut
<1>4. b.kind \in AllKinds /\ b.sid \in Sid /\ b.call \in Call
    BY BusyFields
<1>5. PICK m : m = [kind |-> b.kind, sid |-> b.sid, of |-> b.call]
    OBVIOUS
<1>6. m \in Request /\ m.kind = b.kind /\ m.sid = b.sid /\ m.of = b.call
    BY <1>4, <1>5 DEF Request
<1>7. out' = Append(out, m)
    BY <1>1, <1>3, <1>5
<1>8. out \in Seq(Request)
    BY DEF Inv, Typed
<1>9. /\ out' \in Seq(Request)
      /\ Has(out') => Has(out) \/ m.kind = "connect"
      /\ Once(out) /\ (m.kind = "connect" => ~Has(out)) => Once(out')
      /\ \A s, k : TagIn(out', s, k) =>
            TagIn(out, s, k) \/ (m.kind \in Keyed /\ m.sid = s /\ m.of = k)
    BY <1>6, <1>7, <1>8, AddFrame DEF MoreOf
<1>10. PICK d : d = [b EXCEPT !.step = "put"]
    OBVIOUS
<1>11. /\ d \in Busy /\ d.step = "put" /\ d.kind = b.kind /\ d.sid = b.sid /\ d.call = b.call
    BY <1>10 DEF Busy
<1>12. /\ th' \in [Thread -> {Idle} \cup Busy] /\ th'[t] = d
       /\ \A u \in Thread : u # t => th'[u] = th[u]
    BY <1>1, <1>3, <1>10, <1>11 DEF Inv, Typed
<1>13. d # Idle
    BY <1>11, BusyFields
<1>14. Typed'
    BY <1>1, <1>9, <1>12 DEF Inv, Typed, netVars, histVars, callVars
<1>15. OneWriter'
    BY <1>1, <1>2, <1>3, <1>11, <1>12, <1>13 DEF Inv, OneWriter
<1>16. UNCHANGED <<wire, jobs, back, made, loop>>
    BY <1>1 DEF netVars
<1>29. ServerSids'
    BY <1>16, SidsKept
<1>17. ~Asking'
    <2>1. \A u \in Thread : u # t => th'[u] = Idle
        BY <1>2, <1>12, InPut
    <2>2. QED
        BY <1>11, <1>12, <2>1 DEF Asking
<1>18. m.kind = "connect" => Asking
    BY <1>2, <1>3, <1>6 DEF Asking
<1>19. /\ (Has(wire)' <=> Has(wire)) /\ (Has(jobs)' <=> Has(jobs))
       /\ (Has(back)' <=> Has(back)) /\ (Has(out)' <=> Has(out'))
    BY <1>16 DEF Has
<1>20. /\ (Once(wire)' <=> Once(wire)) /\ (Once(jobs)' <=> Once(jobs))
       /\ (Once(back)' <=> Once(back)) /\ (Once(out)' <=> Once(out'))
    BY <1>16 DEF Once
<1>21. Connecting' => Connecting
    BY <1>9, <1>17, <1>18, <1>19 DEF Connecting
<1>22. ConnectOnce'
    BY <1>9, <1>16, <1>17, <1>18, <1>19, <1>20, <1>21 DEF Inv, ConnectOnce
<1>23. NextId' = NextId
    BY <1>1, <1>3, <1>11, <1>12 DEF NextId
<1>24. IdBound'
    BY <1>16, <1>21, <1>23, BoundKept
<1>25. ASSUME NEW s \in NewSid, NEW k \in CallOrNone
       PROVE  Tag(s, k)' => Tag(s, k)
    <2>1. TagPut(s, k)' => TagPut(s, k)
        BY <1>2, <1>3, <1>11, <1>12 DEF TagPut
    <2>2. TagLoop(s, k)' <=> TagLoop(s, k)
        BY <1>1 DEF TagLoop
    <2>3. TagMap(s, k)' <=> TagMap(s, k)
        BY <1>1 DEF TagMap
    <2>4. (m.kind \in Keyed /\ m.sid = s /\ m.of = k) => TagPut(s, k)
        BY <1>2, <1>3, <1>6 DEF TagPut
    <2>5. TagIn(out, s, k)' => TagIn(out, s, k) \/ TagPut(s, k)
        <3>1. TagIn(out, s, k)' <=> TagIn(out', s, k)
            BY DEF TagIn
        <3>2. QED
            BY <1>9, <2>4, <3>1
    <2>6. /\ (TagIn(wire, s, k)' <=> TagIn(wire, s, k)) /\ (TagIn(jobs, s, k)' <=> TagIn(jobs, s, k))
          /\ (TagIn(back, s, k)' <=> TagIn(back, s, k))
        BY <1>16 DEF TagIn
    <2>7. QED
        BY <2>1, <2>2, <2>3, <2>5, <2>6 DEF Tag
<1>26. IdsUnique' /\ IdsPast'
    BY <1>23, <1>25, Counts, TagsKept
<1>27. CalledOnce' /\ OwnAnswer'
    BY <1>1 DEF Inv, CalledOnce, OwnAnswer, Settled, histVars, callVars
<1>28. QED
    BY <1>14, <1>15, <1>22, <1>24, <1>26, <1>27, <1>29 DEF Inv

\* The callback is put in the map under the key its answer will find.
LEMMA PutStep == ASSUME Inv, NEW t \in Thread, PutCallback(t) PROVE Inv'
<1>1. /\ th[t].step = "put" /\ mutex' = NoThread /\ th' = [th EXCEPT ![t] = Idle]
      /\ cbmap' = [cbmap EXCEPT ![KeyOf(th[t].kind, th[t].sid)] = th[t].call]
      /\ UNCHANGED <<sessionid, loop, sendVars, netVars, made, histVars>>
    BY DEF PutCallback
<1>2. th[t] # Idle
    BY <1>1, StepNotIdle
<1>3. PICK b \in Busy : b = th[t] /\ b.step = "put" /\ mutex = t /\ b.call = Len(made)
    BY <1>1, <1>2, InPut
<1>4. b.kind \in AllKinds /\ b.sid \in Sid /\ b.call \in Call
    BY BusyFields
<1>5. PICK key : key = KeyOf(b.kind, b.sid)
    OBVIOUS
<1>6. key \in MapKey /\ (key \in Nat => b.kind \in Keyed /\ key = b.sid)
    <2>1. b.sid \in Nat /\ b.kind \in AnswerKinds /\ b.kind # "error"
        BY <1>4, Numbers DEF AllKinds, AnswerKinds
    <2>2. QED
        BY <1>4, <1>5, <2>1, KeyOfIs
<1>7. /\ cbmap' \in [MapKey -> CallOrNone] /\ cbmap'[key] = b.call
      /\ \A x \in MapKey : x # key => cbmap'[x] = cbmap[x]
    BY <1>1, <1>3, <1>4, <1>5, <1>6 DEF Inv, Typed, CallOrNone
<1>8. th' \in [Thread -> {Idle} \cup Busy] /\ \A u \in Thread : th'[u] = Idle
    BY <1>1, <1>2, InPut DEF Inv, Typed
<1>9. Typed'
    BY <1>1, <1>7, <1>8 DEF Inv, Typed, sendVars, netVars, histVars, callVars
<1>10. OneWriter'
    BY <1>1, <1>8, Numbers DEF OneWriter
<1>11. UNCHANGED <<out, wire, jobs, back, made, loop>>
    BY <1>1 DEF netVars, sendVars
<1>23. ServerSids'
    BY <1>11, SidsKept
<1>12. ~Asking'
    BY <1>8 DEF Asking
<1>13. /\ (Has(wire)' <=> Has(wire)) /\ (Has(jobs)' <=> Has(jobs))
       /\ (Has(back)' <=> Has(back)) /\ (Has(out)' <=> Has(out))
    BY <1>11 DEF Has
<1>14. Connecting' => Connecting
    BY <1>12, <1>13 DEF Connecting
<1>15. ConnectOnce'
    BY <1>11, <1>12, <1>13, <1>14 DEF Inv, ConnectOnce, Once
<1>16. NextId' = NextId
    BY <1>1, <1>3 DEF NextId
<1>17. IdBound'
    BY <1>11, <1>14, <1>16, BoundKept
<1>18. ASSUME NEW s \in NewSid, NEW k \in CallOrNone
       PROVE  Tag(s, k)' => Tag(s, k)
    <2>1. ~TagPut(s, k)'
        BY <1>8 DEF TagPut
    <2>2. TagLoop(s, k)' <=> TagLoop(s, k)
        BY <1>1 DEF TagLoop
    <2>3. TagMap(s, k)' => TagMap(s, k) \/ TagPut(s, k)
        <3>4. s \in Nat /\ s \in MapKey
            BY Numbers DEF MapKey
        <3>1. CASE s = key
            BY <1>2, <1>3, <1>6, <1>7, <3>1, <3>4 DEF TagMap, TagPut
        <3>2. CASE s # key
            BY <1>7, <3>2, <3>4 DEF TagMap
        <3>3. QED
            BY <3>1, <3>2
    <2>4. QED
        BY <1>11, <2>1, <2>2, <2>3 DEF Tag, TagIn
<1>19. IdsUnique' /\ IdsPast'
    BY <1>16, <1>18, Counts, TagsKept
<1>20. CalledOnce'
    <2>1. PICK n \in Nat : n = Len(made)
        BY Counts
    <2>2. Settled = n - 1 /\ Settled' = n
        BY <1>1, <1>2, <1>11, <2>1, InPut DEF Settled
    <2>3. /\ \A k \in stopped : k <= n - 1
          /\ \A x \in MapKey : cbmap[x] <= n - 1
          /\ loop.step \in {"calling", "erase"} => loop.call <= n - 1
          /\ \A x, y \in MapKey : cbmap[x] = cbmap[y] /\ cbmap[x] # NoCall => x = y
          /\ loop.step = "calling" => \A x \in MapKey : cbmap[x] = loop.call => x = loop.key
          /\ \A x \in MapKey : cbmap[x] \in stopped => loop.step = "erase" /\ loop.key = x
        BY <2>2 DEF Inv, CalledOnce
    <2>4. /\ stopped \subseteq Call /\ \A x \in MapKey : cbmap[x] \in CallOrNone
          /\ loop.step \in {"calling", "erase"} => loop.call \in Call
        BY DEF Inv, Typed, Found, Called, Idle
    <2>5. /\ UNCHANGED <<loop, stopped>> /\ b.call = n
        BY <1>1, <1>3, <2>1 DEF histVars, callVars
    <2>6. /\ \A k \in stopped : k < n
          /\ \A x \in MapKey : cbmap[x] < n
          /\ loop.step \in {"calling", "erase"} => loop.call < n
        BY <2>1, <2>3, <2>4, Numbers
    <2>7. \A x, y \in MapKey : cbmap'[x] = cbmap'[y] /\ cbmap'[x] # NoCall => x = y
        BY <1>7, <2>1, <2>3, <2>4, <2>5, <2>6, Numbers
    <2>8. loop.step = "calling" => \A x \in MapKey : cbmap'[x] = loop.call => x = loop.key
        BY <1>7, <2>1, <2>3, <2>4, <2>5, <2>6, Numbers
    <2>9. \A x \in MapKey : cbmap'[x] \in stopped => loop.step = "erase" /\ loop.key = x
        BY <1>7, <2>1, <2>3, <2>4, <2>5, <2>6, Numbers
    <2>10. /\ \A k \in stopped : k <= n
           /\ \A x \in MapKey : cbmap'[x] <= n
           /\ loop.step \in {"calling", "erase"} => loop.call <= n
        BY <1>7, <2>1, <2>4, <2>5, <2>6, Numbers
    <2>11. QED
        BY <2>2, <2>5, <2>7, <2>8, <2>9, <2>10 DEF CalledOnce
<1>21. OwnAnswer'
    BY <1>1 DEF Inv, OwnAnswer, histVars, callVars
<1>22. QED
    BY <1>9, <1>10, <1>15, <1>17, <1>19, <1>20, <1>21, <1>23 DEF Inv

\* acceptUnreadMsg and userInfoNoti take a reserved key: no id is tied.
LEMMA PutMapStep == ASSUME Inv, NEW t \in Thread, PutMap(t) PROVE Inv'
<1>1. /\ MayCall(t, "onuser") /\ Made(t) /\ mutex = NoThread
      /\ cbmap' = [cbmap EXCEPT ![KeyOf("onuser", 0)] = Len(made) + 1]
      /\ made' = Append(made, "onuser")
      /\ UNCHANGED <<mutex, sessionid, th, sendVars, netVars, histVars>>
    BY DEF PutMap, PutLock
<1>2. Len(made) < MaxCalls /\ "onuser" \in Kinds
    BY <1>1 DEF MayCall
<1>3. PICK n : n = Len(made)
    OBVIOUS
<1>4. /\ made' \in Seq(Kinds) /\ Len(made') = n + 1 /\ Len(made') <= MaxCalls
      /\ n \in Nat /\ n + 1 \in Call /\ ToSet(made') = ToSet(made) \cup {"onuser"}
    BY <1>1, <1>2, <1>3, MadeMore
<1>5. KeyOf("onuser", 0) = -4 /\ -4 \in MapKey /\ -4 \notin Sid
    BY Numbers DEF KeyOf, MapKey, Reserved
<1>6. /\ cbmap' \in [MapKey -> CallOrNone] /\ cbmap'[-4] = n + 1
      /\ \A x \in MapKey : x # -4 => cbmap'[x] = cbmap[x]
    BY <1>1, <1>3, <1>4, <1>5 DEF Inv, Typed, CallOrNone
<1>7. /\ loop' \in {Idle} \cup Found \cup Called
      /\ loop'.step = loop.step /\ (loop' # Idle <=> loop # Idle)
      /\ loop # Idle => loop'.key = loop.key /\ loop'.of = loop.of /\ loop'.kind = loop.kind
      /\ loop.step \in {"calling", "erase"} => loop'.call = loop.call
    BY <1>1, LoopCalls
<1>8. Typed'
    BY <1>1, <1>4, <1>6, <1>7 DEF Inv, Typed, sendVars, netVars, histVars, callVars
<1>9. \A u \in Thread : th[u] = Idle /\ th'[u] = Idle /\ mutex' # u
    BY <1>1, NoPut, Numbers
<1>10. OneWriter'
    BY <1>9 DEF OneWriter
<1>11. UNCHANGED <<out, wire, jobs, back>>
    BY <1>1 DEF netVars, sendVars
<1>22. ServerSids'
    BY <1>7, <1>11, SidsKept
<1>12. (Asking' <=> Asking) /\ (Connecting' <=> Connecting)
    BY <1>1, <1>11 DEF Asking, Connecting, Has
<1>13. "connect" \in ToSet(made') <=> "connect" \in ToSet(made)
    BY <1>4
<1>14. ConnectOnce'
    BY <1>11, <1>12, <1>13 DEF Inv, ConnectOnce, Once, Has
<1>15. NextId' = NextId /\ NextId \in Nat /\ FirstSid \in Nat
    BY <1>1, Counts, Numbers DEF NextId
<1>16. IdBound'
    <2>1. NextId <= IF Connecting \/ "connect" \notin ToSet(made) THEN n ELSE FirstSid + n - 1
        BY <1>3 DEF Inv, IdBound
    <2>2. NextId <= IF Connecting \/ "connect" \notin ToSet(made)
                    THEN n + 1 ELSE FirstSid + (n + 1) - 1
        BY <1>4, <1>15, <2>1
    <2>3. QED
        BY <1>4, <1>12, <1>13, <1>15, <2>2 DEF IdBound
<1>17. ASSUME NEW s \in NewSid, NEW k \in CallOrNone
       PROVE  Tag(s, k)' => Tag(s, k)
    <2>1. TagPut(s, k)' <=> TagPut(s, k)
        BY <1>1 DEF TagPut
    <2>2. TagLoop(s, k)' <=> TagLoop(s, k)
        BY <1>7 DEF TagLoop
    <2>3. TagMap(s, k)' <=> TagMap(s, k)
        BY <1>5, <1>6, Numbers DEF TagMap, MapKey
    <2>4. QED
        BY <1>11, <2>1, <2>2, <2>3 DEF Tag, TagIn
<1>18. IdsUnique' /\ IdsPast'
    BY <1>15, <1>17, Counts, TagsKept
<1>19. CalledOnce'
    <2>1. Settled = n /\ Settled' = n + 1 /\ UNCHANGED stopped
        BY <1>1, <1>3, <1>4, NoPut DEF Settled, histVars, callVars
    <2>2. /\ \A k \in stopped : k <= n
          /\ \A x \in MapKey : cbmap[x] <= n
          /\ loop.step \in {"calling", "erase"} => loop.call <= n
          /\ \A x, y \in MapKey : cbmap[x] = cbmap[y] /\ cbmap[x] # NoCall => x = y
          /\ loop.step = "calling" => \A x \in MapKey : cbmap[x] = loop.call => x = loop.key
          /\ \A x \in MapKey : cbmap[x] \in stopped => loop.step = "erase" /\ loop.key = x
        BY <2>1 DEF Inv, CalledOnce
    <2>3. /\ stopped \subseteq Nat /\ \A x \in MapKey : cbmap[x] \in Nat
          /\ loop.step \in {"calling", "erase"} => loop.call \in Nat
        BY Numbers DEF Inv, Typed, Found, Called, Idle
    <2>4. /\ \A k \in stopped : k # n + 1 /\ k <= n + 1
          /\ \A x \in MapKey : cbmap[x] # n + 1 /\ cbmap[x] <= n + 1
          /\ loop.step \in {"calling", "erase"} => loop.call # n + 1 /\ loop.call <= n + 1
        <3>1. \A i \in Nat : i <= n => i # n + 1 /\ i <= n + 1
            BY <1>4
        <3>2. QED
            BY <2>2, <2>3, <3>1
    <2>5. \A x, y \in MapKey : cbmap'[x] = cbmap'[y] /\ cbmap'[x] # NoCall => x = y
        BY <1>6, <2>2, <2>4
    <2>6. loop.step = "calling" => \A x \in MapKey : cbmap'[x] = loop.call => x = loop.key
        BY <1>6, <2>2, <2>4
    <2>7. \A x \in MapKey : cbmap'[x] \in stopped => loop.step = "erase" /\ loop.key = x
        BY <1>6, <2>2, <2>4
    <2>8. \A x \in MapKey : cbmap'[x] <= n + 1
        BY <1>4, <1>6, <2>4
    <2>9. loop.step \in {"calling", "erase"} => loop # Idle
        BY DEF Idle
    <2>10. QED
        BY <1>7, <2>1, <2>4, <2>5, <2>6, <2>7, <2>8, <2>9 DEF CalledOnce
<1>20. OwnAnswer'
    BY <1>1 DEF Inv, OwnAnswer, histVars, callVars
<1>21. QED
    BY <1>8, <1>10, <1>14, <1>16, <1>18, <1>19, <1>20, <1>22 DEF Inv

\* A new call takes the next id, which no other call has.
LEMMA SendStep == ASSUME Inv, NEW t \in Thread, NEW kind \in Kinds, PutMapSend(t, kind) PROVE Inv'
<1>1. /\ MayCall(t, kind) /\ Made(t) /\ mutex = NoThread /\ mutex' = t
      /\ made' = Append(made, kind)
      /\ th' = [th EXCEPT ![t] = [step |-> "inc", kind |-> kind,
                                  sid |-> sessionid, call |-> Len(made) + 1]]
      /\ UNCHANGED <<cbmap, sessionid, sendVars, netVars, callVars>>
    BY DEF PutMapSend, PutLock
<1>29. pending' \in BOOLEAN /\ across' \in BOOLEAN
    BY DEF PutMapSend
<1>2. Len(made) < MaxCalls /\ (kind = "connect" => kind \notin ToSet(made))
    BY <1>1 DEF MayCall
<1>3. PICK n : n = Len(made)
    OBVIOUS
<1>4. /\ made' \in Seq(Kinds) /\ Len(made') = n + 1 /\ Len(made') <= MaxCalls
      /\ n \in Nat /\ n + 1 \in Call /\ ToSet(made') = ToSet(made) \cup {kind}
    BY <1>1, <1>2, <1>3, MadeMore
<1>5. PICK b : b = [step |-> "inc", kind |-> kind, sid |-> sessionid, call |-> n + 1]
    OBVIOUS
<1>6. /\ b \in Busy /\ b.step = "inc" /\ b.kind = kind /\ b.sid = sessionid /\ b.call = n + 1
    BY <1>4, <1>5 DEF Busy, Inv, Typed
<1>7. b # Idle /\ kind \in AllKinds
    BY <1>6, BusyFields
<1>8. /\ \A u \in Thread : th[u] = Idle
      /\ NextId = sessionid /\ Settled = n /\ ~Asking
    BY <1>1, <1>3, NoPut
<1>9. /\ th' \in [Thread -> {Idle} \cup Busy] /\ th'[t] = b
      /\ \A u \in Thread : u # t => th'[u] = Idle
    BY <1>1, <1>3, <1>5, <1>6, <1>8 DEF Inv, Typed
<1>10. /\ loop' \in {Idle} \cup Found \cup Called
       /\ loop'.step = loop.step /\ (loop' # Idle <=> loop # Idle)
       /\ loop # Idle => loop'.key = loop.key /\ loop'.of = loop.of /\ loop'.kind = loop.kind
       /\ loop.step \in {"calling", "erase"} => loop'.call = loop.call
    BY <1>1, LoopCalls
<1>11. Typed'
    BY <1>1, <1>4, <1>9, <1>10, <1>29 DEF Inv, Typed, sendVars, netVars, callVars
<1>12. OneWriter'
    BY <1>1, <1>4, <1>6, <1>7, <1>9 DEF OneWriter
<1>13. UNCHANGED <<out, wire, jobs, back>>
    BY <1>1 DEF netVars, sendVars
<1>30. ServerSids'
    BY <1>10, <1>13, SidsKept
<1>14. /\ (Has(wire)' <=> Has(wire)) /\ (Has(jobs)' <=> Has(jobs)) /\ (Has(back)' <=> Has(back)) /\ (Has(out)' <=> Has(out))
       /\ (Once(wire)' <=> Once(wire)) /\ (Once(jobs)' <=> Once(jobs)) /\ (Once(back)' <=> Once(back)) /\ (Once(out)' <=> Once(out))
    BY <1>13 DEF Has, Once
<1>15. Asking' <=> kind = "connect"
    BY <1>6, <1>7, <1>9 DEF Asking
<1>16. kind = "connect" => ~Connecting
    BY <1>2 DEF Inv, ConnectOnce
<1>17. Connecting' <=> Connecting \/ kind = "connect"
    BY <1>8, <1>14, <1>15 DEF Connecting
<1>18. ConnectOnce'
    <2>1. Connecting' => "connect" \in ToSet(made')
        BY <1>4, <1>17 DEF Inv, ConnectOnce
    <2>2. ~(Asking' /\ (Has(out) \/ Has(wire) \/ Has(jobs) \/ Has(back)))
        BY <1>15, <1>16 DEF Connecting
    <2>3. QED
        BY <1>13, <1>14, <2>1, <2>2 DEF Inv, ConnectOnce
<1>19. NextId' = sessionid + 1
    BY <1>1, <1>6, <1>9, Numbers DEF NextId
<1>20. sessionid \in Nat /\ FirstSid \in Nat
    BY Counts, Numbers
<1>21. IdBound'
    <2>1. sessionid <= IF Connecting \/ "connect" \notin ToSet(made) THEN n ELSE FirstSid + n - 1
        BY <1>3, <1>8 DEF Inv, IdBound
    <2>2. Connecting' \/ "connect" \notin ToSet(made') <=> Connecting \/ "connect" \notin ToSet(made)
        <3>1. CASE kind = "connect"
            BY <1>2, <1>17, <3>1
        <3>2. CASE kind # "connect"
            BY <1>4, <1>17, <3>2
        <3>3. QED
            BY <3>1, <3>2
    <2>3. sessionid + 1 <= IF Connecting \/ "connect" \notin ToSet(made)
                           THEN n + 1 ELSE FirstSid + (n + 1) - 1
        BY <1>4, <1>20, <2>1
    <2>4. QED
        BY <1>4, <1>19, <2>2, <2>3 DEF IdBound
<1>22. ASSUME NEW s \in NewSid, NEW k \in CallOrNone, Tag(s, k)'
       PROVE  Tag(s, k) \/ (s = sessionid /\ k = n + 1)
    <2>1. TagPut(s, k)' => s = sessionid /\ k = n + 1
        BY <1>6, <1>9 DEF TagPut
    <2>2. TagLoop(s, k)' <=> TagLoop(s, k)
        BY <1>10 DEF TagLoop
    <2>3. TagMap(s, k)' <=> TagMap(s, k)
        BY <1>1 DEF TagMap
    <2>4. QED
        BY <1>13, <1>22, <2>1, <2>2, <2>3 DEF Tag, TagIn
<1>23. \A s \in NewSid : \A k \in CallOrNone : Tag(s, k) => s < sessionid
    BY <1>8 DEF Inv, IdsPast
<1>24. IdsUnique'
    <2> SUFFICES ASSUME NEW s \in NewSid, NEW k \in CallOrNone, NEW m \in CallOrNone,
                        Tag(s, k)', Tag(s, m)'
                 PROVE  k = m
        BY DEF IdsUnique
    <2>1. CASE s = sessionid
        <3>1. ~Tag(s, k) /\ ~Tag(s, m)
            BY <1>20, <1>23, <2>1
        <3>2. QED
            BY <1>22, <3>1
    <2>2. CASE s # sessionid
        <3>1. Tag(s, k) /\ Tag(s, m)
            BY <1>22, <2>2
        <3>2. QED
            BY <3>1 DEF Inv, IdsUnique
    <2>3. QED
        BY <2>1, <2>2
<1>25. IdsPast'
    <2> SUFFICES ASSUME NEW s \in NewSid, NEW k \in CallOrNone, Tag(s, k)'
                 PROVE  s < sessionid + 1
        BY <1>19 DEF IdsPast
    <2>1. s \in Nat
        BY Numbers
    <2>2. s <= sessionid
        BY <1>20, <1>22, <1>23, <2>1
    <2>3. QED
        BY <1>20, <2>1, <2>2
<1>26. CalledOnce'
    <2>1. Settled' = n
        <3>1. mutex' # NoThread
            BY <1>1, Numbers
        <3>2. QED
            BY <1>4, <3>1 DEF Settled
    <2>2. loop.step \in {"calling", "erase"} => loop # Idle
        BY DEF Idle
    <2>3. UNCHANGED <<cbmap, stopped>> /\ Settled' = Settled
        BY <1>1, <1>8, <2>1 DEF callVars
    <2>4. QED
        BY <1>10, <2>2, <2>3 DEF Inv, CalledOnce
<1>27. OwnAnswer'
    BY <1>1 DEF Inv, OwnAnswer, callVars
<1>28. QED
    BY <1>11, <1>12, <1>18, <1>21, <1>24, <1>25, <1>26, <1>27, <1>30 DEF Inv

LEMMA StartWriteStep == ASSUME Inv, StartWrite PROVE Inv'
<1>1. /\ async' = FALSE /\ writing' = TRUE
      /\ UNCHANGED <<cbmap, mutex, sessionid, th, loop, out, netVars, made, histVars>>
    BY DEF StartWrite
<1>2. UNCHANGED <<th, out, wire, jobs, back, mutex, sessionid, made, cbmap, loop>>
    BY <1>1 DEF netVars
<1>3. Typed'
    BY <1>1 DEF Inv, Typed, netVars, histVars, callVars
<1>4. /\ OneWriter' /\ ConnectOnce' /\ IdBound'
      /\ NextId' = NextId /\ Settled' = Settled
    BY <1>2, FramesKept
<1>8. ServerSids'
    BY <1>2, SidsKept
<1>5. IdsUnique' /\ IdsPast'
    <2>1. \A s, k : Tag(s, k)' <=> Tag(s, k)
        BY <1>2, FramesKept DEF Tag, TagLoop, TagMap
    <2>2. QED
        BY <1>4, <2>1, Counts, TagsKept
<1>6. CalledOnce' /\ OwnAnswer'
    BY <1>1, <1>4 DEF Inv, CalledOnce, OwnAnswer, histVars, callVars
<1>7. QED
    BY <1>3, <1>4, <1>5, <1>6, <1>8 DEF Inv

\* The front frame goes on the wire, the clientconnect with it.
LEMMA WriteStep == ASSUME Inv, Write PROVE Inv'
<1>1. /\ UNCHANGED <<cbmap, mutex, sessionid, th, loop, async, nodesid, jobs, back, notis, made,
                   histVars>>
      /\ \/ writing' = FALSE /\ UNCHANGED <<out, wire>>
         \/ /\ out # <<>> /\ wire' = Append(wire, Head(out)) /\ out' = Tail(out)
            /\ UNCHANGED writing
    BY DEF Write
<1>2. out \in Seq(Request) /\ wire \in Seq(Request)
    BY DEF Inv, Typed
<1>3. NextId' = NextId /\ Settled' = Settled /\ OneWriter'
    BY <1>1 DEF Inv, OneWriter, NextId, Settled
<1>4. Asking' <=> Asking
    BY <1>1 DEF Asking
<1>5. CalledOnce' /\ OwnAnswer'
    BY <1>1, <1>3 DEF Inv, CalledOnce, OwnAnswer, histVars, callVars
<1>9. ServerSids'
    BY <1>1, SidsKept
<1>6. CASE UNCHANGED <<out, wire>> /\ writing' = FALSE
    <2>1. UNCHANGED <<th, out, wire, jobs, back, mutex, sessionid, made, cbmap, loop>>
        BY <1>1, <1>6
    <2>2. Typed'
        BY <1>1, <1>6 DEF Inv, Typed, histVars, callVars
    <2>3. ConnectOnce' /\ IdBound' /\ \A s, k : Tag(s, k)' <=> Tag(s, k)
        BY <2>1, FramesKept DEF Tag, TagLoop, TagMap
    <2>4. IdsUnique' /\ IdsPast'
        BY <1>3, <2>3, Counts, TagsKept
    <2>5. QED
        BY <1>3, <1>5, <1>9, <2>2, <2>3, <2>4 DEF Inv
<1>7. CASE out # <<>> /\ wire' = Append(wire, Head(out)) /\ out' = Tail(out) /\ UNCHANGED writing
    <2>1. PICK m : m = Head(out)
        OBVIOUS
    <2>2. /\ m \in Request /\ out' \in Seq(Request)
          /\ Has(out') => Has(out)
          /\ m.kind = "connect" => Has(out)
          /\ Once(out) => Once(out')
          /\ Once(out) /\ m.kind = "connect" => ~Has(out')
          /\ \A s, k : TagIn(out', s, k) => TagIn(out, s, k)
          /\ m.kind \in Keyed => TagIn(out, m.sid, m.of)
        BY <1>2, <1>7, <2>1, TakeFrame
    <2>3. /\ wire' \in Seq(Request)
          /\ Has(wire') => Has(wire) \/ m.kind = "connect"
          /\ Once(wire) /\ (m.kind = "connect" => ~Has(wire)) => Once(wire')
          /\ \A s, k : TagIn(wire', s, k) =>
                TagIn(wire, s, k) \/ (m.kind \in Keyed /\ m.sid = s /\ m.of = k)
        BY <1>2, <1>7, <2>1, <2>2, AddFrame DEF MoreOf
    <2>4. Typed'
        BY <1>1, <1>7, <2>2, <2>3 DEF Inv, Typed, histVars, callVars
    <2>5. /\ (Has(wire)' <=> Has(wire')) /\ (Has(out)' <=> Has(out')) /\ (Has(back)' <=> Has(back))
          /\ (Has(jobs)' <=> Has(jobs))
        BY <1>1 DEF Has
    <2>6. /\ (Once(wire)' <=> Once(wire')) /\ (Once(out)' <=> Once(out')) /\ (Once(back)' <=> Once(back))
          /\ (Once(jobs)' <=> Once(jobs))
        BY <1>1 DEF Once
    <2>7. Connecting' => Connecting
        BY <1>4, <2>2, <2>3, <2>5 DEF Connecting
    <2>8. ConnectOnce'
        BY <1>1, <1>4, <2>2, <2>3, <2>5, <2>6, <2>7 DEF Inv, ConnectOnce
    <2>9. IdBound'
        BY <1>1, <1>3, <2>7, BoundKept
    <2>10. ASSUME NEW s \in NewSid, NEW k \in CallOrNone
           PROVE  Tag(s, k)' => Tag(s, k)
        <3>1. /\ TagPut(s, k)' <=> TagPut(s, k)
              /\ TagLoop(s, k)' <=> TagLoop(s, k)
              /\ TagMap(s, k)' <=> TagMap(s, k)
            BY <1>1 DEF TagPut, TagLoop, TagMap
        <3>2. /\ TagIn(out, s, k)' <=> TagIn(out', s, k)
              /\ TagIn(wire, s, k)' <=> TagIn(wire', s, k)
              /\ TagIn(jobs, s, k)' <=> TagIn(jobs, s, k)
              /\ TagIn(back, s, k)' <=> TagIn(back, s, k)
            BY <1>1 DEF TagIn
        <3>3. QED
            BY <2>2, <2>3, <3>1, <3>2 DEF Tag
    <2>11. IdsUnique' /\ IdsPast'
        BY <1>3, <2>10, Counts, TagsKept
    <2>12. QED
        BY <1>3, <1>5, <1>9, <2>4, <2>8, <2>9, <2>11 DEF Inv
<1>8. QED
    BY <1>1, <1>6, <1>7

\* The answer of a clientconnect stores an id above every id given out, unless
\* a thread is about to write back its own.
LEMMA ReadStep == ASSUME Inv, Read PROVE Inv'
<1>1. PICK m : m = Head(back)
    OBVIOUS
<1>2. /\ loop = Idle /\ back # <<>> /\ back' = Tail(back)
      /\ loop' = [step |-> "find", key |-> KeyOf(m.kind, m.sid), kind |-> m.kind,
                of |-> m.of]
      /\ sessionid' = IF m.kind = "connect" THEN m.sid ELSE sessionid
      /\ UNCHANGED <<cbmap, mutex, th, sendVars, wire, nodesid, jobs, notis, made, callVars,
                     across>>
    BY <1>1 DEF Read
<1>30. pending' \in BOOLEAN
    BY DEF Read
<1>3. back \in Seq(Frame)
    BY DEF Inv, Typed
<1>4. /\ m \in Frame /\ back' \in Seq(Frame)
      /\ Has(back') => Has(back)
      /\ m.kind = "connect" => Has(back)
      /\ Once(back) => Once(back')
      /\ Once(back) /\ m.kind = "connect" => ~Has(back')
      /\ \A s, k : TagIn(back', s, k) => TagIn(back, s, k)
      /\ m.kind \in Keyed => TagIn(back, m.sid, m.of)
    BY <1>1, <1>2, <1>3, TakeFrame
<1>5. m.kind \in AnswerKinds /\ m.sid \in Nat /\ m.of \in CallOrNone
    BY <1>4, FrameFields
<1>6. PICK key : key = KeyOf(m.kind, m.sid)
    OBVIOUS
<1>7. key \in Key /\ (m.kind \in Keyed => key = m.sid)
    BY <1>5, <1>6, KeyOfIs
<1>8. loop' \in Found /\ loop'.step = "find" /\ loop'.key = key /\ loop'.of = m.of
      /\ loop'.kind = m.kind
    BY <1>2, <1>5, <1>6, <1>7 DEF Found
<1>31. /\ m.kind = "connect" => m.sid \in {0, FirstSid}
       /\ m.kind \in Keyed => m.sid \in NewSid
    <2>1. 1 \in 1..Len(back) /\ m = back[1]
        BY <1>1, <1>2, <1>3, TailOfSeq
    <2>2. QED
        BY <2>1 DEF Inv, ServerSids
<1>9. sessionid' \in Sid
    BY <1>2, <1>31, Numbers DEF Inv, Typed
<1>10. Typed'
    BY <1>2, <1>4, <1>8, <1>9, <1>30 DEF Inv, Typed, sendVars, callVars
<1>11. OneWriter' /\ Settled' = Settled
    BY <1>2 DEF Inv, OneWriter, Settled
<1>12. UNCHANGED <<out, wire, jobs, made>>
    BY <1>2 DEF sendVars
<1>13. Asking' <=> Asking
    BY <1>2 DEF Asking
<1>14. /\ (Has(jobs)' <=> Has(jobs))
       /\ (Has(wire)' <=> Has(wire)) /\ (Has(out)' <=> Has(out)) /\ (Has(back)' <=> Has(back'))
    BY <1>12 DEF Has
<1>15. /\ (Once(jobs)' <=> Once(jobs))
       /\ (Once(wire)' <=> Once(wire)) /\ (Once(out)' <=> Once(out)) /\ (Once(back)' <=> Once(back'))
    BY <1>12 DEF Once
<1>16. Connecting' => Connecting
    BY <1>4, <1>13, <1>14 DEF Connecting
<1>17. \A i \in 1..Len(back') : /\ back'[i].kind = "connect" => back'[i].sid \in {0, FirstSid}
                                /\ back'[i].kind \in Keyed => back'[i].sid \in NewSid
    <2>1. PICK n : n = Len(back)
        OBVIOUS
    <2>2. n \in Nat /\ Len(back') = n - 1 /\ \A i \in 1..(n - 1) : back'[i] = back[i + 1]
        BY <1>2, <1>3, <2>1, TailOfSeq
    <2>3. \A i \in 1..(n - 1) : i + 1 \in 1..n
        BY <2>2
    <2>4. QED
        BY <2>1, <2>2, <2>3 DEF Inv, ServerSids
<1>18. ConnectOnce'
    BY <1>4, <1>12, <1>13, <1>14, <1>15, <1>16 DEF Inv, ConnectOnce
<1>32. ServerSids'
    BY <1>7, <1>8, <1>12, <1>17, <1>31 DEF Inv, ServerSids
<1>19. m.kind = "connect" => Connecting /\ ~Connecting' /\ "connect" \in ToSet(made)
    <2>3. m.kind = "connect" => Connecting /\ ~Connecting'
        BY <1>4, <1>13, <1>14 DEF Inv, ConnectOnce, Connecting
    <2>4. QED
        BY <2>3 DEF Inv, ConnectOnce
<1>20. /\ NextId \in Nat /\ Len(made) \in Nat /\ Len(made) <= MaxCalls
       /\ FirstSid = MaxCalls /\ MaxCalls \in Nat /\ MaxCalls > 0
    BY Counts, Numbers
<1>21. NextId' = NextId \/ (m.kind = "connect" /\ NextId' \in {0, FirstSid})
    BY <1>2, <1>31 DEF NextId
<1>22. m.kind = "connect" => NextId <= Len(made) /\ Len(made) > 0
    <2>1. ASSUME m.kind = "connect" PROVE Len(made) > 0
        <3>1. made \in Seq(Kinds) /\ "connect" \in ToSet(made)
            BY <1>19, <2>1 DEF Inv, Typed
        <3>2. QED
            BY <1>20, <3>1, LenProperties DEF ToSet
    <2>2. QED
        BY <1>19, <2>1 DEF Inv, IdBound
<1>23. NextId' \in Int /\ (NextId <= NextId' \/ NextId <= FirstSid)
    BY <1>20, <1>21, <1>22
<1>24. IdBound'
    <2>1. CASE m.kind = "connect"
        <3>1. NextId' <= FirstSid + Len(made) - 1
            BY <1>20, <1>21, <1>22, <2>1
        <3>2. QED
            BY <1>12, <1>19, <2>1, <3>1 DEF IdBound
    <2>2. CASE m.kind # "connect"
        BY <1>12, <1>16, <1>21, <2>2, BoundKept
    <2>3. QED
        BY <2>1, <2>2
<1>25. ASSUME NEW s \in NewSid, NEW k \in CallOrNone
       PROVE  Tag(s, k)' => Tag(s, k)
    <2>1. /\ TagPut(s, k)' <=> TagPut(s, k)
          /\ TagMap(s, k)' <=> TagMap(s, k)
        BY <1>2 DEF TagPut, TagMap
    <2>2. TagLoop(s, k)' => TagIn(back, s, k)
        BY <1>4, <1>7, <1>8 DEF TagLoop
    <2>3. /\ TagIn(out, s, k)' <=> TagIn(out, s, k)
          /\ TagIn(wire, s, k)' <=> TagIn(wire, s, k)
          /\ TagIn(jobs, s, k)' <=> TagIn(jobs, s, k)
          /\ TagIn(back, s, k)' <=> TagIn(back', s, k)
        BY <1>12 DEF TagIn
    <2>4. QED
        BY <1>4, <2>1, <2>2, <2>3 DEF Tag
<1>26. IdsUnique' /\ IdsPast'
    BY <1>23, <1>25, TagsKept
<1>27. CalledOnce'
    <2>1. loop.step = "idle" /\ UNCHANGED <<cbmap, stopped>>
        BY <1>2 DEF Idle, callVars
    <2>2. QED
        BY <1>8, <1>11, <2>1 DEF Inv, CalledOnce
<1>28. OwnAnswer'
    BY <1>2 DEF Inv, OwnAnswer, callVars
<1>29. QED
    BY <1>10, <1>11, <1>18, <1>24, <1>26, <1>27, <1>28, <1>32 DEF Inv

\* The callback found under a session id was put by the call whose answer this
\* is, and it has not been stopped.
LEMMA FindStep ==
    ASSUME Inv, FindCallback
    PROVE  /\ Inv'
           /\ loop'.step = "calling" => \A k \in stopped : loop'.call # k
<1>1. PICK k : k = CallbackOf(loop.key)
    OBVIOUS
<1>2. /\ loop.step = "find" /\ mutex = NoThread
      /\ \/ k = NoCall /\ loop' = Idle /\ UNCHANGED <<mutex, ran>>
         \/ /\ k # NoCall
            /\ \E todo \in Kinds \cup {"none"} :
                  loop' = [step |-> "calling", key |-> loop.key, kind |-> loop.kind,
                           of |-> loop.of, call |-> k, todo |-> todo]
            /\ mutex' = NoThread
            /\ ran' = ran \cup {[call |-> k, key |-> loop.key, kind |-> loop.kind, of |-> loop.of]}
      /\ UNCHANGED <<cbmap, sessionid, th, sendVars, netVars, made, stopped, pending, across>>
    BY <1>1 DEF FindCallback, FindLock, HeldInCallback
<1>3. loop \in Found
    BY <1>2 DEF Inv, Typed, Idle, Called
<1>4. PICK key, kind, of :
          /\ key = loop.key /\ kind = loop.kind /\ of = loop.of
          /\ key \in Key /\ kind \in AnswerKinds /\ of \in CallOrNone
    BY <1>3 DEF Found
<1>10. k # NoCall => key \in MapKey /\ k = cbmap[key]
    BY <1>1, <1>4 DEF CallbackOf, Inv, Typed
<1>11. UNCHANGED <<jobs, back>>
    BY <1>2 DEF netVars
<1>5. UNCHANGED <<th, out, wire, jobs, back, mutex, sessionid, made>>
    BY <1>2 DEF netVars, sendVars
<1>6. /\ OneWriter' /\ ConnectOnce' /\ IdBound'
      /\ NextId' = NextId /\ Settled' = Settled
      /\ \A s, c : /\ TagPut(s, c)' <=> TagPut(s, c)
                   /\ TagIn(out, s, c)' <=> TagIn(out, s, c)
                   /\ TagIn(wire, s, c)' <=> TagIn(wire, s, c)
                   /\ TagIn(jobs, s, c)' <=> TagIn(jobs, s, c)
                   /\ TagIn(back, s, c)' <=> TagIn(back, s, c)
    BY <1>5, FramesKept
<1>7. CASE k = NoCall /\ loop' = Idle /\ UNCHANGED <<mutex, ran>>
    <2>1. Typed'
        BY <1>2, <1>7 DEF Inv, Typed, sendVars, netVars
    <2>2. \A s, c : Tag(s, c)' => Tag(s, c)
        BY <1>2, <1>6, <1>7 DEF Tag, TagLoop, TagMap
    <2>3. IdsUnique' /\ IdsPast'
        BY <1>6, <2>2, Counts, TagsKept
    <2>4. loop'.step = "idle"
        BY <1>7 DEF Idle
    <2>7. ServerSids'
        BY <1>7, <1>11, SidsKept
    <2>5. CalledOnce' /\ OwnAnswer'
        BY <1>2, <1>6, <1>7, <2>4 DEF Inv, CalledOnce, OwnAnswer
    <2>6. QED
        BY <1>6, <2>1, <2>3, <2>4, <2>5, <2>7 DEF Inv
<1>8. ASSUME k # NoCall, NEW todo \in Kinds \cup {"none"},
             loop' = [step |-> "calling", key |-> key, kind |-> kind, of |-> of, call |-> k,
                      todo |-> todo],
             mutex' = NoThread,
             ran' = ran \cup {[call |-> k, key |-> key, kind |-> kind, of |-> of]}
      PROVE  Inv' /\ \A c \in stopped : loop'.call # c
    <2>1. k \in Call
        BY <1>8, <1>10 DEF Inv, Typed, CallOrNone
    <2>2. /\ loop' \in Called /\ loop'.step = "calling" /\ loop'.key = key /\ loop'.of = of
          /\ loop'.call = k /\ loop'.kind = kind
        BY <1>4, <1>8, <1>10, <2>1 DEF Called
    <2>3. [call |-> k, key |-> key, kind |-> kind, of |-> of]
              \in [call : Call, key : Key, kind : AnswerKinds, of : CallOrNone]
        BY <1>4, <2>1
    <2>4. Typed'
        BY <1>2, <1>8, <2>2, <2>3 DEF Inv, Typed, sendVars, netVars
    <2>5. loop # Idle /\ loop' # Idle
        BY <1>2, <2>2 DEF Idle
    <2>6. \A s, c : Tag(s, c)' => Tag(s, c)
        BY <1>2, <1>4, <1>6, <2>2, <2>5 DEF Tag, TagLoop, TagMap
    <2>7. IdsUnique' /\ IdsPast'
        BY <1>6, <2>6, Counts, TagsKept
    <2>8. \A c \in stopped : k # c
        BY <1>2, <1>8, <1>10 DEF Inv, CalledOnce
    <2>9. CalledOnce'
        <3>1. k <= Settled
            BY <1>8, <1>10 DEF Inv, CalledOnce
        <3>2. \A x \in MapKey : cbmap[x] = k => x = key
            BY <1>8, <1>10 DEF Inv, CalledOnce
        <3>3. \A x \in MapKey : cbmap[x] \notin stopped
            BY <1>2 DEF Inv, CalledOnce
        <3>4. UNCHANGED <<cbmap, stopped>>
            BY <1>2
        <3>5. QED
            BY <1>6, <2>2, <3>1, <3>2, <3>3, <3>4 DEF Inv, CalledOnce
    <2>13. ServerSids'
        BY <1>4, <1>11, <2>2, <2>5, SidsKept
    <2>10. kind \in {"request", "query"} => k = of
        <3> SUFFICES ASSUME kind \in Keyed PROVE k = of
            BY DEF Keyed
        <3>4. key \in NewSid
            BY <1>4, <2>5 DEF Inv, ServerSids
        <3>1. Tag(key, k) /\ Tag(key, of)
            BY <1>4, <1>8, <1>10, <2>5 DEF Tag, TagLoop, TagMap
        <3>2. k \in CallOrNone
            BY <2>1 DEF CallOrNone
        <3>3. QED
            BY <1>4, <3>1, <3>2, <3>4 DEF Inv, IdsUnique
    <2>11. OwnAnswer'
        BY <1>8, <2>10 DEF Inv, OwnAnswer
    <2>12. QED
        BY <1>6, <2>2, <2>4, <2>7, <2>8, <2>9, <2>11, <2>13 DEF Inv
<1>9. QED
    BY <1>2, <1>4, <1>7, <1>8

LEMMA ReturnStep == ASSUME Inv, NEW isStop \in BOOLEAN, Return(isStop) PROVE Inv'
<1>1. /\ loop.step = "calling"
      /\ loop' = IF isStop THEN [loop EXCEPT !.step = "erase"] ELSE Idle
      /\ stopped' = IF isStop THEN stopped \cup {loop.call} ELSE stopped
      /\ UNCHANGED <<cbmap, mutex, sessionid, th, sendVars, netVars, made, ran, pending, across>>
    BY DEF Return
<1>2. loop \in Called
    BY <1>1 DEF Inv, Typed, Idle, Found
<1>3. PICK k : k = loop.call /\ k \in Call
    BY <1>2 DEF Called
<1>4. UNCHANGED <<th, out, wire, jobs, back, mutex, sessionid, made>>
    BY <1>1 DEF netVars, sendVars
<1>5. /\ OneWriter' /\ ConnectOnce' /\ IdBound'
      /\ NextId' = NextId /\ Settled' = Settled
      /\ \A s, c : /\ TagPut(s, c)' <=> TagPut(s, c)
                   /\ TagIn(out, s, c)' <=> TagIn(out, s, c)
                   /\ TagIn(wire, s, c)' <=> TagIn(wire, s, c)
                   /\ TagIn(jobs, s, c)' <=> TagIn(jobs, s, c)
                   /\ TagIn(back, s, c)' <=> TagIn(back, s, c)
    BY <1>4, FramesKept
<1>6. loop # Idle
    BY <1>1 DEF Idle
<1>11. UNCHANGED <<jobs, back>>
    BY <1>4
<1>7. /\ k <= Settled /\ \A x \in MapKey : cbmap[x] = k => x = loop.key
      /\ \A x \in MapKey : cbmap[x] \notin stopped
    BY <1>1, <1>3 DEF Inv, CalledOnce
<1>8. CASE isStop
    <2>1. /\ loop' \in Called /\ loop'.step = "erase" /\ loop'.key = loop.key
          /\ loop'.of = loop.of /\ loop'.kind = loop.kind /\ loop'.call = k /\ loop' # Idle
        BY <1>1, <1>2, <1>3, <1>8 DEF Called, Idle
    <2>2. stopped' = stopped \cup {k} /\ UNCHANGED <<cbmap, ran>>
        BY <1>1, <1>3, <1>8
    <2>3. Typed'
        BY <1>1, <1>3, <2>1, <2>2 DEF Inv, Typed, sendVars, netVars
    <2>4. \A s, c : Tag(s, c)' => Tag(s, c)
        BY <1>5, <1>6, <2>1, <2>2 DEF Tag, TagLoop, TagMap
    <2>5. CalledOnce'
        BY <1>5, <1>7, <2>1, <2>2 DEF Inv, CalledOnce
    <2>7. ServerSids'
        BY <1>6, <1>11, <2>1, SidsKept
    <2>6. QED
        BY <1>5, <2>2, <2>3, <2>4, <2>5, <2>7, Counts, TagsKept DEF Inv, OwnAnswer
<1>9. CASE ~isStop
    <2>1. loop' = Idle /\ loop'.step = "idle" /\ UNCHANGED <<stopped, cbmap, ran>>
        BY <1>1, <1>9 DEF Idle
    <2>2. Typed'
        BY <1>1, <2>1 DEF Inv, Typed, sendVars, netVars
    <2>3. \A s, c : Tag(s, c)' => Tag(s, c)
        BY <1>5, <2>1 DEF Tag, TagLoop, TagMap
    <2>4. CalledOnce'
        BY <1>5, <1>7, <2>1 DEF Inv, CalledOnce
    <2>6. ServerSids'
        BY <1>11, <2>1, SidsKept
    <2>5. QED
        BY <1>5, <2>1, <2>2, <2>3, <2>4, <2>6, Counts, TagsKept DEF Inv, OwnAnswer
<1>10. QED
    BY <1>8, <1>9

LEMMA EraseStep == ASSUME Inv, EraseCallback PROVE Inv'
<1>1. /\ loop.step = "erase" /\ loop' = Idle
      /\ cbmap' = [cbmap EXCEPT ![loop.key] = NoCall]
      /\ UNCHANGED <<mutex, sessionid, th, sendVars, netVars, made, histVars>>
    BY DEF EraseCallback, Erased
<1>2. loop \in Called
    BY <1>1 DEF Inv, Typed, Idle, Found
<1>3. PICK key : key = loop.key /\ key \in MapKey
    BY <1>2 DEF Called
<1>4. /\ cbmap' \in [MapKey -> CallOrNone] /\ cbmap'[key] = NoCall
      /\ \A x \in MapKey : x # key => cbmap'[x] = cbmap[x]
    BY <1>1, <1>3 DEF Inv, Typed, CallOrNone
<1>5. Typed'
    BY <1>1, <1>4 DEF Inv, Typed, sendVars, netVars, histVars, callVars
<1>6. UNCHANGED <<th, out, wire, jobs, back, mutex, sessionid, made>>
    BY <1>1 DEF netVars, sendVars
<1>7. /\ OneWriter' /\ ConnectOnce' /\ IdBound'
      /\ NextId' = NextId /\ Settled' = Settled
      /\ \A s, c : /\ TagPut(s, c)' <=> TagPut(s, c)
                   /\ TagIn(out, s, c)' <=> TagIn(out, s, c)
                   /\ TagIn(wire, s, c)' <=> TagIn(wire, s, c)
                   /\ TagIn(jobs, s, c)' <=> TagIn(jobs, s, c)
                   /\ TagIn(back, s, c)' <=> TagIn(back, s, c)
    BY <1>6, FramesKept
<1>8. \A s \in NewSid : \A c \in CallOrNone : Tag(s, c)' => Tag(s, c)
    BY <1>1, <1>4, <1>7, Numbers DEF Tag, TagLoop, TagMap, MapKey
<1>9. CalledOnce'
    <2>1. /\ \A k \in stopped : k <= Settled
          /\ \A x \in MapKey : cbmap[x] <= Settled
          /\ \A x, y \in MapKey : cbmap[x] = cbmap[y] /\ cbmap[x] # NoCall => x = y
          /\ \A x \in MapKey : cbmap[x] \in stopped => loop.key = x
        BY DEF Inv, CalledOnce
    <2>2. \A x \in MapKey : cbmap'[x] = cbmap[x] \/ (x = key /\ cbmap'[x] = NoCall)
        BY <1>4
    <2>3. NoCall <= Settled
        <3>1. cbmap[key] \in Nat /\ cbmap[key] <= Settled
            BY <1>3, <2>1, Numbers DEF Inv, Typed
        <3>2. QED
            BY <3>1, Counts, Numbers
    <2>4. NoCall \notin stopped /\ UNCHANGED stopped
        BY <1>1, Numbers DEF Inv, Typed, histVars, callVars
    <2>5. \A x \in MapKey : cbmap'[x] <= Settled
        BY <2>1, <2>2, <2>3
    <2>6. \A x, y \in MapKey : cbmap'[x] = cbmap'[y] /\ cbmap'[x] # NoCall => x = y
        BY <2>1, <2>2
    <2>7. \A x \in MapKey : cbmap'[x] \notin stopped
        BY <1>3, <1>4, <2>1, <2>4
    <2>8. loop'.step = "idle"
        BY <1>1 DEF Idle
    <2>9. QED
        BY <1>7, <2>1, <2>4, <2>5, <2>6, <2>7, <2>8 DEF CalledOnce
<1>10. OwnAnswer'
    BY <1>1 DEF Inv, OwnAnswer, histVars, callVars
<1>12. ServerSids'
    BY <1>1, <1>6, SidsKept
<1>11. QED
    BY <1>5, <1>7, <1>8, <1>9, <1>10, <1>12, Counts, TagsKept DEF Inv

\* A frame goes to the worker, with the id the node expects of it.
LEMMA ServerReadStep == ASSUME Inv, ServerRead PROVE Inv'
<1>1. PICK m : m = Head(wire)
    OBVIOUS
<1>2. PICK j : j = [kind |-> m.kind, sid |-> m.sid, of |-> m.of,
                    expected |-> IF m.kind \notin Unchecked THEN nodesid ELSE 0]
    OBVIOUS
<1>3. /\ wire # <<>> /\ wire' = Tail(wire) /\ jobs' = Append(jobs, j)
      /\ nodesid' \in {nodesid, nodesid + 1}
      /\ UNCHANGED <<cbmap, mutex, sessionid, th, loop, sendVars, back, notis, made, histVars>>
    BY <1>1, <1>2 DEF ServerRead
<1>4. wire \in Seq(Request) /\ jobs \in Seq(Job) /\ nodesid \in Nat
    BY DEF Inv, Typed
<1>5. /\ m \in Request /\ wire' \in Seq(Request)
      /\ Has(wire') => Has(wire)
      /\ m.kind = "connect" => Has(wire)
      /\ Once(wire) => Once(wire')
      /\ Once(wire) /\ m.kind = "connect" => ~Has(wire')
      /\ \A s, k : TagIn(wire', s, k) => TagIn(wire, s, k)
      /\ m.kind \in Keyed => TagIn(wire, m.sid, m.of)
    BY <1>1, <1>3, <1>4, TakeFrame
<1>6. /\ j \in Job /\ j.kind = m.kind /\ j.sid = m.sid /\ j.of = m.of
      /\ j.kind = "connect" => j.expected = 0
    BY <1>2, <1>4, <1>5 DEF Request, Job, Unchecked
<1>7. PICK z : z = Append(jobs, j)
    OBVIOUS
<1>8. /\ z \in Seq(Job)
      /\ Has(z) => Has(jobs) \/ j.kind = "connect"
      /\ Once(jobs) /\ (j.kind = "connect" => ~Has(jobs)) => Once(z)
      /\ \A s, k : TagIn(z, s, k) =>
            TagIn(jobs, s, k) \/ (j.kind \in Keyed /\ j.sid = s /\ j.of = k)
      /\ \A i \in 1..Len(z) : (\E x \in 1..Len(jobs) : z[i] = jobs[x]) \/ z[i] = j
    BY <1>4, <1>6, <1>7, AddFrame DEF MoreOf
<1>9. jobs' = z
    BY <1>3, <1>7
<1>10. nodesid' \in Nat
    BY <1>3, <1>4
<1>11. Typed'
    BY <1>3, <1>5, <1>8, <1>9, <1>10 DEF Inv, Typed, sendVars, histVars, callVars
<1>12. NextId' = NextId /\ Settled' = Settled /\ OneWriter'
    BY <1>3 DEF Inv, OneWriter, NextId, Settled
<1>13. (Asking' <=> Asking) /\ UNCHANGED <<out, back, made, loop>>
    BY <1>3 DEF Asking, sendVars
<1>14. /\ (Has(wire)' <=> Has(wire')) /\ (Has(out)' <=> Has(out))
       /\ (Has(jobs)' <=> Has(z)) /\ (Has(back)' <=> Has(back))
    BY <1>9, <1>13 DEF Has
<1>15. /\ (Once(wire)' <=> Once(wire')) /\ (Once(out)' <=> Once(out))
       /\ (Once(jobs)' <=> Once(z)) /\ (Once(back)' <=> Once(back))
    BY <1>9, <1>13 DEF Once
<1>16. Connecting' => Connecting
    BY <1>5, <1>6, <1>8, <1>13, <1>14 DEF Connecting
<1>17. ConnectOnce'
    BY <1>5, <1>6, <1>8, <1>13, <1>14, <1>15, <1>16 DEF Inv, ConnectOnce
<1>18. ServerSids'
    <2>1. \A i \in 1..Len(z) : z[i].kind = "connect" => z[i].expected = 0
        BY <1>6, <1>8 DEF Inv, ServerSids
    <2>2. QED
        BY <1>9, <1>13, <2>1 DEF Inv, ServerSids
<1>19. IdBound'
    BY <1>12, <1>13, <1>16, BoundKept
<1>20. ASSUME NEW s \in NewSid, NEW k \in CallOrNone
       PROVE  Tag(s, k)' => Tag(s, k)
    <2>1. /\ TagPut(s, k)' <=> TagPut(s, k)
          /\ TagLoop(s, k)' <=> TagLoop(s, k)
          /\ TagMap(s, k)' <=> TagMap(s, k)
        BY <1>3 DEF TagPut, TagLoop, TagMap
    <2>2. /\ TagIn(out, s, k)' <=> TagIn(out, s, k)
          /\ TagIn(wire, s, k)' <=> TagIn(wire', s, k)
          /\ TagIn(jobs, s, k)' <=> TagIn(z, s, k)
          /\ TagIn(back, s, k)' <=> TagIn(back, s, k)
        BY <1>9, <1>13 DEF TagIn
    <2>3. QED
        BY <1>5, <1>6, <1>8, <2>1, <2>2 DEF Tag
<1>21. IdsUnique' /\ IdsPast'
    BY <1>12, <1>20, Counts, TagsKept
<1>22. CalledOnce' /\ OwnAnswer'
    BY <1>3, <1>12 DEF Inv, CalledOnce, OwnAnswer, histVars, callVars
<1>23. QED
    BY <1>11, <1>12, <1>17, <1>18, <1>19, <1>21, <1>22 DEF Inv

\* What every answer has in common: n copies of a, for the frame of job j.
AnswerTo(a, n, j) ==
    /\ n \in Nat /\ a \in Frame /\ a.of = j.of
    /\ a.kind = "connect" => j.kind = "connect" /\ n = 1 /\ a.sid \in {0, FirstSid}
    /\ a.kind \in Keyed => a.kind = j.kind /\ a.sid = j.sid /\ j.sid \in NewSid

\* An answer has the id the node expected, which is the request's own unless it
\* is an error, and the call of its request; only a query has several.
LEMMA DispatchAnswers ==
    ASSUME Inv, Dispatch
    PROVE  /\ jobs # <<>> /\ jobs' = Tail(jobs) /\ nodesid' \in Nat
           /\ \E a, n : /\ AnswerTo(a, n, Head(jobs))
                        /\ back' \in Seq(Frame) /\ MoreOf(back', back, a, n)
<1>1. PICK j : j = Head(jobs)
    OBVIOUS
<1>2. jobs # <<>> /\ jobs' = Tail(jobs)
    BY DEF Dispatch
<1>3. jobs \in Seq(Job) /\ back \in Seq(Frame) /\ nodesid \in Nat
    BY DEF Inv, Typed
<1>4. j \in Job /\ (j.kind = "connect" => j.expected = 0)
    <2>1. 1 \in 1..Len(jobs) /\ j = jobs[1] /\ j \in Job
        BY <1>1, <1>2, <1>3, TailOfSeq
    <2>2. QED
        BY <2>1 DEF Inv, ServerSids
<1>5. /\ j.kind \in AllKinds /\ j.sid \in Sid /\ j.of \in Call /\ j.of \in CallOrNone
      /\ j.expected \in Nat
    BY <1>4 DEF Job, CallOrNone
<1>6. FirstSid \in Nat
    BY Numbers
<1>7. CASE Fails(j)
    <2>1. PICK a : a = [kind |-> "error", sid |-> j.expected, of |-> j.of]
        OBVIOUS
    <2>2. back' = Append(back, a) /\ nodesid' = nodesid
        BY <1>7, <2>1 DEF Fails, Reply
    <2>3. a \in Frame /\ a.kind = "error" /\ a.of = j.of
        BY <1>5, <2>1 DEF Frame, CallOrNone
    <2>4. AnswerTo(a, 1, j)
        BY <2>3 DEF AnswerTo, Keyed
    <2>5. back' \in Seq(Frame) /\ MoreOf(back', back, a, 1)
        BY <1>3, <2>2, <2>3, AddFrame
    <2>6. QED
        BY <1>1, <1>2, <1>3, <2>2, <2>4, <2>5
<1>8. CASE ConnectSucceeds(j) /\ j.kind = "connect"
    <2>1. PICK a : a = [kind |-> "connect", sid |-> FirstSid, of |-> j.of]
        OBVIOUS
    <2>2. back' = Append(back, a) /\ nodesid' = FirstSid
        BY <1>4, <1>8, <2>1 DEF ConnectSucceeds, Reply, Job
    <2>3. a \in Frame /\ a.kind = "connect" /\ a.of = j.of /\ a.sid = FirstSid
        BY <1>5, <1>6, <2>1 DEF Frame, AllKinds, CallOrNone
    <2>4. AnswerTo(a, 1, j)
        BY <1>8, <2>3 DEF AnswerTo, Keyed
    <2>5. back' \in Seq(Frame) /\ MoreOf(back', back, a, 1)
        BY <1>3, <2>2, <2>3, AddFrame
    <2>6. QED
        BY <1>1, <1>2, <1>6, <2>2, <2>4, <2>5
<1>9. CASE ~Refused(j) /\ Answered(j)
    <2>1. PICK a : a = [kind |-> j.kind, sid |-> j.expected, of |-> j.of]
        OBVIOUS
    <2>2. PICK n \in 1..MaxAnswers :
              /\ j.kind # "query" => n = 1
              /\ back' = back \o [i \in 1..n |-> Reply(j, j.kind)]
        BY <1>9 DEF Answered
    <2>3. back' = back \o [i \in 1..n |-> a] /\ nodesid' = nodesid
        BY <1>9, <2>1, <2>2 DEF Answered, Reply
    <2>4. /\ a \in Frame /\ a.kind = j.kind /\ a.sid = j.expected /\ a.of = j.of
        BY <1>5, <2>1 DEF Frame, CallOrNone
    <2>5. n \in Nat \ {0}
        BY Numbers
    <2>6. a.kind \in Keyed => a.sid = j.sid /\ j.sid \in NewSid
        BY <1>5, <1>6, <1>9, <2>4, Numbers DEF Refused, Unchecked, Keyed, NewSid
    <2>7. AnswerTo(a, n, j)
        BY <1>4, <2>2, <2>4, <2>5, <2>6 DEF AnswerTo
    <2>8. back' \in Seq(Frame) /\ MoreOf(back', back, a, n)
        BY <1>3, <2>3, <2>4, <2>5, AddCopies
    <2>9. QED
        BY <1>1, <1>2, <1>3, <2>3, <2>7, <2>8
<1>10. QED
    BY <1>1, <1>7, <1>8, <1>9 DEF Dispatch

\* A job is answered.
LEMMA DispatchStep == ASSUME Inv, Dispatch PROVE Inv'
<1>1. PICK j : j = Head(jobs)
    OBVIOUS
<1>2. jobs # <<>> /\ jobs' = Tail(jobs) /\ nodesid' \in Nat
    BY DispatchAnswers
<1>3. PICK a, n : AnswerTo(a, n, j) /\ back' \in Seq(Frame) /\ MoreOf(back', back, a, n)
    BY <1>1, DispatchAnswers
<1>4. UNCHANGED <<cbmap, mutex, sessionid, th, loop, sendVars, wire, notis, made, histVars>>
    BY DEF Dispatch
<1>5. jobs \in Seq(Job)
    BY DEF Inv, Typed
<1>6. /\ j \in Job /\ jobs' \in Seq(Job)
      /\ Has(jobs') => Has(jobs)
      /\ j.kind = "connect" => Has(jobs)
      /\ Once(jobs) => Once(jobs')
      /\ Once(jobs) /\ j.kind = "connect" => ~Has(jobs')
      /\ \A s, k : TagIn(jobs', s, k) => TagIn(jobs, s, k)
      /\ j.kind \in Keyed => TagIn(jobs, j.sid, j.of)
    BY <1>1, <1>2, <1>5, TakeFrame
<1>7. PICK z : z = back'
    OBVIOUS
<1>8. /\ z \in Seq(Frame)
      /\ Has(z) => Has(back) \/ a.kind = "connect"
      /\ Once(back) /\ (a.kind = "connect" => n = 1 /\ ~Has(back)) => Once(z)
      /\ \A s, k : TagIn(z, s, k) =>
            TagIn(back, s, k) \/ (a.kind \in Keyed /\ a.sid = s /\ a.of = k)
      /\ \A i \in 1..Len(z) : (\E x \in 1..Len(back) : z[i] = back[x]) \/ z[i] = a
    BY <1>3, <1>7 DEF MoreOf
<1>9. Typed'
    BY <1>2, <1>4, <1>6, <1>7, <1>8 DEF Inv, Typed, sendVars, histVars, callVars
<1>10. NextId' = NextId /\ Settled' = Settled /\ OneWriter'
    BY <1>4 DEF Inv, OneWriter, NextId, Settled
<1>11. (Asking' <=> Asking) /\ UNCHANGED <<out, wire, made, loop>>
    BY <1>4 DEF Asking, sendVars
<1>12. /\ (Has(wire)' <=> Has(wire)) /\ (Has(out)' <=> Has(out))
       /\ (Has(jobs)' <=> Has(jobs')) /\ (Has(back)' <=> Has(z))
    BY <1>7, <1>11 DEF Has
<1>13. /\ (Once(wire)' <=> Once(wire)) /\ (Once(out)' <=> Once(out))
       /\ (Once(jobs)' <=> Once(jobs')) /\ (Once(back)' <=> Once(z))
    BY <1>7, <1>11 DEF Once
<1>14. a.kind = "connect" => j.kind = "connect" /\ n = 1 /\ a.sid \in {0, FirstSid}
    BY <1>3 DEF AnswerTo
<1>15. a.kind \in Keyed => j.kind \in Keyed /\ a.sid = j.sid /\ a.sid \in NewSid /\ a.of = j.of
    BY <1>3 DEF AnswerTo
<1>16. Connecting' => Connecting
    BY <1>6, <1>8, <1>11, <1>12, <1>14 DEF Connecting
<1>17. Once(back)'
    BY <1>6, <1>8, <1>13, <1>14 DEF Inv, ConnectOnce
<1>18. ConnectOnce'
    BY <1>6, <1>8, <1>11, <1>12, <1>13, <1>14, <1>16, <1>17 DEF Inv, ConnectOnce
<1>19. ServerSids'
    <2>1. \A i \in 1..Len(z) : /\ z[i].kind = "connect" => z[i].sid \in {0, FirstSid}
                               /\ z[i].kind \in Keyed => z[i].sid \in NewSid
        BY <1>8, <1>14, <1>15 DEF Inv, ServerSids
    <2>2. \A i \in 1..Len(jobs') : jobs'[i].kind = "connect" => jobs'[i].expected = 0
        <3>1. PICK l : l = Len(jobs)
            OBVIOUS
        <3>2. l \in Nat /\ Len(jobs') = l - 1 /\ \A i \in 1..(l - 1) : jobs'[i] = jobs[i + 1]
            BY <1>2, <1>5, <3>1, TailOfSeq
        <3>3. \A i \in 1..(l - 1) : i + 1 \in 1..l
            BY <3>2
        <3>4. QED
            BY <3>1, <3>2, <3>3 DEF Inv, ServerSids
    <2>3. QED
        BY <1>7, <1>11, <2>1, <2>2 DEF Inv, ServerSids
<1>20. IdBound'
    BY <1>10, <1>11, <1>16, BoundKept
<1>21. ASSUME NEW s \in NewSid, NEW k \in CallOrNone
       PROVE  Tag(s, k)' => Tag(s, k)
    <2>1. /\ TagPut(s, k)' <=> TagPut(s, k)
          /\ TagLoop(s, k)' <=> TagLoop(s, k)
          /\ TagMap(s, k)' <=> TagMap(s, k)
        BY <1>4 DEF TagPut, TagLoop, TagMap
    <2>2. /\ TagIn(out, s, k)' <=> TagIn(out, s, k)
          /\ TagIn(wire, s, k)' <=> TagIn(wire, s, k)
          /\ TagIn(jobs, s, k)' <=> TagIn(jobs', s, k)
          /\ TagIn(back, s, k)' <=> TagIn(z, s, k)
        BY <1>7, <1>11 DEF TagIn
    <2>3. a.kind \in Keyed => TagIn(jobs, a.sid, a.of)
        BY <1>6, <1>15
    <2>4. QED
        BY <1>6, <1>8, <2>1, <2>2, <2>3 DEF Tag
<1>22. IdsUnique' /\ IdsPast'
    BY <1>10, <1>21, Counts, TagsKept
<1>23. CalledOnce' /\ OwnAnswer'
    BY <1>4, <1>10 DEF Inv, CalledOnce, OwnAnswer, histVars, callVars
<1>24. QED
    BY <1>9, <1>10, <1>18, <1>19, <1>20, <1>22, <1>23 DEF Inv

LEMMA NotifyStep == ASSUME Inv, Notify PROVE Inv'
<1>1. PICK m : m = [kind |-> "onuser", sid |-> 0, of |-> NoCall]
    OBVIOUS
<1>2. /\ notis < MaxNoti /\ notis' = notis + 1 /\ back' = Append(back, m)
      /\ UNCHANGED <<cbmap, mutex, sessionid, th, loop, sendVars, wire, nodesid, jobs, made,
                     histVars>>
    BY <1>1 DEF Notify
<1>3. m \in Frame /\ m.kind = "onuser"
    BY <1>1, Numbers DEF Frame, AllKinds
<1>4. back \in Seq(Frame)
    BY DEF Inv, Typed
<1>5. PICK z : z = Append(back, m)
    OBVIOUS
<1>6. /\ z \in Seq(Frame)
      /\ Has(z) => Has(back) \/ m.kind = "connect"
      /\ Once(back) /\ (m.kind = "connect" => ~Has(back)) => Once(z)
      /\ \A s, k : TagIn(z, s, k) =>
            TagIn(back, s, k) \/ (m.kind \in Keyed /\ m.sid = s /\ m.of = k)
      /\ \A i \in 1..Len(z) : (\E j \in 1..Len(back) : z[i] = back[j]) \/ z[i] = m
    BY <1>3, <1>4, <1>5, AddFrame DEF MoreOf
<1>7. back' = z
    BY <1>2, <1>5
<1>8. notis' \in 0..MaxNoti
    BY <1>2, Numbers DEF Inv, Typed
<1>9. Typed'
    BY <1>2, <1>6, <1>7, <1>8 DEF Inv, Typed, sendVars, histVars, callVars
<1>10. NextId' = NextId /\ Settled' = Settled /\ OneWriter'
    BY <1>2 DEF Inv, OneWriter, NextId, Settled
<1>11. (Asking' <=> Asking) /\ UNCHANGED <<out, made, wire, jobs, loop>>
    BY <1>2 DEF Asking, sendVars
<1>12. /\ (Has(jobs)' <=> Has(jobs))
       /\ (Has(wire)' <=> Has(wire)) /\ (Has(out)' <=> Has(out)) /\ (Has(back)' <=> Has(z))
    BY <1>7, <1>11 DEF Has
<1>13. /\ (Once(jobs)' <=> Once(jobs))
       /\ (Once(wire)' <=> Once(wire)) /\ (Once(out)' <=> Once(out)) /\ (Once(back)' <=> Once(z))
    BY <1>7, <1>11 DEF Once
<1>14. Connecting' => Connecting
    BY <1>3, <1>6, <1>11, <1>12 DEF Connecting
<1>15. \A i \in 1..Len(z) : /\ z[i].kind = "connect" => z[i].sid \in {0, FirstSid}
                            /\ z[i].kind \in Keyed => z[i].sid \in NewSid
    BY <1>3, <1>6 DEF Inv, ServerSids, Keyed
<1>22. ServerSids'
    BY <1>7, <1>11, <1>15 DEF Inv, ServerSids
<1>16. ConnectOnce'
    BY <1>3, <1>6, <1>7, <1>11, <1>12, <1>13, <1>14 DEF Inv, ConnectOnce
<1>17. IdBound'
    BY <1>10, <1>11, <1>14, BoundKept
<1>18. ASSUME NEW s \in NewSid, NEW k \in CallOrNone
       PROVE  Tag(s, k)' => Tag(s, k)
    <2>1. /\ TagPut(s, k)' <=> TagPut(s, k)
          /\ TagLoop(s, k)' <=> TagLoop(s, k)
          /\ TagMap(s, k)' <=> TagMap(s, k)
        BY <1>2 DEF TagPut, TagLoop, TagMap
    <2>2. /\ TagIn(out, s, k)' <=> TagIn(out, s, k)
          /\ TagIn(wire, s, k)' <=> TagIn(wire, s, k)
          /\ TagIn(jobs, s, k)' <=> TagIn(jobs, s, k)
          /\ TagIn(back, s, k)' <=> TagIn(z, s, k)
        BY <1>7, <1>11 DEF TagIn
    <2>3. m.kind \notin Keyed
        BY <1>3 DEF Keyed
    <2>4. QED
        BY <1>6, <2>1, <2>2, <2>3 DEF Tag
<1>19. IdsUnique' /\ IdsPast'
    BY <1>10, <1>18, Counts, TagsKept
<1>20. CalledOnce' /\ OwnAnswer'
    BY <1>2, <1>10 DEF Inv, CalledOnce, OwnAnswer, histVars, callVars
<1>21. QED
    BY <1>9, <1>10, <1>16, <1>17, <1>19, <1>20, <1>22 DEF Inv

LEMMA Stutters == ASSUME Inv, UNCHANGED vars PROVE Inv'
<1>1. /\ UNCHANGED <<th, out, wire, jobs, back, mutex, sessionid, made>>
      /\ UNCHANGED <<cbmap, loop, nodesid, async, writing, notis, ran, stopped, pending, across>>
    BY DEF vars, sendVars, netVars, histVars, callVars
<1>2. Typed' /\ OwnAnswer'
    BY <1>1 DEF Inv, Typed, OwnAnswer
<1>3. /\ OneWriter' /\ ConnectOnce' /\ IdBound'
      /\ NextId' = NextId /\ Settled' = Settled
    BY <1>1, FramesKept
<1>4. \A s, k : Tag(s, k)' <=> Tag(s, k)
    BY <1>1, FramesKept DEF Tag, TagLoop, TagMap
<1>5. IdsUnique' /\ IdsPast'
    BY <1>3, <1>4, Counts, TagsKept
<1>8. ServerSids'
    BY <1>1, SidsKept
<1>6. CalledOnce'
    BY <1>1, <1>3 DEF Inv, CalledOnce
<1>7. QED
    BY <1>2, <1>3, <1>5, <1>6, <1>8 DEF Inv

-----------------------------------------------------------------------------
(* The theorems.                                                           *)

LEMMA InvStep == Inv /\ [Next]_vars => Inv'
<1> SUFFICES ASSUME Inv, [Next]_vars
             PROVE  Inv'
    OBVIOUS
<1>1. CASE UNCHANGED vars
    BY <1>1, Stutters
<1>2. ASSUME NEW t \in Thread, NewCall(t) \/ Put(t)
      PROVE  Inv'
    BY <1>2, PutMapStep, SendStep, IncStep, PushStep, PutStep DEF NewCall, Put
<1>3. CASE StartWrite \/ Write \/ Read \/ ServerRead \/ Dispatch \/ Notify
    BY <1>3, StartWriteStep, WriteStep, ReadStep, ServerReadStep, DispatchStep, NotifyStep
<1>4. CASE Callback
    BY <1>4, FindStep, ReturnStep, EraseStep DEF Callback
<1>5. QED
    BY <1>1, <1>2, <1>3, <1>4 DEF Next

LEMMA Invariant == Spec => []Inv
BY InitInv, InvStep, PTL DEF Spec

LEMMA TypedOK == Typed => TypeOK
<1> SUFFICES ASSUME Typed PROVE TypeOK
    OBVIOUS
<1>1. \A t \in Thread : th[t] # Idle => th[t].sid \in Sid /\ th[t].call \in Call
    BY BusyFields DEF Typed
<1>2. loop.step \in {"idle", "find", "calling", "erase"}
    BY DEF Typed, Idle, Found, Called
<1>3. QED
    BY <1>1, <1>2 DEF Typed, TypeOK, Key, MapKey, AnswerKinds, CallOrNone

\* Every variable keeps its type: ids stay in their range, whatever the calls.
THEOREM TypeCorrect == Spec => []TypeOK
<1>1. Inv => TypeOK
    BY TypedOK DEF Inv
<1>2. QED
    BY <1>1, Invariant, PTL

\* What a request is answered with, other than an error, reaches the callback of
\* that request: the id is advanced under the mutex, a clientconnectres that
\* overtakes a put can only move it past every id given out, or be overwritten,
\* and the server accepts a frame only under the frame's own id.
THEOREM OwnAnswers == Spec => []OwnAnswer
<1>1. Inv => OwnAnswer
    BY DEF Inv
<1>2. QED
    BY <1>1, Invariant, PTL

\* A callback that ended with isStop is not called again.
THEOREM StoppedForGood == Spec => StopIsFinal
<1>1. ASSUME Inv, [Next]_vars, NEW k \in stopped,
             loop'.step = "calling", loop.step = "find"
      PROVE  loop'.call # k
    <2>1. CASE FindCallback
        BY <1>1, <2>1, FindStep
    <2>2. ASSUME NEW t \in Thread, NEW kind, MayCall(t, kind), Made(t)
          PROVE  FALSE
        BY <1>1, <2>2 DEF MayCall, Made
    <2>3. ASSUME NEW t \in Thread, NewCall(t) \/ Put(t)
          PROVE  FALSE
        <3>1. ~NewCall(t)
            BY <2>2 DEF NewCall, PutMap, PutMapSend
        <3>2. ~Put(t)
            BY <1>1 DEF Put, IncSessionID, PushBuffer, PutCallback
        <3>3. QED
            BY <2>3, <3>1, <3>2
    <2>4. ~(StartWrite \/ Write \/ Read \/ ServerRead \/ Dispatch \/ Notify \/ EraseCallback)
        BY <1>1 DEF StartWrite, Write, Read, ServerRead, Dispatch, Notify, EraseCallback, Idle
    <2>5. \A isStop \in BOOLEAN : ~Return(isStop)
        BY <1>1 DEF Return
    <2>6. ~UNCHANGED vars
        BY <1>1 DEF vars
    <2>7. QED
        BY <1>1, <2>1, <2>3, <2>4, <2>5, <2>6 DEF Next, Callback
<1>2. Inv /\ [Next]_vars =>
          \A k \in stopped : loop'.step = "calling" /\ loop.step = "find" => loop'.call # k
    BY <1>1
<1>3. QED
    BY <1>2, Invariant, PTL DEF Spec, StopIsFinal
=============================================================================
