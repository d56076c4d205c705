----------------------------- MODULE KvDb_proofs ----------------------------
(***************************************************************************)
(* Proofs about the client database, for every choice of calls and every   *)
(* bound on calls, notifications, answers and restarts.                    *)
(*                                                                         *)
(* The invariant has three layers: what always holds (types, counts, and   *)
(* which kind of call a frame, a callback or a message is of), what holds  *)
(* between restarts while no two threads were in client_send at once, and  *)
(* what holds further while no temporary key of an earlier process can be  *)
(* met again.                                                              *)
(***************************************************************************)
EXTENDS KvDb, SequenceTheorems, TLAPS

-----------------------------------------------------------------------------
(* Always: types, counts and kinds.                                        *)

Bound == MaxCalls + MaxNoti
SendKinds == {"request", "message", "query", "leave", "relay"}
Sending == {"store", "push"}
Key == Sid \cup Reserved
CallOrNone == Call \cup {NoCall}

Progress == [step : {"store", "push", "put", "cache"}, kind : SendKinds, sid : Sid,
             call : Call, id : Id \cup {0}]
Request == [kind : SendKinds, sid : Sid, of : Call, id : Id \cup {0}]
Reply == [kind : {"res", "error", "leaveres", "msgres", "msg"}, sid : Sid, of : Call,
          id : Id \cup {0}]
Noti == [kind : {"noti"}, sid : {NoSid}, of : {NoCall}, id : Id]

\* The frames in a queue.
Elems(q) == {q[i] : i \in 1..Len(q)}

\* TypeOK with the shape of every record.
Typed ==
    /\ cbmap \in [Key -> CallOrNone] /\ mmap \in [Sid -> CallOrNone]
    /\ temp \in [Sid -> CallOrNone] /\ msgs \in [Id -> CallOrNone \cup {Peer}]
    /\ sessionid \in Sid /\ srv \in Sid /\ erasing \in Sid \cup {NoSid}
    /\ th \in [Thread -> {Idle} \cup Progress]
    /\ alive \in BOOLEAN /\ overlap \in BOOLEAN /\ stale \in BOOLEAN
    /\ out \in Seq(Request) /\ back \in Seq(Reply \cup Noti)
    /\ stored \in Seq(Call \cup {Peer}) /\ Len(stored) <= Bound
    /\ made \in Seq(AllKinds \cup {"relay"}) /\ Len(made) <= Bound
    /\ gone \in Nat /\ gone <= Len(made) /\ restarts \in 0..MaxRestarts
    /\ ran \subseteq [call : Call, of : Call] /\ missed \subseteq Call

\* A thread in client_send has an id the server has not seen.
P(t) == IF th[t].step \in Sending THEN 1 ELSE 0
NextId == srv + Len(out) + P("main") + P("loop")

\* No id is ahead of the calls made.
Counts ==
    /\ sessionid <= FirstSid + Len(made)
    /\ \A t \in Thread : Busy(t) => th[t].sid < FirstSid + Len(made)
    /\ NextId <= FirstSid + Len(made)

\* Call k was made and is of one of these kinds.
Kind(k, ks) == k \in 1..Len(made) /\ made[k] \in ks

ThreadOk(t) ==
    Busy(t) =>
      /\ Kind(th[t].call, {th[t].kind})
      /\ t = "loop" <=> th[t].kind = "relay"
      /\ th[t].step = "cache" => th[t].kind = "message"
      /\ th[t].step = "put" => th[t].kind # "leave"
      /\ th[t].kind = "relay" => th[t].id \in 1..Len(stored)

RequestOk(f) ==
    /\ Kind(f.of, {f.kind})
    /\ f.kind = "relay" => f.id \in 1..Len(stored)

ReplyOk(f) ==
    /\ f.kind = "res" => Kind(f.of, {"request"})
    /\ f.kind = "error" => Kind(f.of, SendKinds)
    /\ f.kind = "leaveres" => Kind(f.of, {"leave"})
    /\ f.kind = "msgres" =>
          Kind(f.of, {"message"}) /\ f.id \in 1..Len(stored) /\ stored[f.id] = f.of
    /\ f.kind = "msg" => Kind(f.of, {"query", "relay"}) /\ f.id \in 1..Len(stored)
    /\ f.kind = "noti" => f.id \in 1..Len(stored)

MapsOk ==
    /\ \A s \in Sid : cbmap[s] # NoCall => Kind(cbmap[s], {"request", "message"})
    /\ \A s \in Sid : mmap[s] # NoCall => Kind(mmap[s], {"query", "relay"})
    /\ cbmap[-2] # NoCall => Kind(cbmap[-2], {"leave"})
    /\ cbmap[-3] # NoCall => Kind(cbmap[-3], {"onunread"})

TempOk == \A s \in Sid : temp[s] # NoCall => Kind(temp[s], {"message"})
MsgsOk == \A i \in Id : msgs[i] \in {NoCall, Peer} \/ Kind(msgs[i], {"message"})
StoredOk == \A i \in 1..Len(stored) : stored[i] = Peer \/ Kind(stored[i], {"message"})

LeaveOnce == \A i, j \in 1..Len(made) : made[i] = "leave" /\ made[j] = "leave" => i = j

KindsOf ==
    /\ \A t \in Thread : ThreadOk(t)
    /\ \A f \in Elems(out) : RequestOk(f)
    /\ \A f \in Elems(back) : ReplyOk(f)
    /\ MapsOk /\ TempOk /\ MsgsOk /\ StoredOk /\ LeaveOnce

Base == Typed /\ Counts /\ KindsOf

-----------------------------------------------------------------------------
(* Sequences.                                                              *)

LEMMA ElemsIn ==
    ASSUME NEW S, NEW q \in Seq(S)
    PROVE  Len(q) \in Nat /\ Elems(q) \subseteq S
BY LenProperties, ElementOfSeq DEF Elems

LEMMA TakeFirst ==
    ASSUME NEW S, NEW q \in Seq(S), q # <<>>
    PROVE  /\ Len(q) \in Nat /\ Len(q) > 0 /\ Head(q) = q[1] /\ Head(q) \in S
           /\ Tail(q) \in Seq(S) /\ Len(Tail(q)) = Len(q) - 1
           /\ \A i \in 1..(Len(q) - 1) : Tail(q)[i] = q[i + 1]
           /\ Head(q) \in Elems(q) /\ Elems(Tail(q)) \subseteq Elems(q)
<1>1. PICK n : n = Len(q)
    OBVIOUS
<1>2. PICK r : r = Tail(q)
    OBVIOUS
<1>3. /\ n \in Nat /\ n > 0 /\ Head(q) = q[1] /\ Head(q) \in S
      /\ r \in Seq(S) /\ Len(r) = n - 1
      /\ \A i \in 1..(n - 1) : r[i] = q[i + 1]
    BY <1>1, <1>2, HeadTailProperties, EmptySeq, LenProperties
<1>4. 1 \in 1..n /\ \A i \in 1..(n - 1) : i + 1 \in 1..n
    BY <1>3
<1>5. Head(q) \in Elems(q) /\ Elems(r) \subseteq Elems(q)
    BY <1>1, <1>3, <1>4 DEF Elems
<1>6. QED
    BY <1>1, <1>2, <1>3, <1>5

LEMMA PutLast ==
    ASSUME NEW S, NEW q \in Seq(S), NEW m \in S
    PROVE  /\ Len(q) \in Nat /\ Append(q, m) \in Seq(S) /\ Len(Append(q, m)) = Len(q) + 1
           /\ \A i \in 1..Len(q) : Append(q, m)[i] = q[i]
           /\ Append(q, m)[Len(q) + 1] = m
           /\ Elems(Append(q, m)) = Elems(q) \cup {m}
<1>1. PICK n : n = Len(q)
    OBVIOUS
<1>2. PICK r : r = Append(q, m)
    OBVIOUS
<1>3. /\ n \in Nat /\ r \in Seq(S) /\ Len(r) = n + 1
      /\ (\A i \in 1..n : r[i] = q[i]) /\ r[n + 1] = m
    BY <1>1, <1>2
<1>4. 1..(n + 1) = (1..n) \cup {n + 1}
    BY <1>3
<1>5. Elems(r) = Elems(q) \cup {m}
    BY <1>1, <1>3, <1>4 DEF Elems
<1>6. QED
    BY <1>1, <1>2, <1>3, <1>5

LEMMA PutAll ==
    ASSUME NEW S, NEW q \in Seq(S), NEW a \in Seq(S)
    PROVE  /\ q \o a \in Seq(S)
           /\ Len(q) \in Nat /\ Len(a) \in Nat /\ Len(q \o a) = Len(q) + Len(a)
           /\ \A i \in 1..Len(q) : (q \o a)[i] = q[i]
           /\ \A i \in 1..Len(a) : (q \o a)[Len(q) + i] = a[i]
           /\ \A i \in 1..(Len(q) + Len(a)) : i \notin 1..Len(q) => i - Len(q) \in 1..Len(a)
           /\ Elems(q \o a) = Elems(q) \cup Elems(a)
<1>1. PICK n : n = Len(q)
    OBVIOUS
<1>2. PICK l : l = Len(a)
    OBVIOUS
<1>3. PICK r : r = q \o a
    OBVIOUS
<1>4. n \in Nat /\ l \in Nat
    BY <1>1, <1>2, LenProperties
<1>5. /\ r \in Seq(S) /\ Len(r) = n + l
      /\ \A i \in 1..(n + l) : r[i] = IF i <= n THEN q[i] ELSE a[i - n]
    BY <1>1, <1>2, <1>3, ConcatProperties
<1>6. \A i \in 1..n : i \in 1..(n + l) /\ r[i] = q[i]
    BY <1>4, <1>5
<1>7. ASSUME NEW i \in 1..l PROVE n + i \in 1..(n + l) /\ r[n + i] = a[i]
    <2>1. n + i \in 1..(n + l) /\ ~(n + i <= n) /\ (n + i) - n = i
        BY <1>4
    <2>2. QED
        BY <1>5, <2>1
<1>8. \A i \in 1..(n + l) : i \notin 1..n => i - n \in 1..l /\ r[i] = a[i - n]
    BY <1>4, <1>5
<1>9. Elems(r) = Elems(q) \cup Elems(a)
    <2>1. ASSUME NEW i \in 1..(n + l) PROVE r[i] \in Elems(q) \cup Elems(a)
        BY <1>1, <1>2, <1>6, <1>8 DEF Elems
    <2>2. ASSUME NEW i \in 1..n PROVE q[i] \in Elems(r)
        BY <1>5, <1>6 DEF Elems
    <2>3. ASSUME NEW i \in 1..l PROVE a[i] \in Elems(r)
        BY <1>5, <1>7 DEF Elems
    <2>4. /\ Elems(r) = {r[i] : i \in 1..(n + l)} /\ Elems(q) = {q[i] : i \in 1..n}
          /\ Elems(a) = {a[i] : i \in 1..l}
        BY <1>1, <1>2, <1>5 DEF Elems
    <2>5. QED
        BY <2>1, <2>2, <2>3, <2>4
<1>10. QED
    BY <1>1, <1>2, <1>3, <1>4, <1>5, <1>6, <1>7, <1>8, <1>9

-----------------------------------------------------------------------------
(* Facts the steps use.                                                    *)

LEMMA Numbers ==
    /\ Bound \in Nat /\ Bound > 0 /\ Call = 1..Bound /\ Id = 1..Bound /\ Peer = Bound + 1
    /\ FirstSid = 100 /\ Sid = 100..(100 + Bound) /\ NoSid = 0 /\ NoCall = 0
    /\ CallOrNone = 0..Bound
    /\ -2 \notin Sid /\ -3 \notin Sid /\ 0 \notin Sid
    /\ -2 \in Key /\ -3 \in Key /\ Sid \subseteq Key
    /\ MaxAnswers \in Nat /\ MaxRestarts \in Nat
<1>1. MaxCalls \in Nat /\ MaxCalls > 0 /\ MaxNoti \in Nat
    BY KvDbAssumption
<1>2. /\ Bound \in Nat /\ Bound > 0 /\ Call = 1..Bound /\ Id = 1..Bound /\ Peer = Bound + 1
    BY <1>1 DEF Bound, Call, Id, Peer
<1>3. FirstSid + MaxCalls + MaxNoti = 100 + Bound
    BY <1>1 DEF FirstSid, Bound
<1>4. FirstSid = 100 /\ Sid = 100..(100 + Bound)
    BY <1>3 DEF Sid, FirstSid
<1>5. QED
    BY <1>2, <1>4, KvDbAssumption DEF NoSid, NoCall, CallOrNone, Key, Reserved

LEMMA ProgressFields ==
    ASSUME NEW b \in Progress
    PROVE  /\ b # Idle /\ b.step \in {"store", "push", "put", "cache"}
           /\ b.kind \in SendKinds /\ b.sid \in Sid /\ b.call \in Call /\ b.id \in Id \cup {0}
<1>1. /\ b.step \in {"store", "push", "put", "cache"}
      /\ b.kind \in SendKinds /\ b.sid \in Sid /\ b.call \in Call /\ b.id \in Id \cup {0}
    BY DEF Progress
<1>2. b # Idle
    BY <1>1 DEF Idle
<1>3. QED
    BY <1>1, <1>2

LEMMA RequestFields ==
    ASSUME NEW f \in Request
    PROVE  f.kind \in SendKinds /\ f.sid \in Sid /\ f.of \in Call /\ f.id \in Id \cup {0}
BY DEF Request

LEMMA ReplyFields ==
    ASSUME NEW f \in Reply \cup Noti
    PROVE  /\ f.kind \in {"res", "error", "leaveres", "msgres", "msg", "noti"}
           /\ f.kind # "noti" => f \in Reply /\ f.sid \in Sid /\ f.of \in Call
           /\ f.kind = "noti" => f.id \in Id
<1>1. CASE f \in Reply
    BY <1>1 DEF Reply
<1>2. CASE f \in Noti
    BY <1>2 DEF Noti
<1>3. QED
    BY <1>1, <1>2

LEMMA StepBusy == \A t \in Thread : th[t].step # "idle" => Busy(t)
BY DEF Busy, Idle

LEMMA InCall ==
    ASSUME Base, NEW t \in Thread, Busy(t)
    PROVE  /\ th[t] \in Progress
           /\ th[t].step \in {"store", "push", "put", "cache"}
           /\ th[t].kind \in SendKinds /\ th[t].sid \in Sid /\ th[t].call \in Call
           /\ th[t].id \in Id \cup {0}
           /\ Kind(th[t].call, {th[t].kind})
BY ProgressFields DEF Base, Typed, Busy, KindsOf, ThreadOk

\* Calls and messages are only added.
Grown ==
    /\ Len(made) \in Nat /\ Len(made') \in Nat /\ Len(made) <= Len(made')
    /\ \A k \in 1..Len(made) : made'[k] = made[k]
    /\ Len(stored) \in Nat /\ Len(stored') \in Nat /\ Len(stored) <= Len(stored')
    /\ \A i \in 1..Len(stored) : stored'[i] = stored[i]

LEMMA KindsGrow ==
    ASSUME Grown
    PROVE  /\ \A k, ks : Kind(k, ks) => Kind(k, ks)'
           /\ \A i \in 1..Len(stored) : i \in 1..Len(stored')
           /\ \A f : RequestOk(f) => RequestOk(f)'
           /\ \A f : ReplyOk(f) => ReplyOk(f)'
<1>1. PICK m, n : m = Len(made) /\ n = Len(made')
    OBVIOUS
<1>2. \A k \in 1..m : k \in 1..n
    BY <1>1 DEF Grown
<1>3. \A k, ks : Kind(k, ks) => Kind(k, ks)'
    BY <1>1, <1>2 DEF Kind, Grown
<1>4. PICK c, d : c = Len(stored) /\ d = Len(stored')
    OBVIOUS
<1>5. \A i \in 1..c : i \in 1..d
    BY <1>4 DEF Grown
<1>6. \A f : RequestOk(f) => RequestOk(f)'
    BY <1>3, <1>4, <1>5 DEF RequestOk
<1>7. \A f : ReplyOk(f) => ReplyOk(f)'
    BY <1>3, <1>4, <1>5 DEF ReplyOk, Grown
<1>8. QED
    BY <1>3, <1>4, <1>5, <1>6, <1>7

LEMMA NothingGrown ==
    ASSUME Base, UNCHANGED <<made, stored>>
    PROVE  Grown
BY LenProperties DEF Base, Typed, Grown

\* What one more call does.
LEMMA OneMore ==
    ASSUME Base, NEW kind \in AllKinds \cup {"relay"}, RoomToCall,
           made' = Append(made, kind), UNCHANGED stored
    PROVE  /\ Grown /\ Len(made) \in Nat /\ Len(made') = Len(made) + 1
           /\ made' \in Seq(AllKinds \cup {"relay"}) /\ Len(made') <= Bound
           /\ Len(made) + 1 \in Call /\ made'[Len(made) + 1] = kind
           /\ Len(made) + 1 \in 1..Len(made')
<1>1. made \in Seq(AllKinds \cup {"relay"}) /\ stored \in Seq(Call \cup {Peer})
    BY DEF Base, Typed
<1>2. PICK n, q : n = Len(made) /\ q = made'
    OBVIOUS
<1>3. /\ n \in Nat /\ q \in Seq(AllKinds \cup {"relay"}) /\ Len(q) = n + 1
      /\ (\A i \in 1..n : q[i] = made[i]) /\ q[n + 1] = kind
    BY <1>1, <1>2, PutLast
<1>4. n < Bound
    BY <1>2 DEF RoomToCall, Bound
<1>5. n + 1 <= Bound /\ n + 1 \in Call /\ n + 1 \in 1..(n + 1)
    BY <1>3, <1>4, Numbers
<1>6. Len(stored) \in Nat
    BY <1>1, LenProperties
<1>7. Grown
    BY <1>2, <1>3, <1>6 DEF Grown
<1>8. QED
    BY <1>2, <1>3, <1>5, <1>7

\* Numbers of the counts.
LEMMA CountsNat ==
    ASSUME Base
    PROVE  /\ Len(made) \in Nat /\ Len(out) \in Nat /\ srv \in Nat /\ sessionid \in Nat
           /\ \A t \in Thread : P(t) \in {0, 1}
           /\ P("main") \in Nat /\ P("loop") \in Nat /\ NextId \in Nat
<1>1. Len(made) \in Nat /\ Len(out) \in Nat
    BY LenProperties DEF Base, Typed
<1>2. srv \in Nat /\ sessionid \in Nat
    BY Numbers DEF Base, Typed
<1>3. \A t \in Thread : P(t) \in {0, 1}
    BY DEF P
<1>4. P("main") \in Nat /\ P("loop") \in Nat
    BY <1>3 DEF Thread
<1>5. QED
    BY <1>1, <1>2, <1>3, <1>4 DEF NextId

\* A thread goes on in its call, or ends it.
Moves(t, x) ==
    /\ th' \in [Thread -> {Idle} \cup Progress]
    /\ Busy(t)' /\ th'[t].step = x /\ th'[t].kind = th[t].kind /\ th'[t].sid = th[t].sid
    /\ th'[t].call = th[t].call /\ th'[t].id = th[t].id
    /\ \A u \in Thread : u # t => th'[u] = th[u]

Frees(t) ==
    /\ th' \in [Thread -> {Idle} \cup Progress]
    /\ th'[t] = Idle /\ ~Busy(t)'
    /\ \A u \in Thread : u # t => th'[u] = th[u]

LEMMA MovesOn ==
    ASSUME Base, NEW t \in Thread, Busy(t), NEW x \in {"store", "push", "put", "cache"},
           th' = [th EXCEPT ![t] = [@ EXCEPT !.step = x]]
    PROVE  Moves(t, x)
<1>1. PICK b \in Progress : b = th[t]
    BY InCall
<1>2. PICK d : d = [b EXCEPT !.step = x]
    OBVIOUS
<1>3. /\ d \in Progress /\ d.step = x /\ d.kind = b.kind /\ d.sid = b.sid /\ d.call = b.call
      /\ d.id = b.id
    BY <1>2 DEF Progress
<1>4. d # Idle
    BY <1>3, ProgressFields
<1>5. th \in [Thread -> {Idle} \cup Progress]
    BY DEF Base, Typed
<1>6. /\ th' \in [Thread -> {Idle} \cup Progress] /\ th'[t] = d
      /\ \A u \in Thread : u # t => th'[u] = th[u]
    BY <1>1, <1>2, <1>3, <1>5
<1>7. QED
    BY <1>1, <1>3, <1>4, <1>6 DEF Moves, Busy

LEMMA FreesUp ==
    ASSUME Base, NEW t \in Thread, th' = [th EXCEPT ![t] = Idle]
    PROVE  Frees(t)
BY DEF Base, Typed, Frees, Busy

\* What a thread that enters client_send does to the counts.
Begins(t, kind, id) ==
    /\ th' \in [Thread -> {Idle} \cup Progress]
    /\ Busy(t)' /\ th'[t].step = "store" /\ th'[t].kind = kind /\ th'[t].sid = sessionid
    /\ th'[t].call = Len(made) + 1 /\ th'[t].id = id
    /\ \A u \in Thread : u # t => th'[u] = th[u]

LEMMA Enters ==
    ASSUME Base, NEW t \in Thread, NEW kind \in SendKinds, NEW id \in Id \cup {0},
           Len(made) + 1 \in Call, Send(t, kind, id)
    PROVE  Begins(t, kind, id)
<1>1. PICK d : d = [step |-> "store", kind |-> kind, sid |-> sessionid,
                    call |-> Len(made) + 1, id |-> id]
    OBVIOUS
<1>2. sessionid \in Sid /\ th \in [Thread -> {Idle} \cup Progress]
    BY DEF Base, Typed
<1>3. /\ d \in Progress /\ d.step = "store" /\ d.kind = kind /\ d.sid = sessionid
      /\ d.call = Len(made) + 1 /\ d.id = id
    BY <1>1, <1>2 DEF Progress
<1>4. th' = [th EXCEPT ![t] = d]
    BY <1>1 DEF Send
<1>5. /\ th' \in [Thread -> {Idle} \cup Progress] /\ th'[t] = d
      /\ \A u \in Thread : u # t => th'[u] = th[u]
    BY <1>2, <1>3, <1>4
<1>6. d # Idle
    BY <1>3, ProgressFields
<1>7. QED
    BY <1>3, <1>5, <1>6 DEF Begins, Busy

\* The next id, with one thread's part and the other's.
LEMMA NextIdOf ==
    ASSUME Base, NEW t \in Thread, \A u \in Thread : u # t => th'[u] = th[u],
           srv' \in Nat, Len(out') \in Nat
    PROVE  \E o \in {0, 1} : /\ NextId = srv + Len(out) + P(t) + o
                             /\ NextId' = srv' + Len(out') + P(t)' + o
                             /\ P(t)' \in {0, 1}
<1>1. CASE t = "main"
    <2>1. P("loop")' = P("loop") /\ P("loop") \in {0, 1} /\ P("main")' \in {0, 1}
        BY <1>1 DEF P, Thread
    <2>2. QED
        BY <1>1, <2>1, CountsNat DEF NextId
<1>2. CASE t = "loop"
    <2>1. P("main")' = P("main") /\ P("main") \in {0, 1} /\ P("loop")' \in {0, 1}
        BY <1>2 DEF P, Thread
    <2>2. QED
        BY <1>2, <2>1, CountsNat, SMTT(30) DEF NextId
<1>3. QED
    BY <1>1, <1>2 DEF Thread

LEMMA NextIdKept ==
    ASSUME UNCHANGED <<th, out, srv>>
    PROVE  NextId' = NextId /\ \A t : P(t)' = P(t)
BY DEF NextId, P

\* The parts of the invariant that a step does not touch.
LEMMA ThreadsKept ==
    ASSUME Base, Grown, UNCHANGED th
    PROVE  \A t \in Thread : ThreadOk(t)'
<1> SUFFICES ASSUME NEW t \in Thread, Busy(t) PROVE ThreadOk(t)'
    BY DEF ThreadOk, Busy
<1>1. ThreadOk(t)
    BY DEF Base, KindsOf
<1>2. Kind(th[t].call, {th[t].kind})'
    BY <1>1, KindsGrow DEF ThreadOk
<1>3. QED
    BY <1>1, <1>2, KindsGrow DEF ThreadOk, Busy

LEMMA OneThreadOk ==
    ASSUME Base, Grown, NEW t \in Thread, \A u \in Thread : u # t => th'[u] = th[u],
           ThreadOk(t)'
    PROVE  \A u \in Thread : ThreadOk(u)'
<1> SUFFICES ASSUME NEW u \in Thread, u # t PROVE ThreadOk(u)'
    OBVIOUS
<1>1. ThreadOk(u) /\ th'[u] = th[u]
    BY DEF Base, KindsOf
<1>2. CASE Busy(u)
    <2>1. Kind(th[u].call, {th[u].kind})'
        BY <1>1, <1>2, KindsGrow DEF ThreadOk
    <2>2. QED
        BY <1>1, <1>2, <2>1, KindsGrow DEF ThreadOk, Busy
<1>3. CASE ~Busy(u)
    BY <1>1, <1>3 DEF ThreadOk, Busy
<1>4. QED
    BY <1>2, <1>3

LEMMA MovedThreadOk ==
    ASSUME Base, Grown, NEW t \in Thread, Busy(t), NEW x, Moves(t, x),
           x = "cache" => th[t].kind = "message", x = "put" => th[t].kind # "leave"
    PROVE  \A u \in Thread : ThreadOk(u)'
<1>1. ThreadOk(t)
    BY DEF Base, KindsOf
<1>2. Kind(th[t].call, {th[t].kind})'
    BY <1>1, KindsGrow DEF ThreadOk, Moves
<1>3. ThreadOk(t)'
    BY <1>1, <1>2, KindsGrow DEF ThreadOk, Moves
<1>4. QED
    BY <1>3, OneThreadOk DEF Moves

LEMMA FreedThreadOk ==
    ASSUME Base, Grown, NEW t \in Thread, Frees(t)
    PROVE  \A u \in Thread : ThreadOk(u)'
<1>1. ThreadOk(t)'
    BY DEF ThreadOk, Frees
<1>2. QED
    BY <1>1, OneThreadOk DEF Frees

LEMMA OutKept ==
    ASSUME Base, Grown, NEW F, Elems(out') \subseteq Elems(out) \cup F,
           \A f \in F : RequestOk(f)'
    PROVE  (\A f \in Elems(out) : RequestOk(f))'
BY KindsGrow DEF Base, KindsOf

LEMMA BackKept ==
    ASSUME Base, Grown, NEW F, Elems(back') \subseteq Elems(back) \cup F,
           \A f \in F : ReplyOk(f)'
    PROVE  (\A f \in Elems(back) : ReplyOk(f))'
BY KindsGrow DEF Base, KindsOf

LEMMA MapsKept ==
    ASSUME Base, Grown, UNCHANGED maps
    PROVE  MapsOk'
BY KindsGrow DEF Base, KindsOf, MapsOk, maps

LEMMA DbKept ==
    ASSUME Base, Grown, UNCHANGED db
    PROVE  TempOk' /\ MsgsOk'
BY KindsGrow DEF Base, KindsOf, TempOk, MsgsOk, db

LEMMA StoredKept ==
    ASSUME Base, Grown, UNCHANGED stored
    PROVE  StoredOk'
BY KindsGrow DEF Base, KindsOf, StoredOk

LEMMA LeaveKept ==
    ASSUME Base, UNCHANGED made
    PROVE  LeaveOnce'
BY DEF Base, KindsOf, LeaveOnce

LEMMA NoFrames == Elems(<<>>) = {}
BY DEF Elems

-----------------------------------------------------------------------------
(* Each step keeps the base.                                               *)

LEMMA BaseInit == Init => Base
<1> SUFFICES ASSUME Init PROVE Base
    OBVIOUS
<1>1. \A t \in Thread : th[t] = Idle /\ ~Busy(t) /\ th[t].step = "idle"
    BY DEF Init, Busy, Idle
<1>2. P("main") = 0 /\ P("loop") = 0
    BY <1>1 DEF P, Sending, Thread
<1>3. Len(out) = 0 /\ Len(made) = 0 /\ Len(stored) = 0
    BY DEF Init
<1>4. Typed
    <2>1. /\ cbmap \in [Key -> CallOrNone] /\ mmap \in [Sid -> CallOrNone]
          /\ temp \in [Sid -> CallOrNone] /\ msgs \in [Id -> CallOrNone \cup {Peer}]
        BY DEF Init, Key, CallOrNone
    <2>2. sessionid \in Sid /\ srv \in Sid /\ erasing \in Sid \cup {NoSid}
        BY Numbers DEF Init
    <2>3. th \in [Thread -> {Idle} \cup Progress]
        BY DEF Init
    <2>4. alive \in BOOLEAN /\ overlap \in BOOLEAN /\ stale \in BOOLEAN
        BY DEF Init
    <2>5. /\ out \in Seq(Request) /\ back \in Seq(Reply \cup Noti)
          /\ stored \in Seq(Call \cup {Peer}) /\ made \in Seq(AllKinds \cup {"relay"})
        BY EmptySeq DEF Init
    <2>6. /\ Len(stored) <= Bound /\ Len(made) <= Bound
          /\ gone \in Nat /\ gone <= Len(made) /\ restarts \in 0..MaxRestarts
        BY <1>3, Numbers DEF Init
    <2>7. ran \subseteq [call : Call, of : Call] /\ missed \subseteq Call
        BY DEF Init
    <2>8. QED
        BY <2>1, <2>2, <2>3, <2>4, <2>5, <2>6, <2>7 DEF Typed
<1>5. Counts
    BY <1>1, <1>2, <1>3, Numbers DEF Counts, NextId, Init
<1>6. KindsOf
    <2>1. \A t \in Thread : ThreadOk(t)
        BY <1>1 DEF ThreadOk
    <2>2. Elems(out) = {} /\ Elems(back) = {}
        BY NoFrames DEF Init
    <2>3. MapsOk
        BY Numbers DEF Init, MapsOk, Key
    <2>4. TempOk /\ MsgsOk
        BY DEF Init, TempOk, MsgsOk
    <2>5. StoredOk /\ LeaveOnce
        BY <1>3 DEF StoredOk, LeaveOnce
    <2>6. QED
        BY <2>1, <2>2, <2>3, <2>4, <2>5 DEF KindsOf
<1>7. QED
    BY <1>4, <1>5, <1>6 DEF Base

LEMMA MoreCalls ==
    ASSUME Base, NEW kind \in AllKinds \cup {"relay"}, RoomToCall,
           made' = Append(made, kind), UNCHANGED stored,
           kind = "leave" => "leave" \notin ToSet(made)
    PROVE  LeaveOnce'
<1>1. PICK n : n = Len(made)
    OBVIOUS
<1>2. /\ n \in Nat /\ Len(made') = n + 1 /\ made'[n + 1] = kind
      /\ \A i \in 1..n : made'[i] = made[i]
    BY <1>1, OneMore DEF Grown
<1>3. \A i \in 1..(n + 1) : i \in 1..n \/ i = n + 1
    BY <1>2
<1>4. \A i \in 1..n : kind = "leave" => made[i] # "leave"
    BY <1>1 DEF ToSet
<1>5. LeaveOnce
    BY DEF Base, KindsOf
<1>6. QED
    BY <1>1, <1>2, <1>3, <1>4, <1>5 DEF LeaveOnce

LEMMA BaseOnUnread == ASSUME Base, OnUnread PROVE Base'
<1>1. /\ RoomToCall /\ made' = Append(made, "onunread")
      /\ cbmap' = [cbmap EXCEPT ![-3] = Len(made')]
      /\ UNCHANGED <<mmap, db, sessionid, th, erasing, alive, out, back, server,
                     gone, restarts, hist, overlap>>
    BY DEF OnUnread, MayCall, KeyOf
<1>2. UNCHANGED <<stored, srv>>
    BY <1>1 DEF server
<1>3. /\ Grown /\ Len(made) \in Nat /\ Len(made') = Len(made) + 1
      /\ made' \in Seq(AllKinds \cup {"relay"}) /\ Len(made') <= Bound
      /\ Len(made) + 1 \in Call /\ made'[Len(made) + 1] = "onunread"
      /\ Len(made) + 1 \in 1..Len(made')
    BY <1>1, <1>2, OneMore DEF AllKinds
<1>0. PICK n \in Nat : n = Len(made)
    BY <1>3
<1>4. Typed'
    <2>1. Typed
        BY DEF Base
    <2>2. cbmap' \in [Key -> CallOrNone]
        BY <1>1, <1>3, <2>1 DEF Typed, CallOrNone
    <2>3. gone' \in Nat /\ gone' <= Len(made')
        BY <1>1, <1>3, <2>1 DEF Typed
    <2>4. QED
        BY <1>1, <1>2, <1>3, <2>1, <2>2, <2>3 DEF Typed, db, hist
<1>5. Counts'
    <2>1. NextId' = NextId
        BY <1>1, <1>2, NextIdKept
    <2>2. \A t \in Thread : Busy(t) => th[t].sid \in Sid
        BY InCall
    <2>3. QED
        BY <1>1, <1>3, <2>1, <2>2, CountsNat, Numbers DEF Base, Counts, Busy
<1>6. KindsOf'
    <2>1. \A t \in Thread : ThreadOk(t)'
        BY <1>1, <1>3, ThreadsKept
    <2>2. \A f \in Elems(out) : RequestOk(f)'
        BY <1>3, KindsGrow DEF Base, KindsOf
    <2>3. \A f \in Elems(back) : ReplyOk(f)'
        BY <1>3, KindsGrow DEF Base, KindsOf
    <2>4. MapsOk'
        <3>1. /\ \A s \in Sid : cbmap'[s] = cbmap[s]
              /\ cbmap'[-2] = cbmap[-2] /\ cbmap'[-3] = n + 1
            BY <1>0, <1>1, <1>3, Numbers DEF Base, Typed
        <3>2. Kind(n + 1, {"onunread"})'
            BY <1>0, <1>3 DEF Kind
        <3>3. MapsOk
            BY DEF Base, KindsOf
        <3>4. QED
            BY <1>1, <1>3, <3>1, <3>2, <3>3, KindsGrow DEF MapsOk
    <2>5. TempOk' /\ MsgsOk' /\ StoredOk'
        BY <1>1, <1>2, <1>3, DbKept, StoredKept
    <2>6. LeaveOnce'
        BY <1>1, <1>2, MoreCalls DEF AllKinds
    <2>7. QED
        BY <1>1, <2>1, <2>2, <2>3, <2>4, <2>5, <2>6 DEF KindsOf
<1>7. QED
    BY <1>4, <1>5, <1>6 DEF Base

LEMMA SendsOk ==
    ASSUME Base, NEW t \in Thread, NEW kind \in SendKinds, NEW id \in Id \cup {0},
           ~Busy(t), RoomToCall, Send(t, kind, id), UNCHANGED <<stored, sessionid, out, srv>>,
           t = "loop" <=> kind = "relay", kind = "relay" => id \in 1..Len(stored),
           kind = "leave" => "leave" \notin ToSet(made)
    PROVE  /\ Grown /\ Len(made) \in Nat /\ Len(made') = Len(made) + 1
           /\ made' \in Seq(AllKinds \cup {"relay"}) /\ Len(made') <= Bound
           /\ Len(made) + 1 \in Call /\ made'[Len(made) + 1] = kind
           /\ Len(made) + 1 \in 1..Len(made')
           /\ Begins(t, kind, id) /\ overlap' \in BOOLEAN
           /\ Counts' /\ (\A u \in Thread : ThreadOk(u)') /\ LeaveOnce'
           /\ NextId' = NextId + 1
<1>1. made' = Append(made, kind) /\ kind \in AllKinds \cup {"relay"}
    BY DEF Send, SendKinds, AllKinds
<1>2. /\ Grown /\ Len(made) \in Nat /\ Len(made') = Len(made) + 1
      /\ made' \in Seq(AllKinds \cup {"relay"}) /\ Len(made') <= Bound
      /\ Len(made) + 1 \in Call /\ made'[Len(made) + 1] = kind
      /\ Len(made) + 1 \in 1..Len(made')
    BY <1>1, OneMore
<1>3. Begins(t, kind, id)
    BY <1>2, Enters
<1>4. overlap' \in BOOLEAN
    BY DEF Send, Base, Typed
<1>5. Counts' /\ NextId' = NextId + 1
    <2>1. PICK n \in Nat : n = Len(made)
        BY <1>2
    <2>2. /\ sessionid \in Nat /\ sessionid <= 100 + n /\ NextId <= 100 + n /\ NextId \in Nat
          /\ srv \in Nat /\ Len(out) \in Nat
        BY <2>1, CountsNat, Numbers DEF Base, Counts
    <2>3. sessionid' <= FirstSid + Len(made')
        BY <1>2, <2>1, <2>2, Numbers
    <2>4. ASSUME NEW u \in Thread, Busy(u)' PROVE th'[u].sid < FirstSid + Len(made')
        <3>1. CASE u = t
            BY <1>2, <1>3, <2>1, <2>2, <3>1, Numbers DEF Begins
        <3>2. CASE u # t
            <4>1. Busy(u) /\ th'[u] = th[u]
                BY <1>3, <2>4, <3>2 DEF Begins, Busy
            <4>2. th[u].sid < FirstSid + n /\ th[u].sid \in Nat
                <5>0. th[u].sid \in Sid
                    BY <4>1, InCall
                <5>1. th[u].sid \in Nat
                    BY <5>0, Numbers
                <5>2. QED
                    BY <2>1, <4>1, <5>1 DEF Base, Counts
            <4>3. QED
                BY <1>2, <2>1, <4>1, <4>2, Numbers
        <3>3. QED
            BY <3>1, <3>2
    <2>5. NextId' = NextId + 1
        <3>1. P(t) = 0 /\ P(t)' = 1
            BY <1>3 DEF P, Sending, Begins, Busy, Idle
        <3>2. QED
            BY <1>3, <2>2, <3>1, NextIdOf DEF Begins
    <2>6. NextId' <= FirstSid + Len(made')
        BY <1>2, <2>1, <2>2, <2>5, Numbers
    <2>7. QED
        BY <2>3, <2>4, <2>5, <2>6 DEF Counts
<1>6. \A u \in Thread : ThreadOk(u)'
    <2>1. PICK n : n = Len(made) + 1
        OBVIOUS
    <2>2. ThreadOk(t)'
        <3>1. Kind(n, {kind})'
            BY <1>2, <2>1 DEF Kind
        <3>2. QED
            BY <1>3, <2>1, <3>1 DEF ThreadOk, Begins
    <2>3. QED
        BY <1>2, <1>3, <2>2, OneThreadOk DEF Begins
<1>7. LeaveOnce'
    BY <1>1, MoreCalls
<1>8. QED
    BY <1>2, <1>3, <1>4, <1>5, <1>6, <1>7

LEMMA BaseStarts ==
    ASSUME Base, NEW kind \in Kinds, Start(kind), kind # "onunread",
           \/ UNCHANGED cbmap
           \/ kind = "leave" /\ cbmap' = [cbmap EXCEPT ![-2] = Len(made')]
    PROVE  Base'
<1>1. /\ RoomToCall /\ ~Busy("main") /\ "leave" \notin ToSet(made) /\ Send("main", kind, 0)
      /\ UNCHANGED <<mmap, db, sessionid, erasing, alive, out, back, server,
                     gone, restarts, hist>>
    BY DEF Start, MayCall
<1>2. UNCHANGED <<stored, srv>>
    BY <1>1 DEF server
<1>3. kind \in SendKinds /\ kind # "relay" /\ "main" \in Thread
    BY KvDbAssumption DEF SendKinds, AllKinds, Thread
<1>4. /\ Grown /\ Len(made) \in Nat /\ Len(made') = Len(made) + 1
      /\ made' \in Seq(AllKinds \cup {"relay"}) /\ Len(made') <= Bound
      /\ Len(made) + 1 \in Call /\ made'[Len(made) + 1] = kind
      /\ Len(made) + 1 \in 1..Len(made')
      /\ Begins("main", kind, 0) /\ overlap' \in BOOLEAN
      /\ Counts' /\ (\A u \in Thread : ThreadOk(u)') /\ LeaveOnce'
    BY <1>1, <1>2, <1>3, SendsOk
<1>5. PICK n \in Nat : n = Len(made)
    BY <1>4
<1>6. Typed
    BY DEF Base
<1>7. /\ cbmap' \in [Key -> CallOrNone]
      /\ \A s \in Sid : cbmap'[s] = cbmap[s]
      /\ cbmap'[-3] = cbmap[-3] /\ (cbmap'[-2] = cbmap[-2] \/ (kind = "leave" /\ cbmap'[-2] = n + 1))
    <2>1. n + 1 \in CallOrNone /\ cbmap \in [Key -> CallOrNone] /\ Len(made') = n + 1
        BY <1>4, <1>5, <1>6 DEF Typed, CallOrNone
    <2>2. CASE UNCHANGED cbmap
        BY <2>1, <2>2
    <2>3. CASE kind = "leave" /\ cbmap' = [cbmap EXCEPT ![-2] = n + 1]
        BY <2>1, <2>3, Numbers
    <2>4. QED
        BY <2>1, <2>2, <2>3
<1>8. Typed'
    <2>1. gone' \in Nat /\ gone' <= Len(made')
        BY <1>1, <1>4, <1>6 DEF Typed
    <2>2. QED
        BY <1>1, <1>2, <1>4, <1>6, <1>7, <2>1 DEF Typed, db, hist, Begins
<1>9. KindsOf'
    <2>1. \A f \in Elems(out) : RequestOk(f)'
        BY <1>4, KindsGrow DEF Base, KindsOf
    <2>2. \A f \in Elems(back) : ReplyOk(f)'
        BY <1>4, KindsGrow DEF Base, KindsOf
    <2>3. MapsOk'
        <3>1. kind = "leave" => Kind(n + 1, {"leave"})'
            BY <1>4, <1>5 DEF Kind
        <3>2. MapsOk
            BY DEF Base, KindsOf
        <3>3. QED
            BY <1>1, <1>4, <1>7, <3>1, <3>2, KindsGrow DEF MapsOk
    <2>4. TempOk' /\ MsgsOk' /\ StoredOk'
        BY <1>1, <1>2, <1>4, DbKept, StoredKept
    <2>5. QED
        BY <1>1, <1>4, <2>1, <2>2, <2>3, <2>4 DEF KindsOf
<1>10. QED
    BY <1>4, <1>8, <1>9 DEF Base

LEMMA BaseStartCall ==
    ASSUME Base, NEW kind \in AllKinds, StartCall(kind) PROVE Base'
BY BaseStarts DEF StartCall, Start

LEMMA BaseStartLeave == ASSUME Base, StartLeave PROVE Base'
BY BaseStarts DEF StartLeave, Start, KeyOf

LEMMA BaseStoreSessionID ==
    ASSUME Base, NEW t \in Thread, StoreSessionID(t) PROVE Base'
<1>1. /\ th[t].step = "store" /\ sessionid' = th[t].sid + 1
      /\ th' = [th EXCEPT ![t] = [@ EXCEPT !.step = "push"]]
      /\ UNCHANGED <<maps, db, erasing, alive, out, back, server, past, hist, overlap>>
    BY DEF StoreSessionID, NextSid
<1>2. UNCHANGED <<made, stored, srv>>
    BY <1>1 DEF past, server
<1>3. Busy(t) /\ Grown
    BY <1>1, <1>2, StepBusy, NothingGrown
<1>4. Moves(t, "push")
    BY <1>1, <1>3, MovesOn
<1>5. PICK n \in Nat : n = Len(made)
    BY CountsNat
<1>6. PICK s \in Nat : s = th[t].sid /\ s \in Sid /\ s < 100 + n
    <2>1. th[t].sid \in Sid
        BY <1>3, InCall
    <2>2. QED
        BY <1>3, <1>5, <2>1, Numbers DEF Base, Counts
<1>7. Typed
    BY DEF Base
<1>8. sessionid' \in Sid /\ sessionid' <= 100 + n
    <2>1. n <= Bound
        BY <1>5, <1>7 DEF Typed
    <2>2. sessionid' = s + 1
        BY <1>1, <1>6
    <2>3. QED
        BY <1>5, <1>6, <2>1, <2>2, Numbers, SMTT(30)
<1>9. Typed'
    BY <1>1, <1>2, <1>4, <1>7, <1>8 DEF Typed, maps, db, past, hist, Moves
<1>10. Counts'
    <2>1. P(t) = 1 /\ P(t)' = 1
        BY <1>1, <1>4 DEF P, Sending, Moves
    <2>2. NextId' = NextId
        BY <1>1, <1>2, <1>4, <2>1, NextIdOf, CountsNat DEF Moves
    <2>3. \A u \in Thread : Busy(u)' => Busy(u) /\ th'[u].sid = th[u].sid
        BY <1>3, <1>4 DEF Moves, Busy
    <2>4. QED
        BY <1>2, <1>5, <1>8, <2>2, <2>3, Numbers DEF Base, Counts
<1>11. KindsOf'
    <2>1. \A u \in Thread : ThreadOk(u)'
        BY <1>3, <1>4, MovedThreadOk
    <2>2. (\A f \in Elems(out) : RequestOk(f)') /\ (\A f \in Elems(back) : ReplyOk(f)')
        BY <1>3, KindsGrow DEF Base, KindsOf
    <2>3. MapsOk' /\ TempOk' /\ MsgsOk' /\ StoredOk' /\ LeaveOnce'
        BY <1>1, <1>2, <1>3, MapsKept, DbKept, StoredKept, LeaveKept
    <2>4. QED
        BY <1>1, <2>1, <2>2, <2>3 DEF KindsOf
<1>12. QED
    BY <1>9, <1>10, <1>11 DEF Base

LEMMA BasePushBuffer ==
    ASSUME Base, NEW t \in Thread, PushBuffer(t) PROVE Base'
<1>1. PICK f : f = [kind |-> th[t].kind, sid |-> th[t].sid, of |-> th[t].call, id |-> th[t].id]
    OBVIOUS
<1>2. /\ th[t].step = "push" /\ out' = Append(out, f)
      /\ UNCHANGED <<maps, db, sessionid, erasing, alive, back, server, past, hist, overlap>>
    BY <1>1 DEF PushBuffer
<1>3. UNCHANGED <<made, stored, srv>>
    BY <1>2 DEF past, server
<1>4. Busy(t) /\ Grown
    BY <1>2, <1>3, StepBusy, NothingGrown
<1>5. \/ th[t].kind = "leave" /\ Frees(t)
      \/ th[t].kind # "leave" /\ Moves(t, "put")
    <2>1. CASE th[t].kind = "leave"
        <3>1. th' = [th EXCEPT ![t] = Idle]
            BY <2>1 DEF PushBuffer
        <3>2. QED
            BY <2>1, <3>1, FreesUp
    <2>2. CASE th[t].kind # "leave"
        <3>1. th' = [th EXCEPT ![t] = [@ EXCEPT !.step = "put"]]
            BY <2>2 DEF PushBuffer
        <3>2. QED
            BY <1>4, <2>2, <3>1, MovesOn
    <2>3. QED
        BY <2>1, <2>2
<1>6. Typed
    BY DEF Base
<1>7. /\ th[t].kind \in SendKinds /\ th[t].sid \in Sid /\ th[t].call \in Call
      /\ th[t].id \in Id \cup {0} /\ ThreadOk(t)
    BY <1>4, InCall DEF Base, KindsOf
<1>8. f \in Request /\ RequestOk(f)
    BY <1>1, <1>4, <1>7 DEF Request, RequestOk, ThreadOk
<1>9. /\ Len(out) \in Nat /\ out' \in Seq(Request) /\ Len(out') = Len(out) + 1
      /\ Elems(out') = Elems(out) \cup {f}
    BY <1>2, <1>6, <1>8, PutLast DEF Typed
<1>10. /\ th' \in [Thread -> {Idle} \cup Progress] /\ P(t) = 1 /\ P(t)' = 0
       /\ \A u \in Thread : Busy(u)' => Busy(u) /\ th'[u].sid = th[u].sid
       /\ \A u \in Thread : u # t => th'[u] = th[u]
    BY <1>2, <1>4, <1>5 DEF P, Sending, Moves, Frees, Busy, Idle
<1>11. Typed'
    BY <1>2, <1>3, <1>6, <1>9, <1>10 DEF Typed, maps, db, past, hist
<1>12. Counts'
    <2>1. NextId' = NextId
        <3>1. srv \in Nat /\ srv' \in Nat /\ Len(out') \in Nat
            BY <1>3, <1>9, CountsNat
        <3>2. PICK o \in {0, 1} : /\ NextId = srv + Len(out) + P(t) + o
                                 /\ NextId' = srv' + Len(out') + P(t)' + o
            BY <1>10, <3>1, NextIdOf
        <3>3. QED
            BY <1>3, <1>9, <1>10, <3>1, <3>2
    <2>2. QED
        BY <1>2, <1>3, <1>10, <2>1 DEF Base, Counts
<1>13. KindsOf'
    <2>1. \A u \in Thread : ThreadOk(u)'
        BY <1>4, <1>5, MovedThreadOk, FreedThreadOk
    <2>2. \A g \in Elems(out') : RequestOk(g)'
        BY <1>4, <1>8, <1>9, KindsGrow DEF Base, KindsOf
    <2>3. \A g \in Elems(back) : ReplyOk(g)'
        BY <1>4, KindsGrow DEF Base, KindsOf
    <2>4. MapsOk' /\ TempOk' /\ MsgsOk' /\ StoredOk' /\ LeaveOnce'
        BY <1>2, <1>3, <1>4, MapsKept, DbKept, StoredKept, LeaveKept
    <2>5. QED
        BY <1>2, <2>1, <2>2, <2>3, <2>4 DEF KindsOf
<1>14. QED
    BY <1>11, <1>12, <1>13 DEF Base

\* The thread ends its call or goes on after its frame was sent.
After(t, x) ==
    /\ th[t].step \in {"put", "cache"}
    /\ Frees(t) \/ (x = "cache" /\ th[t].kind = "message" /\ Moves(t, x))

LEMMA AfterOk ==
    ASSUME Base, Grown, NEW t \in Thread, NEW x, After(t, x),
           UNCHANGED <<sessionid, out, srv, made>>
    PROVE  /\ Counts' /\ (\A u \in Thread : ThreadOk(u)')
           /\ th' \in [Thread -> {Idle} \cup Progress]
           /\ NextId' = NextId
<1>1. Busy(t)
    BY StepBusy DEF After
<1>2. /\ th' \in [Thread -> {Idle} \cup Progress] /\ P(t) = 0 /\ P(t)' = 0
      /\ \A u \in Thread : Busy(u)' => Busy(u) /\ th'[u].sid = th[u].sid
      /\ \A u \in Thread : u # t => th'[u] = th[u]
    BY <1>1 DEF P, Sending, After, Moves, Frees, Busy, Idle
<1>3. NextId' = NextId
    <2>1. srv \in Nat /\ srv' \in Nat /\ Len(out') \in Nat
        BY CountsNat
    <2>2. QED
        BY <1>2, <2>1, NextIdOf
<1>4. Counts'
    BY <1>2, <1>3 DEF Base, Counts
<1>5. \A u \in Thread : ThreadOk(u)'
    <2>1. CASE Frees(t)
        BY <2>1, FreedThreadOk
    <2>2. CASE x = "cache" /\ th[t].kind = "message" /\ Moves(t, x)
        BY <1>1, <2>2, MovedThreadOk
    <2>3. QED
        BY <2>1, <2>2 DEF After
<1>6. QED
    BY <1>2, <1>3, <1>4, <1>5

LEMMA PutsCallback ==
    ASSUME Base, NEW t \in Thread, PutCallback(t)
    PROVE  /\ Grown /\ Busy(t) /\ After(t, "cache") /\ th[t].kind \in {"request", "message"}
           /\ th[t].step = "put"
           /\ cbmap' = [cbmap EXCEPT ![th[t].sid] = th[t].call]
           /\ th[t].kind = "message" => Moves(t, "cache")
           /\ th[t].kind # "message" => Frees(t)
<1>1. /\ th[t].step = "put" /\ th[t].kind \notin {"query", "relay"} /\ UNCHANGED <<made, stored>>
    BY DEF PutCallback, past, server
<1>2. Busy(t) /\ Grown
    BY <1>1, StepBusy, NothingGrown
<1>3. th[t].kind \in {"request", "message"}
    BY <1>1, <1>2, InCall DEF Base, KindsOf, ThreadOk, SendKinds
<1>4. CASE th[t].kind = "message"
    <2>1. th' = [th EXCEPT ![t] = [@ EXCEPT !.step = "cache"]]
        BY <1>4 DEF PutCallback
    <2>2. Moves(t, "cache")
        BY <1>2, <2>1, MovesOn
    <2>3. QED
        BY <1>1, <1>2, <1>3, <1>4, <2>2 DEF PutCallback, After
<1>5. CASE th[t].kind # "message"
    <2>1. th' = [th EXCEPT ![t] = Idle]
        BY <1>5 DEF PutCallback
    <2>2. Frees(t)
        BY <2>1, FreesUp
    <2>3. QED
        BY <1>1, <1>2, <1>3, <1>5, <2>2 DEF PutCallback, After
<1>6. QED
    BY <1>4, <1>5

LEMMA BasePutCallback ==
    ASSUME Base, NEW t \in Thread, PutCallback(t) PROVE Base'
<1>1. /\ Grown /\ Busy(t) /\ After(t, "cache") /\ th[t].kind \in {"request", "message"}
      /\ cbmap' = [cbmap EXCEPT ![th[t].sid] = th[t].call]
    BY PutsCallback
<1>2. UNCHANGED <<mmap, db, sessionid, erasing, alive, out, back, server, past, hist, overlap>>
    BY DEF PutCallback
<1>3. UNCHANGED <<made, stored, srv>>
    BY <1>2 DEF past, server
<1>4. Typed
    BY DEF Base
<1>5. /\ Counts' /\ (\A u \in Thread : ThreadOk(u)')
      /\ th' \in [Thread -> {Idle} \cup Progress]
    BY <1>1, <1>2, <1>3, AfterOk
<1>6. th[t].sid \in Sid /\ th[t].call \in Call /\ Kind(th[t].call, {th[t].kind})
    BY <1>1, InCall
<1>7. cbmap' \in [Key -> CallOrNone]
    BY <1>1, <1>4, <1>6, Numbers DEF Typed, CallOrNone
<1>8. Typed'
    BY <1>2, <1>3, <1>4, <1>5, <1>7 DEF Typed, db, past, hist
<1>9. KindsOf'
    <2>1. (\A f \in Elems(out) : RequestOk(f)') /\ (\A f \in Elems(back) : ReplyOk(f)')
        BY <1>1, KindsGrow DEF Base, KindsOf
    <2>2. MapsOk'
        <3>1. PICK k : k = th[t].call
            OBVIOUS
        <3>2. Kind(k, {"request", "message"})'
            BY <1>1, <1>3, <1>6, <3>1 DEF Kind
        <3>3. MapsOk /\ cbmap \in [Key -> CallOrNone]
            BY <1>4 DEF Base, KindsOf, Typed
        <3>4. /\ cbmap'[-2] = cbmap[-2] /\ cbmap'[-3] = cbmap[-3]
              /\ \A s \in Sid : cbmap'[s] = cbmap[s] \/ cbmap'[s] = k
            BY <1>1, <1>6, <3>1, <3>3, Numbers
        <3>5. QED
            BY <1>1, <1>2, <3>2, <3>3, <3>4, KindsGrow DEF MapsOk
    <2>3. TempOk' /\ MsgsOk' /\ StoredOk' /\ LeaveOnce'
        BY <1>1, <1>2, <1>3, DbKept, StoredKept, LeaveKept
    <2>4. QED
        BY <1>2, <1>5, <2>1, <2>2, <2>3 DEF KindsOf
<1>10. QED
    BY <1>5, <1>8, <1>9 DEF Base

LEMMA PutsQuery ==
    ASSUME Base, NEW t \in Thread, PutQuery(t)
    PROVE  /\ Grown /\ Busy(t) /\ Frees(t) /\ After(t, "cache")
           /\ th[t].kind \in {"query", "relay"} /\ th[t].step = "put"
           /\ mmap' = [mmap EXCEPT ![th[t].sid] = th[t].call]
<1>1. /\ th[t].step = "put" /\ th[t].kind \in {"query", "relay"} /\ UNCHANGED <<made, stored>>
      /\ th' = [th EXCEPT ![t] = Idle]
    BY DEF PutQuery, past, server
<1>2. Busy(t) /\ Grown
    BY <1>1, StepBusy, NothingGrown
<1>3. Frees(t)
    BY <1>1, FreesUp
<1>4. QED
    BY <1>1, <1>2, <1>3 DEF PutQuery, After

LEMMA BasePutQuery ==
    ASSUME Base, NEW t \in Thread, PutQuery(t) PROVE Base'
<1>1. /\ Grown /\ Busy(t) /\ After(t, "cache") /\ th[t].kind \in {"query", "relay"}
      /\ mmap' = [mmap EXCEPT ![th[t].sid] = th[t].call]
    BY PutsQuery
<1>2. UNCHANGED <<cbmap, db, sessionid, erasing, alive, out, back, server, past, hist, overlap>>
    BY DEF PutQuery
<1>3. UNCHANGED <<made, stored, srv>>
    BY <1>2 DEF past, server
<1>4. Typed
    BY DEF Base
<1>5. /\ Counts' /\ (\A u \in Thread : ThreadOk(u)')
      /\ th' \in [Thread -> {Idle} \cup Progress]
    BY <1>1, <1>2, <1>3, AfterOk
<1>6. th[t].sid \in Sid /\ th[t].call \in Call /\ Kind(th[t].call, {th[t].kind})
    BY <1>1, InCall
<1>7. mmap' \in [Sid -> CallOrNone]
    BY <1>1, <1>4, <1>6 DEF Typed, CallOrNone
<1>8. Typed'
    BY <1>2, <1>3, <1>4, <1>5, <1>7 DEF Typed, db, past, hist
<1>9. KindsOf'
    <2>1. (\A f \in Elems(out) : RequestOk(f)') /\ (\A f \in Elems(back) : ReplyOk(f)')
        BY <1>1, KindsGrow DEF Base, KindsOf
    <2>2. MapsOk'
        <3>1. PICK k : k = th[t].call
            OBVIOUS
        <3>2. Kind(k, {"query", "relay"})'
            BY <1>1, <1>3, <1>6, <3>1 DEF Kind
        <3>3. MapsOk /\ mmap \in [Sid -> CallOrNone]
            BY <1>4 DEF Base, KindsOf, Typed
        <3>4. \A s \in Sid : mmap'[s] = mmap[s] \/ mmap'[s] = k
            BY <1>1, <1>6, <3>1, <3>3
        <3>5. QED
            BY <1>1, <1>2, <3>2, <3>3, <3>4, KindsGrow DEF MapsOk
    <2>3. TempOk' /\ MsgsOk' /\ StoredOk' /\ LeaveOnce'
        BY <1>1, <1>2, <1>3, DbKept, StoredKept, LeaveKept
    <2>4. QED
        BY <1>2, <1>5, <2>1, <2>2, <2>3 DEF KindsOf
<1>10. QED
    BY <1>5, <1>8, <1>9 DEF Base

LEMMA Caches ==
    ASSUME Base, CacheMessage
    PROVE  /\ Grown /\ "main" \in Thread /\ Busy("main") /\ Frees("main")
           /\ After("main", "cache") /\ th["main"].step = "cache"
           /\ th["main"].kind = "message" /\ Kind(th["main"].call, {"message"})
           /\ th["main"].sid \in Sid /\ th["main"].call \in Call
           /\ temp' = [temp EXCEPT ![th["main"].sid] = th["main"].call]
<1>1. /\ th["main"].step = "cache" /\ UNCHANGED <<made, stored>> /\ "main" \in Thread
      /\ th' = [th EXCEPT !["main"] = Idle]
      /\ temp' = [temp EXCEPT ![th["main"].sid] = th["main"].call]
    BY DEF CacheMessage, past, server, Thread, TempKey
<1>2. Busy("main") /\ Grown
    BY <1>1, StepBusy, NothingGrown
<1>3. Frees("main")
    BY <1>1, FreesUp
<1>4. th["main"].kind = "message"
    BY <1>1, <1>2 DEF Base, KindsOf, ThreadOk
<1>5. QED
    BY <1>1, <1>2, <1>3, <1>4, InCall DEF After

LEMMA BaseCacheMessage == ASSUME Base, CacheMessage PROVE Base'
<1>1. PICK t : t = "main"
    OBVIOUS
<1>2. /\ Grown /\ t \in Thread /\ After(t, "cache")
      /\ Kind(th[t].call, {"message"}) /\ th[t].sid \in Sid /\ th[t].call \in Call
      /\ temp' = [temp EXCEPT ![th[t].sid] = th[t].call]
    BY <1>1, Caches
<1>3. UNCHANGED <<maps, msgs, sessionid, erasing, alive, out, back, server, past, hist, overlap>>
    BY DEF CacheMessage
<1>4. UNCHANGED <<made, stored, srv>>
    BY <1>3 DEF past, server
<1>5. Typed
    BY DEF Base
<1>6. /\ Counts' /\ (\A u \in Thread : ThreadOk(u)')
      /\ th' \in [Thread -> {Idle} \cup Progress]
    BY <1>2, <1>3, <1>4, AfterOk
<1>7. temp' \in [Sid -> CallOrNone]
    BY <1>2, <1>5 DEF Typed, CallOrNone
<1>8. Typed'
    BY <1>3, <1>4, <1>5, <1>6, <1>7 DEF Typed, maps, past, hist
<1>9. KindsOf'
    <2>1. (\A f \in Elems(out) : RequestOk(f)') /\ (\A f \in Elems(back) : ReplyOk(f)')
        BY <1>2, KindsGrow DEF Base, KindsOf
    <2>2. TempOk' /\ MsgsOk'
        BY <1>2, <1>3, <1>4, <1>5 DEF Base, KindsOf, TempOk, MsgsOk, Kind, Typed
    <2>3. MapsOk' /\ StoredOk' /\ LeaveOnce'
        BY <1>2, <1>3, <1>4, MapsKept, StoredKept, LeaveKept
    <2>4. QED
        BY <1>3, <1>6, <2>1, <2>2, <2>3 DEF KindsOf
<1>10. QED
    BY <1>6, <1>8, <1>9 DEF Base

LEMMA CountsKept ==
    ASSUME Base, UNCHANGED <<th, out, srv, made, sessionid>>
    PROVE  Counts' /\ NextId' = NextId
<1>1. NextId' = NextId
    BY NextIdKept
<1>2. QED
    BY <1>1 DEF Base, Counts, Busy

LEMMA Takes ==
    ASSUME Base, NEW kind, Reads(kind)
    PROVE  /\ alive /\ ~Busy("loop") /\ erasing = NoSid /\ "loop" \in Thread
           /\ Head(back).kind = kind /\ ReplyOk(Head(back)) /\ Head(back) \in Elems(back)
           /\ Head(back) = back[1] /\ back # <<>>
           /\ kind # "noti" => /\ Head(back) \in Reply /\ Head(back).sid \in Sid
                               /\ Head(back).of \in Call
           /\ back' = Tail(back)
           /\ back' \in Seq(Reply \cup Noti) /\ Elems(back') \subseteq Elems(back)
           /\ Len(back) \in Nat /\ Len(back') = Len(back) - 1
           /\ \A i \in 1..(Len(back) - 1) : back'[i] = back[i + 1]
<1>1. back \in Seq(Reply \cup Noti) /\ back # <<>>
    BY DEF Base, Typed, Reads
<1>2. /\ Len(back) \in Nat /\ Head(back) = back[1] /\ Head(back) \in Reply \cup Noti
      /\ Tail(back) \in Seq(Reply \cup Noti) /\ Len(Tail(back)) = Len(back) - 1
      /\ \A i \in 1..(Len(back) - 1) : Tail(back)[i] = back[i + 1]
      /\ Head(back) \in Elems(back) /\ Elems(Tail(back)) \subseteq Elems(back)
    BY <1>1, TakeFirst
<1>3. back' = Tail(back) /\ Head(back).kind = kind
    BY DEF Reads
<1>4. kind # "noti" => Head(back) \in Reply /\ Head(back).sid \in Sid /\ Head(back).of \in Call
    BY <1>2, <1>3, ReplyFields
<1>5. ReplyOk(Head(back))
    BY <1>2 DEF Base, KindsOf
<1>6. QED
    BY <1>1, <1>2, <1>3, <1>4, <1>5 DEF Reads, Thread

\* The callback under a key runs, if there is one, and is erased.
LEMMA Erases ==
    ASSUME Base, NEW key \in Key, NEW of \in Call, CallErase(key, of)
    PROVE  /\ cbmap' \in [Key -> CallOrNone] /\ cbmap'[key] = NoCall
           /\ \A x \in Key : x # key => cbmap'[x] = cbmap[x]
           /\ ran' \subseteq [call : Call, of : Call] /\ missed' \subseteq Call
           /\ ran' = IF cbmap[key] = NoCall THEN ran ELSE ran \cup {[call |-> cbmap[key], of |-> of]}
           /\ missed' = IF cbmap[key] = NoCall THEN missed \cup {of} ELSE missed
           /\ stale' = stale
<1>1. Typed
    BY DEF Base
<1>2. cbmap[key] # NoCall => cbmap[key] \in Call
    BY <1>1 DEF Typed, CallOrNone
<1>3. QED
    BY <1>1, <1>2 DEF CallErase, Called, Typed, CallOrNone

LEMMA ErasedMapsOk ==
    ASSUME Base, Grown, NEW key \in Key, cbmap'[key] = NoCall,
           \A x \in Key : x # key => cbmap'[x] = cbmap[x], UNCHANGED mmap
    PROVE  MapsOk'
<1>1. \A x \in Key : cbmap'[x] = NoCall \/ cbmap'[x] = cbmap[x]
    OBVIOUS
<1>2. MapsOk
    BY DEF Base, KindsOf
<1>3. QED
    BY <1>1, <1>2, Numbers, KindsGrow DEF MapsOk

LEMMA BaseJustCalls ==
    ASSUME Base, NEW kind, Reads(kind), NEW key \in Key, CallErase(key, Head(back).of), JustCalls,
           kind # "noti"
    PROVE  Base'
<1>1. UNCHANGED <<mmap, db, sessionid, th, erasing, alive, out, server, past, overlap>>
    BY DEF JustCalls
<1>2. UNCHANGED <<made, stored, srv>>
    BY <1>1 DEF past, server
<1>3. /\ Head(back).of \in Call
      /\ back' \in Seq(Reply \cup Noti) /\ Elems(back') \subseteq Elems(back)
    BY Takes
<1>4. /\ cbmap' \in [Key -> CallOrNone] /\ cbmap'[key] = NoCall
      /\ \A x \in Key : x # key => cbmap'[x] = cbmap[x]
      /\ ran' \subseteq [call : Call, of : Call] /\ missed' \subseteq Call
      /\ stale' = stale
    BY <1>3, Erases
<1>5. Grown
    BY <1>2, NothingGrown
<1>6. Typed'
    <2>1. Typed
        BY DEF Base
    <2>2. QED
        BY <1>1, <1>2, <1>3, <1>4, <2>1 DEF Typed, db, past
<1>7. Counts'
    BY <1>1, <1>2, CountsKept
<1>8. KindsOf'
    <2>1. \A u \in Thread : ThreadOk(u)'
        BY <1>1, <1>5, ThreadsKept
    <2>2. (\A f \in Elems(out) : RequestOk(f)') /\ (\A f \in Elems(back') : ReplyOk(f)')
        BY <1>3, <1>5, KindsGrow DEF Base, KindsOf
    <2>3. MapsOk'
        BY <1>1, <1>4, <1>5, ErasedMapsOk
    <2>4. TempOk' /\ MsgsOk' /\ StoredOk' /\ LeaveOnce'
        BY <1>1, <1>2, <1>5, DbKept, StoredKept, LeaveKept
    <2>5. QED
        BY <1>1, <2>1, <2>2, <2>3, <2>4 DEF KindsOf
<1>9. QED
    BY <1>6, <1>7, <1>8 DEF Base

LEMMA BaseReads == ASSUME Base, ReadRes \/ ReadError \/ ReadLeave PROVE Base'
<1>1. CASE ReadRes
    BY <1>1, BaseJustCalls, Takes, Numbers DEF ReadRes
<1>2. CASE ReadError
    BY <1>2, BaseJustCalls, Takes, Numbers DEF ReadError
<1>3. CASE ReadLeave
    BY <1>3, BaseJustCalls, Numbers DEF ReadLeave, KeyOf
<1>4. QED
    BY <1>1, <1>2, <1>3

\* What messageRes finds and does.
Acknowledges(sid, k, i) ==
    /\ alive' = alive /\ temp[sid] # NoCall
    /\ msgs' = [msgs EXCEPT ![i] = temp[sid]]
    /\ temp' = [temp EXCEPT ![sid] = NoCall]
    /\ CallErase(sid, k)
Throws(sid) ==
    /\ temp[sid] = NoCall /\ alive' = FALSE
    /\ UNCHANGED <<temp, msgs, cbmap, ran, missed, stale>>

LEMMA ReadsAck ==
    ASSUME Base, MessageRes
    PROVE  /\ Head(back).sid \in Sid /\ Head(back).of \in Call
           /\ Head(back).id \in 1..Len(stored) /\ Head(back).id \in Id
           /\ stored[Head(back).id] = Head(back).of /\ Kind(Head(back).of, {"message"})
           /\ Acknowledges(Head(back).sid, Head(back).of, Head(back).id) \/ Throws(Head(back).sid)
           /\ UNCHANGED <<mmap, sessionid, th, erasing, out, server, past, overlap>>
<1>1. Reads("msgres")
    BY DEF MessageRes
<1>2. /\ Head(back).sid \in Sid /\ Head(back).of \in Call /\ Head(back).kind = "msgres"
      /\ ReplyOk(Head(back))
    BY <1>1, Takes
<1>3. /\ Head(back).id \in 1..Len(stored) /\ stored[Head(back).id] = Head(back).of
      /\ Kind(Head(back).of, {"message"})
    BY <1>2 DEF ReplyOk
<1>4. Head(back).id \in Id
    <2>1. Len(stored) \in Nat /\ Len(stored) <= Bound
        BY LenProperties DEF Base, Typed
    <2>2. QED
        BY <1>3, <2>1, Numbers
<1>5. Acknowledges(Head(back).sid, Head(back).of, Head(back).id) \/ Throws(Head(back).sid)
    BY DEF MessageRes, Acknowledges, Throws, WithoutTemp, hist
<1>6. QED
    BY <1>2, <1>3, <1>4, <1>5 DEF MessageRes

LEMMA BaseMessageRes == ASSUME Base, MessageRes PROVE Base'
<1>1. PICK s, k, i : s = Head(back).sid /\ k = Head(back).of /\ i = Head(back).id
    OBVIOUS
<1>2. /\ s \in Sid /\ k \in Call /\ i \in Id /\ Kind(k, {"message"})
      /\ Acknowledges(s, k, i) \/ Throws(s)
      /\ UNCHANGED <<mmap, sessionid, th, erasing, out, server, past, overlap>>
    BY <1>1, ReadsAck
<1>3. UNCHANGED <<made, stored, srv>>
    BY <1>2 DEF past, server
<1>4. /\ back' \in Seq(Reply \cup Noti) /\ Elems(back') \subseteq Elems(back)
    BY Takes DEF MessageRes
<1>5. Grown
    BY <1>3, NothingGrown
<1>6. Typed
    BY DEF Base
<1>7. s \in Key
    BY <1>2, Numbers
<1>8. /\ cbmap' \in [Key -> CallOrNone] /\ \A x \in Key : cbmap'[x] = NoCall \/ cbmap'[x] = cbmap[x]
      /\ ran' \subseteq [call : Call, of : Call] /\ missed' \subseteq Call /\ stale' = stale
      /\ alive' \in BOOLEAN
    <2>1. CASE Acknowledges(s, k, i)
        BY <1>2, <1>6, <1>7, <2>1, Erases DEF Acknowledges, Typed
    <2>2. CASE Throws(s)
        BY <1>6, <2>2 DEF Throws, Typed
    <2>3. QED
        BY <1>2, <2>1, <2>2
<1>9. /\ temp' \in [Sid -> CallOrNone] /\ msgs' \in [Id -> CallOrNone \cup {Peer}]
      /\ \A x \in Sid : temp'[x] = NoCall \/ temp'[x] = temp[x]
      /\ \A j \in Id : msgs'[j] = msgs[j] \/ msgs'[j] = temp[s]
      /\ temp[s] \in CallOrNone
    <2>1. CASE Acknowledges(s, k, i)
        BY <1>2, <1>6, <2>1 DEF Acknowledges, Typed, CallOrNone
    <2>2. CASE Throws(s)
        BY <1>2, <1>6, <2>2 DEF Throws, Typed
    <2>3. QED
        BY <1>2, <2>1, <2>2
<1>10. Typed'
    BY <1>2, <1>3, <1>4, <1>6, <1>8, <1>9 DEF Typed, past
<1>11. Counts'
    BY <1>2, <1>3, CountsKept
<1>12. KindsOf'
    <2>1. \A u \in Thread : ThreadOk(u)'
        BY <1>2, <1>5, ThreadsKept
    <2>2. (\A f \in Elems(out) : RequestOk(f)') /\ (\A f \in Elems(back') : ReplyOk(f)')
        BY <1>4, <1>5, KindsGrow DEF Base, KindsOf
    <2>3. MapsOk'
        <3>1. MapsOk
            BY DEF Base, KindsOf
        <3>2. QED
            BY <1>2, <1>5, <1>8, <3>1, Numbers, KindsGrow DEF MapsOk
    <2>4. TempOk' /\ MsgsOk'
        <3>1. TempOk /\ MsgsOk
            BY DEF Base, KindsOf
        <3>2. QED
            BY <1>2, <1>3, <1>9, <3>1 DEF TempOk, MsgsOk, Kind
    <2>5. StoredOk' /\ LeaveOnce'
        BY <1>3, <1>5, StoredKept, LeaveKept
    <2>6. QED
        BY <1>2, <2>1, <2>2, <2>3, <2>4, <2>5 DEF KindsOf
<1>13. QED
    BY <1>10, <1>11, <1>12 DEF Base

\* What nodemessage does with a message, k being the callback it finds.
LEMMA ReadsMessage ==
    ASSUME Base, NEW isStop \in BOOLEAN, NodeMessage(isStop),
           NEW s, NEW k, NEW o, NEW i,
           s = Head(back).sid, o = Head(back).of, i = Head(back).id, k = mmap[s]
    PROVE  /\ s \in Sid /\ o \in Call /\ i \in Id /\ i \in 1..Len(stored) /\ k \in CallOrNone
           /\ Kind(o, {"query", "relay"})
           /\ msgs' = [msgs EXCEPT ![i] = stored[i]] /\ stored[i] \in CallOrNone \cup {Peer}
           /\ stale' = stale
           /\ missed' = IF k = NoCall THEN missed \cup {o} ELSE missed
           /\ \A r \in ran' \ ran : /\ r.of = o
                                    /\ r.call = k \/ (IsRelay(k) /\ r.call = cbmap[-3])
           /\ k # NoCall => \E r \in ran' : r.call = k
           /\ ran \subseteq ran' /\ ran' \subseteq [call : Call, of : Call] /\ missed' \subseteq Call
           /\ erasing' = IF k # NoCall /\ isStop THEN s ELSE NoSid
           /\ UNCHANGED <<maps, temp, sessionid, th, alive, out, server, past, overlap>>
<1>1. Reads("msg")
    BY DEF NodeMessage
<1>2. /\ s \in Sid /\ o \in Call /\ Head(back).kind = "msg" /\ ReplyOk(Head(back))
    BY <1>1, Takes
<1>3. i \in 1..Len(stored) /\ Kind(o, {"query", "relay"})
    BY <1>2 DEF ReplyOk
<1>4. Typed
    BY DEF Base
<1>5. i \in Id /\ stored[i] \in CallOrNone \cup {Peer}
    <2>1. Len(stored) \in Nat /\ Len(stored) <= Bound
        BY <1>4, LenProperties DEF Typed
    <2>2. stored[i] \in Call \cup {Peer}
        BY <1>3, <1>4, ElementOfSeq DEF Typed
    <2>3. QED
        BY <1>3, <2>1, <2>2, Numbers DEF CallOrNone
<1>6. k \in CallOrNone /\ cbmap[-3] \in CallOrNone
    BY <1>2, <1>4, Numbers DEF Typed
<1>7. /\ msgs' = [msgs EXCEPT ![i] = stored[i]] /\ stale' = stale
      /\ missed' = IF k = NoCall THEN missed \cup {o} ELSE missed
      /\ ran' = ran \cup {[call |-> c, of |-> o] : c \in ({k} \cup Unread(k)) \ {NoCall}}
      /\ erasing' = IF k # NoCall /\ isStop THEN s ELSE NoSid
      /\ UNCHANGED <<maps, temp, sessionid, th, alive, out, server, past, overlap>>
    BY DEF NodeMessage
<1>8. \A c \in ({k} \cup Unread(k)) \ {NoCall} :
          c \in Call /\ (c = k \/ (IsRelay(k) /\ c = cbmap[-3]))
    BY <1>6 DEF Unread, CallOrNone, KeyOf
<1>9. \A r \in ran' : r \in ran \/
          \E c \in Call : r = [call |-> c, of |-> o] /\ (c = k \/ (IsRelay(k) /\ c = cbmap[-3]))
    BY <1>7, <1>8
<1>10. k # NoCall => [call |-> k, of |-> o] \in ran'
    BY <1>7
<1>11. ran \subseteq ran' /\ ran' \subseteq [call : Call, of : Call] /\ missed' \subseteq Call
    BY <1>2, <1>4, <1>7, <1>9 DEF Typed
<1>12. \A r \in ran' \ ran : r.of = o /\ (r.call = k \/ (IsRelay(k) /\ r.call = cbmap[-3]))
    BY <1>9
<1>13. k # NoCall => \E r \in ran' : r.call = k
    BY <1>10
<1>14. QED
    BY <1>2, <1>3, <1>5, <1>6, <1>7, <1>11, <1>12, <1>13

LEMMA BaseNodeMessage ==
    ASSUME Base, NEW isStop \in BOOLEAN, NodeMessage(isStop) PROVE Base'
<1>1. PICK s, o, i : s = Head(back).sid /\ o = Head(back).of /\ i = Head(back).id
    OBVIOUS
<1>2. PICK k : k = mmap[s]
    OBVIOUS
<1>3. /\ s \in Sid /\ i \in Id /\ i \in 1..Len(stored) /\ stored[i] \in CallOrNone \cup {Peer}
      /\ msgs' = [msgs EXCEPT ![i] = stored[i]] /\ stale' = stale
      /\ ran' \subseteq [call : Call, of : Call] /\ missed' \subseteq Call
      /\ erasing' = IF k # NoCall /\ isStop THEN s ELSE NoSid
      /\ UNCHANGED <<maps, temp, sessionid, th, alive, out, server, past, overlap>>
    BY <1>1, <1>2, ReadsMessage
<1>4. UNCHANGED <<made, stored, srv>>
    BY <1>3 DEF past, server
<1>5. /\ back' \in Seq(Reply \cup Noti) /\ Elems(back') \subseteq Elems(back)
    BY Takes DEF NodeMessage
<1>6. Grown
    BY <1>4, NothingGrown
<1>7. Typed
    BY DEF Base
<1>8. msgs' \in [Id -> CallOrNone \cup {Peer}] /\ \A j \in Id : msgs'[j] = msgs[j] \/ msgs'[j] = stored[i]
    BY <1>3, <1>7 DEF Typed
<1>9. Typed'
    BY <1>3, <1>4, <1>5, <1>7, <1>8 DEF Typed, past, maps
<1>10. Counts'
    BY <1>3, <1>4, CountsKept
<1>11. KindsOf'
    <2>1. \A u \in Thread : ThreadOk(u)'
        BY <1>3, <1>6, ThreadsKept
    <2>2. (\A f \in Elems(out) : RequestOk(f)') /\ (\A f \in Elems(back') : ReplyOk(f)')
        BY <1>5, <1>6, KindsGrow DEF Base, KindsOf
    <2>3. TempOk' /\ MsgsOk'
        <3>1. TempOk /\ MsgsOk /\ StoredOk
            BY DEF Base, KindsOf
        <3>2. stored[i] = Peer \/ Kind(stored[i], {"message"})
            BY <1>3, <3>1 DEF StoredOk
        <3>3. QED
            BY <1>3, <1>4, <1>8, <3>1, <3>2 DEF TempOk, MsgsOk, Kind
    <2>4. MapsOk' /\ StoredOk' /\ LeaveOnce'
        BY <1>3, <1>4, <1>6, MapsKept, StoredKept, LeaveKept
    <2>5. QED
        BY <1>3, <2>1, <2>2, <2>3, <2>4 DEF KindsOf
<1>12. QED
    BY <1>9, <1>10, <1>11 DEF Base

LEMMA BaseEraseQuery == ASSUME Base, EraseQuery PROVE Base'
<1>1. /\ erasing # NoSid /\ mmap' = [mmap EXCEPT ![erasing] = NoCall] /\ erasing' = NoSid
      /\ UNCHANGED <<cbmap, db, sessionid, th, alive, out, back, server, past, hist, overlap>>
    BY DEF EraseQuery
<1>2. UNCHANGED <<made, stored, srv>>
    BY <1>1 DEF past, server
<1>3. Grown
    BY <1>2, NothingGrown
<1>4. Typed
    BY DEF Base
<1>5. mmap' \in [Sid -> CallOrNone] /\ \A s \in Sid : mmap'[s] = NoCall \/ mmap'[s] = mmap[s]
    BY <1>1, <1>4 DEF Typed, CallOrNone
<1>6. Typed'
    BY <1>1, <1>2, <1>4, <1>5 DEF Typed, db, past, hist
<1>7. Counts'
    BY <1>1, <1>2, CountsKept
<1>8. KindsOf'
    <2>1. \A u \in Thread : ThreadOk(u)'
        BY <1>1, <1>3, ThreadsKept
    <2>2. (\A f \in Elems(out) : RequestOk(f)') /\ (\A f \in Elems(back) : ReplyOk(f)')
        BY <1>3, KindsGrow DEF Base, KindsOf
    <2>3. MapsOk'
        <3>1. MapsOk
            BY DEF Base, KindsOf
        <3>2. QED
            BY <1>1, <1>3, <1>5, <3>1, KindsGrow DEF MapsOk
    <2>4. TempOk' /\ MsgsOk' /\ StoredOk' /\ LeaveOnce'
        BY <1>1, <1>2, <1>3, DbKept, StoredKept, LeaveKept
    <2>5. QED
        BY <1>1, <2>1, <2>2, <2>3, <2>4 DEF KindsOf
<1>9. QED
    BY <1>6, <1>7, <1>8 DEF Base

LEMMA BaseMsgUnreadNoti == ASSUME Base, MsgUnreadNoti PROVE Base'
<1>1. PICK i : i = Head(back).id
    OBVIOUS
<1>2. /\ Reads("noti") /\ RoomToCall /\ Send("loop", "relay", i)
      /\ UNCHANGED <<maps, db, sessionid, erasing, alive, out, server, gone, restarts, hist>>
    BY <1>1 DEF MsgUnreadNoti
<1>3. UNCHANGED <<stored, srv>>
    BY <1>2 DEF server
<1>4. /\ ~Busy("loop") /\ "loop" \in Thread /\ i \in 1..Len(stored)
      /\ back' \in Seq(Reply \cup Noti) /\ Elems(back') \subseteq Elems(back)
    BY <1>1, <1>2, Takes DEF ReplyOk
<1>5. Typed
    BY DEF Base
<1>6. i \in Id
    <2>1. Len(stored) \in Nat /\ Len(stored) <= Bound
        BY <1>5, LenProperties DEF Typed
    <2>2. QED
        BY <1>4, <2>1, Numbers
<1>7. /\ Grown /\ Len(made) \in Nat /\ Len(made') = Len(made) + 1
      /\ made' \in Seq(AllKinds \cup {"relay"}) /\ Len(made') <= Bound
      /\ Begins("loop", "relay", i) /\ overlap' \in BOOLEAN
      /\ Counts' /\ (\A u \in Thread : ThreadOk(u)') /\ LeaveOnce'
    <2>1. "relay" \in SendKinds /\ i \in Id \cup {0} /\ "relay" # "leave"
        BY <1>6 DEF SendKinds
    <2>2. QED
        BY <1>2, <1>3, <1>4, <2>1, SendsOk
<1>8. Typed'
    <2>1. gone' \in Nat /\ gone' <= Len(made')
        BY <1>2, <1>5, <1>7 DEF Typed
    <2>2. QED
        BY <1>2, <1>3, <1>4, <1>5, <1>7, <2>1 DEF Typed, maps, db, hist, Begins
<1>9. KindsOf'
    <2>1. (\A f \in Elems(out) : RequestOk(f)') /\ (\A f \in Elems(back') : ReplyOk(f)')
        BY <1>4, <1>7, KindsGrow DEF Base, KindsOf
    <2>2. MapsOk' /\ TempOk' /\ MsgsOk' /\ StoredOk'
        BY <1>2, <1>3, <1>7, MapsKept, DbKept, StoredKept
    <2>3. QED
        BY <1>2, <1>7, <2>1, <2>2 DEF KindsOf
<1>10. QED
    BY <1>7, <1>8, <1>9 DEF Base

\* What the server answers a frame with: frames of one kind, one unless they
\* are messages, all of the frame's call.
Replies(a, f, s) ==
    /\ a \in Seq(Reply) /\ Len(a) \in Nat /\ Len(a) >= 1
    /\ \A i \in 1..Len(a) : a[i].sid = s /\ a[i].of = f.of /\ a[i].kind = a[1].kind
    /\ a[1].kind # "msg" => Len(a) = 1
    /\ a[1].kind = "res" => f.kind = "request"
    /\ a[1].kind = "leaveres" => f.kind = "leave"
    /\ a[1].kind = "msgres" => f.kind = "message" /\ a[1].id = Len(stored) + 1
    /\ a[1].kind = "msg" => /\ f.kind \in {"query", "relay"}
                            /\ \A i \in 1..Len(a) : a[i].id \in 1..Len(stored)

\* One frame that is no message.
LEMMA OneReply ==
    ASSUME NEW f \in Request, NEW s \in Sid, NEW kind, NEW id \in Id \cup {0}, NEW r,
           r = [kind |-> kind, sid |-> s, of |-> f.of, id |-> id],
           \/ kind = "error"
           \/ kind = "res" /\ f.kind = "request"
           \/ kind = "leaveres" /\ f.kind = "leave"
           \/ kind = "msgres" /\ f.kind = "message" /\ id = Len(stored) + 1
           \/ kind = "msg" /\ f.kind = "relay" /\ id \in 1..Len(stored)
    PROVE  Replies(<<r>>, f, s)
<1>1. r \in Reply /\ r.sid = s /\ r.of = f.of /\ r.kind = kind /\ r.id = id
    BY RequestFields DEF Reply
<1>2. PICK a : a = <<r>>
    OBVIOUS
<1>3. a \in Seq(Reply) /\ Len(a) = 1 /\ a[1] = r
    BY <1>1, <1>2
<1>4. 1..Len(a) = {1}
    BY <1>3
<1>5. Replies(a, f, s)
    BY <1>1, <1>3, <1>4 DEF Replies
<1>6. QED
    BY <1>2, <1>5

\* A query's answer.
LEMMA ManyReplies ==
    ASSUME Base, NEW f \in Request, f.kind = "query", NEW n \in 1..MaxAnswers, NEW m \in Id, NEW a,
           a = [i \in 1..n |-> [kind |-> "msg", sid |-> f.sid, of |-> f.of, id |-> m + i - 1]],
           a[Len(a)].id <= Len(stored)
    PROVE  Replies(a, f, f.sid)
<1>1. PICK c \in Nat : c = Len(stored) /\ c <= Bound
    BY LenProperties DEF Base, Typed
<1>2. n \in Nat /\ n >= 1 /\ m \in Nat /\ m >= 1
    BY Numbers
<1>3. \A i \in 1..n : /\ a[i].kind = "msg" /\ a[i].sid = f.sid /\ a[i].of = f.of
                      /\ a[i].id = m + i - 1
                      /\ a[i] = [kind |-> "msg", sid |-> f.sid, of |-> f.of, id |-> m + i - 1]
    OBVIOUS
<1>4. Len(a) = n /\ DOMAIN a = 1..n
    BY <1>2
<1>5. m + n - 1 <= c
    BY <1>1, <1>2, <1>3, <1>4
<1>6. \A i \in 1..n : a[i].id \in 1..c /\ a[i].id \in Id
    <2> SUFFICES ASSUME NEW i \in 1..n PROVE a[i].id \in 1..c /\ a[i].id \in Id
        OBVIOUS
    <2>1. i \in Nat /\ 1 <= i /\ i <= n /\ a[i].id = m + i - 1
        BY <1>2, <1>3
    <2>2. 1 <= m + i - 1 /\ m + i - 1 <= c /\ m + i - 1 \in Nat
        BY <1>1, <1>2, <1>5, <2>1
    <2>3. QED
        BY <1>1, <2>1, <2>2, Numbers
<1>7. \A i \in 1..n : a[i] \in Reply
    BY <1>3, <1>6, RequestFields DEF Reply
<1>8. a \in Seq(Reply)
    <2>1. a \in [1..n -> Reply]
        BY <1>7
    <2>2. QED
        BY <1>2, <2>1, SeqDef
<1>9. 1 \in 1..n
    BY <1>2
<1>10. QED
    BY <1>1, <1>2, <1>3, <1>4, <1>6, <1>8, <1>9 DEF Replies

LEMMA AnswersAre ==
    ASSUME Base, NEW f \in Request, RequestOk(f), NEW a \in Answers(f),
           a[1].kind = "msgres" => RoomToStore
    PROVE  Replies(a, f, f.sid)
<1>1. f.kind \in SendKinds /\ f.sid \in Sid /\ f.of \in Call
    BY RequestFields
<1>2. PICK c \in Nat : c = Len(stored)
    BY LenProperties DEF Base, Typed
<1>3. CASE a = <<Answer(f, "error", 0)>>
    BY <1>1, <1>3, OneReply DEF Answer
<1>4. CASE f.kind = "request" /\ a = <<Answer(f, "res", 0)>>
    BY <1>1, <1>4, OneReply DEF Answer
<1>5. CASE f.kind = "leave" /\ a = <<Answer(f, "leaveres", 0)>>
    BY <1>1, <1>5, OneReply DEF Answer
<1>6. CASE f.kind = "message" /\ a = <<Answer(f, "msgres", Len(stored) + 1)>>
    <2>1. a[1].kind = "msgres"
        BY <1>6 DEF Answer
    <2>2. c < Bound
        BY <1>2, <2>1 DEF RoomToStore, Bound
    <2>3. Len(stored) + 1 \in Id
        BY <1>2, <2>2, Numbers
    <2>4. QED
        BY <1>1, <1>6, <2>3, OneReply DEF Answer
<1>7. CASE f.kind = "relay" /\ a = <<Answer(f, "msg", f.id)>>
    BY <1>1, <1>7, OneReply, RequestFields DEF Answer, RequestOk
<1>8. CASE f.kind = "query" /\ a \in {b \in {[i \in 1..n |-> Answer(f, "msg", m + i - 1)] :
                                                n \in 1..MaxAnswers, m \in Id} :
                                        b[Len(b)].id <= Len(stored)}
    <2>1. PICK n \in 1..MaxAnswers, m \in Id : a = [i \in 1..n |-> Answer(f, "msg", m + i - 1)]
        BY <1>8
    <2>2. a[Len(a)].id <= Len(stored)
        BY <1>8
    <2>3. a = [i \in 1..n |-> [kind |-> "msg", sid |-> f.sid, of |-> f.of, id |-> m + i - 1]]
        BY <2>1 DEF Answer
    <2>4. QED
        BY <1>8, <2>2, <2>3, ManyReplies
<1>9. CASE f.kind = "request"
    BY <1>3, <1>4, <1>9 DEF Answers
<1>10. CASE f.kind = "leave"
    BY <1>3, <1>5, <1>10 DEF Answers
<1>11. CASE f.kind = "message"
    BY <1>3, <1>6, <1>11 DEF Answers
<1>12. CASE f.kind = "relay"
    BY <1>3, <1>7, <1>12 DEF Answers
<1>13. CASE f.kind = "query"
    BY <1>3, <1>8, <1>13 DEF Answers
<1>14. QED
    BY <1>1, <1>9, <1>10, <1>11, <1>12, <1>13 DEF SendKinds

\* The server takes a frame and answers it, refused frames too.
Served(f, a, s) ==
    /\ f = Head(out) /\ f \in Elems(out) /\ f \in Request /\ RequestOk(f)
    /\ s \in Sid /\ Replies(a, f, s)
    /\ s = IF f.sid # srv /\ f.kind # "leave" THEN srv ELSE f.sid
    /\ f = out[1] /\ Len(out) \in Nat /\ Len(out) > 0
    /\ out' = Tail(out) /\ out' \in Seq(Request) /\ Len(out') = Len(out) - 1
    /\ \A i \in 1..(Len(out) - 1) : out'[i] = out[i + 1]
    /\ Elems(out') \subseteq Elems(out)
    /\ srv' = srv + 1
    /\ back' = back \o a
    /\ a[1].kind = "msgres" => RoomToStore /\ stored' = Append(stored, f.of)
    /\ a[1].kind # "msgres" => stored' = stored
    /\ UNCHANGED <<maps, db, sessionid, th, erasing, alive, past, hist, overlap>>

LEMMA Serves == ASSUME Base, Serve PROVE \E f, a, s : Served(f, a, s)
<1>1. PICK f : f = Head(out)
    OBVIOUS
<1>2. out \in Seq(Request) /\ out # <<>>
    BY DEF Base, Typed, Serve
<1>3. /\ Len(out) \in Nat /\ Len(out) > 0 /\ f = out[1] /\ f \in Request
      /\ Tail(out) \in Seq(Request) /\ Len(Tail(out)) = Len(out) - 1
      /\ \A i \in 1..(Len(out) - 1) : Tail(out)[i] = out[i + 1]
      /\ f \in Elems(out) /\ Elems(Tail(out)) \subseteq Elems(out)
    BY <1>1, <1>2, TakeFirst
<1>4. RequestOk(f)
    BY <1>3 DEF Base, KindsOf
<1>5. /\ f.sid \in Sid /\ srv \in Sid
      /\ out' = Tail(out) /\ srv' = srv + 1
      /\ UNCHANGED <<maps, db, sessionid, th, erasing, alive, past, hist, overlap>>
    BY <1>3, RequestFields DEF Base, Typed, Serve
<1>6. CASE f.sid # srv /\ f.kind # "leave"
    <2>1. PICK r : r = [kind |-> "error", sid |-> srv, of |-> f.of, id |-> 0]
        OBVIOUS
    <2>2. Answer([f EXCEPT !.sid = srv], "error", 0) = r
        BY <1>3, <2>1 DEF Answer, Request
    <2>3. back' = Append(back, r) /\ stored' = stored
        BY <1>1, <1>6, <2>2 DEF Serve
    <2>4. Replies(<<r>>, f, srv)
        BY <1>3, <1>5, <2>1, OneReply
    <2>5. r \in Reply
        BY <1>3, <1>5, <2>1, RequestFields DEF Reply
    <2>6. back' = back \o <<r>>
        BY <2>3, <2>5, AppendIsConcat DEF Base, Typed
    <2>7. <<r>>[1].kind # "msgres"
        BY <2>1
    <2>8. Served(f, <<r>>, srv)
        BY <1>1, <1>3, <1>4, <1>5, <1>6, <2>3, <2>4, <2>6, <2>7 DEF Served
    <2>9. QED
        BY <2>8
<1>7. CASE ~(f.sid # srv /\ f.kind # "leave")
    <2>1. PICK a \in Answers(f) :
              /\ a[1].kind = "msgres" => RoomToStore
              /\ back' = back \o a
              /\ stored' = IF a[1].kind = "msgres" THEN Append(stored, f.of) ELSE stored
        BY <1>1, <1>7 DEF Serve
    <2>2. Replies(a, f, f.sid)
        BY <1>3, <1>4, <2>1, AnswersAre
    <2>3. Served(f, a, f.sid)
        BY <1>1, <1>3, <1>4, <1>5, <1>7, <2>1, <2>2 DEF Served
    <2>4. QED
        BY <2>3
<1>8. QED
    BY <1>6, <1>7

\* What one more message at the server does.
OneStored(k) ==
    /\ stored' \in Seq(Call \cup {Peer}) /\ Len(stored) \in Nat
    /\ Len(stored') = Len(stored) + 1 /\ Len(stored') <= Bound
    /\ \A i \in 1..Len(stored) : stored'[i] = stored[i]
    /\ stored'[Len(stored) + 1] = k /\ Len(stored) + 1 \in Id

LEMMA OneMoreStored ==
    ASSUME Base, NEW k \in Call \cup {Peer}, RoomToStore, stored' = Append(stored, k),
           UNCHANGED made, k = Peer \/ Kind(k, {"message"})
    PROVE  OneStored(k) /\ Grown /\ StoredOk'
<1>1. PICK n, q : n = Len(stored) /\ q = stored'
    OBVIOUS
<1>2. /\ n \in Nat /\ q \in Seq(Call \cup {Peer}) /\ Len(q) = n + 1
      /\ (\A i \in 1..n : q[i] = stored[i]) /\ q[n + 1] = k
    BY <1>1, PutLast DEF Base, Typed
<1>3. n < Bound
    BY <1>1 DEF RoomToStore, Bound
<1>4. n + 1 <= Bound /\ n + 1 \in Id
    BY <1>2, <1>3, Numbers
<1>5. OneStored(k)
    BY <1>1, <1>2, <1>4 DEF OneStored
<1>6. Grown
    BY <1>1, <1>2, CountsNat DEF Grown
<1>7. StoredOk'
    <2>1. \A i \in 1..(n + 1) : i \in 1..n \/ i = n + 1
        BY <1>2
    <2>2. \A i \in 1..(n + 1) : q[i] = Peer \/ Kind(q[i], {"message"})
        BY <1>1, <1>2, <2>1 DEF Base, KindsOf, StoredOk
    <2>3. QED
        BY <1>1, <1>2, <2>2 DEF StoredOk, Kind
<1>8. QED
    BY <1>5, <1>6, <1>7

LEMMA ServedStored ==
    ASSUME Base, NEW f, NEW a, NEW s, Served(f, a, s)
    PROVE  /\ Grown /\ StoredOk' /\ stored' \in Seq(Call \cup {Peer}) /\ Len(stored') <= Bound
           /\ a[1].kind = "msgres" => OneStored(f.of)
           /\ UNCHANGED made
<1>1. UNCHANGED made /\ f.of \in Call /\ RequestOk(f)
    BY RequestFields DEF Served, past
<1>2. CASE a[1].kind = "msgres"
    <2>1. f.kind = "message"
        BY <1>2 DEF Served, Replies
    <2>2. Kind(f.of, {"message"})
        BY <1>1, <2>1 DEF RequestOk
    <2>3. QED
        BY <1>1, <1>2, <2>2, OneMoreStored DEF Served, OneStored
<1>3. CASE a[1].kind # "msgres"
    <2>1. UNCHANGED stored
        BY <1>3 DEF Served
    <2>2. QED
        BY <1>1, <1>3, <2>1, NothingGrown, StoredKept DEF Base, Typed
<1>4. QED
    BY <1>2, <1>3

LEMMA ServedBack ==
    ASSUME Base, NEW f, NEW a, NEW s, Served(f, a, s)
    PROVE  /\ back' \in Seq(Reply \cup Noti)
           /\ Len(back) \in Nat /\ Len(a) \in Nat /\ Len(back') = Len(back) + Len(a)
           /\ \A i \in 1..Len(back) : back'[i] = back[i]
           /\ \A i \in 1..Len(a) : back'[Len(back) + i] = a[i]
           /\ \A i \in 1..(Len(back) + Len(a)) : i \notin 1..Len(back) => i - Len(back) \in 1..Len(a)
           /\ Elems(back') = Elems(back) \cup Elems(a)
           /\ \A g \in Elems(a) : ReplyOk(g)' /\ g.sid = s /\ g.of = f.of /\ g.kind = a[1].kind
<1>1. a \in Seq(Reply \cup Noti) /\ back \in Seq(Reply \cup Noti)
    <2>1. a \in Seq(Reply) /\ Reply \subseteq Reply \cup Noti
        BY DEF Served, Replies
    <2>2. QED
        BY <2>1, SeqMonotonic DEF Base, Typed
<1>2. back' = back \o a /\ Replies(a, f, s) /\ RequestOk(f) /\ f \in Request
    BY DEF Served
<1>3. /\ Grown /\ UNCHANGED made /\ (a[1].kind = "msgres" => OneStored(f.of))
      /\ a[1].kind # "msgres" => stored' = stored
    BY ServedStored DEF Served
<1>4. ASSUME NEW i \in 1..Len(a)
      PROVE  ReplyOk(a[i])' /\ a[i].sid = s /\ a[i].of = f.of /\ a[i].kind = a[1].kind
    <2>1. a[i].sid = s /\ a[i].of = f.of /\ a[i].kind = a[1].kind /\ a[i] \in Reply
        BY <1>2, ElementOfSeq DEF Replies
    <2>2. PICK g, k : g = a[i] /\ k = f.of
        OBVIOUS
    <2>3. Kind(k, {f.kind}) /\ f.kind \in SendKinds
        BY <1>2, <2>2, RequestFields DEF RequestOk
    <2>4. Kind(k, {f.kind})' /\ Kind(k, SendKinds)'
        BY <1>3, <2>3 DEF Kind
    <2>5. CASE g.kind = "msgres"
        <3>1. Len(a) = 1 /\ i = 1
            <4>1. Len(a) = 1
                BY <1>2, <2>1, <2>2, <2>5 DEF Replies
            <4>2. QED
                BY <4>1
        <3>2. f.kind = "message" /\ g.id = Len(stored) + 1
            BY <1>2, <2>1, <2>2, <2>5, <3>1 DEF Replies
        <3>3. OneStored(k)
            BY <1>3, <2>1, <2>2, <2>5
        <3>4. g.id \in 1..Len(stored') /\ stored'[g.id] = k
            BY <3>2, <3>3 DEF OneStored
        <3>5. QED
            BY <2>1, <2>2, <2>4, <2>5, <3>2, <3>4 DEF ReplyOk
    <2>6. CASE g.kind = "msg"
        <3>1. f.kind \in {"query", "relay"} /\ g.id \in 1..Len(stored) /\ stored' = stored
            BY <1>2, <1>3, <2>1, <2>2, <2>6 DEF Replies
        <3>2. Kind(k, {"query", "relay"})'
            BY <2>4, <3>1 DEF Kind
        <3>3. QED
            BY <2>1, <2>2, <2>6, <3>1, <3>2 DEF ReplyOk
    <2>7. CASE g.kind \in {"res", "error", "leaveres"}
        <3>1. (g.kind = "res" => f.kind = "request") /\ (g.kind = "leaveres" => f.kind = "leave")
            BY <1>2, <2>1, <2>2 DEF Replies
        <3>2. QED
            BY <2>1, <2>2, <2>4, <2>7, <3>1 DEF ReplyOk
    <2>8. QED
        BY <2>1, <2>2, <2>5, <2>6, <2>7, ReplyFields DEF Reply
<1>5. /\ back' \in Seq(Reply \cup Noti)
      /\ Len(back) \in Nat /\ Len(a) \in Nat /\ Len(back') = Len(back) + Len(a)
      /\ \A i \in 1..Len(back) : back'[i] = back[i]
      /\ \A i \in 1..Len(a) : back'[Len(back) + i] = a[i]
      /\ \A i \in 1..(Len(back) + Len(a)) : i \notin 1..Len(back) => i - Len(back) \in 1..Len(a)
      /\ Elems(back') = Elems(back) \cup Elems(a)
    BY <1>1, <1>2, PutAll
<1>6. \A g \in Elems(a) : ReplyOk(g)' /\ g.sid = s /\ g.of = f.of /\ g.kind = a[1].kind
    BY <1>4 DEF Elems
<1>7. QED
    BY <1>5, <1>6

LEMMA ServedCounts ==
    ASSUME Base, NEW f, NEW a, NEW s, Served(f, a, s)
    PROVE  Counts' /\ srv' \in Sid /\ NextId' = NextId /\ \A t : P(t)' = P(t)
<1>1. /\ srv' = srv + 1 /\ Len(out') = Len(out) - 1 /\ Len(out) > 0
      /\ UNCHANGED <<th, sessionid, made>>
    BY DEF Served, past
<1>2. /\ Len(made) \in Nat /\ Len(out) \in Nat /\ srv \in Nat
      /\ P("main") \in Nat /\ P("loop") \in Nat /\ NextId \in Nat
    BY CountsNat
<1>3. \A t : P(t)' = P(t)
    BY <1>1 DEF P
<1>4. NextId' = NextId
    BY <1>1, <1>2, <1>3 DEF NextId
<1>5. srv + 1 <= NextId
    BY <1>1, <1>2 DEF NextId
<1>6. NextId <= 100 + Len(made) /\ Len(made) <= Bound
    BY Numbers DEF Base, Counts, Typed
<1>7. srv \in Sid
    BY DEF Base, Typed
<1>8. srv' \in Sid
    BY <1>1, <1>2, <1>5, <1>6, <1>7, Numbers
<1>9. Counts'
    BY <1>1, <1>4 DEF Base, Counts, Busy
<1>10. QED
    BY <1>3, <1>4, <1>8, <1>9

LEMMA BaseServe == ASSUME Base, Serve PROVE Base'
<1>1. PICK f, a, s : Served(f, a, s)
    BY Serves
<1>2. /\ Grown /\ StoredOk' /\ stored' \in Seq(Call \cup {Peer}) /\ Len(stored') <= Bound
      /\ UNCHANGED made
    BY <1>1, ServedStored
<1>3. /\ back' \in Seq(Reply \cup Noti) /\ Elems(back') = Elems(back) \cup Elems(a)
      /\ \A g \in Elems(a) : ReplyOk(g)'
    BY <1>1, ServedBack
<1>4. /\ out' \in Seq(Request) /\ Elems(out') \subseteq Elems(out)
      /\ UNCHANGED <<maps, db, sessionid, th, erasing, alive, past, hist, overlap>>
    BY <1>1 DEF Served
<1>5. Counts' /\ srv' \in Sid
    BY <1>1, ServedCounts
<1>6. Typed'
    <2>1. Typed
        BY DEF Base
    <2>2. QED
        BY <1>2, <1>3, <1>4, <1>5, <2>1 DEF Typed, maps, db, past, hist
<1>7. KindsOf'
    <2>1. \A u \in Thread : ThreadOk(u)'
        BY <1>2, <1>4, ThreadsKept
    <2>2. (\A g \in Elems(out') : RequestOk(g)') /\ (\A g \in Elems(back') : ReplyOk(g)')
        BY <1>2, <1>3, <1>4, KindsGrow DEF Base, KindsOf
    <2>3. MapsOk' /\ TempOk' /\ MsgsOk' /\ LeaveOnce'
        BY <1>2, <1>4, MapsKept, DbKept, LeaveKept
    <2>4. QED
        BY <1>2, <2>1, <2>2, <2>3 DEF KindsOf
<1>8. QED
    BY <1>5, <1>6, <1>7 DEF Base

\* A peer's message and its notification.
Notified(g) ==
    /\ g \in Noti /\ g.kind = "noti" /\ g.id = Len(stored')
    /\ OneStored(Peer) /\ Grown /\ StoredOk'
    /\ back' \in Seq(Reply \cup Noti) /\ Len(back) \in Nat /\ Len(back') = Len(back) + 1
    /\ \A i \in 1..Len(back) : back'[i] = back[i]
    /\ back'[Len(back) + 1] = g
    /\ Elems(back') = Elems(back) \cup {g}
    /\ UNCHANGED <<maps, db, sessionid, th, erasing, alive, out, srv, past, hist, overlap>>

LEMMA Notifies == ASSUME Base, Notify PROVE \E g : Notified(g)
<1>1. /\ RoomToStore /\ stored' = Append(stored, Peer)
      /\ back' = Append(back, [kind |-> "noti", sid |-> NoSid, of |-> NoCall, id |-> Len(stored')])
      /\ UNCHANGED <<maps, db, sessionid, th, erasing, alive, out, srv, past, hist, overlap>>
    BY DEF Notify
<1>2. UNCHANGED made
    BY <1>1 DEF past
<1>3. OneStored(Peer) /\ Grown /\ StoredOk'
    BY <1>1, <1>2, OneMoreStored
<1>4. PICK g : g = [kind |-> "noti", sid |-> NoSid, of |-> NoCall, id |-> Len(stored')]
    OBVIOUS
<1>5. g \in Noti /\ g.kind = "noti" /\ g.id = Len(stored')
    BY <1>3, <1>4 DEF OneStored, Noti
<1>6. /\ back' \in Seq(Reply \cup Noti) /\ Len(back) \in Nat /\ Len(back') = Len(back) + 1
      /\ \A i \in 1..Len(back) : back'[i] = back[i]
      /\ back'[Len(back) + 1] = g
      /\ Elems(back') = Elems(back) \cup {g}
    <2>1. back \in Seq(Reply \cup Noti) /\ g \in Reply \cup Noti /\ back' = Append(back, g)
        BY <1>1, <1>4, <1>5 DEF Base, Typed
    <2>2. QED
        BY <2>1, PutLast
<1>7. Notified(g)
    BY <1>1, <1>3, <1>5, <1>6 DEF Notified
<1>8. QED
    BY <1>7

LEMMA BaseNotify == ASSUME Base, Notify PROVE Base'
<1>1. PICK g : Notified(g)
    BY Notifies
<1>2. /\ g.kind = "noti" /\ g.id = Len(stored') /\ OneStored(Peer) /\ Grown /\ StoredOk'
      /\ back' \in Seq(Reply \cup Noti) /\ Elems(back') = Elems(back) \cup {g}
      /\ UNCHANGED <<maps, db, sessionid, th, erasing, alive, out, srv, past, hist, overlap>>
    BY <1>1 DEF Notified
<1>3. UNCHANGED made
    BY <1>2 DEF past
<1>4. Typed'
    <2>1. Typed
        BY DEF Base
    <2>2. QED
        BY <1>2, <1>3, <2>1 DEF Typed, maps, db, past, hist, OneStored
<1>5. Counts'
    BY <1>2, <1>3, CountsKept
<1>6. KindsOf'
    <2>1. \A u \in Thread : ThreadOk(u)'
        BY <1>2, ThreadsKept
    <2>2. ReplyOk(g)'
        <3>1. Len(stored') \in 1..Len(stored')
            BY <1>2 DEF OneStored
        <3>2. QED
            BY <1>2, <3>1 DEF ReplyOk
    <2>3. (\A h \in Elems(out) : RequestOk(h)') /\ (\A h \in Elems(back') : ReplyOk(h)')
        BY <1>2, <2>2, KindsGrow DEF Base, KindsOf
    <2>4. MapsOk' /\ TempOk' /\ MsgsOk' /\ LeaveOnce'
        BY <1>2, <1>3, MapsKept, DbKept, LeaveKept
    <2>5. QED
        BY <1>2, <2>1, <2>3, <2>4 DEF KindsOf
<1>7. QED
    BY <1>4, <1>5, <1>6 DEF Base

LEMMA BaseRestart == ASSUME Base, Restart PROVE Base'
<1>1. /\ restarts < MaxRestarts /\ restarts' = restarts + 1 /\ gone' = Len(made)
      /\ cbmap' = [k \in Sid \cup Reserved |-> NoCall] /\ mmap' = [k \in Sid |-> NoCall]
      /\ srv' \in {srv, FirstSid} /\ sessionid' = srv'
      /\ th' = [t \in Thread |-> Idle] /\ erasing' = NoSid /\ alive' = TRUE
      /\ out' = <<>> /\ back' = <<>> /\ overlap' = FALSE /\ stale' \in BOOLEAN
      /\ UNCHANGED <<db, stored, made, ran, missed>>
    BY DEF Restart
<1>2. Grown
    BY <1>1, NothingGrown
<1>3. Typed
    BY DEF Base
<1>4. Typed'
    <2>1. /\ cbmap' \in [Key -> CallOrNone] /\ mmap' \in [Sid -> CallOrNone]
          /\ th' \in [Thread -> {Idle} \cup Progress]
        BY <1>1 DEF Key, CallOrNone
    <2>2. /\ sessionid' \in Sid /\ srv' \in Sid /\ erasing' \in Sid \cup {NoSid}
        <3>1. srv \in Sid /\ FirstSid \in Sid
            BY <1>3, Numbers DEF Typed
        <3>2. QED
            BY <1>1, <3>1
    <2>3. /\ out' \in Seq(Request) /\ back' \in Seq(Reply \cup Noti)
        BY <1>1, EmptySeq
    <2>4. gone' \in Nat /\ gone' <= Len(made') /\ restarts' \in 0..MaxRestarts
        BY <1>1, <1>3, CountsNat, Numbers DEF Typed
    <2>5. QED
        BY <1>1, <1>3, <2>1, <2>2, <2>3, <2>4 DEF Typed, db
<1>5. \A t \in Thread : th'[t] = Idle /\ ~Busy(t)'
    BY <1>1 DEF Busy
<1>6. Counts'
    <2>1. P("main")' = 0 /\ P("loop")' = 0 /\ Len(out') = 0
        BY <1>1, <1>5 DEF P, Sending, Idle, Thread
    <2>2. srv <= NextId /\ NextId <= 100 + Len(made)
        BY CountsNat, Numbers, SMTT(30) DEF NextId, Base, Counts
    <2>3. srv' \in Nat /\ srv' <= 100 + Len(made)
        BY <1>1, <2>2, CountsNat, Numbers, SMTT(30)
    <2>4. NextId' = srv'
        BY <2>1, <2>3 DEF NextId
    <2>5. QED
        BY <1>1, <1>5, <2>3, <2>4, Numbers DEF Counts
<1>7. KindsOf'
    <2>1. \A u \in Thread : ThreadOk(u)'
        BY <1>5 DEF ThreadOk
    <2>2. Elems(out') = {} /\ Elems(back') = {}
        BY <1>1, NoFrames
    <2>3. MapsOk'
        BY <1>1, Numbers DEF MapsOk, Key
    <2>4. TempOk' /\ MsgsOk' /\ StoredOk' /\ LeaveOnce'
        BY <1>1, <1>2, DbKept, StoredKept, LeaveKept
    <2>5. QED
        BY <2>1, <2>2, <2>3, <2>4 DEF KindsOf
<1>8. QED
    BY <1>4, <1>6, <1>7 DEF Base

LEMMA BaseStutter == ASSUME Base, UNCHANGED vars PROVE Base'
<1>1. UNCHANGED <<made, stored, th, out, back, srv, sessionid, maps, db>>
    BY DEF vars, server, past
<1>2. Grown
    BY <1>1, NothingGrown
<1>3. Typed'
    BY DEF Base, Typed, vars, maps, db, server, past, hist
<1>4. Counts'
    BY <1>1, CountsKept
<1>5. KindsOf'
    <2>1. \A u \in Thread : ThreadOk(u)'
        BY <1>1, <1>2, ThreadsKept
    <2>2. (\A f \in Elems(out) : RequestOk(f)') /\ (\A f \in Elems(back) : ReplyOk(f)')
        BY <1>2, KindsGrow DEF Base, KindsOf
    <2>3. MapsOk' /\ TempOk' /\ MsgsOk' /\ StoredOk' /\ LeaveOnce'
        BY <1>1, <1>2, MapsKept, DbKept, StoredKept, LeaveKept
    <2>4. QED
        BY <1>1, <2>1, <2>2, <2>3 DEF KindsOf
<1>6. QED
    BY <1>3, <1>4, <1>5 DEF Base

LEMMA BaseNext == ASSUME Base, [Next]_vars PROVE Base'
<1>1. CASE OnUnread
    BY <1>1, BaseOnUnread
<1>2. CASE StartLeave
    BY <1>2, BaseStartLeave
<1>3. CASE \E kind \in AllKinds : StartCall(kind)
    BY <1>3, BaseStartCall
<1>4. CASE \E t \in Thread : Go(t)
    BY <1>4, BaseStoreSessionID, BasePushBuffer, BasePutCallback, BasePutQuery DEF Go
<1>5. CASE CacheMessage
    BY <1>5, BaseCacheMessage
<1>6. CASE Read
    BY <1>6, BaseReads, BaseMessageRes, BaseMsgUnreadNoti, BaseEraseQuery, BaseNodeMessage DEF Read
<1>7. CASE Serve \/ Notify \/ Restart
    BY <1>7, BaseServe, BaseNotify, BaseRestart
<1>8. CASE UNCHANGED vars
    BY <1>8, BaseStutter
<1>9. QED
    BY <1>1, <1>2, <1>3, <1>4, <1>5, <1>6, <1>7, <1>8 DEF Next

\* Every variable keeps its type: session ids stay in the range the calls made
\* allow, every frame and every callback is of a call that was made, and every
\* message read or acknowledged is one the server has.
THEOREM TypeCorrect == Spec => []TypeOK
<1>1. Base => TypeOK
    <2> SUFFICES ASSUME Base PROVE TypeOK
        OBVIOUS
    <2>1. \A t \in Thread : Busy(t) => th[t].sid \in Sid /\ th[t].call \in Call
        BY InCall
    <2>2. CallOrNone = Call \cup {NoCall} /\ Key = Sid \cup Reserved
        BY DEF CallOrNone, Key
    <2>3. gone \in Call \cup {0}
        BY CountsNat, Numbers DEF Base, Typed
    <2>4. QED
        BY <2>1, <2>2, <2>3 DEF Base, Typed, TypeOK
<1>2. QED
    BY <1>1, BaseInit, BaseNext, PTL DEF Spec

-----------------------------------------------------------------------------
(* While no two threads were in client_send at once.                       *)

Has(t, k) == Busy(t) /\ th[t].call = k
Ran(k) == \E r \in ran : r.call = k

\* Ids reach the server in the order they were taken.
Serial ==
    /\ ~(th["main"].step \in Sending /\ th["loop"].step \in Sending)
    /\ \A i \in 1..Len(out) : out[i].sid = srv + i - 1
    /\ \A t \in Thread : th[t].step \in Sending => th[t].sid = srv + Len(out)
    /\ \A t \in Thread : th[t].step = "push" => sessionid = srv + Len(out) + 1
    /\ (\A t \in Thread : th[t].step # "push") => sessionid = srv + Len(out)

\* A thread, a frame, a callback or a temporary key ties id s to call k.
TagPut(s, k) == \E t \in Thread : Has(t, k) /\ th[t].sid = s
TagIn(q, s, k) == \E f \in Elems(q) : f.kind # "noti" /\ f.sid = s /\ f.of = k
TagMap(s, k) == cbmap[s] = k \/ mmap[s] = k
TagTemp(s, k) == temp[s] = k /\ k > gone
Tag(s, k) == TagPut(s, k) \/ TagIn(out, s, k) \/ TagIn(back, s, k) \/ TagMap(s, k) \/ TagTemp(s, k)

\* Ids and calls are tied one to one, and by this process only.
TagsUnique ==
    \A s, r \in Sid : \A k, m \in Call : Tag(s, k) /\ Tag(r, m) => (s = r <=> k = m)
TagsPast == \A s \in Sid : \A k \in Call : Tag(s, k) => s < NextId /\ k > gone

\* A call is answered once, unless with messages; and a message is read from
\* the server only after its acknowledgement.
BackOrder ==
    /\ \A i \in 1..Len(back) : back[i].kind # "noti" => back[i].sid < srv
    /\ \A i, j \in 1..Len(back) :
          i # j /\ back[i].kind # "noti" /\ back[j].kind # "noti" /\ back[i].sid = back[j].sid
             => back[i].kind = "msg"
    /\ \A i, j \in 1..Len(back) :
          back[i].kind = "msg" /\ back[j].kind = "msgres" /\ stored[back[i].id] = back[j].of
             => j < i

\* The callback of a call whose frame or answer is on the way will be put, is
\* in its map, or has run.
Kept(s, k) ==
    \/ \E t \in Thread : Has(t, k)
    \/ Ran(k)
    \/ made[k] \in {"request", "message"} /\ cbmap[s] = k
    \/ made[k] \in {"query", "relay"} /\ mmap[s] = k
    \/ made[k] = "leave" /\ cbmap[-2] = k

FrameTag(s, k) == TagIn(out, s, k) \/ TagIn(back, s, k)
FramesKept == \A s \in Sid : \A k \in Call : FrameTag(s, k) => Kept(s, k)
CacheKept ==
    th["main"].step = "cache" => cbmap[th["main"].sid] = th["main"].call \/ Ran(th["main"].call)
EraseKept == erasing # NoSid => mmap[erasing] # NoCall /\ Ran(mmap[erasing])
LeaveHeld == \A k \in Call : Kind(k, {"leave"}) /\ k > gone => cbmap[-2] = k \/ Ran(k)
CallbackKept == FramesKept /\ CacheKept /\ EraseKept /\ LeaveHeld

Acked(k) == \E i \in Id : msgs[i] = k
Here(k) == k # Peer /\ k > gone

\* The server has not seen the call.
Ahead(k) ==
    \/ \E t \in Thread : th[t].step \in Sending /\ th[t].call = k
    \/ \E s \in Sid : TagIn(out, s, k)

MessageKept ==
    \A k \in Call : Kind(k, {"message"}) /\ k > gone /\ ~Has("main", k)
                       => (\E s \in Sid : temp[s] = k) \/ Acked(k)
MessageHeld ==
    \A s \in Sid : \A k \in Call :
       Kind(k, {"message"}) /\ FrameTag(s, k) => Has("main", k) \/ temp[s] = k
StoredSeen == \A i \in 1..Len(stored) : Here(stored[i]) => ~Ahead(stored[i])
NotYetCached == \A k \in Call : Has("main", k) => \A s \in Sid : temp[s] # k
EndsEarly == ~alive => th["main"].step \in {"put", "cache"}
CachedTrue ==
    \A i \in Id : msgs[i] # NoCall /\ msgs[i] # Peer /\ msgs[i] > gone
                     => i <= Len(stored) /\ msgs[i] = stored[i]
Messages ==
    MessageKept /\ MessageHeld /\ StoredSeen /\ NotYetCached /\ EndsEarly /\ CachedTrue

Session == Serial /\ TagsUnique /\ TagsPast /\ BackOrder /\ CallbackKept /\ Messages

\* While, further, no temporary key of an earlier process can be met again.
FreshIds == \A s \in Sid : s >= NextId => temp[s] = NoCall
OwnTemp == \A s \in Sid : \A k \in Call : Tag(s, k) => temp[s] \in {NoCall, k}
Delivered(i) ==
    \/ msgs[i] = stored[i]
    \/ \E g \in Elems(back) : g.kind = "msgres" /\ g.of = stored[i] /\ g.id = i
AllDelivered == alive => \A i \in 1..Len(stored) : Here(stored[i]) => Delivered(i)
AckedOnce ==
    \A k \in Call : k > gone /\ Acked(k) =>
       /\ \A s \in Sid : temp[s] # k
       /\ ~Has("main", k)
       /\ \A f \in Elems(back) : f.kind = "msgres" => f.of # k
Clean == FreshIds /\ OwnTemp /\ AllDelivered /\ AckedOnce

Inv == Base /\ (~overlap => Session) /\ (~overlap /\ ~stale => Clean)

LEMMA TwoThreads == Thread = {"main", "loop"} /\ "main" \in Thread /\ "loop" \in Thread
BY DEF Thread

\* A call in a tag was made.
LEMMA TagMade ==
    ASSUME Base, NEW s \in Sid, NEW k \in Call, Tag(s, k)
    PROVE  k \in 1..Len(made)
<1>1. CASE TagPut(s, k)
    BY <1>1, InCall DEF TagPut, Has, Kind
<1>2. CASE TagIn(out, s, k)
    <2>1. PICK f \in Elems(out) : f.of = k
        BY <1>2 DEF TagIn
    <2>2. QED
        BY <2>1 DEF Base, KindsOf, RequestOk, Kind
<1>3. CASE TagIn(back, s, k)
    <2>1. PICK f \in Elems(back) : f.kind # "noti" /\ f.of = k
        BY <1>3 DEF TagIn
    <2>2. f \in Reply \cup Noti /\ ReplyOk(f)
        BY <2>1, ElemsIn DEF Base, Typed, KindsOf
    <2>3. QED
        BY <2>1, <2>2, ReplyFields DEF ReplyOk, Kind
<1>4. CASE TagMap(s, k)
    BY <1>4, Numbers DEF TagMap, Base, KindsOf, MapsOk, Kind
<1>5. CASE TagTemp(s, k)
    BY <1>5, Numbers DEF TagTemp, Base, KindsOf, TempOk, Kind
<1>6. QED
    BY <1>1, <1>2, <1>3, <1>4, <1>5 DEF Tag

-----------------------------------------------------------------------------
(* Ids in order.                                                           *)

LEMMA SerialKept ==
    ASSUME Serial, UNCHANGED <<th, out, srv, sessionid>>
    PROVE  Serial'
BY DEF Serial

\* The next id is the one the session counts, when nobody is in client_send.
LEMMA SessionIdNext ==
    ASSUME Base, Serial
    PROVE  /\ (\A t \in Thread : th[t].step \notin Sending) => sessionid = NextId
           /\ \A t \in Thread : th[t].step \in Sending => th[t].sid + 1 = NextId
<1>1. /\ Len(out) \in Nat /\ srv \in Nat
    BY CountsNat
<1>2. CASE \A t \in Thread : th[t].step \notin Sending
    <2>1. P("main") = 0 /\ P("loop") = 0
        BY <1>2, TwoThreads DEF P
    <2>2. \A t \in Thread : th[t].step # "push"
        BY <1>2 DEF Sending
    <2>3. QED
        BY <1>1, <1>2, <2>1, <2>2 DEF NextId, Serial
<1>3. CASE th["main"].step \in Sending
    <2>1. P("main") = 1 /\ P("loop") = 0 /\ th["loop"].step \notin Sending
        BY <1>3 DEF P, Serial
    <2>2. QED
        BY <1>1, <1>3, <2>1, TwoThreads DEF NextId, Serial
<1>4. CASE th["loop"].step \in Sending
    <2>1. P("loop") = 1 /\ P("main") = 0 /\ th["main"].step \notin Sending
        BY <1>4 DEF P, Serial
    <2>2. QED
        BY <1>1, <1>4, <2>1, TwoThreads DEF NextId, Serial
<1>5. QED
    BY <1>2, <1>3, <1>4, TwoThreads

LEMMA SerialSend ==
    ASSUME Base, Serial, NEW t \in Thread, NEW kind, NEW id, Begins(t, kind, id),
           Send(t, kind, id), ~Busy(t), ~overlap', UNCHANGED <<out, srv, sessionid>>
    PROVE  Serial' /\ (\A u \in Thread : th[u].step \notin Sending)
<1>1. \A u \in Thread : u # t => th[u].step \notin Sending
    BY DEF Send, Sending
<1>2. th[t].step \notin Sending
    BY DEF Busy, Idle, Sending
<1>3. \A u \in Thread : th[u].step \notin Sending
    BY <1>1, <1>2
<1>4. \A u \in Thread : u # t => th'[u].step \notin Sending
    BY <1>1 DEF Begins
<1>5. \A u \in Thread : th[u].step # "push"
    BY <1>3 DEF Sending
<1>6. sessionid = srv + Len(out)
    BY <1>5 DEF Serial
<1>7. \A u \in Thread : th'[u].step # "push"
    BY <1>4 DEF Begins, Sending
<1>8. Serial'
    BY <1>4, <1>6, <1>7, TwoThreads DEF Serial, Begins
<1>9. QED
    BY <1>3, <1>8

LEMMA SerialStore ==
    ASSUME Base, Serial, NEW t \in Thread, th[t].step = "store", Moves(t, "push"),
           sessionid' = th[t].sid + 1, UNCHANGED <<out, srv>>
    PROVE  Serial'
<1>1. \A u \in Thread : u # t => th[u].step \notin Sending
    BY TwoThreads DEF Serial, Sending
<1>2. th[t].sid = srv + Len(out)
    BY DEF Serial, Sending
<1>3. \A u \in Thread : u # t => th'[u].step \notin Sending
    BY <1>1 DEF Moves
<1>4. th'[t].step = "push" /\ th'[t].sid = th[t].sid /\ sessionid' = srv + Len(out) + 1
    BY <1>2 DEF Moves
<1>5. QED
    BY <1>2, <1>3, <1>4, TwoThreads DEF Serial, Sending

LEMMA SerialPush ==
    ASSUME Base, Serial, NEW t \in Thread, th[t].step = "push", NEW f, f \in Request,
           f.sid = th[t].sid, out' = Append(out, f), th'[t].step \notin Sending,
           \A u \in Thread : u # t => th'[u] = th[u], UNCHANGED <<srv, sessionid>>
    PROVE  Serial'
<1>1. PICK n, q : n = Len(out) /\ q = out'
    OBVIOUS
<1>2. /\ n \in Nat /\ Len(q) = n + 1 /\ (\A i \in 1..n : q[i] = out[i]) /\ q[n + 1] = f
    BY <1>1, PutLast DEF Base, Typed
<1>3. \A u \in Thread : u # t => th[u].step \notin Sending
    BY TwoThreads DEF Serial, Sending
<1>4. \A u \in Thread : th'[u].step \notin Sending
    BY <1>3
<1>5. th[t].sid = srv + n /\ sessionid = srv + n + 1
    BY <1>1 DEF Serial, Sending
<1>6. srv \in Nat
    BY CountsNat
<1>7. \A i \in 1..(n + 1) : q[i].sid = srv + i - 1
    <2>1. \A i \in 1..n : q[i].sid = srv + i - 1
        BY <1>1, <1>2 DEF Serial
    <2>2. q[n + 1].sid = srv + (n + 1) - 1
        BY <1>2, <1>5, <1>6
    <2>3. \A i \in 1..(n + 1) : i \in 1..n \/ i = n + 1
        BY <1>2
    <2>4. QED
        BY <2>1, <2>2, <2>3
<1>8. sessionid' = srv' + Len(out')
    BY <1>1, <1>2, <1>5, <1>6
<1>9. QED
    BY <1>1, <1>2, <1>4, <1>7, <1>8, TwoThreads DEF Serial, Sending

LEMMA SerialAfter ==
    ASSUME Serial, NEW t \in Thread, NEW x, After(t, x), UNCHANGED <<out, srv, sessionid>>
    PROVE  Serial'
<1>1. /\ th[t].step \notin Sending /\ th'[t].step \notin Sending
      /\ \A u \in Thread : u # t => th'[u] = th[u]
    BY DEF After, Moves, Frees, Sending, Idle
<1>2. \A u \in Thread : th'[u].step \in Sending => th[u].step \in Sending /\ th'[u] = th[u]
    BY <1>1
<1>3. (\A u \in Thread : th'[u].step # "push") <=> (\A u \in Thread : th[u].step # "push")
    BY <1>1 DEF Sending
<1>4. QED
    BY <1>2, <1>3, TwoThreads DEF Serial, Sending

LEMMA SerialServe ==
    ASSUME Base, Serial, NEW f, NEW a, NEW s, Served(f, a, s)
    PROVE  Serial' /\ s = srv /\ s = f.sid
<1>1. PICK n, q : n = Len(out) /\ q = out'
    OBVIOUS
<1>2. /\ n \in Nat /\ n > 0 /\ Len(q) = n - 1 /\ f = out[1]
      /\ \A i \in 1..(n - 1) : q[i] = out[i + 1]
      /\ srv' = srv + 1 /\ UNCHANGED <<th, sessionid>>
    BY <1>1 DEF Served
<1>3. srv \in Nat
    BY CountsNat
<1>4. \A i \in 1..(n - 1) : i + 1 \in 1..n
    BY <1>2
<1>5. \A i \in 1..(n - 1) : q[i].sid = srv' + i - 1
    <2> SUFFICES ASSUME NEW i \in 1..(n - 1) PROVE q[i].sid = srv' + i - 1
        OBVIOUS
    <2>1. out[i + 1].sid = srv + (i + 1) - 1
        BY <1>1, <1>4 DEF Serial
    <2>2. QED
        BY <1>2, <1>3, <2>1
<1>6. srv' + Len(out') = srv + Len(out)
    BY <1>1, <1>2, <1>3
<1>7. Serial'
    BY <1>1, <1>2, <1>5, <1>6 DEF Serial
<1>8. f.sid = srv
    <2>1. 1 \in 1..n
        BY <1>2
    <2>2. out[1].sid = srv + 1 - 1
        BY <1>1, <2>1 DEF Serial
    <2>3. QED
        BY <1>2, <1>3, <2>2
<1>9. QED
    BY <1>7, <1>8 DEF Served

-----------------------------------------------------------------------------
(* The steps, grouped by what they do.                                     *)

\* A thread enters client_send: a call of the application, or the query of a
\* notification.
Sends(t, kind, id) ==
    /\ t \in Thread /\ ~Busy(t) /\ kind \in SendKinds /\ Send(t, kind, id) /\ alive
    /\ Begins(t, kind, id)
    /\ t = "loop" <=> kind = "relay"
    /\ Grown /\ Len(made) \in Nat /\ Len(made') = Len(made) + 1 /\ Len(made) + 1 \in Call
    /\ made'[Len(made) + 1] = kind
    /\ NextId' = NextId + 1
    /\ UNCHANGED <<mmap, db, sessionid, erasing, alive, out, srv, stored, gone, hist>>
    /\ UNCHANGED back \/ Reads("noti")
    /\ \/ UNCHANGED cbmap /\ kind # "leave"
       \/ /\ kind = "leave" /\ \A k \in 1..Len(made) : made[k] # "leave"
          /\ cbmap' = [cbmap EXCEPT ![-2] = Len(made')]

LEMMA StartSends ==
    ASSUME Base, NEW kind \in Kinds, Start(kind), kind # "onunread",
           \/ UNCHANGED cbmap /\ kind # "leave"
           \/ kind = "leave" /\ cbmap' = [cbmap EXCEPT ![-2] = Len(made')]
    PROVE  Sends("main", kind, 0)
<1>1. /\ RoomToCall /\ alive /\ ~Busy("main") /\ "leave" \notin ToSet(made) /\ Send("main", kind, 0)
      /\ UNCHANGED <<mmap, db, sessionid, erasing, alive, out, back, server,
                     gone, restarts, hist>>
    BY DEF Start, MayCall
<1>2. UNCHANGED <<stored, srv>>
    BY <1>1 DEF server
<1>3. kind \in SendKinds /\ kind # "relay" /\ "main" \in Thread
    BY KvDbAssumption DEF SendKinds, AllKinds, Thread
<1>4. /\ Grown /\ Len(made) \in Nat /\ Len(made') = Len(made) + 1
      /\ Len(made) + 1 \in Call /\ made'[Len(made) + 1] = kind
      /\ Begins("main", kind, 0) /\ NextId' = NextId + 1
    BY <1>1, <1>2, <1>3, SendsOk
<1>5. \A k \in 1..Len(made) : made[k] # "leave"
    BY <1>1 DEF ToSet
<1>6. QED
    BY <1>1, <1>2, <1>3, <1>4, <1>5 DEF Sends

LEMMA NotiSends ==
    ASSUME Base, MsgUnreadNoti
    PROVE  Sends("loop", "relay", Head(back).id)
<1>1. PICK i : i = Head(back).id
    OBVIOUS
<1>2. /\ Reads("noti") /\ RoomToCall /\ Send("loop", "relay", i)
      /\ UNCHANGED <<maps, db, sessionid, erasing, alive, out, server, gone, restarts, hist>>
    BY <1>1 DEF MsgUnreadNoti
<1>3. UNCHANGED <<stored, srv, mmap, cbmap>>
    BY <1>2 DEF server, maps
<1>4. /\ alive /\ ~Busy("loop") /\ "loop" \in Thread /\ i \in 1..Len(stored)
    BY <1>1, <1>2, Takes DEF ReplyOk
<1>5. i \in Id
    <2>1. Len(stored) \in Nat /\ Len(stored) <= Bound
        BY LenProperties DEF Base, Typed
    <2>2. QED
        BY <1>4, <2>1, Numbers
<1>6. "relay" \in SendKinds /\ i \in Id \cup {0} /\ "relay" # "leave"
    BY <1>5 DEF SendKinds
<1>7. /\ Grown /\ Len(made) \in Nat /\ Len(made') = Len(made) + 1
      /\ Len(made) + 1 \in Call /\ made'[Len(made) + 1] = "relay"
      /\ Begins("loop", "relay", i) /\ NextId' = NextId + 1
    BY <1>2, <1>3, <1>4, <1>6, SendsOk
<1>8. Sends("loop", "relay", i)
    BY <1>2, <1>3, <1>4, <1>6, <1>7 DEF Sends
<1>9. QED
    BY <1>1, <1>8

\* An answer that only calls back.
JustReads(kind, key) ==
    /\ kind \in {"res", "error", "leaveres"} /\ key \in Key
    /\ kind = "leaveres" => key = -2
    /\ kind # "leaveres" => key = Head(back).sid
    /\ Reads(kind) /\ CallErase(key, Head(back).of) /\ JustCalls

LEMMA ReadsJust ==
    ASSUME Base, ReadRes \/ ReadError \/ ReadLeave
    PROVE  \E kind, key : JustReads(kind, key)
<1>1. CASE ReadRes
    <2>1. JustReads("res", Head(back).sid)
        BY <1>1, Takes, Numbers DEF ReadRes, JustReads
    <2>2. QED
        BY <2>1
<1>2. CASE ReadError
    <2>1. JustReads("error", Head(back).sid)
        BY <1>2, Takes, Numbers DEF ReadError, JustReads
    <2>2. QED
        BY <2>1
<1>3. CASE ReadLeave
    <2>1. JustReads("leaveres", -2)
        BY <1>3, Numbers DEF ReadLeave, JustReads, KeyOf
    <2>2. QED
        BY <2>1
<1>4. QED
    BY <1>1, <1>2, <1>3

-----------------------------------------------------------------------------
(* Tags.                                                                   *)

\* The tags after a step are tags before it.
FewerTags == \A s \in Sid : \A k \in Call : Tag(s, k)' => Tag(s, k)

LEMMA TagsKept ==
    ASSUME Base, TagsUnique, TagsPast, FewerTags, gone' = gone, NextId' = NextId
    PROVE  TagsUnique' /\ TagsPast'
<1>1. TagsUnique'
    BY DEF TagsUnique, FewerTags
<1>2. TagsPast'
    BY DEF TagsPast, FewerTags
<1>3. QED
    BY <1>1, <1>2

LEMMA FewerIn ==
    ASSUME NEW q, NEW r, Elems(r) \subseteq Elems(q)
    PROVE  \A s, k : TagIn(r, s, k) => TagIn(q, s, k)
BY DEF TagIn

LEMMA FewerMaps ==
    ASSUME Base,
           \A s \in Sid : cbmap'[s] \in {NoCall, cbmap[s]} /\ mmap'[s] \in {NoCall, mmap[s]}
    PROVE  \A s \in Sid : \A k \in Call : TagMap(s, k)' => TagMap(s, k)
BY Numbers DEF TagMap

LEMMA FewerTemp ==
    ASSUME Base, \A s \in Sid : temp'[s] \in {NoCall, temp[s]}, gone' = gone
    PROVE  \A s \in Sid : \A k \in Call : TagTemp(s, k)' => TagTemp(s, k)
BY Numbers DEF TagTemp

\* A step that adds no frame, callback or key and starts no call.
LEMMA NoNewTags ==
    ASSUME Base,
           \A t \in Thread : Busy(t)' => /\ Busy(t) /\ th'[t].sid = th[t].sid
                                         /\ th'[t].call = th[t].call,
           Elems(out') \subseteq Elems(out), Elems(back') \subseteq Elems(back),
           \A s \in Sid : cbmap'[s] \in {NoCall, cbmap[s]} /\ mmap'[s] \in {NoCall, mmap[s]},
           \A s \in Sid : temp'[s] \in {NoCall, temp[s]}, gone' = gone
    PROVE  FewerTags
<1> SUFFICES ASSUME NEW s \in Sid, NEW k \in Call, Tag(s, k)' PROVE Tag(s, k)
    BY DEF FewerTags
<1>1. CASE TagPut(s, k)'
    BY <1>1 DEF Tag, TagPut, Has
<1>2. CASE TagIn(out, s, k)'
    <2>1. TagIn(out, s, k)
        BY <1>2 DEF TagIn
    <2>2. QED
        BY <2>1 DEF Tag
<1>3. CASE TagIn(back, s, k)'
    <2>1. TagIn(back, s, k)
        BY <1>3 DEF TagIn
    <2>2. QED
        BY <2>1 DEF Tag
<1>4. CASE TagMap(s, k)'
    BY <1>4, FewerMaps DEF Tag
<1>5. CASE TagTemp(s, k)'
    BY <1>5, FewerTemp DEF Tag
<1>6. QED
    BY <1>1, <1>2, <1>3, <1>4, <1>5 DEF Tag

\* A new call takes an id that is tied to none.
LEMMA SendsTags ==
    ASSUME Base, Serial, TagsUnique, TagsPast, ~overlap', NEW t, NEW kind, NEW id,
           Sends(t, kind, id)
    PROVE  /\ TagsUnique' /\ TagsPast' /\ sessionid = NextId
           /\ \A s \in Sid : \A k \in Call :
                 Tag(s, k)' => Tag(s, k) \/ (s = NextId /\ k = Len(made) + 1)
<1>1. PICK n \in Nat : n = Len(made)
    BY CountsNat
<1>2. PICK d \in Nat : d = NextId
    BY CountsNat
<1>3. sessionid = d
    <2>1. \A u \in Thread : th[u].step \notin Sending
        BY SerialSend DEF Sends
    <2>2. QED
        BY <1>2, <2>1, SessionIdNext
<1>4. /\ gone' = gone /\ gone \in Nat /\ gone <= n /\ NextId' = d + 1
    BY <1>1, <1>2 DEF Sends, Base, Typed
<1>5. ASSUME NEW s \in Sid, NEW k \in Call, Tag(s, k)'
      PROVE  Tag(s, k) \/ (s = d /\ k = n + 1)
    <2>1. CASE TagPut(s, k)'
        <3>1. PICK u \in Thread : Has(u, k)' /\ th'[u].sid = s
            BY <2>1 DEF TagPut
        <3>2. CASE u = t
            BY <1>1, <1>3, <3>1, <3>2 DEF Has, Sends, Begins
        <3>3. CASE u # t
            <4>1. Has(u, k) /\ th[u].sid = s
                BY <3>1, <3>3 DEF Has, Busy, Sends, Begins
            <4>2. QED
                BY <4>1 DEF Tag, TagPut
        <3>4. QED
            BY <3>2, <3>3
    <2>2. CASE TagIn(out, s, k)'
        BY <2>2 DEF Tag, Sends, TagIn
    <2>3. CASE TagIn(back, s, k)'
        <3>1. Elems(back') \subseteq Elems(back)
            BY Takes DEF Sends
        <3>2. TagIn(back, s, k)
            BY <2>3, <3>1 DEF TagIn
        <3>3. QED
            BY <3>2 DEF Tag
    <2>4. CASE TagMap(s, k)'
        <3>1. cbmap'[s] = cbmap[s] /\ mmap' = mmap
            BY Numbers DEF Sends, Base, Typed
        <3>2. QED
            BY <2>4, <3>1 DEF TagMap, Tag
    <2>5. CASE TagTemp(s, k)'
        BY <2>5 DEF Tag, TagTemp, Sends, db
    <2>6. QED
        BY <1>5, <2>1, <2>2, <2>3, <2>4, <2>5 DEF Tag
<1>6. \A s \in Sid : \A k \in Call : Tag(s, k) => s < d /\ k > gone /\ k <= n
    BY <1>1, <1>2, TagMade DEF TagsPast
<1>7. TagsPast'
    <2>1. ASSUME NEW s \in Sid, NEW k \in Call, Tag(s, k)' PROVE s < d + 1 /\ k > gone
        <3>1. CASE Tag(s, k)
            <4>1. s < d /\ k > gone
                BY <1>6, <3>1
            <4>2. QED
                BY <1>2, <4>1, Numbers
        <3>2. CASE s = d /\ k = n + 1
            BY <1>1, <1>2, <1>4, <3>2
        <3>3. QED
            BY <1>5, <2>1, <3>1, <3>2
    <2>2. QED
        BY <1>4, <2>1 DEF TagsPast
<1>8. TagsUnique'
    <2>1. ASSUME NEW s \in Sid, NEW r \in Sid, NEW k \in Call, NEW m \in Call,
                 Tag(s, k)', Tag(r, m)'
          PROVE  s = r <=> k = m
        <3>1. (Tag(s, k) \/ (s = d /\ k = n + 1)) /\ (Tag(r, m) \/ (r = d /\ m = n + 1))
            BY <1>5, <2>1
        <3>2. CASE Tag(s, k) /\ Tag(r, m)
            BY <3>2 DEF TagsUnique
        <3>3. CASE Tag(s, k) /\ (r = d /\ m = n + 1)
            BY <1>1, <1>2, <1>6, <3>3, Numbers
        <3>4. CASE Tag(r, m) /\ (s = d /\ k = n + 1)
            BY <1>1, <1>2, <1>6, <3>4, Numbers
        <3>5. QED
            BY <3>1, <3>2, <3>3, <3>4
    <2>2. QED
        BY <2>1 DEF TagsUnique
<1>9. QED
    BY <1>1, <1>2, <1>3, <1>5, <1>7, <1>8

LEMMA Stores ==
    ASSUME Base, NEW t \in Thread, StoreSessionID(t)
    PROVE  /\ Busy(t) /\ Moves(t, "push") /\ th[t].step = "store" /\ sessionid' = th[t].sid + 1
           /\ NextId' = NextId /\ alive
           /\ UNCHANGED <<maps, db, erasing, alive, out, back, server, past, hist, overlap>>
<1>1. /\ th[t].step = "store" /\ sessionid' = th[t].sid + 1 /\ alive
      /\ th' = [th EXCEPT ![t] = [@ EXCEPT !.step = "push"]]
      /\ UNCHANGED <<maps, db, erasing, alive, out, back, server, past, hist, overlap>>
    BY DEF StoreSessionID, NextSid
<1>2. Busy(t)
    BY <1>1, StepBusy
<1>3. Moves(t, "push")
    BY <1>1, <1>2, MovesOn
<1>4. P(t) = 1 /\ P(t)' = 1 /\ UNCHANGED srv
    BY <1>1, <1>3 DEF P, Sending, Moves, server
<1>5. NextId' = NextId
    BY <1>1, <1>3, <1>4, NextIdOf, CountsNat DEF Moves
<1>6. QED
    BY <1>1, <1>2, <1>3, <1>5

LEMMA Pushes ==
    ASSUME Base, NEW t \in Thread, PushBuffer(t), NEW f,
           f = [kind |-> th[t].kind, sid |-> th[t].sid, of |-> th[t].call, id |-> th[t].id]
    PROVE  /\ Busy(t) /\ th[t].step = "push" /\ out' = Append(out, f) /\ f \in Request /\ alive
           /\ f.sid = th[t].sid /\ f.of = th[t].call /\ f.kind = th[t].kind
           /\ Elems(out') = Elems(out) \cup {f} /\ NextId' = NextId
           /\ \/ th[t].kind = "leave" /\ Frees(t)
              \/ th[t].kind # "leave" /\ Moves(t, "put")
           /\ th'[t].step \notin Sending
           /\ UNCHANGED <<maps, db, sessionid, erasing, alive, back, server, past, hist, overlap>>
<1>1. /\ th[t].step = "push" /\ out' = Append(out, f) /\ alive
      /\ UNCHANGED <<maps, db, sessionid, erasing, alive, back, server, past, hist, overlap>>
    BY DEF PushBuffer
<1>2. Busy(t)
    BY <1>1, StepBusy
<1>3. \/ th[t].kind = "leave" /\ Frees(t)
      \/ th[t].kind # "leave" /\ Moves(t, "put")
    <2>1. CASE th[t].kind = "leave"
        <3>1. th' = [th EXCEPT ![t] = Idle]
            BY <2>1 DEF PushBuffer
        <3>2. QED
            BY <2>1, <3>1, FreesUp
    <2>2. CASE th[t].kind # "leave"
        <3>1. th' = [th EXCEPT ![t] = [@ EXCEPT !.step = "put"]]
            BY <2>2 DEF PushBuffer
        <3>2. QED
            BY <1>2, <2>2, <3>1, MovesOn
    <2>3. QED
        BY <2>1, <2>2
<1>4. /\ th[t].kind \in SendKinds /\ th[t].sid \in Sid /\ th[t].call \in Call
      /\ th[t].id \in Id \cup {0}
    BY <1>2, InCall
<1>5. f \in Request /\ f.sid = th[t].sid /\ f.of = th[t].call /\ f.kind = th[t].kind
    BY <1>4 DEF Request
<1>6. /\ Len(out) \in Nat /\ Len(out') = Len(out) + 1
      /\ Elems(out') = Elems(out) \cup {f}
    BY <1>1, <1>5, PutLast DEF Base, Typed
<1>7. /\ P(t) = 1 /\ P(t)' = 0 /\ th'[t].step \notin Sending
      /\ \A u \in Thread : u # t => th'[u] = th[u]
    BY <1>1, <1>3 DEF P, Sending, Moves, Frees, Idle
<1>8. NextId' = NextId
    <2>1. srv \in Nat /\ srv' \in Nat /\ Len(out') \in Nat /\ srv' = srv
        BY <1>1, <1>6, CountsNat DEF server
    <2>2. PICK o \in {0, 1} : /\ NextId = srv + Len(out) + P(t) + o
                             /\ NextId' = srv' + Len(out') + P(t)' + o
        BY <1>7, <2>1, NextIdOf
    <2>3. QED
        BY <1>6, <1>7, <2>1, <2>2
<1>9. QED
    BY <1>1, <1>2, <1>3, <1>5, <1>6, <1>7, <1>8

\* Threads that go on or end keep their calls.
LEMMA SameCalls ==
    ASSUME NEW t \in Thread, Busy(t), Frees(t) \/ \E x : Moves(t, x)
    PROVE  /\ \A u \in Thread : Busy(u)' => /\ Busy(u) /\ th'[u].sid = th[u].sid
                                            /\ th'[u].call = th[u].call
           /\ \A u \in Thread : u # t => th'[u] = th[u]
BY DEF Frees, Moves, Busy

LEMMA TagsOnUnread == ASSUME Base, OnUnread PROVE FewerTags /\ NextId' = NextId /\ gone' = gone
<1>1. /\ cbmap' = [cbmap EXCEPT ![-3] = Len(made')]
      /\ UNCHANGED <<mmap, db, th, out, back, server, gone>>
    BY DEF OnUnread, KeyOf
<1>2. \A s \in Sid : cbmap'[s] = cbmap[s] /\ mmap'[s] = mmap[s] /\ temp'[s] = temp[s]
    BY <1>1, Numbers DEF Base, Typed, db
<1>3. FewerTags
    BY <1>1, <1>2, NoNewTags DEF Busy
<1>4. NextId' = NextId
    BY <1>1, NextIdKept DEF server
<1>5. QED
    BY <1>1, <1>3, <1>4

LEMMA TagsStore ==
    ASSUME Base, NEW t \in Thread, StoreSessionID(t)
    PROVE  FewerTags /\ NextId' = NextId /\ gone' = gone
<1>1. /\ Busy(t) /\ Moves(t, "push") /\ NextId' = NextId
      /\ UNCHANGED <<maps, db, out, back, past>>
    BY Stores
<1>2. UNCHANGED <<cbmap, mmap, temp, gone>>
    BY <1>1 DEF maps, db, past
<1>3. \A u \in Thread : Busy(u)' => /\ Busy(u) /\ th'[u].sid = th[u].sid
                                    /\ th'[u].call = th[u].call
    BY <1>1, SameCalls
<1>4. FewerTags
    BY <1>1, <1>2, <1>3, NoNewTags
<1>5. QED
    BY <1>1, <1>2, <1>4

LEMMA TagsPush ==
    ASSUME Base, NEW t \in Thread, PushBuffer(t)
    PROVE  FewerTags /\ NextId' = NextId /\ gone' = gone
<1>1. PICK f : f = [kind |-> th[t].kind, sid |-> th[t].sid, of |-> th[t].call, id |-> th[t].id]
    OBVIOUS
<1>2. /\ Busy(t) /\ NextId' = NextId /\ Elems(out') = Elems(out) \cup {f}
      /\ f.sid = th[t].sid /\ f.of = th[t].call
      /\ Frees(t) \/ Moves(t, "put")
      /\ UNCHANGED <<maps, db, back, past>>
    BY <1>1, Pushes
<1>3. \A u \in Thread : Busy(u)' => /\ Busy(u) /\ th'[u].sid = th[u].sid
                                    /\ th'[u].call = th[u].call
    BY <1>2, SameCalls
<1>4. ASSUME NEW s \in Sid, NEW k \in Call, Tag(s, k)' PROVE Tag(s, k)
    <2>1. CASE TagPut(s, k)'
        BY <1>3, <2>1 DEF TagPut, Has, Tag
    <2>2. CASE TagIn(out, s, k)'
        <3>1. TagIn(out, s, k) \/ (f.sid = s /\ f.of = k)
            BY <1>2, <2>2 DEF TagIn
        <3>2. QED
            BY <1>2, <3>1 DEF Tag, TagPut, Has
    <2>3. CASE TagIn(back, s, k)' \/ TagMap(s, k)' \/ TagTemp(s, k)'
        BY <1>2, <2>3 DEF Tag, TagIn, TagMap, TagTemp, maps, db, past
    <2>4. QED
        BY <1>4, <2>1, <2>2, <2>3 DEF Tag
<1>5. QED
    BY <1>2, <1>4 DEF FewerTags, past

LEMMA TagsPutCallback ==
    ASSUME Base, NEW t \in Thread, PutCallback(t)
    PROVE  FewerTags /\ NextId' = NextId /\ gone' = gone
<1>1. /\ Busy(t) /\ After(t, "cache") /\ Grown
      /\ cbmap' = [cbmap EXCEPT ![th[t].sid] = th[t].call]
      /\ UNCHANGED <<mmap, db, sessionid, out, back, server, past>>
    BY PutsCallback DEF PutCallback
<1>2. UNCHANGED <<gone, made, srv, temp>>
    BY <1>1 DEF past, server, db
<1>3. NextId' = NextId
    BY <1>1, <1>2, AfterOk
<1>4. \A u \in Thread : Busy(u)' => /\ Busy(u) /\ th'[u].sid = th[u].sid
                                    /\ th'[u].call = th[u].call
    BY <1>1, SameCalls DEF After
<1>5. ASSUME NEW s \in Sid, NEW k \in Call, Tag(s, k)' PROVE Tag(s, k)
    <2>1. CASE TagPut(s, k)'
        BY <1>4, <2>1 DEF TagPut, Has, Tag
    <2>2. CASE TagMap(s, k)'
        <3>1. TagMap(s, k) \/ (th[t].sid = s /\ th[t].call = k)
            <4>1. cbmap'[s] = cbmap[s] \/ (th[t].sid = s /\ cbmap'[s] = th[t].call)
                BY <1>1, Numbers DEF Base, Typed
            <4>2. QED
                BY <1>1, <2>2, <4>1 DEF TagMap
        <3>2. QED
            BY <1>1, <3>1 DEF Tag, TagPut, Has
    <2>3. CASE TagIn(out, s, k)' \/ TagIn(back, s, k)' \/ TagTemp(s, k)'
        BY <1>1, <1>2, <2>3 DEF Tag, TagIn, TagTemp
    <2>4. QED
        BY <1>5, <2>1, <2>2, <2>3 DEF Tag
<1>6. QED
    BY <1>2, <1>3, <1>5 DEF FewerTags

LEMMA TagsPutQuery ==
    ASSUME Base, NEW t \in Thread, PutQuery(t)
    PROVE  FewerTags /\ NextId' = NextId /\ gone' = gone
<1>1. /\ Busy(t) /\ After(t, "cache") /\ Grown
      /\ mmap' = [mmap EXCEPT ![th[t].sid] = th[t].call]
      /\ UNCHANGED <<cbmap, db, sessionid, out, back, server, past>>
    BY PutsQuery DEF PutQuery
<1>2. UNCHANGED <<gone, made, srv, temp>>
    BY <1>1 DEF past, server, db
<1>3. NextId' = NextId
    BY <1>1, <1>2, AfterOk
<1>4. \A u \in Thread : Busy(u)' => /\ Busy(u) /\ th'[u].sid = th[u].sid
                                    /\ th'[u].call = th[u].call
    BY <1>1, SameCalls DEF After
<1>5. ASSUME NEW s \in Sid, NEW k \in Call, Tag(s, k)' PROVE Tag(s, k)
    <2>1. CASE TagPut(s, k)'
        BY <1>4, <2>1 DEF TagPut, Has, Tag
    <2>2. CASE TagMap(s, k)'
        <3>1. TagMap(s, k) \/ (th[t].sid = s /\ th[t].call = k)
            <4>1. mmap'[s] = mmap[s] \/ (th[t].sid = s /\ mmap'[s] = th[t].call)
                BY <1>1 DEF Base, Typed
            <4>2. QED
                BY <1>1, <2>2, <4>1 DEF TagMap
        <3>2. QED
            BY <1>1, <3>1 DEF Tag, TagPut, Has
    <2>3. CASE TagIn(out, s, k)' \/ TagIn(back, s, k)' \/ TagTemp(s, k)'
        BY <1>1, <1>2, <2>3 DEF Tag, TagIn, TagTemp
    <2>4. QED
        BY <1>5, <2>1, <2>2, <2>3 DEF Tag
<1>6. QED
    BY <1>2, <1>3, <1>5 DEF FewerTags

LEMMA TagsCacheMessage ==
    ASSUME Base, CacheMessage
    PROVE  FewerTags /\ NextId' = NextId /\ gone' = gone
<1>1. PICK t : t = "main"
    OBVIOUS
<1>2. /\ t \in Thread /\ Busy(t) /\ After(t, "cache") /\ Grown
      /\ temp' = [temp EXCEPT ![th[t].sid] = th[t].call]
      /\ UNCHANGED <<maps, sessionid, out, back, server, past>>
    BY <1>1, Caches DEF CacheMessage
<1>3. UNCHANGED <<gone, made, srv, cbmap, mmap>>
    BY <1>2 DEF past, server, maps
<1>4. NextId' = NextId
    BY <1>2, <1>3, AfterOk
<1>5. \A u \in Thread : Busy(u)' => /\ Busy(u) /\ th'[u].sid = th[u].sid
                                    /\ th'[u].call = th[u].call
    BY <1>2, SameCalls DEF After
<1>6. ASSUME NEW s \in Sid, NEW k \in Call, Tag(s, k)' PROVE Tag(s, k)
    <2>1. CASE TagPut(s, k)'
        BY <1>5, <2>1 DEF TagPut, Has, Tag
    <2>2. CASE TagTemp(s, k)'
        <3>1. TagTemp(s, k) \/ (th[t].sid = s /\ th[t].call = k)
            <4>1. temp'[s] = temp[s] \/ (th[t].sid = s /\ temp'[s] = th[t].call)
                BY <1>2 DEF Base, Typed
            <4>2. QED
                BY <1>3, <2>2, <4>1 DEF TagTemp
        <3>2. QED
            BY <1>2, <3>1 DEF Tag, TagPut, Has
    <2>3. CASE TagIn(out, s, k)' \/ TagIn(back, s, k)' \/ TagMap(s, k)'
        BY <1>2, <1>3, <2>3 DEF Tag, TagIn, TagMap
    <2>4. QED
        BY <1>6, <2>1, <2>2, <2>3 DEF Tag
<1>7. QED
    BY <1>3, <1>4, <1>6 DEF FewerTags

LEMMA TagsJustReads ==
    ASSUME Base, NEW kind, NEW key, JustReads(kind, key)
    PROVE  FewerTags /\ NextId' = NextId /\ gone' = gone
<1>1. UNCHANGED <<mmap, db, sessionid, th, erasing, alive, out, server, past, overlap>>
    BY DEF JustCalls, JustReads
<1>2. UNCHANGED <<srv, temp, gone>>
    BY <1>1 DEF past, server, db
<1>3. Head(back).of \in Call /\ Elems(back') \subseteq Elems(back)
    BY Takes DEF JustReads
<1>4. \A s \in Sid : cbmap'[s] \in {NoCall, cbmap[s]}
    BY <1>3, Erases, Numbers DEF JustReads
<1>5. FewerTags
    BY <1>1, <1>2, <1>3, <1>4, NoNewTags DEF Busy
<1>6. NextId' = NextId
    BY <1>1, <1>2, NextIdKept
<1>7. QED
    BY <1>2, <1>5, <1>6

LEMMA TagsMessageRes ==
    ASSUME Base, MessageRes
    PROVE  FewerTags /\ NextId' = NextId /\ gone' = gone
<1>1. PICK s, k, i : s = Head(back).sid /\ k = Head(back).of /\ i = Head(back).id
    OBVIOUS
<1>2. /\ s \in Sid /\ k \in Call /\ i \in Id
      /\ Acknowledges(s, k, i) \/ Throws(s)
      /\ UNCHANGED <<mmap, sessionid, th, erasing, out, server, past, overlap>>
    BY <1>1, ReadsAck
<1>3. UNCHANGED <<gone, srv>>
    BY <1>2 DEF past, server
<1>4. Elems(back') \subseteq Elems(back)
    BY Takes DEF MessageRes
<1>5. \A x \in Sid : cbmap'[x] \in {NoCall, cbmap[x]} /\ temp'[x] \in {NoCall, temp[x]}
    <2>1. CASE Acknowledges(s, k, i)
        <3>1. s \in Key
            BY <1>2, Numbers
        <3>2. \A x \in Sid : cbmap'[x] \in {NoCall, cbmap[x]}
            BY <1>2, <2>1, <3>1, Erases, Numbers DEF Acknowledges
        <3>3. \A x \in Sid : temp'[x] \in {NoCall, temp[x]}
            BY <1>2, <2>1 DEF Acknowledges, Base, Typed
        <3>4. QED
            BY <3>2, <3>3
    <2>2. CASE Throws(s)
        BY <2>2 DEF Throws
    <2>3. QED
        BY <1>2, <2>1, <2>2
<1>6. FewerTags
    BY <1>2, <1>3, <1>4, <1>5, NoNewTags DEF Busy
<1>7. NextId' = NextId
    BY <1>2, <1>3, NextIdKept
<1>8. QED
    BY <1>3, <1>6, <1>7

LEMMA TagsNodeMessage ==
    ASSUME Base, NEW isStop \in BOOLEAN, NodeMessage(isStop)
    PROVE  FewerTags /\ NextId' = NextId /\ gone' = gone
<1>1. UNCHANGED <<maps, temp, sessionid, th, alive, out, server, past, overlap>>
    BY DEF NodeMessage
<1>2. UNCHANGED <<gone, srv, cbmap, mmap>>
    BY <1>1 DEF past, server, maps
<1>3. Elems(back') \subseteq Elems(back)
    BY Takes DEF NodeMessage
<1>4. FewerTags
    BY <1>1, <1>2, <1>3, NoNewTags DEF Busy
<1>5. NextId' = NextId
    BY <1>1, <1>2, NextIdKept
<1>6. QED
    BY <1>2, <1>4, <1>5

LEMMA TagsEraseQuery ==
    ASSUME Base, EraseQuery
    PROVE  FewerTags /\ NextId' = NextId /\ gone' = gone
<1>1. /\ mmap' = [mmap EXCEPT ![erasing] = NoCall]
      /\ UNCHANGED <<cbmap, db, sessionid, th, alive, out, back, server, past>>
    BY DEF EraseQuery
<1>2. UNCHANGED <<gone, srv, temp>>
    BY <1>1 DEF past, server, db
<1>3. \A s \in Sid : mmap'[s] \in {NoCall, mmap[s]}
    BY <1>1 DEF Base, Typed
<1>4. FewerTags
    BY <1>1, <1>2, <1>3, NoNewTags DEF Busy
<1>5. NextId' = NextId
    BY <1>1, <1>2, NextIdKept
<1>6. QED
    BY <1>2, <1>4, <1>5

LEMMA TagsServe ==
    ASSUME Base, Serial, NEW f, NEW a, NEW s, Served(f, a, s)
    PROVE  FewerTags /\ NextId' = NextId /\ gone' = gone
<1>1. /\ f \in Elems(out) /\ f \in Request /\ s = f.sid /\ Elems(out') \subseteq Elems(out)
      /\ UNCHANGED <<maps, db, th, past>>
    BY SerialServe DEF Served
<1>2. /\ Elems(back') = Elems(back) \cup Elems(a)
      /\ \A g \in Elems(a) : g.sid = s /\ g.of = f.of
    BY ServedBack
<1>3. f.kind # "noti"
    BY <1>1, RequestFields DEF SendKinds
<1>4. ASSUME NEW x \in Sid, NEW k \in Call, Tag(x, k)' PROVE Tag(x, k)
    <2>1. CASE TagPut(x, k)' \/ TagMap(x, k)' \/ TagTemp(x, k)'
        BY <1>1, <2>1 DEF TagPut, TagMap, TagTemp, Has, Busy, maps, db, past, Tag
    <2>2. CASE TagIn(out, x, k)'
        BY <1>1, <2>2 DEF TagIn, Tag
    <2>3. CASE TagIn(back, x, k)'
        <3>1. TagIn(back, x, k) \/ TagIn(out, x, k)
            BY <1>1, <1>2, <1>3, <2>3 DEF TagIn
        <3>2. QED
            BY <3>1 DEF Tag
    <2>4. QED
        BY <1>4, <2>1, <2>2, <2>3 DEF Tag
<1>5. QED
    BY <1>1, <1>4, ServedCounts DEF FewerTags, past

LEMMA TagsNotify ==
    ASSUME Base, NEW g, Notified(g)
    PROVE  FewerTags /\ NextId' = NextId /\ gone' = gone
<1>1. /\ g.kind = "noti" /\ Elems(back') = Elems(back) \cup {g}
      /\ UNCHANGED <<maps, db, sessionid, th, out, srv, past>>
    BY DEF Notified
<1>2. UNCHANGED <<gone, temp, cbmap, mmap>>
    BY <1>1 DEF past, db, maps
<1>3. ASSUME NEW x \in Sid, NEW k \in Call, Tag(x, k)' PROVE Tag(x, k)
    BY <1>1, <1>2, <1>3 DEF Tag, TagPut, TagIn, TagMap, TagTemp, Has, Busy
<1>4. NextId' = NextId
    BY <1>1, NextIdKept
<1>5. QED
    BY <1>2, <1>3, <1>4 DEF FewerTags

-----------------------------------------------------------------------------
(* Answers in order.                                                       *)

LEMMA BackOrderKept ==
    ASSUME BackOrder, UNCHANGED <<back, srv, stored>>
    PROVE  BackOrder'
BY DEF BackOrder

LEMMA BackOrderTail ==
    ASSUME Base, BackOrder, NEW kind, Reads(kind), UNCHANGED <<srv, stored>>
    PROVE  BackOrder'
<1>1. PICK n, q : n = Len(back) /\ q = back'
    OBVIOUS
<1>2. n \in Nat /\ Len(q) = n - 1 /\ \A i \in 1..(n - 1) : q[i] = back[i + 1]
    BY <1>1, Takes
<1>3. \A i \in 1..(n - 1) : i + 1 \in 1..n
    BY <1>2
<1>4. \A i \in 1..(n - 1) : q[i].kind # "noti" => q[i].sid < srv
    BY <1>1, <1>2, <1>3 DEF BackOrder
<1>5. ASSUME NEW i \in 1..(n - 1), NEW j \in 1..(n - 1), i # j, q[i].kind # "noti",
             q[j].kind # "noti", q[i].sid = q[j].sid
      PROVE  q[i].kind = "msg"
    <2>1. i + 1 # j + 1 /\ q[i] = back[i + 1] /\ q[j] = back[j + 1]
        BY <1>2, <1>5
    <2>2. QED
        BY <1>1, <1>3, <1>5, <2>1 DEF BackOrder
<1>6. ASSUME NEW i \in 1..(n - 1), NEW j \in 1..(n - 1), q[i].kind = "msg",
             q[j].kind = "msgres", stored[q[i].id] = q[j].of
      PROVE  j < i
    <2>1. q[i] = back[i + 1] /\ q[j] = back[j + 1]
        BY <1>2
    <2>2. j + 1 < i + 1
        BY <1>1, <1>3, <1>6, <2>1 DEF BackOrder
    <2>3. QED
        BY <1>2, <2>2
<1>7. QED
    BY <1>1, <1>2, <1>4, <1>5, <1>6 DEF BackOrder

\* The frames that are answers, with the messages they carry.
LEMMA BackFrame ==
    ASSUME Base, NEW i \in 1..Len(back)
    PROVE  /\ back[i] \in Elems(back) /\ ReplyOk(back[i]) /\ back[i] \in Reply \cup Noti
           /\ back[i].kind # "noti" => back[i].sid \in Sid /\ back[i].of \in Call
                                       /\ TagIn(back, back[i].sid, back[i].of)
<1>1. back[i] \in Elems(back)
    BY DEF Elems
<1>2. ReplyOk(back[i]) /\ back[i] \in Reply \cup Noti
    BY <1>1, ElemsIn DEF Base, Typed, KindsOf
<1>3. back[i].kind # "noti" => back[i].sid \in Sid /\ back[i].of \in Call
    BY <1>2, ReplyFields
<1>4. back[i].kind # "noti" => TagIn(back, back[i].sid, back[i].of)
    BY <1>1 DEF TagIn
<1>5. QED
    BY <1>1, <1>2, <1>3, <1>4

\* A frame the server takes is of a call it has not seen, so no message
\* stored before is that call's.
LEMMA BackOrderServe ==
    ASSUME Base, Serial, TagsPast, BackOrder, StoredSeen, NEW f, NEW a, NEW s, Served(f, a, s)
    PROVE  BackOrder'
<1>1. PICK n, l, q, d : n = Len(back) /\ l = Len(a) /\ q = back' /\ d = srv
    OBVIOUS
<1>2. /\ n \in Nat /\ l \in Nat /\ Len(q) = n + l
      /\ \A i \in 1..n : q[i] = back[i]
      /\ \A i \in 1..l : q[n + i] = a[i]
      /\ \A i \in 1..(n + l) : i \notin 1..n => i - n \in 1..l
    BY <1>1, ServedBack
<1>3. s = d /\ d \in Nat /\ srv' = d + 1 /\ f.sid = s
    BY <1>1, SerialServe, CountsNat DEF Served
<1>4. /\ \A i \in 1..l : a[i].sid = s /\ a[i].of = f.of /\ a[i].kind = a[1].kind
      /\ a[1].kind # "msg" => l = 1
    BY <1>1 DEF Served, Replies
<1>5. \A i \in 1..(n + l) : i \notin 1..n => q[i].sid = d /\ q[i].of = f.of /\ q[i].kind = a[1].kind
    <2> SUFFICES ASSUME NEW i \in 1..(n + l), i \notin 1..n
                 PROVE  q[i].sid = d /\ q[i].of = f.of /\ q[i].kind = a[1].kind
        OBVIOUS
    <2>1. i - n \in 1..l /\ n + (i - n) = i
        BY <1>2
    <2>2. q[i] = a[i - n]
        BY <1>2, <2>1
    <2>3. QED
        BY <1>3, <1>4, <2>1, <2>2
<1>6. \A i \in 1..n : q[i].kind # "noti" => q[i].sid < d /\ q[i].sid \in Nat
    BY <1>1, <1>2, BackFrame, Numbers DEF BackOrder
<1>7. ASSUME NEW i \in 1..(n + l), q[i].kind # "noti" PROVE q[i].sid < d + 1
    BY <1>3, <1>5, <1>6, <1>7
<1>8. ASSUME NEW i \in 1..(n + l), NEW j \in 1..(n + l), i # j, q[i].kind # "noti",
             q[j].kind # "noti", q[i].sid = q[j].sid
      PROVE  q[i].kind = "msg"
    <2>1. CASE i \in 1..n /\ j \in 1..n
        BY <1>1, <1>2, <1>8, <2>1 DEF BackOrder
    <2>2. CASE i \notin 1..n /\ j \notin 1..n
        <3>1. l # 1
            BY <1>2, <1>8, <2>2
        <3>2. QED
            BY <1>4, <1>5, <2>2, <3>1
    <2>3. CASE (i \in 1..n) # (j \in 1..n)
        BY <1>3, <1>5, <1>6, <1>8, <2>3
    <2>4. QED
        BY <2>1, <2>2, <2>3
<1>9. ASSUME NEW i \in 1..(n + l), NEW j \in 1..(n + l), q[i].kind = "msg",
             q[j].kind = "msgres", stored'[q[i].id] = q[j].of
      PROVE  j < i
    <2>0. Grown
        BY ServedStored
    <2>1. CASE i \in 1..n
        <3>1. q[i] = back[i] /\ q[i].id \in 1..Len(stored)
            BY <1>1, <1>2, <1>9, <2>1, BackFrame DEF ReplyOk
        <3>2. stored'[q[i].id] = stored[q[i].id]
            BY <2>0, <3>1 DEF Grown
        <3>3. CASE j \in 1..n
            BY <1>1, <1>2, <1>9, <2>1, <3>1, <3>2, <3>3 DEF BackOrder
        <3>4. CASE j \notin 1..n
            <4>1. stored[q[i].id] = f.of
                BY <1>5, <1>9, <3>2, <3>4
            <4>2. TagIn(out, f.sid, f.of) /\ f.sid \in Sid /\ f.of \in Call
                BY RequestFields DEF Served, TagIn, SendKinds
            <4>3. Ahead(f.of) /\ f.of # Peer /\ f.of > gone
                BY <4>2, Numbers DEF Ahead, TagsPast, Tag
            <4>4. QED
                BY <3>1, <4>1, <4>3 DEF StoredSeen, Here
        <3>5. QED
            BY <3>3, <3>4
    <2>2. CASE i \notin 1..n /\ j \notin 1..n
        BY <1>5, <1>9, <2>2
    <2>3. CASE i \notin 1..n /\ j \in 1..n
        BY <1>2, <2>3
    <2>4. QED
        BY <2>1, <2>2, <2>3
<1>10. QED
    BY <1>1, <1>2, <1>3, <1>7, <1>8, <1>9 DEF BackOrder

LEMMA BackOrderNotify ==
    ASSUME Base, BackOrder, NEW g, Notified(g)
    PROVE  BackOrder'
<1>1. PICK n, q : n = Len(back) /\ q = back'
    OBVIOUS
<1>2. /\ n \in Nat /\ Len(q) = n + 1 /\ (\A i \in 1..n : q[i] = back[i]) /\ q[n + 1] = g
      /\ g.kind = "noti" /\ Grown /\ UNCHANGED srv
    BY <1>1 DEF Notified
<1>3. \A i \in 1..(n + 1) : q[i].kind # "noti" => i \in 1..n /\ q[i] = back[i]
    BY <1>2
<1>4. \A i \in 1..n : back[i].kind = "msg" => stored'[back[i].id] = stored[back[i].id]
    BY <1>1, <1>2, BackFrame DEF ReplyOk, Grown
<1>5. \A i \in 1..(n + 1) : q[i].kind # "noti" => q[i].sid < srv'
    BY <1>1, <1>2, <1>3 DEF BackOrder
<1>6. ASSUME NEW i \in 1..(n + 1), NEW j \in 1..(n + 1), i # j, q[i].kind # "noti",
             q[j].kind # "noti", q[i].sid = q[j].sid
      PROVE  q[i].kind = "msg"
    BY <1>1, <1>3, <1>6 DEF BackOrder
<1>7. ASSUME NEW i \in 1..(n + 1), NEW j \in 1..(n + 1), q[i].kind = "msg",
             q[j].kind = "msgres", stored'[q[i].id] = q[j].of
      PROVE  j < i
    BY <1>1, <1>3, <1>4, <1>7 DEF BackOrder
<1>8. QED
    BY <1>1, <1>2, <1>5, <1>6, <1>7 DEF BackOrder

-----------------------------------------------------------------------------
(* Callbacks.                                                              *)

LEMMA TagFrames ==
    ASSUME NEW s \in Sid, NEW k \in Call, FrameTag(s, k)
    PROVE  Tag(s, k)
BY DEF FrameTag, Tag

\* Callbacks that go have run.
RanThen(k) == \E r \in ran' : r.call = k
RunOrStay ==
    /\ ran \subseteq ran'
    /\ \A s \in Sid : cbmap[s] # NoCall /\ cbmap'[s] # cbmap[s] => RanThen(cbmap[s])
    /\ \A s \in Sid : mmap[s] # NoCall /\ mmap'[s] # mmap[s] => RanThen(mmap[s])
    /\ cbmap[-2] # NoCall /\ cbmap'[-2] # cbmap[-2] => RanThen(cbmap[-2])

\* Frames stay among those there were, and so do the threads that have yet to
\* put their callback.
FramesStay ==
    /\ \A s \in Sid : \A k \in Call : FrameTag(s, k)' => FrameTag(s, k) \/ Kept(s, k)'
    /\ \A s \in Sid : \A k \in Call : \A t \in Thread :
          FrameTag(s, k) /\ Has(t, k) => Kept(s, k)'

LEMMA CallbackStays ==
    ASSUME Base, Grown, CallbackKept, gone' = gone, RunOrStay, FramesStay,
           th'["main"].step = "cache" =>
              \/ th["main"].step = "cache" /\ th'["main"] = th["main"]
              \/ cbmap'[th'["main"].sid] = th'["main"].call,
           EraseKept',
           \A k \in Call : Kind(k, {"leave"})' => Kind(k, {"leave"}) \/ cbmap'[-2] = k
    PROVE  CallbackKept'
<1>1. \A k : Ran(k) => Ran(k)'
    BY DEF RunOrStay, Ran
<1>2. \A s \in Sid : \A k \in Call : cbmap[s] = k => cbmap'[s] = k \/ Ran(k)'
    BY Numbers DEF RunOrStay, RanThen, Ran
<1>3. \A s \in Sid : \A k \in Call : mmap[s] = k => mmap'[s] = k \/ Ran(k)'
    BY Numbers DEF RunOrStay, RanThen, Ran
<1>4. \A k \in Call : cbmap[-2] = k => cbmap'[-2] = k \/ Ran(k)'
    BY Numbers DEF RunOrStay, RanThen, Ran
<1>5. FramesKept'
    <2> SUFFICES ASSUME NEW s \in Sid, NEW k \in Call, FrameTag(s, k), Kept(s, k)
                 PROVE  Kept(s, k)'
        BY DEF FramesKept, FramesStay, CallbackKept
    <2>1. k \in 1..Len(made)
        BY TagMade, TagFrames
    <2>2. made'[k] = made[k]
        BY <2>1 DEF Grown
    <2>3. CASE \E t \in Thread : Has(t, k)
        BY <2>3 DEF FramesStay
    <2>4. CASE Ran(k)
        BY <1>1, <2>4 DEF Kept
    <2>5. CASE made[k] \in {"request", "message"} /\ cbmap[s] = k
        BY <1>2, <2>2, <2>5 DEF Kept
    <2>6. CASE made[k] \in {"query", "relay"} /\ mmap[s] = k
        BY <1>3, <2>2, <2>6 DEF Kept
    <2>7. CASE made[k] = "leave" /\ cbmap[-2] = k
        BY <1>4, <2>2, <2>7 DEF Kept
    <2>8. QED
        BY <2>3, <2>4, <2>5, <2>6, <2>7 DEF Kept
<1>6. CacheKept'
    <2> SUFFICES ASSUME th'["main"].step = "cache", th["main"].step = "cache",
                        th'["main"] = th["main"]
                 PROVE  cbmap'[th["main"].sid] = th["main"].call \/ Ran(th["main"].call)'
        BY DEF CacheKept
    <2>1. PICK s, k : s = th["main"].sid /\ k = th["main"].call
        OBVIOUS
    <2>2. s \in Sid /\ k \in Call
        BY <2>1, InCall, StepBusy, TwoThreads
    <2>3. cbmap[s] = k \/ Ran(k)
        BY <2>1 DEF CallbackKept, CacheKept
    <2>4. cbmap'[s] = k \/ Ran(k)'
        BY <1>1, <1>2, <2>2, <2>3
    <2>5. QED
        BY <2>1, <2>4 DEF Ran
<1>7. LeaveHeld'
    BY <1>1, <1>4 DEF LeaveHeld, CallbackKept
<1>8. QED
    BY <1>5, <1>6, <1>7 DEF CallbackKept

\* Calls of threads, and the callbacks they have to put, are left.
LEMMA StillKept ==
    ASSUME NEW t \in Thread, NEW s, NEW k, Has(t, k)'
    PROVE  Kept(s, k)'
BY DEF Kept

LEMMA EraseStays ==
    ASSUME EraseKept, UNCHANGED <<erasing, mmap>>, ran \subseteq ran'
    PROVE  EraseKept'
BY DEF EraseKept, Ran

LEMMA SameFrames ==
    ASSUME Elems(out') \subseteq Elems(out), Elems(back') \subseteq Elems(back)
    PROVE  \A s \in Sid : \A k \in Call : FrameTag(s, k)' => FrameTag(s, k)
BY DEF FrameTag, TagIn

LEMMA SameThreads ==
    ASSUME \A t \in Thread : Busy(t) => Busy(t)' /\ th'[t].call = th[t].call
    PROVE  \A s \in Sid : \A k \in Call : \A t \in Thread :
              FrameTag(s, k) /\ Has(t, k) => Kept(s, k)'
BY DEF Has, Kept

LEMMA CallbackOnUnread == ASSUME Base, CallbackKept, OnUnread PROVE CallbackKept'
<1>1. /\ RoomToCall /\ made' = Append(made, "onunread")
      /\ cbmap' = [cbmap EXCEPT ![-3] = Len(made')]
      /\ UNCHANGED <<mmap, th, erasing, out, back, stored, gone, ran>>
    BY DEF OnUnread, MayCall, KeyOf, server, hist
<1>2. /\ Grown /\ Len(made) \in Nat /\ Len(made') = Len(made) + 1
      /\ made'[Len(made) + 1] = "onunread"
    BY <1>1, OneMore DEF AllKinds
<1>3. cbmap'[-2] = cbmap[-2] /\ \A s \in Sid : cbmap'[s] = cbmap[s]
    BY <1>1, Numbers DEF Base, Typed
<1>4. RunOrStay
    BY <1>1, <1>3 DEF RunOrStay
<1>5. FramesStay
    BY <1>1, SameFrames, SameThreads DEF FramesStay, Busy
<1>6. EraseKept'
    BY <1>1, EraseStays DEF CallbackKept
<1>7. \A k \in Call : Kind(k, {"leave"})' => Kind(k, {"leave"})
    BY <1>2 DEF Kind, Grown
<1>8. QED
    BY <1>1, <1>2, <1>4, <1>5, <1>6, <1>7, CallbackStays

LEMMA CallbackSends ==
    ASSUME Base, CallbackKept, NEW t, NEW kind, NEW id, Sends(t, kind, id)
    PROVE  CallbackKept'
<1>1. /\ Grown /\ Len(made) \in Nat /\ Len(made') = Len(made) + 1 /\ made'[Len(made) + 1] = kind
      /\ t \in Thread /\ ~Busy(t) /\ Begins(t, kind, id)
      /\ UNCHANGED <<mmap, erasing, out, gone, ran>>
    BY DEF Sends, hist
<1>2. PICK n \in Nat : n = Len(made)
    BY <1>1
<1>3. Elems(back') \subseteq Elems(back)
    BY Takes DEF Sends
<1>4. \A s \in Sid : cbmap'[s] = cbmap[s]
    BY Numbers DEF Sends, Base, Typed
<1>5. \/ cbmap'[-2] = cbmap[-2] /\ kind # "leave"
      \/ cbmap[-2] = NoCall /\ cbmap'[-2] = n + 1
    <2>1. CASE UNCHANGED cbmap /\ kind # "leave"
        BY <2>1
    <2>2. CASE /\ kind = "leave" /\ \A k \in 1..Len(made) : made[k] # "leave"
               /\ cbmap' = [cbmap EXCEPT ![-2] = Len(made')]
        <3>1. cbmap[-2] = NoCall
            BY <2>2 DEF Base, KindsOf, MapsOk, Kind
        <3>2. cbmap'[-2] = n + 1
            BY <1>1, <1>2, <2>2, Numbers DEF Base, Typed
        <3>3. QED
            BY <3>1, <3>2
    <2>3. QED
        BY <2>1, <2>2 DEF Sends
<1>6. RunOrStay
    BY <1>1, <1>4, <1>5 DEF RunOrStay
<1>7. \A u \in Thread : Busy(u) => Busy(u)' /\ th'[u] = th[u]
    BY <1>1 DEF Begins, Busy
<1>8. FramesStay
    BY <1>1, <1>3, <1>7, SameFrames, SameThreads DEF FramesStay
<1>9. EraseKept'
    BY <1>1, EraseStays DEF CallbackKept
<1>10. \A k \in Call : Kind(k, {"leave"})' => Kind(k, {"leave"}) \/ cbmap'[-2] = k
    <2>1. \A k \in 1..(n + 1) : k \in 1..n \/ k = n + 1
        BY <1>2
    <2>2. QED
        BY <1>1, <1>2, <1>5, <2>1 DEF Kind, Grown
<1>11. th'["main"].step = "cache" => th["main"].step = "cache" /\ th'["main"] = th["main"]
    BY <1>1, TwoThreads DEF Begins
<1>12. QED
    BY <1>1, <1>6, <1>8, <1>9, <1>10, <1>11, CallbackStays

LEMMA CallbackStore ==
    ASSUME Base, CallbackKept, NEW t \in Thread, StoreSessionID(t)
    PROVE  CallbackKept'
<1>1. /\ Busy(t) /\ Moves(t, "push")
      /\ UNCHANGED <<maps, erasing, out, back, past, server, hist>>
    BY Stores
<1>2. UNCHANGED <<cbmap, mmap, made, gone, stored, ran>> /\ Grown
    BY <1>1, NothingGrown DEF maps, past, server, hist
<1>3. RunOrStay
    BY <1>2 DEF RunOrStay
<1>4. \A u \in Thread : Busy(u) => Busy(u)' /\ th'[u].call = th[u].call
    BY <1>1 DEF Moves, Busy
<1>5. FramesStay
    BY <1>1, <1>4, SameFrames, SameThreads DEF FramesStay
<1>6. EraseKept'
    BY <1>1, <1>2, EraseStays DEF CallbackKept
<1>7. th'["main"].step = "cache" => th["main"].step = "cache" /\ th'["main"] = th["main"]
    BY <1>1, TwoThreads DEF Moves
<1>8. \A k \in Call : Kind(k, {"leave"})' => Kind(k, {"leave"})
    BY <1>2 DEF Kind
<1>9. QED
    BY <1>2, <1>3, <1>5, <1>6, <1>7, <1>8, CallbackStays

\* A logout returns with its frame sent: its callback was put before.
LEMMA CallbackPush ==
    ASSUME Base, TagsPast, CallbackKept, NEW t \in Thread, PushBuffer(t)
    PROVE  CallbackKept'
<1>1. PICK f : f = [kind |-> th[t].kind, sid |-> th[t].sid, of |-> th[t].call, id |-> th[t].id]
    OBVIOUS
<1>2. /\ Busy(t) /\ Elems(out') = Elems(out) \cup {f}
      /\ f.sid = th[t].sid /\ f.of = th[t].call
      /\ \/ th[t].kind = "leave" /\ Frees(t)
         \/ th[t].kind # "leave" /\ Moves(t, "put")
      /\ UNCHANGED <<maps, erasing, back, past, server, hist>>
    BY <1>1, Pushes
<1>3. UNCHANGED <<cbmap, mmap, made, gone, stored, ran>> /\ Grown
    BY <1>2, NothingGrown DEF maps, past, server, hist
<1>4. RunOrStay
    BY <1>3 DEF RunOrStay
<1>5. PICK c : c = th[t].call
    OBVIOUS
<1>6. c \in Call /\ th[t].sid \in Sid /\ Kind(c, {th[t].kind}) /\ c > gone
    <2>1. c \in Call /\ th[t].sid \in Sid /\ Kind(c, {th[t].kind})
        BY <1>2, <1>5, InCall
    <2>2. Tag(th[t].sid, c)
        BY <1>2, <1>5 DEF Tag, TagPut, Has
    <2>3. QED
        BY <2>1, <2>2 DEF TagsPast
<1>7. \A s : Kept(s, c)'
    <2>1. CASE th[t].kind = "leave"
        <3>1. cbmap[-2] = c \/ Ran(c)
            BY <1>6, <2>1 DEF CallbackKept, LeaveHeld
        <3>2. made[c] = "leave"
            BY <1>6, <2>1 DEF Kind
        <3>3. QED
            BY <1>3, <3>1, <3>2 DEF Kept, Ran
    <2>2. CASE th[t].kind # "leave"
        <3>1. Has(t, c)'
            BY <1>2, <1>5, <2>2 DEF Moves, Has
        <3>2. QED
            BY <3>1, StillKept
    <2>3. QED
        BY <2>1, <2>2
<1>8. \A u \in Thread : u # t => th'[u] = th[u]
    BY <1>2 DEF Moves, Frees
<1>9. FramesStay
    <2>1. ASSUME NEW s \in Sid, NEW k \in Call, FrameTag(s, k)'
          PROVE  FrameTag(s, k) \/ Kept(s, k)'
        <3>1. FrameTag(s, k) \/ k = c
            BY <1>2, <1>5, <2>1 DEF FrameTag, TagIn
        <3>2. QED
            BY <1>7, <3>1
    <2>2. ASSUME NEW s \in Sid, NEW k \in Call, NEW u \in Thread, Has(u, k)
          PROVE  Kept(s, k)'
        <3>1. CASE u = t
            <4>1. k = c
                BY <1>5, <2>2, <3>1 DEF Has
            <4>2. QED
                BY <1>7, <4>1
        <3>2. CASE u # t
            <4>1. Has(u, k)'
                BY <1>8, <2>2, <3>2 DEF Has, Busy
            <4>2. QED
                BY <4>1, StillKept
        <3>3. QED
            BY <3>1, <3>2
    <2>3. QED
        BY <2>1, <2>2 DEF FramesStay
<1>10. EraseKept'
    BY <1>2, <1>3, EraseStays DEF CallbackKept
<1>11. th'["main"].step = "cache" => th["main"].step = "cache" /\ th'["main"] = th["main"]
    BY <1>2, <1>8, TwoThreads DEF Moves, Frees, Idle
<1>12. \A k \in Call : Kind(k, {"leave"})' => Kind(k, {"leave"})
    BY <1>3 DEF Kind
<1>13. QED
    BY <1>3, <1>4, <1>9, <1>10, <1>11, <1>12, CallbackStays

LEMMA CallbackPutCallback ==
    ASSUME Base, TagsUnique, CallbackKept, NEW t \in Thread, PutCallback(t)
    PROVE  CallbackKept'
<1>1. PICK x, c : x = th[t].sid /\ c = th[t].call
    OBVIOUS
<1>2. /\ Busy(t) /\ Grown /\ th[t].kind \in {"request", "message"}
      /\ cbmap' = [cbmap EXCEPT ![x] = c]
      /\ \/ th[t].kind = "message" /\ Moves(t, "cache")
         \/ Frees(t)
      /\ UNCHANGED <<mmap, erasing, out, back, server, past, hist>>
    BY <1>1, PutsCallback DEF PutCallback
<1>3. UNCHANGED <<made, gone, stored, ran>>
    BY <1>2 DEF past, server, hist
<1>4. /\ x \in Sid /\ c \in Call /\ Kind(c, {th[t].kind}) /\ Tag(x, c)
    BY <1>1, <1>2, InCall DEF Tag, TagPut, Has
<1>5. /\ cbmap'[x] = c /\ \A k \in Key : k # x => cbmap'[k] = cbmap[k]
      /\ cbmap[x] # NoCall => cbmap[x] \in Call /\ Tag(x, cbmap[x])
    BY <1>2, <1>4, Numbers DEF Base, Typed, CallOrNone, Tag, TagMap
<1>6. cbmap[x] # NoCall => cbmap[x] = c
    BY <1>4, <1>5 DEF TagsUnique
<1>7. RunOrStay
    BY <1>2, <1>3, <1>4, <1>5, <1>6, Numbers DEF RunOrStay
<1>8. \A u \in Thread : u # t => th'[u] = th[u]
    BY <1>2 DEF Moves, Frees
<1>9. FramesStay
    <2>1. \A s \in Sid : \A k \in Call : FrameTag(s, k)' => FrameTag(s, k)
        BY <1>2, SameFrames
    <2>2. ASSUME NEW s \in Sid, NEW k \in Call, NEW u \in Thread, FrameTag(s, k), Has(u, k)
          PROVE  Kept(s, k)'
        <3>1. CASE u = t
            <4>1. k = c
                BY <1>1, <2>2, <3>1 DEF Has
            <4>2. s = x
                BY <1>4, <2>2, <4>1, TagFrames DEF TagsUnique
            <4>3. made'[c] \in {"request", "message"} /\ cbmap'[x] = c
                BY <1>2, <1>3, <1>4, <1>5 DEF Kind
            <4>4. QED
                BY <4>1, <4>2, <4>3 DEF Kept
        <3>2. CASE u # t
            <4>1. Has(u, k)'
                BY <1>8, <2>2, <3>2 DEF Has, Busy
            <4>2. QED
                BY <4>1, StillKept
        <3>3. QED
            BY <3>1, <3>2
    <2>3. QED
        BY <2>1, <2>2 DEF FramesStay
<1>10. EraseKept'
    BY <1>2, <1>3, EraseStays DEF CallbackKept
<1>11. th'["main"].step = "cache" =>
          \/ th["main"].step = "cache" /\ th'["main"] = th["main"]
          \/ cbmap'[th'["main"].sid] = th'["main"].call
    <2>1. CASE t = "main"
        BY <1>1, <1>2, <1>5, <2>1 DEF Moves, Frees, Idle
    <2>2. CASE t # "main"
        BY <1>8, <2>2, TwoThreads
    <2>3. QED
        BY <2>1, <2>2
<1>12. \A k \in Call : Kind(k, {"leave"})' => Kind(k, {"leave"})
    BY <1>3 DEF Kind
<1>13. QED
    BY <1>2, <1>3, <1>7, <1>9, <1>10, <1>11, <1>12, CallbackStays

LEMMA CallbackPutQuery ==
    ASSUME Base, TagsUnique, CallbackKept, NEW t \in Thread, PutQuery(t)
    PROVE  CallbackKept'
<1>1. PICK x, c : x = th[t].sid /\ c = th[t].call
    OBVIOUS
<1>2. /\ Busy(t) /\ Grown /\ th[t].kind \in {"query", "relay"} /\ Frees(t)
      /\ mmap' = [mmap EXCEPT ![x] = c]
      /\ UNCHANGED <<cbmap, erasing, out, back, server, past, hist>>
    BY <1>1, PutsQuery DEF PutQuery
<1>3. UNCHANGED <<made, gone, stored, ran>>
    BY <1>2 DEF past, server, hist
<1>4. /\ x \in Sid /\ c \in Call /\ Kind(c, {th[t].kind}) /\ Tag(x, c)
    BY <1>1, <1>2, InCall DEF Tag, TagPut, Has
<1>5. /\ mmap'[x] = c /\ \A k \in Sid : k # x => mmap'[k] = mmap[k]
      /\ mmap[x] # NoCall => mmap[x] \in Call /\ Tag(x, mmap[x])
    BY <1>2, <1>4 DEF Base, Typed, CallOrNone, Tag, TagMap
<1>6. mmap[x] # NoCall => mmap[x] = c
    BY <1>4, <1>5 DEF TagsUnique
<1>7. RunOrStay
    BY <1>2, <1>3, <1>4, <1>5, <1>6 DEF RunOrStay
<1>8. \A u \in Thread : u # t => th'[u] = th[u]
    BY <1>2 DEF Frees
<1>9. FramesStay
    <2>1. \A s \in Sid : \A k \in Call : FrameTag(s, k)' => FrameTag(s, k)
        BY <1>2, SameFrames
    <2>2. ASSUME NEW s \in Sid, NEW k \in Call, NEW u \in Thread, FrameTag(s, k), Has(u, k)
          PROVE  Kept(s, k)'
        <3>1. CASE u = t
            <4>1. k = c
                BY <1>1, <2>2, <3>1 DEF Has
            <4>2. s = x
                BY <1>4, <2>2, <4>1, TagFrames DEF TagsUnique
            <4>3. made'[c] \in {"query", "relay"} /\ mmap'[x] = c
                BY <1>2, <1>3, <1>4, <1>5 DEF Kind
            <4>4. QED
                BY <4>1, <4>2, <4>3 DEF Kept
        <3>2. CASE u # t
            <4>1. Has(u, k)'
                BY <1>8, <2>2, <3>2 DEF Has, Busy
            <4>2. QED
                BY <4>1, StillKept
        <3>3. QED
            BY <3>1, <3>2
    <2>3. QED
        BY <2>1, <2>2 DEF FramesStay
<1>10. EraseKept'
    <2> SUFFICES ASSUME erasing # NoSid PROVE mmap'[erasing] # NoCall /\ RanThen(mmap'[erasing])
        BY <1>2 DEF EraseKept, RanThen, Ran
    <2>1. erasing \in Sid /\ mmap[erasing] # NoCall /\ Ran(mmap[erasing])
        BY DEF Base, Typed, CallbackKept, EraseKept
    <2>2. mmap'[erasing] = mmap[erasing]
        BY <1>5, <1>6, <2>1
    <2>3. QED
        BY <1>3, <2>1, <2>2 DEF Ran, RanThen
<1>11. th'["main"].step = "cache" => th["main"].step = "cache" /\ th'["main"] = th["main"]
    BY <1>2, <1>8, TwoThreads DEF Frees, Idle
<1>12. \A k \in Call : Kind(k, {"leave"})' => Kind(k, {"leave"})
    BY <1>3 DEF Kind
<1>13. QED
    BY <1>2, <1>3, <1>7, <1>9, <1>10, <1>11, <1>12, CallbackStays

LEMMA CallbackCacheMessage ==
    ASSUME Base, TagsUnique, CallbackKept, CacheMessage
    PROVE  CallbackKept'
<1>1. PICK x, c : x = th["main"].sid /\ c = th["main"].call
    OBVIOUS
<1>2. /\ Busy("main") /\ Grown /\ Frees("main") /\ Kind(c, {"message"})
      /\ x \in Sid /\ c \in Call /\ "main" \in Thread /\ th["main"].step = "cache"
      /\ UNCHANGED <<maps, erasing, out, back, server, past, hist>>
    BY <1>1, Caches DEF CacheMessage
<1>3. UNCHANGED <<cbmap, mmap, made, gone, stored, ran>>
    BY <1>2 DEF maps, past, server, hist
<1>4. Tag(x, c)
    BY <1>1, <1>2 DEF Tag, TagPut, Has
<1>5. Kept(x, c)'
    <2>1. cbmap[x] = c \/ Ran(c)
        BY <1>1, <1>2 DEF CallbackKept, CacheKept
    <2>2. made[c] = "message"
        BY <1>2 DEF Kind
    <2>3. QED
        BY <1>3, <2>1, <2>2 DEF Kept, Ran
<1>6. RunOrStay
    BY <1>3 DEF RunOrStay
<1>7. \A u \in Thread : u # "main" => th'[u] = th[u]
    BY <1>2 DEF Frees
<1>8. FramesStay
    <2>1. \A s \in Sid : \A k \in Call : FrameTag(s, k)' => FrameTag(s, k)
        BY <1>2, SameFrames
    <2>2. ASSUME NEW s \in Sid, NEW k \in Call, NEW u \in Thread, FrameTag(s, k), Has(u, k)
          PROVE  Kept(s, k)'
        <3>1. CASE u = "main"
            <4>1. k = c
                BY <1>1, <2>2, <3>1 DEF Has
            <4>2. s = x
                BY <1>2, <1>4, <2>2, <4>1, TagFrames DEF TagsUnique
            <4>3. QED
                BY <1>5, <4>1, <4>2
        <3>2. CASE u # "main"
            <4>1. Has(u, k)'
                BY <1>7, <2>2, <3>2 DEF Has, Busy
            <4>2. QED
                BY <4>1, StillKept
        <3>3. QED
            BY <3>1, <3>2
    <2>3. QED
        BY <2>1, <2>2 DEF FramesStay
<1>9. EraseKept'
    BY <1>2, <1>3, EraseStays DEF CallbackKept
<1>10. th'["main"].step # "cache"
    BY <1>2 DEF Frees, Idle
<1>11. \A k \in Call : Kind(k, {"leave"})' => Kind(k, {"leave"})
    BY <1>3 DEF Kind
<1>12. QED
    BY <1>2, <1>3, <1>6, <1>8, <1>9, <1>10, <1>11, CallbackStays

LEMMA ErasesRun ==
    ASSUME Base, NEW key \in Key, NEW of \in Call, CallErase(key, of), UNCHANGED mmap
    PROVE  RunOrStay
<1>1. /\ \A x \in Key : x # key => cbmap'[x] = cbmap[x]
      /\ ran' = IF cbmap[key] = NoCall THEN ran ELSE ran \cup {[call |-> cbmap[key], of |-> of]}
    BY Erases
<1>2. ran \subseteq ran'
    BY <1>1
<1>3. cbmap[key] # NoCall => RanThen(cbmap[key])
    <2>1. ASSUME cbmap[key] # NoCall PROVE [call |-> cbmap[key], of |-> of] \in ran'
        BY <1>1, <2>1
    <2>2. QED
        BY <2>1 DEF RanThen
<1>4. \A x \in Key : cbmap[x] # NoCall /\ cbmap'[x] # cbmap[x] => RanThen(cbmap[x])
    BY <1>1, <1>3
<1>5. QED
    BY <1>2, <1>4, Numbers DEF RunOrStay

\* Steps of the loop thread, and of the server, leave the threads as they are.
LEMMA CallbackReads ==
    ASSUME Base, CallbackKept, RunOrStay, UNCHANGED <<th, out, made, stored, gone>>,
           Elems(back') \subseteq Elems(back), EraseKept'
    PROVE  CallbackKept'
<1>1. Grown
    BY NothingGrown
<1>2. FramesStay
    BY SameFrames, SameThreads DEF FramesStay, Busy
<1>3. \A k \in Call : Kind(k, {"leave"})' => Kind(k, {"leave"})
    BY DEF Kind
<1>4. QED
    BY <1>1, <1>2, <1>3, CallbackStays

LEMMA CallbackJustReads ==
    ASSUME Base, CallbackKept, NEW kind, NEW key, JustReads(kind, key)
    PROVE  CallbackKept'
<1>1. UNCHANGED <<mmap, th, erasing, out, server, past>>
    BY DEF JustReads, JustCalls
<1>2. UNCHANGED <<made, stored, gone>>
    BY <1>1 DEF server, past
<1>3. Head(back).of \in Call /\ Elems(back') \subseteq Elems(back)
    BY Takes DEF JustReads
<1>4. RunOrStay
    BY <1>1, <1>3, ErasesRun DEF JustReads
<1>5. EraseKept'
    BY <1>1, <1>4, EraseStays DEF CallbackKept, RunOrStay
<1>6. QED
    BY <1>1, <1>2, <1>3, <1>4, <1>5, CallbackReads

LEMMA CallbackMessageRes ==
    ASSUME Base, CallbackKept, MessageRes
    PROVE  CallbackKept'
<1>1. PICK s, k, i : s = Head(back).sid /\ k = Head(back).of /\ i = Head(back).id
    OBVIOUS
<1>2. /\ s \in Sid /\ k \in Call /\ i \in Id
      /\ Acknowledges(s, k, i) \/ Throws(s)
      /\ UNCHANGED <<mmap, th, erasing, out, server, past>>
    BY <1>1, ReadsAck
<1>3. UNCHANGED <<made, stored, gone>>
    BY <1>2 DEF server, past
<1>4. Elems(back') \subseteq Elems(back)
    BY Takes DEF MessageRes
<1>5. RunOrStay
    <2>1. CASE Acknowledges(s, k, i)
        <3>1. s \in Key
            BY <1>2, Numbers
        <3>2. QED
            BY <1>2, <2>1, <3>1, ErasesRun DEF Acknowledges
    <2>2. CASE Throws(s)
        BY <1>2, <2>2 DEF Throws, RunOrStay
    <2>3. QED
        BY <1>2, <2>1, <2>2
<1>6. EraseKept'
    BY <1>2, <1>5, EraseStays DEF CallbackKept, RunOrStay
<1>7. QED
    BY <1>2, <1>3, <1>4, <1>5, <1>6, CallbackReads

LEMMA CallbackNodeMessage ==
    ASSUME Base, CallbackKept, NEW isStop \in BOOLEAN, NodeMessage(isStop)
    PROVE  CallbackKept'
<1>1. PICK s, o, i : s = Head(back).sid /\ o = Head(back).of /\ i = Head(back).id
    OBVIOUS
<1>2. PICK k : k = mmap[s]
    OBVIOUS
<1>3. /\ s \in Sid /\ ran \subseteq ran' /\ (k # NoCall => \E r \in ran' : r.call = k)
      /\ erasing' = IF k # NoCall /\ isStop THEN s ELSE NoSid
      /\ UNCHANGED <<maps, th, out, server, past>>
    BY <1>1, <1>2, ReadsMessage
<1>4. UNCHANGED <<made, stored, gone, cbmap, mmap>>
    BY <1>3 DEF server, past, maps
<1>5. Elems(back') \subseteq Elems(back)
    BY Takes DEF NodeMessage
<1>6. RunOrStay
    BY <1>3, <1>4 DEF RunOrStay
<1>7. EraseKept'
    BY <1>2, <1>3, <1>4 DEF EraseKept, Ran
<1>8. QED
    BY <1>3, <1>4, <1>5, <1>6, <1>7, CallbackReads

LEMMA CallbackEraseQuery ==
    ASSUME Base, CallbackKept, EraseQuery
    PROVE  CallbackKept'
<1>1. /\ erasing # NoSid /\ mmap' = [mmap EXCEPT ![erasing] = NoCall] /\ erasing' = NoSid
      /\ UNCHANGED <<cbmap, th, out, back, server, past, hist>>
    BY DEF EraseQuery
<1>2. UNCHANGED <<made, stored, gone, ran>>
    BY <1>1 DEF server, past, hist
<1>3. RanThen(mmap[erasing])
    BY <1>1, <1>2 DEF CallbackKept, EraseKept, Ran, RanThen
<1>4. \A s \in Sid : s # erasing => mmap'[s] = mmap[s]
    BY <1>1 DEF Base, Typed
<1>5. RunOrStay
    BY <1>1, <1>2, <1>3, <1>4 DEF RunOrStay
<1>6. EraseKept'
    BY <1>1 DEF EraseKept
<1>7. QED
    BY <1>1, <1>2, <1>5, <1>6, CallbackReads

LEMMA CallbackServe ==
    ASSUME Base, Serial, CallbackKept, NEW f, NEW a, NEW s, Served(f, a, s)
    PROVE  CallbackKept'
<1>1. /\ f \in Elems(out) /\ f \in Request /\ s = f.sid /\ Elems(out') \subseteq Elems(out)
      /\ UNCHANGED <<maps, erasing, th, past, hist>>
    BY SerialServe DEF Served
<1>2. /\ Elems(back') = Elems(back) \cup Elems(a)
      /\ \A g \in Elems(a) : g.sid = s /\ g.of = f.of
    BY ServedBack
<1>3. UNCHANGED <<made, gone, ran, cbmap, mmap>> /\ Grown
    BY <1>1, ServedStored DEF past, hist, maps
<1>4. f.kind # "noti"
    BY <1>1, RequestFields DEF SendKinds
<1>5. \A x \in Sid : \A k \in Call : FrameTag(x, k)' => FrameTag(x, k)
    BY <1>1, <1>2, <1>4 DEF FrameTag, TagIn
<1>6. FramesStay
    BY <1>1, <1>5, SameThreads DEF FramesStay, Busy
<1>7. RunOrStay
    BY <1>3 DEF RunOrStay
<1>8. EraseKept'
    BY <1>1, <1>3, EraseStays DEF CallbackKept
<1>9. \A k \in Call : Kind(k, {"leave"})' => Kind(k, {"leave"})
    BY <1>3 DEF Kind
<1>10. QED
    BY <1>1, <1>3, <1>6, <1>7, <1>8, <1>9, CallbackStays

LEMMA CallbackNotify ==
    ASSUME Base, CallbackKept, NEW g, Notified(g)
    PROVE  CallbackKept'
<1>1. /\ g.kind = "noti" /\ Elems(back') = Elems(back) \cup {g} /\ Grown
      /\ UNCHANGED <<maps, erasing, th, out, past, hist>>
    BY DEF Notified
<1>2. UNCHANGED <<made, gone, ran, cbmap, mmap>>
    BY <1>1 DEF past, hist, maps
<1>3. \A x \in Sid : \A k \in Call : FrameTag(x, k)' => FrameTag(x, k)
    BY <1>1 DEF FrameTag, TagIn
<1>4. FramesStay
    BY <1>1, <1>3, SameThreads DEF FramesStay, Busy
<1>5. RunOrStay
    BY <1>2 DEF RunOrStay
<1>6. EraseKept'
    BY <1>1, <1>2, EraseStays DEF CallbackKept
<1>7. \A k \in Call : Kind(k, {"leave"})' => Kind(k, {"leave"})
    BY <1>2 DEF Kind
<1>8. QED
    BY <1>1, <1>2, <1>4, <1>5, <1>6, <1>7, CallbackStays

-----------------------------------------------------------------------------
(* Messages.                                                               *)

LEMMA FewerAhead ==
    ASSUME \A u \in Thread : th'[u].step \in Sending =>
              th[u].step \in Sending /\ th'[u].call = th[u].call,
           Elems(out') \subseteq Elems(out)
    PROVE  \A k : Ahead(k)' => Ahead(k)
BY DEF Ahead, TagIn

LEMMA StoredSeenKept ==
    ASSUME Base, StoredSeen, UNCHANGED <<stored, gone>>,
           \A k \in Call : Ahead(k)' => Ahead(k) \/ k \notin 1..Len(made)
    PROVE  StoredSeen'
<1> SUFFICES ASSUME NEW i \in 1..Len(stored), Here(stored[i])' PROVE ~Ahead(stored[i])'
    BY DEF StoredSeen
<1>1. PICK k : k = stored[i]
    OBVIOUS
<1>2. k # Peer /\ Kind(k, {"message"})
    BY <1>1 DEF Here, Base, KindsOf, StoredOk
<1>3. k \in Call /\ k \in 1..Len(made)
    BY <1>1, <1>2, ElementOfSeq DEF Kind, Base, Typed
<1>4. ~Ahead(k)
    BY <1>1 DEF StoredSeen, Here
<1>5. ~Ahead(k)'
    BY <1>3, <1>4
<1>6. QED
    BY <1>1, <1>5 DEF Ahead

\* Steps that leave the temporary keys.
LEMMA MessagesStay ==
    ASSUME Base, Grown, Messages, UNCHANGED <<gone, temp>>, StoredSeen', EndsEarly',
           \A k \in Call : Kind(k, {"message"})' => Kind(k, {"message"}) \/ Has("main", k)',
           \A k \in Call : Has("main", k)' => Has("main", k) \/ k \notin 1..Len(made),
           \A k \in Call : Kind(k, {"message"}) /\ Has("main", k) => Has("main", k)',
           \A s \in Sid : \A k \in Call :
              Kind(k, {"message"})' /\ FrameTag(s, k)' => FrameTag(s, k) \/ Has("main", k)',
           \A i \in Id : \/ msgs'[i] = msgs[i]
                         \/ i \in 1..Len(stored) /\ msgs'[i] = stored[i]
    PROVE  Messages'
<1>1. CachedTrue /\ MessageKept /\ MessageHeld /\ NotYetCached
    BY DEF Messages
<1>2. ASSUME NEW k \in Call, k > gone, Acked(k)
      PROVE  Acked(k)'
    <2>1. PICK i \in Id : msgs[i] = k
        BY <1>2 DEF Acked
    <2>2. k # NoCall /\ k # Peer
        BY Numbers
    <2>3. msgs[i] = stored[i]
        BY <1>1, <1>2, <2>1, <2>2 DEF CachedTrue
    <2>4. msgs'[i] = k
        BY <2>1, <2>3
    <2>5. QED
        BY <2>4 DEF Acked
<1>3. MessageKept'
    BY <1>1, <1>2 DEF MessageKept
<1>4. MessageHeld'
    BY <1>1 DEF MessageHeld
<1>5. NotYetCached'
    <2> SUFFICES ASSUME NEW k \in Call, Has("main", k)', NEW s \in Sid, temp[s] = k PROVE FALSE
        BY DEF NotYetCached
    <2>1. CASE Has("main", k)
        BY <1>1, <2>1 DEF NotYetCached
    <2>2. CASE k \notin 1..Len(made)
        BY <2>2, Numbers DEF Base, KindsOf, TempOk, Kind
    <2>3. QED
        BY <2>1, <2>2
<1>6. CachedTrue'
    <2> SUFFICES ASSUME NEW i \in Id, msgs'[i] # NoCall, msgs'[i] # Peer, msgs'[i] > gone
                 PROVE  i <= Len(stored') /\ msgs'[i] = stored'[i]
        BY DEF CachedTrue
    <2>1. i <= Len(stored) /\ msgs'[i] = stored[i]
        BY <1>1, CountsNat DEF CachedTrue, Grown
    <2>2. i \in 1..Len(stored)
        BY <2>1, Numbers DEF Grown
    <2>3. QED
        BY <2>1, <2>2, Numbers DEF Grown
<1>7. QED
    BY <1>3, <1>4, <1>5, <1>6 DEF Messages

\* Steps that leave the threads, too, and add no frame of a message.
LEMMA MessagesLeft ==
    ASSUME Base, Grown, Messages, UNCHANGED <<gone, temp, th>>, StoredSeen', EndsEarly',
           \A k \in Call : Kind(k, {"message"})' => Kind(k, {"message"}),
           \A s \in Sid : \A k \in Call : FrameTag(s, k)' => FrameTag(s, k),
           \A i \in Id : \/ msgs'[i] = msgs[i]
                         \/ i \in 1..Len(stored) /\ msgs'[i] = stored[i]
    PROVE  Messages'
BY MessagesStay DEF Has, Busy

LEMMA MessagesOnUnread == ASSUME Base, Messages, OnUnread PROVE Messages'
<1>1. /\ RoomToCall /\ made' = Append(made, "onunread") /\ alive
      /\ UNCHANGED <<db, th, alive, out, back, stored, gone>>
    BY DEF OnUnread, MayCall, server
<1>2. /\ Grown /\ Len(made) \in Nat /\ Len(made') = Len(made) + 1
      /\ made'[Len(made) + 1] = "onunread"
    BY <1>1, OneMore DEF AllKinds
<1>3. \A k \in Call : Kind(k, {"message"})' => Kind(k, {"message"})
    BY <1>2 DEF Kind, Grown
<1>4. \A s \in Sid : \A k \in Call : FrameTag(s, k)' => FrameTag(s, k)
    BY <1>1, SameFrames
<1>5. \A k : Ahead(k)' => Ahead(k)
    BY <1>1, FewerAhead
<1>6. StoredSeen'
    BY <1>1, <1>5, StoredSeenKept DEF Messages
<1>7. EndsEarly'
    BY <1>1 DEF EndsEarly
<1>8. QED
    BY <1>1, <1>2, <1>3, <1>4, <1>6, <1>7, MessagesLeft DEF db

LEMMA MessagesSends ==
    ASSUME Base, Messages, NEW t, NEW kind, NEW id, Sends(t, kind, id)
    PROVE  Messages'
<1>1. /\ Grown /\ Len(made) \in Nat /\ Len(made') = Len(made) + 1 /\ made'[Len(made) + 1] = kind
      /\ t \in Thread /\ ~Busy(t) /\ Begins(t, kind, id) /\ alive /\ alive' = alive
      /\ t = "loop" <=> kind = "relay"
      /\ UNCHANGED <<db, out, stored, gone>>
    BY DEF Sends
<1>2. PICK n \in Nat : n = Len(made)
    BY <1>1
<1>3. UNCHANGED <<temp, msgs>>
    BY <1>1 DEF db
<1>4. Elems(back') \subseteq Elems(back)
    BY Takes DEF Sends
<1>5. \A s \in Sid : \A k \in Call : FrameTag(s, k)' => FrameTag(s, k)
    BY <1>1, <1>4, SameFrames
<1>6. Has(t, n + 1)' /\ \A k : Has(t, k)' => k = n + 1
    BY <1>1, <1>2 DEF Begins, Has
<1>7. \A u \in Thread : u # t => th'[u] = th[u]
    BY <1>1 DEF Begins
<1>8. \A k : ~Has(t, k)
    BY <1>1 DEF Has
<1>9. \A k \in Call : Kind(k, {"message"})' => Kind(k, {"message"}) \/ Has("main", k)'
    <2>1. kind = "message" => t = "main"
        BY <1>1, TwoThreads
    <2>2. \A k \in 1..(n + 1) : k \in 1..n \/ k = n + 1
        BY <1>2
    <2>3. QED
        BY <1>1, <1>2, <1>6, <2>1, <2>2 DEF Kind, Grown
<1>10. \A k \in Call : Has("main", k)' => Has("main", k) \/ k \notin 1..Len(made)
    <2>1. n + 1 \notin 1..n
        BY <1>2
    <2>2. CASE t = "main"
        BY <1>2, <1>6, <2>1, <2>2
    <2>3. CASE t # "main"
        BY <1>7, <2>3, TwoThreads DEF Has, Busy
    <2>4. QED
        BY <2>2, <2>3
<1>11. \A k \in Call : Has("main", k) => Has("main", k)'
    BY <1>7, <1>8, TwoThreads DEF Has, Busy
<1>12. \A k \in Call : Ahead(k)' => Ahead(k) \/ k \notin 1..Len(made)
    <2>1. ASSUME NEW k \in Call, Ahead(k)' PROVE Ahead(k) \/ k = n + 1
        <3>1. CASE \E u \in Thread : th'[u].step \in Sending /\ th'[u].call = k
            BY <1>1, <1>2, <1>7, <3>1 DEF Ahead, Begins
        <3>2. CASE \E s \in Sid : TagIn(out, s, k)'
            BY <1>1, <3>2 DEF Ahead, TagIn
        <3>3. QED
            BY <2>1, <3>1, <3>2 DEF Ahead
    <2>2. n + 1 \notin 1..n
        BY <1>2
    <2>3. QED
        BY <1>2, <2>1, <2>2
<1>13. StoredSeen'
    BY <1>1, <1>12, StoredSeenKept DEF Messages
<1>14. EndsEarly'
    BY <1>1 DEF EndsEarly
<1>15. QED
    BY <1>1, <1>3, <1>5, <1>9, <1>10, <1>11, <1>13, <1>14, MessagesStay

LEMMA MessagesStore ==
    ASSUME Base, Messages, NEW t \in Thread, StoreSessionID(t)
    PROVE  Messages'
<1>1. /\ Busy(t) /\ Moves(t, "push") /\ th[t].step = "store" /\ alive
      /\ UNCHANGED <<db, alive, out, back, past, server>>
    BY Stores
<1>2. UNCHANGED <<temp, msgs, made, gone, stored>> /\ Grown
    BY <1>1, NothingGrown DEF db, past, server
<1>3. \A k : Has("main", k)' <=> Has("main", k)
    BY <1>1, TwoThreads DEF Moves, Has, Busy
<1>4. \A s \in Sid : \A k \in Call : FrameTag(s, k)' => FrameTag(s, k)
    BY <1>1, SameFrames
<1>5. \A k : Ahead(k)' => Ahead(k)
    <2>1. \A u \in Thread : th'[u].step \in Sending =>
              th[u].step \in Sending /\ th'[u].call = th[u].call
        BY <1>1 DEF Moves, Sending
    <2>2. QED
        BY <1>1, <2>1, FewerAhead
<1>6. StoredSeen'
    BY <1>2, <1>5, StoredSeenKept DEF Messages
<1>7. EndsEarly'
    BY <1>1 DEF EndsEarly
<1>8. \A k \in Call : Kind(k, {"message"})' => Kind(k, {"message"})
    BY <1>2 DEF Kind
<1>9. QED
    BY <1>2, <1>3, <1>4, <1>6, <1>7, <1>8, MessagesStay

LEMMA MessagesPush ==
    ASSUME Base, Messages, NEW t \in Thread, PushBuffer(t)
    PROVE  Messages'
<1>1. PICK f : f = [kind |-> th[t].kind, sid |-> th[t].sid, of |-> th[t].call, id |-> th[t].id]
    OBVIOUS
<1>2. /\ Busy(t) /\ th[t].step = "push" /\ Elems(out') = Elems(out) \cup {f} /\ alive
      /\ f.sid = th[t].sid /\ f.of = th[t].call
      /\ \/ th[t].kind = "leave" /\ Frees(t)
         \/ th[t].kind # "leave" /\ Moves(t, "put")
      /\ UNCHANGED <<db, alive, back, past, server>>
    BY <1>1, Pushes
<1>3. UNCHANGED <<temp, msgs, made, gone, stored>> /\ Grown
    BY <1>2, NothingGrown DEF db, past, server
<1>4. PICK c : c = th[t].call
    OBVIOUS
<1>5. /\ Kind(c, {th[t].kind}) /\ th[t].sid \in Sid /\ Has(t, c)
      /\ t = "loop" <=> th[t].kind = "relay"
    BY <1>2, <1>4, InCall DEF Has, Base, KindsOf, ThreadOk
<1>6. \A u \in Thread : u # t => th'[u] = th[u]
    BY <1>2 DEF Moves, Frees
<1>7. \A k \in Call : Has("main", k)' => Has("main", k)
    BY <1>2, TwoThreads DEF Moves, Frees, Has, Busy
<1>8. Kind(c, {"message"}) => t = "main" /\ Has("main", c)'
    <2>1. ASSUME Kind(c, {"message"}) PROVE t = "main" /\ Has("main", c)'
        <3>1. th[t].kind = "message"
            BY <1>5, <2>1 DEF Kind
        <3>2. t = "main"
            BY <1>5, <3>1, TwoThreads
        <3>3. QED
            BY <1>2, <1>4, <3>1, <3>2 DEF Moves, Has
    <2>2. QED
        BY <2>1
<1>9. \A k \in Call : Kind(k, {"message"}) /\ Has("main", k) => Has("main", k)'
    <2>1. CASE t = "main"
        BY <1>4, <1>8, <2>1 DEF Has
    <2>2. CASE t # "main"
        BY <1>6, <2>2, TwoThreads DEF Has, Busy
    <2>3. QED
        BY <2>1, <2>2
<1>10. \A s \in Sid : \A k \in Call :
          Kind(k, {"message"})' /\ FrameTag(s, k)' => FrameTag(s, k) \/ Has("main", k)'
    <2>1. ASSUME NEW s \in Sid, NEW k \in Call, Kind(k, {"message"})', FrameTag(s, k)'
          PROVE  FrameTag(s, k) \/ Has("main", k)'
        <3>1. FrameTag(s, k) \/ k = c
            BY <1>2, <1>4, <2>1 DEF FrameTag, TagIn
        <3>2. Kind(k, {"message"})
            BY <1>3, <2>1 DEF Kind
        <3>3. QED
            BY <1>8, <3>1, <3>2
    <2>2. QED
        BY <2>1
<1>11. \A k \in Call : Ahead(k)' => Ahead(k)
    <2>1. ASSUME NEW k \in Call, Ahead(k)' PROVE Ahead(k)
        <3>1. CASE \E u \in Thread : th'[u].step \in Sending /\ th'[u].call = k
            BY <1>2, <1>6, <3>1 DEF Ahead, Moves, Frees, Sending, Idle
        <3>2. CASE \E s \in Sid : TagIn(out, s, k)'
            <4>1. (\E s \in Sid : TagIn(out, s, k)) \/ k = c
                BY <1>2, <1>4, <3>2 DEF TagIn
            <4>2. QED
                BY <1>2, <1>4, <4>1 DEF Ahead, Sending
        <3>3. QED
            BY <2>1, <3>1, <3>2 DEF Ahead
    <2>2. QED
        BY <2>1
<1>12. StoredSeen'
    BY <1>3, <1>11, StoredSeenKept DEF Messages
<1>13. EndsEarly'
    BY <1>2 DEF EndsEarly
<1>14. \A k \in Call : Kind(k, {"message"})' => Kind(k, {"message"})
    BY <1>3 DEF Kind
<1>15. QED
    BY <1>3, <1>7, <1>9, <1>10, <1>12, <1>13, <1>14, MessagesStay

\* Putting a callback; a message goes on to be cached.
LEMMA MessagesAfter ==
    ASSUME Base, Messages, NEW t \in Thread, After(t, "cache"), alive,
           th[t].kind = "message" => Moves(t, "cache"),
           UNCHANGED <<temp, msgs, made, gone, stored, out, back, alive>>
    PROVE  Messages'
<1>1. Busy(t) /\ Grown
    BY StepBusy, NothingGrown DEF After
<1>2. PICK c : c = th[t].call
    OBVIOUS
<1>3. Kind(c, {th[t].kind})
    BY <1>1, <1>2, InCall
<1>4. \A u \in Thread : u # t => th'[u] = th[u]
    BY DEF After, Moves, Frees
<1>5. \A k \in Call : Has("main", k)' => Has("main", k)
    <2>1. CASE t = "main"
        BY <1>1, <2>1 DEF After, Moves, Frees, Has
    <2>2. CASE t # "main"
        BY <1>4, <2>2, TwoThreads DEF Has, Busy
    <2>3. QED
        BY <2>1, <2>2
<1>6. ASSUME NEW k \in Call, Kind(k, {"message"}), Has("main", k)
      PROVE  Has("main", k)'
    <2>1. CASE t = "main"
        <3>1. k = c
            BY <1>2, <1>6, <2>1 DEF Has
        <3>2. th[t].kind = "message"
            BY <1>3, <1>6, <3>1 DEF Kind
        <3>3. QED
            BY <1>2, <2>1, <3>1, <3>2 DEF Moves, Has
    <2>2. CASE t # "main"
        BY <1>4, <1>6, <2>2, TwoThreads DEF Has, Busy
    <2>3. QED
        BY <2>1, <2>2
<1>7. \A s \in Sid : \A k \in Call : FrameTag(s, k)' => FrameTag(s, k)
    BY SameFrames
<1>8. \A k : Ahead(k)' => Ahead(k)
    <2>1. \A u \in Thread : th'[u].step \in Sending =>
              th[u].step \in Sending /\ th'[u].call = th[u].call
        BY DEF After, Moves, Frees, Sending, Idle
    <2>2. QED
        BY <2>1, FewerAhead
<1>9. StoredSeen'
    BY <1>8, StoredSeenKept DEF Messages
<1>10. EndsEarly'
    BY DEF EndsEarly
<1>11. \A k \in Call : Kind(k, {"message"})' => Kind(k, {"message"})
    BY DEF Kind
<1>12. QED
    BY <1>1, <1>5, <1>6, <1>7, <1>9, <1>10, <1>11, MessagesStay

LEMMA MessagesPutCallback ==
    ASSUME Base, Messages, NEW t \in Thread, PutCallback(t)
    PROVE  Messages'
<1>1. After(t, "cache") /\ (th[t].kind = "message" => Moves(t, "cache"))
    BY PutsCallback
<1>2. alive /\ UNCHANGED <<db, alive, out, back, server, past>>
    BY DEF PutCallback
<1>3. UNCHANGED <<temp, msgs, made, gone, stored>>
    BY <1>2 DEF db, server, past
<1>4. QED
    BY <1>1, <1>2, <1>3, MessagesAfter

LEMMA MessagesPutQuery ==
    ASSUME Base, Messages, NEW t \in Thread, PutQuery(t)
    PROVE  Messages'
<1>1. After(t, "cache") /\ th[t].kind # "message"
    BY PutsQuery
<1>2. alive /\ UNCHANGED <<db, alive, out, back, server, past>>
    BY DEF PutQuery
<1>3. UNCHANGED <<temp, msgs, made, gone, stored>>
    BY <1>2 DEF db, server, past
<1>4. QED
    BY <1>1, <1>2, <1>3, MessagesAfter

LEMMA MessagesCacheMessage ==
    ASSUME Base, TagsUnique, Messages, CacheMessage
    PROVE  Messages'
<1>1. PICK x, c : x = th["main"].sid /\ c = th["main"].call
    OBVIOUS
<1>2. /\ Busy("main") /\ Frees("main") /\ "main" \in Thread
      /\ x \in Sid /\ c \in Call /\ temp' = [temp EXCEPT ![x] = c]
      /\ alive /\ UNCHANGED <<msgs, alive, out, back, server, past>>
    BY <1>1, Caches DEF CacheMessage
<1>3. UNCHANGED <<made, gone, stored>>
    BY <1>2 DEF past, server
<1>4. Tag(x, c)
    BY <1>1, <1>2 DEF Tag, TagPut, Has
<1>5. temp'[x] = c /\ \A s \in Sid : s # x => temp'[s] = temp[s]
    BY <1>2 DEF Base, Typed
<1>6. \A k : ~Has("main", k)'
    BY <1>2 DEF Frees, Has
<1>7. \A k : Has("main", k) => k = c
    BY <1>1 DEF Has
<1>8. \A k \in Call : Tag(x, k) => k = c
    BY <1>2, <1>4 DEF TagsUnique
<1>9. /\ MessageKept /\ MessageHeld /\ StoredSeen /\ CachedTrue
    BY DEF Messages
<1>10. ASSUME NEW k \in Call, Kind(k, {"message"})', k > gone
       PROVE  (\E s \in Sid : temp'[s] = k) \/ Acked(k)'
    <2>1. CASE k = c
        BY <1>2, <1>5, <2>1
    <2>2. CASE k # c
        <3>1. (\E s \in Sid : temp[s] = k) \/ Acked(k)
            BY <1>3, <1>7, <1>9, <1>10, <2>2 DEF MessageKept, Kind
        <3>2. \A s \in Sid : temp[s] = k => s # x
            BY <1>8, <1>10, <2>2 DEF Tag, TagTemp
        <3>3. QED
            BY <1>2, <1>5, <3>1, <3>2 DEF Acked
    <2>3. QED
        BY <2>1, <2>2
<1>11. ASSUME NEW s \in Sid, NEW k \in Call, Kind(k, {"message"})', FrameTag(s, k)'
       PROVE  temp'[s] = k
    <2>1. Kind(k, {"message"}) /\ FrameTag(s, k)
        BY <1>2, <1>3, <1>11 DEF Kind, FrameTag, TagIn
    <2>2. Tag(s, k)
        BY <2>1, TagFrames
    <2>3. CASE s = x
        BY <1>5, <1>8, <2>2, <2>3
    <2>4. CASE s # x
        <3>1. k # c
            BY <1>2, <1>4, <2>2, <2>4 DEF TagsUnique
        <3>2. QED
            BY <1>5, <1>7, <1>9, <2>1, <2>4, <3>1 DEF MessageHeld
    <2>5. QED
        BY <2>3, <2>4
<1>12. \A k : Ahead(k)' => Ahead(k)
    <2>1. \A u \in Thread : th'[u].step \in Sending =>
              th[u].step \in Sending /\ th'[u].call = th[u].call
        BY <1>2 DEF Frees, Sending, Idle
    <2>2. QED
        BY <1>2, <2>1, FewerAhead
<1>13. StoredSeen'
    BY <1>3, <1>9, <1>12, StoredSeenKept
<1>14. MessageKept' /\ MessageHeld'
    BY <1>3, <1>10, <1>11 DEF MessageKept, MessageHeld
<1>15. NotYetCached' /\ EndsEarly' /\ CachedTrue'
    BY <1>2, <1>3, <1>6, <1>9 DEF NotYetCached, EndsEarly, CachedTrue
<1>16. QED
    BY <1>13, <1>14, <1>15 DEF Messages

\* What the loop thread reads leaves the threads; only the temporary key may go.
LEMMA MessagesReads ==
    ASSUME Base, Messages, UNCHANGED <<temp, th, out, made, stored, gone>>,
           Elems(back') \subseteq Elems(back), EndsEarly',
           \A i \in Id : \/ msgs'[i] = msgs[i]
                         \/ i \in 1..Len(stored) /\ msgs'[i] = stored[i]
    PROVE  Messages'
<1>1. Grown
    BY NothingGrown
<1>2. \A k : Ahead(k)' => Ahead(k)
    BY FewerAhead
<1>3. StoredSeen'
    BY <1>2, StoredSeenKept DEF Messages
<1>4. \A s \in Sid : \A k \in Call : FrameTag(s, k)' => FrameTag(s, k)
    BY SameFrames
<1>5. \A k \in Call : Kind(k, {"message"})' => Kind(k, {"message"})
    BY DEF Kind
<1>6. QED
    BY <1>1, <1>3, <1>4, <1>5, MessagesLeft

LEMMA MessagesJustReads ==
    ASSUME Base, Messages, NEW kind, NEW key, JustReads(kind, key)
    PROVE  Messages'
<1>1. UNCHANGED <<db, th, alive, out, server, past>>
    BY DEF JustReads, JustCalls
<1>2. UNCHANGED <<temp, msgs, made, gone, stored>>
    BY <1>1 DEF db, server, past
<1>3. alive /\ Elems(back') \subseteq Elems(back)
    BY Takes DEF JustReads
<1>4. EndsEarly'
    BY <1>1, <1>3 DEF EndsEarly
<1>5. QED
    BY <1>1, <1>2, <1>3, <1>4, MessagesReads

LEMMA MessagesNodeMessage ==
    ASSUME Base, Messages, NEW isStop \in BOOLEAN, NodeMessage(isStop)
    PROVE  Messages'
<1>1. PICK s, o, i, k : s = Head(back).sid /\ o = Head(back).of /\ i = Head(back).id /\ k = mmap[s]
    OBVIOUS
<1>2. /\ i \in 1..Len(stored) /\ msgs' = [msgs EXCEPT ![i] = stored[i]]
      /\ UNCHANGED <<temp, th, alive, out, server, past>>
    BY <1>1, ReadsMessage
<1>3. UNCHANGED <<made, gone, stored>>
    BY <1>2 DEF server, past
<1>4. alive /\ Elems(back') \subseteq Elems(back)
    BY Takes DEF NodeMessage
<1>5. \A j \in Id : \/ msgs'[j] = msgs[j]
                    \/ j \in 1..Len(stored) /\ msgs'[j] = stored[j]
    BY <1>2 DEF Base, Typed
<1>6. EndsEarly'
    BY <1>2, <1>4 DEF EndsEarly
<1>7. QED
    BY <1>2, <1>3, <1>4, <1>5, <1>6, MessagesReads

LEMMA MessagesEraseQuery ==
    ASSUME Base, Messages, EraseQuery
    PROVE  Messages'
<1>1. alive /\ UNCHANGED <<db, th, alive, out, back, server, past>>
    BY DEF EraseQuery
<1>2. UNCHANGED <<temp, msgs, made, gone, stored>>
    BY <1>1 DEF db, server, past
<1>3. EndsEarly'
    BY <1>1 DEF EndsEarly
<1>4. QED
    BY <1>1, <1>2, <1>3, MessagesReads

\* An answer other than a message is the last frame of its call.
LEMMA HeadOnce ==
    ASSUME Base, Serial, BackOrder, NEW kind \in {"res", "error", "leaveres", "msgres"},
           Reads(kind), UNCHANGED out, NEW s, s = Head(back).sid
    PROVE  \A m : ~FrameTag(s, m)'
<1>1. PICK n, q : n = Len(back) /\ q = back'
    OBVIOUS
<1>2. /\ n \in Nat /\ n > 0 /\ back[1].sid = s /\ back[1].kind = kind /\ s \in Sid
      /\ Len(q) = n - 1 /\ \A i \in 1..(n - 1) : q[i] = back[i + 1]
    BY <1>1, Takes DEF Reads
<1>3. 1 \in 1..n /\ \A i \in 1..(n - 1) : i + 1 \in 1..n /\ i + 1 # 1
    BY <1>2
<1>4. s < srv /\ s \in Nat /\ srv \in Nat
    BY <1>1, <1>2, <1>3, Numbers, CountsNat, SMTT(30) DEF BackOrder
<1>5. ASSUME NEW m, TagIn(out, s, m) PROVE FALSE
    <2>1. PICK i \in 1..Len(out) : out[i].sid = s
        BY <1>5 DEF TagIn, Elems
    <2>2. s = srv + i - 1
        BY <2>1 DEF Serial
    <2>3. QED
        BY <1>4, <2>2
<1>6. ASSUME NEW m, TagIn(q, s, m) PROVE FALSE
    <2>1. PICK i \in 1..Len(q) : q[i].sid = s /\ q[i].kind # "noti"
        BY <1>6 DEF TagIn, Elems
    <2>2. back[i + 1].sid = s /\ back[i + 1].kind # "noti"
        BY <1>2, <2>1
    <2>3. back[1].kind = "msg"
        BY <1>1, <1>2, <1>3, <2>2 DEF BackOrder
    <2>4. QED
        BY <1>2, <2>3
<1>7. ASSUME NEW m PROVE ~FrameTag(s, m)'
    <2>1. ~TagIn(out, s, m)'
        BY <1>5 DEF TagIn
    <2>2. ~TagIn(back, s, m)'
        BY <1>1, <1>6 DEF TagIn
    <2>3. QED
        BY <2>1, <2>2 DEF FrameTag
<1>8. QED
    BY <1>7

LEMMA MessagesMessageRes ==
    ASSUME Base, Serial, TagsUnique, TagsPast, BackOrder, Messages, MessageRes
    PROVE  Messages'
<1>1. PICK s, k, i : s = Head(back).sid /\ k = Head(back).of /\ i = Head(back).id
    OBVIOUS
<1>2. /\ s \in Sid /\ k \in Call /\ i \in Id /\ i \in 1..Len(stored) /\ stored[i] = k
      /\ Kind(k, {"message"})
      /\ Acknowledges(s, k, i) \/ Throws(s)
      /\ UNCHANGED <<th, out, server, past>>
    BY <1>1, ReadsAck
<1>3. UNCHANGED <<made, stored, gone>>
    BY <1>2 DEF server, past
<1>4. /\ Reads("msgres") /\ alive /\ Elems(back') \subseteq Elems(back)
      /\ Head(back) \in Elems(back) /\ Head(back).kind = "msgres"
    BY Takes DEF MessageRes
<1>5. FrameTag(s, k)
    BY <1>1, <1>4 DEF FrameTag, TagIn
<1>6. Tag(s, k) /\ k > gone
    BY <1>2, <1>5, TagFrames DEF TagsPast
<1>7. /\ MessageKept /\ MessageHeld /\ StoredSeen /\ NotYetCached /\ CachedTrue
    BY DEF Messages
<1>8. CASE Throws(s)
    <2>1. UNCHANGED <<temp, msgs>> /\ temp[s] # k
        BY <1>2, <1>8, Numbers DEF Throws
    <2>2. Has("main", k)
        BY <1>2, <1>5, <1>7, <2>1 DEF MessageHeld
    <2>3. ~Ahead(k)
        BY <1>2, <1>6, <1>7, Numbers DEF StoredSeen, Here
    <2>4. th["main"].step \in {"put", "cache"}
        BY <2>2, <2>3, InCall, TwoThreads DEF Has, Ahead, Sending
    <2>5. EndsEarly'
        BY <1>2, <2>4 DEF EndsEarly
    <2>6. QED
        BY <1>2, <1>3, <1>4, <2>1, <2>5, MessagesReads
<1>9. CASE Acknowledges(s, k, i)
    <2>1. PICK j : j = temp[s]
        OBVIOUS
    <2>2. /\ j # NoCall /\ alive' = alive
          /\ msgs'[i] = j /\ \A q \in Id : q # i => msgs'[q] = msgs[q]
          /\ temp'[s] = NoCall /\ \A r \in Sid : r # s => temp'[r] = temp[r]
        BY <1>2, <1>9, <2>1 DEF Acknowledges, Base, Typed
    <2>3. j \in Call
        BY <1>2, <2>1, <2>2 DEF Base, Typed, CallOrNone
    <2>4. j > gone => j = k
        BY <1>2, <1>6, <2>1, <2>3 DEF TagsUnique, Tag, TagTemp
    <2>5. \A m : Has("main", m)' <=> Has("main", m)
        BY <1>2 DEF Has, Busy
    <2>6. MessageKept'
        <3> SUFFICES ASSUME NEW m \in Call, Kind(m, {"message"}), m > gone, ~Has("main", m)
                     PROVE  (\E r \in Sid : temp'[r] = m) \/ Acked(m)'
            BY <1>3, <2>5 DEF MessageKept, Kind
        <3>1. CASE \E r \in Sid : temp[r] = m
            <4>1. PICK r \in Sid : temp[r] = m
                BY <3>1
            <4>2. CASE r = s
                BY <1>2, <2>1, <2>2, <4>1, <4>2 DEF Acked
            <4>3. CASE r # s
                BY <2>2, <4>1, <4>3
            <4>4. QED
                BY <4>2, <4>3
        <3>2. CASE Acked(m)
            <4>1. PICK q \in Id : msgs[q] = m
                BY <3>2 DEF Acked
            <4>2. CASE q = i
                <5>1. m = k
                    BY <1>2, <1>7, <4>1, <4>2, Numbers DEF CachedTrue
                <5>2. temp[s] = k
                    BY <1>2, <1>5, <1>7, <5>1 DEF MessageHeld
                <5>3. QED
                    BY <1>2, <2>1, <2>2, <5>1, <5>2 DEF Acked
            <4>3. CASE q # i
                BY <2>2, <4>1, <4>3 DEF Acked
            <4>4. QED
                BY <4>2, <4>3
        <3>3. QED
            BY <1>7, <3>1, <3>2 DEF MessageKept
    <2>7. MessageHeld'
        <3> SUFFICES ASSUME NEW r \in Sid, NEW m \in Call, Kind(m, {"message"}), FrameTag(r, m)'
                     PROVE  Has("main", m) \/ temp'[r] = m
            BY <1>3, <2>5 DEF MessageHeld, Kind
        <3>1. r # s
            BY <1>1, <1>2, <1>4, HeadOnce
        <3>2. FrameTag(r, m)
            BY <1>2, <1>4, SameFrames
        <3>3. QED
            BY <1>7, <2>2, <3>1, <3>2 DEF MessageHeld
    <2>8. \A m : Ahead(m)' => Ahead(m)
        BY <1>2, FewerAhead
    <2>9. StoredSeen'
        BY <1>3, <1>7, <2>8, StoredSeenKept
    <2>10. NotYetCached'
        <3>1. \A r \in Sid : temp'[r] \in {NoCall, temp[r]}
            BY <2>2
        <3>2. QED
            BY <1>7, <2>5, <3>1, Numbers DEF NotYetCached
    <2>11. CachedTrue'
        <3>1. i <= Len(stored)
            BY <1>2, LenProperties DEF Base, Typed
        <3>2. ASSUME NEW q \in Id, msgs'[q] # NoCall, msgs'[q] # Peer, msgs'[q] > gone
              PROVE  q <= Len(stored) /\ msgs'[q] = stored[q]
            <4>1. CASE q = i
                BY <1>2, <2>2, <2>4, <3>1, <3>2, <4>1
            <4>2. CASE q # i
                BY <1>7, <2>2, <3>2, <4>2 DEF CachedTrue
            <4>3. QED
                BY <4>1, <4>2
        <3>3. QED
            BY <1>3, <3>2 DEF CachedTrue
    <2>12. EndsEarly'
        BY <1>4, <2>2 DEF EndsEarly
    <2>13. QED
        BY <2>6, <2>7, <2>9, <2>10, <2>11, <2>12 DEF Messages
<1>10. QED
    BY <1>2, <1>8, <1>9

\* The message that is stored has been taken from the frames.
LEMMA MessagesServe ==
    ASSUME Base, Serial, TagsUnique, Messages, NEW f, NEW a, NEW s, Served(f, a, s)
    PROVE  Messages'
<1>1. PICK c : c = f.of
    OBVIOUS
<1>2. /\ f \in Elems(out) /\ f \in Request /\ f.kind # "noti" /\ c \in Call /\ f.sid \in Sid
      /\ s = f.sid /\ s = srv /\ srv \in Nat /\ Len(out) \in Nat /\ Len(out) > 0
      /\ Len(out') = Len(out) - 1 /\ \A i \in 1..(Len(out) - 1) : out'[i] = out[i + 1]
      /\ Elems(out') \subseteq Elems(out)
      /\ UNCHANGED <<db, th, alive, past>>
    BY <1>1, SerialServe, RequestFields, CountsNat DEF Served, SendKinds
<1>3. UNCHANGED <<temp, msgs, made, gone>> /\ Grown
    BY <1>2, ServedStored DEF db, past
<1>4. TagIn(out, s, c) /\ Tag(s, c)
    BY <1>1, <1>2 DEF TagIn, Tag
<1>5. \A k : Ahead(k)' => Ahead(k)
    BY <1>2, FewerAhead
<1>6. ~Ahead(c)'
    <2>1. ASSUME NEW t \in Thread, th[t].step \in Sending, th[t].call = c PROVE FALSE
        <3>1. Busy(t) /\ th[t].sid \in Sid
            BY <2>1, StepBusy, InCall DEF Sending
        <3>2. Tag(th[t].sid, c)
            BY <2>1, <3>1 DEF Tag, TagPut, Has
        <3>3. th[t].sid = s
            BY <1>2, <1>4, <3>1, <3>2 DEF TagsUnique
        <3>4. th[t].sid = srv + Len(out)
            BY <2>1 DEF Serial
        <3>5. QED
            BY <1>2, <3>3, <3>4
    <2>2. ASSUME NEW x \in Sid, TagIn(out, x, c)' PROVE FALSE
        <3>1. PICK n \in Nat : n = Len(out)
            BY <1>2
        <3>2. PICK i \in 1..(n - 1) : out'[i].sid = x /\ out'[i].of = c
            BY <1>2, <2>2, <3>1 DEF TagIn, Elems
        <3>3. i + 1 \in 1..n /\ out[i + 1].sid = x
            BY <1>2, <3>1, <3>2
        <3>4. x = srv + i
            BY <1>2, <3>1, <3>3 DEF Serial
        <3>5. TagIn(out, x, c)
            BY <1>2, <2>2 DEF TagIn
        <3>6. x = s
            BY <1>2, <1>4, <3>5 DEF TagsUnique, Tag
        <3>7. QED
            BY <1>2, <3>2, <3>4, <3>6
    <2>3. QED
        BY <1>2, <2>1, <2>2 DEF Ahead
<1>7. StoredSeen'
    <2> SUFFICES ASSUME NEW i \in 1..Len(stored'), Here(stored[i])' PROVE ~Ahead(stored[i])'
        BY DEF StoredSeen
    <2>1. CASE i \in 1..Len(stored)
        <3>1. PICK k : k = stored[i]
            OBVIOUS
        <3>2. stored'[i] = k /\ ~Ahead(k)
            BY <1>3, <2>1, <3>1 DEF Grown, Here, Messages, StoredSeen
        <3>3. ~Ahead(k)'
            BY <1>5, <3>2
        <3>4. QED
            BY <3>2, <3>3 DEF Ahead
    <2>2. CASE i \notin 1..Len(stored)
        <3>1. OneStored(c)
            BY <1>1, <2>2, ServedStored DEF Served
        <3>2. PICK n \in Nat : n = Len(stored)
            BY <3>1 DEF OneStored
        <3>3. i = n + 1
            BY <2>2, <3>1, <3>2 DEF OneStored
        <3>4. stored'[i] = c
            BY <3>1, <3>2, <3>3 DEF OneStored
        <3>5. QED
            BY <1>6, <3>4 DEF Ahead
    <2>3. QED
        BY <2>1, <2>2
<1>8. EndsEarly'
    BY <1>2 DEF EndsEarly, Messages
<1>9. \A x \in Sid : \A k \in Call : FrameTag(x, k)' => FrameTag(x, k)
    <2>1. /\ Elems(back') = Elems(back) \cup Elems(a)
          /\ \A g \in Elems(a) : g.sid = s /\ g.of = c
        BY <1>1, ServedBack
    <2>2. QED
        BY <1>4, <1>2, <2>1 DEF FrameTag, TagIn
<1>10. \A k \in Call : Kind(k, {"message"})' => Kind(k, {"message"})
    BY <1>3 DEF Kind
<1>11. QED
    BY <1>2, <1>3, <1>7, <1>8, <1>9, <1>10, MessagesLeft

LEMMA MessagesNotify ==
    ASSUME Base, Messages, NEW g, Notified(g)
    PROVE  Messages'
<1>1. /\ g.kind = "noti" /\ Elems(back') = Elems(back) \cup {g} /\ Grown /\ OneStored(Peer)
      /\ UNCHANGED <<db, th, alive, out, past>>
    BY DEF Notified
<1>2. UNCHANGED <<temp, msgs, made, gone>>
    BY <1>1 DEF past, db
<1>3. \A k : Ahead(k)' => Ahead(k)
    BY <1>1, FewerAhead
<1>4. StoredSeen'
    <2> SUFFICES ASSUME NEW i \in 1..Len(stored'), Here(stored[i])' PROVE ~Ahead(stored[i])'
        BY DEF StoredSeen
    <2>1. PICK n \in Nat : n = Len(stored)
        BY <1>1 DEF OneStored
    <2>2. i \in 1..n \/ i = n + 1
        BY <1>1, <2>1 DEF OneStored
    <2>3. i \in 1..n
        BY <1>1, <2>1, <2>2 DEF OneStored, Here
    <2>4. PICK k : k = stored[i]
        OBVIOUS
    <2>5. stored'[i] = k /\ ~Ahead(k)
        BY <1>2, <1>1, <2>1, <2>3, <2>4 DEF Grown, Here, Messages, StoredSeen
    <2>6. ~Ahead(k)'
        BY <1>3, <2>5
    <2>7. QED
        BY <2>5, <2>6 DEF Ahead
<1>5. EndsEarly'
    BY <1>1 DEF EndsEarly, Messages
<1>6. \A x \in Sid : \A k \in Call : FrameTag(x, k)' => FrameTag(x, k)
    BY <1>1 DEF FrameTag, TagIn
<1>7. \A k \in Call : Kind(k, {"message"})' => Kind(k, {"message"})
    BY <1>2 DEF Kind
<1>8. QED
    BY <1>1, <1>2, <1>4, <1>5, <1>6, <1>7, MessagesLeft

-----------------------------------------------------------------------------
(* A session, from its beginning.                                          *)

\* What a start of the process leaves.
Fresh ==
    /\ \A t \in Thread : th[t] = Idle
    /\ out = <<>> /\ back = <<>> /\ sessionid = srv /\ srv \in Nat
    /\ \A s \in Key : cbmap[s] = NoCall
    /\ \A s \in Sid : mmap[s] = NoCall
    /\ erasing = NoSid /\ alive /\ gone = Len(made)

LEMMA FreshSession == Base /\ Fresh => Session
<1> SUFFICES ASSUME Base, Fresh PROVE Session
    OBVIOUS
<1>1. \A t \in Thread : ~Busy(t) /\ th[t].step \notin Sending /\ th[t].step \notin {"push", "cache"}
    BY DEF Fresh, Busy, Idle, Sending
<1>2. /\ Elems(out) = {} /\ Elems(back) = {} /\ Len(out) = 0 /\ Len(back) = 0
    BY NoFrames DEF Fresh
<1>3. \A k : Kind(k, {"message"}) \/ Kind(k, {"leave"}) => ~(k > gone)
    <2>1. gone \in Nat /\ gone = Len(made)
        BY DEF Fresh, Base, Typed
    <2>2. \A k \in 1..gone : ~(k > gone)
        BY <2>1
    <2>3. QED
        BY <2>1, <2>2 DEF Kind
<1>4. \A s \in Sid : \A k \in Call : ~FrameTag(s, k)
    BY <1>2 DEF FrameTag, TagIn
<1>5. \A s \in Sid : \A k \in Call : ~Tag(s, k)
    <2> SUFFICES ASSUME NEW s \in Sid, NEW k \in Call, Tag(s, k) PROVE FALSE
        OBVIOUS
    <2>1. CASE TagPut(s, k)
        BY <1>1, <2>1 DEF TagPut, Has
    <2>2. CASE TagMap(s, k)
        BY <2>2, Numbers DEF TagMap, Fresh
    <2>3. CASE TagTemp(s, k)
        <3>1. k # NoCall
            BY Numbers
        <3>2. Kind(k, {"message"})
            BY <2>3, <3>1 DEF TagTemp, Base, KindsOf, TempOk
        <3>3. QED
            BY <1>3, <2>3, <3>2 DEF TagTemp
    <2>4. QED
        BY <1>4, <2>1, <2>2, <2>3 DEF Tag, FrameTag
<1>6. Serial
    <2>1. sessionid = srv + Len(out)
        BY <1>2 DEF Fresh
    <2>2. QED
        BY <1>1, <1>2, <2>1, TwoThreads DEF Serial
<1>7. TagsUnique /\ TagsPast
    BY <1>5 DEF TagsUnique, TagsPast
<1>8. BackOrder
    BY <1>2 DEF BackOrder
<1>9. CallbackKept
    BY <1>1, <1>3, <1>4, TwoThreads DEF CallbackKept, FramesKept, CacheKept, EraseKept, LeaveHeld, Fresh
<1>10. Messages
    <2>1. MessageKept /\ MessageHeld
        BY <1>3, <1>4 DEF MessageKept, MessageHeld
    <2>2. StoredSeen
        BY <1>1, <1>2 DEF StoredSeen, Ahead, TagIn
    <2>3. NotYetCached /\ EndsEarly
        BY <1>1, TwoThreads DEF NotYetCached, EndsEarly, Has, Fresh
    <2>4. CachedTrue
        BY <1>3, Numbers DEF CachedTrue, Base, KindsOf, MsgsOk
    <2>5. QED
        BY <2>1, <2>2, <2>3, <2>4 DEF Messages
<1>11. QED
    BY <1>6, <1>7, <1>8, <1>9, <1>10 DEF Session

LEMMA FreshInit == Init => Fresh
BY Numbers DEF Init, Fresh, Key

LEMMA FreshRestart ==
    ASSUME Base, Restart
    PROVE  Fresh'
<1>1. /\ gone' = Len(made) /\ made' = made
      /\ cbmap' = [k \in Sid \cup Reserved |-> NoCall] /\ mmap' = [k \in Sid |-> NoCall]
      /\ srv' \in {srv, FirstSid} /\ sessionid' = srv'
      /\ th' = [t \in Thread |-> Idle] /\ erasing' = NoSid /\ alive' = TRUE
      /\ out' = <<>> /\ back' = <<>>
    BY DEF Restart
<1>2. srv' \in Nat
    BY <1>1, CountsNat, Numbers
<1>3. QED
    BY <1>1, <1>2 DEF Fresh, Key

LEMMA SessionRestart == ASSUME Base, Restart PROVE Session'
<1>1. Base' /\ Fresh'
    BY BaseRestart, FreshRestart
<1>2. QED
    BY <1>1, FreshSession, PTL

\* The steps, by what they do.
Steps ==
    \/ OnUnread
    \/ \E t, kind, id : Sends(t, kind, id)
    \/ \E t \in Thread : StoreSessionID(t)
    \/ \E t \in Thread : PushBuffer(t)
    \/ \E t \in Thread : PutCallback(t)
    \/ \E t \in Thread : PutQuery(t)
    \/ CacheMessage
    \/ \E kind, key : JustReads(kind, key)
    \/ MessageRes
    \/ \E isStop \in BOOLEAN : NodeMessage(isStop)
    \/ EraseQuery
    \/ \E f, a, s : Served(f, a, s)
    \/ \E g : Notified(g)
    \/ UNCHANGED vars

LEMMA NextSteps == ASSUME Base, [Next]_vars PROVE Steps \/ Restart
<1>1. CASE OnUnread \/ CacheMessage \/ Restart \/ UNCHANGED vars
    BY <1>1 DEF Steps
<1>2. CASE StartLeave
    <2>1. /\ "leave" \in Kinds /\ "leave" # "onunread" /\ Start("leave")
          /\ cbmap' = [cbmap EXCEPT ![-2] = Len(made')]
        BY <1>2 DEF StartLeave, Start, KeyOf
    <2>2. Sends("main", "leave", 0)
        BY <2>1, StartSends
    <2>3. QED
        BY <2>2 DEF Steps
<1>3. CASE \E kind \in AllKinds : StartCall(kind)
    <2>1. PICK kind \in AllKinds : StartCall(kind)
        BY <1>3
    <2>2. kind \in Kinds /\ kind \in {"request", "message", "query"} /\ Start(kind) /\ UNCHANGED cbmap
        BY <2>1 DEF StartCall, Start
    <2>3. kind # "leave" /\ kind # "onunread"
        BY <2>2
    <2>4. Sends("main", kind, 0)
        BY <2>2, <2>3, StartSends
    <2>5. QED
        BY <2>4 DEF Steps
<1>4. CASE \E t \in Thread : Go(t)
    BY <1>4 DEF Go, Steps
<1>5. CASE Read
    <2>1. CASE ReadRes \/ ReadError \/ ReadLeave
        BY <2>1, ReadsJust DEF Steps
    <2>2. CASE MsgUnreadNoti
        BY <2>2, NotiSends DEF Steps
    <2>3. CASE MessageRes \/ EraseQuery \/ \E isStop \in BOOLEAN : NodeMessage(isStop)
        BY <2>3 DEF Steps
    <2>4. QED
        BY <1>5, <2>1, <2>2, <2>3 DEF Read
<1>6. CASE Serve
    BY <1>6, Serves DEF Steps
<1>7. CASE Notify
    BY <1>7, Notifies DEF Steps
<1>8. QED
    BY <1>1, <1>2, <1>3, <1>4, <1>5, <1>6, <1>7 DEF Next

LEMMA SessionSends ==
    ASSUME Base, Session, ~overlap', NEW t, NEW kind, NEW id, Sends(t, kind, id)
    PROVE  Session'
<1>1. /\ t \in Thread /\ ~Busy(t) /\ Send(t, kind, id) /\ Begins(t, kind, id)
      /\ UNCHANGED <<sessionid, out, srv, stored>>
      /\ UNCHANGED back \/ Reads("noti")
    BY DEF Sends
<1>2. Serial'
    BY <1>1, SerialSend DEF Session
<1>3. TagsUnique' /\ TagsPast'
    BY SendsTags DEF Session
<1>4. BackOrder'
    BY <1>1, BackOrderKept, BackOrderTail DEF Session
<1>5. CallbackKept' /\ Messages'
    BY CallbackSends, MessagesSends DEF Session
<1>6. QED
    BY <1>2, <1>3, <1>4, <1>5 DEF Session

LEMMA SessionGo ==
    ASSUME Base, Session, NEW t \in Thread,
           StoreSessionID(t) \/ PushBuffer(t) \/ PutCallback(t) \/ PutQuery(t)
    PROVE  Session'
<1>1. CASE StoreSessionID(t)
    <2>1. /\ Moves(t, "push") /\ th[t].step = "store" /\ sessionid' = th[t].sid + 1
          /\ UNCHANGED <<out, back, server>>
        BY <1>1, Stores
    <2>2. UNCHANGED <<srv, stored>>
        BY <2>1 DEF server
    <2>3. Serial' /\ BackOrder'
        BY <2>1, <2>2, SerialStore, BackOrderKept DEF Session
    <2>4. TagsUnique' /\ TagsPast'
        BY <1>1, TagsStore, TagsKept DEF Session
    <2>5. CallbackKept' /\ Messages'
        BY <1>1, CallbackStore, MessagesStore DEF Session
    <2>6. QED
        BY <2>3, <2>4, <2>5 DEF Session
<1>2. CASE PushBuffer(t)
    <2>1. PICK f : f = [kind |-> th[t].kind, sid |-> th[t].sid, of |-> th[t].call, id |-> th[t].id]
        OBVIOUS
    <2>2. /\ th[t].step = "push" /\ out' = Append(out, f) /\ f \in Request /\ f.sid = th[t].sid
          /\ Frees(t) \/ Moves(t, "put")
          /\ UNCHANGED <<sessionid, back, server>>
        BY <1>2, <2>1, Pushes DEF PushBuffer
    <2>3. UNCHANGED <<srv, stored>>
        BY <2>2 DEF server
    <2>4. th'[t].step \notin Sending /\ \A u \in Thread : u # t => th'[u] = th[u]
        BY <2>2 DEF Frees, Moves, Sending, Idle
    <2>5. Serial' /\ BackOrder'
        BY <2>2, <2>3, <2>4, SerialPush, BackOrderKept DEF Session
    <2>6. TagsUnique' /\ TagsPast'
        BY <1>2, TagsPush, TagsKept DEF Session
    <2>7. CallbackKept' /\ Messages'
        BY <1>2, CallbackPush, MessagesPush DEF Session
    <2>8. QED
        BY <2>5, <2>6, <2>7 DEF Session
<1>3. CASE PutCallback(t)
    <2>1. After(t, "cache") /\ UNCHANGED <<sessionid, out, back, server>>
        BY <1>3, PutsCallback DEF PutCallback
    <2>2. UNCHANGED <<srv, stored>>
        BY <2>1 DEF server
    <2>3. Serial' /\ BackOrder'
        BY <2>1, <2>2, SerialAfter, BackOrderKept DEF Session
    <2>4. TagsUnique' /\ TagsPast'
        BY <1>3, TagsPutCallback, TagsKept DEF Session
    <2>5. CallbackKept' /\ Messages'
        BY <1>3, CallbackPutCallback, MessagesPutCallback DEF Session
    <2>6. QED
        BY <2>3, <2>4, <2>5 DEF Session
<1>4. CASE PutQuery(t)
    <2>1. After(t, "cache") /\ UNCHANGED <<sessionid, out, back, server>>
        BY <1>4, PutsQuery DEF PutQuery
    <2>2. UNCHANGED <<srv, stored>>
        BY <2>1 DEF server
    <2>3. Serial' /\ BackOrder'
        BY <2>1, <2>2, SerialAfter, BackOrderKept DEF Session
    <2>4. TagsUnique' /\ TagsPast'
        BY <1>4, TagsPutQuery, TagsKept DEF Session
    <2>5. CallbackKept' /\ Messages'
        BY <1>4, CallbackPutQuery, MessagesPutQuery DEF Session
    <2>6. QED
        BY <2>3, <2>4, <2>5 DEF Session
<1>5. QED
    BY <1>1, <1>2, <1>3, <1>4

LEMMA SessionCacheMessage ==
    ASSUME Base, Session, CacheMessage
    PROVE  Session'
<1>1. "main" \in Thread /\ After("main", "cache") /\ UNCHANGED <<sessionid, out, back, server>>
    BY Caches DEF CacheMessage
<1>2. UNCHANGED <<srv, stored>>
    BY <1>1 DEF server
<1>3. Serial' /\ BackOrder'
    BY <1>1, <1>2, SerialAfter, BackOrderKept DEF Session
<1>4. TagsUnique' /\ TagsPast'
    BY TagsCacheMessage, TagsKept DEF Session
<1>5. CallbackKept' /\ Messages'
    BY CallbackCacheMessage, MessagesCacheMessage DEF Session
<1>6. QED
    BY <1>3, <1>4, <1>5 DEF Session

\* What the loop thread reads leaves the ids.
LEMMA SessionReads ==
    ASSUME Base, Session, NEW kind, Reads(kind), UNCHANGED <<th, out, sessionid, server>>,
           FewerTags, gone' = gone, NextId' = NextId, CallbackKept', Messages'
    PROVE  Session'
<1>1. UNCHANGED <<srv, stored>>
    BY DEF server
<1>2. Serial' /\ BackOrder'
    BY <1>1, SerialKept, BackOrderTail DEF Session
<1>3. TagsUnique' /\ TagsPast'
    BY TagsKept DEF Session
<1>4. QED
    BY <1>2, <1>3 DEF Session

LEMMA SessionRead ==
    ASSUME Base, Session,
           (\E kind, key : JustReads(kind, key)) \/ MessageRes \/ EraseQuery
             \/ \E isStop \in BOOLEAN : NodeMessage(isStop)
    PROVE  Session'
<1>1. ASSUME NEW kind, NEW key, JustReads(kind, key) PROVE Session'
    <2>1. Reads(kind) /\ UNCHANGED <<th, out, sessionid, server>>
        BY <1>1 DEF JustReads, JustCalls
    <2>2. FewerTags /\ NextId' = NextId /\ gone' = gone
        BY <1>1, TagsJustReads
    <2>3. CallbackKept' /\ Messages'
        BY <1>1, CallbackJustReads, MessagesJustReads DEF Session
    <2>4. QED
        BY <2>1, <2>2, <2>3, SessionReads
<1>2. ASSUME MessageRes PROVE Session'
    <2>1. Reads("msgres") /\ UNCHANGED <<th, out, sessionid, server>>
        BY <1>2 DEF MessageRes
    <2>2. FewerTags /\ NextId' = NextId /\ gone' = gone
        BY <1>2, TagsMessageRes
    <2>3. CallbackKept' /\ Messages'
        BY <1>2, CallbackMessageRes, MessagesMessageRes DEF Session
    <2>4. QED
        BY <2>1, <2>2, <2>3, SessionReads
<1>3. ASSUME NEW isStop \in BOOLEAN, NodeMessage(isStop) PROVE Session'
    <2>1. Reads("msg") /\ UNCHANGED <<th, out, sessionid, server>>
        BY <1>3 DEF NodeMessage
    <2>2. FewerTags /\ NextId' = NextId /\ gone' = gone
        BY <1>3, TagsNodeMessage
    <2>3. CallbackKept' /\ Messages'
        BY <1>3, CallbackNodeMessage, MessagesNodeMessage DEF Session
    <2>4. QED
        BY <2>1, <2>2, <2>3, SessionReads
<1>4. ASSUME EraseQuery PROVE Session'
    <2>1. UNCHANGED <<th, out, back, sessionid, server>>
        BY <1>4 DEF EraseQuery
    <2>2. UNCHANGED <<srv, stored>>
        BY <2>1 DEF server
    <2>3. Serial' /\ BackOrder'
        BY <2>1, <2>2, SerialKept, BackOrderKept DEF Session
    <2>4. TagsUnique' /\ TagsPast'
        BY <1>4, TagsEraseQuery, TagsKept DEF Session
    <2>5. CallbackKept' /\ Messages'
        BY <1>4, CallbackEraseQuery, MessagesEraseQuery DEF Session
    <2>6. QED
        BY <2>3, <2>4, <2>5 DEF Session
<1>5. QED
    BY <1>1, <1>2, <1>3, <1>4

LEMMA SessionOnUnread == ASSUME Base, Session, OnUnread PROVE Session'
<1>1. UNCHANGED <<th, out, back, sessionid, server>>
    BY DEF OnUnread
<1>2. UNCHANGED <<srv, stored>>
    BY <1>1 DEF server
<1>3. Serial' /\ BackOrder'
    BY <1>1, <1>2, SerialKept, BackOrderKept DEF Session
<1>4. TagsUnique' /\ TagsPast'
    BY TagsOnUnread, TagsKept DEF Session
<1>5. CallbackKept' /\ Messages'
    BY CallbackOnUnread, MessagesOnUnread DEF Session
<1>6. QED
    BY <1>3, <1>4, <1>5 DEF Session

LEMMA SessionServer ==
    ASSUME Base, Session, (\E f, a, s : Served(f, a, s)) \/ \E g : Notified(g)
    PROVE  Session'
<1>1. ASSUME NEW f, NEW a, NEW s, Served(f, a, s) PROVE Session'
    <2>1. Serial'
        BY <1>1, SerialServe DEF Session
    <2>2. TagsUnique' /\ TagsPast'
        BY <1>1, TagsServe, TagsKept DEF Session
    <2>3. BackOrder'
        BY <1>1, BackOrderServe DEF Session, Messages
    <2>4. CallbackKept' /\ Messages'
        BY <1>1, CallbackServe, MessagesServe DEF Session
    <2>5. QED
        BY <2>1, <2>2, <2>3, <2>4 DEF Session
<1>2. ASSUME NEW g, Notified(g) PROVE Session'
    <2>1. Serial'
        BY <1>2, SerialKept DEF Session, Notified
    <2>2. TagsUnique' /\ TagsPast'
        BY <1>2, TagsNotify, TagsKept DEF Session
    <2>3. BackOrder'
        BY <1>2, BackOrderNotify DEF Session
    <2>4. CallbackKept' /\ Messages'
        BY <1>2, CallbackNotify, MessagesNotify DEF Session
    <2>5. QED
        BY <2>1, <2>2, <2>3, <2>4 DEF Session
<1>3. QED
    BY <1>1, <1>2

LEMMA SessionStutter == ASSUME Session, UNCHANGED vars PROVE Session'
<1>1. UNCHANGED <<cbmap, mmap, temp, msgs, sessionid, th, erasing, alive, out, back, srv, stored,
                  made, gone, ran>>
    BY DEF vars, maps, db, server, past, hist
<1>2. Serial' /\ BackOrder'
    BY <1>1, SerialKept, BackOrderKept DEF Session
<1>3. TagsUnique' /\ TagsPast'
    BY <1>1 DEF Session, TagsUnique, TagsPast, Tag, TagPut, TagIn, TagMap, TagTemp, Has, Busy,
               NextId, P
<1>4. CallbackKept'
    BY <1>1 DEF Session, CallbackKept, FramesKept, CacheKept, EraseKept, LeaveHeld, Kept, FrameTag,
               TagIn, Has, Busy, Ran, Kind
<1>5. Messages'
    BY <1>1 DEF Session, Messages, MessageKept, MessageHeld, StoredSeen, NotYetCached, EndsEarly,
               CachedTrue, FrameTag, TagIn, Has, Busy, Kind, Acked, Here, Ahead
<1>6. QED
    BY <1>2, <1>3, <1>4, <1>5 DEF Session

\* A step other than a restart does not end an overlap, nor make a key that is
\* left a fresh one.
LEMMA OverlapStays ==
    ASSUME Base, Steps
    PROVE  (~overlap' => ~overlap) /\ stale' = stale
<1>1. ASSUME NEW t, NEW kind, NEW id, Sends(t, kind, id)
      PROVE  (~overlap' => ~overlap) /\ stale' = stale
    BY <1>1 DEF Sends, Send, hist
<1>2. ASSUME NEW kind, NEW key, JustReads(kind, key) PROVE overlap' = overlap /\ stale' = stale
    BY <1>2 DEF JustReads, JustCalls, CallErase, Called
<1>3. ASSUME MessageRes PROVE overlap' = overlap /\ stale' = stale
    BY <1>3, ReadsAck DEF Acknowledges, Throws, CallErase, Called
<1>4. ASSUME NEW isStop \in BOOLEAN, NodeMessage(isStop) PROVE overlap' = overlap /\ stale' = stale
    BY <1>4 DEF NodeMessage
<1>5. ASSUME NEW f, NEW a, NEW s, Served(f, a, s) PROVE overlap' = overlap /\ stale' = stale
    BY <1>5 DEF Served, hist
<1>6. ASSUME NEW g, Notified(g) PROVE overlap' = overlap /\ stale' = stale
    BY <1>6 DEF Notified, hist
<1>7. ASSUME NEW t \in Thread, StoreSessionID(t) \/ PushBuffer(t) \/ PutCallback(t) \/ PutQuery(t)
      PROVE  overlap' = overlap /\ stale' = stale
    BY <1>7 DEF StoreSessionID, PushBuffer, PutCallback, PutQuery, hist
<1>8. ASSUME OnUnread \/ CacheMessage \/ EraseQuery \/ UNCHANGED vars
      PROVE  overlap' = overlap /\ stale' = stale
    BY <1>8 DEF OnUnread, CacheMessage, EraseQuery, vars, hist
<1>9. QED
    BY <1>1, <1>2, <1>3, <1>4, <1>5, <1>6, <1>7, <1>8 DEF Steps

LEMMA SessionNext ==
    ASSUME Base, ~overlap => Session, Steps, ~overlap'
    PROVE  ~overlap /\ Session /\ Session'
<1>1. ~overlap /\ Session
    BY OverlapStays
<1>2. QED
    BY <1>1, SessionOnUnread, SessionSends, SessionGo, SessionCacheMessage, SessionRead,
       SessionServer, SessionStutter DEF Steps

LEMMA SessionKept ==
    ASSUME Base, ~overlap => Session, [Next]_vars
    PROVE  ~overlap' => Session'
<1>1. CASE Restart
    BY <1>1, SessionRestart
<1>2. CASE ~Restart
    BY <1>2, NextSteps, SessionNext
<1>3. QED
    BY <1>1, <1>2

LEMMA SessionInit == Init => Session
BY BaseInit, FreshInit, FreshSession

-----------------------------------------------------------------------------
(* What a session keeps.                                                   *)

\* A message under the server's id is the one the server has under that id:
\* the ids that frames, callbacks and temporary keys are kept under name one
\* call each, so the answer that is read moves the message it answers.
THEOREM CacheIsTrue == Spec => []CacheTrue
<1>1. Init => Base /\ (~overlap => Session)
    BY BaseInit, SessionInit
<1>2. Base /\ (~overlap => Session) /\ [Next]_vars => (Base /\ (~overlap => Session))'
    BY BaseNext, SessionKept
<1>3. Base /\ (~overlap => Session) => CacheTrue
    BY DEF Session, Messages, CachedTrue, CacheTrue
<1>4. QED
    BY <1>1, <1>2, <1>3, PTL DEF Spec

\* The callback that ran is that of the call answered, and when none was found
\* there is a reason.
OwnRuns ==
    \A r \in ran' \ ran :
       \/ r.call = r.of
       \/ made[r.call] = "onunread" /\ made[r.of] = "relay"
OwnMisses ==
    \A k \in missed' \ missed :
       \/ Busy("main") /\ th["main"].call = k
       \/ \E r \in ran : r.call = k
       \/ made[k] \in {"query", "relay", "leave"} /\ Head(back).kind = "error"

\* The call of an answer, and what is kept for it.
LEMMA Answered ==
    ASSUME Base, Session, NEW kind, kind # "noti", Reads(kind), NEW s, NEW o,
           s = Head(back).sid, o = Head(back).of
    PROVE  /\ s \in Sid /\ o \in Call /\ Tag(s, o)
           /\ \/ Busy("main") /\ th["main"].call = o
              \/ \E r \in ran : r.call = o
              \/ made[o] \in {"request", "message"} /\ cbmap[s] = o
              \/ made[o] \in {"query", "relay"} /\ mmap[s] = o
              \/ made[o] = "leave" /\ cbmap[-2] = o
<1>1. /\ s \in Sid /\ o \in Call /\ Head(back) \in Elems(back) /\ Head(back).kind = kind
      /\ ~Busy("loop")
    BY Takes
<1>2. FrameTag(s, o)
    BY <1>1 DEF FrameTag, TagIn
<1>3. Tag(s, o)
    BY <1>1, <1>2, TagFrames
<1>4. Kept(s, o)
    BY <1>1, <1>2 DEF Session, CallbackKept, FramesKept
<1>5. (\E t \in Thread : Has(t, o)) => Busy("main") /\ th["main"].call = o
    BY <1>1, TwoThreads DEF Has
<1>6. QED
    BY <1>1, <1>3, <1>4, <1>5 DEF Kept, Ran

\* A callback found in sessionid_cbfunc_map_ under the id of an answer.
LEMMA OwnErase ==
    ASSUME Base, Session, NEW kind, Reads(kind), NEW s, NEW o,
           s = Head(back).sid, o = Head(back).of,
           \/ kind = "res" /\ Kind(o, {"request"})
           \/ kind = "msgres" /\ Kind(o, {"message"})
           \/ kind = "error",
           CallErase(s, o)
    PROVE  OwnRuns /\ OwnMisses
<1>1. /\ s \in Sid /\ o \in Call /\ Tag(s, o)
      /\ \/ Busy("main") /\ th["main"].call = o
         \/ \E r \in ran : r.call = o
         \/ made[o] \in {"request", "message"} /\ cbmap[s] = o
         \/ made[o] \in {"query", "relay"} /\ mmap[s] = o
         \/ made[o] = "leave" /\ cbmap[-2] = o
    BY Answered
<1>2. s \in Key
    BY <1>1, Numbers
<1>3. /\ ran' = IF cbmap[s] = NoCall THEN ran ELSE ran \cup {[call |-> cbmap[s], of |-> o]}
      /\ missed' = IF cbmap[s] = NoCall THEN missed \cup {o} ELSE missed
    BY <1>1, <1>2, Erases
<1>4. cbmap[s] # NoCall => cbmap[s] = o
    <2>1. ASSUME cbmap[s] # NoCall PROVE cbmap[s] = o
        <3>1. cbmap[s] \in Call
            BY <1>2, <2>1 DEF Base, Typed, CallOrNone
        <3>2. Tag(s, cbmap[s])
            BY DEF Tag, TagMap
        <3>3. QED
            BY <1>1, <3>1, <3>2 DEF Session, TagsUnique
    <2>2. QED
        BY <2>1
<1>5. OwnRuns
    BY <1>3, <1>4 DEF OwnRuns
<1>6. Head(back).kind = kind
    BY DEF Reads
<1>7. cbmap[s] = NoCall => cbmap[s] # o
    BY <1>1, Numbers
<1>8. OwnMisses
    BY <1>1, <1>3, <1>6, <1>7 DEF OwnMisses, Kind
<1>9. QED
    BY <1>5, <1>8

LEMMA OwnLeave ==
    ASSUME Base, Session, Reads("leaveres"), CallErase(-2, Head(back).of)
    PROVE  OwnRuns /\ OwnMisses
<1>1. PICK s, o : s = Head(back).sid /\ o = Head(back).of
    OBVIOUS
<1>2. /\ o \in Call
      /\ \/ Busy("main") /\ th["main"].call = o
         \/ \E r \in ran : r.call = o
         \/ made[o] \in {"request", "message"} /\ cbmap[s] = o
         \/ made[o] \in {"query", "relay"} /\ mmap[s] = o
         \/ made[o] = "leave" /\ cbmap[-2] = o
    BY <1>1, Answered
<1>3. Kind(o, {"leave"})
    BY <1>1, Takes DEF ReplyOk
<1>4. PICK c : c = cbmap[-2]
    OBVIOUS
<1>5. /\ ran' = IF c = NoCall THEN ran ELSE ran \cup {[call |-> c, of |-> o]}
      /\ missed' = IF c = NoCall THEN missed \cup {o} ELSE missed
    BY <1>1, <1>2, <1>4, Erases, Numbers
<1>6. c # NoCall => c = o
    BY <1>3, <1>4 DEF Base, KindsOf, MapsOk, LeaveOnce, Kind
<1>7. OwnRuns
    BY <1>5, <1>6 DEF OwnRuns
<1>8. c = NoCall => c # o
    BY <1>2, Numbers
<1>9. OwnMisses
    BY <1>2, <1>3, <1>4, <1>5, <1>8 DEF OwnMisses, Kind
<1>10. QED
    BY <1>7, <1>9

LEMMA OwnNodeMessage ==
    ASSUME Base, Session, NEW isStop \in BOOLEAN, NodeMessage(isStop)
    PROVE  OwnRuns /\ OwnMisses
<1>1. PICK s, o, i, k : s = Head(back).sid /\ o = Head(back).of /\ i = Head(back).id /\ k = mmap[s]
    OBVIOUS
<1>2. /\ s \in Sid /\ o \in Call /\ k \in CallOrNone /\ Kind(o, {"query", "relay"})
      /\ missed' = IF k = NoCall THEN missed \cup {o} ELSE missed
      /\ \A r \in ran' \ ran : r.of = o /\ (r.call = k \/ (IsRelay(k) /\ r.call = cbmap[-3]))
      /\ ran' \subseteq [call : Call, of : Call]
    BY <1>1, ReadsMessage
<1>3. /\ Tag(s, o)
      /\ \/ Busy("main") /\ th["main"].call = o
         \/ \E r \in ran : r.call = o
         \/ made[o] \in {"request", "message"} /\ cbmap[s] = o
         \/ made[o] \in {"query", "relay"} /\ mmap[s] = o
         \/ made[o] = "leave" /\ cbmap[-2] = o
    BY <1>1, Answered DEF NodeMessage
<1>4. k \in Call => k = o
    <2>1. ASSUME k \in Call PROVE k = o
        <3>1. Tag(s, k)
            BY <1>1 DEF Tag, TagMap
        <3>2. QED
            BY <1>2, <1>3, <2>1, <3>1 DEF Session, TagsUnique
    <2>2. QED
        BY <2>1
<1>5. ASSUME NEW r \in ran' \ ran
      PROVE  r.call = r.of \/ (made[r.call] = "onunread" /\ made[r.of] = "relay")
    <2>1. r.call \in Call /\ r.of = o
        BY <1>2, <1>5
    <2>2. CASE r.call = k
        BY <1>4, <2>1, <2>2
    <2>3. CASE IsRelay(k) /\ r.call = cbmap[-3]
        <3>1. k \in Call /\ made[k] = "relay"
            BY <1>2, <2>3 DEF IsRelay, CallOrNone
        <3>2. Kind(r.call, {"onunread"})
            BY <2>1, <2>3, Numbers DEF Base, KindsOf, MapsOk
        <3>3. QED
            BY <1>4, <2>1, <3>1, <3>2 DEF Kind
    <2>4. QED
        BY <1>2, <1>5, <2>2, <2>3
<1>6. k = NoCall => mmap[s] # o
    BY <1>1, <1>2, Numbers
<1>7. OwnMisses
    BY <1>2, <1>3, <1>6 DEF OwnMisses, Kind
<1>8. QED
    BY <1>5, <1>7 DEF OwnRuns

LEMMA NothingAnswered ==
    ASSUME UNCHANGED <<ran, missed>>
    PROVE  OwnRuns /\ OwnMisses
BY DEF OwnRuns, OwnMisses

LEMMA OwnNext ==
    ASSUME Base, Session, [Next]_vars
    PROVE  OwnRuns /\ OwnMisses
<1>1. ASSUME NEW kind, NEW key, JustReads(kind, key) PROVE OwnRuns /\ OwnMisses
    <2>1. PICK s, o : s = Head(back).sid /\ o = Head(back).of
        OBVIOUS
    <2>2. /\ Reads(kind) /\ CallErase(key, o) /\ kind \in {"res", "error", "leaveres"}
          /\ kind = "leaveres" => key = -2
          /\ kind # "leaveres" => key = s
        BY <1>1, <2>1 DEF JustReads
    <2>3. CASE kind = "leaveres"
        BY <2>1, <2>2, <2>3, OwnLeave
    <2>4. CASE kind # "leaveres"
        <3>1. kind = "res" => Kind(o, {"request"})
            BY <2>1, <2>2, Takes DEF ReplyOk
        <3>2. QED
            BY <2>1, <2>2, <2>4, <3>1, OwnErase
    <2>5. QED
        BY <2>3, <2>4
<1>2. ASSUME MessageRes PROVE OwnRuns /\ OwnMisses
    <2>1. PICK s, o, i : s = Head(back).sid /\ o = Head(back).of /\ i = Head(back).id
        OBVIOUS
    <2>2. /\ Kind(o, {"message"}) /\ Reads("msgres")
          /\ Acknowledges(s, o, i) \/ Throws(s)
        BY <1>2, <2>1, ReadsAck DEF MessageRes
    <2>3. CASE Acknowledges(s, o, i)
        BY <2>1, <2>2, <2>3, OwnErase DEF Acknowledges
    <2>4. CASE Throws(s)
        BY <2>4, NothingAnswered DEF Throws
    <2>5. QED
        BY <2>2, <2>3, <2>4
<1>3. ASSUME NEW isStop \in BOOLEAN, NodeMessage(isStop) PROVE OwnRuns /\ OwnMisses
    BY <1>3, OwnNodeMessage
<1>4. ASSUME NEW t, NEW kind, NEW id, Sends(t, kind, id) PROVE OwnRuns /\ OwnMisses
    BY <1>4, NothingAnswered DEF Sends, hist
<1>5. ASSUME NEW t \in Thread, StoreSessionID(t) \/ PushBuffer(t) \/ PutCallback(t) \/ PutQuery(t)
      PROVE  OwnRuns /\ OwnMisses
    BY <1>5, NothingAnswered DEF StoreSessionID, PushBuffer, PutCallback, PutQuery, hist
<1>6. ASSUME OnUnread \/ CacheMessage \/ EraseQuery \/ UNCHANGED vars \/ Restart
      PROVE  OwnRuns /\ OwnMisses
    BY <1>6, NothingAnswered DEF OnUnread, CacheMessage, EraseQuery, Restart, vars, hist
<1>7. ASSUME NEW f, NEW a, NEW s, Served(f, a, s) PROVE OwnRuns /\ OwnMisses
    BY <1>7, NothingAnswered DEF Served, hist
<1>8. ASSUME NEW g, Notified(g) PROVE OwnRuns /\ OwnMisses
    BY <1>8, NothingAnswered DEF Notified, hist
<1>9. QED
    BY <1>1, <1>2, <1>3, <1>4, <1>5, <1>6, <1>7, <1>8, NextSteps DEF Steps

\* The callback that runs is that of the call answered, though it is put after
\* the frame was sent and a restart may begin the ids again; it is missed only
\* when the call has yet to put it, when it ran before, or when an error answers
\* a call that keeps it elsewhere.
THEOREM OwnAnswers == Spec => OwnAnswer
<1>1. Init => Base /\ (~overlap => Session)
    BY BaseInit, SessionInit
<1>2. Base /\ (~overlap => Session) /\ [Next]_vars => (Base /\ (~overlap => Session))'
    BY BaseNext, SessionKept
<1>3. Base /\ (~overlap => Session) /\ [Next]_vars =>
         [overlap \/
            /\ \A r \in ran' \ ran :
                  \/ r.call = r.of
                  \/ made[r.call] = "onunread" /\ made[r.of] = "relay"
            /\ \A k \in missed' \ missed :
                  \/ Busy("main") /\ th["main"].call = k
                  \/ \E r \in ran : r.call = k
                  \/ made[k] \in {"query", "relay", "leave"} /\ Head(back).kind = "error"]_vars
    BY OwnNext DEF OwnRuns, OwnMisses
<1>4. QED
    BY <1>1, <1>2, <1>3, PTL DEF Spec, OwnAnswer

-----------------------------------------------------------------------------
(* While no key of an earlier process can be met.                          *)

LEMMA FreshClean == Base /\ Fresh /\ FreshIds => Clean
<1> SUFFICES ASSUME Base, Fresh, FreshIds PROVE Clean
    OBVIOUS
<1>1. \A k : k \in 1..Len(made) => ~(k > gone)
    BY CountsNat DEF Fresh
<1>2. OwnTemp
    <2>1. \A s \in Sid : \A k \in Call : Tag(s, k) => k > gone /\ k \in 1..Len(made)
        BY FreshSession, TagMade DEF Session, TagsPast
    <2>2. QED
        BY <1>1, <2>1 DEF OwnTemp
<1>3. AllDelivered
    BY <1>1 DEF AllDelivered, Here, Base, KindsOf, StoredOk, Kind
<1>4. AckedOnce
    <2>1. \A k \in Call : Acked(k) => k \in 1..Len(made)
        BY Numbers DEF Acked, Base, KindsOf, MsgsOk, Kind
    <2>2. QED
        BY <1>1, <2>1 DEF AckedOnce
<1>5. QED
    BY <1>2, <1>3, <1>4 DEF Clean

LEMMA CleanInit == Init => Clean
<1> SUFFICES ASSUME Init PROVE Clean
    OBVIOUS
<1>1. Base /\ Fresh
    BY BaseInit, FreshInit
<1>2. FreshIds
    BY DEF Init, FreshIds
<1>3. QED
    BY <1>1, <1>2, FreshClean

LEMMA CleanRestart ==
    ASSUME Base, Restart, ~stale'
    PROVE  Clean'
<1>1. Base' /\ Fresh'
    BY BaseRestart, FreshRestart
<1>2. NextId' = srv'
    <2>1. Len(out') = 0 /\ P("main")' = 0 /\ P("loop")' = 0 /\ srv' \in Nat
        BY <1>1, TwoThreads DEF Fresh, P, Sending, Idle
    <2>2. QED
        BY <2>1 DEF NextId
<1>3. FreshIds'
    BY <1>2 DEF Restart, FreshIds, db
<1>4. QED
    BY <1>1, <1>3, FreshClean, PTL

LEMMA FreshIdsKept ==
    ASSUME FreshIds, NextId \in Nat, NextId' = NextId \/ NextId' = NextId + 1,
           \A s \in Sid : temp'[s] \in {NoCall, temp[s]}
    PROVE  FreshIds'
<1> SUFFICES ASSUME NEW s \in Sid, s >= NextId' PROVE temp'[s] = NoCall
    BY DEF FreshIds
<1>1. s >= NextId
    BY Numbers
<1>2. QED
    BY <1>1 DEF FreshIds

LEMMA OwnTempKept ==
    ASSUME OwnTemp, FewerTags, \A s \in Sid : temp'[s] \in {NoCall, temp[s]}
    PROVE  OwnTemp'
BY DEF OwnTemp, FewerTags

LEMMA DeliveredStays ==
    ASSUME AllDelivered, alive' => alive, UNCHANGED <<stored, gone>>,
           \A i \in 1..Len(stored) : Here(stored[i]) =>
              (msgs[i] = stored[i] => msgs'[i] = stored[i])
              /\ \A g \in Elems(back) : g.kind = "msgres" /\ g.of = stored[i] /\ g.id = i
                                          => g \in Elems(back') \/ msgs'[i] = stored[i]
    PROVE  AllDelivered'
BY DEF AllDelivered, Delivered, Here

LEMMA AckedOnceKept ==
    ASSUME AckedOnce, gone' = gone,
           \A k \in Call : k > gone /\ Acked(k)' => Acked(k),
           \A k \in Call : \A s \in Sid : k > gone /\ Acked(k) /\ temp'[s] = k => temp[s] = k,
           \A k \in Call : k > gone /\ Acked(k) /\ Has("main", k)' => Has("main", k),
           \A k \in Call : \A g \in Elems(back') :
              k > gone /\ Acked(k) /\ g.kind = "msgres" /\ g.of = k => g \in Elems(back)
    PROVE  AckedOnce'
<1> SUFFICES ASSUME NEW k \in Call, k > gone, Acked(k)'
             PROVE  /\ \A s \in Sid : temp'[s] # k
                    /\ ~Has("main", k)'
                    /\ \A g \in Elems(back') : g.kind = "msgres" => g.of # k
    BY DEF AckedOnce
<1>1. /\ Acked(k) /\ ~Has("main", k)
      /\ \A s \in Sid : temp[s] # k
      /\ \A g \in Elems(back) : g.kind = "msgres" => g.of # k
    BY DEF AckedOnce
<1>2. QED
    BY <1>1

\* Steps that leave the messages, their keys and their acknowledgements.
LEMMA CleanStays ==
    ASSUME Base, Clean, FewerTags, NextId' = NextId, gone' = gone,
           UNCHANGED <<temp, msgs, alive, stored>>,
           \A k \in Call : Has("main", k)' => Has("main", k),
           \A g : g.kind = "msgres" => (g \in Elems(back') <=> g \in Elems(back))
    PROVE  Clean'
<1>1. FreshIds' /\ OwnTemp'
    BY FreshIdsKept, OwnTempKept, CountsNat DEF Clean
<1>2. AllDelivered'
    BY DeliveredStays DEF Clean
<1>3. AckedOnce'
    BY AckedOnceKept DEF Clean, Acked
<1>4. QED
    BY <1>1, <1>2, <1>3 DEF Clean

LEMMA CleanOnUnread == ASSUME Base, Clean, OnUnread PROVE Clean'
<1>1. UNCHANGED <<db, th, alive, back, server>>
    BY DEF OnUnread
<1>2. UNCHANGED <<temp, msgs, stored>>
    BY <1>1 DEF db, server
<1>3. FewerTags /\ NextId' = NextId /\ gone' = gone
    BY TagsOnUnread
<1>4. QED
    BY <1>1, <1>2, <1>3, CleanStays DEF Has, Busy

LEMMA CleanGo ==
    ASSUME Base, Clean, NEW t \in Thread,
           StoreSessionID(t) \/ PushBuffer(t) \/ PutCallback(t) \/ PutQuery(t)
    PROVE  Clean'
<1>1. UNCHANGED <<db, alive, back, server>>
    BY DEF StoreSessionID, PushBuffer, PutCallback, PutQuery
<1>2. UNCHANGED <<temp, msgs, stored>>
    BY <1>1 DEF db, server
<1>3. FewerTags /\ NextId' = NextId /\ gone' = gone
    BY TagsStore, TagsPush, TagsPutCallback, TagsPutQuery
<1>4. Busy(t) /\ (Frees(t) \/ \E x : Moves(t, x))
    <2>1. CASE StoreSessionID(t)
        BY <2>1, Stores
    <2>2. CASE PushBuffer(t)
        <3>1. PICK f : f = [kind |-> th[t].kind, sid |-> th[t].sid, of |-> th[t].call,
                            id |-> th[t].id]
            OBVIOUS
        <3>2. QED
            BY <2>2, <3>1, Pushes
    <2>3. CASE PutCallback(t)
        BY <2>3, PutsCallback
    <2>4. CASE PutQuery(t)
        BY <2>4, PutsQuery
    <2>5. QED
        BY <2>1, <2>2, <2>3, <2>4
<1>5. \A k \in Call : Has("main", k)' => Has("main", k)
    BY <1>4, SameCalls, TwoThreads DEF Has
<1>6. QED
    BY <1>1, <1>2, <1>3, <1>5, CleanStays

LEMMA CleanStutter == ASSUME Base, Clean, UNCHANGED vars PROVE Clean'
BY DEF Clean, FreshIds, OwnTemp, AllDelivered, Delivered, AckedOnce, Acked, Here, Tag, TagPut, TagIn,
       TagMap, TagTemp, Has, Busy, NextId, P, vars, maps, db, server, past, hist

\* What is left when a frame is taken.
LEMMA TakenOne ==
    ASSUME Base, NEW kind, Reads(kind)
    PROVE  \A g \in Elems(back) : g = Head(back) \/ g \in Elems(back')
<1> SUFFICES ASSUME NEW g \in Elems(back), g # Head(back) PROVE g \in Elems(back')
    OBVIOUS
<1>1. PICK n, q : n = Len(back) /\ q = back'
    OBVIOUS
<1>2. /\ n \in Nat /\ Len(q) = n - 1 /\ Head(back) = back[1]
      /\ \A i \in 1..(n - 1) : q[i] = back[i + 1]
    BY <1>1, Takes
<1>3. PICK i \in 1..n : g = back[i]
    BY <1>1 DEF Elems
<1>4. i - 1 \in 1..(n - 1) /\ (i - 1) + 1 = i
    BY <1>2, <1>3
<1>5. q[i - 1] = g
    BY <1>2, <1>3, <1>4
<1>6. i - 1 \in 1..Len(q)
    BY <1>2, <1>4
<1>7. QED
    BY <1>1, <1>5, <1>6 DEF Elems

LEMMA CleanJustReads ==
    ASSUME Base, Clean, NEW kind, NEW key, JustReads(kind, key)
    PROVE  Clean'
<1>1. UNCHANGED <<db, th, alive, server>>
    BY DEF JustReads, JustCalls
<1>2. UNCHANGED <<temp, msgs, stored>>
    BY <1>1 DEF db, server
<1>3. FewerTags /\ NextId' = NextId /\ gone' = gone
    BY TagsJustReads
<1>4. Elems(back') \subseteq Elems(back) /\ Head(back).kind # "msgres"
    BY Takes DEF JustReads
<1>5. \A g : g.kind = "msgres" => (g \in Elems(back') <=> g \in Elems(back))
    BY <1>4, TakenOne DEF JustReads
<1>6. QED
    BY <1>1, <1>2, <1>3, <1>5, CleanStays DEF Has, Busy

LEMMA CleanEraseQuery == ASSUME Base, Clean, EraseQuery PROVE Clean'
<1>1. UNCHANGED <<db, th, alive, back, server>>
    BY DEF EraseQuery
<1>2. UNCHANGED <<temp, msgs, stored>>
    BY <1>1 DEF db, server
<1>3. FewerTags /\ NextId' = NextId /\ gone' = gone
    BY TagsEraseQuery
<1>4. QED
    BY <1>1, <1>2, <1>3, CleanStays DEF Has, Busy

\* The id of a new call has no temporary key.
LEMMA CleanSends ==
    ASSUME Base, Session, Clean, ~overlap', NEW t, NEW kind, NEW id, Sends(t, kind, id)
    PROVE  Clean'
<1>1. /\ Begins(t, kind, id) /\ t \in Thread /\ NextId' = NextId + 1
      /\ Elems(back') \subseteq Elems(back)
      /\ UNCHANGED <<db, alive, stored, gone>>
    BY Takes DEF Sends
<1>2. UNCHANGED <<temp, msgs>>
    BY <1>1 DEF db
<1>3. PICK n \in Nat : n = Len(made)
    BY CountsNat
<1>4. /\ sessionid = NextId
      /\ \A s \in Sid : \A k \in Call : Tag(s, k)' => Tag(s, k) \/ (s = NextId /\ k = n + 1)
    BY <1>3, SendsTags DEF Session
<1>5. FreshIds'
    BY <1>1, <1>2, FreshIdsKept, CountsNat DEF Clean
<1>6. OwnTemp'
    <2>1. sessionid \in Sid /\ NextId \in Nat /\ NextId >= NextId
        BY CountsNat DEF Base, Typed
    <2>2. temp[NextId] = NoCall
        BY <1>4, <2>1 DEF Clean, FreshIds
    <2>3. QED
        BY <1>2, <1>4, <2>2 DEF Clean, OwnTemp
<1>7. AllDelivered'
    <2>1. \A g \in Elems(back) : g.kind = "msgres" => g \in Elems(back')
        <3>1. CASE UNCHANGED back
            BY <3>1
        <3>2. CASE Reads("noti")
            BY <3>2, TakenOne DEF Reads
        <3>3. QED
            BY <3>1, <3>2 DEF Sends
    <2>2. QED
        BY <1>1, <1>2, <2>1, DeliveredStays DEF Clean
<1>8. AckedOnce'
    <2>1. \A k \in Call : Acked(k) => k \in 1..n
        BY <1>3, Numbers DEF Acked, Base, KindsOf, MsgsOk, Kind
    <2>2. n + 1 \notin 1..n
        BY <1>3
    <2>3. \A k : Has(t, k)' => k = n + 1
        BY <1>1, <1>3 DEF Begins, Has
    <2>4. \A k : t # "main" /\ Has("main", k)' => Has("main", k)
        BY <1>1, TwoThreads DEF Begins, Has, Busy
    <2>5. \A k \in Call : Acked(k) /\ Has("main", k)' => Has("main", k)
        BY <2>1, <2>2, <2>3, <2>4
    <2>6. QED
        BY <1>1, <1>2, <2>5, AckedOnceKept DEF Clean, Acked
<1>9. QED
    BY <1>5, <1>6, <1>7, <1>8 DEF Clean

LEMMA CleanCacheMessage ==
    ASSUME Base, Session, Clean, CacheMessage
    PROVE  Clean'
<1>1. PICK x, c : x = th["main"].sid /\ c = th["main"].call
    OBVIOUS
<1>2. /\ Busy("main") /\ Frees("main") /\ "main" \in Thread
      /\ x \in Sid /\ c \in Call /\ temp' = [temp EXCEPT ![x] = c]
      /\ UNCHANGED <<msgs, alive, back, server>>
    BY <1>1, Caches DEF CacheMessage
<1>3. UNCHANGED stored /\ FewerTags /\ NextId' = NextId /\ gone' = gone /\ NextId \in Nat
    BY <1>2, TagsCacheMessage, CountsNat DEF server
<1>4. temp'[x] = c /\ \A s \in Sid : s # x => temp'[s] = temp[s]
    BY <1>2 DEF Base, Typed
<1>5. Tag(x, c) /\ Has("main", c)
    BY <1>1, <1>2 DEF Tag, TagPut, Has
<1>6. x < NextId /\ c > gone
    BY <1>2, <1>5 DEF Session, TagsPast
<1>7. FreshIds'
    <2>1. \A s \in Sid : s >= NextId => s # x
        BY <1>2, <1>3, <1>6, Numbers
    <2>2. QED
        BY <1>3, <1>4, <2>1 DEF Clean, FreshIds
<1>8. OwnTemp'
    <2> SUFFICES ASSUME NEW s \in Sid, NEW k \in Call, Tag(s, k) PROVE temp'[s] \in {NoCall, k}
        BY <1>3 DEF OwnTemp, FewerTags
    <2>1. CASE s = x
        BY <1>2, <1>4, <1>5, <2>1 DEF Session, TagsUnique
    <2>2. CASE s # x
        BY <1>4, <2>2 DEF Clean, OwnTemp
    <2>3. QED
        BY <2>1, <2>2
<1>9. AllDelivered'
    BY <1>2, <1>3, DeliveredStays DEF Clean
<1>10. AckedOnce'
    <2>1. ~Acked(c)
        BY <1>2, <1>5, <1>6 DEF Clean, AckedOnce
    <2>2. \A k \in Call : \A s \in Sid : Acked(k) /\ temp'[s] = k => temp[s] = k
        BY <1>4, <2>1
    <2>3. \A k : ~Has("main", k)'
        BY <1>2 DEF Frees, Has
    <2>4. QED
        BY <1>2, <1>3, <2>2, <2>3, AckedOnceKept DEF Clean, Acked
<1>11. QED
    BY <1>7, <1>8, <1>9, <1>10 DEF Clean

\* The answer moves its own message, and is the last to name it.
LEMMA CleanMessageRes ==
    ASSUME Base, Session, Clean, MessageRes
    PROVE  Clean'
<1>1. PICK s, k, i : s = Head(back).sid /\ k = Head(back).of /\ i = Head(back).id
    OBVIOUS
<1>2. /\ s \in Sid /\ k \in Call /\ i \in Id /\ i \in 1..Len(stored) /\ stored[i] = k
      /\ Acknowledges(s, k, i) \/ Throws(s)
      /\ UNCHANGED <<th, out, server, past>>
    BY <1>1, ReadsAck
<1>3. UNCHANGED stored /\ FewerTags /\ NextId' = NextId /\ gone' = gone /\ NextId \in Nat
    BY <1>2, TagsMessageRes, CountsNat DEF server
<1>4. /\ Reads("msgres") /\ alive /\ Elems(back') \subseteq Elems(back)
      /\ Head(back) \in Elems(back) /\ Head(back).kind = "msgres"
      /\ \A g \in Elems(back) : g = Head(back) \/ g \in Elems(back')
    BY Takes, TakenOne DEF MessageRes
<1>5. Tag(s, k)
    BY <1>1, <1>4 DEF Tag, TagIn
<1>6. k > gone
    BY <1>2, <1>5 DEF Session, TagsPast
<1>7. \A m : Has("main", m)' <=> Has("main", m)
    BY <1>2 DEF Has, Busy
<1>8. CASE Throws(s)
    <2>1. UNCHANGED <<temp, msgs>> /\ alive' = FALSE
        BY <1>8 DEF Throws
    <2>2. FreshIds' /\ OwnTemp'
        BY <1>3, <2>1, FreshIdsKept, OwnTempKept DEF Clean
    <2>3. AllDelivered'
        BY <2>1 DEF AllDelivered
    <2>4. AckedOnce'
        BY <1>3, <1>4, <1>7, <2>1, AckedOnceKept DEF Clean, Acked
    <2>5. QED
        BY <2>2, <2>3, <2>4 DEF Clean
<1>9. CASE Acknowledges(s, k, i)
    <2>1. /\ temp[s] # NoCall /\ alive' = alive
          /\ msgs'[i] = temp[s] /\ \A q \in Id : q # i => msgs'[q] = msgs[q]
          /\ temp'[s] = NoCall /\ \A r \in Sid : r # s => temp'[r] = temp[r]
        BY <1>2, <1>9 DEF Acknowledges, Base, Typed
    <2>2. temp[s] = k
        BY <1>2, <1>5, <2>1 DEF Clean, OwnTemp
    <2>3. \A r \in Sid : temp'[r] \in {NoCall, temp[r]}
        BY <2>1
    <2>4. FreshIds' /\ OwnTemp'
        BY <1>3, <2>3, FreshIdsKept, OwnTempKept DEF Clean
    <2>5. AllDelivered'
        <3>1. \A q \in 1..Len(stored) : q \in Id
            BY LenProperties, Numbers DEF Base, Typed
        <3>2. \A g \in Elems(back) : g.id # i => g \in Elems(back')
            BY <1>1, <1>4
        <3>3. \A q \in 1..Len(stored) : q = i => msgs'[q] = stored[q]
            BY <1>2, <2>1, <2>2
        <3>4. \A q \in 1..Len(stored) : q # i => msgs'[q] = msgs[q]
            BY <2>1, <3>1
        <3>5. QED
            BY <1>3, <2>1, <3>2, <3>3, <3>4, DeliveredStays DEF Clean
    <2>6. AckedOnce'
        <3> SUFFICES ASSUME NEW m \in Call, m > gone, Acked(m)'
                     PROVE  /\ \A r \in Sid : temp'[r] # m
                            /\ ~Has("main", m)
                            /\ \A g \in Elems(back') : g.kind = "msgres" => g.of # m
            BY <1>3, <1>7 DEF AckedOnce
        <3>1. CASE m = k
            <4>1. \A r \in Sid : temp'[r] # m
                <5>1. \A r \in Sid : temp[r] = m => r = s
                    BY <1>2, <1>5, <1>6, <3>1 DEF Session, TagsUnique, Tag, TagTemp
                <5>2. QED
                    BY <2>1, <5>1, Numbers
            <4>2. ~Has("main", m)
                BY <1>2, <2>2, <3>1 DEF Session, Messages, NotYetCached
            <4>3. ASSUME NEW g \in Elems(back'), g.kind = "msgres", g.of = m PROVE FALSE
                <5>1. g \in Elems(back)
                    BY <1>4, <4>3
                <5>2. g.sid \in Sid
                    <6>1. PICK q \in 1..Len(back) : g = back[q]
                        BY <5>1 DEF Elems
                    <6>2. QED
                        BY <4>3, <6>1, BackFrame
                <5>3. Tag(g.sid, m)
                    BY <4>3, <5>1 DEF Tag, TagIn
                <5>4. g.sid = s
                    BY <1>2, <1>5, <3>1, <5>2, <5>3 DEF Session, TagsUnique
                <5>5. ~FrameTag(s, m)'
                    BY <1>1, <1>2, <1>4, HeadOnce DEF Session
                <5>6. QED
                    BY <4>3, <5>4, <5>5 DEF FrameTag, TagIn
            <4>4. QED
                BY <4>1, <4>2, <4>3
        <3>2. CASE m # k
            <4>1. Acked(m)
                BY <1>2, <2>1, <2>2, <3>2 DEF Acked
            <4>2. QED
                BY <1>4, <2>1, <4>1, Numbers DEF Clean, AckedOnce
        <3>3. QED
            BY <3>1, <3>2
    <2>7. QED
        BY <2>4, <2>5, <2>6 DEF Clean
<1>10. QED
    BY <1>2, <1>8, <1>9

\* A message that is read from the server is one it had, or one acknowledged
\* before.
LEMMA CleanNodeMessage ==
    ASSUME Base, Session, Clean, NEW isStop \in BOOLEAN, NodeMessage(isStop)
    PROVE  Clean'
<1>1. PICK s, o, i, k : s = Head(back).sid /\ o = Head(back).of /\ i = Head(back).id /\ k = mmap[s]
    OBVIOUS
<1>2. /\ i \in Id /\ i \in 1..Len(stored) /\ msgs' = [msgs EXCEPT ![i] = stored[i]]
      /\ UNCHANGED <<temp, th, alive, out, server>>
    BY <1>1, ReadsMessage
<1>3. UNCHANGED stored /\ FewerTags /\ NextId' = NextId /\ gone' = gone /\ NextId \in Nat
    BY <1>2, TagsNodeMessage, CountsNat DEF server
<1>4. /\ Reads("msg") /\ alive /\ Elems(back') \subseteq Elems(back)
      /\ Head(back).kind = "msg" /\ Head(back) = back[1] /\ back # <<>>
      /\ \A g \in Elems(back) : g = Head(back) \/ g \in Elems(back')
    BY Takes, TakenOne DEF NodeMessage
<1>5. msgs'[i] = stored[i] /\ \A q \in Id : q # i => msgs'[q] = msgs[q]
    BY <1>2 DEF Base, Typed
<1>6. FreshIds' /\ OwnTemp'
    BY <1>2, <1>3, FreshIdsKept, OwnTempKept DEF Clean
<1>7. AllDelivered'
    <2>1. \A q \in 1..Len(stored) : q \in Id
        BY LenProperties, Numbers DEF Base, Typed
    <2>2. \A q \in 1..Len(stored) : msgs[q] = stored[q] => msgs'[q] = stored[q]
        BY <1>5, <2>1
    <2>3. \A g \in Elems(back) : g.kind = "msgres" => g \in Elems(back')
        BY <1>4
    <2>4. QED
        BY <1>2, <1>3, <2>2, <2>3, DeliveredStays DEF Clean
<1>8. ASSUME NEW m \in Call, m > gone, Acked(m)'
      PROVE  Acked(m)
    <2>1. PICK q \in Id : msgs'[q] = m
        BY <1>8 DEF Acked
    <2>2. CASE q # i
        BY <1>5, <2>1, <2>2 DEF Acked
    <2>3. CASE q = i
        <3>1. stored[i] = m /\ Here(m)
            BY <1>5, <1>8, <2>1, <2>3, Numbers DEF Here
        <3>2. Delivered(i)
            BY <1>2, <1>4, <3>1 DEF Clean, AllDelivered
        <3>3. ASSUME NEW g \in Elems(back), g.kind = "msgres", g.of = m PROVE FALSE
            <4>1. PICK n \in Nat : n = Len(back)
                BY <1>4, Takes
            <4>2. PICK j \in 1..n : g = back[j]
                BY <3>3, <4>1 DEF Elems
            <4>3. 1 \in 1..n
                BY <4>1, <4>2
            <4>4. stored[back[1].id] = back[j].of
                BY <1>1, <1>4, <3>1, <3>3, <4>2
            <4>5. j < 1
                BY <1>4, <3>3, <4>1, <4>2, <4>3, <4>4 DEF Session, BackOrder
            <4>6. QED
                BY <4>2, <4>5
        <3>4. msgs[i] = m
            BY <3>1, <3>2, <3>3 DEF Delivered
        <3>5. QED
            BY <1>2, <3>4 DEF Acked
    <2>4. QED
        BY <2>2, <2>3
<1>9. AckedOnce'
    <2>1. \A m : Has("main", m)' => Has("main", m)
        BY <1>2 DEF Has, Busy
    <2>2. QED
        BY <1>2, <1>3, <1>4, <1>8, <2>1, AckedOnceKept DEF Clean
<1>10. QED
    BY <1>6, <1>7, <1>9 DEF Clean

\* A message that is stored is acknowledged by the frame that answers it.
LEMMA CleanServe ==
    ASSUME Base, Session, Clean, NEW f, NEW a, NEW s, Served(f, a, s)
    PROVE  Clean'
<1>1. PICK c : c = f.of
    OBVIOUS
<1>2. /\ f \in Elems(out) /\ f \in Request /\ f.kind # "noti" /\ c \in Call /\ f.sid \in Sid
      /\ UNCHANGED <<db, th, alive, past>>
    BY <1>1, RequestFields DEF Served, SendKinds
<1>3. UNCHANGED <<temp, msgs>> /\ FewerTags /\ NextId' = NextId /\ gone' = gone /\ NextId \in Nat
    BY <1>2, TagsServe, CountsNat DEF Session, db
<1>4. /\ Elems(back') = Elems(back) \cup Elems(a) /\ Grown
      /\ \A g \in Elems(a) : g.of = c /\ g.kind = a[1].kind
    BY <1>1, ServedBack, ServedStored
<1>5. Ahead(c) /\ c > gone /\ c # Peer
    <2>1. TagIn(out, f.sid, c)
        BY <1>1, <1>2 DEF TagIn
    <2>2. QED
        BY <1>2, <2>1, Numbers DEF Ahead, Tag, Session, TagsPast
<1>6. ~Acked(c)
    <2>1. ASSUME Acked(c) PROVE FALSE
        <3>1. PICK i \in Id : msgs[i] = c
            BY <2>1 DEF Acked
        <3>2. i <= Len(stored) /\ stored[i] = c
            BY <1>2, <1>5, <3>1, Numbers DEF Session, Messages, CachedTrue
        <3>3. i \in 1..Len(stored)
            BY <1>4, <3>2, Numbers DEF Grown
        <3>4. QED
            BY <1>5, <3>2, <3>3 DEF Session, Messages, StoredSeen, Here
    <2>2. QED
        BY <2>1
<1>7. FreshIds' /\ OwnTemp'
    BY <1>3, FreshIdsKept, OwnTempKept DEF Clean
<1>8. AllDelivered'
    <2> SUFFICES ASSUME alive, NEW i \in 1..Len(stored'), Here(stored[i])'
                 PROVE  Delivered(i)'
        BY <1>2 DEF AllDelivered
    <2>1. CASE i \in 1..Len(stored)
        <3>1. stored'[i] = stored[i]
            BY <1>4, <2>1 DEF Grown
        <3>2. Delivered(i)
            BY <1>3, <2>1, <3>1 DEF Clean, AllDelivered, Here
        <3>3. QED
            BY <1>3, <1>4, <3>1, <3>2 DEF Delivered
    <2>2. CASE i \notin 1..Len(stored)
        <3>1. OneStored(c) /\ a[1].kind = "msgres"
            BY <1>1, <2>2, ServedStored DEF Served
        <3>2. PICK n \in Nat : n = Len(stored)
            BY <3>1 DEF OneStored
        <3>3. i = n + 1 /\ stored'[i] = c
            BY <2>2, <3>1, <3>2 DEF OneStored
        <3>4. a[1].id = n + 1 /\ a[1] \in Elems(a)
            BY <3>1, <3>2 DEF Served, Replies, Elems
        <3>5. a[1] \in Elems(back') /\ a[1].of = c
            BY <1>4, <3>4
        <3>6. QED
            BY <3>1, <3>3, <3>4, <3>5 DEF Delivered
    <2>3. QED
        BY <2>1, <2>2
<1>9. AckedOnce'
    <2>1. \A k \in Call : \A g \in Elems(back') : Acked(k) /\ g.of = k => g \in Elems(back)
        BY <1>4, <1>6
    <2>2. \A k : Has("main", k)' => Has("main", k)
        BY <1>2 DEF Has, Busy
    <2>3. QED
        BY <1>3, <2>1, <2>2, AckedOnceKept DEF Clean, Acked
<1>10. QED
    BY <1>7, <1>8, <1>9 DEF Clean

LEMMA CleanNotify ==
    ASSUME Base, Clean, NEW g, Notified(g)
    PROVE  Clean'
<1>1. /\ g.kind = "noti" /\ Elems(back') = Elems(back) \cup {g} /\ Grown /\ OneStored(Peer)
      /\ UNCHANGED <<db, th, alive>>
    BY DEF Notified
<1>2. UNCHANGED <<temp, msgs>> /\ FewerTags /\ NextId' = NextId /\ gone' = gone /\ NextId \in Nat
    BY <1>1, TagsNotify, CountsNat DEF db
<1>3. FreshIds' /\ OwnTemp'
    BY <1>2, FreshIdsKept, OwnTempKept DEF Clean
<1>4. AllDelivered'
    <2> SUFFICES ASSUME alive, NEW i \in 1..Len(stored'), Here(stored[i])'
                 PROVE  Delivered(i)'
        BY <1>1 DEF AllDelivered
    <2>1. PICK n \in Nat : n = Len(stored)
        BY <1>1 DEF OneStored
    <2>2. i \in 1..n \/ i = n + 1
        BY <1>1, <2>1 DEF OneStored
    <2>3. i \in 1..n
        BY <1>1, <2>1, <2>2 DEF OneStored, Here
    <2>4. stored'[i] = stored[i]
        BY <1>1, <2>1, <2>3 DEF Grown
    <2>5. Delivered(i)
        BY <1>2, <2>1, <2>3, <2>4 DEF Clean, AllDelivered, Here
    <2>6. QED
        BY <1>1, <1>2, <2>4, <2>5 DEF Delivered
<1>5. AckedOnce'
    <2>1. \A k : Has("main", k)' => Has("main", k)
        BY <1>1 DEF Has, Busy
    <2>2. QED
        BY <1>1, <1>2, <2>1, AckedOnceKept DEF Clean, Acked
<1>6. QED
    BY <1>3, <1>4, <1>5 DEF Clean

LEMMA CleanNext ==
    ASSUME Base, Session, Clean, Steps, ~overlap'
    PROVE  Clean'
BY CleanOnUnread, CleanSends, CleanGo, CleanCacheMessage, CleanJustReads, CleanMessageRes,
   CleanNodeMessage, CleanEraseQuery, CleanServe, CleanNotify, CleanStutter DEF Steps

LEMMA InvInit == Init => Inv
BY BaseInit, SessionInit, CleanInit DEF Inv

LEMMA InvNext == ASSUME Inv, [Next]_vars PROVE Inv'
<1>1. Base' /\ (~overlap' => Session')
    BY BaseNext, SessionKept DEF Inv
<1>2. ASSUME ~overlap', ~stale' PROVE Clean'
    <2>1. CASE Restart
        BY <1>2, <2>1, CleanRestart DEF Inv
    <2>2. CASE ~Restart
        <3>1. Steps
            BY <2>2, NextSteps DEF Inv
        <3>2. ~overlap /\ Session /\ stale' = stale
            BY <1>2, <3>1, SessionNext, OverlapStays DEF Inv
        <3>3. QED
            BY <1>2, <3>1, <3>2, CleanNext DEF Inv
    <2>3. QED
        BY <2>1, <2>2
<1>3. QED
    BY <1>1, <1>2 DEF Inv

\* A message whose call has returned is in the database once: the temporary key
\* is put under an id that no other call has, the answer that is read is the
\* call's own and comes once, and a message read back from the server is one
\* whose answer came before.
THEOREM MessageKeptOnce == Spec => []KeptOnce
<1>1. Inv => KeptOnce
    <2> SUFFICES ASSUME Inv PROVE KeptOnce
        OBVIOUS
    <2>1. ASSUME NEW k \in (gone + 1)..Len(made), made[k] = "message", ~overlap, ~stale,
                 ~(Busy("main") /\ th["main"].call = k)
          PROVE  (\E s \in Sid : temp[s] = k) # (\E i \in Id : msgs[i] = k)
        <3>1. gone \in Nat /\ Len(made) \in Nat /\ Len(made) <= Bound
            BY CountsNat DEF Inv, Base, Typed
        <3>2. k \in Call /\ k > gone /\ Kind(k, {"message"})
            BY <2>1, <3>1, Numbers DEF Kind
        <3>3. (\E s \in Sid : temp[s] = k) \/ Acked(k)
            BY <2>1, <3>2 DEF Inv, Session, Messages, MessageKept, Has
        <3>4. Acked(k) => \A s \in Sid : temp[s] # k
            BY <2>1, <3>2 DEF Inv, Clean, AckedOnce
        <3>5. QED
            BY <3>3, <3>4 DEF Acked
    <2>2. ~alive => overlap \/ th["main"].step \in {"put", "cache"}
        BY DEF Inv, Session, Messages, EndsEarly
    <2>3. QED
        BY <2>1, <2>2 DEF KeptOnce
<1>2. QED
    BY <1>1, InvInit, InvNext, PTL DEF Spec
=============================================================================
