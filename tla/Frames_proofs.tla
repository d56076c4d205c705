---------------------------- MODULE Frames_proofs ----------------------------
(***************************************************************************)
(* Proofs about the framing of messages, for every capacity of a buffer,   *)
(* every base of the length code, all sizes of messages and every bound on *)
(* the requests.                                                           *)
(***************************************************************************)
EXTENDS Frames, SequenceTheorems, TLAPS

-----------------------------------------------------------------------------
(* The inductive invariant: reading.                                       *)

Typed ==
    /\ TypeOK
    /\ Len(reqs) <= MaxRequests

\* A frame of a request of c, as yijianBuffer made it.
Genuine(c, f) ==
    /\ f.req \in 1..Len(reqs)
    /\ reqs[f.req].conn = c
    /\ f.part \in 1..PieceCount(reqs[f.req].size)
    /\ f = RequestFrames(f.req, reqs[f.req])[f.part]

\* Frame g is sent right after frame f.
Follows(f, g) ==
    IF f.last THEN g.part = 1 ELSE g.req = f.req /\ g.part = f.part + 1

\* What is in flight: frames in the order they were sent, up to a last one.
UpInOrder(c, u) ==
    /\ \A i \in 1..Len(u) : Genuine(c, u[i])
    /\ \A i \in 1..(Len(u) - 1) : Follows(u[i], u[i + 1])
    /\ u # <<>> => u[Len(u)].last

\* What is kept in buffer_sp_v: the first frames of one request.
VecInOrder(c, v) ==
    \A i \in 1..Len(v) :
        Genuine(c, v[i]) /\ v[i].part = i /\ ~v[i].last /\ v[i].req = v[1].req

\* The next frame in flight goes on with the request in buffer_sp_v.
GoesOn(u, v) ==
    IF u = <<>> THEN v = <<>>
    ELSE u[1].part = Len(v) + 1 /\ (v # <<>> => u[1].req = v[1].req)

WholeJob(j) ==
    \E n \in 1..Len(reqs) :
        j.conn = reqs[n].conn /\ j.frames = RequestFrames(n, reqs[n])

Reading ==
    /\ \A c \in Conn : UpInOrder(c, up[c]) /\ VecInOrder(c, vec[c])
    /\ \A c \in Conn : ~stalled[c] => GoesOn(up[c], vec[c])
    /\ \A i \in 1..Len(jobs) : WholeJob(jobs[i])

-----------------------------------------------------------------------------
(* The inductive invariant: writing.                                       *)

\* All that was mounted for c: what it was sent and then its queue.
LineOf(w, q) ==
    [i \in 1..(Len(w) + Len(q)) |-> IF i <= Len(w) THEN w[i].b ELSE q[i - Len(w)]]
Line(c) == LineOf(wire[c], wq[c])

Complete(b) == bufs[b].part = bufs[b].of

\* Whole messages, each one after the other, the buffers in the order of their making.
LineInOrder(q) ==
    /\ \A i, k \in 1..Len(q) : i < k => q[i] < q[k]
    /\ \A i \in 1..Len(q) : bufs[q[i]].part > 1 => i > 1 /\ q[i - 1] = q[i] - 1
    /\ \A i \in 2..Len(q) : bufs[q[i]].part = 1 => Complete(q[i - 1])
    /\ Len(q) > 0 => Complete(q[Len(q)])

\* A mount is of the buffers of one message, an answer's is for one connection.
MountOfMessage(m) ==
    /\ 1 <= m.from /\ m.from <= m.upto /\ m.upto <= Len(bufs)
    /\ \A b \in m.from..m.upto :
          /\ bufs[b].part = b - m.from + 1 /\ bufs[b].of = m.upto - m.from + 1
          /\ bufs[b].kind = bufs[m.from].kind
    /\ m.to # {} /\ m.now \in m.to \cup {NoConn}
    /\ bufs[m.from].kind = "res" => \A c, x \in m.to : c = x

\* The current mount and then, of an answer, that of its notification.
MountsInOrder ==
    /\ \A i \in 1..Len(mounts) : MountOfMessage(mounts[i])
    /\ Len(mounts) <= 2
    /\ Len(mounts) = 2 =>
          /\ mounts[1].upto < mounts[2].from
          /\ mounts[2].now = NoConn /\ bufs[mounts[2].from].kind = "noti"
    /\ mutex = IF mounts = <<>> THEN NoConn ELSE mounts[1].now

\* Nobody has the buffers of an answer before they are mounted, and no
\* connection those that are still to be mounted for it.
Ahead(m, c) == m.now # c /\ (c \in m.to \/ bufs[m.from].kind = "res")
NotYet ==
    \A i \in 1..Len(mounts) : \A c \in Conn : Ahead(mounts[i], c) =>
        \A k \in 1..Len(Line(c)) : Line(c)[k] < mounts[i].from

\* Buffer b is pushed for c, the last flag of its message still to be set.
Marking(c, b) ==
    mounts # <<>> /\ mounts[1].now = c /\ b \in mounts[1].from..mounts[1].upto

Marks ==
    /\ mounts # <<>> /\ mounts[1].now # NoConn =>
          \A b \in mounts[1].from..mounts[1].upto : ~bufs[b].last
    /\ \A c \in Conn : \A i \in 1..Len(wq[c]) :
          LET b == wq[c][i]
          IN bufs[b].kind = "res" => Marking(c, b) \/ (bufs[b].last <=> Complete(b))
    /\ \A c \in Conn : \A i \in 1..Len(wire[c]) :
          bufs[wire[c][i].b].kind = "res" => (wire[c][i].last <=> Complete(wire[c][i].b))

\* The buffers of an answer are one connection's alone.
OneOwner ==
    \A c, x \in Conn : \A i \in 1..Len(Line(c)) : \A k \in 1..Len(Line(x)) :
        Line(c)[i] = Line(x)[k] /\ bufs[Line(c)[i]].kind = "res" => c = x

Used(b) == \E x \in Conn : \E i \in 1..Len(wire[x]) : wire[x][i].b = b
UsedWasWritten == \A b \in 1..Len(bufs) : bufs[b].left = 0 => Used(b)

Dropped ==
    \A c \in Conn : ~served[c] =>
        stalled[c] \/ failed[c] \/ (wq[c] # <<>> /\ bufs[Head(wq[c])].left = 0)

Writing ==
    /\ \A c \in Conn : LineInOrder(Line(c))
    /\ MountsInOrder /\ NotYet /\ Marks /\ OneOwner /\ UsedWasWritten /\ Dropped

Inv == Typed /\ Reading /\ Writing

-----------------------------------------------------------------------------
(* The pieces of a message.                                                *)

LEMMA Limits ==
    /\ MaxLength \in Nat \ {0} /\ Capacity = MaxLength + 5 /\ NoConn \notin Conn
    /\ Sizes \subseteq Nat /\ AnswerSizes \subseteq Nat /\ NotiSizes \subseteq Nat
BY FrameAssumption DEF MaxLength, Padding, SessionidLength, MsgTypeLength, VarLength

LEMMA Division ==
    ASSUME NEW a \in Nat, NEW m \in Nat \ {0}
    PROVE  a \div m \in Nat /\ m * (a \div m) <= a /\ a < m * (a \div m) + m
OBVIOUS

LEMMA Times ==
    ASSUME NEW m \in Nat, NEW i \in Nat, NEW k \in Nat
    PROVE  /\ m * i \in Nat /\ m * (i - 1) = m * i - m
           /\ i <= k => m * i <= m * k
OBVIOUS

\* The loop of yijianBuffer runs until the message is used up.
LEMMA Counted ==
    ASSUME NEW size \in Nat
    PROVE  /\ PieceCount(size) \in Nat \ {0}
           /\ MaxLength * (PieceCount(size) - 1) <= size
           /\ size <= MaxLength * PieceCount(size)
           /\ size > 0 => MaxLength * (PieceCount(size) - 1) < size
<1>1. PICK m \in Nat \ {0} : m = MaxLength
    BY Limits
<1>2. CASE size = 0
    BY <1>1, <1>2 DEF PieceCount
<1>3. CASE size > 0
    <2>1. PICK a \in Nat : a = size + m - 1
        BY <1>1
    <2>2. PICK p \in Nat : p = a \div m /\ m * p <= a /\ a < m * p + m
        BY Division
    <2>3. p = PieceCount(size)
        BY <1>1, <1>3, <2>1, <2>2 DEF PieceCount
    <2>4. m * (p - 1) = m * p - m /\ m * p \in Nat
        BY Times
    <2>5. p # 0
        BY <1>3, <2>1, <2>2, <2>4
    <2>6. QED
        BY <1>1, <1>3, <2>1, <2>2, <2>3, <2>4, <2>5
<1>4. QED
    BY <1>2, <1>3

\* All pieces but the last are full, the last has what is left.
LEMMA PiecesOfMessage ==
    ASSUME NEW size \in Nat
    PROVE  LET p == PieceCount(size)
           IN /\ Pieces(size) \in Seq(0..MaxLength) /\ Len(Pieces(size)) = p
              /\ p \in Nat \ {0}
              /\ \A i \in 1..(p - 1) : Pieces(size)[i] = MaxLength
              /\ MaxLength * (p - 1) + Pieces(size)[p] = size
<1>1. PICK m \in Nat \ {0} : m = MaxLength
    BY Limits
<1>2. PICK p \in Nat \ {0} : p = PieceCount(size)
    BY Counted
<1>3. m * (p - 1) <= size /\ size <= m * p
    BY <1>1, <1>2, Counted
<1>4. ASSUME NEW i \in 1..(p - 1)
      PROVE  Pieces(size)[i] = m
    <2>1. m * i <= m * (p - 1) /\ m * i \in Nat /\ m * (p - 1) \in Nat
        BY Times
    <2>2. ~(m * i > size)
        BY <1>3, <2>1
    <2>3. i \in 1..p
        OBVIOUS
    <2>4. QED
        BY <1>1, <1>2, <2>2, <2>3 DEF Pieces
<1>5. Pieces(size)[p] \in 0..m /\ m * (p - 1) + Pieces(size)[p] = size
    <2>1. m * (p - 1) = m * p - m /\ m * p \in Nat
        BY Times
    <2>2. Pieces(size)[p] = IF m * p > size THEN size - m * (p - 1) ELSE m
        BY <1>1, <1>2 DEF Pieces
    <2>3. QED
        BY <1>3, <2>1, <2>2
<1>6. Pieces(size) \in [1..p -> 0..m]
    <2>1. \A i \in 1..p : Pieces(size)[i] \in 0..m
        BY <1>4, <1>5
    <2>2. QED
        BY <1>2, <2>1 DEF Pieces
<1>7. Pieces(size) \in Seq(0..m) /\ Len(Pieces(size)) = p
    BY <1>6
<1>8. QED
    BY <1>1, <1>2, <1>4, <1>5, <1>7

\* A piece and its header fit into a buffer.
LEMMA SizeOfFrame ==
    ASSUME NEW len \in 0..MaxLength
    PROVE  FrameSize(len) \in 1..Capacity
BY Limits DEF FrameSize, DataPos, CodeLength, SessionidLength, MsgTypeLength

Request == [conn : Conn, size : Sizes, high : BOOLEAN]

\* The frames of a request.
LEMMA FramesOfRequest ==
    ASSUME NEW n \in 1..MaxRequests, NEW r \in Request
    PROVE  LET q == RequestFrames(n, r)
               p == PieceCount(r.size)
           IN /\ q \in Seq(Frame) /\ Len(q) = p /\ p \in Nat \ {0}
              /\ \A i \in 1..p : /\ q[i].req = n /\ q[i].part = i
                                 /\ q[i].last <=> i = p
                                 /\ q[i].len = Pieces(r.size)[i]
<1>1. r.size \in Nat /\ r.high \in BOOLEAN
    BY Limits DEF Request
<1>2. PICK l : l = Pieces(r.size)
    OBVIOUS
<1>3. PICK p \in Nat \ {0} : p = PieceCount(r.size)
    BY <1>1, Counted
<1>4. l \in Seq(0..MaxLength) /\ Len(l) = p
    BY <1>1, <1>2, <1>3, PiecesOfMessage
<1>5. PICK q : q = RequestFrames(n, r)
    OBVIOUS
<1>6. q = [i \in 1..p |-> [req |-> n, part |-> i, len |-> l[i],
                           high |-> i > 1 /\ r.high, last |-> i = p]]
    BY <1>2, <1>4, <1>5 DEF RequestFrames
<1>7. \A i \in 1..p : l[i] \in 0..MaxLength
    BY <1>4, ElementOfSeq
<1>8. \A i \in 1..p : q[i] \in Frame
    BY <1>1, <1>6, <1>7 DEF Frame
<1>9. q \in Seq(Frame) /\ Len(q) = p
    BY <1>6, <1>8
<1>10. \A i \in 1..p : q[i].req = n /\ q[i].part = i /\ (q[i].last <=> i = p) /\ q[i].len = l[i]
    BY <1>6
<1>11. QED
    BY <1>2, <1>3, <1>5, <1>9, <1>10

-----------------------------------------------------------------------------
(* Sequences.                                                              *)

\* What taking the first element leaves.
LEMMA TailOfSeq ==
    ASSUME NEW S, NEW q \in Seq(S), q # <<>>
    PROVE  /\ Len(q) \in Nat /\ Len(q) > 0 /\ Head(q) = q[1] /\ Head(q) \in S
           /\ Tail(q) \in Seq(S) /\ Len(Tail(q)) = Len(q) - 1
           /\ \A i \in 1..(Len(q) - 1) : Tail(q)[i] = q[i + 1]
BY HeadTailProperties, EmptySeq, LenProperties

LEMMA NonEmpty ==
    ASSUME NEW S, NEW q \in Seq(S)
    PROVE  Len(q) \in Nat /\ (q = <<>> <=> Len(q) = 0)
BY EmptySeq, LenProperties

-----------------------------------------------------------------------------
(* Reading: a request more, a frame less.                                  *)

LEMMA GenuineStays ==
    ASSUME reqs \in Seq(Request), NEW r \in Request, reqs' = Append(reqs, r),
           NEW c, NEW f, Genuine(c, f)
    PROVE  Genuine(c, f)'
<1>1. PICK n : n = f.req
    OBVIOUS
<1>2. n \in 1..Len(reqs)
    BY <1>1 DEF Genuine
<1>3. n \in 1..Len(reqs') /\ reqs'[n] = reqs[n]
    BY <1>2, AppendProperties, LenProperties
<1>4. QED
    BY <1>1, <1>2, <1>3 DEF Genuine

\* The frames of the new request are genuine ones.
LEMMA NewGenuine ==
    ASSUME reqs \in Seq(Request), NEW r \in Request, reqs' = Append(reqs, r),
           Len(reqs) < MaxRequests,
           NEW q, q = RequestFrames(Len(reqs) + 1, r), NEW i \in 1..Len(q)
    PROVE  Genuine(r.conn, q[i])'
<1>1. PICK n : n = Len(reqs) + 1
    OBVIOUS
<1>2. n \in 1..MaxRequests /\ n \in 1..Len(reqs') /\ reqs'[n] = r
    BY <1>1, FrameAssumption, AppendProperties, LenProperties
<1>3. /\ Len(q) = PieceCount(r.size) /\ q[i].req = n /\ q[i].part = i
      /\ q = RequestFrames(n, r)
    BY <1>1, <1>2, FramesOfRequest
<1>4. QED
    BY <1>2, <1>3 DEF Genuine

\* What z is, sent by c behind u.
Sent(z, u, c) ==
    /\ z \in Seq(Frame) /\ z # <<>> /\ UpInOrder(c, z)'
    /\ u = <<>> => z[1].part = 1
    /\ u # <<>> => z[1] = u[1]

\* A request is sent behind what is in flight.
LEMMA SendInOrder ==
    ASSUME reqs \in Seq(Request), NEW r \in Request, reqs' = Append(reqs, r),
           Len(reqs) < MaxRequests,
           NEW u \in Seq(Frame), UpInOrder(r.conn, u)
    PROVE  \A z : z = u \o RequestFrames(Len(reqs) + 1, r) => Sent(z, u, r.conn)
<1>1. PICK n \in 1..MaxRequests : n = Len(reqs) + 1
    BY FrameAssumption, LenProperties
<1>2. PICK q : q = RequestFrames(n, r)
    OBVIOUS
<1>3. PICK p \in Nat \ {0} : p = PieceCount(r.size)
    BY FramesOfRequest
<1>4. PICK l \in Nat : l = Len(u)
    BY LenProperties
<1>5. p \in Nat /\ p > 0 /\ l \in Nat
    OBVIOUS
<1>6. q \in Seq(Frame) /\ Len(q) = p
    BY <1>2, <1>3, FramesOfRequest
<1>7. \A i \in 1..p : q[i].req = n /\ q[i].part = i /\ (q[i].last <=> i = p)
    BY <1>2, <1>3, FramesOfRequest
<1>8. PICK z : z = u \o q
    OBVIOUS
<1>9. /\ z \in Seq(Frame) /\ Len(z) = l + p
      /\ \A i \in 1..(l + p) : z[i] = IF i <= l THEN u[i] ELSE q[i - l]
    <2>1. /\ u \o q \in Seq(Frame) /\ Len(u \o q) = Len(u) + Len(q)
          /\ \A i \in 1..(Len(u) + Len(q)) :
                (u \o q)[i] = IF i <= Len(u) THEN u[i] ELSE q[i - Len(u)]
        BY <1>6, ConcatProperties
    <2>2. QED
        BY <1>6, <1>4, <1>8, <2>1
<1>10. u = <<>> <=> l = 0
    BY <1>4, NonEmpty
<1>11. z # <<>>
    BY <1>9, NonEmpty
<1>12. ASSUME NEW i \in 1..(l + p)
      PROVE  Genuine(r.conn, z[i])'
    <2>1. CASE i <= l
        <3>1. z[i] = u[i] /\ Genuine(r.conn, u[i])
            BY <1>4, <1>9, <2>1 DEF UpInOrder
        <3>2. PICK f : f = u[i]
            OBVIOUS
        <3>3. Genuine(r.conn, f)'
            BY <3>1, <3>2, GenuineStays
        <3>4. QED
            BY <3>1, <3>2, <3>3
    <2>2. CASE i > l
        <3>1. z[i] = q[i - l] /\ i - l \in 1..Len(q)
            BY <1>6, <1>9, <2>2
        <3>2. PICK k : k = i - l
            OBVIOUS
        <3>3. Genuine(r.conn, q[k])'
            BY <1>1, <1>2, <3>1, <3>2, NewGenuine
        <3>4. QED
            BY <3>1, <3>2, <3>3
    <2>3. QED
        BY <1>5, <1>4, <2>1, <2>2
<1>13. ASSUME NEW i \in 1..(l + p - 1)
       PROVE  Follows(z[i], z[i + 1])
    <2>0. i + 1 \in 1..(l + p) /\ i \in 1..(l + p)
        OBVIOUS
    <2>1. CASE i < l
        <3>1. z[i] = u[i] /\ z[i + 1] = u[i + 1] /\ i \in 1..(l - 1)
            BY <1>9, <2>0, <2>1
        <3>2. QED
            BY <1>4, <3>1 DEF UpInOrder
    <2>2. CASE i = l
        <3>1. z[i] = u[l] /\ z[i + 1] = q[1]
            BY <1>9, <2>0, <2>2
        <3>2. u[l].last
            BY <1>4, <1>10, <2>2 DEF UpInOrder
        <3>3. QED
            BY <1>5, <1>7, <3>1, <3>2 DEF Follows
    <2>3. CASE i > l
        <3>1. PICK k : k = i - l
            OBVIOUS
        <3>2. k \in 1..p /\ k + 1 \in 1..p /\ (i + 1) - l = k + 1 /\ k # p
            BY <2>3, <3>1
        <3>3. z[i] = q[k]
            BY <1>9, <2>0, <2>3, <3>1
        <3>4. z[i + 1] = q[(i + 1) - l]
            BY <1>9, <2>0, <2>3
        <3>5. QED
            BY <1>5, <1>7, <3>2, <3>3, <3>4 DEF Follows
    <2>4. QED
        BY <1>5, <1>4, <2>1, <2>2, <2>3
<1>14. z[l + p].last
    <2>1. z[l + p] = q[(l + p) - l] /\ (l + p) - l = p
        <3>1. l + p \in 1..(l + p) /\ ~(l + p <= l) /\ (l + p) - l = p
            BY <1>5
        <3>2. QED
            BY <1>9, <3>1
    <2>2. QED
        BY <1>5, <1>7, <2>1
<1>15. UpInOrder(r.conn, z)'
    BY <1>5, <1>4, <1>9, <1>12, <1>13, <1>14 DEF UpInOrder
<1>16. u = <<>> => z[1].part = 1
    BY <1>5, <1>7, <1>4, <1>9, <1>10
<1>17. u # <<>> => z[1] = u[1]
    BY <1>9, <1>10
<1>18. QED
    <2>1. Sent(z, u, r.conn)
        BY <1>9, <1>11, <1>15, <1>16, <1>17 DEF Sent
    <2>2. \A y : y = u \o RequestFrames(Len(reqs) + 1, r) => y = z
        BY <1>1, <1>2, <1>8
    <2>3. QED
        BY <2>1, <2>2

\* The frame at the front is taken.
LEMMA TakeInOrder ==
    ASSUME NEW c, NEW u \in Seq(Frame), u # <<>>, UpInOrder(c, u)
    PROVE  /\ u[1] \in Frame /\ Tail(u) \in Seq(Frame) /\ UpInOrder(c, Tail(u))
           /\ Genuine(c, u[1])
           /\ Tail(u) = <<>> => u[1].last
           /\ Tail(u) # <<>> => Follows(u[1], Tail(u)[1])
<1>1. PICK t : t = Tail(u)
    OBVIOUS
<1>2. PICK n \in Nat : n = Len(u)
    BY LenProperties
<1>3. /\ n > 0 /\ u[1] \in Frame /\ t \in Seq(Frame) /\ Len(t) = n - 1
      /\ \A i \in 1..(n - 1) : t[i] = u[i + 1]
    BY <1>1, <1>2, TailOfSeq
<1>4. t = <<>> <=> n = 1
    BY <1>2, <1>3, NonEmpty
<1>5. ASSUME NEW i \in 1..(n - 1)
      PROVE  Genuine(c, t[i])
    BY <1>2, <1>3 DEF UpInOrder
<1>6. ASSUME NEW i \in 1..(n - 2)
      PROVE  Follows(t[i], t[i + 1])
    <2>1. i + 1 \in 1..(n - 1) /\ i \in 1..(n - 1)
        BY <1>2
    <2>2. t[i] = u[i + 1] /\ t[i + 1] = u[(i + 1) + 1]
        BY <1>3, <2>1
    <2>3. Follows(u[i + 1], u[(i + 1) + 1])
        BY <1>2, <2>1 DEF UpInOrder
    <2>4. QED
        BY <2>2, <2>3
<1>7. t # <<>> => t[n - 1].last
    BY <1>2, <1>3, <1>4 DEF UpInOrder
<1>8. UpInOrder(c, t)
    BY <1>2, <1>3, <1>5, <1>6, <1>7 DEF UpInOrder
<1>9. Genuine(c, u[1])
    BY <1>2, <1>3 DEF UpInOrder
<1>10. t = <<>> => u[1].last
    BY <1>2, <1>4 DEF UpInOrder
<1>11. t # <<>> => Follows(u[1], t[1])
    BY <1>2, <1>3, <1>4 DEF UpInOrder
<1>12. QED
    BY <1>1, <1>3, <1>8, <1>9, <1>10, <1>11

\* What a genuine frame is.
LEMMA GenuineFrame ==
    ASSUME reqs \in Seq(Request), Len(reqs) <= MaxRequests, NEW c, NEW f, Genuine(c, f)
    PROVE  LET q == RequestFrames(f.req, reqs[f.req])
           IN /\ q \in Seq(Frame) /\ f.part \in 1..Len(q) /\ f = q[f.part]
              /\ f.req \in 1..Len(reqs) /\ reqs[f.req].conn = c
              /\ f.last <=> f.part = Len(q)
<1>1. PICK n : n = f.req
    OBVIOUS
<1>2. n \in 1..Len(reqs) /\ n \in 1..MaxRequests /\ reqs[n] \in Request
    BY <1>1, FrameAssumption, LenProperties, ElementOfSeq DEF Genuine
<1>3. PICK r \in Request : r = reqs[n]
    BY <1>2
<1>4. PICK q : q = RequestFrames(n, r)
    OBVIOUS
<1>5. PICK p : p = PieceCount(r.size)
    OBVIOUS
<1>6. q \in Seq(Frame) /\ Len(q) = p /\ \A i \in 1..p : q[i].last <=> i = p
    BY <1>2, <1>4, <1>5, FramesOfRequest
<1>7. f.part \in 1..p /\ f = q[f.part] /\ r.conn = c
    BY <1>1, <1>3, <1>4, <1>5 DEF Genuine
<1>8. PICK k \in 1..p : k = f.part
    BY <1>7
<1>9. f.last <=> k = p
    BY <1>6, <1>7, <1>8
<1>10. QED
    BY <1>1, <1>2, <1>3, <1>4, <1>6, <1>7, <1>8, <1>9

\* The frame that comes next joins those kept; the last one makes them whole.
LEMMA KeepFrame ==
    ASSUME reqs \in Seq(Request), Len(reqs) <= MaxRequests,
           NEW c, NEW v \in Seq(Frame), VecInOrder(c, v),
           NEW f \in Frame, Genuine(c, f),
           f.part = Len(v) + 1, v # <<>> => f.req = v[1].req
    PROVE  /\ Append(v, f) \in Seq(Frame) /\ Len(Append(v, f)) = Len(v) + 1
           /\ ~f.last => VecInOrder(c, Append(v, f))
           /\ Append(v, f)[1].req = f.req
           /\ f.last => Append(v, f) = RequestFrames(f.req, reqs[f.req])
<1>1. PICK w : w = Append(v, f)
    OBVIOUS
<1>2. PICK l \in Nat : l = Len(v)
    BY LenProperties
<1>3. /\ w \in Seq(Frame) /\ Len(w) = l + 1
      /\ \A i \in 1..l : w[i] = v[i]
      /\ w[l + 1] = f
    BY <1>1, <1>2, AppendProperties
<1>4. v = <<>> <=> l = 0
    BY <1>2, NonEmpty
<1>5. w[1].req = f.req
    BY <1>2, <1>3, <1>4
<1>6. ASSUME NEW i \in 1..(l + 1)
      PROVE  Genuine(c, w[i]) /\ w[i].part = i /\ w[i].req = w[1].req
    <2>1. CASE i = l + 1
        BY <1>2, <1>3, <1>5, <2>1
    <2>2. CASE i \in 1..l
        <3>1. Genuine(c, v[i]) /\ v[i].part = i /\ v[i].req = v[1].req
            BY <1>2, <2>2 DEF VecInOrder
        <3>2. 1 \in 1..l
            BY <1>2, <2>2
        <3>3. QED
            BY <1>3, <2>2, <3>1, <3>2
    <2>3. QED
        BY <1>2, <2>1, <2>2
<1>7. ASSUME ~f.last
      PROVE  VecInOrder(c, w)
    <2>1. \A i \in 1..l : ~v[i].last
        BY <1>2 DEF VecInOrder
    <2>2. \A i \in 1..(l + 1) : ~w[i].last
        BY <1>2, <1>3, <1>7, <2>1
    <2>3. QED
        BY <1>3, <1>6, <2>2 DEF VecInOrder
<1>8. ASSUME f.last
      PROVE  w = RequestFrames(f.req, reqs[f.req])
    <2>1. PICK q : q = RequestFrames(f.req, reqs[f.req])
        OBVIOUS
    <2>2. q \in Seq(Frame) /\ Len(q) = l + 1
        BY <1>2, <1>8, <2>1, GenuineFrame
    <2>3. ASSUME NEW i \in 1..(l + 1)
          PROVE  w[i] = q[i]
        <3>1. w[i] = RequestFrames(w[i].req, reqs[w[i].req])[w[i].part]
            BY <1>6 DEF Genuine
        <3>2. w[i].req = f.req /\ w[i].part = i
            BY <1>5, <1>6
        <3>3. QED
            BY <2>1, <3>1, <3>2
    <2>4. QED
        BY <1>3, <2>1, <2>2, <2>3, SeqEqual
<1>9. QED
    BY <1>1, <1>2, <1>3, <1>5, <1>7, <1>8

-----------------------------------------------------------------------------
(* Reading: the steps.                                                     *)

\* What the reading side of one connection and the jobs owe.
ReadingOf(c) ==
    /\ UpInOrder(c, up[c]) /\ VecInOrder(c, vec[c])
    /\ ~stalled[c] => GoesOn(up[c], vec[c])
WholeJobs == \A i \in 1..Len(jobs) : WholeJob(jobs[i])

LEMMA ReadingParts == Reading <=> (\A c \in Conn : ReadingOf(c)) /\ WholeJobs
BY DEF Reading, ReadingOf, WholeJobs

LEMMA ReadingPartsNext == Reading' <=> (\A c \in Conn : ReadingOf(c)') /\ WholeJobs'
BY DEF Reading, ReadingOf, WholeJobs

\* A connection nothing happens to.
LEMMA ReadingOfSame ==
    ASSUME NEW c, ReadingOf(c), reqs' = reqs,
           up'[c] = up[c], vec'[c] = vec[c], stalled'[c] = stalled[c]
    PROVE  ReadingOf(c)'
BY DEF ReadingOf, UpInOrder, VecInOrder, GoesOn, Genuine

LEMMA VecInOrderStays ==
    ASSUME reqs \in Seq(Request), NEW r \in Request, reqs' = Append(reqs, r),
           NEW c, NEW v, VecInOrder(c, v)
    PROVE  VecInOrder(c, v)'
<1>1. ASSUME NEW i \in 1..Len(v)
      PROVE  Genuine(c, v[i])' /\ v[i].part = i /\ ~v[i].last /\ v[i].req = v[1].req
    <2>1. Genuine(c, v[i]) /\ v[i].part = i /\ ~v[i].last /\ v[i].req = v[1].req
        BY DEF VecInOrder
    <2>2. PICK f : f = v[i]
        OBVIOUS
    <2>3. Genuine(c, f)'
        BY <2>1, <2>2, GenuineStays
    <2>4. QED
        BY <2>1, <2>2, <2>3
<1>2. QED
    BY <1>1 DEF VecInOrder

LEMMA UpInOrderStays ==
    ASSUME reqs \in Seq(Request), NEW r \in Request, reqs' = Append(reqs, r),
           NEW c, NEW u, UpInOrder(c, u)
    PROVE  UpInOrder(c, u)'
<1>1. ASSUME NEW i \in 1..Len(u)
      PROVE  Genuine(c, u[i])'
    <2>1. Genuine(c, u[i])
        BY DEF UpInOrder
    <2>2. PICK f : f = u[i]
        OBVIOUS
    <2>3. Genuine(c, f)'
        BY <2>1, <2>2, GenuineStays
    <2>4. QED
        BY <2>2, <2>3
<1>2. QED
    BY <1>1 DEF UpInOrder

LEMMA WholeJobsStay ==
    ASSUME reqs \in Seq(Request), NEW r \in Request, reqs' = Append(reqs, r),
           WholeJobs, jobs' = jobs
    PROVE  WholeJobs'
<1>1. \A n \in 1..Len(reqs) : n \in 1..Len(reqs') /\ reqs'[n] = reqs[n]
    BY AppendProperties, LenProperties
<1>2. QED
    BY <1>1 DEF WholeJobs, WholeJob

LEMMA ReadTypes ==
    ASSUME Typed
    PROVE  /\ reqs \in Seq(Request) /\ Len(reqs) \in Nat /\ Len(reqs) <= MaxRequests
           /\ up \in [Conn -> Seq(Frame)] /\ vec \in [Conn -> Seq(Frame)]
           /\ stalled \in [Conn -> BOOLEAN]
           /\ served \in [Conn -> BOOLEAN] /\ failed \in [Conn -> BOOLEAN]
           /\ jobs \in Seq([conn : Conn, frames : Seq(Frame)])
BY LenProperties DEF Typed, TypeOK, Request

LEMMA PostReading ==
    ASSUME Typed, Reading, NEW c \in Conn, Post(c)
    PROVE  Reading'
<1>1. PICK r \in Request :
          /\ r.conn = c /\ reqs' = Append(reqs, r)
          /\ up' = [up EXCEPT ![c] = @ \o RequestFrames(Len(reqs) + 1, r)]
    BY DEF Post, Request
<1>2. UNCHANGED <<vec, stalled, jobs>> /\ Len(reqs) < MaxRequests
    BY DEF Post
<1>3. \A x \in Conn : ReadingOf(x)
    BY ReadingParts
<1>4. ASSUME NEW x \in Conn
      PROVE  ReadingOf(x)'
    <2>1. PICK u \in Seq(Frame) : u = up[x]
        BY ReadTypes
    <2>2. PICK v \in Seq(Frame) : v = vec[x]
        BY ReadTypes
    <2>3. UpInOrder(x, u) /\ VecInOrder(x, v) /\ (~stalled[x] => GoesOn(u, v))
        BY <1>3, <2>1, <2>2 DEF ReadingOf
    <2>4. VecInOrder(x, v)' /\ vec'[x] = v /\ stalled'[x] = stalled[x]
        BY <1>1, <1>2, <2>2, <2>3, ReadTypes, VecInOrderStays
    <2>5. PICK z : z = up'[x]
        OBVIOUS
    <2>6. CASE x = c
        <3>1. z = u \o RequestFrames(Len(reqs) + 1, r)
            BY <1>1, <2>1, <2>5, <2>6, ReadTypes
        <3>2. Sent(z, u, x)
            BY <1>1, <1>2, <2>3, <2>6, <3>1, ReadTypes, SendInOrder
        <3>3. Len(v) \in Nat /\ (v = <<>> <=> Len(v) = 0)
            BY NonEmpty
        <3>4. GoesOn(u, v) => GoesOn(z, v)
            BY <3>2, <3>3 DEF Sent, GoesOn
        <3>5. UpInOrder(x, z)'
            BY <3>2 DEF Sent
        <3>6. ~stalled[x] => GoesOn(z, v)
            BY <2>3, <3>4
        <3>7. QED
            BY <2>4, <2>5, <3>5, <3>6 DEF ReadingOf, GoesOn
    <2>7. CASE x # c
        <3>1. z = u
            BY <1>1, <2>1, <2>5, <2>7, ReadTypes
        <3>2. UpInOrder(x, u)'
            BY <1>1, <2>3, ReadTypes, UpInOrderStays
        <3>3. QED
            BY <2>3, <2>4, <2>5, <3>1, <3>2 DEF ReadingOf, GoesOn
    <2>8. QED
        BY <2>6, <2>7
<1>5. WholeJobs'
    BY <1>1, <1>2, ReadTypes, ReadingParts, WholeJobsStay
<1>6. Reading' <=> (\A x \in Conn : ReadingOf(x)') /\ WholeJobs'
    BY ReadingPartsNext
<1>7. QED
    BY <1>4, <1>5, <1>6

LEMMA ReadFrameReading ==
    ASSUME Typed, Reading, NEW c \in Conn, NEW garbage \in BOOLEAN, ReadFrame(c, garbage)
    PROVE  Reading'
<1>1. PICK u \in Seq(Frame) : u = up[c]
    BY ReadTypes
<1>2. PICK v \in Seq(Frame) : v = vec[c]
    BY ReadTypes
<1>3. PICK f : f = u[1]
    OBVIOUS
<1>4. PICK w : w = Append(v, f)
    OBVIOUS
<1>5. /\ reqs' = reqs /\ ~stalled[c] /\ u # <<>>
      /\ up' = [up EXCEPT ![c] = Tail(u)]
    BY <1>1 DEF ReadFrame
<1>6. CASE /\ stalled' = [stalled EXCEPT ![c] = TRUE]
           /\ vec' = vec /\ jobs' = jobs
    <2>1. UpInOrder(c, u) /\ VecInOrder(c, v)
        BY <1>1, <1>2 DEF Reading
    <2>2. UpInOrder(c, Tail(u))
        BY <1>5, <2>1, TakeInOrder
    <2>3. up'[c] = Tail(u) /\ vec'[c] = v /\ stalled'[c]
        BY <1>2, <1>5, <1>6, ReadTypes
    <2>4. ReadingOf(c)'
        <3>1. PICK t : t = Tail(u)
            OBVIOUS
        <3>2. UpInOrder(c, t)' /\ VecInOrder(c, v)'
            BY <1>5, <2>1, <2>2, <3>1 DEF UpInOrder, VecInOrder, Genuine
        <3>3. QED
            BY <2>3, <3>1, <3>2 DEF ReadingOf
    <2>5. ASSUME NEW x \in Conn, x # c
          PROVE  ReadingOf(x)'
        <3>1. up'[x] = up[x] /\ vec'[x] = vec[x] /\ stalled'[x] = stalled[x]
            BY <1>5, <1>6, <2>5, ReadTypes
        <3>2. QED
            BY <1>5, <3>1, ReadingParts, ReadingOfSame
    <2>6. WholeJobs'
        BY <1>5, <1>6, ReadingParts DEF WholeJobs, WholeJob
    <2>7. Reading' <=> (\A x \in Conn : ReadingOf(x)') /\ WholeJobs'
        BY ReadingPartsNext
    <2>8. QED
        BY <2>4, <2>5, <2>6, <2>7
<1>7. CASE /\ vec' = [vec EXCEPT ![c] = IF f.last THEN KeptFrames(w) ELSE w]
           /\ jobs' = IF f.last THEN Append(jobs, [conn |-> c, frames |-> w]) ELSE jobs
           /\ stalled' = stalled
    <2>1. UpInOrder(c, u) /\ VecInOrder(c, v) /\ GoesOn(u, v)
        BY <1>1, <1>2, <1>5 DEF Reading
    <2>2. PICK t \in Seq(Frame) : t = Tail(u)
        BY <1>5, TailOfSeq
    <2>3. /\ f \in Frame /\ UpInOrder(c, t) /\ Genuine(c, f)
          /\ t = <<>> => f.last
          /\ t # <<>> => Follows(f, t[1])
        BY <1>3, <1>5, <2>1, <2>2, TakeInOrder
    <2>4. f.part = Len(v) + 1 /\ (v # <<>> => f.req = v[1].req)
        BY <1>3, <1>5, <2>1 DEF GoesOn
    <2>5. /\ w \in Seq(Frame) /\ Len(w) = Len(v) + 1
          /\ ~f.last => VecInOrder(c, w)
          /\ w[1].req = f.req
          /\ f.last => w = RequestFrames(f.req, reqs[f.req])
        BY <1>4, <2>1, <2>3, <2>4, ReadTypes, KeepFrame
    <2>6. PICK y : y = IF f.last THEN <<>> ELSE w
        OBVIOUS
    <2>7. up'[c] = t /\ vec'[c] = y /\ stalled'[c] = stalled[c]
        BY <1>5, <1>7, <2>2, <2>6, ReadTypes DEF KeptFrames
    <2>8. VecInOrder(c, y)
        BY <2>5, <2>6 DEF VecInOrder
    <2>9. GoesOn(t, y)
        <3>1. CASE f.last
            BY <2>3, <2>6, <3>1 DEF GoesOn, Follows
        <3>2. CASE ~f.last
            BY <2>3, <2>4, <2>5, <2>6, <3>2 DEF GoesOn, Follows
        <3>3. QED
            BY <3>1, <3>2
    <2>10. ReadingOf(c)'
        <3>1. UpInOrder(c, t)' /\ VecInOrder(c, y)' /\ GoesOn(t, y)
            BY <1>5, <2>3, <2>8, <2>9 DEF UpInOrder, VecInOrder, Genuine
        <3>2. QED
            BY <2>7, <3>1 DEF ReadingOf, GoesOn
    <2>11. ASSUME NEW x \in Conn, x # c
           PROVE  ReadingOf(x)'
        <3>1. up'[x] = up[x] /\ vec'[x] = vec[x] /\ stalled'[x] = stalled[x]
            BY <1>5, <1>7, <2>11, ReadTypes
        <3>2. QED
            BY <1>5, <3>1, ReadingParts, ReadingOfSame
    <2>12. WholeJobs'
        <3>1. CASE f.last
            <4>1. PICK j : j = [conn |-> c, frames |-> w]
                OBVIOUS
            <4>2. f.req \in 1..Len(reqs) /\ reqs[f.req].conn = c
                BY <2>3 DEF Genuine
            <4>3. WholeJob(j)
                BY <2>5, <3>1, <4>1, <4>2 DEF WholeJob
            <4>4. j \in [conn : Conn, frames : Seq(Frame)]
                BY <2>5, <4>1
            <4>5. jobs' = Append(jobs, j)
                BY <1>7, <3>1, <4>1
            <4>6. ASSUME NEW i \in 1..Len(jobs')
                  PROVE  WholeJob(jobs'[i])
                <5>1. Len(jobs') = Len(jobs) + 1 /\ Len(jobs) \in Nat
                    BY <4>4, <4>5, ReadTypes, AppendProperties, LenProperties
                <5>2. CASE i \in 1..Len(jobs)
                    <6>1. jobs'[i] = jobs[i]
                        BY <4>4, <4>5, <5>2, ReadTypes, AppendProperties
                    <6>2. QED
                        BY <5>2, <6>1 DEF Reading
                <5>3. CASE i = Len(jobs) + 1
                    BY <4>3, <4>4, <4>5, <5>3, ReadTypes, AppendProperties
                <5>4. QED
                    BY <5>1, <5>2, <5>3
            <4>7. QED
                BY <1>5, <4>6 DEF WholeJobs, WholeJob
        <3>2. CASE ~f.last
            BY <1>5, <1>7, <3>2, ReadingParts DEF WholeJobs, WholeJob
        <3>3. QED
            BY <3>1, <3>2
    <2>13. Reading' <=> (\A x \in Conn : ReadingOf(x)') /\ WholeJobs'
        BY ReadingPartsNext
    <2>14. QED
        BY <2>10, <2>11, <2>12, <2>13
<1>8. f = Head(u)
    BY <1>3, <1>5, TailOfSeq
<1>9. QED
    BY <1>1, <1>2, <1>4, <1>6, <1>7, <1>8 DEF ReadFrame

\* Jobs leave from the front, and nothing else of reading changes.
LEMMA OtherReading ==
    ASSUME Typed, Reading, UNCHANGED <<reqs, up, vec, stalled>>,
           jobs' = jobs \/ (jobs # <<>> /\ jobs' = Tail(jobs))
    PROVE  Reading'
<1>1. ASSUME NEW x \in Conn
      PROVE  ReadingOf(x)'
    BY ReadingParts, ReadingOfSame
<1>2. WholeJobs'
    <2>1. CASE jobs' = jobs
        BY <2>1, ReadingParts DEF WholeJobs, WholeJob
    <2>2. CASE jobs # <<>> /\ jobs' = Tail(jobs)
        <3>1. /\ Len(jobs) \in Nat /\ Len(jobs') = Len(jobs) - 1
              /\ \A i \in 1..(Len(jobs) - 1) : jobs'[i] = jobs[i + 1]
            BY <2>2, ReadTypes, TailOfSeq
        <3>2. ASSUME NEW i \in 1..Len(jobs')
              PROVE  WholeJob(jobs'[i])
            BY <3>1 DEF Reading
        <3>3. QED
            BY <3>2 DEF WholeJobs, WholeJob
    <2>3. QED
        BY <2>1, <2>2
<1>3. Reading' <=> (\A x \in Conn : ReadingOf(x)') /\ WholeJobs'
    BY ReadingPartsNext
<1>4. QED
    BY <1>1, <1>2, <1>3

-----------------------------------------------------------------------------
(* The effects of the writing steps.                                       *)

Mount == [to : SUBSET Conn, now : Conn \cup {NoConn}, from : Nat, upto : Nat]

LEMMA WriteTypes ==
    ASSUME Typed
    PROVE  /\ mounts \in Seq(Mount) /\ mutex \in Conn \cup {NoConn}
           /\ bufs \in Seq(Buffer) /\ Len(bufs) \in Nat /\ Len(mounts) \in Nat
           /\ wq \in [Conn -> Seq(1..Len(bufs))]
           /\ wire \in [Conn -> Seq([b : 1..Len(bufs), last : BOOLEAN])]
BY LenProperties DEF Typed, TypeOK, Mount

\* Another first element.
LEMMA HeadReplaced ==
    ASSUME NEW S, NEW q \in Seq(S), q # <<>>, NEW m \in S
    PROVE  \A z : z = <<m>> \o Tail(q) =>
               /\ z \in Seq(S) /\ Len(z) = Len(q) /\ z # <<>> /\ z[1] = m
               /\ \A i \in 2..Len(q) : z[i] = q[i]
<1>1. PICK t : t = Tail(q)
    OBVIOUS
<1>2. PICK n \in Nat : n = Len(q)
    BY LenProperties
<1>3. /\ n > 0 /\ t \in Seq(S) /\ Len(t) = n - 1
      /\ \A i \in 1..(n - 1) : t[i] = q[i + 1]
    BY <1>1, <1>2, TailOfSeq
<1>4. PICK h : h = <<m>>
    OBVIOUS
<1>5. h \in Seq(S) /\ Len(h) = 1 /\ h[1] = m
    BY <1>4
<1>6. PICK z : z = h \o t
    OBVIOUS
<1>7. /\ z \in Seq(S) /\ Len(z) = n
      /\ \A i \in 1..n : z[i] = IF i <= 1 THEN h[i] ELSE t[i - 1]
    <2>1. /\ h \o t \in Seq(S) /\ Len(h \o t) = Len(h) + Len(t)
          /\ \A i \in 1..(Len(h) + Len(t)) :
                (h \o t)[i] = IF i <= Len(h) THEN h[i] ELSE t[i - Len(h)]
        BY <1>3, <1>5, ConcatProperties, ZenonT(40)
    <2>2. QED
        BY <1>3, <1>5, <1>6, <2>1
<1>8. z[1] = m
    BY <1>3, <1>5, <1>7
<1>9. ASSUME NEW i \in 2..n
      PROVE  z[i] = q[i]
    <2>1. i \in 1..n /\ ~(i <= 1) /\ i - 1 \in 1..(n - 1) /\ (i - 1) + 1 = i
        BY <1>2
    <2>2. z[i] = t[i - 1]
        BY <1>7, <2>1
    <2>3. QED
        BY <1>3, <2>1, <2>2
<1>10. z # <<>>
    BY <1>3, <1>7, NonEmpty
<1>11. QED
    BY <1>1, <1>2, <1>4, <1>6, <1>7, <1>8, <1>9, <1>10

\* The fields of buffers that are given once.
Shape ==
    /\ bufs' \in Seq(Buffer) /\ Len(bufs') = Len(bufs)
    /\ \A b \in 1..Len(bufs) : /\ bufs'[b].kind = bufs[b].kind
                                /\ bufs'[b].part = bufs[b].part
                                /\ bufs'[b].of = bufs[b].of

\* The rest of a mount once the one for c is done.
Remaining(m, c) == [m EXCEPT !.to = @ \ {c}, !.now = NoConn]

MountDone(c) ==
    \/ /\ mounts[1].to = {c} /\ Len(mounts') = Len(mounts) - 1
       /\ \A i \in 1..(Len(mounts) - 1) : mounts'[i] = mounts[i + 1]
    \/ /\ mounts[1].to # {c} /\ Len(mounts') = Len(mounts)
       /\ mounts'[1] = Remaining(mounts[1], c)
       /\ \A i \in 2..Len(mounts) : mounts'[i] = mounts[i]

LEMMA MountedEffect ==
    ASSUME Typed, NEW c, mounts # <<>>, mounts' = Mounted(c)
    PROVE  mounts' \in Seq(Mount) /\ MountDone(c)
<1>1. PICK q \in Seq(Mount) : q = mounts
    BY WriteTypes
<1>2. PICK n \in Nat : n = Len(q)
    BY LenProperties
<1>3. PICK m \in Mount : m = q[1]
    BY <1>1, TailOfSeq
<1>4. /\ Head(q) = m /\ Tail(q) \in Seq(Mount) /\ Len(Tail(q)) = n - 1
      /\ \A i \in 1..(n - 1) : Tail(q)[i] = q[i + 1]
    BY <1>1, <1>2, <1>3, TailOfSeq
<1>5. CASE m.to = {c}
    <2>1. mounts' = Tail(q)
        BY <1>1, <1>4, <1>5 DEF Mounted
    <2>2. QED
        BY <1>1, <1>2, <1>3, <1>4, <1>5, <2>1 DEF MountDone
<1>6. CASE m.to # {c}
    <2>1. PICK r : r = Remaining(m, c)
        OBVIOUS
    <2>2. r \in Mount
        BY <2>1 DEF Mount, Remaining
    <2>3. mounts' = <<r>> \o Tail(q)
        BY <1>1, <1>4, <1>6, <2>1 DEF Mounted, Remaining
    <2>4. PICK z : z = mounts'
        OBVIOUS
    <2>5. /\ z \in Seq(Mount) /\ Len(z) = Len(q) /\ z[1] = r
          /\ \A i \in 2..Len(q) : z[i] = q[i]
        BY <1>1, <2>2, <2>3, <2>4, HeadReplaced
    <2>6. QED
        BY <1>1, <1>3, <1>6, <2>1, <2>4, <2>5 DEF MountDone
<1>7. QED
    BY <1>5, <1>6

\* A buffer with another last flag, or with nothing left to write.
LEMMA LastSet ==
    ASSUME NEW x \in Buffer, NEW v \in BOOLEAN
    PROVE  LET y == [x EXCEPT !.last = v]
           IN /\ y \in Buffer /\ y.last = v
              /\ y.kind = x.kind /\ y.part = x.part /\ y.of = x.of /\ y.left = x.left
<1>1. PICK y : y = [x EXCEPT !.last = v]
    OBVIOUS
<1>2. y = [req |-> x.req, kind |-> x.kind, part |-> x.part, of |-> x.of,
           last |-> v, left |-> x.left]
    BY <1>1 DEF Buffer
<1>3. y \in Buffer
    BY <1>2 DEF Buffer
<1>4. y.last = v
    BY <1>2
<1>5. y.kind = x.kind /\ y.part = x.part /\ y.of = x.of /\ y.left = x.left
    BY <1>2
<1>6. QED
    BY <1>1, <1>3, <1>4, <1>5

LEMMA LeftUsed ==
    ASSUME NEW x \in Buffer
    PROVE  LET y == [x EXCEPT !.left = 0]
           IN /\ y \in Buffer /\ y.left = 0 /\ y.last = x.last
              /\ y.kind = x.kind /\ y.part = x.part /\ y.of = x.of
<1>1. PICK y : y = [x EXCEPT !.left = 0]
    OBVIOUS
<1>2. y = [req |-> x.req, kind |-> x.kind, part |-> x.part, of |-> x.of,
           last |-> x.last, left |-> 0]
    BY <1>1 DEF Buffer
<1>3. y \in Buffer
    BY <1>2, FrameAssumption DEF Buffer
<1>4. y.last = x.last
    BY <1>2
<1>5. y.kind = x.kind /\ y.part = x.part /\ y.of = x.of /\ y.left = 0
    BY <1>2
<1>6. QED
    BY <1>1, <1>3, <1>4, <1>5

\* MountFrames: the last flags are taken back, the buffers are pushed for c.
Pushed(c, m) ==
    /\ Shape
    /\ \A b \in 1..Len(bufs) :
          /\ bufs'[b].left = bufs[b].left
          /\ bufs'[b].last <=> b \notin m.from..m.upto /\ bufs[b].last
    /\ mounts' \in Seq(Mount) /\ Len(mounts') = Len(mounts)
    /\ mounts'[1] = [m EXCEPT !.now = c]
    /\ \A i \in 2..Len(mounts) : mounts'[i] = mounts[i]

LEMMA PushEffect ==
    ASSUME Typed, NEW c \in Conn, NEW m, mounts # <<>>, m = mounts[1],
           bufs' = [b \in 1..Len(bufs) |->
                       IF b \in m.from..m.upto THEN [bufs[b] EXCEPT !.last = FALSE]
                       ELSE bufs[b]],
           mounts' = <<[m EXCEPT !.now = c]>> \o Tail(mounts)
    PROVE  Pushed(c, m)
<1>1. PICK n \in Nat : n = Len(bufs)
    BY WriteTypes
<1>2. \A b \in 1..n : bufs[b] \in Buffer
    BY <1>1, WriteTypes, ElementOfSeq
<1>3. ASSUME NEW b \in 1..n
      PROVE  /\ bufs'[b] \in Buffer
             /\ bufs'[b].kind = bufs[b].kind /\ bufs'[b].part = bufs[b].part
             /\ bufs'[b].of = bufs[b].of /\ bufs'[b].left = bufs[b].left
             /\ bufs'[b].last <=> b \notin m.from..m.upto /\ bufs[b].last
    <2>1. bufs'[b] = IF b \in m.from..m.upto THEN [bufs[b] EXCEPT !.last = FALSE] ELSE bufs[b]
        BY <1>1
    <2>2. PICK x \in Buffer : x = bufs[b]
        BY <1>2
    <2>3. CASE b \in m.from..m.upto
        <3>1. bufs'[b] = [x EXCEPT !.last = FALSE]
            BY <2>1, <2>2, <2>3
        <3>2. PICK y : y = bufs'[b]
            OBVIOUS
        <3>3. /\ y \in Buffer /\ y.last = FALSE
              /\ y.kind = x.kind /\ y.part = x.part /\ y.of = x.of /\ y.left = x.left
            BY <3>1, <3>2, LastSet, ZenonT(40)
        <3>4. ~y.last
            BY <3>3
        <3>5. QED
            BY <2>2, <2>3, <3>2, <3>3, <3>4
    <2>4. CASE b \notin m.from..m.upto
        BY <2>1, <2>2, <2>4
    <2>5. QED
        BY <2>3, <2>4
<1>4. bufs' \in [1..n -> Buffer]
    <2>1. \A b \in 1..n : bufs'[b] \in Buffer
        BY <1>3
    <2>2. PICK z : z = bufs'
        OBVIOUS
    <2>3. z = [b \in 1..n |-> z[b]]
        BY <1>1, <2>2
    <2>4. QED
        BY <2>1, <2>2, <2>3
<1>5. bufs' \in Seq(Buffer) /\ Len(bufs') = n
    BY <1>4
<1>6. Shape
    BY <1>1, <1>3, <1>5 DEF Shape
<1>7. PICK r : r = [m EXCEPT !.now = c]
    OBVIOUS
<1>8. m \in Mount
    BY WriteTypes, TailOfSeq
<1>9. r \in Mount
    BY <1>7, <1>8 DEF Mount
<1>10. PICK z : z = mounts'
    OBVIOUS
<1>11. /\ z \in Seq(Mount) /\ Len(z) = Len(mounts) /\ z[1] = r
       /\ \A i \in 2..Len(mounts) : z[i] = mounts[i]
    BY <1>7, <1>9, <1>10, WriteTypes, HeadReplaced
<1>12. QED
    BY <1>1, <1>3, <1>6, <1>7, <1>10, <1>11 DEF Pushed

\* MountLast: the last buffer of the mount is marked.
LastMarked(m) ==
    /\ Shape
    /\ \A b \in 1..Len(bufs) :
          /\ bufs'[b].left = bufs[b].left
          /\ bufs'[b].last <=> b = m.upto \/ bufs[b].last

LEMMA MarkEffect ==
    ASSUME Typed, NEW m, m.upto \in 1..Len(bufs),
           bufs' = [bufs EXCEPT ![m.upto].last = TRUE]
    PROVE  LastMarked(m)
<1>1. PICK q \in Seq(Buffer) : q = bufs
    BY WriteTypes
<1>2. PICK u \in 1..Len(q) : u = m.upto
    BY <1>1
<1>3. PICK y : y = [q[u] EXCEPT !.last = TRUE]
    OBVIOUS
<1>4. /\ q[u] \in Buffer /\ y \in Buffer /\ y.last = TRUE /\ y.kind = q[u].kind
      /\ y.part = q[u].part /\ y.of = q[u].of /\ y.left = q[u].left
    BY <1>2, <1>3, ElementOfSeq, LastSet
<1>5. PICK z : z = bufs'
    OBVIOUS
<1>6. z = [q EXCEPT ![u] = y]
    BY <1>1, <1>2, <1>3, <1>5
<1>7. /\ z \in Seq(Buffer) /\ Len(z) = Len(q)
      /\ \A b \in 1..Len(q) : z[b] = IF b = u THEN y ELSE q[b]
    BY <1>2, <1>4, <1>6, ExceptSeq
<1>8. y.last
    BY <1>4
<1>9. Shape
    BY <1>1, <1>4, <1>5, <1>7 DEF Shape
<1>10. QED
    BY <1>1, <1>2, <1>4, <1>5, <1>7, <1>8, <1>9 DEF LastMarked

\* WriteFrame: the buffer is used up.
UsedUp(b) ==
    /\ Shape
    /\ \A k \in 1..Len(bufs) :
          /\ bufs'[k].left = IF k = b THEN 0 ELSE bufs[k].left
          /\ bufs'[k].last <=> bufs[k].last

LEMMA UseEffect ==
    ASSUME Typed, NEW b \in 1..Len(bufs), bufs' = [bufs EXCEPT ![b].left = 0]
    PROVE  UsedUp(b)
<1>1. PICK q \in Seq(Buffer) : q = bufs
    BY WriteTypes
<1>2. b \in 1..Len(q)
    BY <1>1
<1>3. PICK y : y = [q[b] EXCEPT !.left = 0]
    OBVIOUS
<1>4. /\ q[b] \in Buffer /\ y \in Buffer /\ y.last = q[b].last /\ y.kind = q[b].kind
      /\ y.part = q[b].part /\ y.of = q[b].of /\ y.left = 0
    BY <1>2, <1>3, ElementOfSeq, LeftUsed
<1>5. PICK z : z = bufs'
    OBVIOUS
<1>6. z = [q EXCEPT ![b] = y]
    BY <1>1, <1>3, <1>5
<1>7. /\ z \in Seq(Buffer) /\ Len(z) = Len(q)
      /\ \A k \in 1..Len(q) : z[k] = IF k = b THEN y ELSE q[k]
    BY <1>2, <1>4, <1>6, ExceptSeq
<1>8. Shape
    BY <1>1, <1>4, <1>5, <1>7 DEF Shape
<1>9. ASSUME NEW k \in 1..Len(q)
      PROVE  z[k].left = (IF k = b THEN 0 ELSE q[k].left) /\ z[k].last = q[k].last
    BY <1>4, <1>7
<1>10. QED
    BY <1>1, <1>5, <1>8, <1>9 DEF UsedUp

-----------------------------------------------------------------------------
(* The line of a connection.                                               *)

\* z is what w was sent and then q.
IsLine(z, w, q, S) ==
    /\ z \in Seq(S) /\ Len(z) = Len(w) + Len(q)
    /\ Len(w) \in Nat /\ Len(q) \in Nat
    /\ \A i \in 1..Len(w) : z[i] = w[i].b
    /\ \A i \in (Len(w) + 1)..(Len(w) + Len(q)) : z[i] = q[i - Len(w)]
    /\ \A i \in 1..Len(q) : z[Len(w) + i] = q[i]

LEMMA LineOfTypes ==
    ASSUME NEW S, NEW w \in Seq([b : S, last : BOOLEAN]), NEW q \in Seq(S)
    PROVE  IsLine(LineOf(w, q), w, q, S)
<1>1. PICK l \in Nat : l = Len(w)
    BY LenProperties
<1>2. PICK n \in Nat : n = Len(q)
    BY LenProperties
<1>3. PICK z : z = LineOf(w, q)
    OBVIOUS
<1>4. z = [i \in 1..(l + n) |-> IF i <= l THEN w[i].b ELSE q[i - l]]
    BY <1>1, <1>2, <1>3 DEF LineOf
<1>5. ASSUME NEW i \in 1..l
      PROVE  w[i].b \in S
    <2>1. w[i] \in [b : S, last : BOOLEAN]
        BY <1>1, ElementOfSeq
    <2>2. QED
        BY <2>1
<1>6. \A i \in 1..n : q[i] \in S
    BY <1>2, ElementOfSeq
<1>7. \A i \in 1..l : i \in 1..(l + n) /\ i <= l
    BY <1>1, <1>2
<1>8. \A i \in (l + 1)..(l + n) : i \in 1..(l + n) /\ ~(i <= l) /\ i - l \in 1..n
    BY <1>1, <1>2
<1>9. \A i \in 1..l : z[i] = w[i].b
    BY <1>4, <1>7
<1>10. \A i \in (l + 1)..(l + n) : z[i] = q[i - l]
    BY <1>4, <1>8
<1>11. ASSUME NEW i \in 1..(l + n)
       PROVE  z[i] \in S
    <2>1. CASE i \in 1..l
        BY <1>5, <1>9, <2>1
    <2>2. CASE i \in (l + 1)..(l + n)
        BY <1>6, <1>8, <1>10, <2>2
    <2>3. QED
        BY <1>1, <1>2, <2>1, <2>2
<1>12. z \in [1..(l + n) -> S]
    BY <1>4, <1>11
<1>13. z \in Seq(S) /\ Len(z) = l + n
    <2>1. l + n \in Nat
        BY <1>1, <1>2
    <2>2. QED
        BY <1>12, <2>1
<1>14. ASSUME NEW i \in 1..n
       PROVE  z[l + i] = q[i]
    <2>1. l + i \in (l + 1)..(l + n) /\ (l + i) - l = i
        BY <1>1, <1>2
    <2>2. QED
        BY <1>10, <2>1
<1>15. QED
    BY <1>1, <1>2, <1>3, <1>9, <1>10, <1>13, <1>14 DEF IsLine

\* A buffer written leaves the queue and joins what was sent.
LEMMA LineOfWritten ==
    ASSUME NEW S, NEW w \in Seq([b : S, last : BOOLEAN]), NEW q \in Seq(S), q # <<>>,
           NEW f \in [b : S, last : BOOLEAN], f.b = Head(q)
    PROVE  LineOf(Append(w, f), Tail(q)) = LineOf(w, q)
<1>1. PICK l \in Nat : l = Len(w)
    BY LenProperties
<1>2. PICK n \in Nat : n = Len(q)
    BY LenProperties
<1>3. PICK t : t = Tail(q)
    OBVIOUS
<1>4. PICK v : v = Append(w, f)
    OBVIOUS
<1>5. /\ n > 0 /\ f.b = q[1] /\ t \in Seq(S) /\ Len(t) = n - 1
      /\ \A i \in 1..(n - 1) : t[i] = q[i + 1]
    BY <1>2, <1>3, TailOfSeq
<1>6. /\ v \in Seq([b : S, last : BOOLEAN]) /\ Len(v) = l + 1
      /\ \A i \in 1..l : v[i] = w[i]
      /\ v[l + 1] = f
    BY <1>1, <1>4, AppendProperties
<1>7. PICK y : y = LineOf(v, t)
    OBVIOUS
<1>8. PICK z : z = LineOf(w, q)
    OBVIOUS
<1>9. /\ y \in Seq(S) /\ Len(y) = l + n
      /\ \A i \in 1..(l + 1) : y[i] = v[i].b
      /\ \A i \in ((l + 1) + 1)..(l + n) : y[i] = t[i - (l + 1)]
    <2>1. IsLine(y, v, t, S)
        BY <1>5, <1>6, <1>7, LineOfTypes
    <2>2. Len(v) + Len(t) = l + n
        BY <1>1, <1>2, <1>5, <1>6
    <2>3. QED
        BY <1>6, <2>1, <2>2 DEF IsLine
<1>10. /\ z \in Seq(S) /\ Len(z) = l + n
       /\ \A i \in 1..l : z[i] = w[i].b
       /\ \A i \in (l + 1)..(l + n) : z[i] = q[i - l]
    <2>1. IsLine(z, w, q, S)
        BY <1>8, LineOfTypes
    <2>2. QED
        BY <1>1, <1>2, <2>1 DEF IsLine
<1>11. ASSUME NEW i \in 1..(l + n)
       PROVE  y[i] = z[i]
    <2>1. CASE i \in 1..l
        <3>1. i \in 1..(l + 1)
            BY <2>1
        <3>2. y[i] = v[i].b /\ v[i] = w[i] /\ z[i] = w[i].b
            BY <1>6, <1>9, <1>10, <2>1, <3>1
        <3>3. QED
            BY <3>2
    <2>2. CASE i = l + 1
        <3>1. z[i] = q[1]
            <4>1. i \in (l + 1)..(l + n) /\ i - l = 1
                BY <1>1, <1>2, <1>5, <2>2
            <4>2. QED
                BY <1>10, <4>1
        <3>2. QED
            BY <1>5, <1>6, <1>9, <2>2, <3>1
    <2>3. CASE i \in ((l + 1) + 1)..(l + n)
        <3>1. /\ i \in (l + 1)..(l + n) /\ i - (l + 1) \in 1..(n - 1)
              /\ (i - (l + 1)) + 1 = i - l
            BY <1>1, <1>2, <2>3
        <3>2. y[i] = t[i - (l + 1)]
            BY <1>9, <2>3
        <3>3. t[i - (l + 1)] = q[i - l]
            BY <1>5, <3>1
        <3>4. QED
            BY <1>10, <3>1, <3>2, <3>3
    <2>4. QED
        BY <1>1, <1>2, <2>1, <2>2, <2>3
<1>12. QED
    BY <1>3, <1>4, <1>7, <1>8, <1>9, <1>10, <1>11, SeqEqual

\* The queue p is q with from..upto pushed, the line y is z with the same.
LongerBy(q, p, z, y, from, upto, S) ==
    /\ p \in Seq(S) /\ Len(p) = Len(q) + (upto - from + 1)
    /\ \A i \in 1..Len(q) : p[i] = q[i]
    /\ \A i \in (Len(q) + 1)..(Len(q) + (upto - from + 1)) : p[i] \in from..upto
    /\ Len(y) = Len(z) + (upto - from + 1)
    /\ \A i \in 1..Len(z) : y[i] = z[i]
    /\ \A i \in (Len(z) + 1)..(Len(z) + (upto - from + 1)) :
          y[i] = from + (i - Len(z)) - 1

\* Buffers pushed come at the end.
LEMMA LineOfPushed ==
    ASSUME NEW S, NEW w \in Seq([b : S, last : BOOLEAN]), NEW q \in Seq(S),
           NEW from \in Nat, NEW upto \in Nat, from <= upto, from..upto \subseteq S
    PROVE  \A p : p = q \o [i \in 1..(upto - from + 1) |-> from + i - 1] =>
               LongerBy(q, p, LineOf(w, q), LineOf(w, p), from, upto, S)
<1>1. PICK d \in Nat : d = upto - from + 1
    OBVIOUS
<1>2. PICK r : r = [i \in 1..(upto - from + 1) |-> from + i - 1]
    OBVIOUS
<1>3. r = [i \in 1..d |-> from + i - 1]
    BY <1>1, <1>2
<1>4. \A i \in 1..d : from + i - 1 \in from..upto
    BY <1>1
<1>5. /\ r \in Seq(S) /\ Len(r) = d
      /\ \A i \in 1..d : r[i] = from + i - 1
    <2>1. \A i \in 1..d : r[i] = from + i - 1 /\ r[i] \in S
        BY <1>3, <1>4
    <2>2. r \in [1..d -> S]
        BY <1>3, <2>1
    <2>3. QED
        BY <2>1, <2>2
<1>6. PICK n \in Nat : n = Len(q)
    BY LenProperties
<1>7. PICK l \in Nat : l = Len(w)
    BY LenProperties
<1>8. PICK p : p = q \o r
    OBVIOUS
<1>9. /\ p \in Seq(S) /\ Len(p) = n + d
      /\ \A i \in 1..(n + d) : p[i] = IF i <= n THEN q[i] ELSE r[i - n]
    <2>1. /\ q \o r \in Seq(S) /\ Len(q \o r) = Len(q) + Len(r)
          /\ \A i \in 1..(Len(q) + Len(r)) :
                (q \o r)[i] = IF i <= Len(q) THEN q[i] ELSE r[i - Len(q)]
        BY <1>5, ConcatProperties
    <2>2. QED
        BY <1>5, <1>6, <1>8, <2>1
<1>10. \A i \in 1..n : p[i] = q[i]
    <2>1. \A i \in 1..n : i \in 1..(n + d) /\ i <= n
        OBVIOUS
    <2>2. QED
        BY <1>9, <2>1
<1>11. ASSUME NEW i \in (n + 1)..(n + d)
       PROVE  p[i] = from + (i - n) - 1 /\ p[i] \in from..upto
    <2>1. i \in 1..(n + d) /\ ~(i <= n) /\ i - n \in 1..d
        OBVIOUS
    <2>2. p[i] = r[i - n]
        BY <1>9, <2>1
    <2>3. QED
        BY <1>4, <1>5, <2>1, <2>2
<1>12. PICK z : z = LineOf(w, q)
    OBVIOUS
<1>13. PICK y : y = LineOf(w, p)
    OBVIOUS
<1>14. /\ Len(z) = l + n /\ \A i \in 1..l : z[i] = w[i].b
       /\ \A i \in (l + 1)..(l + n) : z[i] = q[i - l]
    <2>1. IsLine(z, w, q, S)
        BY <1>12, LineOfTypes
    <2>2. QED
        BY <1>6, <1>7, <2>1 DEF IsLine
<1>15. /\ Len(y) = l + (n + d) /\ \A i \in 1..l : y[i] = w[i].b
       /\ \A i \in (l + 1)..(l + (n + d)) : y[i] = p[i - l]
    <2>1. IsLine(y, w, p, S)
        BY <1>9, <1>13, LineOfTypes
    <2>2. QED
        BY <1>7, <1>9, <2>1 DEF IsLine
<1>16. ASSUME NEW i \in 1..(l + n)
       PROVE  y[i] = z[i]
    <2>1. CASE i \in 1..l
        BY <1>14, <1>15, <2>1
    <2>2. CASE i \in (l + 1)..(l + n)
        <3>1. i \in (l + 1)..(l + (n + d)) /\ i - l \in 1..n
            BY <2>2
        <3>2. QED
            BY <1>10, <1>14, <1>15, <2>2, <3>1
    <2>3. QED
        BY <2>1, <2>2
<1>17. ASSUME NEW i \in ((l + n) + 1)..((l + n) + d)
       PROVE  y[i] = from + (i - (l + n)) - 1
    <2>1. /\ i \in (l + 1)..(l + (n + d)) /\ i - l \in (n + 1)..(n + d)
          /\ (i - l) - n = i - (l + n)
        OBVIOUS
    <2>2. y[i] = p[i - l]
        BY <1>15, <2>1
    <2>3. p[i - l] = from + ((i - l) - n) - 1
        BY <1>11, <2>1
    <2>4. QED
        BY <2>1, <2>2, <2>3
<1>18. Len(y) = (l + n) + d
    BY <1>15
<1>19. QED
    <2>1. LongerBy(q, p, z, y, from, upto, S)
        BY <1>1, <1>6, <1>9, <1>10, <1>11, <1>14, <1>16, <1>17, <1>18 DEF LongerBy
    <2>2. QED
        BY <1>2, <1>8, <1>12, <1>13, <2>1

-----------------------------------------------------------------------------
(* The buffers of a message and the effect of a dispatch.                  *)

\* q is a message of p buffers, none written.
Message(q, p, n, kind) ==
    /\ p \in Nat /\ p > 0 /\ q \in Seq(Buffer) /\ Len(q) = p
    /\ \A i \in 1..p : q[i].kind = kind /\ q[i].part = i /\ q[i].of = p /\ q[i].left > 0

LEMMA BuffersOfMessage ==
    ASSUME NEW n \in 1..MaxRequests, NEW kind \in {"res", "noti"}, NEW size \in Nat
    PROVE  Message(NewBuffers(n, kind, size), PieceCount(size), n, kind)
<1>1. PICK l : l = Pieces(size)
    OBVIOUS
<1>2. PICK p \in Nat \ {0} : p = PieceCount(size)
    BY Counted
<1>3. l \in Seq(0..MaxLength) /\ Len(l) = p
    BY <1>1, <1>2, PiecesOfMessage
<1>4. PICK q : q = NewBuffers(n, kind, size)
    OBVIOUS
<1>5. q = [i \in 1..p |-> [req |-> n, kind |-> kind, part |-> i, of |-> p,
                           last |-> FALSE, left |-> FrameSize(l[i])]]
    BY <1>1, <1>3, <1>4 DEF NewBuffers
<1>6. \A i \in 1..p : FrameSize(l[i]) \in 1..Capacity
    BY <1>3, ElementOfSeq, SizeOfFrame
<1>7. \A i \in 1..p : q[i] \in Buffer
    BY <1>5, <1>6, Limits DEF Buffer
<1>8. q \in Seq(Buffer) /\ Len(q) = p
    BY <1>5, <1>7
<1>9. \A i \in 1..p : q[i].kind = kind /\ q[i].part = i /\ q[i].of = p /\ q[i].left > 0
    BY <1>5, <1>6, Limits
<1>10. QED
    BY <1>2, <1>4, <1>8, <1>9 DEF Message

\* Buffers from..upto of z are those of one message.
MessageAt(z, from, upto, kind) ==
    \A b \in from..upto : /\ z[b].kind = kind /\ z[b].part = b - from + 1
                          /\ z[b].of = upto - from + 1 /\ z[b].left > 0

\* The buffers of a message are made behind those there are.
LEMMA AppendMessage ==
    ASSUME NEW y \in Seq(Buffer), NEW q, NEW p, NEW n, NEW kind, Message(q, p, n, kind)
    PROVE  /\ y \o q \in Seq(Buffer) /\ Len(y \o q) = Len(y) + p
           /\ \A b \in 1..Len(y) : (y \o q)[b] = y[b]
           /\ MessageAt(y \o q, Len(y) + 1, Len(y) + p, kind)
<1>1. PICK l \in Nat : l = Len(y)
    BY LenProperties
<1>2. /\ p \in Nat /\ p > 0 /\ q \in Seq(Buffer) /\ Len(q) = p
      /\ \A i \in 1..p : q[i].kind = kind /\ q[i].part = i /\ q[i].of = p /\ q[i].left > 0
    BY DEF Message
<1>3. PICK z : z = y \o q
    OBVIOUS
<1>4. /\ z \in Seq(Buffer) /\ Len(z) = l + p
      /\ \A i \in 1..(l + p) : z[i] = IF i <= l THEN y[i] ELSE q[i - l]
    <2>1. /\ y \o q \in Seq(Buffer) /\ Len(y \o q) = Len(y) + Len(q)
          /\ \A i \in 1..(Len(y) + Len(q)) :
                (y \o q)[i] = IF i <= Len(y) THEN y[i] ELSE q[i - Len(y)]
        BY <1>2, ConcatProperties
    <2>2. QED
        BY <1>1, <1>2, <1>3, <2>1
<1>5. \A b \in 1..l : z[b] = y[b]
    <2>1. \A b \in 1..l : b \in 1..(l + p) /\ b <= l
        BY <1>2
    <2>2. QED
        BY <1>4, <2>1
<1>6. ASSUME NEW b \in (l + 1)..(l + p)
      PROVE  /\ z[b].kind = kind /\ z[b].part = b - (l + 1) + 1
             /\ z[b].of = (l + p) - (l + 1) + 1 /\ z[b].left > 0
    <2>1. b \in 1..(l + p) /\ ~(b <= l) /\ b - l \in 1..p
        BY <1>2
    <2>2. PICK i \in 1..p : i = b - l
        BY <2>1
    <2>3. z[b] = q[i]
        BY <1>4, <2>1, <2>2
    <2>4. b - (l + 1) + 1 = i /\ (l + p) - (l + 1) + 1 = p
        BY <1>2, <2>2
    <2>5. QED
        BY <1>2, <2>3, <2>4
<1>7. MessageAt(z, l + 1, l + p, kind)
    BY <1>6 DEF MessageAt
<1>8. QED
    BY <1>1, <1>3, <1>4, <1>5, <1>7

\* DispatchJob: p buffers for the answer to c and k for the notification,
\* none if no connection is notified.
Dispatched(c, p, k) ==
    /\ p \in Nat /\ p > 0 /\ k \in Nat
    /\ bufs' \in Seq(Buffer) /\ Len(bufs') = Len(bufs) + p + k
    /\ \A b \in 1..Len(bufs) : bufs'[b] = bufs[b]
    /\ MessageAt(bufs', Len(bufs) + 1, Len(bufs) + p, "res")
    /\ MessageAt(bufs', Len(bufs) + p + 1, Len(bufs) + p + k, "noti")
    /\ mounts' \in Seq(Mount) /\ Len(mounts') = IF k > 0 THEN 2 ELSE 1
    /\ mounts'[1] = [to |-> {c}, now |-> NoConn,
                     from |-> Len(bufs) + 1, upto |-> Len(bufs) + p]
    /\ k > 0 =>
          /\ Conn \ {c} # {}
          /\ mounts'[2] = [to |-> Conn \ {c}, now |-> NoConn,
                           from |-> Len(bufs) + p + 1, upto |-> Len(bufs) + p + k]

LEMMA DispatchEffect ==
    ASSUME Typed, Reading, DispatchJob
    PROVE  \E c \in Conn : \E p, k : Dispatched(c, p, k)
<1>1. PICK j : j = Head(jobs)
    OBVIOUS
<1>2. jobs # <<>> /\ j \in [conn : Conn, frames : Seq(Frame)] /\ WholeJob(j)
    <2>1. jobs # <<>>
        BY DEF DispatchJob
    <2>2. PICK S : S = [conn : Conn, frames : Seq(Frame)]
        OBVIOUS
    <2>3. jobs \in Seq(S)
        BY <2>2, ReadTypes
    <2>4. j = jobs[1] /\ 1 \in 1..Len(jobs) /\ j \in S
        BY <1>1, <2>1, <2>3, TailOfSeq
    <2>5. QED
        BY <2>1, <2>2, <2>4 DEF Reading
<1>3. PICK c \in Conn : c = j.conn
    BY <1>2
<1>4. PICK n : n = Head(j.frames).req
    OBVIOUS
<1>5. n \in 1..MaxRequests
    <2>1. PICK i \in 1..Len(reqs) : j.frames = RequestFrames(i, reqs[i])
        BY <1>2 DEF WholeJob
    <2>2. i \in 1..MaxRequests /\ reqs[i] \in Request
        BY <2>1, ReadTypes, ElementOfSeq, FrameAssumption
    <2>3. PICK r \in Request : r = reqs[i]
        BY <2>2
    <2>4. PICK q : q = RequestFrames(i, r)
        OBVIOUS
    <2>5. q \in Seq(Frame) /\ Len(q) \in Nat \ {0} /\ q[1].req = i
        BY <2>2, <2>4, FramesOfRequest
    <2>6. q # <<>>
        BY <2>5, NonEmpty
    <2>7. Head(q) = q[1]
        BY <2>5, <2>6, TailOfSeq
    <2>8. QED
        BY <1>4, <2>1, <2>2, <2>3, <2>4, <2>5, <2>7
<1>6. PICK size \in AnswerSizes, noti \in NotiSizes, notify \in BOOLEAN :
          /\ notify => Conn # {c}
          /\ LET res == NewBuffers(n, "res", size)
                 more == IF notify THEN NewBuffers(n, "noti", noti) ELSE <<>>
                 first == Len(bufs) + Len(res)
             IN /\ bufs' = bufs \o res \o more
                /\ mounts' =
                     <<[to |-> {c}, now |-> NoConn,
                        from |-> Len(bufs) + 1, upto |-> first]>> \o
                     (IF notify
                      THEN <<[to |-> Conn \ {c}, now |-> NoConn,
                              from |-> first + 1, upto |-> Len(bufs')]>>
                      ELSE <<>>)
    BY <1>1, <1>3, <1>4 DEF DispatchJob
<1>7. size \in Nat /\ noti \in Nat
    BY Limits
<1>8. PICK res : res = NewBuffers(n, "res", size)
    OBVIOUS
<1>9. PICK p \in Nat : p = PieceCount(size)
    BY <1>7, Counted
<1>10. Message(res, p, n, "res")
    BY <1>5, <1>7, <1>8, <1>9, BuffersOfMessage
<1>11. PICK y \in Seq(Buffer) : y = bufs
    BY WriteTypes
<1>12. PICK l \in Nat : l = Len(y)
    BY LenProperties
<1>13. PICK x : x = y \o res
    OBVIOUS
<1>14. /\ x \in Seq(Buffer) /\ Len(x) = l + p /\ p > 0
       /\ \A b \in 1..l : x[b] = y[b]
       /\ MessageAt(x, l + 1, l + p, "res")
    <2>1. p > 0
        BY <1>10 DEF Message
    <2>2. QED
        BY <1>10, <1>12, <1>13, <2>1, AppendMessage
<1>15. Len(res) = p
    BY <1>10 DEF Message
<1>16. PICK a \in Mount : a = [to |-> {c}, now |-> NoConn, from |-> l + 1, upto |-> l + p]
    <2>1. [to |-> {c}, now |-> NoConn, from |-> l + 1, upto |-> l + p] \in Mount
        BY DEF Mount
    <2>2. QED
        BY <2>1
<1>17. CASE ~notify
    <2>1. bufs' = x \o <<>> /\ mounts' = <<a>> \o <<>>
        BY <1>6, <1>8, <1>11, <1>12, <1>13, <1>15, <1>16, <1>17
    <2>2. bufs' = x /\ mounts' = <<a>>
        <3>1. <<a>> \in Seq(Mount)
            OBVIOUS
        <3>2. QED
            BY <1>14, <2>1, <3>1, ConcatEmptySeq
    <2>3. mounts' \in Seq(Mount) /\ Len(mounts') = 1 /\ mounts'[1] = a
        BY <2>2
    <2>4. MessageAt(x, l + p + 1, l + p + 0, "noti")
        BY DEF MessageAt
    <2>5. Dispatched(c, p, 0)
        BY <1>11, <1>12, <1>14, <1>16, <2>2, <2>3, <2>4 DEF Dispatched
    <2>6. QED
        BY <2>5
<1>18. CASE notify
    <2>1. PICK k \in Nat : k = PieceCount(noti)
        BY <1>7, Counted
    <2>2. PICK more : more = NewBuffers(n, "noti", noti)
        OBVIOUS
    <2>3. Message(more, k, n, "noti")
        BY <1>5, <1>7, <2>1, <2>2, BuffersOfMessage
    <2>4. PICK z : z = x \o more
        OBVIOUS
    <2>5. bufs' = z
        BY <1>6, <1>8, <1>11, <1>13, <1>18, <2>2, <2>4
    <2>6. /\ z \in Seq(Buffer) /\ Len(z) = (l + p) + k /\ k > 0
          /\ \A b \in 1..(l + p) : z[b] = x[b]
          /\ MessageAt(z, (l + p) + 1, (l + p) + k, "noti")
        <3>1. k > 0
            BY <2>3 DEF Message
        <3>2. QED
            BY <1>14, <2>3, <2>4, <3>1, AppendMessage
    <2>7. \A b \in 1..l : z[b] = y[b]
        <3>1. \A b \in 1..l : b \in 1..(l + p)
            OBVIOUS
        <3>2. QED
            BY <1>14, <2>6, <3>1
    <2>8. MessageAt(z, l + 1, l + p, "res")
        <3>1. \A b \in (l + 1)..(l + p) : b \in 1..(l + p)
            OBVIOUS
        <3>2. QED
            BY <1>14, <2>6, <3>1 DEF MessageAt
    <2>9. PICK e \in Mount : e = [to |-> Conn \ {c}, now |-> NoConn,
                                  from |-> l + p + 1, upto |-> l + p + k]
        <3>1. [to |-> Conn \ {c}, now |-> NoConn,
               from |-> l + p + 1, upto |-> l + p + k] \in Mount
            BY DEF Mount
        <3>2. QED
            BY <3>1
    <2>10. mounts' = <<a>> \o <<e>>
        BY <1>6, <1>8, <1>11, <1>12, <1>15, <1>16, <1>18, <2>5, <2>6, <2>9
    <2>11. mounts' \in Seq(Mount) /\ Len(mounts') = 2 /\ mounts'[1] = a /\ mounts'[2] = e
        BY <2>10
    <2>12. Conn \ {c} # {}
        BY <1>6, <1>18
    <2>13. Dispatched(c, p, k)
        BY <1>11, <1>12, <1>14, <1>16, <2>5, <2>6, <2>7, <2>8, <2>9, <2>11, <2>12 DEF Dispatched
    <2>14. QED
        BY <2>13
<1>19. QED
    BY <1>17, <1>18

-----------------------------------------------------------------------------
(* Writing: what every step keeps.                                         *)

ReadTyped ==
    /\ reqs \in Seq(Request) /\ Len(reqs) <= MaxRequests
    /\ up \in [Conn -> Seq(Frame)] /\ vec \in [Conn -> Seq(Frame)]
    /\ stalled \in [Conn -> BOOLEAN]
    /\ served \in [Conn -> BOOLEAN] /\ failed \in [Conn -> BOOLEAN]
    /\ jobs \in Seq([conn : Conn, frames : Seq(Frame)])

WriteTyped ==
    /\ mounts \in Seq(Mount) /\ mutex \in Conn \cup {NoConn} /\ bufs \in Seq(Buffer)
    /\ wq \in [Conn -> Seq(1..Len(bufs))]
    /\ wire \in [Conn -> Seq([b : 1..Len(bufs), last : BOOLEAN])]

LEMMA TypedParts == ASSUME Typed PROVE ReadTyped /\ WriteTyped
BY DEF Typed, TypeOK, ReadTyped, WriteTyped, Request, Mount

LEMMA TypedPartsNext == ASSUME ReadTyped', WriteTyped' PROVE Typed'
BY DEF Typed, TypeOK, ReadTyped, WriteTyped, Request, Mount

LEMMA LineTypes ==
    ASSUME Typed, NEW c \in Conn
    PROVE  IsLine(Line(c), wire[c], wq[c], 1..Len(bufs))
<1>1. PICK S : S = 1..Len(bufs)
    OBVIOUS
<1>2. PICK w \in Seq([b : S, last : BOOLEAN]) : w = wire[c]
    BY <1>1, WriteTypes
<1>3. PICK q \in Seq(S) : q = wq[c]
    BY <1>1, WriteTypes
<1>4. IsLine(LineOf(w, q), w, q, S)
    BY LineOfTypes
<1>5. QED
    BY <1>1, <1>2, <1>3, <1>4 DEF Line

LEMMA LineTypesNext ==
    ASSUME Typed', NEW c \in Conn
    PROVE  IsLine(Line(c)', wire'[c], wq'[c], 1..Len(bufs'))
<1>1. PICK S : S = 1..Len(bufs')
    OBVIOUS
<1>2. PICK w \in Seq([b : S, last : BOOLEAN]) : w = wire'[c]
    BY <1>1 DEF Typed, TypeOK
<1>3. PICK q \in Seq(S) : q = wq'[c]
    BY <1>1 DEF Typed, TypeOK
<1>4. IsLine(LineOf(w, q), w, q, S)
    BY LineOfTypes
<1>5. QED
    BY <1>1, <1>2, <1>3, <1>4 DEF Line

LEMMA QueueInLine ==
    ASSUME Typed, NEW c \in Conn
    PROVE  /\ \A i \in 1..Len(wq[c]) : \E h \in 1..Len(Line(c)) : Line(c)[h] = wq[c][i]
           /\ \A i \in 1..Len(wire[c]) : i \in 1..Len(Line(c)) /\ Line(c)[i] = wire[c][i].b
<1>1. PICK z : z = Line(c)
    OBVIOUS
<1>2. PICK l : l = Len(wire[c])
    OBVIOUS
<1>3. PICK n : n = Len(wq[c])
    OBVIOUS
<1>4. /\ Len(z) = l + n /\ l \in Nat /\ n \in Nat
      /\ \A i \in 1..l : z[i] = wire[c][i].b
      /\ \A i \in 1..n : z[l + i] = wq[c][i]
    BY <1>1, <1>2, <1>3, LineTypes DEF IsLine
<1>5. \A i \in 1..n : l + i \in 1..Len(z)
    BY <1>4
<1>6. \A i \in 1..l : i \in 1..Len(z)
    BY <1>4
<1>7. QED
    BY <1>1, <1>2, <1>3, <1>4, <1>5, <1>6

\* The buffers there are keep what they were made with.
Kept ==
    /\ bufs' \in Seq(Buffer) /\ Len(bufs) <= Len(bufs')
    /\ \A b \in 1..Len(bufs) : /\ bufs'[b].kind = bufs[b].kind
                                /\ bufs'[b].part = bufs[b].part
                                /\ bufs'[b].of = bufs[b].of

LEMMA ShapeKept == ASSUME Typed, Shape PROVE Kept
BY WriteTypes DEF Shape, Kept

LEMMA LineStays ==
    ASSUME Typed, Kept, NEW q \in Seq(1..Len(bufs)), LineInOrder(q)
    PROVE  LineInOrder(q)'
<1>1. PICK n \in Nat : n = Len(q)
    BY LenProperties
<1>2. ASSUME NEW i \in 1..n
      PROVE  /\ bufs'[q[i]].part = bufs[q[i]].part
             /\ Complete(q[i])' <=> Complete(q[i])
    <2>1. q[i] \in 1..Len(bufs)
        BY <1>1, ElementOfSeq
    <2>2. QED
        BY <2>1 DEF Kept, Complete
<1>3. \A i, k \in 1..n : i < k => q[i] < q[k]
    BY <1>1 DEF LineInOrder
<1>4. \A i \in 1..n : bufs'[q[i]].part > 1 => i > 1 /\ q[i - 1] = q[i] - 1
    BY <1>1, <1>2 DEF LineInOrder
<1>5. ASSUME NEW i \in 2..n, bufs'[q[i]].part = 1
      PROVE  Complete(q[i - 1])'
    <2>1. i \in 1..n /\ i - 1 \in 1..n
        BY <1>1
    <2>2. Complete(q[i - 1])
        BY <1>1, <1>2, <1>5, <2>1 DEF LineInOrder
    <2>3. QED
        BY <1>2, <2>1, <2>2
<1>6. ASSUME n > 0
      PROVE  Complete(q[n])'
    <2>1. n \in 1..n
        BY <1>6
    <2>2. Complete(q[n])
        BY <1>1, <1>6 DEF LineInOrder
    <2>3. QED
        BY <1>2, <2>1, <2>2
<1>7. QED
    BY <1>1, <1>3, <1>4, <1>5, <1>6 DEF LineInOrder

\* Lines nothing is added to.
LinesStay == \A c \in Conn : Line(c)' = Line(c)
LinesInOrder == \A c \in Conn : LineInOrder(Line(c))

LEMMA LinesStayInOrder ==
    ASSUME Typed, Kept, LinesStay, LinesInOrder, OneOwner
    PROVE  LinesInOrder' /\ OneOwner'
<1>1. ASSUME NEW c \in Conn
      PROVE  LineInOrder(Line(c))'
    <2>1. PICK q : q = Line(c)
        OBVIOUS
    <2>2. q \in Seq(1..Len(bufs)) /\ LineInOrder(q)
        BY <2>1, LineTypes DEF IsLine, LinesInOrder
    <2>3. LineInOrder(q)'
        BY <2>2, LineStays
    <2>4. QED
        BY <2>1, <2>3 DEF LinesStay
<1>2. ASSUME NEW c \in Conn, NEW x \in Conn,
             NEW i \in 1..Len(Line(c)), NEW k \in 1..Len(Line(x)),
             Line(c)[i] = Line(x)[k], bufs'[Line(c)[i]].kind = "res"
      PROVE  c = x
    <2>1. Line(c)[i] \in 1..Len(bufs)
        BY LineTypes, ElementOfSeq DEF IsLine
    <2>2. QED
        BY <1>2, <2>1 DEF OneOwner, Kept
<1>3. OneOwner'
    BY <1>2 DEF OneOwner, LinesStay
<1>4. QED
    BY <1>1, <1>3 DEF LinesInOrder

\* The buffers of a mount.
LEMMA MountRange ==
    ASSUME Typed, NEW m \in Mount, MountOfMessage(m)
    PROVE  /\ m.from \in Nat /\ m.upto \in Nat /\ m.from <= m.upto
           /\ m.from..m.upto \subseteq 1..Len(bufs)
           /\ m.from \in m.from..m.upto /\ m.upto \in m.from..m.upto
<1>1. m.from \in Nat /\ m.upto \in Nat
    BY DEF Mount
<1>2. 1 <= m.from /\ m.from <= m.upto /\ m.upto <= Len(bufs)
    BY DEF MountOfMessage
<1>3. Len(bufs) \in Nat
    BY WriteTypes
<1>4. QED
    BY <1>1, <1>2, <1>3

LEMMA MountStays ==
    ASSUME Typed, Kept, NEW m \in Mount, MountOfMessage(m)
    PROVE  MountOfMessage(m)' /\ bufs'[m.from].kind = bufs[m.from].kind
<1>1. m.from \in Nat /\ m.upto \in Nat
    BY DEF Mount
<1>2. m.from..m.upto \subseteq 1..Len(bufs) /\ m.from \in m.from..m.upto
    BY MountRange
<1>3. Len(bufs) \in Nat /\ Len(bufs') \in Nat
    BY WriteTypes, LenProperties DEF Kept
<1>4. bufs'[m.from].kind = bufs[m.from].kind
    BY <1>2 DEF Kept
<1>5. \A b \in m.from..m.upto :
          /\ bufs'[b].part = b - m.from + 1 /\ bufs'[b].of = m.upto - m.from + 1
          /\ bufs'[b].kind = bufs'[m.from].kind
    BY <1>2, <1>4 DEF Kept, MountOfMessage
<1>6. m.upto <= Len(bufs')
    BY <1>1, <1>3 DEF Kept, MountOfMessage
<1>7. QED
    BY <1>4, <1>5, <1>6 DEF MountOfMessage

\* The mounts go on as they were.
LEMMA MountsStay ==
    ASSUME Typed, Kept, MountsInOrder, mounts' = mounts, mutex' = mutex
    PROVE  MountsInOrder'
<1>1. \A i \in 1..Len(mounts) : mounts[i] \in Mount
    BY WriteTypes, ElementOfSeq
<1>2. ASSUME NEW i \in 1..Len(mounts)
      PROVE  MountOfMessage(mounts[i])' /\ bufs'[mounts[i].from].kind = bufs[mounts[i].from].kind
    <2>1. PICK m \in Mount : m = mounts[i]
        BY <1>1
    <2>2. MountOfMessage(m)
        BY <2>1 DEF MountsInOrder
    <2>3. MountOfMessage(m)' /\ bufs'[m.from].kind = bufs[m.from].kind
        BY <2>2, MountStays
    <2>4. QED
        BY <2>1, <2>3 DEF MountOfMessage
<1>3. QED
    BY <1>2 DEF MountsInOrder

LEMMA NotYetStays ==
    ASSUME Typed, Kept, LinesStay, MountsInOrder, NotYet, mounts' = mounts
    PROVE  NotYet'
<1>1. ASSUME NEW i \in 1..Len(mounts), NEW c \in Conn, Ahead(mounts[i], c)'
      PROVE  Ahead(mounts[i], c)
    <2>1. PICK m \in Mount : m = mounts[i]
        BY WriteTypes, ElementOfSeq
    <2>2. MountOfMessage(m)
        BY <2>1 DEF MountsInOrder
    <2>3. bufs'[m.from].kind = bufs[m.from].kind
        BY <2>2, MountStays
    <2>4. QED
        BY <1>1, <2>1, <2>3 DEF Ahead
<1>2. QED
    BY <1>1 DEF NotYet, LinesStay

-----------------------------------------------------------------------------
(* Writing: WriteFrame.                                                    *)

\* What WriteFrame does to the queue and to what was sent, b the buffer taken.
Taken(c, b) ==
    /\ wq[c] # <<>> /\ b = wq[c][1] /\ b \in 1..Len(bufs) /\ bufs[b].left > 0
    /\ mutex # c
    /\ UsedUp(b)
    /\ wire' = [wire EXCEPT ![c] = Append(wire[c], [b |-> b, last |-> bufs[b].last])]
    /\ wq' = [wq EXCEPT ![c] = Tail(wq[c])]
    /\ UNCHANGED <<reqs, up, vec, stalled, served, failed, jobs, mounts, mutex>>

LEMMA WriteEffect ==
    ASSUME Typed, NEW c \in Conn, WriteFrame(c)
    PROVE  \E b : Taken(c, b)
<1>1. PICK q \in Seq(1..Len(bufs)) : q = wq[c]
    BY WriteTypes
<1>2. PICK b : b = Head(q)
    OBVIOUS
<1>3. /\ wq[c] # <<>> /\ mutex # c /\ bufs[b].left > 0
      /\ wire' = [wire EXCEPT ![c] = Append(wire[c], [b |-> b, last |-> bufs[b].last])]
      /\ bufs' = [bufs EXCEPT ![b].left = 0]
      /\ wq' = [wq EXCEPT ![c] = Tail(wq[c])]
    BY <1>1, <1>2 DEF WriteFrame, PopBuffer
<1>4. b \in 1..Len(bufs) /\ b = q[1]
    BY <1>1, <1>2, <1>3, TailOfSeq
<1>5. UsedUp(b)
    BY <1>3, <1>4, UseEffect
<1>6. UNCHANGED <<reqs, up, vec, stalled, served, failed, jobs, mounts, mutex>>
    BY DEF WriteFrame, readVars
<1>7. QED
    BY <1>1, <1>3, <1>4, <1>5, <1>6 DEF Taken

\* What was sent and the queue of c after it.
LEMMA TakenQueues ==
    ASSUME Typed, NEW c \in Conn, NEW b, Taken(c, b)
    PROVE  /\ \A x \in Conn : x # c => wire'[x] = wire[x] /\ wq'[x] = wq[x]
           /\ wire'[c] \in Seq([b : 1..Len(bufs), last : BOOLEAN])
           /\ Len(wire'[c]) = Len(wire[c]) + 1 /\ Len(wire[c]) \in Nat
           /\ \A i \in 1..Len(wire[c]) : wire'[c][i] = wire[c][i]
           /\ wire'[c][Len(wire[c]) + 1] = [b |-> b, last |-> bufs[b].last]
           /\ wq'[c] \in Seq(1..Len(bufs)) /\ Len(wq'[c]) = Len(wq[c]) - 1
           /\ Len(wq[c]) \in Nat
           /\ \A i \in 1..(Len(wq[c]) - 1) : wq'[c][i] = wq[c][i + 1]
           /\ Line(c)' = Line(c)
<1>1. PICK S : S = 1..Len(bufs)
    OBVIOUS
<1>2. PICK F : F = [b : S, last : BOOLEAN]
    OBVIOUS
<1>3. PICK w \in Seq(F) : w = wire[c]
    BY <1>1, <1>2, WriteTypes
<1>4. PICK q \in Seq(S) : q = wq[c]
    BY <1>1, WriteTypes
<1>5. PICK f : f = [b |-> b, last |-> bufs[b].last]
    OBVIOUS
<1>6. b \in S /\ q # <<>> /\ b = q[1]
    BY <1>1, <1>4 DEF Taken
<1>7. f \in F
    <2>1. bufs[b] \in Buffer
        BY <1>1, <1>6, WriteTypes, ElementOfSeq
    <2>2. bufs[b].last \in BOOLEAN
        BY <2>1 DEF Buffer
    <2>3. QED
        BY <1>2, <1>5, <1>6, <2>2
<1>8. wire'[c] = Append(w, f) /\ wq'[c] = Tail(q)
    BY <1>3, <1>4, <1>5, WriteTypes DEF Taken
<1>9. \A x \in Conn : x # c => wire'[x] = wire[x] /\ wq'[x] = wq[x]
    BY WriteTypes DEF Taken
<1>10. /\ Append(w, f) \in Seq(F) /\ Len(Append(w, f)) = Len(w) + 1 /\ Len(w) \in Nat
       /\ \A i \in 1..Len(w) : Append(w, f)[i] = w[i]
       /\ Append(w, f)[Len(w) + 1] = f
    BY <1>7, AppendProperties, LenProperties
<1>11. /\ Tail(q) \in Seq(S) /\ Len(Tail(q)) = Len(q) - 1 /\ Len(q) \in Nat
       /\ \A i \in 1..(Len(q) - 1) : Tail(q)[i] = q[i + 1]
    BY <1>6, TailOfSeq
<1>12. LineOf(Append(w, f), Tail(q)) = LineOf(w, q)
    <2>1. f.b = Head(q)
        BY <1>5, <1>6, TailOfSeq
    <2>2. QED
        BY <1>2, <1>6, <1>7, <2>1, LineOfWritten
<1>13. Line(c)' = Line(c)
    BY <1>3, <1>4, <1>8, <1>12 DEF Line
<1>14. PICK v : v = Append(w, f)
    OBVIOUS
<1>15. PICK t : t = Tail(q)
    OBVIOUS
<1>16. QED
    BY <1>1, <1>2, <1>3, <1>4, <1>5, <1>8, <1>9, <1>10, <1>11, <1>13, <1>14, <1>15

\* Every entry of a queue was there before, and every one of what was sent
\* but the last of c.
LEMMA TakenEntries ==
    ASSUME Typed, NEW c \in Conn, NEW b, Taken(c, b)
    PROVE  /\ \A x \in Conn : \A i \in 1..Len(wq'[x]) :
                 \E h \in 1..Len(wq[x]) : wq'[x][i] = wq[x][h]
           /\ \A x \in Conn : \A i \in 1..Len(wire[x]) :
                 i \in 1..Len(wire'[x]) /\ wire'[x][i] = wire[x][i]
           /\ \A x \in Conn : \A i \in 1..Len(wire'[x]) :
                 i \in 1..Len(wire[x]) \/ (x = c /\ i = Len(wire[c]) + 1)
           /\ Len(wire[c]) + 1 \in 1..Len(wire'[c])
           /\ wire'[c][Len(wire[c]) + 1].b = b
           /\ wire'[c][Len(wire[c]) + 1].last = bufs[b].last
<1>1. \A x \in Conn : x # c => wire'[x] = wire[x] /\ wq'[x] = wq[x]
    BY TakenQueues
<1>2. /\ Len(wire'[c]) = Len(wire[c]) + 1 /\ Len(wire[c]) \in Nat
      /\ \A i \in 1..Len(wire[c]) : wire'[c][i] = wire[c][i]
    BY TakenQueues
<1>3. wire'[c][Len(wire[c]) + 1] = [b |-> b, last |-> bufs[b].last]
    BY TakenQueues
<1>4. /\ Len(wq'[c]) = Len(wq[c]) - 1 /\ Len(wq[c]) \in Nat
      /\ \A i \in 1..(Len(wq[c]) - 1) : wq'[c][i] = wq[c][i + 1]
    BY TakenQueues
<1>5. ASSUME NEW i \in 1..Len(wq'[c])
      PROVE  \E h \in 1..Len(wq[c]) : wq'[c][i] = wq[c][h]
    <2>1. i \in 1..(Len(wq[c]) - 1) /\ i + 1 \in 1..Len(wq[c])
        BY <1>4
    <2>2. QED
        BY <1>4, <2>1
<1>6. \A x \in Conn : \A i \in 1..Len(wq'[x]) :
          \E h \in 1..Len(wq[x]) : wq'[x][i] = wq[x][h]
    BY <1>1, <1>5
<1>7. \A i \in 1..Len(wire[c]) : i \in 1..Len(wire'[c])
    BY <1>2
<1>8. \A i \in 1..Len(wire'[c]) : i \in 1..Len(wire[c]) \/ i = Len(wire[c]) + 1
    BY <1>2
<1>9. Len(wire[c]) + 1 \in 1..Len(wire'[c])
    BY <1>2
<1>10. QED
    BY <1>1, <1>2, <1>3, <1>6, <1>7, <1>8, <1>9

LEMMA WriteFrameTyped ==
    ASSUME Typed, NEW c \in Conn, NEW b, Taken(c, b)
    PROVE  Typed'
<1>1. ReadTyped'
    BY TypedParts DEF ReadTyped, Taken
<1>2. Len(bufs') = Len(bufs) /\ bufs' \in Seq(Buffer)
    BY DEF Taken, UsedUp, Shape
<1>3. wq' \in [Conn -> Seq(1..Len(bufs))]
    BY TakenQueues, WriteTypes DEF Taken
<1>4. wire' \in [Conn -> Seq([b : 1..Len(bufs), last : BOOLEAN])]
    BY TakenQueues, WriteTypes DEF Taken
<1>5. mounts' \in Seq(Mount) /\ mutex' \in Conn \cup {NoConn}
    BY WriteTypes DEF Taken
<1>6. WriteTyped'
    BY <1>2, <1>3, <1>4, <1>5 DEF WriteTyped
<1>7. QED
    BY <1>1, <1>6, TypedPartsNext

LEMMA WriteFrameWriting ==
    ASSUME Typed, Writing, NEW c \in Conn, NEW b, Taken(c, b)
    PROVE  Writing'
<1>1. /\ LinesInOrder /\ MountsInOrder /\ NotYet /\ Marks /\ OneOwner
      /\ UsedWasWritten /\ Dropped
    BY DEF Writing, LinesInOrder
<1>2. Shape /\ Kept
    BY ShapeKept DEF Taken, UsedUp
<1>3. LinesStay
    <2>1. ASSUME NEW x \in Conn, x # c
          PROVE  Line(x)' = Line(x)
        BY <2>1, TakenQueues DEF Line
    <2>2. QED
        BY <2>1, TakenQueues DEF LinesStay
<1>4. LinesInOrder' /\ OneOwner'
    BY <1>1, <1>2, <1>3, LinesStayInOrder
<1>5. mounts' = mounts /\ mutex' = mutex /\ UNCHANGED <<served, failed, stalled>>
    BY DEF Taken
<1>6. MountsInOrder' /\ NotYet'
    BY <1>1, <1>2, <1>3, <1>5, MountsStay, NotYetStays
<1>7. /\ Len(bufs') = Len(bufs)
      /\ \A k \in 1..Len(bufs) :
            /\ bufs'[k].kind = bufs[k].kind
            /\ bufs'[k].last <=> bufs[k].last
            /\ bufs'[k].left = IF k = b THEN 0 ELSE bufs[k].left
            /\ Complete(k)' <=> Complete(k)
    BY DEF Taken, UsedUp, Shape, Complete
<1>8. Marks'
    <2>1. ASSUME mounts # <<>>, mounts[1].now # NoConn,
                 NEW k \in mounts[1].from..mounts[1].upto
          PROVE  ~bufs'[k].last
        <3>1. ~bufs[k].last
            BY <1>1, <2>1 DEF Marks
        <3>2. k \in 1..Len(bufs)
            <4>1. mounts[1] \in Mount /\ 1 \in 1..Len(mounts)
                BY <2>1, WriteTypes, TailOfSeq
            <4>2. PICK m \in Mount : m = mounts[1]
                BY <4>1
            <4>3. MountOfMessage(m)
                BY <1>1, <4>1, <4>2 DEF MountsInOrder
            <4>4. k \in m.from..m.upto
                BY <2>1, <4>2
            <4>5. QED
                BY <4>3, <4>4, MountRange
        <3>3. QED
            BY <1>7, <3>1, <3>2
    <2>2. ASSUME NEW x \in Conn, NEW i \in 1..Len(wq'[x]),
                 NEW k, k = wq'[x][i], bufs'[k].kind = "res"
          PROVE  Marking(x, k)' \/ (bufs'[k].last <=> Complete(k)')
        <3>1. PICK h \in 1..Len(wq[x]) : k = wq[x][h]
            BY <2>2, TakenEntries
        <3>2. k \in 1..Len(bufs)
            BY <3>1, WriteTypes, ElementOfSeq
        <3>3. Marking(x, k) \/ (bufs[k].last <=> Complete(k))
            BY <1>1, <1>7, <2>2, <3>1, <3>2, SMTT(30) DEF Marks
        <3>4. Marking(x, k)' <=> Marking(x, k)
            BY <1>5 DEF Marking
        <3>5. QED
            BY <1>7, <3>2, <3>3, <3>4
    <2>3. ASSUME NEW x \in Conn, NEW i \in 1..Len(wire'[x]),
                 NEW k, k = wire'[x][i].b, bufs'[k].kind = "res"
          PROVE  wire'[x][i].last <=> Complete(k)'
        <3>1. CASE x = c /\ i = Len(wire[c]) + 1
            <4>1. k = b /\ wire'[x][i].last = bufs[b].last
                BY <2>3, <3>1, TakenEntries
            <4>2. b \in 1..Len(bufs) /\ b = wq[c][1] /\ 1 \in 1..Len(wq[c])
                BY WriteTypes, TailOfSeq DEF Taken
            <4>3. ~Marking(c, b)
                BY <1>1 DEF Marking, MountsInOrder, Taken
            <4>4. bufs[b].last <=> Complete(b)
                BY <1>1, <1>7, <2>3, <4>1, <4>2, <4>3 DEF Marks
            <4>5. QED
                BY <1>7, <4>1, <4>2, <4>4
        <3>2. CASE i \in 1..Len(wire[x])
            <4>1. wire'[x][i] = wire[x][i]
                BY <3>2, TakenEntries
            <4>2. k = wire[x][i].b
                BY <2>3, <4>1
            <4>3. wire[x][i] \in [b : 1..Len(bufs), last : BOOLEAN]
                BY <3>2, WriteTypes, ElementOfSeq
            <4>4. k \in 1..Len(bufs)
                BY <4>2, <4>3
            <4>5. wire[x][i].last <=> Complete(k)
                BY <1>1, <1>7, <2>3, <3>2, <4>2, <4>4, SMTT(30) DEF Marks
            <4>6. QED
                BY <1>7, <4>1, <4>4, <4>5
        <3>3. QED
            BY <2>3, <3>1, <3>2, TakenEntries
    <2>4. QED
        BY <1>5, <2>1, <2>2, <2>3 DEF Marks, Marking, Complete
<1>9. UsedWasWritten'
    <2>1. ASSUME NEW k \in 1..Len(bufs), bufs'[k].left = 0
          PROVE  Used(k)'
        <3>1. CASE k = b
            <4>1. wire'[c][Len(wire[c]) + 1].b = b /\ Len(wire[c]) + 1 \in 1..Len(wire'[c])
                BY TakenEntries
            <4>2. QED
                BY <3>1, <4>1 DEF Used
        <3>2. CASE k # b
            <4>1. Used(k)
                BY <1>1, <1>7, <2>1, <3>2 DEF UsedWasWritten
            <4>2. PICK x \in Conn : \E i \in 1..Len(wire[x]) : wire[x][i].b = k
                BY <4>1 DEF Used
            <4>3. PICK i \in 1..Len(wire[x]) : wire[x][i].b = k
                BY <4>2
            <4>4. i \in 1..Len(wire'[x]) /\ wire'[x][i] = wire[x][i]
                BY TakenEntries
            <4>5. QED
                BY <4>3, <4>4 DEF Used
        <3>3. QED
            BY <3>1, <3>2
    <2>2. QED
        BY <1>7, <2>1 DEF UsedWasWritten
<1>10. Dropped'
    <2>1. ASSUME NEW x \in Conn, ~served[x], ~stalled[x], ~failed[x]
          PROVE  wq'[x] # <<>> /\ bufs'[Head(wq'[x])].left = 0
        <3>1. wq[x] # <<>> /\ bufs[Head(wq[x])].left = 0
            BY <1>1, <2>1 DEF Dropped
        <3>2. Head(wq[x]) = wq[x][1] /\ Head(wq[x]) \in 1..Len(bufs)
            BY <3>1, WriteTypes, TailOfSeq
        <3>3. x # c
            BY <3>1, <3>2 DEF Taken
        <3>4. wq'[x] = wq[x]
            BY <3>3, TakenQueues
        <3>5. QED
            BY <1>7, <3>1, <3>2, <3>4
    <2>2. QED
        BY <1>5, <2>1 DEF Dropped
<1>11. QED
    BY <1>4, <1>6, <1>8, <1>9, <1>10 DEF Writing, LinesInOrder

-----------------------------------------------------------------------------
(* Writing: a mount is done.                                               *)

\* The mount for x is done, or x was not to be found, and the lines stay.
Finished(x) ==
    /\ mounts # <<>> /\ x \in mounts[1].to /\ mounts[1].now \in {x, NoConn}
    /\ mounts' \in Seq(Mount) /\ MountDone(x) /\ mutex' = NoConn
    /\ UNCHANGED <<reqs, up, vec, stalled, served, failed, jobs, wq, wire>>

\* The first mount and its buffers.
LEMMA FirstMount ==
    ASSUME Typed, MountsInOrder, mounts # <<>>
    PROVE  /\ mounts[1] \in Mount /\ MountOfMessage(mounts[1])
           /\ 1 \in 1..Len(mounts) /\ Len(mounts) \in {1, 2}
<1>1. mounts[1] \in Mount /\ Len(mounts) \in Nat /\ Len(mounts) > 0
    BY WriteTypes, TailOfSeq
<1>2. Len(mounts) <= 2
    BY DEF MountsInOrder
<1>3. 1 \in 1..Len(mounts) /\ Len(mounts) \in {1, 2}
    <2>1. PICK n \in Nat : n = Len(mounts)
        BY <1>1
    <2>2. n > 0 /\ n <= 2
        BY <1>1, <1>2, <2>1
    <2>3. n = 1 \/ n = 2
        BY <2>2
    <2>4. QED
        BY <2>1, <2>3
<1>4. MountOfMessage(mounts[1])
    BY <1>3 DEF MountsInOrder
<1>5. QED
    BY <1>1, <1>3, <1>4

\* What is left to mount after a step.
Second(a, e) ==
    /\ MountOfMessage(e)' /\ a.upto < e.from /\ e.now = NoConn
    /\ bufs'[e.from].kind = "noti"

LEMMA MountsNext ==
    ASSUME NEW a, mounts' # <<>>, mounts'[1] = a, MountOfMessage(a)', mutex' = a.now,
           \/ Len(mounts') = 1
           \/ Len(mounts') = 2 /\ \E e : mounts'[2] = e /\ Second(a, e)
    PROVE  MountsInOrder'
<1>1. CASE Len(mounts') = 1
    <2>1. ASSUME NEW i \in 1..Len(mounts'), NEW k, k = mounts'[i]
          PROVE  MountOfMessage(k)'
        <3>1. i = 1
            BY <1>1, <2>1
        <3>2. k = a
            BY <2>1, <3>1
        <3>3. QED
            BY <3>2
    <2>2. QED
        BY <1>1, <2>1 DEF MountsInOrder, MountOfMessage
<1>2. CASE Len(mounts') = 2 /\ \E e : mounts'[2] = e /\ Second(a, e)
    <2>1. PICK e : mounts'[2] = e /\ Second(a, e)
        BY <1>2
    <2>2. ASSUME NEW i \in 1..Len(mounts'), NEW k, k = mounts'[i]
          PROVE  MountOfMessage(k)'
        <3>1. i = 1 \/ i = 2
            BY <1>2, <2>2
        <3>2. k = a \/ k = e
            BY <2>1, <2>2, <3>1
        <3>3. CASE k = a
            BY <3>3
        <3>4. CASE k = e
            BY <2>1, <3>4 DEF Second
        <3>5. QED
            BY <3>2, <3>3, <3>4
    <2>3. /\ mounts'[1].upto < mounts'[2].from
          /\ mounts'[2].now = NoConn /\ bufs'[mounts'[2].from].kind = "noti"
        BY <2>1 DEF Second
    <2>4. mutex' = IF mounts' = <<>> THEN NoConn ELSE mounts'[1].now
        OBVIOUS
    <2>5. Len(mounts') <= 2
        BY <1>2
    <2>6. \A i \in 1..Len(mounts') : MountOfMessage(mounts[i])'
        BY <2>2 DEF MountOfMessage
    <2>7. QED
        BY <2>3, <2>4, <2>5, <2>6 DEF MountsInOrder
<1>3. QED
    BY <1>1, <1>2

\* The second mount stays the second one.
LEMMA SecondStays ==
    ASSUME Typed, Kept, MountsInOrder, NEW a, Len(mounts) = 2, a.upto = mounts[1].upto
    PROVE  \E e \in Mount : mounts[2] = e /\ Second(a, e)
<1>1. 2 \in 1..Len(mounts)
    OBVIOUS
<1>2. PICK e \in Mount : e = mounts[2]
    BY <1>1, WriteTypes, ElementOfSeq
<1>3. MountOfMessage(e)
    BY <1>1, <1>2 DEF MountsInOrder
<1>4. MountOfMessage(e)' /\ bufs'[e.from].kind = bufs[e.from].kind
    BY <1>3, MountStays
<1>5. QED
    BY <1>2, <1>4 DEF MountsInOrder, Second

LEMMA FinishedMounts ==
    ASSUME Typed, Kept, MountsInOrder, NEW x \in Conn, Finished(x)
    PROVE  MountsInOrder' /\ (mounts' # <<>> => mounts'[1].now = NoConn)
<1>1. PICK m \in Mount : m = mounts[1]
    BY FirstMount DEF Finished
<1>2. /\ MountOfMessage(m) /\ Len(mounts) \in {1, 2} /\ x \in m.to
    BY <1>1, FirstMount DEF Finished
<1>3. MountOfMessage(m)' /\ bufs'[m.from].kind = bufs[m.from].kind
    BY <1>2, MountStays
<1>4. Len(mounts') \in Nat /\ (mounts' = <<>> <=> Len(mounts') = 0) /\ mutex' = NoConn
    BY NonEmpty DEF Finished
<1>5. CASE m.to = {x}
    <2>1. /\ Len(mounts') = Len(mounts) - 1
          /\ \A i \in 1..(Len(mounts) - 1) : mounts'[i] = mounts[i + 1]
        BY <1>1, <1>5 DEF Finished, MountDone
    <2>2. CASE Len(mounts) = 1
        <3>1. mounts' = <<>>
            BY <1>4, <2>1, <2>2
        <3>2. QED
            BY <1>4, <3>1 DEF MountsInOrder
    <2>3. CASE Len(mounts) = 2
        <3>1. PICK e \in Mount : mounts[2] = e /\ Second(m, e)
            BY <1>1, <2>3, SecondStays
        <3>2. mounts'[1] = e /\ Len(mounts') = 1 /\ mounts' # <<>>
            BY <1>4, <2>1, <2>3, <3>1
        <3>3. MountOfMessage(e)' /\ e.now = NoConn
            BY <3>1 DEF Second
        <3>4. QED
            BY <1>4, <3>2, <3>3, MountsNext
    <2>4. QED
        BY <1>2, <2>2, <2>3
<1>6. CASE m.to # {x}
    <2>1. PICK r : r = Remaining(m, x)
        OBVIOUS
    <2>2. /\ r.from = m.from /\ r.upto = m.upto /\ r.to = m.to \ {x} /\ r.now = NoConn
        BY <2>1 DEF Remaining, Mount
    <2>3. /\ mounts'[1] = r /\ Len(mounts') = Len(mounts) /\ mounts' # <<>>
          /\ \A i \in 2..Len(mounts) : mounts'[i] = mounts[i]
        BY <1>1, <1>2, <1>4, <1>6, <2>1 DEF Finished, MountDone
    <2>4. r.to # {}
        BY <1>2, <1>6, <2>2
    <2>5. MountOfMessage(r)'
        BY <1>3, <2>2, <2>4 DEF MountOfMessage
    <2>6. CASE Len(mounts) = 1
        BY <1>4, <2>2, <2>3, <2>5, <2>6, MountsNext
    <2>7. CASE Len(mounts) = 2
        <3>1. PICK e \in Mount : mounts[2] = e /\ Second(r, e)
            BY <1>1, <2>2, <2>7, SecondStays
        <3>2. mounts'[2] = e
            BY <2>3, <2>7, <3>1
        <3>3. QED
            BY <1>4, <2>2, <2>3, <2>5, <2>7, <3>1, <3>2, MountsNext
    <2>8. QED
        BY <1>2, <2>6, <2>7, <2>2, <2>3
<1>7. QED
    BY <1>5, <1>6

LEMMA FinishedNotYet ==
    ASSUME Typed, Kept, LinesStay, MountsInOrder, NotYet, NEW x \in Conn, Finished(x)
    PROVE  NotYet'
<1>1. PICK m \in Mount : m = mounts[1]
    BY FirstMount DEF Finished
<1>2. MountOfMessage(m) /\ 1 \in 1..Len(mounts) /\ x \in m.to /\ Len(mounts) \in Nat
    BY <1>1, FirstMount, WriteTypes DEF Finished
<1>3. bufs'[m.from].kind = bufs[m.from].kind
    BY <1>2, MountStays
<1>4. ASSUME NEW i \in 1..Len(mounts'), NEW c \in Conn, NEW a, a = mounts'[i],
             a.now # c, c \in a.to \/ bufs'[a.from].kind = "res"
      PROVE  \A k \in 1..Len(Line(c)) : Line(c)[k] < a.from
    <2>1. CASE m.to = {x}
        <3>1. PICK h \in 1..Len(mounts) : a = mounts[h]
            <4>1. i + 1 \in 1..Len(mounts) /\ a = mounts[i + 1]
                BY <1>1, <1>2, <1>4, <2>1 DEF Finished, MountDone
            <4>2. QED
                BY <4>1
        <3>2. a \in Mount /\ MountOfMessage(a)
            BY <3>1, WriteTypes, ElementOfSeq DEF MountsInOrder
        <3>3. bufs'[a.from].kind = bufs[a.from].kind
            BY <3>2, MountStays
        <3>4. QED
            BY <1>4, <3>1, <3>3 DEF NotYet, Ahead
    <2>2. CASE m.to # {x}
        <3>1. CASE i = 1
            <4>1. a = Remaining(m, x)
                BY <1>1, <1>4, <2>2, <3>1 DEF Finished, MountDone
            <4>2. a.from = m.from /\ a.to = m.to \ {x}
                BY <4>1 DEF Remaining, Mount
            <4>3. CASE bufs'[a.from].kind = "res"
                <5>1. \A y, z \in m.to : y = z
                    BY <1>2, <1>3, <4>2, <4>3 DEF MountOfMessage
                <5>2. QED
                    BY <1>2, <2>2, <5>1
            <4>4. CASE c \in a.to
                <5>1. m.now # c /\ c \in m.to
                    BY <1>1, <4>2, <4>4, FrameAssumption DEF Finished
                <5>2. QED
                    BY <1>1, <1>2, <4>2, <5>1 DEF NotYet, Ahead
            <4>5. QED
                BY <1>4, <4>3, <4>4
        <3>2. CASE i # 1
            <4>1. i \in 2..Len(mounts) /\ i \in 1..Len(mounts)
                BY <1>1, <1>2, <2>2, <3>2 DEF Finished, MountDone
            <4>2. a = mounts[i]
                BY <1>1, <1>4, <2>2, <4>1 DEF Finished, MountDone
            <4>3. a \in Mount /\ MountOfMessage(a)
                BY <4>1, <4>2, WriteTypes, ElementOfSeq DEF MountsInOrder
            <4>4. bufs'[a.from].kind = bufs[a.from].kind
                BY <4>3, MountStays
            <4>5. QED
                BY <1>4, <4>1, <4>2, <4>4 DEF NotYet, Ahead
        <3>3. QED
            BY <3>1, <3>2
    <2>3. QED
        BY <2>1, <2>2
<1>5. ASSUME NEW i \in 1..Len(mounts'), NEW c \in Conn, Ahead(mounts[i], c)'
      PROVE  \A k \in 1..Len(Line(c)) : Line(c)[k] < mounts'[i].from
    <2>1. PICK a : a = mounts'[i]
        OBVIOUS
    <2>2. a.now # c /\ (c \in a.to \/ bufs'[a.from].kind = "res")
        BY <1>5, <2>1 DEF Ahead
    <2>3. QED
        BY <1>4, <2>1, <2>2
<1>6. QED
    BY <1>5 DEF NotYet, LinesStay

\* What a step that only finishes a mount leaves of the rest.
LEMMA FinishedLines ==
    ASSUME Typed, NEW x \in Conn, Finished(x)
    PROVE  LinesStay
BY DEF Finished, LinesStay, Line

LEMMA FinishedTyped ==
    ASSUME Typed, Shape, NEW x \in Conn, Finished(x)
    PROVE  Typed'
<1>1. ReadTyped'
    BY TypedParts DEF ReadTyped, Finished
<1>2. WriteTyped'
    BY WriteTypes DEF WriteTyped, Finished, Shape
<1>3. QED
    BY <1>1, <1>2, TypedPartsNext

LEMMA FinishedUse ==
    ASSUME Typed, Shape, \A b \in 1..Len(bufs) : bufs'[b].left = bufs[b].left,
           UsedWasWritten, Dropped, NEW x \in Conn, Finished(x)
    PROVE  UsedWasWritten' /\ Dropped'
<1>1. UNCHANGED <<served, failed, stalled, wq, wire>>
    BY DEF Finished
<1>2. UsedWasWritten'
    BY <1>1 DEF UsedWasWritten, Used, Shape
<1>3. ASSUME NEW c \in Conn, ~served[c], ~stalled[c], ~failed[c]
      PROVE  wq[c] # <<>> /\ bufs'[Head(wq[c])].left = 0
    <2>1. wq[c] # <<>> /\ bufs[Head(wq[c])].left = 0
        BY <1>3 DEF Dropped
    <2>2. Head(wq[c]) \in 1..Len(bufs)
        BY <2>1, WriteTypes, TailOfSeq
    <2>3. QED
        BY <2>1, <2>2
<1>4. Dropped'
    BY <1>1, <1>3 DEF Dropped
<1>5. QED
    BY <1>2, <1>4

\* MountNobody: no buffer changes.
LEMMA NobodyEffect ==
    ASSUME Typed, NEW c \in Conn, MountsInOrder, MountNobody(c)
    PROVE  Finished(c) /\ bufs' = bufs /\ Shape /\ Kept /\ mounts[1].now = NoConn
<1>1. /\ mounts # <<>> /\ c \in mounts[1].to /\ mounts[1].now = NoConn
    BY WriteTypes, TailOfSeq DEF MountNobody
<1>2. /\ mounts' = Mounted(c)
      /\ UNCHANGED <<reqs, up, vec, stalled, served, failed, jobs, wq, wire, bufs, mutex>>
    BY DEF MountNobody, readVars, writeVars
<1>3. mounts' \in Seq(Mount) /\ MountDone(c)
    BY <1>1, <1>2, MountedEffect
<1>4. mutex' = NoConn
    BY <1>1, <1>2 DEF MountsInOrder
<1>5. Shape
    BY <1>2, WriteTypes DEF Shape
<1>6. QED
    BY <1>1, <1>2, <1>3, <1>4, <1>5, ShapeKept DEF Finished

LEMMA NobodyWriting ==
    ASSUME Typed, Writing, NEW c \in Conn, MountNobody(c)
    PROVE  Typed' /\ Writing'
<1>1. /\ LinesInOrder /\ MountsInOrder /\ NotYet /\ Marks /\ OneOwner
      /\ UsedWasWritten /\ Dropped
    BY DEF Writing, LinesInOrder
<1>2. Finished(c) /\ bufs' = bufs /\ Shape /\ Kept /\ mounts[1].now = NoConn
    BY <1>1, NobodyEffect
<1>3. LinesInOrder' /\ OneOwner'
    BY <1>1, <1>2, FinishedLines, LinesStayInOrder
<1>4. MountsInOrder' /\ (mounts' # <<>> => mounts'[1].now = NoConn) /\ NotYet'
    BY <1>1, <1>2, FinishedLines, FinishedMounts, FinishedNotYet
<1>5. UsedWasWritten' /\ Dropped'
    BY <1>1, <1>2, FinishedUse
<1>6. Marks'
    <2>1. \A x \in Conn, k \in 1..Len(bufs) : ~Marking(x, k)
        BY <1>2, FrameAssumption DEF Marking
    <2>2. wq' = wq /\ wire' = wire
        BY <1>2 DEF Finished
    <2>3. ASSUME NEW x \in Conn, NEW i \in 1..Len(wq[x]), bufs[wq[x][i]].kind = "res"
          PROVE  bufs[wq[x][i]].last <=> Complete(wq[x][i])
        <3>1. wq[x][i] \in 1..Len(bufs)
            BY WriteTypes, ElementOfSeq
        <3>2. QED
            BY <1>1, <2>1, <2>3, <3>1 DEF Marks
    <2>4. QED
        BY <1>1, <1>2, <1>4, <2>2, <2>3 DEF Marks, Complete
<1>7. QED
    BY <1>2, <1>3, <1>4, <1>5, <1>6, FinishedTyped DEF Writing, LinesInOrder

\* MountLast: the last buffer of the mount is marked.
LEMMA LastEffect ==
    ASSUME Typed, MountsInOrder, MountLast
    PROVE  \E c \in Conn : \E m \in Mount :
               /\ m = mounts[1] /\ m.now = c /\ MountOfMessage(m)
               /\ Finished(c) /\ LastMarked(m)
<1>1. mounts # <<>>
    BY DEF MountLast
<1>2. PICK m \in Mount : m = mounts[1]
    BY <1>1, FirstMount
<1>3. m = Head(mounts)
    BY <1>1, <1>2, WriteTypes, TailOfSeq
<1>4. /\ m.now # NoConn /\ bufs' = [bufs EXCEPT ![m.upto].last = TRUE]
      /\ mounts' = Mounted(m.now) /\ mutex' = NoConn
      /\ UNCHANGED <<reqs, up, vec, stalled, served, failed, jobs, wq, wire>>
    BY <1>3 DEF MountLast, readVars
<1>5. MountOfMessage(m)
    BY <1>1, <1>2, FirstMount
<1>6. PICK c : c = m.now
    OBVIOUS
<1>7. c \in m.to /\ c \in Conn
    BY <1>4, <1>5, <1>6 DEF MountOfMessage, Mount
<1>8. mounts' \in Seq(Mount) /\ MountDone(c)
    BY <1>1, <1>4, <1>6, MountedEffect
<1>9. Finished(c)
    BY <1>1, <1>2, <1>4, <1>6, <1>7, <1>8 DEF Finished
<1>10. LastMarked(m)
    BY <1>4, <1>5, MountRange, MarkEffect
<1>11. QED
    BY <1>2, <1>5, <1>6, <1>7, <1>9, <1>10

LEMMA LastWriting ==
    ASSUME Typed, Writing, MountLast
    PROVE  Typed' /\ Writing'
<1>1. /\ LinesInOrder /\ MountsInOrder /\ NotYet /\ Marks /\ OneOwner
      /\ UsedWasWritten /\ Dropped
    BY DEF Writing, LinesInOrder
<1>2. PICK c \in Conn, m \in Mount :
          /\ m = mounts[1] /\ m.now = c /\ MountOfMessage(m)
          /\ Finished(c) /\ LastMarked(m)
    BY <1>1, LastEffect
<1>3. Shape /\ Kept /\ \A b \in 1..Len(bufs) : bufs'[b].left = bufs[b].left
    BY <1>2, ShapeKept DEF LastMarked
<1>4. LinesInOrder' /\ OneOwner'
    BY <1>1, <1>2, <1>3, FinishedLines, LinesStayInOrder
<1>5. MountsInOrder' /\ (mounts' # <<>> => mounts'[1].now = NoConn) /\ NotYet'
    BY <1>1, <1>2, <1>3, FinishedLines, FinishedMounts, FinishedNotYet
<1>6. UsedWasWritten' /\ Dropped'
    BY <1>1, <1>2, <1>3, FinishedUse
<1>7. \A b \in 1..Len(bufs) : /\ bufs'[b].kind = bufs[b].kind
                              /\ Complete(b)' <=> Complete(b)
                              /\ bufs'[b].last <=> b = m.upto \/ bufs[b].last
    BY <1>2 DEF LastMarked, Shape, Complete
<1>8. wq' = wq /\ wire' = wire /\ mounts # <<>>
    BY <1>2 DEF Finished
<1>9. ASSUME NEW x \in Conn, NEW i \in 1..Len(wq[x]), NEW k, k = wq[x][i],
             bufs'[k].kind = "res"
      PROVE  bufs'[k].last <=> Complete(k)'
    <2>1. k \in 1..Len(bufs) /\ bufs[k].kind = "res"
        BY <1>7, <1>9, WriteTypes, ElementOfSeq
    <2>2. CASE Marking(x, k)
        <3>1. k \in m.from..m.upto /\ ~bufs[k].last
            BY <1>1, <1>2, <1>8, <2>2, FrameAssumption DEF Marking, Marks
        <3>2. Complete(k) <=> k = m.upto
            <4>1. bufs[k].part = k - m.from + 1 /\ bufs[k].of = m.upto - m.from + 1
                BY <1>2, <3>1 DEF MountOfMessage
            <4>2. QED
                BY <1>2, <3>1, <4>1, MountRange DEF Complete
        <3>3. QED
            BY <1>7, <2>1, <3>1, <3>2
    <2>3. CASE ~Marking(x, k)
        <3>1. bufs[k].last <=> Complete(k)
            BY <1>1, <1>9, <2>1, <2>3 DEF Marks
        <3>2. ASSUME k = m.upto
              PROVE  FALSE
            <4>1. k \in m.from..m.upto /\ m.from \in Nat /\ m.upto \in Nat
                BY <1>2, <3>2, MountRange
            <4>2. m.now # x
                BY <1>2, <1>8, <2>3, <4>1 DEF Marking
            <4>3. bufs[m.from].kind = "res"
                BY <1>2, <2>1, <4>1 DEF MountOfMessage
            <4>4. 1 \in 1..Len(mounts)
                BY <1>1, <1>8, FirstMount
            <4>5. \A h \in 1..Len(Line(x)) : Line(x)[h] < m.from
                BY <1>1, <1>2, <4>2, <4>3, <4>4 DEF NotYet, Ahead
            <4>6. \E h \in 1..Len(Line(x)) : Line(x)[h] = k
                BY <1>9, QueueInLine
            <4>7. QED
                BY <4>1, <4>5, <4>6
        <3>3. QED
            BY <1>7, <2>1, <3>1, <3>2
    <2>4. QED
        BY <2>2, <2>3
<1>10. ASSUME NEW x \in Conn, NEW i \in 1..Len(wire[x]), NEW k, k = wire[x][i].b,
              bufs'[k].kind = "res"
       PROVE  wire[x][i].last <=> Complete(k)'
    <2>1. wire[x][i] \in [b : 1..Len(bufs), last : BOOLEAN]
        BY WriteTypes, ElementOfSeq
    <2>2. k \in 1..Len(bufs)
        BY <1>10, <2>1
    <2>3. wire[x][i].last <=> Complete(k)
        BY <1>1, <1>7, <1>10, <2>2 DEF Marks
    <2>4. QED
        BY <1>7, <2>2, <2>3
<1>11. Marks'
    BY <1>5, <1>8, <1>9, <1>10 DEF Marks, Complete
<1>12. QED
    BY <1>2, <1>3, <1>4, <1>5, <1>6, <1>11, FinishedTyped DEF Writing, LinesInOrder

-----------------------------------------------------------------------------
(* Writing: MountFrames.                                                   *)

\* MountFrames for c of mount m.
Pushing(c, m) ==
    /\ mounts # <<>> /\ m = mounts[1] /\ m.now = NoConn /\ c \in m.to
    /\ MountOfMessage(m)
    /\ Pushed(c, m)
    /\ wq' = [wq EXCEPT ![c] = wq[c] \o [i \in 1..(m.upto - m.from + 1) |-> m.from + i - 1]]
    /\ mutex' = c
    /\ UNCHANGED <<reqs, up, vec, stalled, served, failed, jobs, wire>>

LEMMA MountFramesEffect ==
    ASSUME Typed, MountsInOrder, NEW c \in Conn, MountFrames(c)
    PROVE  \E m \in Mount : Pushing(c, m)
<1>1. mounts # <<>>
    BY DEF MountFrames
<1>2. PICK m \in Mount : m = mounts[1]
    BY <1>1, FirstMount
<1>3. m = Head(mounts)
    BY <1>1, <1>2, WriteTypes, TailOfSeq
<1>4. /\ m.now = NoConn /\ c \in m.to
      /\ bufs' = [b \in 1..Len(bufs) |->
                     IF b \in m.from..m.upto THEN [bufs[b] EXCEPT !.last = FALSE]
                     ELSE bufs[b]]
      /\ wq' = [wq EXCEPT ![c] = wq[c] \o [i \in 1..(m.upto - m.from + 1) |-> m.from + i - 1]]
      /\ mounts' = <<[m EXCEPT !.now = c]>> \o Tail(mounts)
      /\ mutex' = c
      /\ UNCHANGED <<reqs, up, vec, stalled, served, failed, jobs, wire>>
    BY <1>3 DEF MountFrames, readVars, Holds
<1>5. Pushed(c, m)
    BY <1>1, <1>2, <1>4, PushEffect
<1>6. MountOfMessage(m)
    BY <1>1, <1>2, FirstMount
<1>7. QED
    BY <1>1, <1>2, <1>4, <1>5, <1>6 DEF Pushing

\* The queue and the line of c after it.
Longer(c, m) ==
    LongerBy(wq[c], wq'[c], Line(c), Line(c)', m.from, m.upto, 1..Len(bufs))

LEMMA PushingLonger ==
    ASSUME Typed, NEW c \in Conn, NEW m \in Mount, Pushing(c, m)
    PROVE  /\ Longer(c, m)
           /\ \A x \in Conn : x # c => wq'[x] = wq[x] /\ Line(x)' = Line(x)
<1>1. PICK S : S = 1..Len(bufs)
    OBVIOUS
<1>2. PICK w \in Seq([b : S, last : BOOLEAN]) : w = wire[c]
    BY <1>1, WriteTypes
<1>3. PICK q \in Seq(S) : q = wq[c]
    BY <1>1, WriteTypes
<1>4. PICK from \in Nat : from = m.from
    BY MountRange DEF Pushing
<1>5. PICK upto \in Nat : upto = m.upto
    BY MountRange DEF Pushing
<1>6. from <= upto /\ from..upto \subseteq S
    BY <1>1, <1>4, <1>5, MountRange DEF Pushing
<1>7. PICK r : r = [i \in 1..(upto - from + 1) |-> from + i - 1]
    OBVIOUS
<1>8. PICK p : p = q \o r
    OBVIOUS
<1>9. wq'[c] = p /\ wire'[c] = w
    <2>1. wq'[c] = wq[c] \o [i \in 1..(m.upto - m.from + 1) |-> m.from + i - 1]
        BY WriteTypes DEF Pushing
    <2>2. QED
        BY <1>2, <1>3, <1>4, <1>5, <1>7, <1>8, <2>1 DEF Pushing
<1>10. PICK z : z = LineOf(w, q)
    OBVIOUS
<1>11. PICK y : y = LineOf(w, p)
    OBVIOUS
<1>12. LongerBy(q, p, z, y, from, upto, S)
    BY <1>6, <1>7, <1>8, <1>10, <1>11, LineOfPushed
<1>13. Line(c) = z /\ Line(c)' = y
    BY <1>2, <1>3, <1>9, <1>10, <1>11 DEF Line
<1>14. Longer(c, m)
    BY <1>1, <1>3, <1>4, <1>5, <1>9, <1>12, <1>13 DEF Longer
<1>15. \A x \in Conn : x # c => wq'[x] = wq[x] /\ wire'[x] = wire[x]
    BY WriteTypes DEF Pushing
<1>16. \A x \in Conn : x # c => Line(x)' = Line(x)
    BY <1>15 DEF Line
<1>17. QED
    BY <1>14, <1>15, <1>16

\* What was on the line comes before the mount.
LEMMA LineBefore ==
    ASSUME Typed, NotYet, NEW c \in Conn, NEW m \in Mount, Pushing(c, m),
           NEW x \in Conn, x \in m.to \/ bufs[m.from].kind = "res"
    PROVE  \A k \in 1..Len(Line(x)) : Line(x)[k] < m.from
<1>1. 1 \in 1..Len(mounts) /\ m = mounts[1] /\ m.now # x
    BY WriteTypes, TailOfSeq, FrameAssumption DEF Pushing
<1>2. QED
    BY <1>1 DEF NotYet, Ahead

\* An entry of the line was there, or is one of those pushed.
LEMMA LongerEntries ==
    ASSUME Typed, NEW c \in Conn, NEW m \in Mount, Pushing(c, m), NEW x \in Conn,
           NEW y, y = Line(x)', NEW i \in 1..Len(y)
    PROVE  \/ i \in 1..Len(Line(x)) /\ y[i] = Line(x)[i]
           \/ x = c /\ y[i] \in m.from..m.upto
<1>1. CASE x # c
    BY <1>1, PushingLonger
<1>2. CASE x = c
    <2>1. PICK from \in Nat : from = m.from
        BY MountRange DEF Pushing
    <2>2. PICK upto \in Nat : upto = m.upto
        BY MountRange DEF Pushing
    <2>3. from <= upto
        BY <2>1, <2>2, MountRange DEF Pushing
    <2>4. PICK q : q = Line(c)
        OBVIOUS
    <2>5. PICK n \in Nat : n = Len(q)
        BY <2>4, LineTypes, LenProperties DEF IsLine
    <2>6. /\ Len(y) = n + (upto - from + 1)
          /\ \A k \in 1..n : y[k] = q[k]
          /\ \A k \in (n + 1)..(n + (upto - from + 1)) : y[k] = from + (k - n) - 1
        BY <1>2, <2>1, <2>2, <2>4, <2>5, PushingLonger DEF Longer, LongerBy
    <2>7. i \in 1..n \/ i \in (n + 1)..(n + (upto - from + 1))
        BY <2>3, <2>6
    <2>8. CASE i \in 1..n
        BY <1>2, <2>4, <2>5, <2>6, <2>8
    <2>9. CASE i \in (n + 1)..(n + (upto - from + 1))
        <3>1. y[i] = from + (i - n) - 1
            BY <2>6, <2>9
        <3>2. y[i] \in from..upto
            BY <2>3, <2>9, <3>1
        <3>3. QED
            BY <1>2, <2>1, <2>2, <3>2
    <2>10. QED
        BY <2>7, <2>8, <2>9
<1>3. QED
    BY <1>1, <1>2

LEMMA LongerQueue ==
    ASSUME Typed, NEW c \in Conn, NEW m \in Mount, Pushing(c, m),
           NEW i \in 1..Len(wq'[c])
    PROVE  i \in 1..Len(wq[c]) \/ wq'[c][i] \in m.from..m.upto
<1>1. PICK from \in Nat : from = m.from
    BY MountRange DEF Pushing
<1>2. PICK upto \in Nat : upto = m.upto
    BY MountRange DEF Pushing
<1>3. from <= upto
    BY <1>1, <1>2, MountRange DEF Pushing
<1>4. PICK q, p : q = wq[c] /\ p = wq'[c]
    OBVIOUS
<1>5. PICK n \in Nat : n = Len(q)
    BY <1>4, WriteTypes, LenProperties
<1>6. /\ Len(p) = n + (upto - from + 1)
      /\ \A k \in (n + 1)..(n + (upto - from + 1)) : p[k] \in from..upto
    BY <1>1, <1>2, <1>4, <1>5, PushingLonger DEF Longer, LongerBy
<1>7. i \in 1..n \/ i \in (n + 1)..(n + (upto - from + 1))
    BY <1>3, <1>4, <1>6
<1>8. QED
    BY <1>1, <1>2, <1>4, <1>5, <1>6, <1>7

LEMMA LongerInOrder ==
    ASSUME Typed, NEW m \in Mount, MountOfMessage(m),
           NEW q \in Seq(1..Len(bufs)), LineInOrder(q),
           \A k \in 1..Len(q) : q[k] < m.from,
           NEW y, NEW v, NEW p, LongerBy(v, p, q, y, m.from, m.upto, 1..Len(bufs))
    PROVE  y \in Seq(1..Len(bufs)) => LineInOrder(y)
<1>1. PICK from \in Nat : from = m.from
    BY MountRange
<1>2. PICK upto \in Nat : upto = m.upto
    BY MountRange
<1>3. from <= upto
    BY <1>1, <1>2, MountRange
<1>4. PICK n \in Nat : n = Len(q)
    BY LenProperties
<1>5. PICK d \in Nat : d = upto - from + 1
    BY <1>3
<1>6. /\ Len(y) = n + d
      /\ \A i \in 1..n : y[i] = q[i]
      /\ \A i \in (n + 1)..(n + d) : y[i] = from + (i - n) - 1
    BY <1>1, <1>2, <1>4, <1>5 DEF LongerBy
<1>7. \A i \in 1..n : q[i] \in Nat /\ q[i] < from
    <2>1. \A i \in 1..n : q[i] \in 1..Len(bufs)
        BY <1>4, ElementOfSeq
    <2>2. \A i \in 1..n : q[i] < from
        BY <1>1, <1>4
    <2>3. QED
        BY <2>1, <2>2
<1>8. /\ \A i, k \in 1..n : i < k => q[i] < q[k]
      /\ \A i \in 1..n : bufs[q[i]].part > 1 => i > 1 /\ q[i - 1] = q[i] - 1
      /\ \A i \in 2..n : bufs[q[i]].part = 1 => Complete(q[i - 1])
      /\ n > 0 => Complete(q[n])
    BY <1>4 DEF LineInOrder
<1>9. ASSUME NEW i \in (n + 1)..(n + d)
      PROVE  /\ y[i] \in from..upto
             /\ bufs[y[i]].part = i - n /\ bufs[y[i]].of = d
    <2>1. PICK b : b = y[i]
        OBVIOUS
    <2>2. b = from + (i - n) - 1 /\ b \in from..upto
        BY <1>5, <1>6, <2>1
    <2>3. bufs[b].part = b - from + 1 /\ bufs[b].of = upto - from + 1
        BY <1>1, <1>2, <2>2 DEF MountOfMessage
    <2>4. QED
        BY <1>5, <2>1, <2>2, <2>3
<1>10. ASSUME NEW i \in 1..(n + d), NEW k \in 1..(n + d), i < k
       PROVE  y[i] < y[k]
    <2>1. CASE k \in 1..n
        <3>1. i \in 1..n
            BY <1>10, <2>1
        <3>2. QED
            BY <1>6, <1>8, <1>10, <2>1, <3>1
    <2>2. CASE k \in (n + 1)..(n + d)
        <3>1. y[k] = from + (k - n) - 1
            BY <1>6, <2>2
        <3>2. CASE i \in 1..n
            <4>1. y[i] \in Nat /\ y[i] < from
                BY <1>6, <1>7, <3>2
            <4>2. QED
                BY <2>2, <3>1, <4>1
        <3>3. CASE i \in (n + 1)..(n + d)
            <4>1. y[i] = from + (i - n) - 1
                BY <1>6, <3>3
            <4>2. QED
                BY <1>10, <3>1, <4>1
        <3>4. QED
            BY <3>2, <3>3
    <2>3. QED
        BY <2>1, <2>2
<1>11. ASSUME NEW i \in 1..(n + d), bufs[y[i]].part > 1
       PROVE  i > 1 /\ y[i - 1] = y[i] - 1
    <2>1. CASE i \in 1..n
        <3>1. i > 1 /\ q[i - 1] = q[i] - 1
            BY <1>6, <1>8, <1>11, <2>1
        <3>2. i - 1 \in 1..n
            BY <2>1, <3>1
        <3>3. QED
            BY <1>6, <2>1, <3>1, <3>2
    <2>2. CASE i \in (n + 1)..(n + d)
        <3>1. i - n > 1
            BY <1>9, <1>11, <2>2
        <3>2. i - 1 \in (n + 1)..(n + d) /\ i > 1
            BY <2>2, <3>1
        <3>3. y[i] = from + (i - n) - 1 /\ y[i - 1] = from + ((i - 1) - n) - 1
            BY <1>6, <2>2, <3>2
        <3>4. QED
            BY <3>2, <3>3
    <2>3. QED
        BY <2>1, <2>2
<1>12. ASSUME NEW i \in 2..(n + d), bufs[y[i]].part = 1
       PROVE  Complete(y[i - 1])
    <2>1. CASE i \in 1..n
        <3>1. i \in 2..n /\ i - 1 \in 1..n
            BY <2>1
        <3>2. y[i] = q[i] /\ y[i - 1] = q[i - 1]
            BY <1>6, <2>1, <3>1
        <3>3. Complete(q[i - 1])
            BY <1>8, <1>12, <3>1, <3>2
        <3>4. QED
            BY <3>2, <3>3
    <2>2. CASE i \in (n + 1)..(n + d)
        <3>1. i - n = 1
            BY <1>9, <1>12, <2>2
        <3>2. i - 1 = n /\ n > 0 /\ n \in 1..n
            BY <3>1
        <3>3. y[i - 1] = q[n]
            BY <1>6, <3>2
        <3>4. QED
            BY <1>8, <3>2, <3>3
    <2>3. QED
        BY <2>1, <2>2
<1>13. Complete(y[n + d])
    <2>1. n + d \in (n + 1)..(n + d)
        BY <1>3, <1>5
    <2>2. bufs[y[n + d]].part = (n + d) - n /\ bufs[y[n + d]].of = d
        BY <1>9, <2>1
    <2>3. QED
        BY <2>2 DEF Complete
<1>14. QED
    BY <1>6, <1>10, <1>11, <1>12, <1>13 DEF LineInOrder

LEMMA PushingTyped ==
    ASSUME Typed, NEW c \in Conn, NEW m \in Mount, Pushing(c, m)
    PROVE  Typed'
<1>1. ReadTyped'
    BY TypedParts DEF ReadTyped, Pushing
<1>2. Len(bufs') = Len(bufs) /\ bufs' \in Seq(Buffer) /\ mounts' \in Seq(Mount)
    BY DEF Pushing, Pushed, Shape
<1>3. wq'[c] \in Seq(1..Len(bufs))
    BY PushingLonger DEF Longer, LongerBy
<1>4. wq' \in [Conn -> Seq(1..Len(bufs))]
    BY <1>3, WriteTypes DEF Pushing
<1>5. wire' = wire /\ mutex' = c
    BY DEF Pushing
<1>6. WriteTyped'
    BY <1>2, <1>4, <1>5, WriteTypes DEF WriteTyped
<1>7. QED
    BY <1>1, <1>6, TypedPartsNext

LEMMA PushingWriting ==
    ASSUME Typed, Writing, NEW c \in Conn, NEW m \in Mount, Pushing(c, m)
    PROVE  Writing'
<1>1. /\ LinesInOrder /\ MountsInOrder /\ NotYet /\ Marks /\ OneOwner
      /\ UsedWasWritten /\ Dropped
    BY DEF Writing, LinesInOrder
<1>2. Shape /\ Kept
    BY ShapeKept DEF Pushing, Pushed
<1>3. /\ mounts # <<>> /\ m = mounts[1] /\ m.now = NoConn /\ c \in m.to
      /\ MountOfMessage(m) /\ mutex' = c
      /\ UNCHANGED <<served, failed, stalled, wire>>
    BY DEF Pushing
<1>4. /\ Longer(c, m)
      /\ \A x \in Conn : x # c => wq'[x] = wq[x] /\ Line(x)' = Line(x)
    BY PushingLonger
<1>5. PICK from \in Nat : from = m.from
    BY <1>3, MountRange
<1>6. PICK upto \in Nat : upto = m.upto
    BY <1>3, MountRange
<1>7. /\ from <= upto /\ from..upto \subseteq 1..Len(bufs) /\ from \in from..upto
    BY <1>3, <1>5, <1>6, MountRange
<1>8. \A x \in Conn : x \in m.to \/ bufs[m.from].kind = "res" =>
          \A k \in 1..Len(Line(x)) : Line(x)[k] < from
    BY <1>1, <1>5, LineBefore
<1>9. \A b \in 1..Len(bufs) : /\ bufs'[b].kind = bufs[b].kind
                              /\ Complete(b)' <=> Complete(b)
                              /\ bufs'[b].left = bufs[b].left
                              /\ bufs'[b].last <=> b \notin from..upto /\ bufs[b].last
    BY <1>5, <1>6 DEF Pushing, Pushed, Shape, Complete
<1>10. ASSUME NEW x \in Conn
       PROVE  Line(x)' \in Seq(1..Len(bufs)) /\ Line(x) \in Seq(1..Len(bufs))
    <2>1. Typed'
        BY PushingTyped
    <2>2. IsLine(Line(x)', wire'[x], wq'[x], 1..Len(bufs'))
        BY <2>1, LineTypesNext
    <2>3. IsLine(Line(x), wire[x], wq[x], 1..Len(bufs))
        BY LineTypes
    <2>4. Line(x)' \in Seq(1..Len(bufs'))
        BY <2>2 DEF IsLine
    <2>5. Line(x) \in Seq(1..Len(bufs))
        BY <2>3 DEF IsLine
    <2>6. QED
        BY <1>2, <2>4, <2>5 DEF Shape
<1>11. LinesInOrder'
    <2>1. ASSUME NEW x \in Conn, NEW y, y = Line(x)'
          PROVE  LineInOrder(y)'
        <3>1. PICK q : q = Line(x)
            OBVIOUS
        <3>2. y \in Seq(1..Len(bufs)) /\ q \in Seq(1..Len(bufs)) /\ LineInOrder(q)
            BY <1>1, <1>10, <2>1, <3>1 DEF LinesInOrder
        <3>3. CASE x # c
            <4>1. y = q
                BY <1>4, <2>1, <3>1, <3>3
            <4>2. QED
                BY <1>2, <3>2, <4>1, LineStays
        <3>4. CASE x = c
            <4>1. \A k \in 1..Len(q) : q[k] < m.from
                BY <1>3, <1>5, <1>8, <3>1, <3>4
            <4>2. PICK v, p : v = wq[c] /\ p = wq'[c]
                OBVIOUS
            <4>3. LongerBy(v, p, q, y, m.from, m.upto, 1..Len(bufs))
                BY <1>4, <2>1, <3>1, <3>4, <4>2 DEF Longer
            <4>4. LineInOrder(y)
                BY <1>3, <3>2, <4>1, <4>3, LongerInOrder
            <4>5. QED
                BY <1>2, <3>2, <4>4, LineStays
        <3>5. QED
            BY <3>3, <3>4
    <2>2. ASSUME NEW x \in Conn
          PROVE  LineInOrder(Line(x))'
        <3>1. PICK y : y = Line(x)'
            OBVIOUS
        <3>2. LineInOrder(y)'
            BY <2>1, <3>1
        <3>3. QED
            BY <3>1, <3>2 DEF LineInOrder
    <2>3. QED
        BY <2>2 DEF LinesInOrder
<1>12. PICK a : a = [m EXCEPT !.now = c]
    OBVIOUS
<1>13. a.from = m.from /\ a.upto = m.upto /\ a.to = m.to /\ a.now = c
    BY <1>12 DEF Mount
<1>14. /\ mounts'[1] = a /\ Len(mounts') = Len(mounts) /\ mounts' \in Seq(Mount)
       /\ \A i \in 2..Len(mounts) : mounts'[i] = mounts[i]
    BY <1>12 DEF Pushing, Pushed
<1>15. Len(mounts) \in {1, 2} /\ mounts' # <<>>
    <2>1. Len(mounts) \in {1, 2}
        BY <1>1, <1>3, FirstMount
    <2>2. QED
        BY <1>14, <2>1, NonEmpty
<1>16. MountsInOrder'
    <2>1. MountOfMessage(m)'
        BY <1>2, <1>3, MountStays
    <2>2. MountOfMessage(a)'
        BY <1>3, <1>13, <2>1 DEF MountOfMessage
    <2>3. CASE Len(mounts) = 1
        BY <1>3, <1>13, <1>14, <1>15, <2>2, <2>3, MountsNext
    <2>4. CASE Len(mounts) = 2
        <3>1. PICK e \in Mount : mounts[2] = e /\ Second(a, e)
            BY <1>1, <1>2, <1>3, <1>13, <2>4, SecondStays
        <3>2. mounts'[2] = e
            BY <1>14, <2>4, <3>1
        <3>3. QED
            BY <1>3, <1>13, <1>14, <1>15, <2>2, <2>4, <3>1, <3>2, MountsNext
    <2>5. QED
        BY <1>15, <2>3, <2>4
<1>17. NotYet'
    <2>1. ASSUME NEW i \in 1..Len(mounts'), NEW x \in Conn, NEW e, e = mounts'[i],
                 e.now # x, x \in e.to \/ bufs'[e.from].kind = "res",
                 NEW y, y = Line(x)', NEW k \in 1..Len(y)
          PROVE  y[k] < e.from
        <3>1. CASE i = 1
            <4>1. e = a /\ x # c
                BY <1>13, <1>14, <2>1, <3>1
            <4>2. bufs'[e.from].kind = bufs[m.from].kind
                BY <1>5, <1>7, <1>9, <1>13, <4>1
            <4>3. y = Line(x)
                BY <1>4, <2>1, <4>1
            <4>4. QED
                BY <1>5, <1>8, <1>13, <2>1, <4>1, <4>2, <4>3
        <3>2. CASE i # 1
            <4>1. i = 2 /\ Len(mounts) = 2
                BY <1>14, <1>15, <3>2
            <4>2. 2 \in 1..Len(mounts) /\ e = mounts[2]
                BY <1>14, <2>1, <4>1
            <4>3. e \in Mount /\ MountOfMessage(e) /\ m.upto < e.from
                BY <1>1, <1>3, <4>1, <4>2, WriteTypes, ElementOfSeq DEF MountsInOrder
            <4>4. bufs'[e.from].kind = bufs[e.from].kind
                BY <1>2, <4>3, MountStays
            <4>5. \A h \in 1..Len(Line(x)) : Line(x)[h] < e.from
                BY <1>1, <2>1, <4>2, <4>4 DEF NotYet, Ahead
            <4>6. CASE x # c
                <5>1. y = Line(x)
                    BY <1>4, <2>1, <4>6
                <5>2. QED
                    BY <2>1, <4>5, <5>1
            <4>7. CASE x = c
                <5>1. k \in 1..Len(Line(c)) \/ y[k] \in from..upto
                    BY <1>5, <1>6, <2>1, <4>7, LongerEntries
                <5>2. CASE k \in 1..Len(Line(c))
                    <6>1. y[k] = Line(c)[k]
                        BY <1>4, <2>1, <4>7, <5>2 DEF Longer, LongerBy
                    <6>2. QED
                        BY <4>5, <4>7, <5>2, <6>1
                <5>3. CASE y[k] \in from..upto
                    <6>1. e.from \in Nat
                        BY <4>3, MountRange
                    <6>2. QED
                        BY <1>6, <4>3, <5>3, <6>1
                <5>4. QED
                    BY <5>1, <5>2, <5>3
            <4>8. QED
                BY <4>6, <4>7
        <3>3. QED
            BY <3>1, <3>2
    <2>2. ASSUME NEW i \in 1..Len(mounts'), NEW x \in Conn, Ahead(mounts[i], x)'
          PROVE  \A k \in 1..Len(Line(x)') : Line(x)'[k] < mounts'[i].from
        <3>1. PICK e : e = mounts'[i]
            OBVIOUS
        <3>2. PICK y : y = Line(x)'
            OBVIOUS
        <3>3. e.now # x /\ (x \in e.to \/ bufs'[e.from].kind = "res")
            BY <2>2, <3>1 DEF Ahead
        <3>4. QED
            BY <2>1, <3>1, <3>2, <3>3
    <2>3. QED
        BY <2>2 DEF NotYet
<1>18. ASSUME NEW x \in Conn, NEW k \in from..upto, bufs[k].kind = "res"
       PROVE  \A i \in 1..Len(Line(x)) : Line(x)[i] # k
    <2>1. bufs[m.from].kind = "res"
        BY <1>3, <1>5, <1>6, <1>18 DEF MountOfMessage
    <2>2. \A i \in 1..Len(Line(x)) : Line(x)[i] < from
        BY <1>8, <2>1
    <2>3. QED
        BY <1>5, <1>6, <1>18, <2>2
<1>19. Marks'
    <2>1. \A b \in from..upto : ~bufs'[b].last
        BY <1>7, <1>9
    <2>2. \A x \in Conn : \A b : ~Marking(x, b)
        BY <1>3, FrameAssumption DEF Marking
    <2>3. ASSUME NEW x \in Conn, NEW i \in 1..Len(wq[x]), NEW k, k = wq[x][i],
                 bufs'[k].kind = "res"
          PROVE  bufs'[k].last <=> Complete(k)'
        <3>1. k \in 1..Len(bufs) /\ bufs[k].kind = "res"
            BY <1>9, <2>3, WriteTypes, ElementOfSeq
        <3>2. bufs[k].last <=> Complete(k)
            BY <1>1, <2>2, <2>3, <3>1 DEF Marks
        <3>3. \E h \in 1..Len(Line(x)) : Line(x)[h] = k
            BY <2>3, QueueInLine
        <3>4. k \notin from..upto
            BY <1>18, <3>1, <3>3
        <3>5. QED
            BY <1>9, <3>1, <3>2, <3>4
    <2>4. ASSUME NEW x \in Conn, NEW i \in 1..Len(wq'[x]), NEW k, k = wq'[x][i],
                 bufs'[k].kind = "res"
          PROVE  Marking(x, k)' \/ (bufs'[k].last <=> Complete(k)')
        <3>1. CASE x # c
            BY <1>4, <2>3, <2>4, <3>1
        <3>2. CASE x = c
            <4>1. i \in 1..Len(wq[c]) \/ k \in from..upto
                BY <1>5, <1>6, <2>4, <3>2, LongerQueue
            <4>2. CASE i \in 1..Len(wq[c])
                <5>1. k = wq[c][i]
                    BY <1>4, <2>4, <3>2, <4>2 DEF Longer, LongerBy
                <5>2. QED
                    BY <2>3, <2>4, <3>2, <4>2, <5>1
            <4>3. CASE k \in from..upto
                BY <1>5, <1>6, <1>13, <1>14, <1>15, <3>2, <4>3 DEF Marking
            <4>4. QED
                BY <4>1, <4>2, <4>3
        <3>3. QED
            BY <3>1, <3>2
    <2>5. ASSUME NEW x \in Conn, NEW i \in 1..Len(wire[x]), NEW k, k = wire[x][i].b,
                 bufs'[k].kind = "res"
          PROVE  wire[x][i].last <=> Complete(k)'
        <3>1. wire[x][i] \in [b : 1..Len(bufs), last : BOOLEAN]
            BY WriteTypes, ElementOfSeq
        <3>2. k \in 1..Len(bufs)
            BY <2>5, <3>1
        <3>3. wire[x][i].last <=> Complete(k)
            BY <1>1, <1>9, <2>5, <3>2 DEF Marks
        <3>4. QED
            BY <1>9, <3>2, <3>3
    <2>6. mounts'[1].from = from /\ mounts'[1].upto = upto
        BY <1>5, <1>6, <1>13, <1>14
    <2>7. QED
        BY <1>3, <2>1, <2>4, <2>5, <2>6 DEF Marks, Marking, Complete
<1>20. OneOwner'
    <2>1. ASSUME NEW x \in Conn, NEW e \in Conn, NEW y, y = Line(x)', NEW z, z = Line(e)',
                 NEW i \in 1..Len(y), NEW k \in 1..Len(z), y[i] = z[k],
                 bufs'[y[i]].kind = "res"
          PROVE  x = e
        <3>1. y[i] \in 1..Len(bufs) /\ bufs[y[i]].kind = "res"
            BY <1>9, <1>10, <2>1, ElementOfSeq
        <3>2. \/ i \in 1..Len(Line(x)) /\ y[i] = Line(x)[i]
              \/ x = c /\ y[i] \in from..upto
            BY <1>5, <1>6, <2>1, LongerEntries
        <3>3. \/ k \in 1..Len(Line(e)) /\ z[k] = Line(e)[k]
              \/ e = c /\ z[k] \in from..upto
            BY <1>5, <1>6, <2>1, LongerEntries
        <3>4. CASE /\ i \in 1..Len(Line(x)) /\ y[i] = Line(x)[i]
                   /\ k \in 1..Len(Line(e)) /\ z[k] = Line(e)[k]
            BY <1>1, <2>1, <3>1, <3>4 DEF OneOwner
        <3>5. CASE x = c /\ y[i] \in from..upto
            BY <1>18, <2>1, <3>1, <3>3, <3>5
        <3>6. CASE e = c /\ z[k] \in from..upto
            BY <1>18, <2>1, <3>1, <3>2, <3>6
        <3>7. QED
            BY <3>2, <3>3, <3>4, <3>5, <3>6
    <2>2. ASSUME NEW x \in Conn, NEW e \in Conn,
                 NEW i \in 1..Len(Line(x)'), NEW k \in 1..Len(Line(e)'),
                 Line(x)'[i] = Line(e)'[k], bufs'[Line(x)'[i]].kind = "res"
          PROVE  x = e
        <3>1. PICK y, z : y = Line(x)' /\ z = Line(e)'
            OBVIOUS
        <3>2. QED
            BY <2>1, <2>2, <3>1
    <2>3. QED
        BY <2>2 DEF OneOwner
<1>21. UsedWasWritten'
    BY <1>1, <1>2, <1>3, <1>9 DEF UsedWasWritten, Used, Shape
<1>22. Dropped'
    <2>1. ASSUME NEW x \in Conn, ~served[x], ~stalled[x], ~failed[x]
          PROVE  wq'[x] # <<>> /\ bufs'[Head(wq'[x])].left = 0
        <3>1. wq[x] # <<>> /\ bufs[Head(wq[x])].left = 0
            BY <1>1, <2>1 DEF Dropped
        <3>2. /\ Head(wq[x]) = wq[x][1] /\ Head(wq[x]) \in 1..Len(bufs)
              /\ Len(wq[x]) \in Nat /\ Len(wq[x]) > 0
            BY <3>1, WriteTypes, TailOfSeq
        <3>3. wq'[x] # <<>> /\ wq'[x][1] = wq[x][1] /\ wq'[x] \in Seq(1..Len(bufs))
            <4>1. CASE x # c
                BY <1>4, <3>1, <4>1, WriteTypes
            <4>2. CASE x = c
                <5>1. PICK p, q : p = wq'[c] /\ q = wq[c]
                    OBVIOUS
                <5>2. /\ p \in Seq(1..Len(bufs)) /\ Len(p) = Len(q) + (m.upto - m.from + 1)
                      /\ \A i \in 1..Len(q) : p[i] = q[i]
                    BY <1>4, <5>1 DEF Longer, LongerBy
                <5>3. p # <<>>
                    BY <1>5, <1>6, <1>7, <3>2, <4>2, <5>1, <5>2, NonEmpty
                <5>4. p[1] = q[1]
                    BY <3>2, <4>2, <5>1, <5>2
                <5>5. QED
                    BY <4>2, <5>1, <5>2, <5>3, <5>4
            <4>3. QED
                BY <4>1, <4>2
        <3>4. Head(wq'[x]) = wq'[x][1]
            BY <3>3, TailOfSeq
        <3>5. QED
            BY <1>9, <3>1, <3>2, <3>3, <3>4
    <2>2. QED
        BY <1>3, <2>1 DEF Dropped
<1>23. QED
    BY <1>11, <1>16, <1>17, <1>19, <1>20, <1>21, <1>22 DEF Writing, LinesInOrder

-----------------------------------------------------------------------------
(* Writing: DispatchJob.                                                   *)

\* The buffers MessageAt tells of are those of a mount of theirs.
LEMMA MountMade ==
    ASSUME NEW a, NEW from \in Nat, NEW upto \in Nat, NEW kind,
           a.from = from, a.upto = upto, a.now = NoConn, a.to # {},
           1 <= from, from <= upto, upto <= Len(bufs'), MessageAt(bufs', from, upto, kind),
           kind = "res" => \A c, x \in a.to : c = x
    PROVE  MountOfMessage(a)' /\ bufs'[from].kind = kind
<1>1. from \in from..upto
    OBVIOUS
<1>2. PICK z : z = bufs'
    OBVIOUS
<1>3. \A b \in from..upto : /\ z[b].kind = kind /\ z[b].part = b - from + 1
                            /\ z[b].of = upto - from + 1
    BY <1>2 DEF MessageAt
<1>4. QED
    BY <1>1, <1>2, <1>3 DEF MountOfMessage

LEMMA DispatchWriting ==
    ASSUME Typed, Reading, Writing, DispatchJob
    PROVE  Typed' /\ Writing'
<1>1. /\ LinesInOrder /\ MountsInOrder /\ NotYet /\ Marks /\ OneOwner
      /\ UsedWasWritten /\ Dropped
    BY DEF Writing, LinesInOrder
<1>2. PICK c \in Conn : \E p, k : Dispatched(c, p, k)
    BY DispatchEffect
<1>3. PICK p, k : Dispatched(c, p, k)
    BY <1>2
<1>4. PICK l \in Nat : l = Len(bufs)
    BY WriteTypes
<1>5. p \in Nat /\ k \in Nat /\ p > 0
    BY <1>3 DEF Dispatched
<1>6. /\ bufs' \in Seq(Buffer) /\ Len(bufs') = l + p + k
      /\ \A b \in 1..l : bufs'[b] = bufs[b]
      /\ MessageAt(bufs', l + 1, l + p, "res")
      /\ MessageAt(bufs', l + p + 1, l + p + k, "noti")
    BY <1>3, <1>4 DEF Dispatched
<1>7. PICK a : a = [to |-> {c}, now |-> NoConn, from |-> l + 1, upto |-> l + p]
    OBVIOUS
<1>8. a.from = l + 1 /\ a.upto = l + p /\ a.to = {c} /\ a.now = NoConn
    BY <1>7
<1>9. /\ mounts' \in Seq(Mount) /\ mounts'[1] = a
      /\ Len(mounts') = IF k > 0 THEN 2 ELSE 1
    BY <1>3, <1>4, <1>7 DEF Dispatched
<1>10. mounts = <<>> /\ UNCHANGED <<reqs, up, vec, stalled, served, failed, mutex, wq, wire>>
    BY DEF DispatchJob, readVars
<1>11. Len(bufs) <= Len(bufs')
    BY <1>4, <1>5, <1>6
<1>12. Kept
    BY <1>4, <1>6, <1>11 DEF Kept
<1>13. LinesStay
    BY <1>10 DEF LinesStay, Line
<1>14. LinesInOrder' /\ OneOwner'
    BY <1>1, <1>12, <1>13, LinesStayInOrder
<1>15. mutex' = NoConn /\ mounts' # <<>>
    <2>1. mutex' = NoConn
        BY <1>1, <1>10 DEF MountsInOrder
    <2>2. mounts' # <<>>
        BY <1>9, NonEmpty
    <2>3. QED
        BY <2>1, <2>2
<1>16. MountOfMessage(a)'
    <2>1. PICK from \in Nat : from = l + 1
        OBVIOUS
    <2>2. PICK upto \in Nat : upto = l + p
        BY <1>5
    <2>3. 1 <= from /\ from <= upto /\ upto <= Len(bufs')
        BY <1>5, <1>6, <2>1, <2>2
    <2>4. MessageAt(bufs', from, upto, "res")
        BY <1>6, <2>1, <2>2
    <2>5. QED
        BY <1>8, <2>1, <2>2, <2>3, <2>4, MountMade
<1>17. MountsInOrder' /\ \A i \in 1..Len(mounts') :
           mounts'[i].from \in Nat /\ l < mounts'[i].from
    <2>1. CASE k = 0
        <3>1. Len(mounts') = 1
            BY <1>9, <2>1
        <3>2. MountsInOrder'
            BY <1>8, <1>9, <1>15, <1>16, <3>1, MountsNext
        <3>3. \A i \in 1..Len(mounts') : mounts'[i] = a
            BY <1>9, <3>1
        <3>4. QED
            BY <1>8, <3>2, <3>3
    <2>2. CASE k > 0
        <3>1. PICK e : e = [to |-> Conn \ {c}, now |-> NoConn,
                           from |-> l + p + 1, upto |-> l + p + k]
            OBVIOUS
        <3>2. e.from = l + p + 1 /\ e.upto = l + p + k /\ e.to = Conn \ {c} /\ e.now = NoConn
            BY <3>1
        <3>3. Conn \ {c} # {} /\ mounts'[2] = e /\ Len(mounts') = 2
            BY <1>3, <1>4, <1>9, <2>2, <3>1 DEF Dispatched
        <3>4. PICK from \in Nat : from = l + p + 1
            BY <1>5
        <3>5. PICK upto \in Nat : upto = l + p + k
            BY <1>5
        <3>6. 1 <= from /\ from <= upto /\ upto <= Len(bufs')
            BY <1>5, <1>6, <2>2, <3>4, <3>5
        <3>7. MessageAt(bufs', from, upto, "noti")
            BY <1>6, <3>4, <3>5
        <3>8. MountOfMessage(e)' /\ bufs'[from].kind = "noti"
            BY <3>2, <3>3, <3>4, <3>5, <3>6, <3>7, MountMade
        <3>9. Second(a, e)
            BY <1>5, <1>8, <3>2, <3>4, <3>8 DEF Second
        <3>10. MountsInOrder'
            BY <1>8, <1>9, <1>15, <1>16, <3>3, <3>9, MountsNext
        <3>11. \A i \in 1..Len(mounts') : mounts'[i] = a \/ mounts'[i] = e
            BY <1>9, <3>3
        <3>12. a.from \in Nat /\ l < a.from /\ e.from \in Nat /\ l < e.from
            BY <1>5, <1>8, <3>2
        <3>13. QED
            BY <3>10, <3>11, <3>12
    <2>3. QED
        BY <1>5, <2>1, <2>2
<1>18. NotYet'
    <2>1. ASSUME NEW x \in Conn, NEW h \in 1..Len(Line(x))
          PROVE  Line(x)[h] \in 1..l
        BY <1>4, LineTypes, ElementOfSeq DEF IsLine
    <2>2. ASSUME NEW i \in 1..Len(mounts'), NEW x \in Conn, NEW h \in 1..Len(Line(x))
          PROVE  Line(x)[h] < mounts'[i].from
        <3>1. PICK b \in 1..l : b = Line(x)[h]
            BY <2>1
        <3>2. PICK from \in Nat : from = mounts'[i].from /\ l < from
            BY <1>17
        <3>3. QED
            BY <1>4, <3>1, <3>2
    <2>3. QED
        BY <1>13, <2>2 DEF NotYet, LinesStay
<1>19. Marks'
    <2>1. \A b \in 1..Len(bufs) : bufs'[b] = bufs[b]
        BY <1>4, <1>6
    <2>2. ASSUME NEW x \in Conn, NEW i \in 1..Len(wq[x]), NEW b, b = wq[x][i],
                 bufs'[b].kind = "res"
          PROVE  bufs'[b].last <=> Complete(b)'
        <3>1. b \in 1..Len(bufs)
            BY <2>2, WriteTypes, ElementOfSeq
        <3>2. bufs'[b] = bufs[b]
            BY <2>1, <3>1
        <3>3. bufs[b].last <=> Complete(b)
            BY <1>1, <1>10, <2>2, <3>2 DEF Marks, Marking
        <3>4. QED
            BY <3>2, <3>3 DEF Complete
    <2>3. ASSUME NEW x \in Conn, NEW i \in 1..Len(wire[x]), NEW b, b = wire[x][i].b,
                 bufs'[b].kind = "res"
          PROVE  wire[x][i].last <=> Complete(b)'
        <3>1. wire[x][i] \in [b : 1..Len(bufs), last : BOOLEAN]
            BY WriteTypes, ElementOfSeq
        <3>2. b \in 1..Len(bufs)
            BY <2>3, <3>1
        <3>3. bufs'[b] = bufs[b]
            BY <2>1, <3>2
        <3>4. wire[x][i].last <=> Complete(b)
            BY <1>1, <2>3, <3>3 DEF Marks
        <3>5. QED
            BY <3>3, <3>4 DEF Complete
    <2>4. QED
        BY <1>8, <1>9, <1>10, <2>2, <2>3 DEF Marks, Complete
<1>20. UsedWasWritten'
    <2>1. ASSUME NEW b \in 1..Len(bufs'), bufs'[b].left = 0
          PROVE  Used(b)
        <3>1. CASE b \in 1..l
            BY <1>1, <1>4, <1>6, <2>1, <3>1 DEF UsedWasWritten
        <3>2. CASE b \in (l + 1)..(l + p)
            <4>1. bufs'[b].left > 0
                BY <1>6, <3>2 DEF MessageAt
            <4>2. QED
                BY <2>1, <4>1
        <3>3. CASE b \in (l + p + 1)..(l + p + k)
            <4>1. bufs'[b].left > 0
                BY <1>6, <3>3 DEF MessageAt
            <4>2. QED
                BY <2>1, <4>1
        <3>4. b \in 1..l \/ b \in (l + 1)..(l + p) \/ b \in (l + p + 1)..(l + p + k)
            BY <1>4, <1>5, <1>6
        <3>5. QED
            BY <3>1, <3>2, <3>3, <3>4
    <2>2. QED
        BY <1>10, <2>1 DEF UsedWasWritten, Used
<1>21. Dropped'
    <2>1. ASSUME NEW x \in Conn, ~served[x], ~stalled[x], ~failed[x]
          PROVE  wq[x] # <<>> /\ bufs'[Head(wq[x])].left = 0
        <3>1. wq[x] # <<>> /\ bufs[Head(wq[x])].left = 0
            BY <1>1, <2>1 DEF Dropped
        <3>2. Head(wq[x]) \in 1..Len(bufs)
            BY <3>1, WriteTypes, TailOfSeq
        <3>3. QED
            BY <1>4, <1>6, <3>1, <3>2
    <2>2. QED
        BY <1>10, <2>1 DEF Dropped
<1>22. Typed'
    <2>1. jobs' \in Seq([conn : Conn, frames : Seq(Frame)])
        <3>1. jobs # <<>> /\ jobs' = Tail(jobs)
            BY DEF DispatchJob
        <3>2. QED
            BY <3>1, ReadTypes, TailOfSeq
    <2>2. ReadTyped'
        BY <1>10, <2>1, TypedParts DEF ReadTyped
    <2>3. 1..Len(bufs) \subseteq 1..Len(bufs')
        BY <1>4, <1>5, <1>6
    <2>4. ASSUME NEW x \in Conn
          PROVE  /\ wq[x] \in Seq(1..Len(bufs'))
                 /\ wire[x] \in Seq([b : 1..Len(bufs'), last : BOOLEAN])
        <3>1. wq[x] \in Seq(1..Len(bufs'))
            BY <2>3, WriteTypes, SeqMonotonic
        <3>2. [b : 1..Len(bufs), last : BOOLEAN] \subseteq [b : 1..Len(bufs'), last : BOOLEAN]
            BY <2>3
        <3>3. wire[x] \in Seq([b : 1..Len(bufs'), last : BOOLEAN])
            <4>1. PICK S, T : /\ S = [b : 1..Len(bufs), last : BOOLEAN]
                              /\ T = [b : 1..Len(bufs'), last : BOOLEAN]
                OBVIOUS
            <4>2. wire[x] \in Seq(S)
                BY <4>1, WriteTypes
            <4>3. S \subseteq T
                BY <3>2, <4>1
            <4>4. wire[x] \in Seq(T)
                BY <4>2, <4>3, SeqMonotonic
            <4>5. QED
                BY <4>1, <4>4
        <3>4. QED
            BY <3>1, <3>3
    <2>5. /\ wq' \in [Conn -> Seq(1..Len(bufs'))]
          /\ wire' \in [Conn -> Seq([b : 1..Len(bufs'), last : BOOLEAN])]
        BY <1>10, <2>4, WriteTypes
    <2>6. WriteTyped'
        BY <1>6, <1>9, <1>15, <2>5 DEF WriteTyped
    <2>7. QED
        BY <2>2, <2>6, TypedPartsNext
<1>23. QED
    BY <1>14, <1>17, <1>18, <1>19, <1>20, <1>21, <1>22 DEF Writing, LinesInOrder

-----------------------------------------------------------------------------
(* Writing: the steps that write nothing.                                  *)

\* A connection may stall, and is given up with a cause.
Quiet ==
    /\ UNCHANGED <<mounts, mutex, bufs, wq, wire>>
    /\ \A c \in Conn : (stalled[c] => stalled'[c]) /\ (failed[c] => failed'[c])
    /\ \A c \in Conn : ~served'[c] =>
          \/ ~served[c] \/ stalled[c] \/ failed'[c]
          \/ wq[c] # <<>> /\ bufs[Head(wq[c])].left = 0

LEMMA QuietWriting ==
    ASSUME Typed, Writing, ReadTyped', Quiet
    PROVE  Typed' /\ Writing'
<1>1. /\ LinesInOrder /\ MountsInOrder /\ NotYet /\ Marks /\ OneOwner
      /\ UsedWasWritten /\ Dropped
    BY DEF Writing, LinesInOrder
<1>2. UNCHANGED <<mounts, mutex, bufs, wq, wire>>
    BY DEF Quiet
<1>3. Shape /\ Kept
    BY <1>2, WriteTypes, ShapeKept DEF Shape
<1>4. LinesStay
    BY <1>2 DEF LinesStay, Line
<1>5. LinesInOrder' /\ OneOwner'
    BY <1>1, <1>3, <1>4, LinesStayInOrder
<1>6. MountsInOrder' /\ NotYet'
    BY <1>1, <1>2, <1>3, <1>4, MountsStay, NotYetStays
<1>7. Marks' /\ UsedWasWritten'
    BY <1>1, <1>2 DEF Marks, Marking, Complete, UsedWasWritten, Used
<1>8. Dropped'
    BY <1>1, <1>2 DEF Dropped, Quiet
<1>9. WriteTyped'
    BY <1>2, TypedParts DEF WriteTyped
<1>10. QED
    BY <1>5, <1>6, <1>7, <1>8, <1>9, TypedPartsNext DEF Writing, LinesInOrder

LEMMA PostTyped ==
    ASSUME Typed, Reading, NEW c \in Conn, Post(c)
    PROVE  ReadTyped' /\ Quiet
<1>1. PICK r \in Request :
          /\ r.conn = c /\ reqs' = Append(reqs, r)
          /\ up' = [up EXCEPT ![c] = @ \o RequestFrames(Len(reqs) + 1, r)]
    BY DEF Post, Request
<1>2. /\ UNCHANGED <<vec, stalled, served, failed, jobs, mounts, mutex, bufs, wq, wire>>
      /\ Len(reqs) < MaxRequests
    BY DEF Post, writeVars
<1>3. reqs' \in Seq(Request) /\ Len(reqs') <= MaxRequests
    <2>1. reqs' \in Seq(Request) /\ Len(reqs') = Len(reqs) + 1
        BY <1>1, ReadTypes, AppendProperties
    <2>2. QED
        BY <1>2, <2>1, ReadTypes, FrameAssumption
<1>4. PICK u \in Seq(Frame) : u = up[c]
    BY ReadTypes
<1>5. PICK z : z = up'[c]
    OBVIOUS
<1>6. z = u \o RequestFrames(Len(reqs) + 1, r)
    BY <1>1, <1>4, <1>5, ReadTypes
<1>7. UpInOrder(c, u)
    BY <1>4 DEF Reading
<1>8. Sent(z, u, c)
    BY <1>1, <1>2, <1>6, <1>7, ReadTypes, SendInOrder
<1>9. z \in Seq(Frame)
    BY <1>8 DEF Sent
<1>10. up' \in [Conn -> Seq(Frame)]
    <2>1. up' = [up EXCEPT ![c] = z]
        BY <1>1, <1>5, ReadTypes
    <2>2. QED
        BY <1>9, <2>1, ReadTypes
<1>11. ReadTyped'
    BY <1>2, <1>3, <1>10, ReadTypes DEF ReadTyped
<1>12. QED
    BY <1>2, <1>11 DEF Quiet

LEMMA ReadFrameTyped ==
    ASSUME Typed, NEW c \in Conn, NEW garbage \in BOOLEAN, ReadFrame(c, garbage)
    PROVE  ReadTyped' /\ Quiet
<1>1. PICK u \in Seq(Frame) : u = up[c]
    BY ReadTypes
<1>2. PICK v \in Seq(Frame) : v = vec[c]
    BY ReadTypes
<1>3. PICK f : f = Head(u)
    OBVIOUS
<1>4. PICK w : w = Append(v, f)
    OBVIOUS
<1>5. /\ reqs' = reqs /\ u # <<>> /\ up' = [up EXCEPT ![c] = Tail(u)]
      /\ UNCHANGED <<served, failed, mounts, mutex, bufs, wq, wire>>
    BY <1>1 DEF ReadFrame, writeVars
<1>6. f \in Frame /\ Tail(u) \in Seq(Frame)
    BY <1>3, <1>5, TailOfSeq
<1>7. w \in Seq(Frame)
    BY <1>4, <1>6, AppendProperties
<1>8. up' \in [Conn -> Seq(Frame)]
    BY <1>5, <1>6, ReadTypes
<1>9. CASE stalled' = [stalled EXCEPT ![c] = TRUE] /\ UNCHANGED <<vec, jobs>>
    BY <1>5, <1>8, <1>9, ReadTypes DEF ReadTyped, Quiet
<1>10. CASE /\ vec' = [vec EXCEPT ![c] = IF f.last THEN KeptFrames(w) ELSE w]
            /\ jobs' = IF f.last THEN Append(jobs, [conn |-> c, frames |-> w]) ELSE jobs
            /\ stalled' = stalled
    <2>1. KeptFrames(w) \in Seq(Frame)
        BY EmptySeq DEF KeptFrames
    <2>2. vec' \in [Conn -> Seq(Frame)]
        BY <1>7, <1>10, <2>1, ReadTypes
    <2>3. [conn |-> c, frames |-> w] \in [conn : Conn, frames : Seq(Frame)]
        BY <1>7
    <2>4. jobs' \in Seq([conn : Conn, frames : Seq(Frame)])
        BY <1>10, <2>3, ReadTypes, AppendProperties
    <2>5. QED
        BY <1>5, <1>8, <1>10, <2>2, <2>4, ReadTypes DEF ReadTyped, Quiet
<1>11. QED
    BY <1>1, <1>2, <1>3, <1>4, <1>9, <1>10 DEF ReadFrame

LEMMA DropTyped ==
    ASSUME Typed, NEW c \in Conn, ReadAfterStall(c) \/ WriteNothing(c)
    PROVE  ReadTyped' /\ Quiet
<1>1. /\ UNCHANGED <<reqs, up, vec, stalled, jobs, mounts, mutex, bufs, wq, wire>>
      /\ served' = [served EXCEPT ![c] = FALSE] /\ failed' = failed
      /\ stalled[c] \/ (wq[c] # <<>> /\ bufs[Head(wq[c])].left = 0)
    BY DEF ReadAfterStall, WriteNothing, readVars, writeVars
<1>2. ReadTyped'
    BY <1>1, ReadTypes DEF ReadTyped
<1>3. \A x \in Conn : served'[x] = served[x] \/ x = c
    BY <1>1, ReadTypes
<1>4. Quiet
    BY <1>1, <1>3 DEF Quiet
<1>5. QED
    BY <1>2, <1>4

LEMMA FailTyped ==
    ASSUME Typed, NEW c \in Conn, WriteFails(c)
    PROVE  ReadTyped' /\ Quiet
<1>1. /\ UNCHANGED <<reqs, up, vec, stalled, jobs, mounts, mutex, bufs, wq, wire>>
      /\ served' = [served EXCEPT ![c] = FALSE]
      /\ failed' = [failed EXCEPT ![c] = TRUE]
    BY DEF WriteFails, readVars, writeVars
<1>2. ReadTyped'
    BY <1>1, ReadTypes DEF ReadTyped
<1>3. \A x \in Conn : IF x = c THEN failed'[x]
                      ELSE served'[x] = served[x] /\ failed'[x] = failed[x]
    BY <1>1, ReadTypes
<1>4. Quiet
    BY <1>1, <1>3 DEF Quiet
<1>5. QED
    BY <1>2, <1>4

-----------------------------------------------------------------------------
(* The invariant and what follows from it.                                 *)

LEMMA InvInit ==
    ASSUME Init
    PROVE  Inv
<1>1. Typed
    BY FrameAssumption DEF Init, Typed, TypeOK
<1>2. Reading
    BY DEF Init, Reading, UpInOrder, VecInOrder, GoesOn
<1>3. \A c \in Conn : Len(Line(c)) = 0
    <2>1. ASSUME NEW c \in Conn
          PROVE  Len(Line(c)) = 0
        <3>1. wire[c] = <<>> /\ wq[c] = <<>>
            BY DEF Init
        <3>2. PICK z : z = Line(c)
            OBVIOUS
        <3>3. IsLine(z, wire[c], wq[c], 1..Len(bufs))
            BY <1>1, <3>2, LineTypes
        <3>4. QED
            BY <3>1, <3>2, <3>3 DEF IsLine
    <2>2. QED
        BY <2>1
<1>4. \A c \in Conn : LineInOrder(Line(c))
    <2>1. ASSUME NEW q, Len(q) = 0
          PROVE  LineInOrder(q)
        BY <2>1 DEF LineInOrder
    <2>2. ASSUME NEW c \in Conn
          PROVE  LineInOrder(Line(c))
        <3>1. Len(Line(c)) = 0
            BY <1>3
        <3>2. QED
            BY <2>1, <3>1
    <2>3. QED
        BY <2>2
<1>5. MountsInOrder /\ NotYet /\ Marks /\ UsedWasWritten /\ Dropped
    BY DEF Init, MountsInOrder, NotYet, Marks, UsedWasWritten, Dropped
<1>6. OneOwner
    BY <1>3 DEF OneOwner
<1>7. QED
    BY <1>1, <1>2, <1>4, <1>5, <1>6 DEF Inv, Writing

LEMMA InvStep ==
    ASSUME Inv, [Next]_vars
    PROVE  Inv'
<1>1. Typed /\ Reading /\ Writing
    BY DEF Inv
<1>2. ASSUME NEW c \in Conn, Post(c)
      PROVE  Inv'
    <2>1. Typed' /\ Writing'
        BY <1>1, <1>2, PostTyped, QuietWriting
    <2>2. Reading'
        BY <1>1, <1>2, PostReading
    <2>3. QED
        BY <2>1, <2>2 DEF Inv
<1>3. ASSUME NEW c \in Conn, NEW garbage \in BOOLEAN, ReadFrame(c, garbage)
      PROVE  Inv'
    <2>1. Typed' /\ Writing'
        BY <1>1, <1>3, ReadFrameTyped, QuietWriting
    <2>2. Reading'
        BY <1>1, <1>3, ReadFrameReading
    <2>3. QED
        BY <2>1, <2>2 DEF Inv
<1>4. ASSUME NEW c \in Conn, ReadAfterStall(c) \/ WriteNothing(c)
      PROVE  Inv'
    <2>1. Typed' /\ Writing'
        BY <1>1, <1>4, DropTyped, QuietWriting
    <2>2. UNCHANGED <<reqs, up, vec, stalled, jobs>>
        BY <1>4 DEF ReadAfterStall, WriteNothing, readVars
    <2>3. Reading'
        BY <1>1, <2>2, OtherReading
    <2>4. QED
        BY <2>1, <2>3 DEF Inv
<1>5. CASE DispatchJob
    <2>1. Typed' /\ Writing'
        BY <1>1, <1>5, DispatchWriting
    <2>2. UNCHANGED <<reqs, up, vec, stalled>> /\ jobs # <<>> /\ jobs' = Tail(jobs)
        BY <1>5 DEF DispatchJob, readVars
    <2>3. Reading'
        BY <1>1, <2>2, OtherReading
    <2>4. QED
        BY <2>1, <2>3 DEF Inv
<1>6. ASSUME NEW c \in Conn, MountFrames(c)
      PROVE  Inv'
    <2>1. PICK m \in Mount : Pushing(c, m)
        BY <1>1, <1>6, MountFramesEffect DEF Writing
    <2>2. Typed' /\ Writing'
        BY <1>1, <2>1, PushingTyped, PushingWriting
    <2>3. UNCHANGED <<reqs, up, vec, stalled, jobs>>
        BY <2>1 DEF Pushing
    <2>4. Reading'
        BY <1>1, <2>3, OtherReading
    <2>5. QED
        BY <2>2, <2>4 DEF Inv
<1>7. CASE MountLast
    <2>1. Typed' /\ Writing'
        BY <1>1, <1>7, LastWriting
    <2>2. UNCHANGED <<reqs, up, vec, stalled, jobs>>
        BY <1>7 DEF MountLast, readVars
    <2>3. Reading'
        BY <1>1, <2>2, OtherReading
    <2>4. QED
        BY <2>1, <2>3 DEF Inv
<1>8. ASSUME NEW c \in Conn, MountNobody(c)
      PROVE  Inv'
    <2>1. Typed' /\ Writing'
        BY <1>1, <1>8, NobodyWriting
    <2>2. UNCHANGED <<reqs, up, vec, stalled, jobs>>
        BY <1>8 DEF MountNobody, readVars
    <2>3. Reading'
        BY <1>1, <2>2, OtherReading
    <2>4. QED
        BY <2>1, <2>3 DEF Inv
<1>9. ASSUME NEW c \in Conn, WriteFrame(c)
      PROVE  Inv'
    <2>1. PICK b : Taken(c, b)
        BY <1>1, <1>9, WriteEffect
    <2>2. Typed' /\ Writing'
        BY <1>1, <2>1, WriteFrameTyped, WriteFrameWriting
    <2>3. UNCHANGED <<reqs, up, vec, stalled, jobs>>
        BY <2>1 DEF Taken
    <2>4. Reading'
        BY <1>1, <2>3, OtherReading
    <2>5. QED
        BY <2>2, <2>4 DEF Inv
<1>10. CASE UNCHANGED vars
    <2>1. UNCHANGED <<reqs, up, vec, stalled, served, failed, jobs, mounts, mutex, bufs, wq, wire>>
        BY <1>10 DEF vars, readVars, writeVars
    <2>2. ReadTyped' /\ Quiet
        BY <1>1, <2>1, ReadTypes DEF ReadTyped, Quiet
    <2>3. Typed' /\ Writing'
        BY <1>1, <2>2, QuietWriting
    <2>4. Reading'
        BY <1>1, <2>1, OtherReading
    <2>5. QED
        BY <2>3, <2>4 DEF Inv
<1>11. ASSUME NEW c \in Conn, WriteFails(c)
       PROVE  Inv'
    <2>1. Typed' /\ Writing'
        BY <1>1, <1>11, FailTyped, QuietWriting
    <2>2. UNCHANGED <<reqs, up, vec, stalled, jobs>>
        BY <1>11 DEF WriteFails, readVars
    <2>3. Reading'
        BY <1>1, <2>2, OtherReading
    <2>4. QED
        BY <2>1, <2>3 DEF Inv
<1>12. QED
    BY <1>2, <1>3, <1>4, <1>5, <1>6, <1>7, <1>8, <1>9, <1>10, <1>11 DEF Next

LEMMA Invariant == Spec => []Inv
<1>1. QED
    BY InvInit, InvStep, PTL DEF Spec

\* Every state has its types; no frame is larger than the buffer it is put
\* in, for any capacity and any base of the length code.
THEOREM TypeCorrect == Spec => []TypeOK
<1>1. Inv => TypeOK
    BY DEF Inv, Typed
<1>2. QED
    BY <1>1, Invariant, PTL

LEMMA JobsWhole ==
    ASSUME Inv
    PROVE  WholeRequests
<1>1. ASSUME NEW i \in 1..Len(jobs)
      PROVE  LET j == jobs[i]
                 n == j.frames[1].req
                 last == Len(j.frames)
             IN /\ j.frames = RequestFrames(n, reqs[n])
                /\ j.conn = reqs[n].conn
                /\ \A k \in 1..(last - 1) : j.frames[k].len = MaxLength
                /\ MaxLength * (last - 1) + j.frames[last].len = reqs[n].size
    <2>1. PICK j : j = jobs[i]
        OBVIOUS
    <2>2. WholeJob(j)
        BY <2>1 DEF Inv, Reading
    <2>3. PICK n \in 1..Len(reqs) : j.conn = reqs[n].conn /\ j.frames = RequestFrames(n, reqs[n])
        BY <2>2 DEF WholeJob
    <2>4. n \in 1..MaxRequests /\ reqs[n] \in Request
        BY FrameAssumption, ReadTypes, ElementOfSeq DEF Inv
    <2>5. PICK r \in Request : r = reqs[n]
        BY <2>4
    <2>6. PICK q : q = RequestFrames(n, r)
        OBVIOUS
    <2>7. PICK p : p = PieceCount(r.size)
        OBVIOUS
    <2>8. /\ q \in Seq(Frame) /\ Len(q) = p /\ p \in Nat \ {0}
          /\ \A k \in 1..p : q[k].req = n /\ q[k].len = Pieces(r.size)[k]
        BY <2>4, <2>6, <2>7, FramesOfRequest
    <2>9. r.size \in Nat
        BY Limits DEF Request
    <2>10. /\ \A k \in 1..(p - 1) : Pieces(r.size)[k] = MaxLength
           /\ MaxLength * (p - 1) + Pieces(r.size)[p] = r.size
        BY <2>7, <2>9, PiecesOfMessage
    <2>11. 1 \in 1..p /\ p \in 1..p /\ \A k \in 1..(p - 1) : k \in 1..p
        BY <2>8
    <2>12. q[1].req = n /\ q[p].len = Pieces(r.size)[p]
        BY <2>8, <2>11
    <2>13. \A k \in 1..(p - 1) : q[k].len = MaxLength
        BY <2>8, <2>10, <2>11
    <2>14. MaxLength * (p - 1) + q[p].len = r.size
        BY <2>10, <2>12
    <2>15. j.frames = q /\ j.conn = r.conn
        BY <2>3, <2>5, <2>6
    <2>16. QED
        BY <2>1, <2>5, <2>6, <2>8, <2>12, <2>13, <2>14, <2>15
<1>2. QED
    BY <1>1 DEF WholeRequests

\* connection_read_callback gives the pool whole requests of one client,
\* split and joined the same way, for messages of every size.
THEOREM WholeRequestsServed == Spec => []WholeRequests
BY JobsWhole, Invariant, PTL

LEMMA WireFramed ==
    ASSUME Inv
    PROVE  Framed
<1>1. Typed /\ Writing
    BY DEF Inv
<1>2. ASSUME NEW c \in Conn, NEW i \in 1..Len(wire[c])
      PROVE  LET w == wire[c][i]
                 b == bufs[w.b]
             IN /\ b.part > 1 => i > 1 /\ wire[c][i - 1].b = w.b - 1
                /\ b.part = 1 /\ i > 1 => LET x == bufs[wire[c][i - 1].b] IN x.part = x.of
                /\ b.kind = "res" => (w.last <=> b.part = b.of)
    <2>1. PICK q : q = Line(c)
        OBVIOUS
    <2>2. LineInOrder(q)
        BY <1>1, <2>1 DEF Writing
    <2>3. \A k \in 1..Len(wire[c]) : k \in 1..Len(q) /\ q[k] = wire[c][k].b
        BY <1>1, <2>1, QueueInLine
    <2>4. PICK k : k = wire[c][i].b
        OBVIOUS
    <2>5. q[i] = k /\ i \in 1..Len(q) /\ Len(wire[c]) \in Nat
        BY <1>1, <2>3, <2>4, WriteTypes, LenProperties
    <2>6. bufs[k].part > 1 => i > 1 /\ wire[c][i - 1].b = k - 1
        <3>1. ASSUME bufs[k].part > 1
              PROVE  i > 1 /\ wire[c][i - 1].b = k - 1
            <4>1. i > 1 /\ q[i - 1] = k - 1
                BY <2>2, <2>5, <3>1 DEF LineInOrder
            <4>2. i - 1 \in 1..Len(wire[c])
                BY <2>5, <4>1
            <4>3. QED
                BY <2>3, <4>1, <4>2
        <3>2. QED
            BY <3>1
    <2>7. bufs[k].part = 1 /\ i > 1 => Complete(wire[c][i - 1].b)
        <3>1. ASSUME bufs[k].part = 1, i > 1
              PROVE  Complete(wire[c][i - 1].b)
            <4>1. i \in 2..Len(q) /\ i - 1 \in 1..Len(wire[c])
                BY <2>5, <3>1
            <4>2. Complete(q[i - 1])
                BY <2>2, <2>5, <3>1, <4>1 DEF LineInOrder
            <4>3. QED
                BY <2>3, <4>1, <4>2
        <3>2. QED
            BY <3>1
    <2>8. bufs[k].kind = "res" => (wire[c][i].last <=> Complete(k))
        BY <1>1, <2>4 DEF Writing, Marks
    <2>9. QED
        BY <2>4, <2>6, <2>7, <2>8 DEF Complete
<1>3. QED
    BY <1>2 DEF Framed

\* What connection_write_callback writes to a connection is whole messages one
\* after the other, and the last flag of an answer is on its last frame alone,
\* for every number of connections and every size of answers and notifications.
THEOREM FramedInOrder == Spec => []Framed
BY WireFramed, Invariant, PTL

LEMMA DropCause ==
    ASSUME Inv
    PROVE  DropHasCause
<1>1. Typed /\ Writing
    BY DEF Inv
<1>2. ASSUME NEW c \in Conn, ~served[c], ~stalled[c], ~failed[c]
      PROVE  TakenByAnother(c) /\ bufs[Head(wq[c])].kind = "noti"
    <2>1. PICK b : b = Head(wq[c])
        OBVIOUS
    <2>2. wq[c] # <<>> /\ bufs[b].left = 0
        BY <1>1, <1>2, <2>1 DEF Writing, Dropped
    <2>3. b = wq[c][1] /\ b \in 1..Len(bufs) /\ Len(wq[c]) \in Nat /\ Len(wq[c]) > 0
        BY <1>1, <2>1, <2>2, WriteTypes, TailOfSeq
    <2>4. Used(b)
        BY <1>1, <2>2, <2>3 DEF Writing, UsedWasWritten
    <2>5. PICK x \in Conn : \E i \in 1..Len(wire[x]) : wire[x][i].b = b
        BY <2>4 DEF Used
    <2>6. PICK i \in 1..Len(wire[x]) : wire[x][i].b = b
        BY <2>5
    <2>7. PICK q, z : q = Line(c) /\ z = Line(x)
        OBVIOUS
    <2>8. i \in 1..Len(z) /\ z[i] = b
        BY <1>1, <2>6, <2>7, QueueInLine
    <2>9. PICK l, n : l = Len(wire[c]) /\ n = Len(wq[c])
        OBVIOUS
    <2>10. IsLine(q, wire[c], wq[c], 1..Len(bufs))
        BY <1>1, <2>7, LineTypes
    <2>11. l \in Nat /\ n \in Nat /\ Len(q) = l + n /\ \A k \in 1..n : q[l + k] = wq[c][k]
        BY <2>9, <2>10 DEF IsLine
    <2>12. l + 1 \in 1..Len(q) /\ q[l + 1] = b
        <3>1. n > 0 /\ 1 \in 1..n
            BY <2>3, <2>9, <2>11
        <3>2. q[l + 1] = wq[c][1]
            BY <2>11, <3>1
        <3>3. l + 1 \in 1..Len(q)
            BY <2>11, <3>1
        <3>4. QED
            BY <2>3, <3>2, <3>3
    <2>13. x # c
        <3>1. ASSUME x = c
              PROVE  FALSE
            <4>1. i < l + 1
                BY <2>6, <2>9, <2>11, <3>1
            <4>2. z = q /\ LineInOrder(q)
                BY <1>1, <2>7, <3>1 DEF Writing
            <4>3. q[i] < q[l + 1]
                BY <2>8, <2>12, <4>1, <4>2 DEF LineInOrder
            <4>4. QED
                BY <2>3, <2>8, <2>12, <4>2, <4>3
        <3>2. QED
            BY <3>1
    <2>14. bufs[b].kind # "res"
        BY <1>1, <2>7, <2>8, <2>12, <2>13 DEF Writing, OneOwner
    <2>15. bufs[b].kind = "noti"
        <3>1. bufs[b] \in Buffer
            BY <1>1, <2>3, WriteTypes, ElementOfSeq
        <3>2. QED
            BY <2>14, <3>1 DEF Buffer
    <2>16. QED
        BY <2>1, <2>2, <2>6, <2>13, <2>15 DEF TakenByAnother
<1>3. QED
    BY <1>2 DEF DropHasCause

\* A node is given up for a frame of its own client that could not be
\* finished, for a write of its own that failed on data it was given or for a
\* buffer of a notification that another device has used up, never because an
\* answer's buffer was used up and never for what happens to another node.
THEOREM DropsHaveCause == Spec => []DropHasCause
BY DropCause, Invariant, PTL
=============================================================================
