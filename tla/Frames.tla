------------------------------- MODULE Frames -------------------------------
(***************************************************************************)
(* Messages as frames: yijianBuffer splits a message, buffer_yi.cxx writes *)
(* and parses one frame, the server's read callback joins the frames of a  *)
(* request and its pool thread mounts the frames of an answer and of a     *)
(* notification on the write queues.                                       *)
(*                                                                         *)
(* A frame is two bytes of session id and last flag, one byte of type, the *)
(* length code and the data.  Every frame is written by one SSL_write and  *)
(* so is one TLS record, and SSL_read returns bytes of one record only:    *)
(* the reader gets the five header bytes, then the rest, in one callback.  *)
(* Session ids, the ping list and the watchers are ImServer's.             *)
(***************************************************************************)
EXTENDS Integers, Sequences, FiniteSets

CONSTANTS
    Conn,         \* connections: of one user's devices, say
    NoConn,
    Sizes,        \* serialized sizes of requests
    AnswerSizes,  \* serialized sizes of answers
    NotiSizes,    \* serialized sizes of notifications
    Capacity,     \* Message_Type::message, the bytes of a buffer: 1024
    CodeBase,     \* values of a byte of the length code: 128
    MaxRequests,  \* bound: requests sent
    MaxFailures   \* bound: connections a write of which fails

SessionidLength == 2
MsgTypeLength == 1
VarLength == 2
Padding == SessionidLength + MsgTypeLength + VarLength

\* Fault: the length code is forgotten in the size of a piece.
MaxLengthNoCode == Capacity - SessionidLength - MsgTypeLength

\* The most data yijianBuffer puts into one frame.
MaxLength == Capacity - Padding

ASSUME FrameAssumption ==
    /\ NoConn \notin Conn
    /\ Capacity \in Nat /\ CodeBase \in Nat
    /\ MaxRequests \in Nat /\ MaxFailures \in Nat
    /\ 0 < MaxLength /\ 1 < CodeBase /\ MaxLength < CodeBase * CodeBase
    /\ Sizes \subseteq Nat /\ AnswerSizes \subseteq Nat /\ NotiSizes \subseteq Nat

VARIABLES
    reqs,     \* the requests sent: connection, size
    up,       \* frames in flight to the server
    vec,      \* Read_IO::buffer_sp_v, without the buffer being read into
    stalled,  \* the buffer being read into will not be finished
    served,   \* the node is in the ping list and the uuid map
    failed,   \* history: SSL_write has failed on data it was given
    jobs,     \* requests given to the pool
    mounts,   \* what the pool thread has still to mount, the current one first
    mutex,    \* the connection whose buffers_p_mutex the pool thread holds
    bufs,     \* the buffers of answers and notifications
    wq,       \* Write_IO::buffers_p, as indices into bufs
    wire      \* frames written to the client

readVars == <<up, vec, stalled>>
writeVars == <<bufs, wq>>
vars == <<reqs, readVars, served, failed, jobs, mounts, mutex, writeVars, wire>>

-----------------------------------------------------------------------------
(* One message, one frame.                                                 *)

Least(a, b) == IF a < b THEN a ELSE b

\* How often the loop of yijianBuffer runs.
PieceCount(size) ==
    IF size = 0 THEN 1 ELSE (size + MaxLength - 1) \div MaxLength

\* The lengths of the pieces; the last one is what substr finds left.
Pieces(size) ==
    [i \in 1..PieceCount(size) |->
        IF MaxLength * i > size THEN size - MaxLength * (i - 1) ELSE MaxLength]

\* Bytes of the length code: encoding_var_length, decoding_var_length.
CodeLength(len) == IF len < CodeBase THEN 1 ELSE 2

DataPos(len) == SessionidLength + MsgTypeLength + CodeLength(len)

FrameSize(len) == DataPos(len) + len

\* remain_data_length_ once the header is parsed: the header is read by asking
\* for Padding bytes, which may take some of the data.
RemainLength(len) == len - (Least(Padding, FrameSize(len)) - DataPos(len))

\* Fault: a frame that fills the buffer is refused.
FitsBufferLess(len) == RemainLength(len) + Padding < Capacity

FitsBuffer(len) == RemainLength(len) + Padding <= Capacity

\* socket_read comes to isFinish_.  It does not when nothing remains after the
\* header: the loop goes on to an SSL_read of no bytes, which fails.  The test
\* for the end of the length code looks at offset 4 and up, one byte too far.
\* With a two byte code offset 4 is its second byte; with one byte it is data
\* (high: its top bit is set) and then a byte nothing was read into.
Finishes(f, garbage) ==
    /\ RemainLength(f.len) > 0
    /\ FitsBuffer(f.len)
    /\ CodeLength(f.len) = 1 => ~(f.high /\ garbage)

\* The frames of request n, r, as its client sends them.  Data that continues a
\* message may begin with any byte, the first byte of a message is the tag of
\* a field and below 128.
RequestFrames(n, r) ==
    LET p == Pieces(r.size)
    IN [i \in 1..Len(p) |-> [req |-> n, part |-> i, len |-> p[i],
                             high |-> i > 1 /\ r.high, last |-> i = Len(p)]]

-----------------------------------------------------------------------------
Init ==
    /\ reqs = <<>>
    /\ up = [c \in Conn |-> <<>>]
    /\ vec = [c \in Conn |-> <<>>]
    /\ stalled = [c \in Conn |-> FALSE]
    /\ served = [c \in Conn |-> TRUE]
    /\ failed = [c \in Conn |-> FALSE]
    /\ jobs = <<>> /\ mounts = <<>> /\ mutex = NoConn
    /\ bufs = <<>>
    /\ wq = [c \in Conn |-> <<>>]
    /\ wire = [c \in Conn |-> <<>>]

\* A client sends a request, split by yijianBuffer as well.
Post(c) ==
    /\ Len(reqs) < MaxRequests
    /\ \E size \in Sizes, high \in BOOLEAN :
          /\ high => size > MaxLength
          /\ LET r == [conn |-> c, size |-> size, high |-> high]
             IN /\ reqs' = Append(reqs, r)
                /\ up' = [up EXCEPT ![c] = @ \o RequestFrames(Len(reqs) + 1, r)]
    /\ UNCHANGED <<vec, stalled, served, failed, jobs, mounts, mutex, writeVars, wire>>

\* Fault: buffer_sp_v keeps the frames of the request.
KeptFramesAll(v) == v

\* buffer_sp_v after a request has been given to the pool.
KeptFrames(v) == <<>>

\* connection_read_callback: a frame that is finished joins the vector, the
\* last one of a request sends the vector to the pool.
ReadFrame(c, garbage) ==
    /\ served[c] /\ ~stalled[c]
    /\ up[c] # <<>>
    /\ LET f == Head(up[c])
           v == Append(vec[c], f)
       IN IF ~Finishes(f, garbage)
          THEN /\ stalled' = [stalled EXCEPT ![c] = TRUE]
               /\ UNCHANGED <<vec, jobs>>
          ELSE /\ vec' = [vec EXCEPT ![c] = IF f.last THEN KeptFrames(v) ELSE v]
               /\ jobs' = IF f.last THEN Append(jobs, [conn |-> c, frames |-> v]) ELSE jobs
               /\ UNCHANGED stalled
    /\ up' = [up EXCEPT ![c] = Tail(@)]
    /\ UNCHANGED <<reqs, served, failed, mounts, mutex, writeVars, wire>>

\* The next record after a frame that was not finished: SSL_read is asked for
\* none of its bytes, or for a negative number, and its error is one of those
\* that close the node.
ReadAfterStall(c) ==
    /\ served[c] /\ stalled[c]
    /\ up[c] # <<>>
    /\ served' = [served EXCEPT ![c] = FALSE]
    /\ UNCHANGED <<reqs, readVars, failed, jobs, mounts, mutex, writeVars, wire>>

-----------------------------------------------------------------------------
(* The pool thread.                                                        *)

\* The buffers of a message, with session id and last flag not yet set.  left
\* is remain_data_length_: encoding sets it and socket_write takes it to 0.
NewBuffers(n, kind, size) ==
    LET p == Pieces(size)
    IN [i \in 1..Len(p) |-> [req |-> n, kind |-> kind, part |-> i, of |-> Len(p),
                             last |-> FALSE, left |-> FrameSize(p[i])]]

\* dispatch of a request: an answer to its connection and, or not, the same
\* notification buffers for every other connection, if there is one.
DispatchJob ==
    /\ jobs # <<>> /\ mounts = <<>>
    /\ LET j == Head(jobs)
           n == Head(j.frames).req
       IN \E size \in AnswerSizes, noti \in NotiSizes, notify \in BOOLEAN :
          /\ notify => Conn # {j.conn}
          /\ LET res == NewBuffers(n, "res", size)
                 more == IF notify THEN NewBuffers(n, "noti", noti) ELSE <<>>
                 first == Len(bufs) + Len(res)
             IN /\ bufs' = bufs \o res \o more
                /\ mounts' =
                     <<[to |-> {j.conn}, now |-> NoConn,
                        from |-> Len(bufs) + 1, upto |-> first]>> \o
                     (IF notify
                      THEN <<[to |-> Conn \ {j.conn}, now |-> NoConn,
                              from |-> first + 1, upto |-> Len(bufs')]>>
                      ELSE <<>>)
    /\ jobs' = Tail(jobs)
    /\ UNCHANGED <<reqs, readVars, served, failed, mutex, wq, wire>>

\* The mount is done for c: with the next connection, or the next message.
Mounted(c) ==
    LET m == Head(mounts)
    IN IF m.to = {c} THEN Tail(mounts)
       ELSE <<[m EXCEPT !.to = @ \ {c}, !.now = NoConn]>> \o Tail(mounts)

\* Fault: the mutex of the queue is let go before the last flag is set.
HoldsNone(c) == NoConn

\* The mutex the pool thread keeps between the two steps of a mount.
Holds(c) == c

\* mountBuffer2Node, traverseDevices: under the mutex of the queue every
\* buffer is marked not the last and pushed ...
MountFrames(c) ==
    /\ mounts # <<>>
    /\ LET m == Head(mounts)
       IN /\ m.now = NoConn /\ c \in m.to
          /\ served[c] \/ bufs[m.from].kind = "res"
          /\ bufs' = [b \in 1..Len(bufs) |->
                        IF b \in m.from..m.upto THEN [bufs[b] EXCEPT !.last = FALSE]
                        ELSE bufs[b]]
          /\ wq' = [wq EXCEPT ![c] = @ \o [i \in 1..(m.upto - m.from + 1) |-> m.from + i - 1]]
          /\ mounts' = <<[m EXCEPT !.now = c]>> \o Tail(mounts)
    /\ mutex' = Holds(c)
    /\ UNCHANGED <<reqs, readVars, served, failed, jobs, wire>>

\* ... and then the last one as the last.
MountLast ==
    /\ mounts # <<>>
    /\ LET m == Head(mounts)
       IN /\ m.now # NoConn
          /\ bufs' = [bufs EXCEPT ![m.upto].last = TRUE]
          /\ mounts' = Mounted(m.now)
    /\ mutex' = NoConn
    /\ UNCHANGED <<reqs, readVars, served, failed, jobs, wq, wire>>

\* mountBuffer2Device does not find the device in the uuid map.
MountNobody(c) ==
    /\ mounts # <<>>
    /\ LET m == Head(mounts)
       IN /\ m.now = NoConn /\ c \in m.to
          /\ bufs[m.from].kind = "noti" /\ ~served[c]
    /\ mounts' = Mounted(c)
    /\ UNCHANGED <<reqs, readVars, served, failed, jobs, mutex, writeVars, wire>>

-----------------------------------------------------------------------------
(* connection_write_callback: the front of the queue is taken under its    *)
(* mutex and written without it.                                           *)

\* Fault: the buffer written stays at the front.
PopBufferNot(q) == q

\* A buffer written to its end leaves the queue.
PopBuffer(q) == Tail(q)

WriteFrame(c) ==
    /\ wq[c] # <<>> /\ mutex # c
    /\ LET b == Head(wq[c])
       IN /\ bufs[b].left > 0
          /\ wire' = [wire EXCEPT ![c] = Append(@, [b |-> b, last |-> bufs[b].last])]
          /\ bufs' = [bufs EXCEPT ![b].left = 0]
    /\ wq' = [wq EXCEPT ![c] = PopBuffer(@)]
    /\ UNCHANGED <<reqs, readVars, served, failed, jobs, mounts, mutex>>

\* A buffer with nothing left to write: SSL_write of no bytes fails and the
\* node is dropped, its queue as it was.
WriteNothing(c) ==
    /\ served[c]
    /\ wq[c] # <<>> /\ mutex # c
    /\ bufs[Head(wq[c])].left = 0
    /\ served' = [served EXCEPT ![c] = FALSE]
    /\ UNCHANGED <<reqs, readVars, failed, jobs, mounts, mutex, writeVars, wire>>

\* SSL_write fails, with WANT_WRITE when the socket is full: socket_write
\* throws and the node is dropped, the buffer and its queue as they were.
\* The watcher stays, so a later callback may write the same frame.
WriteFails(c) ==
    /\ Cardinality({x \in Conn : failed[x]}) < MaxFailures
    /\ served[c]
    /\ wq[c] # <<>> /\ mutex # c
    /\ bufs[Head(wq[c])].left > 0
    /\ served' = [served EXCEPT ![c] = FALSE]
    /\ failed' = [failed EXCEPT ![c] = TRUE]
    /\ UNCHANGED <<reqs, readVars, jobs, mounts, mutex, writeVars, wire>>

Next ==
    \/ \E c \in Conn : \/ Post(c) \/ ReadAfterStall(c) \/ MountFrames(c)
                       \/ MountNobody(c) \/ WriteFrame(c) \/ WriteNothing(c) \/ WriteFails(c)
                       \/ \E garbage \in BOOLEAN : ReadFrame(c, garbage)
    \/ DispatchJob \/ MountLast

Spec == Init /\ [][Next]_vars

\* libev calls a ready watcher and the pool thread goes on with its job.
Fairness ==
    /\ WF_vars(DispatchJob) /\ WF_vars(MountLast)
    /\ \A c \in Conn :
          /\ WF_vars(\E garbage \in BOOLEAN : ReadFrame(c, garbage))
          /\ WF_vars(ReadAfterStall(c))
          /\ WF_vars(MountFrames(c)) /\ WF_vars(MountNobody(c))
          /\ WF_vars(served[c] /\ WriteFrame(c)) /\ WF_vars(WriteNothing(c))

FairSpec == Spec /\ Fairness

-----------------------------------------------------------------------------
(* Properties.                                                             *)

Frame == [req : 1..MaxRequests, part : Nat, len : 0..MaxLength,
          high : BOOLEAN, last : BOOLEAN]
Buffer == [req : 1..MaxRequests, kind : {"res", "noti"}, part : Nat, of : Nat,
           last : BOOLEAN, left : 0..Capacity]

\* Type invariant; no frame is larger than the buffer it is put in.
TypeOK ==
    /\ reqs \in Seq([conn : Conn, size : Sizes, high : BOOLEAN])
    /\ up \in [Conn -> Seq(Frame)] /\ vec \in [Conn -> Seq(Frame)]
    /\ stalled \in [Conn -> BOOLEAN]
    /\ served \in [Conn -> BOOLEAN] /\ failed \in [Conn -> BOOLEAN]
    /\ jobs \in Seq([conn : Conn, frames : Seq(Frame)])
    /\ mounts \in Seq([to : SUBSET Conn, now : Conn \cup {NoConn}, from : Nat, upto : Nat])
    /\ mutex \in Conn \cup {NoConn}
    /\ bufs \in Seq(Buffer)
    /\ wq \in [Conn -> Seq(1..Len(bufs))]
    /\ wire \in [Conn -> Seq([b : 1..Len(bufs), last : BOOLEAN])]

\* What connection_read_callback gives to the pool is one whole request of
\* that connection, its frames in order and none of another one, whatever
\* stalls and closes in between: the frames but the last are full and with the
\* last one make up the message.
WholeRequests ==
    \A i \in 1..Len(jobs) :
        LET j == jobs[i]
            n == j.frames[1].req
            last == Len(j.frames)
        IN /\ j.frames = RequestFrames(n, reqs[n])
           /\ j.conn = reqs[n].conn
           /\ \A k \in 1..(last - 1) : j.frames[k].len = MaxLength
           /\ MaxLength * (last - 1) + j.frames[last].len = reqs[n].size

\* The writer puts each message on a connection as its parts in order with
\* nothing between them, although the pool thread pushes and the loop takes
\* without a common order; the last flag of an answer, set after its frames
\* were pushed, is on the wire on its last frame and on no other.
Framed ==
    \A c \in Conn : \A i \in 1..Len(wire[c]) :
        LET w == wire[c][i]
            b == bufs[w.b]
        IN /\ b.part > 1 => i > 1 /\ wire[c][i - 1].b = w.b - 1
           /\ b.part = 1 /\ i > 1 => LET x == bufs[wire[c][i - 1].b] IN x.part = x.of
           /\ b.kind = "res" => (w.last <=> b.part = b.of)

\* The front of c's queue is a buffer another connection has had.
TakenByAnother(c) ==
    /\ wq[c] # <<>>
    /\ \E x \in Conn \ {c} : \E i \in 1..Len(wire[x]) : wire[x][i].b = Head(wq[c])

\* A connection is given up for a frame of its own client that could not be
\* finished, for an SSL_write of its own that failed on data it was given, or
\* for a notification buffer that another device has used up: one client's
\* buffer of an answer is never the reason, nor is a frame the connection was
\* sent itself, and nothing that stalls or fails elsewhere.
DropHasCause ==
    \A c \in Conn : ~served[c] =>
        \/ stalled[c] \/ failed[c]
        \/ TakenByAnother(c) /\ bufs[Head(wq[c])].kind = "noti"

Answered(n) ==
    \E i \in 1..Len(wire[reqs[n].conn]) :
        LET w == wire[reqs[n].conn][i]
        IN bufs[w.b].req = n /\ bufs[w.b].kind = "res" /\ w.last

\* c has sent a frame with less than two bytes of data, or one that goes on
\* with a byte above 127.
Unreadable(c) ==
    \E k \in 1..Len(reqs) :
        /\ reqs[k].conn = c
        /\ reqs[k].size = 0 \/ reqs[k].size % MaxLength = 1 \/ reqs[k].high

\* A request of which every frame has two bytes of data at least, and a full
\* one if its last frame is, is read, joined and answered, unless its
\* connection sent one that cannot be read, had a write that failed or waits
\* behind a notification another device had.
EveryRequestAnswered ==
    \A n \in 1..MaxRequests :
        (n <= Len(reqs)) ~> (n <= Len(reqs) /\ (\/ Answered(n)
                                                \/ TakenByAnother(reqs[n].conn)
                                                \/ failed[reqs[n].conn]
                                                \/ Unreadable(reqs[n].conn)))

\* "current server subscribe to toNode devices(exclude require device)"
\* (server_msg_typemap.cxx:166): when the pool thread is done, nothing can be
\* written any more and no write has failed on its own data, every frame
\* mounted for a device has been written.
Idle ==
    /\ jobs = <<>> /\ mounts = <<>>
    /\ \A c \in Conn : ~failed[c] /\ (served[c] => wq[c] = <<>>)
EachDeviceNotified == Idle => \A c \in Conn : wq[c] = <<>>
=============================================================================
