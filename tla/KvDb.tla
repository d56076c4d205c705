-------------------------------- MODULE KvDb --------------------------------
(***************************************************************************)
(* The client database, kvdb.cxx: calls of the application, the callbacks  *)
(* kept for their answers, and the messages kept in leveldb, first under   *)
(* the session id they were sent with and then under the id the server     *)
(* gave them.                                                              *)
(*                                                                         *)
(* One thread of the application calls, the thread of create_client runs   *)
(* the loop, dispatches what it reads and, for a notification, sends a     *)
(* query itself.  Unlike netyi, kvdb puts a callback in its map after the  *)
(* frame was sent, without a lock over both.  The model begins connected;  *)
(* the server is the one kvdb was written for, which answers a query with  *)
(* the messages themselves.  leveldb keeps what was put across restarts.   *)
(***************************************************************************)
EXTENDS Integers, Sequences, SequencesExt

CONSTANTS
    Kinds,        \* the calls made: subset of AllKinds
    MaxCalls,     \* bound: calls of the application
    MaxNoti,      \* bound: messages of a peer, each notified
    MaxAnswers,   \* bound: answers to one query
    MaxRestarts   \* bound: ends of the process

AllKinds == {"request", "message", "query", "leave", "onunread"}

ASSUME KvDbAssumption ==
    /\ Kinds \subseteq AllKinds
    /\ MaxCalls \in Nat \ {0} /\ MaxNoti \in Nat
    /\ MaxAnswers \in Nat \ {0} /\ MaxRestarts \in Nat

VARIABLES
    cbmap,      \* sessionid_cbfunc_map_: key to the call that put the callback
    mmap,       \* sessionid_mmap_: callbacks of queries
    temp,       \* leveldb, keys that are a session id: messages not acknowledged
    msgs,       \* leveldb, msgKey: messages under the server's id
    sessionid,  \* read_io_->sessionid
    th,         \* per thread: its progress in a call
    erasing,    \* the loop thread is to erase this key of mmap
    alive,      \* no exception has ended the process
    out,        \* frames to the server
    back,       \* frames from the server
    srv,        \* the id the server checks next
    stored,     \* the server's messages: the call that sent it, or Peer
    made,       \* the kinds of the calls made, in order
    gone,       \* the calls up to here were made before the last restart
    restarts,   \* number of restarts
    ran,        \* history: callbacks that ran and the call answered
    missed,     \* history: calls an answer of which found no callback
    overlap,    \* history: two threads were in client_send at once
    stale       \* history: a restart left a temporary key whose id comes again

maps == <<cbmap, mmap>>
db == <<temp, msgs>>
server == <<srv, stored>>
past == <<made, gone, restarts>>
hist == <<ran, missed, stale>>
vars == <<maps, db, sessionid, th, erasing, alive, out, back, server, past, hist, overlap>>

Thread == {"main", "loop"}
Call == 1..(MaxCalls + MaxNoti)
NoCall == 0
Peer == MaxCalls + MaxNoti + 1
Id == Call

FirstSid == 100     \* MinSessionID
Sid == FirstSid..(FirstSid + MaxCalls + MaxNoti)
NoSid == 0

\* logout_disconnect, accept_unread_msg: put in the map before sending.
Reserved == {-2, -3}

KeyOf(kind, sid) ==
    CASE kind = "leave" -> -2
      [] kind = "onunread" -> -3
      [] OTHER -> sid

Idle == [step |-> "idle"]
Busy(t) == th[t] # Idle

Init ==
    /\ cbmap = [k \in Sid \cup Reserved |-> NoCall] /\ mmap = [k \in Sid |-> NoCall]
    /\ temp = [k \in Sid |-> NoCall] /\ msgs = [i \in Id |-> NoCall]
    /\ sessionid = FirstSid /\ srv = FirstSid
    /\ th = [t \in Thread |-> Idle] /\ erasing = NoSid /\ alive = TRUE
    /\ out = <<>> /\ back = <<>> /\ stored = <<>>
    /\ made = <<>> /\ gone = 0 /\ restarts = 0
    /\ ran = {} /\ missed = {} /\ overlap = FALSE /\ stale = FALSE

-----------------------------------------------------------------------------
(* A call of the application: put_map_send and its variants, client_send.  *)

\* Bounds that follow from those on calls and messages, for the ranges of the
\* numbers: a notification is answered by one call of the loop thread.
RoomToCall == Len(made) < MaxCalls + MaxNoti
RoomToStore == Len(stored) < MaxCalls + MaxNoti

MayCall ==
    /\ alive /\ ~Busy("main") /\ RoomToCall
    /\ Len(SelectSeq(made, LAMBDA k : k # "relay")) < MaxCalls

\* acceptUnreadMsg.
OnUnread ==
    /\ MayCall
    /\ "onunread" \in Kinds
    /\ made' = Append(made, "onunread")
    /\ cbmap' = [cbmap EXCEPT ![KeyOf("onunread", NoSid)] = Len(made')]
    /\ UNCHANGED <<mmap, db, sessionid, th, erasing, alive, out, back, server,
                   gone, restarts, hist, overlap>>

\* The thread enters client_send and reads the session id; id is the message
\* asked for.
Send(t, kind, id) ==
    /\ made' = Append(made, kind)
    /\ th' = [th EXCEPT ![t] = [step |-> "store", kind |-> kind, sid |-> sessionid,
                                call |-> Len(made) + 1, id |-> id]]
    /\ overlap' = (overlap \/ \E x \in Thread \ {t} : th[x].step \in {"store", "push"})

\* Nothing is called after a logout.
Start(kind) ==
    /\ MayCall
    /\ kind \in Kinds /\ "leave" \notin ToSet(made)
    /\ Send("main", kind, 0)
    /\ UNCHANGED <<mmap, db, sessionid, erasing, alive, out, back, server,
                   gone, restarts, hist>>

\* addfriend, queryuser and the like; sendmessage2user; querymsg.
StartCall(kind) ==
    /\ kind \in {"request", "message", "query"}
    /\ Start(kind)
    /\ UNCHANGED cbmap

\* logout, disconnect: the callback is put before the frame is sent.
StartLeave ==
    /\ Start("leave")
    /\ cbmap' = [cbmap EXCEPT ![KeyOf("leave", NoSid)] = Len(made')]

\* Fault: the id is not advanced.
NextSidSame(sid) == sid

\* Fault: the caller advances the id as well.
NextSidTwice(sid) == sid + 2

NextSid(sid) == sid + 1

StoreSessionID(t) ==
    /\ alive /\ th[t].step = "store"
    /\ sessionid' = NextSid(th[t].sid)
    /\ th' = [th EXCEPT ![t].step = "push"]
    /\ UNCHANGED <<maps, db, erasing, alive, out, back, server, past, hist, overlap>>

PushBuffer(t) ==
    /\ alive /\ th[t].step = "push"
    /\ out' = Append(out, [kind |-> th[t].kind, sid |-> th[t].sid, of |-> th[t].call,
                           id |-> th[t].id])
    /\ th' = [th EXCEPT ![t] = IF @.kind = "leave" THEN Idle ELSE [@ EXCEPT !.step = "put"]]
    /\ UNCHANGED <<maps, db, sessionid, erasing, alive, back, server, past, hist, overlap>>

\* put_map_send: after the send, the callback.  put_map_send_dbcache goes on
\* to cache the message.
PutCallback(t) ==
    /\ alive /\ th[t].step = "put" /\ th[t].kind \notin {"query", "relay"}
    /\ cbmap' = [cbmap EXCEPT ![th[t].sid] = th[t].call]
    /\ th' = [th EXCEPT ![t] = IF @.kind = "message" THEN [@ EXCEPT !.step = "cache"]
                                                     ELSE Idle]
    /\ UNCHANGED <<mmap, db, sessionid, erasing, alive, out, back, server, past, hist, overlap>>

\* put_mmap_send.
PutQuery(t) ==
    /\ alive /\ th[t].step = "put" /\ th[t].kind \in {"query", "relay"}
    /\ mmap' = [mmap EXCEPT ![th[t].sid] = th[t].call]
    /\ th' = [th EXCEPT ![t] = Idle]
    /\ UNCHANGED <<cbmap, db, sessionid, erasing, alive, out, back, server, past, hist, overlap>>

\* Fault: one key for every message.
TempKeyOne(sid) == FirstSid

TempKey(sid) == sid

CacheMessage ==
    /\ alive /\ th["main"].step = "cache"
    /\ temp' = [temp EXCEPT ![TempKey(th["main"].sid)] = th["main"].call]
    /\ th' = [th EXCEPT !["main"] = Idle]
    /\ UNCHANGED <<maps, msgs, sessionid, erasing, alive, out, back, server,
                   past, hist, overlap>>

-----------------------------------------------------------------------------
(* The loop thread: connection_read_callback and dispatch.                 *)

\* The next frame is of this kind and the loop thread is free.
Reads(kind) ==
    /\ alive /\ ~Busy("loop") /\ erasing = NoSid
    /\ back # <<>> /\ Head(back).kind = kind
    /\ back' = Tail(back)

\* The callback that was found runs, or none was found.
Called(k, of) ==
    /\ UNCHANGED stale
    /\ ran' = IF k = NoCall THEN ran ELSE ran \cup {[call |-> k, of |-> of]}
    /\ missed' = IF k = NoCall THEN missed \cup {of} ELSE missed

CallErase(key, of) ==
    /\ Called(cbmap[key], of)
    /\ cbmap' = [cbmap EXCEPT ![key] = NoCall]

JustCalls == UNCHANGED <<mmap, db, sessionid, th, erasing, alive, out, server, past, overlap>>

\* Answers that only call back: creategroupRes, queryuserRes and the like.
ReadRes ==
    /\ Reads("res")
    /\ CallErase(Head(back).sid, Head(back).of)
    /\ JustCalls

\* An error is looked up in this map whatever call it answers.
ReadError ==
    /\ Reads("error")
    /\ CallErase(Head(back).sid, Head(back).of)
    /\ JustCalls

\* logoutRes, disconnectRes.
ReadLeave ==
    /\ Reads("leaveres")
    /\ CallErase(KeyOf("leave", NoSid), Head(back).of)
    /\ JustCalls

\* Fault: the temporary key is not deleted.
WithoutTempNot(sid) == temp

WithoutTemp(sid) == [temp EXCEPT ![sid] = NoCall]

\* messageRes: one batch moves the message from its temporary key.  Without
\* that key it throws, and the read callback throws on and ends the process.
MessageRes ==
    /\ Reads("msgres")
    /\ LET sid == Head(back).sid
       IN IF temp[sid] = NoCall
          THEN /\ alive' = FALSE
               /\ UNCHANGED <<temp, msgs, cbmap, hist>>
          ELSE /\ msgs' = [msgs EXCEPT ![Head(back).id] = temp[sid]]
               /\ temp' = WithoutTemp(sid)
               /\ CallErase(sid, Head(back).of)
               /\ UNCHANGED alive
    /\ UNCHANGED <<mmap, sessionid, th, erasing, out, server, past, overlap>>

\* nodemessage: the message is put (putMsg refuses id 0, which no message of a
\* conversation has here), then call_mmap.  The mutex is free while
\* the callback runs and taken again to erase it, unless it asked for more.
\* The query of msgunreadnoti hands the message to accept_unread_msg and stops.
IsRelay(k) == k # NoCall /\ made[k] = "relay"
Unread(k) == IF IsRelay(k) THEN {cbmap[KeyOf("onunread", NoSid)]} ELSE {}

NodeMessage(isStop) ==
    /\ Reads("msg")
    /\ LET f == Head(back)
           k == mmap[f.sid]
       IN /\ msgs' = [msgs EXCEPT ![f.id] = stored[f.id]]
          /\ UNCHANGED stale
          /\ missed' = IF k = NoCall THEN missed \cup {f.of} ELSE missed
          /\ ran' = ran \cup {[call |-> c, of |-> f.of] :
                              c \in ({k} \cup Unread(k)) \ {NoCall}}
          /\ IsRelay(k) => isStop
          /\ erasing' = IF k # NoCall /\ isStop THEN f.sid ELSE NoSid
    /\ UNCHANGED <<maps, temp, sessionid, th, alive, out, server, past, overlap>>

EraseQuery ==
    /\ alive /\ erasing # NoSid
    /\ mmap' = [mmap EXCEPT ![erasing] = NoCall]
    /\ erasing' = NoSid
    /\ UNCHANGED <<cbmap, db, sessionid, th, alive, out, back, server, past, hist, overlap>>

\* msgunreadnoti: the loop thread calls queryonemsg.
MsgUnreadNoti ==
    /\ Reads("noti") /\ RoomToCall
    /\ Send("loop", "relay", Head(back).id)
    /\ UNCHANGED <<maps, db, sessionid, erasing, alive, out, server, gone, restarts, hist>>

-----------------------------------------------------------------------------
(* The server: frames one at a time, in order, each checked against the id *)
(* it expects; an error for another id carries the expected one.           *)

Answer(f, kind, id) == [kind |-> kind, sid |-> f.sid, of |-> f.of, id |-> id]

\* What a frame may be answered with.
Answers(f) ==
    {<<Answer(f, "error", 0)>>} \cup
    (CASE f.kind = "request" -> {<<Answer(f, "res", 0)>>}
       [] f.kind = "leave" -> {<<Answer(f, "leaveres", 0)>>}
       [] f.kind = "message" -> {<<Answer(f, "msgres", Len(stored) + 1)>>}
       [] f.kind = "relay" -> {<<Answer(f, "msg", f.id)>>}
       [] f.kind = "query" ->
             {a \in {[i \in 1..n |-> Answer(f, "msg", m + i - 1)] : n \in 1..MaxAnswers, m \in Id} :
                 a[Len(a)].id <= Len(stored)})

Serve ==
    /\ out # <<>>
    /\ LET f == Head(out)
       IN IF f.sid # srv /\ f.kind # "leave"
          THEN /\ back' = Append(back, Answer([f EXCEPT !.sid = srv], "error", 0))
               /\ UNCHANGED stored
          ELSE \E a \in Answers(f) :
                  /\ a[1].kind = "msgres" => RoomToStore
                  /\ back' = back \o a
                  /\ stored' = IF a[1].kind = "msgres" THEN Append(stored, f.of) ELSE stored
    /\ srv' = srv + 1
    /\ out' = Tail(out)
    /\ UNCHANGED <<maps, db, sessionid, th, erasing, alive, past, hist, overlap>>

\* A peer's message reaches the server, which notifies this client.
Notify ==
    /\ Len(SelectSeq(stored, LAMBDA s : s = Peer)) < MaxNoti /\ RoomToStore
    /\ stored' = Append(stored, Peer)
    /\ back' = Append(back, [kind |-> "noti", sid |-> NoSid, of |-> NoCall,
                             id |-> Len(stored')])
    /\ UNCHANGED <<maps, db, sessionid, th, erasing, alive, out, srv, past, hist, overlap>>

\* The process ends, by an exception or by the user, and is started again:
\* leveldb is left, the connection is a new one.  The server goes on with the
\* id it has stored for the device, or begins again after a login.
Restart ==
    /\ restarts < MaxRestarts
    /\ restarts' = restarts + 1
    /\ gone' = Len(made)
    /\ cbmap' = [k \in Sid \cup Reserved |-> NoCall] /\ mmap' = [k \in Sid |-> NoCall]
    /\ \E s \in {srv, FirstSid} : srv' = s /\ sessionid' = s
    /\ th' = [t \in Thread |-> Idle] /\ erasing' = NoSid /\ alive' = TRUE
    /\ out' = <<>> /\ back' = <<>>
    /\ overlap' = FALSE
    /\ stale' = \E k \in Sid : k >= srv' /\ temp[k] # NoCall
    /\ UNCHANGED <<db, stored, made, ran, missed>>

-----------------------------------------------------------------------------
Go(t) == StoreSessionID(t) \/ PushBuffer(t) \/ PutCallback(t) \/ PutQuery(t)
Read ==
    \/ ReadRes \/ ReadError \/ ReadLeave \/ MessageRes \/ MsgUnreadNoti \/ EraseQuery
    \/ \E isStop \in BOOLEAN : NodeMessage(isStop)

Next ==
    \/ OnUnread \/ StartLeave \/ \E kind \in AllKinds : StartCall(kind)
    \/ \E t \in Thread : Go(t)
    \/ CacheMessage
    \/ Read
    \/ Serve \/ Notify \/ Restart

Spec == Init /\ [][Next]_vars

-----------------------------------------------------------------------------
(* Properties.                                                             *)

\* Type invariant.
TypeOK ==
    /\ cbmap \in [Sid \cup Reserved -> Call \cup {NoCall}]
    /\ mmap \in [Sid -> Call \cup {NoCall}]
    /\ temp \in [Sid -> Call \cup {NoCall}]
    /\ msgs \in [Id -> Call \cup {NoCall, Peer}]
    /\ sessionid \in Sid /\ srv \in Sid /\ erasing \in Sid \cup {NoSid}
    /\ \A t \in Thread : Busy(t) => th[t].sid \in Sid /\ th[t].call \in Call
    /\ alive \in BOOLEAN /\ overlap \in BOOLEAN /\ stale \in BOOLEAN
    /\ stored \in Seq(Call \cup {Peer}) /\ made \in Seq(AllKinds \cup {"relay"})
    /\ gone \in Call \cup {0} /\ restarts \in 0..MaxRestarts
    /\ ran \subseteq [call : Call, of : Call] /\ missed \subseteq Call

\* A message in the database under the server's id is the one the server has
\* under that id, whether it was sent from here or read from the server.  A
\* temporary key left from before a restart is the exception.
CacheTrue ==
    \A i \in Id : msgs[i] # NoCall /\ msgs[i] # Peer /\ msgs[i] > gone /\ ~overlap
                     => i <= Len(stored) /\ msgs[i] = stored[i]

\* A message whose call has returned is in the database once, under its
\* temporary key or under the server's id, in every interleaving with the
\* answer and with queries that read it back.  The exception is a key left from
\* before a restart, which the answer takes for the message's own.  An answer
\* without its key ends the process (50030): that happens only when it comes
\* before the sender has put the key.
KeptOnce ==
    /\ \A k \in (gone + 1)..Len(made) :
          made[k] = "message" /\ ~overlap /\ ~stale /\ ~(Busy("main") /\ th["main"].call = k)
              => (\E s \in Sid : temp[s] = k) # (\E i \in Id : msgs[i] = k)
    /\ ~alive => overlap \/ th["main"].step \in {"put", "cache"}

\* An answer is given to the callback of its own call, although the callback is
\* put after the frame was sent, callbacks that missed their answer stay in the
\* map and a restart may begin the ids again.  It finds no callback only if it
\* comes before the callback is put, after it has run, or is an error to a call
\* whose callback is not kept in sessionid_cbfunc_map_ under its session id: a
\* query or a logout.  client_send by two threads at once is the exception.
OwnAnswer ==
    [][overlap \/
          /\ \A r \in ran' \ ran :
                \/ r.call = r.of
                \/ made[r.call] = "onunread" /\ made[r.of] = "relay"
          /\ \A k \in missed' \ missed :
                \/ Busy("main") /\ th["main"].call = k
                \/ \E r \in ran : r.call = k
                \/ made[k] \in {"query", "relay", "leave"} /\ Head(back).kind = "error"]_vars
=============================================================================
