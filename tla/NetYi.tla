------------------------------- MODULE NetYi -------------------------------
(* The client network library: netyi (net_yi.cxx), its map of callbacks,   *)
(* and the sending and receiving half of lib_client.cxx under it.          *)
(*                                                                         *)
(* Threads of the application call netyi; one more thread runs the libev   *)
(* loop, reads the answers and runs the callbacks, which may call netyi    *)
(* again.  The map has a mutex, read_io_->sessionid has none.  A frame is  *)
(* sent and read in one step.  A read error ends the process and is left   *)
(* out.                                                                    *)
(*                                                                         *)
(* At the other end is the node of this connection in the server: its loop *)
(* gives every frame an id to be checked against, its worker refuses a     *)
(* frame with another id, and mounts every answer under the id that was    *)
(* expected.                                                               *)
EXTENDS Integers, Sequences, FiniteSets, SequencesExt

CONSTANTS
    App,          \* application threads
    Loop,         \* the thread of create_client
    NoThread,     \* nobody holds sessionid_map_mutex_
    Kinds,        \* the calls made: subset of AllKinds
    MaxCalls,     \* bound: calls made
    MaxNoti,      \* bound: notifications the server sends
    MaxAnswers    \* bound: answers to one query

AllKinds == {"login", "connect", "leave", "request", "query", "onuser"}

ASSUME NetAssumption ==
    /\ Loop \notin App /\ NoThread \notin App \cup {Loop}
    /\ Kinds \subseteq AllKinds
    /\ MaxCalls \in Nat \ {0} /\ 2 * MaxCalls <= 65536   \* the ids do not wrap
    /\ MaxNoti \in Nat /\ MaxAnswers \in Nat \ {0}

VARIABLES
    cbmap,      \* sessionid_cbfunc_map_: key to the call that put the callback
    mutex,      \* the holder of sessionid_map_mutex_
    sessionid,  \* read_io_->sessionid
    th,         \* per thread: its progress in a put
    loop,       \* the loop thread's progress in call_map
    out,        \* buffers_p: frames to write
    async,      \* ev_async_send is pending
    writing,    \* the write watcher is started
    wire,       \* frames on their way to the server
    nodesid,    \* server: the sessionid of the node
    jobs,       \* server: frames for the worker, with the id expected of each
    back,       \* frames on their way to the client
    made,       \* the kinds of the calls made, in order
    notis,      \* number of notifications sent
    ran,        \* history: the callbacks that ran and the answer they got
    stopped,    \* history: the calls whose callback ended with isStop
    pending,    \* history: a login or connect was sent, no clientconnectres read since
    across      \* history: a frame was sent before a connect or across one

sendVars == <<out, async, writing>>
netVars == <<wire, nodesid, jobs, back, notis>>
callVars == <<ran, stopped>>
histVars == <<callVars, pending, across>>
vars == <<cbmap, mutex, sessionid, th, loop, sendVars, netVars, made, histVars>>

Thread == App \cup {Loop}
Call == 1..MaxCalls

\* Ids before the clientconnectres count from 0, ids after it from FirstSid,
\* which stands for MinSessionID (100) and for the id stored for the device.
FirstSid == MaxCalls
Sid == 0..(FirstSid + MaxCalls - 1)

\* The frames whose type is not in check_map_: the server expects id 0 of them.
Unchecked == {"login", "connect"}

\* Session_ID, the reserved keys of the map; -4 stands for accept_unread_msg
\* (-3) too.
Reserved == {-1, -2, -4}

NoCall == 0

\* The key of the callback map for a frame or a call of this kind.
KeyOf(kind, sid) ==
    CASE kind \in {"login", "connect"} -> -1
      [] kind = "leave" -> -2
      [] kind = "onuser" -> -4
      [] OTHER -> sid

Request == [kind : AllKinds, sid : Sid, of : Call]
Job == [kind : AllKinds, sid : Sid, of : Call, expected : Nat]
Frame == [kind : AllKinds \cup {"error"}, sid : Nat, of : Call \cup {NoCall}]
Idle == [step |-> "idle"]

Init ==
    /\ cbmap = [k \in Sid \cup Reserved |-> NoCall]
    /\ mutex = NoThread
    /\ sessionid = 0
    /\ th = [t \in Thread |-> Idle]
    /\ loop = Idle
    /\ out = <<>> /\ async = FALSE /\ writing = FALSE
    /\ wire = <<>> /\ nodesid = 0 /\ jobs = <<>> /\ back = <<>>
    /\ made = <<>> /\ notis = 0
    /\ ran = {} /\ stopped = {} /\ pending = FALSE /\ across = FALSE

-----------------------------------------------------------------------------
(* put_map and put_map_send.                                               *)

\* A thread is free to call netyi: an application thread, or the loop thread
\* inside a callback that still has this call to make.  It connects once, as
\* the programs of this repository do.
MayCall(t, kind) ==
    /\ th[t] = Idle
    /\ Len(made) < MaxCalls /\ kind \in Kinds
    /\ kind = "connect" => kind \notin ToSet(made)
    /\ t = Loop => loop.step = "calling" /\ loop.todo = kind

Made(t) == IF t = Loop THEN loop' = [loop EXCEPT !.todo = "none"] ELSE UNCHANGED loop

\* Fault: a put does not take the mutex.
PutLockNone == TRUE

PutLock == mutex = NoThread

\* Fault: the id is advanced by the caller as well.
NextSidTwice(sid) == (sid + 2) % 65536

\* A uint16_t.
NextSid(sid) == (sid + 1) % 65536

\* put_map: acceptUnreadMsg and userInfoNoti only leave a callback.
PutMap(t) ==
    /\ MayCall(t, "onuser") /\ PutLock
    /\ cbmap' = [cbmap EXCEPT ![KeyOf("onuser", 0)] = Len(made) + 1]
    /\ made' = Append(made, "onuser")
    /\ Made(t)
    /\ UNCHANGED <<mutex, sessionid, th, sendVars, netVars, histVars>>

\* The kinds of the frames sent so far.
Sent == ToSet(made) \ {"onuser"}

\* put_map_send takes the mutex and client_send reads the session id ...
PutMapSend(t, kind) ==
    /\ kind # "onuser" /\ MayCall(t, kind) /\ PutLock
    /\ mutex' = t
    /\ made' = Append(made, kind)
    /\ th' = [th EXCEPT ![t] = [step |-> "inc", kind |-> kind,
                                sid |-> sessionid, call |-> Len(made) + 1]]
    /\ Made(t)
    /\ pending' = (pending \/ kind \in Unchecked)
    /\ across' = (across \/ pending \/ (kind \in Unchecked /\ Sent # {}))
    /\ UNCHANGED <<cbmap, sessionid, sendVars, netVars, callVars>>

\* ... writes back the next one ...
IncSessionID(t) ==
    /\ th[t].step = "inc"
    /\ sessionid' = NextSid(th[t].sid)
    /\ th' = [th EXCEPT ![t].step = "push"]
    /\ UNCHANGED <<cbmap, mutex, loop, sendVars, netVars, made, histVars>>

\* ... queues the frame and signals the loop ...
PushBuffer(t) ==
    /\ th[t].step = "push"
    /\ out' = Append(out, [kind |-> th[t].kind, sid |-> th[t].sid, of |-> th[t].call])
    /\ async' = TRUE
    /\ th' = [th EXCEPT ![t].step = "put"]
    /\ UNCHANGED <<cbmap, mutex, sessionid, loop, writing, netVars, made, histVars>>

\* ... and the callback is put in the map before the mutex is released.
PutCallback(t) ==
    /\ th[t].step = "put"
    /\ cbmap' = [cbmap EXCEPT ![KeyOf(th[t].kind, th[t].sid)] = th[t].call]
    /\ mutex' = NoThread
    /\ th' = [th EXCEPT ![t] = Idle]
    /\ UNCHANGED <<sessionid, loop, sendVars, netVars, made, histVars>>

-----------------------------------------------------------------------------
(* The loop thread.                                                        *)

\* start_write_callback.
StartWrite ==
    /\ loop = Idle /\ async
    /\ async' = FALSE /\ writing' = TRUE
    /\ UNCHANGED <<cbmap, mutex, sessionid, th, loop, out, netVars, made, histVars>>

\* connection_write_callback: the front frame, or nothing left to write.
Write ==
    /\ loop = Idle /\ writing
    /\ IF out = <<>>
       THEN writing' = FALSE /\ UNCHANGED <<out, wire>>
       ELSE /\ wire' = Append(wire, Head(out)) /\ out' = Tail(out)
            /\ UNCHANGED writing
    /\ UNCHANGED <<cbmap, mutex, sessionid, th, loop, async, nodesid, jobs, back, notis, made, histVars>>

\* connection_read_callback: the id of a clientconnectres becomes the next
\* id to send, without a lock, and net_connect's callback picks the key.
Read ==
    /\ loop = Idle /\ back # <<>>
    /\ LET m == Head(back)
       IN /\ loop' = [step |-> "find", key |-> KeyOf(m.kind, m.sid), kind |-> m.kind,
                       of |-> m.of]
          /\ sessionid' = IF m.kind = "connect" THEN m.sid ELSE sessionid
          /\ pending' = (pending /\ m.kind # "connect")
    /\ back' = Tail(back)
    /\ UNCHANGED <<cbmap, mutex, th, sendVars, wire, nodesid, jobs, notis, made,
                   callVars, across>>

FindLock == mutex = NoThread

\* Fault: the mutex is held while the callback runs.
HeldInCallbackYes == Loop

HeldInCallback == NoThread

\* What find gives for a key.
CallbackOf(key) == IF key \in DOMAIN cbmap THEN cbmap[key] ELSE NoCall

\* call_map copies the callback under the mutex and calls it without; what
\* the callback goes on to call is its own choice.
FindCallback ==
    /\ loop.step = "find" /\ FindLock
    /\ LET k == CallbackOf(loop.key)
       IN IF k = NoCall
          THEN loop' = Idle /\ UNCHANGED <<mutex, ran>>
          ELSE /\ \E todo \in Kinds \cup {"none"} :
                     loop' = [step |-> "calling", key |-> loop.key, kind |-> loop.kind,
                              of |-> loop.of, call |-> k, todo |-> todo]
               /\ mutex' = HeldInCallback
               /\ ran' = ran \cup {[call |-> k, key |-> loop.key, kind |-> loop.kind,
                                    of |-> loop.of]}
    /\ UNCHANGED <<cbmap, sessionid, th, sendVars, netVars, made, stopped, pending, across>>

\* The callback returns; isStop is true unless it said otherwise.
Return(isStop) ==
    /\ loop.step = "calling" /\ th[Loop] = Idle
    /\ loop.todo = "none" \/ ~MayCall(Loop, loop.todo)
    /\ loop' = IF isStop THEN [loop EXCEPT !.step = "erase"] ELSE Idle
    /\ stopped' = IF isStop THEN stopped \cup {loop.call} ELSE stopped
    /\ UNCHANGED <<cbmap, mutex, sessionid, th, sendVars, netVars, made, ran, pending, across>>

\* Fault: the callback stays in the map.
ErasedNot(key) == cbmap

\* erase(it): whatever callback the element of that key holds by now.
Erased(key) == [cbmap EXCEPT ![key] = NoCall]

EraseCallback ==
    /\ loop.step = "erase" /\ mutex = NoThread
    /\ cbmap' = Erased(loop.key)
    /\ loop' = Idle
    /\ UNCHANGED <<mutex, sessionid, th, sendVars, netVars, made, histVars>>

-----------------------------------------------------------------------------
(* The server: connection_read_callback and, on a worker, dispatch.        *)

\* The loop gives a frame of a checked type the node's id and advances it,
\* any other frame 0, and sends it to the pool.  (The ids do not wrap here.)
ServerRead ==
    /\ wire # <<>>
    /\ LET m == Head(wire)
           checked == m.kind \notin Unchecked
       IN /\ jobs' = Append(jobs, [kind |-> m.kind, sid |-> m.sid, of |-> m.of,
                                   expected |-> IF checked THEN nodesid ELSE 0])
          /\ nodesid' = IF checked THEN nodesid + 1 ELSE nodesid
    /\ wire' = Tail(wire)
    /\ UNCHANGED <<cbmap, mutex, sessionid, th, loop, sendVars, back, notis, made, histVars>>

\* session_id_, which every answer is mounted with, is the id expected.
Reply(j, kind) == [kind |-> kind, sid |-> j.expected, of |-> j.of]

\* A frame with another id (11010), and a frame of a checked type before the
\* node has an id of a connected device (11013), is refused.
Refused(j) ==
    \/ j.sid # j.expected
    \/ j.kind \notin Unchecked /\ j.expected < FirstSid

\* A connect that succeeds gives the node its id, and its answer that id.
ConnectSucceeds(j) ==
    /\ nodesid' = FirstSid
    /\ back' = Append(back, Reply([j EXCEPT !.expected = FirstSid], "connect"))

\* Any other answer: of its type, one or for a query several, or an error.
Answered(j) ==
    /\ \E n \in 1..MaxAnswers :
          /\ j.kind # "query" => n = 1
          /\ back' = back \o [i \in 1..n |-> Reply(j, j.kind)]
    /\ UNCHANGED nodesid

Fails(j) == back' = Append(back, Reply(j, "error")) /\ UNCHANGED nodesid

\* A login or connect that fails is answered by a loginres or clientconnectres.
Dispatch ==
    /\ jobs # <<>>
    /\ LET j == Head(jobs)
       IN \/ Refused(j) /\ Fails(j)
          \/ ~Refused(j) /\ Answered(j)
          \/ ~Refused(j) /\ j.kind \notin Unchecked /\ Fails(j)
          \/ ~Refused(j) /\ j.kind = "connect" /\ ConnectSucceeds(j)
    /\ jobs' = Tail(jobs)
    /\ UNCHANGED <<cbmap, mutex, sessionid, th, loop, sendVars, wire, notis, made, histVars>>

Notify ==
    /\ notis < MaxNoti
    /\ notis' = notis + 1
    /\ back' = Append(back, [kind |-> "onuser", sid |-> 0, of |-> NoCall])
    /\ UNCHANGED <<cbmap, mutex, sessionid, th, loop, sendVars, wire, nodesid, jobs, made, histVars>>

-----------------------------------------------------------------------------
Put(t) == IncSessionID(t) \/ PushBuffer(t) \/ PutCallback(t)
NewCall(t) == PutMap(t) \/ \E kind \in Kinds : PutMapSend(t, kind)
Callback == FindCallback \/ (\E isStop \in BOOLEAN : Return(isStop)) \/ EraseCallback

Next ==
    \/ \E t \in Thread : NewCall(t) \/ Put(t)
    \/ StartWrite \/ Write \/ Read \/ Callback
    \/ ServerRead \/ Dispatch \/ Notify

Spec == Init /\ [][Next]_vars

\* The loop is scheduled and takes its ready watchers, a thread that
\* began a put or whose callback has a call to make goes on, the server
\* reads and its worker works.  An application thread need not call.  Weak fairness is enough:
\* finitely many calls compete for the mutex.
Fairness ==
    /\ \A t \in Thread : WF_vars(Put(t))
    /\ WF_vars(NewCall(Loop)) /\ WF_vars(Callback)
    /\ WF_vars(StartWrite) /\ WF_vars(Write) /\ WF_vars(Read)
    /\ WF_vars(ServerRead) /\ WF_vars(Dispatch)

FairSpec == Spec /\ Fairness

-----------------------------------------------------------------------------
(* Properties.                                                             *)

\* Type invariant.
TypeOK ==
    /\ cbmap \in [Sid \cup Reserved -> Call \cup {NoCall}]
    /\ mutex \in Thread \cup {NoThread}
    /\ sessionid \in Sid
    /\ \A t \in Thread : th[t] # Idle => th[t].sid \in Sid /\ th[t].call \in Call
    /\ loop.step \in {"idle", "find", "calling", "erase"}
    /\ out \in Seq(Request) /\ wire \in Seq(Request)
    /\ jobs \in Seq(Job) /\ nodesid \in Nat /\ back \in Seq(Frame)
    /\ async \in BOOLEAN /\ writing \in BOOLEAN
    /\ made \in Seq(Kinds) /\ notis \in 0..MaxNoti
    /\ ran \subseteq [call : Call, key : Nat \cup Reserved, kind : AllKinds \cup {"error"},
                      of : Call \cup {NoCall}]
    /\ stopped \subseteq Call /\ pending \in BOOLEAN /\ across \in BOOLEAN

\* What the server answers a request with, other than an error, is given to the
\* callback that was passed with that very request, whichever thread sent it,
\* whenever a clientconnectres moved the id, and however many frames sent across
\* it were refused under the ids of other requests.
OwnAnswer == \A r \in ran : r.kind \in {"request", "query"} => r.call = r.of

\* A program that sends nothing before its connect, nor between it and the
\* clientconnectres, stays in step with the server whichever of its threads
\* send: no frame is refused for its id, and errors, too, are given to the
\* callback of their own request.  (Otherwise a frame is refused under the id of
\* the next one, and its error is given to whichever callback has that key.)
InStep ==
    across \/ /\ \A i \in DOMAIN jobs : jobs[i].sid = jobs[i].expected
              /\ \A r \in ran : r.key \notin Reserved => r.call = r.of

\* A callback that ended with isStop is not called again, however many
\* answers to its query follow.
StopIsFinal ==
    [][\A k \in stopped : loop'.step = "calling" /\ loop.step = "find" => loop'.call # k]_vars

\* A request that was sent is answered to its callback: neither the mutex of
\* the map, which callbacks take again, nor the write watcher stops the client.
\* A program that sent something across its connect may wait for ever.
EveryRequestCalled ==
    \A k \in Call :
        (k \in DOMAIN made /\ made[k] \in {"request", "query"})
            ~> (across \/ \E r \in ran : r.call = k)
=============================================================================
