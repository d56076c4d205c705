------------------------------ MODULE WorkPool ------------------------------
(***************************************************************************)
(* noti_threads (yijian/threads_work.cxx): the pool on which the event     *)
(* loop runs the message handlers.  sentWork, called by the event loop     *)
(* only, hands a job to the thread with the shortest queue and blocks      *)
(* while that queue holds Cap jobs; thread_func drains its queue and then  *)
(* tells a blocked sentWork to try again.  Two boolean flags, each with a  *)
(* condition variable, carry the wake-ups: isWait[t] (Thread_Data::        *)
(* c_isWait_) for thread t and poolIsWait (noti_threads::c_isWait_) for    *)
(* the caller of sentWork.                                                 *)
(*                                                                         *)
(* A step is one critical section.  A thread inside condition_variable::   *)
(* wait is "asleep": only a notify_one or a spurious wake-up moves it back *)
(* to "wait", where it evaluates the predicate under the mutex.            *)
(***************************************************************************)
EXTENDS Naturals, Sequences

CONSTANTS ThreadNum,  \* noti_threads(thread_num); the server passes 1
          Cap,        \* bound of a thread's queue, 20 in the code
          MaxJobs     \* bound on the number of calls of sentWork

ASSUME PoolAssumption ==
    /\ ThreadNum \in Nat \ {0}
    /\ Cap \in Nat \ {0}
    /\ MaxJobs \in Nat

Threads == 1..ThreadNum

VARIABLES
    q,          \* q[t]: q_workfun_, the jobs queued for thread t
    isWait,     \* isWait[t]: Thread_Data::c_isWait_
    wpc,        \* wpc[t]: where thread t is in thread_func
    run,        \* run[t]: the job thread t is running, 0 if none
    poolIsWait, \* noti_threads::c_isWait_
    spc,        \* where the event loop is in sentWork
    best,       \* thread_local_data, 0 for nullptr
    scan,       \* next thread the selection loop looks at
    job,        \* number of calls of sentWork; the last one is job "job"
    done        \* jobs that have returned, in the order they did

submitVars == <<spc, best, scan, job>>
vars == <<q, isWait, wpc, run, poolIsWait, spc, best, scan, job, done>>

WorkerPC == {"wait", "asleep", "drain", "pop", "run", "notify"}
SubmitPC == {"idle", "scan", "push", "notify", "wait", "asleep"}

\* The constructor never assigns the pool's own c_isWait_, so its first value
\* is whatever was in memory.
Init ==
    /\ q = [t \in Threads |-> <<>>]
    /\ isWait = [t \in Threads |-> TRUE]
    /\ wpc = [t \in Threads |-> "wait"]
    /\ run = [t \in Threads |-> 0]
    /\ poolIsWait \in BOOLEAN
    /\ spc = "idle" /\ best = 0 /\ scan = 1 /\ job = 0
    /\ done = <<>>

-----------------------------------------------------------------------------
(* The event loop in sentWork.                                             *)

SentWork ==
    /\ spc = "idle"
    /\ job < MaxJobs
    /\ job' = job + 1
    /\ spc' = "scan" /\ best' = 0 /\ scan' = 1
    /\ UNCHANGED <<q, isWait, wpc, run, poolIsWait, done>>

\* The loop holds the mutex of the thread it looks at, not the mutex of the
\* thread selected so far: while that thread may be popping, the size it
\* reads there, and so the comparison, can come out either way.
Shorter(t) ==
    IF wpc[best] = "pop" THEN BOOLEAN ELSE {Len(q[best]) > Len(q[t])}

SelectMin ==
    /\ spc = "scan"
    /\ IF best = 0
       THEN best' = scan
       ELSE \E s \in Shorter(scan) : best' = IF s THEN scan ELSE best
    /\ scan' = scan + 1
    /\ spc' = IF scan = ThreadNum THEN "push" ELSE "scan"
    /\ UNCHANGED <<q, isWait, wpc, run, poolIsWait, job, done>>

\* Fault: the size test lets one job too many in.
PushWorkOverfull ==
    /\ spc = "push"
    /\ IF Len(q[best]) <= Cap
       THEN /\ q' = [q EXCEPT ![best] = Append(@, job)]
            /\ spc' = "notify"
       ELSE /\ spc' = "wait"
            /\ UNCHANGED q
    /\ UNCHANGED <<isWait, wpc, run, poolIsWait, best, scan, job, done>>

\* Fault: sentWork gives the job up when the queue is full.
PushWorkDropping ==
    /\ spc = "push"
    /\ q' = [q EXCEPT ![best] = IF Len(@) < Cap THEN Append(@, job) ELSE @]
    /\ spc' = "notify"
    /\ UNCHANGED <<isWait, wpc, run, poolIsWait, best, scan, job, done>>

\* Fault: the newest job goes to the front.
PushWorkFront ==
    /\ spc = "push"
    /\ IF Len(q[best]) < Cap
       THEN /\ q' = [q EXCEPT ![best] = <<job>> \o @]
            /\ spc' = "notify"
       ELSE /\ spc' = "wait"
            /\ UNCHANGED q
    /\ UNCHANGED <<isWait, wpc, run, poolIsWait, best, scan, job, done>>

PushWork ==
    /\ spc = "push"
    /\ IF Len(q[best]) < Cap
       THEN /\ q' = [q EXCEPT ![best] = Append(@, job)]
            /\ spc' = "notify"
       ELSE /\ spc' = "wait"
            /\ UNCHANGED q
    /\ UNCHANGED <<isWait, wpc, run, poolIsWait, best, scan, job, done>>

\* Fault: sentWork notifies without clearing the thread's flag.
NotifyThreadNoFlag ==
    /\ spc = "notify"
    /\ wpc' = [wpc EXCEPT ![best] = IF @ = "asleep" THEN "wait" ELSE @]
    /\ spc' = "idle"
    /\ UNCHANGED <<q, isWait, run, poolIsWait, best, scan, job, done>>

NotifyThread ==
    /\ spc = "notify"
    /\ isWait' = [isWait EXCEPT ![best] = FALSE]
    /\ wpc' = [wpc EXCEPT ![best] = IF @ = "asleep" THEN "wait" ELSE @]
    /\ spc' = "idle"
    /\ UNCHANGED <<q, run, poolIsWait, best, scan, job, done>>

\* The queue was full: wait for a thread that has drained its queue, then
\* select again.
WaitRoom ==
    /\ spc = "wait"
    /\ IF poolIsWait
       THEN /\ spc' = "asleep"
            /\ UNCHANGED <<poolIsWait, best, scan>>
       ELSE /\ poolIsWait' = TRUE
            /\ spc' = "scan" /\ best' = 0 /\ scan' = 1
    /\ UNCHANGED <<q, isWait, wpc, run, job, done>>

-----------------------------------------------------------------------------
(* Thread t in thread_func.  isContine_ is set once, to true, so the exit  *)
(* of the outer loop is never taken.                                       *)

\* Fault: the flag is not set back to true, and the thread runs on it again.
WaitWorkNoReset(t) ==
    /\ wpc[t] = "wait"
    /\ wpc' = [wpc EXCEPT ![t] = IF isWait[t] THEN "asleep" ELSE "pop"]
    /\ UNCHANGED <<q, isWait, run, poolIsWait, submitVars, done>>

WaitWork(t) ==
    /\ wpc[t] = "wait"
    /\ IF isWait[t]
       THEN /\ wpc' = [wpc EXCEPT ![t] = "asleep"]
            /\ UNCHANGED isWait
       ELSE /\ wpc' = [wpc EXCEPT ![t] = "drain"]
            /\ isWait' = [isWait EXCEPT ![t] = TRUE]
    /\ UNCHANGED <<q, run, poolIsWait, submitVars, done>>

\* The inner loop tests q_workfun_.empty() without the queue's mutex.  A push
\* that no lock taken by t since orders before the test may be missed: its
\* notification is still to be made, or still to be consumed.
EmptyReads(t) ==
    {q[t] = <<>>} \cup
    IF ~isWait[t] \/ (spc = "notify" /\ best = t) THEN {TRUE} ELSE {}

TestEmpty(t) ==
    /\ wpc[t] = "drain"
    /\ \E e \in EmptyReads(t) :
          wpc' = [wpc EXCEPT ![t] = IF e THEN "notify" ELSE "pop"]
    /\ UNCHANGED <<q, isWait, run, poolIsWait, submitVars, done>>

\* Fault: the front job is copied and not removed.
PopWorkNoPop(t) ==
    /\ wpc[t] = "pop"
    /\ run' = [run EXCEPT ![t] = Head(q[t])]
    /\ wpc' = [wpc EXCEPT ![t] = "run"]
    /\ UNCHANGED <<q, isWait, poolIsWait, submitVars, done>>

PopWork(t) ==
    /\ wpc[t] = "pop"
    /\ run' = [run EXCEPT ![t] = Head(q[t])]
    /\ q' = [q EXCEPT ![t] = Tail(@)]
    /\ wpc' = [wpc EXCEPT ![t] = "run"]
    /\ UNCHANGED <<isWait, poolIsWait, submitVars, done>>

\* The job returns.
FinishWork(t) ==
    /\ wpc[t] = "run"
    /\ done' = Append(done, run[t])
    /\ run' = [run EXCEPT ![t] = 0]
    /\ wpc' = [wpc EXCEPT ![t] = "drain"]
    /\ UNCHANGED <<q, isWait, poolIsWait, submitVars>>

\* Fault: the thread notifies without clearing the pool's flag.
NotifyPoolNoFlag(t) ==
    /\ wpc[t] = "notify"
    /\ spc' = IF spc = "asleep" THEN "wait" ELSE spc
    /\ wpc' = [wpc EXCEPT ![t] = "wait"]
    /\ UNCHANGED <<q, isWait, run, poolIsWait, best, scan, job, done>>

NotifyPool(t) ==
    /\ wpc[t] = "notify"
    /\ poolIsWait' = FALSE
    /\ spc' = IF spc = "asleep" THEN "wait" ELSE spc
    /\ wpc' = [wpc EXCEPT ![t] = "wait"]
    /\ UNCHANGED <<q, isWait, run, best, scan, job, done>>

\* condition_variable::wait may return without a notify.
SpuriousWake ==
    \/ /\ spc = "asleep"
       /\ spc' = "wait"
       /\ UNCHANGED wpc
       /\ UNCHANGED <<q, isWait, run, poolIsWait, best, scan, job, done>>
    \/ \E t \in Threads :
          /\ wpc[t] = "asleep"
          /\ wpc' = [wpc EXCEPT ![t] = "wait"]
          /\ UNCHANGED <<q, isWait, run, poolIsWait, submitVars, done>>

-----------------------------------------------------------------------------
SubmitStep == SelectMin \/ PushWork \/ NotifyThread \/ WaitRoom

ThreadStep(t) ==
    WaitWork(t) \/ TestEmpty(t) \/ PopWork(t) \/ FinishWork(t) \/ NotifyPool(t)

Next == SentWork \/ SubmitStep \/ (\E t \in Threads : ThreadStep(t))
        \/ SpuriousWake

\* The event loop and every pool thread keep running once they are runnable,
\* and every job returns; nothing obliges the event loop to submit, or a
\* spurious wake-up to happen.
Fairness == WF_vars(SubmitStep) /\ \A t \in Threads : WF_vars(ThreadStep(t))

Spec == Init /\ [][Next]_vars /\ Fairness

-----------------------------------------------------------------------------
(* Properties.                                                             *)

Busy == {"drain", "pop", "run", "notify"}
InHand == spc \in {"scan", "push", "wait", "asleep"}

\* Type invariant; a queue never holds more than Cap jobs (the size test of
\* sentWork), and the event loop has a thread selected whenever it uses one.
TypeOK ==
    /\ q \in [Threads -> Seq(1..job)]
    /\ \A t \in Threads : Len(q[t]) <= Cap
    /\ isWait \in [Threads -> BOOLEAN]
    /\ wpc \in [Threads -> WorkerPC]
    /\ run \in [Threads -> 0..job]
    /\ poolIsWait \in BOOLEAN
    /\ spc \in SubmitPC
    /\ job \in 0..MaxJobs
    /\ done \in Seq(1..job)
    /\ scan \in 1..(ThreadNum + 1)
    /\ best \in 0..ThreadNum
    /\ spc = "scan" => scan \in Threads /\ (best = 0 <=> scan = 1)
    /\ spc \in {"push", "notify", "wait", "asleep"} => best \in Threads

\* No lost wake-up of a thread: when jobs are queued for a thread that is at,
\* or inside, its wait, the flag it waits for is set or sentWork is about to
\* set it, although the thread tests its queue without the mutex.
ThreadWakeup ==
    \A t \in Threads :
        wpc[t] \in {"wait", "asleep"} /\ q[t] # <<>>
            => \/ wpc[t] = "wait" /\ ~isWait[t]
               \/ spc = "notify" /\ best = t

\* No lost wake-up of the event loop: while sentWork waits for room and the
\* pool's flag says wait, the thread it found full is still on its way to the
\* notify that clears the flag, whatever the flag's uninitialised first value.
SubmitWakeup ==
    /\ spc = "asleep" => poolIsWait
    /\ spc \in {"wait", "asleep"} /\ poolIsWait
          => wpc[best] \in Busy \/ q[best] # <<>>

\* A thread that goes to pop finds a job: the unlocked test never makes it
\* take the front of an empty queue.
PopFindsJob == \A t \in Threads : wpc[t] = "pop" => q[t] # <<>>

Places(j) ==
    [ queued  |-> {x \in Threads \X (1..Cap) : x[2] <= Len(q[x[1]]) /\ q[x[1]][x[2]] = j},
      running |-> {t \in Threads : run[t] = j},
      done    |-> {i \in 1..Len(done) : done[i] = j} ]

\* Every job handed to sentWork is run exactly once: it is in hand, or in one
\* place of one queue, or running on one thread, or has returned once.
ExactlyOnce ==
    \A j \in 1..job :
        LET p == Places(j) IN
        IF InHand /\ j = job
        THEN p.queued = {} /\ p.running = {} /\ p.done = {}
        ELSE \/ (\E x \in p.queued : p.queued = {x}) /\ p.running = {} /\ p.done = {}
             \/ (\E x \in p.running : p.running = {x}) /\ p.queued = {} /\ p.done = {}
             \/ (\E x \in p.done : p.done = {x}) /\ p.queued = {} /\ p.running = {}

\* A thread runs its jobs in the order in which sentWork was called: what it
\* has queued is increasing and later than what it is running.
ThreadOrder ==
    \A t \in Threads :
        /\ \A i \in 1..Len(q[t]) : run[t] < q[t][i]
        /\ \A i, k \in 1..Len(q[t]) : i < k => q[t][i] < q[t][k]

\* The event loop never stays inside sentWork: a full queue only delays it.
SentWorkReturns == (spc # "idle") ~> (spc = "idle")

\* Every job given to sentWork is eventually run to its end.
EveryJobRuns ==
    \A j \in 1..MaxJobs :
        (job >= j) ~> (\E i \in 1..Len(done) : done[i] = j)

\* With one thread the pool is the serial, order-keeping executor of JobQueue.
Serial == INSTANCE JobQueue WITH queue <- q[1], running <- run[1], finished <- done
SerialSpec == Serial!Spec
=============================================================================
