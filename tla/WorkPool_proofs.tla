--------------------------- MODULE WorkPool_proofs --------------------------
(***************************************************************************)
(* Proofs about the thread pool, for every number of threads, every bound  *)
(* of the queues and every number of jobs.                                 *)
(***************************************************************************)
EXTENDS WorkPool, SequenceTheorems, TLAPS

\* What popping, pushing and one more job do to a thread's queue.
LEMMA QueueGrows ==
    ASSUME NEW n \in Nat, NEW s \in Seq(1..n)
    PROVE  s \in Seq(1..(n + 1))
BY SeqMonotonic, 1..n \subseteq 1..(n + 1)

LEMMA QueuePop ==
    ASSUME NEW n \in Nat, NEW s \in Seq(1..n), s # <<>>
    PROVE  /\ Head(s) \in 1..n /\ Head(s) = s[1]
           /\ Tail(s) \in Seq(1..n)
           /\ Len(s) \in Nat /\ Len(s) > 0
           /\ Len(Tail(s)) = Len(s) - 1
           /\ \A i \in 1..Len(Tail(s)) : Tail(s)[i] = s[i + 1]
BY HeadTailProperties, EmptySeq, LenProperties

LEMMA QueuePush ==
    ASSUME NEW n \in Nat, NEW s \in Seq(1..n), NEW j \in 1..n
    PROVE  /\ Append(s, j) \in Seq(1..n)
           /\ Len(s) \in Nat
           /\ Len(Append(s, j)) = Len(s) + 1
           /\ \A i \in 1..Len(s) : Append(s, j)[i] = s[i]
           /\ Append(s, j)[Len(s) + 1] = j
           /\ Append(s, j) # <<>>
<1>1. /\ Append(s, j) \in Seq(1..n)
      /\ Len(s) \in Nat
      /\ Len(Append(s, j)) = Len(s) + 1
      /\ \A i \in 1..Len(s) : Append(s, j)[i] = s[i]
      /\ Append(s, j)[Len(s) + 1] = j
    OBVIOUS
<1>2. Append(s, j) # <<>>
    BY <1>1, EmptySeq
<1>3. QED
    BY <1>1, <1>2

-----------------------------------------------------------------------------
(* Types.                                                                  *)

\* A thread has a job in hand exactly while it runs it, and so has sentWork.
JobInHand ==
    /\ \A t \in Threads : wpc[t] = "run" <=> run[t] # 0
    /\ spc # "idle" => job > 0

TypeInv == TypeOK /\ PopFindsJob /\ JobInHand

LEMMA TypeInit == Init => TypeInv
BY PoolAssumption, EmptySeq DEF Init, TypeInv, TypeOK, PopFindsJob, JobInHand,
     WorkerPC, SubmitPC, Threads

LEMMA TypeStep == TypeInv /\ [Next]_vars => TypeInv'
<1> SUFFICES ASSUME TypeInv, [Next]_vars
             PROVE  TypeInv'
    OBVIOUS
<1> USE PoolAssumption DEF TypeInv, TypeOK, PopFindsJob, JobInHand, WorkerPC, SubmitPC, Threads
<1>1. CASE SentWork
    <2>1. job + 1 \in 0..MaxJobs /\ job \in Nat
        BY <1>1 DEF SentWork
    <2>2. \A t \in Threads : q[t] \in Seq(1..(job + 1))
        BY <2>1, QueueGrows
    <2>3. done \in Seq(1..(job + 1))
        BY <2>1, QueueGrows
    <2>4. q' \in [Threads -> Seq(1..job')]
        BY <1>1, <2>2 DEF SentWork
    <2>5. QED
        BY <1>1, <2>1, <2>3, <2>4 DEF SentWork
<1>2. CASE SelectMin
    BY <1>2 DEF SelectMin
<1>3. CASE PushWork
    <2>1. best \in Threads /\ q[best] \in Seq(1..job) /\ job \in 1..job /\ job \in Nat
        BY <1>3 DEF PushWork
    <2>2. /\ Append(q[best], job) \in Seq(1..job)
          /\ Len(q[best]) \in Nat
          /\ Len(Append(q[best], job)) = Len(q[best]) + 1
          /\ Append(q[best], job) # <<>>
        BY ONLY <2>1, QueuePush
    <2>3. q' \in [Threads -> Seq(1..job)] /\ job' = job
        BY <1>3, <2>1, <2>2 DEF PushWork
    <2>4. ASSUME NEW t \in Threads
          PROVE  Len(q'[t]) <= Cap
        <3>1. CASE t = best /\ Len(q[best]) < Cap
            BY <1>3, <2>1, <2>2, <3>1 DEF PushWork
        <3>2. CASE ~(t = best /\ Len(q[best]) < Cap)
            <4>1. q'[t] = q[t]
                BY <1>3, <2>1, <3>2 DEF PushWork
            <4>2. QED
                BY <4>1
        <3>3. QED
            BY <3>1, <3>2
    <2>5. PopFindsJob'
        BY <1>3, <2>1, <2>2 DEF PushWork
    <2>6. QED
        BY <1>3, <2>1, <2>3, <2>4, <2>5 DEF PushWork
<1>4. CASE NotifyThread
    <2>1. wpc' \in [Threads -> WorkerPC] /\ isWait' \in [Threads -> BOOLEAN]
        BY <1>4 DEF NotifyThread
    <2>2. \A t \in Threads : (wpc'[t] = "run" <=> wpc[t] = "run")
                             /\ (wpc'[t] = "pop" <=> wpc[t] = "pop")
        BY <1>4 DEF NotifyThread
    <2>3. QED
        BY <1>4, <2>1, <2>2 DEF NotifyThread
<1>5. CASE WaitRoom
    <2>1. CASE poolIsWait
        BY <1>5, <2>1 DEF WaitRoom
    <2>2. CASE ~poolIsWait
        BY <1>5, <2>2 DEF WaitRoom
    <2>3. QED
        BY <2>1, <2>2
<1>6. ASSUME NEW t \in Threads, WaitWork(t)
      PROVE  TypeInv'
    BY <1>6 DEF WaitWork, submitVars
<1>7. ASSUME NEW t \in Threads, TestEmpty(t)
      PROVE  TypeInv'
    <2>1. PICK e \in EmptyReads(t) : wpc' = [wpc EXCEPT ![t] = IF e THEN "notify" ELSE "pop"]
        BY <1>7 DEF TestEmpty
    <2>2. ~e => q[t] # <<>>
        BY <2>1 DEF EmptyReads
    <2>3. QED
        BY <1>7, <2>1, <2>2 DEF TestEmpty, submitVars
<1>8. ASSUME NEW t \in Threads, PopWork(t)
      PROVE  TypeInv'
    <2>1. q[t] \in Seq(1..job) /\ q[t] # <<>> /\ job \in Nat
        BY <1>8 DEF PopWork
    <2>2. /\ Head(q[t]) \in 1..job /\ Tail(q[t]) \in Seq(1..job)
          /\ Len(q[t]) \in Nat /\ Len(Tail(q[t])) = Len(q[t]) - 1
        BY <2>1, QueuePop
    <2>3. QED
        BY <1>8, <2>1, <2>2 DEF PopWork, submitVars
<1>9. ASSUME NEW t \in Threads, FinishWork(t)
      PROVE  TypeInv'
    BY <1>9 DEF FinishWork, submitVars
<1>10. ASSUME NEW t \in Threads, NotifyPool(t)
       PROVE  TypeInv'
    BY <1>10 DEF NotifyPool
<1>11. CASE SpuriousWake
    BY <1>11 DEF SpuriousWake, submitVars
<1>12. CASE UNCHANGED vars
    BY <1>12 DEF vars
<1>13. QED
    BY <1>1, <1>2, <1>3, <1>4, <1>5, <1>6, <1>7, <1>8, <1>9, <1>10, <1>11, <1>12
       DEF Next, SubmitStep, ThreadStep

\* Every reachable state of the pool is well typed: no queue exceeds its bound
\* and sentWork always has a thread selected when it uses one.
THEOREM TypeCorrect == Spec => []TypeOK
<1>1. Spec => []TypeInv
    BY TypeInit, TypeStep, PTL DEF Spec
<1>2. TypeInv => TypeOK
    BY DEF TypeInv
<1>3. QED
    BY <1>1, <1>2, PTL

\* A thread that goes to pop has a job to pop, although it tests its queue
\* without the queue's mutex.
THEOREM PopSafe == Spec => []PopFindsJob
<1>1. Spec => []TypeInv
    BY TypeInit, TypeStep, PTL DEF Spec
<1>2. TypeInv => PopFindsJob
    BY DEF TypeInv
<1>3. QED
    BY <1>1, <1>2, PTL

-----------------------------------------------------------------------------
(* Wake-ups.  ThreadWakeup is not inductive: the thread may decide to wait *)
(* on a stale read, so what saves it must hold already at "notify".        *)

WakeInv ==
    /\ \A t \in Threads : wpc[t] = "asleep" => isWait[t]
    /\ \A t \in Threads :
          wpc[t] \in {"notify", "wait", "asleep"} /\ q[t] # <<>>
              => ~isWait[t] \/ (spc = "notify" /\ best = t)

LEMMA WakeInit == Init => WakeInv
BY DEF Init, WakeInv

LEMMA WakeStep == TypeInv /\ WakeInv /\ [Next]_vars => WakeInv'
<1> SUFFICES ASSUME TypeInv, WakeInv, [Next]_vars
             PROVE  WakeInv'
    OBVIOUS
<1> USE DEF TypeInv, TypeOK, WakeInv, WorkerPC, SubmitPC
<1>1. CASE SentWork
    BY <1>1 DEF SentWork
<1>2. CASE SelectMin
    BY <1>2 DEF SelectMin
<1>3. CASE PushWork
    <2>1. CASE Len(q[best]) < Cap
        <3>1. best \in Threads /\ spc' = "notify" /\ best' = best
              /\ q' = [q EXCEPT ![best] = Append(@, job)]
              /\ wpc' = wpc /\ isWait' = isWait /\ spc = "push"
            BY <1>3, <2>1 DEF PushWork
        <3>2. \A t \in Threads : t # best => q'[t] = q[t]
            BY <3>1
        <3>3. QED
            BY <3>1, <3>2
    <2>2. CASE ~(Len(q[best]) < Cap)
        BY <1>3, <2>2 DEF PushWork
    <2>3. QED
        BY <2>1, <2>2
<1>4. CASE NotifyThread
    <2>1. best \in Threads /\ isWait' = [isWait EXCEPT ![best] = FALSE]
          /\ wpc' = [wpc EXCEPT ![best] = IF @ = "asleep" THEN "wait" ELSE @]
          /\ q' = q
        BY <1>4 DEF NotifyThread
    <2>2. isWait'[best] = FALSE /\ wpc'[best] # "asleep"
        BY <2>1
    <2>3. \A t \in Threads : t # best => wpc'[t] = wpc[t] /\ isWait'[t] = isWait[t]
        BY <2>1
    <2>4. QED
        BY <2>1, <2>2, <2>3
<1>5. CASE WaitRoom
    BY <1>5 DEF WaitRoom
<1>6. ASSUME NEW t \in Threads, WaitWork(t)
      PROVE  WakeInv'
    <2>1. CASE isWait[t]
        BY <1>6, <2>1 DEF WaitWork, submitVars
    <2>2. CASE ~isWait[t]
        BY <1>6, <2>2 DEF WaitWork, submitVars
    <2>3. QED
        BY <2>1, <2>2
<1>7. ASSUME NEW t \in Threads, TestEmpty(t)
      PROVE  WakeInv'
    <2>1. PICK e \in EmptyReads(t) : wpc' = [wpc EXCEPT ![t] = IF e THEN "notify" ELSE "pop"]
        BY <1>7 DEF TestEmpty
    <2>2. e /\ q[t] # <<>> => ~isWait[t] \/ (spc = "notify" /\ best = t)
        BY <2>1 DEF EmptyReads
    <2>3. QED
        BY <1>7, <2>1, <2>2 DEF TestEmpty, submitVars
<1>8. ASSUME NEW t \in Threads, PopWork(t)
      PROVE  WakeInv'
    <2>1. \A u \in Threads : u # t => q'[u] = q[u] /\ wpc'[u] = wpc[u]
        BY <1>8 DEF PopWork
    <2>2. wpc'[t] = "run"
        BY <1>8 DEF PopWork
    <2>3. QED
        BY <1>8, <2>1, <2>2 DEF PopWork, submitVars
<1>9. ASSUME NEW t \in Threads, FinishWork(t)
      PROVE  WakeInv'
    BY <1>9 DEF FinishWork, submitVars
<1>10. ASSUME NEW t \in Threads, NotifyPool(t)
       PROVE  WakeInv'
    <2>1. (spc' = "notify") = (spc = "notify") /\ best' = best
        BY <1>10 DEF NotifyPool
    <2>2. QED
        BY <1>10, <2>1 DEF NotifyPool
<1>11. CASE SpuriousWake
    <2>1. CASE spc = "asleep" /\ spc' = "wait" /\ UNCHANGED <<wpc, q, isWait, best>>
        BY <2>1
    <2>2. ASSUME NEW t \in Threads, wpc[t] = "asleep",
                 wpc' = [wpc EXCEPT ![t] = "wait"],
                 UNCHANGED <<q, isWait, spc, best>>
          PROVE  WakeInv'
        BY <2>2
    <2>3. QED
        BY <1>11, <2>1, <2>2 DEF SpuriousWake, submitVars
<1>12. CASE UNCHANGED vars
    BY <1>12 DEF vars
<1>13. QED
    BY <1>1, <1>2, <1>3, <1>4, <1>5, <1>6, <1>7, <1>8, <1>9, <1>10, <1>11, <1>12
       DEF Next, SubmitStep, ThreadStep

\* No wake-up of a pool thread is lost: jobs never lie in the queue of a
\* thread that sleeps with nobody about to wake it.
THEOREM NoLostThreadWakeup == Spec => []ThreadWakeup
<1>1. Spec => [](TypeInv /\ WakeInv)
    BY TypeInit, TypeStep, WakeInit, WakeStep, PTL DEF Spec
<1>2. TypeInv /\ WakeInv => ThreadWakeup
    BY DEF TypeInv, TypeOK, WakeInv, ThreadWakeup
<1>3. QED
    BY <1>1, <1>2, PTL

\* SubmitWakeup is inductive on its own, given the types.
LEMMA SubmitStepKeeps == TypeInv /\ SubmitWakeup /\ [Next]_vars => SubmitWakeup'
<1> SUFFICES ASSUME TypeInv, SubmitWakeup, [Next]_vars
             PROVE  SubmitWakeup'
    OBVIOUS
<1> USE DEF TypeInv, TypeOK, SubmitWakeup, WorkerPC, SubmitPC, Busy
<1>1. CASE SentWork
    BY <1>1 DEF SentWork
<1>2. CASE SelectMin
    BY <1>2 DEF SelectMin
<1>3. CASE PushWork
    <2>1. CASE Len(q[best]) < Cap
        BY <1>3, <2>1 DEF PushWork
    <2>2. CASE ~(Len(q[best]) < Cap)
        <3>1. q[best] # <<>>
            BY <2>2, PoolAssumption
        <3>2. spc' = "wait" /\ q' = q /\ best' = best
            BY <1>3, <2>2 DEF PushWork
        <3>3. QED
            BY <3>1, <3>2
    <2>3. QED
        BY <2>1, <2>2
<1>4. CASE NotifyThread
    BY <1>4 DEF NotifyThread
<1>5. CASE WaitRoom
    <2>1. CASE poolIsWait
        BY <1>5, <2>1 DEF WaitRoom
    <2>2. CASE ~poolIsWait
        BY <1>5, <2>2 DEF WaitRoom
    <2>3. QED
        BY <2>1, <2>2
<1>6. ASSUME NEW t \in Threads, WaitWork(t)
      PROVE  SubmitWakeup'
    <2>1. UNCHANGED <<q, spc, best, poolIsWait>>
        BY <1>6 DEF WaitWork, submitVars
    <2>2. \A u \in Threads : wpc[u] \in Busy => wpc'[u] \in Busy
        BY <1>6 DEF WaitWork
    <2>3. QED
        BY <2>1, <2>2
<1>7. ASSUME NEW t \in Threads, TestEmpty(t)
      PROVE  SubmitWakeup'
    BY <1>7 DEF TestEmpty, submitVars
<1>8. ASSUME NEW t \in Threads, PopWork(t)
      PROVE  SubmitWakeup'
    <2>1. UNCHANGED <<spc, best, poolIsWait>>
        BY <1>8 DEF PopWork, submitVars
    <2>2. \A u \in Threads : wpc[u] \in Busy => wpc'[u] \in Busy
        BY <1>8 DEF PopWork
    <2>3. \A u \in Threads : wpc'[u] \in Busy \/ q'[u] = q[u]
        BY <1>8 DEF PopWork
    <2>4. QED
        BY <2>1, <2>2, <2>3
<1>9. ASSUME NEW t \in Threads, FinishWork(t)
      PROVE  SubmitWakeup'
    BY <1>9 DEF FinishWork, submitVars
<1>10. ASSUME NEW t \in Threads, NotifyPool(t)
       PROVE  SubmitWakeup'
    BY <1>10 DEF NotifyPool
<1>11. CASE SpuriousWake
    <2>1. CASE spc = "asleep" /\ spc' = "wait" /\ UNCHANGED <<wpc, q, best, poolIsWait>>
        BY <2>1
    <2>2. ASSUME NEW t \in Threads, wpc[t] = "asleep",
                 wpc' = [wpc EXCEPT ![t] = "wait"],
                 UNCHANGED <<q, poolIsWait, spc, best>>
          PROVE  SubmitWakeup'
        BY <2>2
    <2>3. QED
        BY <1>11, <2>1, <2>2 DEF SpuriousWake, submitVars
<1>12. CASE UNCHANGED vars
    BY <1>12 DEF vars
<1>13. QED
    BY <1>1, <1>2, <1>3, <1>4, <1>5, <1>6, <1>7, <1>8, <1>9, <1>10, <1>11, <1>12
       DEF Next, SubmitStep, ThreadStep

\* No wake-up of the event loop is lost while it waits in sentWork for room,
\* whatever the uninitialised flag of the pool holds at the start.
THEOREM NoLostSubmitWakeup == Spec => []SubmitWakeup
<1>1. Init => SubmitWakeup
    BY DEF Init, SubmitWakeup
<1>2. Spec => [](TypeInv /\ SubmitWakeup)
    BY <1>1, TypeInit, TypeStep, SubmitStepKeeps, PTL DEF Spec
<1>3. QED
    BY <1>2, PTL

-----------------------------------------------------------------------------
(* Order.  A job joins a queue of older jobs only, because the one in hand *)
(* is the newest there is.                                                 *)

Increasing(s) == \A i, k \in 1..Len(s) : i < k => s[i] < s[k]
Above(r, s) == \A i \in 1..Len(s) : r < s[i]
Below(s, j) == \A i \in 1..Len(s) : s[i] < j

\* The newest job goes to the end of an increasing queue.
LEMMA PushKeepsOrder ==
    ASSUME NEW n \in Nat, NEW s \in Seq(1..n), NEW j \in 1..n, NEW r \in 0..n,
           Increasing(s), Above(r, s), Below(s, j), r < j
    PROVE  Increasing(Append(s, j)) /\ Above(r, Append(s, j))
<1> DEFINE z == Append(s, j)
<1>1. /\ Len(s) \in Nat /\ Len(z) = Len(s) + 1
      /\ \A i \in 1..Len(s) : z[i] = s[i] /\ s[i] \in 1..n
      /\ z[Len(s) + 1] = j
    BY QueuePush, ElementOfSeq
<1>2. \A i \in 1..Len(z) : i \in 1..Len(s) \/ i = Len(s) + 1
    BY <1>1
<1> HIDE DEF z
<1>3. Above(r, z)
    BY <1>1, <1>2 DEF Above
<1>4. ASSUME NEW i \in 1..Len(z), NEW k \in 1..Len(z), i < k
      PROVE  z[i] < z[k]
    <2>1. i \in 1..Len(s)
        BY <1>1, <1>4
    <2>2. CASE k \in 1..Len(s)
        BY <1>1, <1>4, <2>1, <2>2 DEF Increasing
    <2>3. CASE k = Len(s) + 1
        BY <1>1, <2>1, <2>3 DEF Below
    <2>4. QED
        BY <1>2, <2>2, <2>3
<1>5. QED
    BY <1>3, <1>4 DEF Increasing, z

\* What is left of an increasing queue comes after the job taken from it.
LEMMA PopKeepsOrder ==
    ASSUME NEW n \in Nat, NEW s \in Seq(1..n), s # <<>>, Increasing(s)
    PROVE  /\ Increasing(Tail(s)) /\ Above(Head(s), Tail(s))
           /\ \A j \in Nat : Below(s, j) => Below(Tail(s), j) /\ Head(s) < j
<1> DEFINE z == Tail(s)
<1>1. /\ Head(s) = s[1] /\ Len(s) \in Nat /\ Len(s) > 0
      /\ Len(z) = Len(s) - 1
      /\ \A i \in 1..Len(z) : z[i] = s[i + 1]
    BY QueuePop
<1>2. \A i \in 1..Len(z) : i + 1 \in 1..Len(s) /\ 1 < i + 1
    BY <1>1
<1>3. 1 \in 1..Len(s)
    BY <1>1
<1> HIDE DEF z
<1>4. Above(Head(s), z)
    BY <1>1, <1>2, <1>3 DEF Above, Increasing
<1>5. Increasing(z)
    <2> SUFFICES ASSUME NEW i \in 1..Len(z), NEW k \in 1..Len(z), i < k
                 PROVE  z[i] < z[k]
        BY DEF Increasing
    <2>1. i + 1 < k + 1
        BY <1>1
    <2>2. QED
        BY <1>1, <1>2, <2>1 DEF Increasing
<1>6. \A j \in Nat : Below(s, j) => Below(z, j) /\ Head(s) < j
    BY <1>1, <1>2, <1>3 DEF Below
<1>7. QED
    BY <1>4, <1>5, <1>6 DEF z

Ordered(t) == Increasing(q[t]) /\ Above(run[t], q[t])

LEMMA ThreadOrderIs == ThreadOrder <=> \A t \in Threads : Ordered(t)
BY DEF ThreadOrder, Ordered, Increasing, Above

OrderInv ==
    /\ \A t \in Threads : Ordered(t)
    /\ InHand => \A t \in Threads : run[t] < job /\ Below(q[t], job)

LEMMA OrderStep == TypeInv /\ OrderInv /\ [Next]_vars => OrderInv'
<1> SUFFICES ASSUME TypeInv, OrderInv, [Next]_vars
             PROVE  OrderInv'
    OBVIOUS
<1> USE DEF TypeInv, TypeOK, OrderInv, Ordered, InHand, SubmitPC
<1>0. job \in Nat /\ \A t \in Threads : run[t] \in 0..job /\ q[t] \in Seq(1..job)
    OBVIOUS
<1>1. CASE SentWork
    <2>1. \A t \in Threads : run[t] < job + 1 /\ Below(q[t], job + 1)
        BY <1>0, ElementOfSeq DEF Below
    <2>2. QED
        BY <1>1, <2>1 DEF SentWork
<1>2. CASE SelectMin
    BY <1>2 DEF SelectMin
<1>3. CASE PushWork
    <2>1. CASE Len(q[best]) < Cap
        <3>1. best \in Threads /\ job \in 1..job /\ spc = "push"
            BY <1>0, <1>3, PoolAssumption DEF PushWork, JobInHand
        <3>2. Increasing(q[best]) /\ Above(run[best], q[best])
              /\ Below(q[best], job) /\ run[best] < job
            BY <3>1
        <3>3. Increasing(Append(q[best], job)) /\ Above(run[best], Append(q[best], job))
            BY ONLY <1>0, <3>1, <3>2, PushKeepsOrder
        <3>4. q' = [q EXCEPT ![best] = Append(@, job)] /\ run' = run /\ spc' = "notify"
            BY <1>3, <2>1 DEF PushWork
        <3>5. q'[best] = Append(q[best], job) /\ \A t \in Threads : t # best => q'[t] = q[t]
            BY <3>1, <3>4
        <3>6. QED
            BY <3>3, <3>4, <3>5
    <2>2. CASE ~(Len(q[best]) < Cap)
        BY <1>3, <2>2 DEF PushWork
    <2>3. QED
        BY <2>1, <2>2
<1>4. CASE NotifyThread
    BY <1>4 DEF NotifyThread
<1>5. CASE WaitRoom
    BY <1>5 DEF WaitRoom
<1>6. ASSUME NEW t \in Threads, WaitWork(t)
      PROVE  OrderInv'
    BY <1>6 DEF WaitWork, submitVars
<1>7. ASSUME NEW t \in Threads, TestEmpty(t)
      PROVE  OrderInv'
    BY <1>7 DEF TestEmpty, submitVars
<1>8. ASSUME NEW t \in Threads, PopWork(t)
      PROVE  OrderInv'
    <2>1. q[t] # <<>> /\ Increasing(q[t])
        BY <1>8 DEF PopWork, PopFindsJob
    <2>2. /\ Increasing(Tail(q[t])) /\ Above(Head(q[t]), Tail(q[t]))
          /\ Below(q[t], job) => Below(Tail(q[t]), job) /\ Head(q[t]) < job
        BY ONLY <1>0, <1>8, <2>1, PopKeepsOrder
    <2>3. /\ q'[t] = Tail(q[t]) /\ run'[t] = Head(q[t])
          /\ \A u \in Threads : u # t => q'[u] = q[u] /\ run'[u] = run[u]
          /\ spc' = spc /\ job' = job
        BY <1>8 DEF PopWork, submitVars
    <2>4. QED
        BY <2>2, <2>3
<1>9. ASSUME NEW t \in Threads, FinishWork(t)
      PROVE  OrderInv'
    <2>1. Above(0, q[t])
        BY <1>0, ElementOfSeq DEF Above
    <2>2. /\ q' = q /\ spc' = spc /\ job' = job /\ run'[t] = 0
          /\ \A u \in Threads : u # t => run'[u] = run[u]
        BY <1>9 DEF FinishWork, submitVars
    <2>3. InHand => 0 < job
        BY <1>0 DEF JobInHand
    <2>4. QED
        BY <2>1, <2>2, <2>3
<1>10. ASSUME NEW t \in Threads, NotifyPool(t)
       PROVE  OrderInv'
    BY <1>10 DEF NotifyPool
<1>11. CASE SpuriousWake
    BY <1>11 DEF SpuriousWake, submitVars
<1>12. CASE UNCHANGED vars
    BY <1>12 DEF vars
<1>13. QED
    BY <1>1, <1>2, <1>3, <1>4, <1>5, <1>6, <1>7, <1>8, <1>9, <1>10, <1>11, <1>12
       DEF Next, SubmitStep, ThreadStep

\* A thread runs its jobs in the order in which sentWork was called.
THEOREM JobsInOrder == Spec => []ThreadOrder
<1>1. Init => OrderInv
    BY DEF Init, OrderInv, Ordered, Increasing, Above, InHand
<1>2. Spec => [](TypeInv /\ OrderInv)
    BY <1>1, TypeInit, TypeStep, OrderStep, PTL DEF Spec
<1>3. TypeInv /\ OrderInv => ThreadOrder
    BY ThreadOrderIs DEF OrderInv
<1>4. QED
    BY <1>2, <1>3, PTL

-----------------------------------------------------------------------------
(* Where a job is.                                                         *)

NoneQueued(j) == \A t \in Threads : \A i \in 1..Len(q[t]) : q[t][i] # j
NoneRunning(j) == \A t \in Threads : run[t] # j
NoneDone(j) == \A i \in 1..Len(done) : done[i] # j

OnlyQueued(j, t, i) ==
    /\ i \in 1..Len(q[t]) /\ q[t][i] = j
    /\ \A u \in Threads : \A k \in 1..Len(q[u]) : q[u][k] = j => u = t /\ k = i

OneQueued(j) == \E t \in Threads, i \in Nat : OnlyQueued(j, t, i)
OneRunning(j) == \E t \in Threads : run[t] = j /\ \A u \in Threads : run[u] = j => u = t
OneDone(j) ==
    \E i \in 1..Len(done) : done[i] = j /\ \A k \in 1..Len(done) : done[k] = j => k = i

Nowhere(j) == NoneQueued(j) /\ NoneRunning(j) /\ NoneDone(j)
Somewhere(j) ==
    \/ OneQueued(j) /\ NoneRunning(j) /\ NoneDone(j)
    \/ NoneQueued(j) /\ OneRunning(j) /\ NoneDone(j)
    \/ NoneQueued(j) /\ NoneRunning(j) /\ OneDone(j)

\* The job in hand is nowhere yet, every other one is in one place.
Once == \A j \in 1..job : IF InHand /\ j = job THEN Nowhere(j) ELSE Somewhere(j)

\* A step that moves no job.
LEMMA OnceStays ==
    ASSUME Once, UNCHANGED <<q, run, done, job>>, InHand' <=> InHand
    PROVE  Once'
BY DEF Once, Nowhere, Somewhere, NoneQueued, NoneRunning, NoneDone,
       OneQueued, OnlyQueued, OneRunning, OneDone

\* Jobs that sentWork has not given out yet are nowhere.
LEMMA FutureNowhere ==
    ASSUME TypeInv, NEW j \in Nat, j > job
    PROVE  Nowhere(j)
<1>1. job \in Nat
    BY DEF TypeInv, TypeOK
<1>2. NoneQueued(j)
    BY <1>1, ElementOfSeq DEF TypeInv, TypeOK, NoneQueued
<1>3. NoneRunning(j)
    BY <1>1 DEF TypeInv, TypeOK, NoneRunning
<1>4. NoneDone(j)
    BY <1>1, ElementOfSeq DEF TypeInv, TypeOK, NoneDone
<1>5. QED
    BY <1>2, <1>3, <1>4 DEF Nowhere

LEMMA OnceBegins ==
    ASSUME TypeInv, Once, SentWork
    PROVE  Once'
<1>1. /\ job \in Nat /\ job' = job + 1 /\ spc = "idle" /\ spc' = "scan"
      /\ UNCHANGED <<q, run, done>>
    BY DEF SentWork, TypeInv, TypeOK
<1>2. ASSUME NEW j \in 1..job PROVE Somewhere(j)'
    <2>1. Somewhere(j)
        BY <1>1 DEF Once, InHand
    <2>2. QED
        BY <1>1, <2>1 DEF Somewhere, NoneQueued, NoneRunning, NoneDone,
                          OneQueued, OnlyQueued, OneRunning, OneDone
<1>3. ASSUME NEW j, j = job + 1 PROVE Nowhere(j)'
    <2>1. Nowhere(j)
        BY <1>1, <1>3, FutureNowhere
    <2>2. QED
        BY <1>1, <2>1 DEF Nowhere, NoneQueued, NoneRunning, NoneDone
<1>4. QED
    BY <1>1, <1>2, <1>3 DEF Once, InHand

LEMMA OncePushed ==
    ASSUME TypeInv, Once, PushWork
    PROVE  Once'
<1>1. job \in 1..job /\ spc = "push" /\ best \in Threads /\ q[best] \in Seq(1..job)
    BY DEF PushWork, TypeInv, TypeOK, JobInHand
<1>2. UNCHANGED <<run, done, job>>
    BY DEF PushWork
<1>3. CASE ~(Len(q[best]) < Cap)
    <2>1. UNCHANGED q /\ spc' = "wait"
        BY <1>3 DEF PushWork
    <2>2. QED
        BY <1>1, <1>2, <2>1, OnceStays DEF InHand
<1>4. CASE Len(q[best]) < Cap
    <2>1. q' = [q EXCEPT ![best] = Append(@, job)] /\ spc' = "notify"
        BY <1>4 DEF PushWork
    <2>2. PICK n : n = Len(q[best])
        OBVIOUS
    <2>3. /\ n \in Nat /\ Len(q'[best]) = n + 1 /\ q'[best][n + 1] = job
          /\ \A i \in 1..n : q'[best][i] = q[best][i]
          /\ \A u \in Threads : u # best => q'[u] = q[u]
        BY <1>1, <2>1, <2>2, QueuePush DEF TypeInv, TypeOK
    <2>4. n + 1 \in 1..(n + 1) /\ \A i \in 1..(n + 1) : i \in 1..n \/ i = n + 1
        BY <2>3
    <2>5. NoneQueued(job) /\ NoneRunning(job) /\ NoneDone(job)
        BY <1>1 DEF Once, InHand, Nowhere
    <2>6. \A u \in Threads : \A k \in 1..Len(q'[u]) :
              q'[u][k] = job => u = best /\ k = n + 1
        BY <2>2, <2>3, <2>4, <2>5 DEF NoneQueued
    <2>7. ASSUME NEW j \in 1..job, j = job PROVE Somewhere(j)'
        <3>1. OneQueued(j)'
            <4>1. PICK t, i : t = best /\ i = n + 1
                OBVIOUS
            <4>2. t \in Threads /\ i \in Nat /\ i \in 1..Len(q'[t]) /\ q'[t][i] = j
                BY <1>1, <2>3, <2>4, <2>7, <4>1
            <4>3. \A u \in Threads : \A k \in 1..Len(q'[u]) : q'[u][k] = j => u = t /\ k = i
                BY <2>6, <2>7, <4>1
            <4>4. QED
                BY <4>2, <4>3 DEF OneQueued, OnlyQueued
        <3>2. NoneRunning(j)' /\ NoneDone(j)'
            BY <1>2, <2>5, <2>7 DEF NoneRunning, NoneDone
        <3>3. QED
            BY <3>1, <3>2 DEF Somewhere
    <2>8. ASSUME NEW j \in 1..job, j # job PROVE Somewhere(j)'
        <3>1. Somewhere(j)
            BY <2>8 DEF Once
        <3>2. ASSUME NoneQueued(j) PROVE NoneQueued(j)'
            BY <2>2, <2>3, <2>4, <2>8, <3>2 DEF NoneQueued
        <3>3. ASSUME OneQueued(j) PROVE OneQueued(j)'
            <4>1. PICK t \in Threads, i \in Nat : OnlyQueued(j, t, i)
                BY <3>3 DEF OneQueued
            <4>2. i \in 1..Len(q'[t]) /\ q'[t][i] = j
                BY <2>2, <2>3, <4>1 DEF OnlyQueued
            <4>3. \A u \in Threads : \A k \in 1..Len(q'[u]) : q'[u][k] = j => u = t /\ k = i
                BY <2>2, <2>3, <2>4, <2>8, <4>1 DEF OnlyQueued
            <4>4. QED
                BY <4>2, <4>3 DEF OneQueued, OnlyQueued
        <3>4. /\ NoneRunning(j)' <=> NoneRunning(j)
              /\ OneRunning(j)' <=> OneRunning(j)
              /\ NoneDone(j)' <=> NoneDone(j)
              /\ OneDone(j)' <=> OneDone(j)
            BY <1>2 DEF NoneRunning, OneRunning, NoneDone, OneDone
        <3>5. QED
            BY <3>1, <3>2, <3>3, <3>4 DEF Somewhere
    <2>9. ~InHand'
        BY <2>1 DEF InHand
    <2>10. ASSUME NEW j \in 1..job PROVE Somewhere(j)'
        BY <2>7, <2>8
    <2>11. QED
        BY <1>2, <2>9, <2>10 DEF Once
<1>5. QED
    BY <1>3, <1>4

LEMMA OncePopped ==
    ASSUME TypeInv, Once, NEW t \in Threads, PopWork(t)
    PROVE  Once'
<1>1. /\ job \in Nat /\ q[t] \in Seq(1..job) /\ q[t] # <<>> /\ run[t] = 0
      /\ UNCHANGED <<done, job, spc>>
      /\ q' = [q EXCEPT ![t] = Tail(@)] /\ run' = [run EXCEPT ![t] = Head(q[t])]
    BY DEF PopWork, TypeInv, TypeOK, PopFindsJob, JobInHand, submitVars
<1>2. PICK n, h : n = Len(q[t]) /\ h = Head(q[t])
    OBVIOUS
<1>3. /\ n \in Nat /\ n > 0 /\ h \in 1..job /\ h = q[t][1]
      /\ Len(q'[t]) = n - 1 /\ \A i \in 1..(n - 1) : q'[t][i] = q[t][i + 1]
      /\ run'[t] = h
      /\ \A u \in Threads : u # t => q'[u] = q[u] /\ run'[u] = run[u]
    BY <1>1, <1>2, QueuePop DEF TypeInv, TypeOK
<1>4. /\ 1 \in 1..n /\ \A i \in 1..(n - 1) : i + 1 \in 1..n /\ i + 1 # 1 /\ i \in Nat
      /\ \A i \in 1..n : i = 1 \/ (i - 1 \in 1..(n - 1) /\ i = (i - 1) + 1 /\ i - 1 \in Nat)
    BY <1>3
<1>5. ~NoneQueued(h)
    BY <1>2, <1>3, <1>4 DEF NoneQueued
<1>6. Somewhere(h)
    BY <1>3, <1>5 DEF Once, Nowhere
<1>7. OneQueued(h) /\ NoneRunning(h) /\ NoneDone(h)
    BY <1>5, <1>6 DEF Somewhere
<1>8. PICK x \in Threads, y \in Nat : OnlyQueued(h, x, y)
    BY <1>7 DEF OneQueued
<1>9. x = t /\ y = 1
    BY <1>2, <1>3, <1>4, <1>8 DEF OnlyQueued
<1>10. NoneQueued(h)'
    <2>1. ASSUME NEW u \in Threads, NEW i \in 1..Len(q'[u]) PROVE q'[u][i] # h
        <3>1. CASE u = t
            BY <1>2, <1>3, <1>4, <1>8, <1>9, <3>1 DEF OnlyQueued
        <3>2. CASE u # t
            BY <1>3, <1>8, <1>9, <3>2 DEF OnlyQueued
        <3>3. QED
            BY <3>1, <3>2
    <2>2. QED
        BY <2>1 DEF NoneQueued
<1>11. OneRunning(h)' /\ NoneDone(h)'
    <2>1. \A u \in Threads : u # t => run'[u] # h
        BY <1>3, <1>7 DEF NoneRunning
    <2>2. OneRunning(h)'
        BY <1>3, <2>1 DEF OneRunning
    <2>3. NoneDone(h)'
        BY <1>1, <1>7 DEF NoneDone
    <2>4. QED
        BY <2>2, <2>3
<1>12. Somewhere(h)' /\ ~(InHand /\ h = job)
    BY <1>3, <1>5, <1>10, <1>11 DEF Somewhere, Once, Nowhere
<1>13. ASSUME NEW j \in 1..job, j # h
       PROVE  IF InHand /\ j = job THEN Nowhere(j)' ELSE Somewhere(j)'
    <2>1. IF InHand /\ j = job THEN Nowhere(j) ELSE Somewhere(j)
        BY DEF Once
    <2>2. ASSUME NoneQueued(j) PROVE NoneQueued(j)'
        <3>1. ASSUME NEW u \in Threads, NEW i \in 1..Len(q'[u]) PROVE q'[u][i] # j
            <4>1. CASE u = t
                BY <1>2, <1>3, <1>4, <2>2, <4>1 DEF NoneQueued
            <4>2. CASE u # t
                BY <1>3, <2>2, <4>2 DEF NoneQueued
            <4>3. QED
                BY <4>1, <4>2
        <3>2. QED
            BY <3>1 DEF NoneQueued
    <2>3. ASSUME OneQueued(j) PROVE OneQueued(j)'
        <3>1. PICK u \in Threads, i \in Nat : OnlyQueued(j, u, i)
            BY <2>3 DEF OneQueued
        <3>2. CASE u # t
            <4>1. i \in 1..Len(q'[u]) /\ q'[u][i] = j
                BY <1>3, <3>1, <3>2 DEF OnlyQueued
            <4>2. ASSUME NEW v \in Threads, NEW k \in 1..Len(q'[v]), q'[v][k] = j
                  PROVE  v = u /\ k = i
                <5>1. v # t
                    BY <1>2, <1>3, <1>4, <3>1, <3>2, <4>2 DEF OnlyQueued
                <5>2. QED
                    BY <1>3, <3>1, <4>2, <5>1 DEF OnlyQueued
            <4>3. QED
                BY <4>1, <4>2 DEF OneQueued, OnlyQueued
        <3>3. CASE u = t
            <4>1. i # 1 /\ i \in 1..n
                BY <1>2, <1>3, <1>13, <3>1, <3>3 DEF OnlyQueued
            <4>2. i - 1 \in 1..(n - 1) /\ i - 1 \in Nat /\ q'[t][i - 1] = j
                BY <1>3, <1>4, <3>1, <3>3, <4>1 DEF OnlyQueued
            <4>3. ASSUME NEW v \in Threads, NEW k \in 1..Len(q'[v]), q'[v][k] = j
                  PROVE  v = t /\ k = i - 1
                <5>1. CASE v = t
                    <6>1. k \in 1..(n - 1) /\ k + 1 \in 1..n /\ q[t][k + 1] = j
                        BY <1>3, <1>4, <4>3, <5>1
                    <6>2. k + 1 = i
                        BY <1>2, <3>1, <3>3, <6>1 DEF OnlyQueued
                    <6>3. QED
                        BY <5>1, <6>1, <6>2
                <5>2. CASE v # t
                    BY <1>3, <3>1, <3>3, <4>3, <5>2 DEF OnlyQueued
                <5>3. QED
                    BY <5>1, <5>2
            <4>4. QED
                BY <1>3, <4>2, <4>3 DEF OneQueued, OnlyQueued
        <3>4. QED
            BY <3>2, <3>3
    <2>4. /\ NoneRunning(j)' <=> NoneRunning(j)
          /\ OneRunning(j) => OneRunning(j)'
        <3>1. \A u \in Threads : run'[u] = j <=> run[u] = j
            BY <1>1, <1>3, <1>13
        <3>2. QED
            BY <3>1 DEF NoneRunning, OneRunning
    <2>5. /\ NoneDone(j)' <=> NoneDone(j)
          /\ OneDone(j)' <=> OneDone(j)
        BY <1>1 DEF NoneDone, OneDone
    <2>6. QED
        BY <2>1, <2>2, <2>3, <2>4, <2>5 DEF Somewhere, Nowhere
<1>14. QED
    BY <1>1, <1>12, <1>13 DEF Once, InHand

LEMMA OnceFinished ==
    ASSUME TypeInv, Once, NEW t \in Threads, FinishWork(t)
    PROVE  Once'
<1>1. PICK n, h : n = Len(done) /\ h = run[t]
    OBVIOUS
<1>2. /\ job \in Nat /\ done \in Seq(1..job) /\ h \in 1..job /\ UNCHANGED <<q, job, spc>>
      /\ done' = Append(done, h) /\ run' = [run EXCEPT ![t] = 0]
    BY <1>1 DEF FinishWork, TypeInv, TypeOK, JobInHand, submitVars
<1>3. /\ n \in Nat /\ Len(done') = n + 1 /\ done'[n + 1] = h
      /\ \A i \in 1..n : done'[i] = done[i]
    BY <1>1, <1>2, QueuePush
<1>4. n + 1 \in 1..(n + 1) /\ \A i \in 1..(n + 1) : i \in 1..n \/ i = n + 1
    BY <1>3
<1>5. run'[t] = 0 /\ \A u \in Threads : u # t => run'[u] = run[u]
    BY <1>2 DEF TypeInv, TypeOK
<1>6. ~NoneRunning(h)
    BY <1>1 DEF NoneRunning
<1>7. ~(InHand /\ h = job) /\ NoneQueued(h) /\ OneRunning(h) /\ NoneDone(h)
    BY <1>2, <1>6 DEF Once, Nowhere, Somewhere
<1>8. NoneQueued(h)' /\ NoneRunning(h)'
    BY <1>1, <1>2, <1>5, <1>7 DEF NoneQueued, OneRunning, NoneRunning
<1>9. OneDone(h)'
    BY <1>1, <1>3, <1>4, <1>7 DEF OneDone, NoneDone
<1>10. ASSUME NEW j \in 1..job, j # h
       PROVE  IF InHand /\ j = job THEN Nowhere(j)' ELSE Somewhere(j)'
    <2>1. IF InHand /\ j = job THEN Nowhere(j) ELSE Somewhere(j)
        BY DEF Once
    <2>2. /\ NoneRunning(j)' <=> NoneRunning(j)
          /\ OneRunning(j) => OneRunning(j)'
        <3>1. \A u \in Threads : run'[u] = j <=> run[u] = j
            BY <1>1, <1>2, <1>5, <1>10
        <3>2. QED
            BY <3>1 DEF NoneRunning, OneRunning
    <2>3. /\ NoneDone(j) => NoneDone(j)'
          /\ OneDone(j) => OneDone(j)'
        BY <1>1, <1>3, <1>4, <1>10 DEF NoneDone, OneDone
    <2>4. /\ NoneQueued(j)' <=> NoneQueued(j)
          /\ OneQueued(j)' <=> OneQueued(j)
        BY <1>2 DEF NoneQueued, OneQueued, OnlyQueued
    <2>5. QED
        BY <2>1, <2>2, <2>3, <2>4 DEF Somewhere, Nowhere
<1>11. QED
    BY <1>2, <1>7, <1>8, <1>9, <1>10 DEF Once, Somewhere, InHand

LEMMA OnceStep == TypeInv /\ Once /\ [Next]_vars => Once'
<1> SUFFICES ASSUME TypeInv, Once, [Next]_vars PROVE Once'
    OBVIOUS
<1>1. CASE SentWork
    BY <1>1, OnceBegins
<1>2. CASE SelectMin \/ NotifyThread \/ WaitRoom
    <2>1. UNCHANGED <<q, run, done, job>> /\ (InHand' <=> InHand)
        BY <1>2 DEF SelectMin, NotifyThread, WaitRoom, InHand
    <2>2. QED
        BY <2>1, OnceStays
<1>3. CASE PushWork
    BY <1>3, OncePushed
<1>4. ASSUME NEW t \in Threads, WaitWork(t) \/ TestEmpty(t) \/ NotifyPool(t)
      PROVE  Once'
    <2>1. UNCHANGED <<q, run, done, job>> /\ (InHand' <=> InHand)
        BY <1>4 DEF WaitWork, TestEmpty, NotifyPool, InHand, submitVars
    <2>2. QED
        BY <2>1, OnceStays
<1>5. ASSUME NEW t \in Threads, PopWork(t) \/ FinishWork(t)
      PROVE  Once'
    BY <1>5, OncePopped, OnceFinished
<1>6. CASE SpuriousWake \/ UNCHANGED vars
    <2>1. UNCHANGED <<q, run, done, job>> /\ (InHand' <=> InHand)
        BY <1>6 DEF SpuriousWake, vars, InHand, submitVars
    <2>2. QED
        BY <2>1, OnceStays
<1>7. QED
    BY <1>1, <1>2, <1>3, <1>4, <1>5, <1>6 DEF Next, SubmitStep, ThreadStep

\* Every job handed to sentWork is run exactly once, by any number of threads.
THEOREM RunsOnce == Spec => []ExactlyOnce
<1>1. Init => Once
    BY DEF Init, Once
<1>2. Spec => [](TypeInv /\ Once)
    BY <1>1, TypeInit, TypeStep, OnceStep, PTL DEF Spec
<1>3. ASSUME TypeInv, Once, NEW j \in 1..job, NEW p, p = Places(j)
      PROVE  IF InHand /\ j = job
             THEN p.queued = {} /\ p.running = {} /\ p.done = {}
             ELSE \/ (\E x \in p.queued : p.queued = {x}) /\ p.running = {} /\ p.done = {}
                  \/ (\E x \in p.running : p.running = {x}) /\ p.queued = {} /\ p.done = {}
                  \/ (\E x \in p.done : p.done = {x}) /\ p.queued = {} /\ p.running = {}
    <2>1. /\ p.queued = {x \in Threads \X (1..Cap) :
                            x[2] <= Len(q[x[1]]) /\ q[x[1]][x[2]] = j}
          /\ p.running = {t \in Threads : run[t] = j}
          /\ p.done = {i \in 1..Len(done) : done[i] = j}
        BY <1>3 DEF Places
    <2>2. \A t \in Threads : Len(q[t]) \in Nat /\ Len(q[t]) <= Cap
        BY <1>3 DEF TypeInv, TypeOK
    <2>3. ASSUME NEW x \in p.queued
          PROVE  x[1] \in Threads /\ x[2] \in 1..Len(q[x[1]]) /\ q[x[1]][x[2]] = j
                 /\ x = <<x[1], x[2]>>
        BY <2>1, <2>2
    <2>4. NoneQueued(j) => p.queued = {}
        BY <2>3 DEF NoneQueued
    <2>5. OneQueued(j) => \E x \in p.queued : p.queued = {x}
        <3> SUFFICES ASSUME OneQueued(j) PROVE \E x \in p.queued : p.queued = {x}
            OBVIOUS
        <3>1. PICK t \in Threads, i \in Nat : OnlyQueued(j, t, i)
            BY DEF OneQueued
        <3>2. <<t, i>> \in p.queued
            BY <2>1, <2>2, <3>1, PoolAssumption DEF OnlyQueued
        <3>3. ASSUME NEW x \in p.queued PROVE x = <<t, i>>
            BY <2>3, <3>1 DEF OnlyQueued
        <3>4. QED
            BY <3>2, <3>3
    <2>6. /\ NoneRunning(j) => p.running = {}
          /\ OneRunning(j) => \E x \in p.running : p.running = {x}
          /\ NoneDone(j) => p.done = {}
          /\ OneDone(j) => \E x \in p.done : p.done = {x}
        BY <2>1 DEF NoneRunning, OneRunning, NoneDone, OneDone
    <2>7. QED
        BY <1>3, <2>4, <2>5, <2>6 DEF Once, Nowhere, Somewhere
<1>4. TypeInv /\ Once => ExactlyOnce
    BY <1>3 DEF ExactlyOnce
<1>5. QED
    BY <1>2, <1>4, PTL

-----------------------------------------------------------------------------
(* The pool the server builds, noti_threads(1).                            *)

\* Every job accepted so far is finished, running or queued; one more is in
\* hand while sentWork has not placed it.
Accounted ==
    \E r, h \in {0, 1} :
        /\ r = 0 <=> run[1] = 0
        /\ h = 1 <=> InHand
        /\ job = Len(done) + r + Len(q[1]) + h

\* One step of the pool is one step of the serial executor, or none.
LEMMA CountArithmetic ==
    ASSUME NEW j \in Nat, NEW d \in Nat, NEW n \in Nat, NEW r \in {0, 1}, NEW h \in {0, 1},
           j = d + r + n + h
    PROVE  /\ h = 0 => j + 1 = d + r + n + 1
           /\ h = 1 => j = d + r + n + 1 /\ j = d + r + (n + 1) + 0
           /\ r = 0 => j = d + 1 + (n - 1) + h
           /\ r = 1 => j = (d + 1) + 0 + n + h
           /\ d + r + n \in Nat
OBVIOUS

LEMMA SerialStep ==
    ASSUME ThreadNum = 1, TypeInv, Accounted, [Next]_vars
    PROVE  Accounted' /\ [Serial!Next]_(Serial!absVars)
<1> USE DEF TypeInv, TypeOK, Accounted, InHand, SubmitPC, Serial!absVars
<1>0. /\ Threads = {1} /\ job \in Nat /\ q[1] \in Seq(1..job) /\ done \in Seq(1..job)
      /\ Len(q[1]) \in Nat /\ Len(done) \in Nat /\ run[1] \in 0..job
    <2>1. Threads = {1}
        BY ONLY ThreadNum = 1 DEF Threads
    <2>2. job \in Nat /\ q[1] \in Seq(1..job) /\ done \in Seq(1..job) /\ run[1] \in 0..job
        BY ONLY TypeInv, <2>1, PoolAssumption DEF TypeInv, TypeOK
    <2>3. QED
        BY ONLY <2>1, <2>2, LenProperties
<1> DEFINE d == Len(done)
           n == Len(q[1])
<1>a. PICK r \in {0, 1}, h \in {0, 1} :
          /\ r = 0 <=> run[1] = 0
          /\ h = 1 <=> InHand
          /\ job = d + r + n + h
    BY DEF Accounted
<1>b. job \in Nat /\ d \in Nat /\ n \in Nat /\ r \in {0, 1} /\ h \in {0, 1} /\ job = d + r + n + h
    BY ONLY <1>0, <1>a
<1>c. /\ h = 0 => job + 1 = d + r + n + 1
      /\ h = 1 => job = d + r + n + 1 /\ job = d + r + (n + 1) + 0
      /\ r = 0 => job = d + 1 + (n - 1) + h
      /\ r = 1 => job = (d + 1) + 0 + n + h
      /\ d + r + n \in Nat
    <2> HIDE DEF d, n
    <2>1. QED
        BY ONLY <1>b, CountArithmetic
<1>1. CASE SentWork
    <2>1. h = 0 /\ job' = job + 1 /\ InHand' /\ UNCHANGED <<q, run, done>>
        BY <1>1, <1>a DEF SentWork
    <2>2. job + 1 = Len(done) + r + Len(q[1]) + 1
        BY <1>c, <2>1
    <2>3. QED
        BY <1>a, <2>1, <2>2
<1>2. CASE SelectMin
    BY <1>0, <1>2 DEF SelectMin
<1>3. CASE PushWork
    <2>1. best = 1 /\ job \in 1..job /\ spc = "push"
        BY <1>0, <1>3 DEF PushWork, JobInHand
    <2>2. Len(Append(q[1], job)) = Len(q[1]) + 1
        BY ONLY <1>0, <2>1, QueuePush
    <2>3. CASE Len(q[1]) < Cap
        <3>1. q'[1] = Append(q[1], job) /\ spc' = "notify"
              /\ UNCHANGED <<run, job, done>>
            BY <1>0, <1>3, <2>1, <2>3 DEF PushWork
        <3>2. Serial!accepted = Len(done) + r + Len(q[1])
            BY ONLY <1>0, <1>a DEF Serial!accepted
        <3>6. job = Serial!accepted + 1 /\ Serial!accepted < MaxJobs
            <4>1. job = Serial!accepted + 1
                BY <1>a, <1>c, <2>1, <3>2
            <4>2. Serial!accepted \in Nat
                BY ONLY <1>c, <3>2
            <4>3. job \in 0..MaxJobs
                OBVIOUS
            <4>4. QED
                BY ONLY <4>1, <4>2, <4>3, PoolAssumption
        <3>3. Serial!Accept
            BY <2>3, <3>1, <3>6 DEF Serial!Accept
        <3>4. Accounted'
            <4>1. Len(q'[1]) = Len(q[1]) + 1 /\ ~InHand' /\ InHand
                BY <2>1, <2>2, <3>1
            <4>2. r \in {0, 1} /\ (r = 0 <=> run'[1] = 0) /\ job' = Len(done') + r + Len(q'[1]) + 0
                BY <1>a, <1>c, <3>1, <4>1
            <4>3. QED
                <5> SUFFICES \E x, y \in {0, 1} :
                                /\ x = 0 <=> run'[1] = 0
                                /\ y = 1 <=> InHand'
                                /\ job' = Len(done') + x + Len(q'[1]) + y
                    OBVIOUS
                <5> WITNESS r \in {0, 1}, 0 \in {0, 1}
                <5>1. QED
                    BY <4>1, <4>2
        <3>5. QED
            BY <3>3, <3>4 DEF Serial!Next
    <2>4. CASE ~(Len(q[1]) < Cap)
        BY <1>0, <1>3, <2>1, <2>4 DEF PushWork
    <2>5. QED
        BY <2>3, <2>4
<1>4. CASE NotifyThread
    BY <1>0, <1>4 DEF NotifyThread
<1>5. CASE WaitRoom
    BY <1>0, <1>5 DEF WaitRoom
<1>6. ASSUME NEW t \in Threads, WaitWork(t)
      PROVE  Accounted' /\ [Serial!Next]_(Serial!absVars)
    BY <1>6 DEF WaitWork, submitVars
<1>7. ASSUME NEW t \in Threads, TestEmpty(t)
      PROVE  Accounted' /\ [Serial!Next]_(Serial!absVars)
    BY <1>7 DEF TestEmpty, submitVars
<1>8. ASSUME NEW t \in Threads, PopWork(t)
      PROVE  Accounted' /\ [Serial!Next]_(Serial!absVars)
    <2>1. t = 1 /\ q[1] # <<>> /\ run[1] = 0
        BY <1>0, <1>8 DEF PopWork, PopFindsJob, JobInHand
    <2>2. Head(q[1]) \in 1..job /\ Len(Tail(q[1])) = Len(q[1]) - 1
        BY ONLY <1>0, <2>1, QueuePop
    <2>3. /\ q'[1] = Tail(q[1]) /\ run'[1] = Head(q[1])
          /\ UNCHANGED <<spc, job, done>>
        BY <1>0, <1>8, <2>1 DEF PopWork, submitVars
    <2>4. Serial!Start
        BY <2>1, <2>3 DEF Serial!Start
    <2>5. Accounted'
        <3>1. InHand' = InHand /\ run'[1] # 0 /\ Len(q'[1]) = Len(q[1]) - 1
            BY <1>0, <2>2, <2>3
        <3>2. QED
            BY <1>a, <1>c, <2>1, <2>3, <3>1
    <2>6. QED
        BY <2>4, <2>5 DEF Serial!Next
<1>9. ASSUME NEW t \in Threads, FinishWork(t)
      PROVE  Accounted' /\ [Serial!Next]_(Serial!absVars)
    <2>1. t = 1 /\ run[1] # 0
        BY <1>0, <1>9 DEF FinishWork, JobInHand
    <2>2. Len(Append(done, run[1])) = Len(done) + 1
        BY ONLY <1>0, <2>1, QueuePush, run[1] \in 1..job
    <2>3. /\ done' = Append(done, run[1]) /\ run'[1] = 0
          /\ UNCHANGED <<spc, job, q>>
        BY <1>0, <1>9, <2>1 DEF FinishWork, submitVars
    <2>4. Serial!Finish
        BY <2>1, <2>3 DEF Serial!Finish
    <2>5. Accounted'
        BY <1>a, <1>c, <2>1, <2>2, <2>3
    <2>6. QED
        BY <2>4, <2>5 DEF Serial!Next
<1>10. ASSUME NEW t \in Threads, NotifyPool(t)
       PROVE  Accounted' /\ [Serial!Next]_(Serial!absVars)
    BY <1>10 DEF NotifyPool
<1>11. CASE SpuriousWake
    BY <1>11 DEF SpuriousWake, submitVars
<1>12. CASE UNCHANGED vars
    BY <1>12 DEF vars
<1>13. QED
    BY <1>1, <1>2, <1>3, <1>4, <1>5, <1>6, <1>7, <1>8, <1>9, <1>10, <1>11, <1>12
       DEF Next, SubmitStep, ThreadStep

\* With one thread the pool implements the serial executor of JobQueue: jobs
\* run one at a time, once each, in the order sentWork accepted them, and
\* sentWork accepts no more than the queue holds.
THEOREM PoolIsSerial ==
    ASSUME ThreadNum = 1
    PROVE  Spec => Serial!SafeSpec
<1>1. Init => Accounted /\ Serial!Init
    BY EmptySeq DEF Init, Accounted, Serial!Init, InHand, Threads
<1>2. TypeInv /\ Accounted /\ [Next]_vars => Accounted' /\ [Serial!Next]_(Serial!absVars)
    BY SerialStep
<1>3. QED
    BY <1>1, <1>2, TypeInit, TypeStep, PTL DEF Spec, Serial!SafeSpec
=============================================================================
