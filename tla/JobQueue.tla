------------------------------ MODULE JobQueue ------------------------------
(***************************************************************************)
(* What noti_threads promises its only caller, the event loop, when it is  *)
(* built with one thread (libev_server.cxx:485): a bounded queue of jobs   *)
(* that are run one at a time, each exactly once, in the order in which    *)
(* sentWork accepted them.                                                 *)
(***************************************************************************)
EXTENDS Naturals, Sequences

CONSTANTS Cap,      \* jobs the queue holds (20 in the code)
          MaxJobs   \* bound on the number of jobs submitted

VARIABLES queue,    \* accepted jobs that have not started, oldest first
          running,  \* the job being run, 0 when there is none
          finished  \* jobs that have returned, in the order they did

absVars == <<queue, running, finished>>

accepted == Len(finished) + (IF running = 0 THEN 0 ELSE 1) + Len(queue)

Init == queue = <<>> /\ running = 0 /\ finished = <<>>

\* sentWork returns: job number accepted + 1 is in the queue.
Accept ==
    /\ accepted < MaxJobs
    /\ Len(queue) < Cap
    /\ queue' = Append(queue, accepted + 1)
    /\ UNCHANGED <<running, finished>>

Start ==
    /\ running = 0
    /\ queue # <<>>
    /\ running' = Head(queue)
    /\ queue' = Tail(queue)
    /\ UNCHANGED finished

Finish ==
    /\ running # 0
    /\ finished' = Append(finished, running)
    /\ running' = 0
    /\ UNCHANGED queue

Next == Accept \/ Start \/ Finish

SafeSpec == Init /\ [][Next]_absVars

Spec == SafeSpec /\ WF_absVars(Start) /\ WF_absVars(Finish)
=============================================================================
