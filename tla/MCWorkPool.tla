----------------------------- MODULE MCWorkPool -----------------------------
(***************************************************************************)
(* TLC instances of WorkPool: the pool the server builds (one thread) and  *)
(* a pool of two threads, both with queues short enough to fill up.        *)
(***************************************************************************)
EXTENDS WorkPool
=============================================================================
