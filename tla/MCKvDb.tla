------------------------------- MODULE MCKvDb -------------------------------
(* Finite instances of KvDb.                                               *)
EXTENDS KvDb, TLC
=============================================================================
