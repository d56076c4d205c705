------------------------------ MODULE MCNetYi ------------------------------
(* Finite instances of NetYi: an application thread against the callbacks  *)
(* of the loop thread, with the reserved keys and without.                 *)
EXTENDS NetYi, TLC
=============================================================================
