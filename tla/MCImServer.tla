----------------------------- MODULE MCImServer -----------------------------
(***************************************************************************)
(* TLC instances of ImServer.                                              *)
(***************************************************************************)
EXTENDS ImServer, TLC

Symmetry == Permutations(Conn) \cup Permutations(Device)
=============================================================================
