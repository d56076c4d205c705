----------------------------- MODULE MCFriends ------------------------------
(***************************************************************************)
(* TLC instances of Friends.                                               *)
(***************************************************************************)
EXTENDS Friends, TLC

Symmetry == Permutations(User) \cup Permutations(Worker)
=============================================================================
