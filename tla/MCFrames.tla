------------------------------ MODULE MCFrames ------------------------------
(* TLC instances of Frames.                                                *)
EXTENDS Frames, TLC

Symmetry == Permutations(Conn)
=============================================================================
