----------------------------- MODULE MCLifetime -----------------------------
(* Finite instances of Lifetime.                                           *)
EXTENDS Lifetime, TLC
=============================================================================
