----------------------------- MODULE MCAccounts -----------------------------
(* Finite instances of Accounts.                                           *)
EXTENDS Accounts, TLC

CONSTANTS u1, d1, d2, v1, v2

\* Everything but register is asked on d1; on d2 users register, log in, connect
\* and query documents, of which both devices then keep copies.
KindsOf == d1 :> (Entry \cup Checked) \ {"register"}
           @@ d2 :> {"register", "login", "connect", "queryuser"}

\* u1 has used d1 before.
LoggedInOn == d1 :> {u1} @@ d2 :> {}

Symmetry == Permutations({v1, v2})
=============================================================================
