--------------------------- MODULE MCConversation ---------------------------
(***************************************************************************)
(* TLC instances of Conversation: one conversation between two users.      *)
(***************************************************************************)
EXTENDS Conversation, TLC

MembersDef == [n \in Node |-> CHOOSE s \in SUBSET User : Cardinality(s) = 2]
\* With two users Members is the whole of User, so users may be permuted too.
Symmetry == Permutations(Worker) \cup Permutations(User)
=============================================================================
