----------------------------- MODULE MCFollowups -----------------------------
(* Followups with interchangeable messages. *)
EXTENDS Followups, TLC

Symmetry == Permutations(Messages)
=============================================================================
