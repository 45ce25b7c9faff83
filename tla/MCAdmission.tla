----------------------------- MODULE MCAdmission -----------------------------
(* Admission with interchangeable messages and interchangeable calls. *)
EXTENDS Admission, TLC

Symmetry == Permutations(Messages) \cup Permutations(Calls)
=============================================================================
