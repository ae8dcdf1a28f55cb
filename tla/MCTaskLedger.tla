---------------------------- MODULE MCTaskLedger ----------------------------
(* Instances of TaskLedger for TLC. *)
EXTENDS TaskLedger, TLC

Symmetry == Permutations(Task) \union Permutations(Deleter)
=============================================================================
