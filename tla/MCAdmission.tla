---------------------------- MODULE MCAdmission ----------------------------
(* Instances of Admission for TLC. *)
EXTENDS Admission, TLC

Symmetry ==
  Permutations(Request) \union Permutations(Client) \union Permutations(Saver)
=============================================================================
