----------------------------- MODULE MCBaleRepo ------------------------------
(* Model values and symmetry for the small instances of BaleRepo. *)
EXTENDS BaleRepo, TLC

HashSymmetry == Permutations(Hashes)
OpSymmetry == Permutations(Hashes) \cup Permutations(Ops)
=============================================================================
