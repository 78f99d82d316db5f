---------------------------- MODULE MCSharedStore ----------------------------
(* Two repositories and two or three files: enough for one repository to   *)
(* drop what the other keeps.                                              *)
EXTENDS SharedStore, TLC

SharedSymmetry == Permutations(Hashes) \cup Permutations(Repos)
=============================================================================
