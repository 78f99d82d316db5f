----------------------------- MODULE MCCasServer -----------------------------
(* Small instances of CasServer. *)
EXTENDS CasServer, TLC

(* A file that is cut in two ways, which share a xorb. *)
MCFiles == {"f1"}
MCSegs == [f \in MCFiles |-> {<<"x1">>, <<"x2", "x1">>}]

(* x1 is uploaded in two encodings. *)
MCEncodings == [x \in Xorbs |-> IF x = "x1" THEN Encodings ELSE {"e1"}]

(* x2 is the larger xorb, and the second encoding compresses better. *)
MCSizes == [x \in Xorbs |-> [e \in Encodings |-> (IF x = "x2" THEN 4 ELSE 2) - (IF e = "e2" THEN 1 ELSE 0)]]

RequestSymmetry == Permutations(Requests)

MCOneOwner == [p \in Repos |-> "o1"]
=============================================================================
