---------------------------- MODULE MCRemotePush ----------------------------
(* RemotePush with an HTTP origin and an SSH fork. *)
EXTENDS RemotePush, TLC

CONSTANTS origin, fork

MCOrder == <<origin, fork>>
FileSymmetry == Permutations(Files)
=============================================================================
