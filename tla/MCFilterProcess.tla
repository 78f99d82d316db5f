-------------------------- MODULE MCFilterProcess --------------------------
(* FilterProcess on small pipes and files. *)
EXTENDS FilterProcess
=============================================================================
