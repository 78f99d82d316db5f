--------------------------- MODULE MCMountReader ---------------------------
(* A revision with a small and a large bale file, one too large for the     *)
(* LRU, and a plain blob, mounted with a pathspec that leaves a file out.   *)
EXTENDS MountReader, TLC

CONSTANTS small, large, huge, text

MCSize == (small :> 1) @@ (large :> 2) @@ (huge :> 4) @@ (text :> 1)
MCTree == (<<"d", "s">> :> small) @@ (<<"d", "h">> :> huge) @@ (<<"l">> :> large)
          @@ (<<"t">> :> text) @@ (<<"out">> :> large)
MCPathspec == {<<"d", "s">>, <<"d", "h">>, <<"l">>, <<"t">>}
ThreadSymmetry == Permutations(Threads)
=============================================================================
