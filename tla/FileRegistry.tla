---------------------------- MODULE FileRegistry -----------------------------
(***************************************************************************)
(* What a CAS server promises its clients, as push-pending relies on it:   *)
(* an accepted shard makes all of its files readable in its repository at  *)
(* once, a rejected one changes nothing, and a readable file stays so.     *)
(***************************************************************************)
CONSTANTS Files, Repos

VARIABLES
    registered,  \* pairs <<file, repository>> of the accepted shards
    readable     \* pairs <<file, repository>> that can be downloaded

Init == registered = {} /\ readable = {}

Register(p, files) ==
    /\ registered' = registered \cup (files \X {p})
    /\ readable' = readable \cup (files \X {p})

Next == \E p \in Repos, files \in SUBSET Files : Register(p, files)

Spec == Init /\ [][Next]_<<registered, readable>>
=============================================================================
