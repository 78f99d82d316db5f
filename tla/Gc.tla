--------------------------------- MODULE Gc ----------------------------------
(***************************************************************************)
(* git-bale gc: reconcile the staging area against git reachability.       *)
(***************************************************************************)
EXTENDS RepoState

GcUnchangedData == UNCHANGED <<gcData, heldIndex, heldRefs>>

(* Every exit drops the lock guard. *)
GcExit ==
    /\ gcPc' = "idle"
    /\ gcWant' = {} /\ gcTips' = {} /\ gcRemote' = {}
    /\ gcDead' = {} /\ gcOrphaned' = {}
    /\ heldIndex' = {} /\ heldRefs' = {}
    /\ lock' = Free

(* Try-lock; a held lock makes gc skip, which changes nothing. *)
GcTryLock ==
    /\ gcPc = "idle"
    /\ lock = Free
    /\ lock' = GcProc
    /\ gcPc' = "check"
    /\ GcUnchangedData
    /\ UNCHANGED <<gitVars, storeVars, opVars, fltVars, pushVars>>

(* The in-flight check, under the lock. *)
GcCheck ==
    /\ gcPc = "check"
    /\ \/ GitOpInFlight /\ GcExit
       \/ /\ ~GitOpInFlight
          /\ gcPc' = "list"
          /\ heldIndex' = HashesOf(index) /\ heldRefs' = RefHashes
          /\ UNCHANGED <<gcData, lock>>
    /\ UNCHANGED <<gitVars, storeVars, opVars, fltVars, pushVars>>

GcList ==
    /\ gcPc = "list"
    /\ \/ (markers = {} \/ "listFails" \in Env) /\ GcExit
       \/ /\ markers # {}
          /\ gcWant' = markers
          /\ gcPc' = "tips"
          /\ UNCHANGED <<gcTips, gcRemote, gcDead, gcOrphaned, heldIndex, heldRefs, lock>>
    /\ UNCHANGED <<gitVars, storeVars, opVars, fltVars, pushVars>>

(* What a walk from the local tips finds when the remote tips are hidden:  *)
(* everything no remote reaches, and of the rest whatever an unpushed      *)
(* commit introduces again.                                                *)
Unpushed == {(local \ remote) \cup again : again \in SUBSET (local \cap remote)}

(* ref_tips: HEAD, the local refs and refs/stash; and the remote refs.  The*)
(* walk starts from these tips later.                                      *)
GcReadTips ==
    /\ gcPc = "tips"
    /\ \E tips \in IF LocalMode THEN {local} ELSE Unpushed : gcTips' = tips \cup StashTop
    /\ gcRemote' = remote
    /\ gcPc' = "index"
    /\ UNCHANGED <<gcWant, gcDead, gcOrphaned, heldIndex, heldRefs, lock>>
    /\ UNCHANGED <<gitVars, storeVars, opVars, fltVars, pushVars>>

(* reachable_hashes over the index as it is now and the tips read before.  *)
(* What cannot be read is skipped.                                         *)
ReachableHashes(tips) ==
    LET found == gcWant \cap (HashesOf(index) \cup tips)
    IN  IF "readFails" \in Env THEN SUBSET found ELSE {found}

(* Mutants: local mode hides the remotes as server mode does; the hidden   *)
(* tips are taken for the walked ones.                                     *)
LiveTipsHidden == gcTips
LiveTipsSwapped == gcRemote

(* Liveness: local mode hides no remote. *)
LiveTips == IF LocalMode THEN gcTips \cup gcRemote ELSE gcTips

(* gc's decision, given the markers that the reclaim grace gives up. *)
GcDecide(expired) ==
    /\ gcPc = "index"
    /\ \E live \in ReachableHashes(LiveTips) :
         LET dead == (gcWant \ live) \cap expired
         IN  IF dead = {} THEN GcExit
             ELSE /\ gcDead' = dead
                  /\ gcPc' = "unmark"
                  /\ UNCHANGED <<gcWant, gcTips, gcRemote, gcOrphaned, heldIndex, heldRefs, lock>>
    /\ UNCHANGED <<gitVars, storeVars, opVars, fltVars, pushVars>>

(* Mutants: no grace at all; the comparison the wrong way round. *)
GcReadIndexNoGrace == GcDecide(gcWant)
GcReadIndexInverted == GcDecide(gcWant \ old)

(* Unreferenced and older than the grace. *)
GcReadIndex == GcDecide(old)

GcRemoveMarkers ==
    /\ gcPc = "unmark"
    /\ \E gone \in Unlinked(gcDead) : markers' = markers \ gone /\ old' = old \ gone
    /\ gcPc' = "orphans"
    /\ heldIndex' = {} /\ heldRefs' = {}
    /\ UNCHANGED gcData
    /\ UNCHANGED <<gitVars, objects, cache, server, lock, opVars, fltVars, pushVars>>

(* Dropped hashes that no ref at all reaches; the index is read again,     *)
(* unless there is no remote tip.  A remote tip may reach no pointer.      *)
GcFindOrphans ==
    /\ gcPc = "orphans"
    /\ \/ (LocalMode \/ gcRemote = {}) /\ gcOrphaned' = gcDead
       \/ /\ ~LocalMode
          /\ \E anywhere \in ReachableHashes(gcTips \cup gcRemote) :
               gcOrphaned' = gcDead \ anywhere
    /\ gcPc' = "forget"
    /\ UNCHANGED <<gcWant, gcTips, gcRemote, gcDead, heldIndex, heldRefs, lock>>
    /\ UNCHANGED <<gitVars, storeVars, opVars, fltVars, pushVars>>

(* Mutant: the clean-cache keeps the orphaned entries. *)
ForgetNothing(hs) == UNCHANGED cache

(* clean_cache::forget_hashes: the entries whose pointer has one of the    *)
(* hashes go.                                                              *)
ForgetHashes(hs) == cache' = [p \in Paths |-> IF cache[p] \in hs THEN None ELSE cache[p]]

(* Invalidate the clean-cache; then sweep only if no marker remains; a     *)
(* listing that fails counts as zero markers.                              *)
GcForget ==
    /\ gcPc = "forget"
    /\ \/ ForgetHashes(gcOrphaned)
       \/ "forgetFails" \in Env /\ UNCHANGED cache
    /\ \/ markers # {} /\ GcExit /\ UNCHANGED <<markers, old>>
       \/ /\ markers = {} \/ "listFails" \in Env
          /\ markers' = {} /\ old' = {}
          /\ gcPc' = "sweep"
          /\ GcUnchangedData /\ UNCHANGED lock
    /\ UNCHANGED <<gitVars, objects, server, opVars, fltVars, pushVars>>

(* remove_all_staged_objects, file by file. *)
GcSweep ==
    /\ gcPc = "sweep"
    /\ \/ /\ \E h \in objects : objects' = objects \ {h}
          /\ UNCHANGED <<gcVars, lock>>
       \/ /\ objects = {} \/ "unlinkFails" \in Env
          /\ GcExit /\ UNCHANGED objects
    /\ UNCHANGED <<gitVars, markers, old, cache, server, opVars, fltVars, pushVars>>

(* gc is killed; what it removed stays removed. *)
GcCrash ==
    /\ "gcCrash" \in Env
    /\ gcPc # "idle"
    /\ GcExit
    /\ UNCHANGED <<gitVars, storeVars, opVars, fltVars, pushVars>>

GcStep ==
    \/ GcCheck \/ GcList \/ GcReadTips \/ GcReadIndex \/ GcRemoveMarkers
    \/ GcFindOrphans \/ GcForget \/ GcSweep
=============================================================================
