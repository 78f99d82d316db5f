----------------------------- MODULE PushPending -----------------------------
(***************************************************************************)
(* git-bale push-pending as the pre-push hook of one git push: upload the  *)
(* staged files and whatever else the push advertises, then drain staging; *)
(* git moves the remote ref when the hook succeeds.  One remote.           *)
(***************************************************************************)
EXTENDS RepoState

PushUnchangedElse == UNCHANGED <<opVars, fltVars, gcVars>>

PushExit ==
    /\ pushPc' = "idle"
    /\ pushStaged' = {} /\ pushDone' = {} /\ pushAdv' = {} /\ pushSeen' = {}

(* The pointers the pushed commits introduce: all those the remote lacks,  *)
(* at least.                                                               *)
Advertised == {(local \ remote) \cup again : again \in SUBSET (local \cap remote)}

(* git fixes the commits it pushes and starts the hook. *)
PushBegin ==
    /\ "push" \in Commands
    /\ ~LocalMode
    /\ pushPc = "idle"
    /\ pushAdv' \in Advertised
    /\ pushPc' = "list"
    /\ UNCHANGED <<gitVars, storeVars, lock, pushStaged, pushDone, pushSeen, unread>> /\ PushUnchangedElse

(* In local mode the hook returns at once: git just moves the remote ref.  *)
PushLocal ==
    /\ "push" \in Commands
    /\ LocalMode
    /\ remote' = remote \cup local
    /\ UNCHANGED <<index, local, stash, reflog, storeVars, lock, pushVars>> /\ PushUnchangedElse

(* reachable_pointers of the pushed commits: an unreadable repository,     *)
(* commit, tree or blob counts as empty and the walk goes on.              *)
Found == IF "walkFails" \in Env THEN SUBSET pushAdv ELSE {pushAdv}

(* List the markers, without the lock, and walk the pushed commits.  The   *)
(* pointers found there that are not staged become from_refs.              *)
PushList ==
    /\ pushPc = "list"
    /\ pushStaged' = markers
    /\ pushSeen' \in Found
    /\ pushPc' = IF markers = {} /\ pushSeen' = {} THEN "hookDone" ELSE "upload"
    /\ UNCHANGED <<gitVars, storeVars, lock, pushDone, pushAdv, unread>> /\ PushUnchangedElse

(* re_translate_one of a staged file, read from staging without the lock.  *)
PushReadStaged(h) ==
    /\ pushPc = "upload"
    /\ h \in pushStaged \ pushDone
    /\ h \in objects
    /\ pushDone' = pushDone \cup {h}
    /\ UNCHANGED <<gitVars, storeVars, lock, pushPc, pushStaged, pushAdv, pushSeen, unread>> /\ PushUnchangedElse

FromRefs == pushSeen \ pushStaged

(* Mutant: what staging lacks is taken to be on the server. *)
PushFinalizeTrusting ==
    /\ pushPc = "upload"
    /\ pushDone = pushStaged
    /\ server' = server \cup pushDone
    /\ pushPc' = IF pushStaged = {} THEN "hookDone" ELSE "drain"
    /\ UNCHANGED <<gitVars, objects, markers, old, cache, lock, pushStaged, pushDone, pushAdv, pushSeen, unread>>
    /\ PushUnchangedElse

(* Every other file the walk found is already registered (with one remote  *)
(* there is nowhere else to source it from); finalize() registers the      *)
(* staged ones.                                                            *)
PushFinalize ==
    /\ pushPc = "upload"
    /\ pushDone = pushStaged
    /\ FromRefs \subseteq server
    /\ server' = server \cup pushDone
    /\ pushPc' = IF pushStaged = {} THEN "hookDone" ELSE "drain"
    /\ UNCHANGED <<gitVars, objects, markers, old, cache, lock, pushStaged, pushDone, pushAdv, pushSeen, unread>>
    /\ PushUnchangedElse

(* Any step fails or the process dies: some files may be registered by     *)
(* then, the push is refused, nothing is drained.                          *)
PushFail ==
    /\ pushPc \in {"list", "upload"}
    /\ \E done \in SUBSET pushDone : server' = server \cup done
    /\ PushExit
    /\ UNCHANGED <<gitVars, objects, markers, old, cache, lock, unread>> /\ PushUnchangedElse

(* Wait for the lock. *)
PushLock ==
    /\ pushPc = "drain"
    /\ lock = Free
    /\ lock' = PushProc
    /\ pushPc' = "unmark"
    /\ UNCHANGED <<gitVars, storeVars, pushStaged, pushDone, pushAdv, pushSeen, unread>> /\ PushUnchangedElse

(* Taking it fails with an error: staging is left as it is. *)
PushLockFails ==
    /\ pushPc = "drain"
    /\ pushPc' = "hookDone"
    /\ UNCHANGED <<gitVars, storeVars, lock, pushStaged, pushDone, pushAdv, pushSeen, unread>>
    /\ PushUnchangedElse

(* Mutants: every marker goes, uploaded or not; the sweep does not ask     *)
(* whether a marker remains.                                               *)
PushRemoveAllMarkers ==
    /\ pushPc = "unmark"
    /\ markers' = {} /\ old' = {}
    /\ pushPc' = "sweep"
    /\ UNCHANGED <<gitVars, objects, cache, server, lock, pushStaged, pushDone, pushAdv, pushSeen, unread>> /\ PushUnchangedElse

PushRemoveThenSweep ==
    /\ pushPc = "unmark"
    /\ markers' = markers \ pushStaged /\ old' = old \ pushStaged
    /\ pushPc' = "sweep"
    /\ UNCHANGED <<gitVars, objects, cache, server, lock, pushStaged, pushDone, pushAdv, pushSeen, unread>> /\ PushUnchangedElse

(* Remove the uploaded markers; sweep only if none remains; a listing that *)
(* fails counts as zero markers.                                           *)
PushRemoveMarkers ==
    /\ pushPc = "unmark"
    /\ \E gone \in Unlinked(pushStaged) : markers' = markers \ gone /\ old' = old \ gone
    /\ \/ markers' # {} /\ pushPc' = "hookDone" /\ lock' = Free
       \/ (markers' = {} \/ "listFails" \in Env) /\ pushPc' = "sweep" /\ UNCHANGED lock
    /\ UNCHANGED <<gitVars, objects, cache, server, pushStaged, pushDone, pushAdv, pushSeen, unread>> /\ PushUnchangedElse

(* Mutant: the sweep locks the store itself, and waits for its own caller. *)
PushSweepRelocks ==
    /\ pushPc = "sweep"
    /\ lock = Free
    /\ pushPc' = "hookDone"
    /\ objects' = {}
    /\ UNCHANGED <<gitVars, markers, old, cache, server, lock, pushStaged, pushDone, pushAdv, pushSeen, unread>> /\ PushUnchangedElse

PushSweep ==
    /\ pushPc = "sweep"
    /\ \/ /\ \E h \in objects : objects' = objects \ {h}
          /\ UNCHANGED <<pushPc, lock>>
       \/ /\ objects = {} \/ "unlinkFails" \in Env
          /\ pushPc' = "hookDone" /\ lock' = Free
          /\ UNCHANGED objects
    /\ UNCHANGED <<gitVars, markers, old, cache, server, pushStaged, pushDone, pushAdv, pushSeen, unread>> /\ PushUnchangedElse

(* Killed while draining; the flock goes with the process and git refuses  *)
(* the push.                                                               *)
PushCrash ==
    /\ pushPc \in {"drain", "unmark", "sweep"}
    /\ PushExit
    /\ lock' = IF lock = PushProc THEN Free ELSE lock
    /\ UNCHANGED <<gitVars, storeVars, unread>> /\ PushUnchangedElse

(* The hook succeeded: git updates the tracking ref, or the remote rejects.*)
GitPushed ==
    /\ pushPc = "hookDone"
    /\ \/ /\ remote' = remote \cup pushAdv
          /\ unread' = unread \cup (pushAdv \ (pushSeen \cup pushStaged))
       \/ UNCHANGED <<remote, unread>>
    /\ PushExit
    /\ UNCHANGED <<index, local, stash, reflog, storeVars, lock>> /\ PushUnchangedElse

PushStep ==
    \/ PushList \/ (\E h \in Hashes : PushReadStaged(h)) \/ PushFinalize
    \/ PushLock \/ PushRemoveMarkers \/ PushSweep \/ GitPushed
=============================================================================
