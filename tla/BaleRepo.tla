------------------------------ MODULE BaleRepo -------------------------------
(***************************************************************************)
(* One repository: git commands with their filter processes, gc and a push,*)
(* over the shared staging state.                                          *)
(***************************************************************************)
EXTENDS GitOps, CleanFilter, Gc, PushPending

Init ==
    /\ index = [p \in Paths |-> None]
    /\ local = {} /\ remote = {} /\ stash = <<>> /\ reflog = {}
    /\ objects = {} /\ markers = {} /\ old = {} /\ server = {}
    /\ cache = [p \in Paths |-> None]
    /\ lock = Free
    /\ opKind = [g \in Ops |-> "status"]
    /\ opPc = [g \in Ops |-> "idle"]
    /\ pend = [g \in Ops |-> NoPend]
    /\ missed = [g \in Ops |-> {}]
    /\ fPc = [g \in Ops |-> "idle"]
    /\ fPath = [g \in Ops |-> None]
    /\ fHash = [g \in Ops |-> None]
    /\ gcPc = "idle" /\ gcWant = {} /\ gcTips = {} /\ gcRemote = {}
    /\ gcDead = {} /\ gcOrphaned = {} /\ heldIndex = {} /\ heldRefs = {}
    /\ pushPc = "idle" /\ pushStaged = {} /\ pushDone = {}
    /\ pushAdv = {} /\ pushSeen = {} /\ unread = {}

(* The filter finishes the request it is serving. *)
FilterStep(g) ==
    \/ CleanHit(g) \/ CleanLock(g) \/ CleanWriteObjects(g) \/ CleanMark(g)
    \/ CleanReply(g) \/ CleanSave(g) \/ SmudgeReply(g)

GitStep(g) ==
    \/ \E k \in Kinds : OpBegin(g, k)
    \/ RecordAdd(g) \/ RecordCommit(g) \/ RecordCheckout(g) \/ RecordPop(g)
    \/ StashUnlock(g) \/ StashRef(g) \/ StashReset(g)
    \/ OpAbort(g)
    \/ \E p \in Paths, h \in Hashes : CleanLookup(g, p, h) \/ SmudgeRead(g, p, h)

(* References move and time passes. *)
UserStep ==
    \/ \E p \in Paths : Unstage(p)
    \/ \E h \in Hashes : DropCommit(h) \/ Fetch(h) \/ FetchPrune(h) \/ MarkerAges(h)
    \/ StashDrop

Next ==
    \/ \E g \in Ops : GitStep(g) \/ FilterStep(g)
    \/ UserStep
    \/ GcTryLock \/ GcStep \/ GcCrash
    \/ PushBegin \/ PushStep \/ PushLockFails \/ PushFail \/ PushCrash \/ PushLocal

Spec == Init /\ [][Next]_vars

(* A running process that does not fail takes its next step; flock wakes a *)
(* blocked waiter, so a waiter is not passed over for ever.  Hooks run gc  *)
(* again and again and time passes.  Nothing makes a process fail (taking  *)
(* the lock included: the flock blocks), or the user run, finish or repeat *)
(* a command.                                                              *)
Fairness ==
    /\ \A g \in Ops :
         /\ WF_vars(FilterStep(g))
         /\ SF_vars(CleanHit(g)) /\ SF_vars(CleanLock(g))
    /\ WF_vars(GcStep) /\ SF_vars(GcTryLock)
    /\ WF_vars(PushStep) /\ SF_vars(PushLock)
    /\ \A h \in Hashes : SF_vars(MarkerAges(h))

FairSpec == Spec /\ Fairness
-----------------------------------------------------------------------------
TypeOK ==
    /\ index \in [Paths -> Hashes \cup {None}]
    /\ local \subseteq Hashes /\ remote \subseteq Hashes /\ reflog \subseteq Hashes
    /\ stash \in Seq(SUBSET Hashes)
    /\ objects \subseteq Hashes /\ markers \subseteq Hashes /\ old \subseteq markers
    /\ server \subseteq Hashes
    /\ cache \in [Paths -> Hashes \cup {None}]
    /\ lock \in Ops \cup {Free, GcProc, PushProc}
    /\ opKind \in [Ops -> AllKinds]
    /\ opPc \in [Ops -> {"idle", "run", "gap", "reset"}]
    /\ pend \in [Ops -> [Paths -> Hashes \cup {None}]]
    /\ missed \in [Ops -> SUBSET Paths]
    /\ fPc \in [Ops -> {"idle", "hit", "miss", "write", "mark", "reply", "save", "smudged"}]
    /\ fPath \in [Ops -> Paths \cup {None}]
    /\ fHash \in [Ops -> Hashes \cup {None}]
    /\ gcPc \in {"idle", "check", "list", "tips", "index", "unmark", "orphans",
                 "forget", "sweep"}
    /\ gcWant \subseteq Hashes /\ gcTips \subseteq Hashes /\ gcRemote \subseteq Hashes
    /\ gcDead \subseteq Hashes /\ gcOrphaned \subseteq Hashes
    /\ heldIndex \subseteq Hashes /\ heldRefs \subseteq Hashes
    /\ pushPc \in {"idle", "list", "upload", "drain", "unmark", "sweep", "hookDone"}
    /\ pushStaged \subseteq Hashes /\ pushDone \subseteq Hashes /\ pushAdv \subseteq Hashes
    /\ pushSeen \subseteq Hashes /\ unread \subseteq Hashes

(* The processes that are changing the staging area. *)
StagingWriters ==
    {g \in Ops : fPc[g] \in {"write", "mark", "reply", "save"}}
      \cup (IF gcPc = "idle" THEN {} ELSE {GcProc})
      \cup (IF pushPc \in {"unmark", "sweep"} THEN {PushProc} ELSE {})

(* Staging is changed by one process at a time: a full clean from its first*)
(* object to its clean-cache save, gc from its in-flight check to its last *)
(* unlink, a drain from its first marker to its last object, whichever of  *)
(* them is killed and however the others wait (store.rs acquire_exclusive  *)
(* and try_acquire, and the scope of each guard).                          *)
OneStagingWriter == \A a, b \in StagingWriters : a = b

(* No data loss: whatever pointer the index, a ref or the stash still      *)
(* names, smudge can produce its bytes, whichever way clean, gc, push and  *)
(* git's own writes interleave (gc.rs reconcile, push_pending.rs drain).   *)
NoDanglingPointer == \A h \in Referenced : Readable(h)

(* A push never leaves a remote ref naming a pointer that the server cannot*)
(* reconstruct, unless the hook's walk could not read the pointer: a short *)
(* walk is not an error (push_pending.rs run: staged files and from_refs). *)
RemoteOnServer == ~LocalMode => remote \subseteq server \cup unread

(* A marker never outlives the objects it advertises, not even when the    *)
(* process that writes or sweeps them dies half-way.                       *)
MarkersHaveObjects == markers \subseteq objects

(* A clean-cache entry never maps worktree bytes to a pointer with no      *)
(* backing, except for the entries a running gc is about to forget.        *)
CleanCacheBacked ==
    \A p \in Paths :
        \/ cache[p] = None
        \/ Readable(cache[p])
        \/ gcPc \in {"orphans", "forget"} /\ cache[p] \in gcDead

(* The pointer a full clean returned stays readable until git records it,  *)
(* whatever gc does meanwhile (the store lock, the in-flight check and the *)
(* reclaim grace together).                                                *)
FullCleanStaysBacked ==
    \A g \in Ops : opKind[g] # "status" =>
        \A p \in missed[g] : Readable(pend[g][p])

(* gc never under-counts, although it locks nothing of git's and reads the *)
(* refs first and the index later: a marker it decided to drop names no    *)
(* file that stayed in the index, or stayed within reach of the refs, from *)
(* gc's in-flight check on, whatever git wrote meanwhile, unless the server*)
(* has the file (gc.rs ref_tips, reachable_hashes).                        *)
GcNeverUndercounts ==
    gcPc = "unmark" => gcDead \cap (heldIndex \cup heldRefs) \subseteq server \cup unread

(* Every request the filter accepted is answered: no interleaving of the   *)
(* commands, gc and push leaves a filter waiting for the store lock.       *)
RequestAnswered == \A g \in Ops : fPc[g] # "idle" ~> fPc[g] = "idle"

(* A hook that reached its drain finishes it. *)
PushDrains == pushPc = "drain" ~> pushPc = "idle"

(* Content that is abandoned for good, with no command running, loses its  *)
(* marker: gc's grace and its in-flight check delay the reclaim, never     *)
(* prevent it.                                                             *)
Abandoned(h) == h \notin Referenced /\ \A g \in Ops : opPc[g] = "idle" /\ fPc[g] = "idle"

AbandonedReclaimed ==
    \A h \in Hashes : (<>[]Abandoned(h)) => <>[](h \notin markers)
=============================================================================
