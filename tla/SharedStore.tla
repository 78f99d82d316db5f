----------------------------- MODULE SharedStore -----------------------------
(***************************************************************************)
(* One object store shared by several local-mode repositories:             *)
(* `git-bale init-local --shared` registers a repository, the clean filter *)
(* of every repository writes into the store under its lock, smudge reads  *)
(* it without, and `git-bale prune --shared` rebuilds it from the files    *)
(* the registered repositories still reach and swaps it into place.        *)
(*                                                                         *)
(* Markers, clean-cache, index and refs stay in each repository.  A file   *)
(* is its hash; gc does nothing in a shared store.                         *)
(***************************************************************************)
EXTENDS Naturals, FiniteSets

CONSTANTS
    Hashes,      \* file hashes
    Repos,       \* repositories configured with this store
    Free,        \* the store lock is not held
    Prune,       \* the prune process, as a lock holder
    None,        \* no hash
    MaxPrunes,   \* bound: prunes that start
    Env          \* environment behaviours switched on (subset of AllEnv)

(***************************************************************************)
(*   checkout      a repository checks out a commit it fetched from another*)
(*                 one, whose content is in the shared store               *)
(*   reAdd         the worktree still holds content whose pointer is in the*)
(*                 clean-cache, and it is added again after it was dropped *)
(*   addDuring     a git command is between the filter's reply and its     *)
(*                 index write while prune runs                            *)
(*   readDuring    a checkout runs while prune runs                        *)
(*   initDuring    init-local runs while prune runs                        *)
(*   readFails     prune cannot list the markers or open a repository      *)
(*   markFails     writing a marker fails (warned, not fatal)              *)
(*   force         prune --force                                           *)
(*   crash         prune dies                                              *)
(*   renameFails   the rename of the compacted store fails, and perhaps the*)
(*                 one of the backup too                                   *)
(***************************************************************************)
Hazardous == {"checkout", "reAdd", "addDuring", "readDuring", "initDuring", "readFails", "markFails"}

AllEnv == Hazardous \cup {"force", "crash", "renameFails"}

ASSUME SharedAssumption ==
    /\ Env \subseteq AllEnv
    /\ MaxPrunes \in Nat
    /\ None \notin Hashes
    /\ Free # Prune
    /\ Repos \cap {Free, Prune} = {}

VARIABLES
    storeUp,     \* the store directory exists
    objs,        \* files whose xorbs and shard are in it
    reg,         \* repositories in its registry directory
    aside,       \* files in prune's .old.<pid> directory
    asideReg,    \* ... and that directory's registry
    orphans,     \* files in directories that dead prunes left behind
    torn,        \* a prune ended between its renames: .old.<pid> is orphaned
    lock,
    registered,  \* repositories whose init-local --shared succeeded
    forsaken,    \* repositories a prune left out: forced to, or because
                 \* their registration raced it or was lost in a torn swap
    refs,        \* repo -> hashes its index and refs reach
    backed,      \* ... of which it cleaned and marked itself, and has
                 \* reached ever since it recorded them
    markers,     \* repo -> file-index markers
    cache,       \* repo -> hashes of its clean-cache
    addPc, addHash,
    fresh,       \* repositories whose pointer in flight has its marker and
                 \* that no prune has looked at since
    prunes,      \* prunes started
    prPc, prForce, prTodo, prWant, prLive, prBefore, prNew, prNewReg

storeVars == <<storeUp, objs, reg, aside, asideReg, orphans, torn>>
repoVars  == <<registered, forsaken, refs, backed, markers, cache>>
addVars   == <<addPc, addHash, fresh>>
pruneVars == <<prunes, prPc, prForce, prTodo, prWant, prLive, prBefore, prNew, prNewReg>>

vars == <<storeVars, lock, repoVars, addVars, pruneVars>>

Init ==
    /\ storeUp = FALSE /\ objs = {} /\ reg = {}
    /\ aside = {} /\ asideReg = {} /\ orphans = {} /\ torn = FALSE
    /\ lock = Free
    /\ registered = {} /\ forsaken = {}
    /\ refs = [r \in Repos |-> {}] /\ backed = [r \in Repos |-> {}]
    /\ markers = [r \in Repos |-> {}] /\ cache = [r \in Repos |-> {}]
    /\ addPc = [r \in Repos |-> "idle"] /\ addHash = [r \in Repos |-> None]
    /\ fresh = {}
    /\ prunes = 0 /\ prPc = "idle" /\ prForce = FALSE
    /\ prTodo = {} /\ prWant = {} /\ prLive = {}
    /\ prBefore = {} /\ prNew = {} /\ prNewReg = {}
-----------------------------------------------------------------------------
(* init-local --shared: register_repo creates the registry directory, and  *)
(* with it the store, and takes no lock.  It may be repeated.              *)
InitLocal(r) ==
    /\ r \notin reg
    /\ "initDuring" \in Env \/ prPc = "idle"
    /\ storeUp' = TRUE
    /\ reg' = reg \cup {r}
    /\ registered' = registered \cup {r}
    /\ forsaken' = IF prPc = "idle" THEN forsaken ELSE forsaken \cup {r}
    /\ UNCHANGED <<objs, aside, asideReg, orphans, torn, lock, refs,
                   backed, markers, cache, addVars, pruneVars>>

AddStep(r, from, to) ==
    /\ addPc[r] = from
    /\ addPc' = [addPc EXCEPT ![r] = to]

(* A full clean takes the store lock, creates the store directory if it is *)
(* missing and writes its objects.                                         *)
CleanWrite(r, h) ==
    /\ r \in registered
    /\ lock = Free
    /\ lock' = r
    /\ AddStep(r, "idle", "mark")
    /\ addHash' = [addHash EXCEPT ![r] = h]
    /\ storeUp' = TRUE
    /\ objs' = objs \cup {h}
    /\ UNCHANGED <<reg, aside, asideReg, orphans, torn, repoVars, fresh, pruneVars>>

(* The marker, the reply, the clean-cache entry; the lock is dropped. *)
CleanMark(r) ==
    /\ AddStep(r, "mark", "record")
    /\ \E marked \in IF "markFails" \in Env THEN BOOLEAN ELSE {TRUE} :
         /\ markers' = [markers EXCEPT ![r] = IF marked THEN @ \cup {addHash[r]} ELSE @]
         /\ fresh' = IF marked THEN fresh \cup {r} ELSE fresh
    /\ cache' = [cache EXCEPT ![r] = @ \cup {addHash[r]}]
    /\ lock' = Free
    /\ UNCHANGED <<storeVars, registered, forsaken, refs, backed, addHash, pruneVars>>

(* A clean-cache hit looks at the worktree bytes only, not at the store. *)
CleanHit(r, h) ==
    /\ "reAdd" \in Env
    /\ r \in registered
    /\ lock = Free
    /\ h \in cache[r]
    /\ AddStep(r, "idle", "record")
    /\ addHash' = [addHash EXCEPT ![r] = h]
    /\ UNCHANGED <<storeVars, lock, repoVars, fresh, pruneVars>>

(* git writes the index or a ref. *)
GitRecord(r) ==
    /\ AddStep(r, "record", "idle")
    /\ refs' = [refs EXCEPT ![r] = @ \cup {addHash[r]}]
    /\ backed' = [backed EXCEPT ![r] = IF r \in fresh THEN @ \cup {addHash[r]} ELSE @]
    /\ addHash' = [addHash EXCEPT ![r] = None]
    /\ fresh' = fresh \ {r}
    /\ UNCHANGED <<storeVars, lock, registered, forsaken, markers, cache, pruneVars>>

(* The git command dies, and its filter and the flock with it. *)
AddAbort(r) ==
    /\ addPc[r] # "idle"
    /\ addPc' = [addPc EXCEPT ![r] = "idle"]
    /\ addHash' = [addHash EXCEPT ![r] = None]
    /\ fresh' = fresh \ {r}
    /\ lock' = IF lock = r THEN Free ELSE lock
    /\ UNCHANGED <<storeVars, repoVars, pruneVars>>

(* reset, branch -D, rm: a reference goes. *)
DropRef(r, h) ==
    /\ h \in refs[r]
    /\ refs' = [refs EXCEPT ![r] = @ \ {h}]
    /\ backed' = [backed EXCEPT ![r] = @ \ {h}]
    /\ UNCHANGED <<storeVars, lock, registered, forsaken, markers, cache, addVars,
                   pruneVars>>

(* Checkout of a commit that another repository made: smudge reads the     *)
(* store, lock-free, with or without a marker, seeds the clean-cache and   *)
(* writes no marker.                                                       *)
Checkout(r, h) ==
    /\ r \in registered
    /\ addPc[r] = "idle"
    /\ "readDuring" \in Env \/ prPc = "idle"
    /\ "checkout" \in Env
    /\ \E q \in Repos \ {r} : h \in refs[q]
    /\ storeUp /\ h \in objs
    /\ refs' = [refs EXCEPT ![r] = @ \cup {h}]
    /\ cache' = [cache EXCEPT ![r] = @ \cup {h}]
    /\ UNCHANGED <<storeVars, lock, registered, forsaken, backed, markers, addVars,
                   pruneVars>>
-----------------------------------------------------------------------------
(* Mutant: a guard that outlives the process state. *)
PruneEndKeepsLock ==
    /\ prPc' = "idle" /\ prForce' = FALSE
    /\ prTodo' = {} /\ prWant' = {} /\ prLive' = {}
    /\ prBefore' = {} /\ prNew' = {} /\ prNewReg' = {}
    /\ UNCHANGED <<lock, prunes>>

(* prune exits, by whatever path, and its lock guard goes with it. *)
PruneEnd ==
    /\ prPc' = "idle" /\ prForce' = FALSE
    /\ prTodo' = {} /\ prWant' = {} /\ prLive' = {}
    /\ prBefore' = {} /\ prNew' = {} /\ prNewReg' = {}
    /\ lock' = Free
    /\ UNCHANGED prunes

(* The lock is sibling to the store and taken with a blocking call; that   *)
(* no `git add` is in flight is for the user to see to (prune.rs:4).       *)
PruneLock(force) ==
    /\ prPc = "idle"
    /\ prunes < MaxPrunes
    /\ prunes' = prunes + 1
    /\ force => "force" \in Env
    /\ "addDuring" \in Env \/ \A r \in Repos : addPc[r] = "idle"
    /\ lock = Free
    /\ lock' = Prune
    /\ prForce' = force
    /\ prPc' = "list"
    /\ UNCHANGED <<storeVars, repoVars, addVars, prTodo, prWant, prLive, prBefore, prNew, prNewReg>>

(* registered_repos; a missing registry is an empty one, and prune bails. *)
PruneList ==
    /\ prPc = "list"
    /\ \/ reg = {} /\ PruneEnd
       \/ /\ reg # {}
          /\ prTodo' = reg
          /\ prPc' = "scan"
          /\ UNCHANGED <<lock, prForce, prWant, prLive, prBefore, prNew, prNewReg, prunes>>
    /\ forsaken' = IF torn /\ reg # {} THEN forsaken \cup (registered \ reg) ELSE forsaken
    /\ UNCHANGED <<storeVars, registered, refs, backed, markers, cache, addVars>>

(* What prune takes a repository's markers to be, and which of them it     *)
(* finds reachable: either read may fail, and failing means the empty set. *)
MarkersRead(r) == {markers[r]} \cup IF "readFails" \in Env THEN {{}} ELSE {}

ReachableInRepo(r, want) ==
    {want \cap refs[r]} \cup IF "readFails" \in Env THEN {{}} ELSE {}

(* Mutant: a missing repository is left out as if --force had been given. *)
ScanMissingSkips(r) ==
    /\ prTodo' = prTodo \ {r}
    /\ UNCHANGED <<lock, forsaken, prPc, prForce, prWant, prLive, prBefore, prNew, prNewReg, prunes>>

(* A registered repository is missing: prune bails, or, forced, leaves it  *)
(* out.                                                                    *)
ScanMissing(r) ==
    \/ /\ ~prForce
       /\ PruneEnd
       /\ UNCHANGED forsaken
    \/ /\ prForce
       /\ forsaken' = forsaken \cup {r}
       /\ prTodo' = prTodo \ {r}
       /\ UNCHANGED <<lock, prPc, prForce, prWant, prLive, prBefore, prNew, prNewReg, prunes>>

(* One registered repository: it may have been moved or unmounted; found,  *)
(* its own reachable markers are live.                                     *)
PruneScan(r) ==
    /\ prPc = "scan"
    /\ r \in prTodo
    /\ \/ ScanMissing(r)
       \/ /\ \E want \in MarkersRead(r) : \E live \in ReachableInRepo(r, want) :
               prWant' = prWant \cup want /\ prLive' = prLive \cup live
          /\ prTodo' = prTodo \ {r}
          /\ UNCHANGED <<lock, forsaken, prPc, prForce, prBefore, prNew, prNewReg, prunes>>
    /\ fresh' = fresh \ {r}
    /\ UNCHANGED <<storeVars, registered, refs, backed, markers, cache, addPc, addHash>>

(* object_fingerprint: the names of the objects in the store. *)
Fingerprint == objs

(* Nothing dead: exit.  Otherwise fingerprint the store and start a new    *)
(* one; the sizes come from the markers just listed.                       *)
PruneDecide ==
    /\ prPc = "scan" /\ prTodo = {}
    /\ \/ prWant \subseteq prLive /\ PruneEnd
       \/ /\ ~(prWant \subseteq prLive)
          /\ prBefore' = Fingerprint
          /\ prPc' = "rebuild"
          /\ UNCHANGED <<lock, prForce, prTodo, prWant, prLive, prNew, prNewReg, prunes>>
    /\ UNCHANGED <<storeVars, repoVars, addVars>>

(* Reconstruct a live file from the old store, clean it into the new one. *)
PruneRebuild(h) ==
    /\ prPc = "rebuild"
    /\ h \in prLive \ prNew
    /\ h \in objs
    /\ prNew' = prNew \cup {h}
    /\ UNCHANGED <<storeVars, lock, repoVars, addVars, prPc, prForce, prTodo, prWant, prLive,
                   prBefore, prNewReg, prunes>>

(* A file that cannot be rebuilt (or hashes differently, or has no sized   *)
(* marker), a store whose fingerprint changed, a registry that cannot be   *)
(* copied or a store that cannot be moved: bail before the swap.           *)
PruneBail ==
    /\ prPc \in {"rebuild", "aside"}
    /\ PruneEnd
    /\ UNCHANGED <<storeVars, repoVars, addVars>>

(* Mutant: the compacted store starts with an empty registry. *)
PruneCopyRegistryForgets ==
    /\ prPc = "rebuild"
    /\ prLive \subseteq prNew
    /\ Fingerprint = prBefore
    /\ prNewReg' = {}
    /\ prPc' = "aside"
    /\ UNCHANGED <<storeVars, lock, repoVars, addVars, prForce, prTodo, prWant, prLive, prBefore, prNew, prunes>>

(* The second fingerprint agrees; copy_registry. *)
PruneCopyRegistry ==
    /\ prPc = "rebuild"
    /\ prLive \subseteq prNew
    /\ Fingerprint = prBefore
    /\ prNewReg' = reg
    /\ prPc' = "aside"
    /\ UNCHANGED <<storeVars, lock, repoVars, addVars, prForce, prTodo, prWant, prLive, prBefore, prNew, prunes>>

(* rename(store, store.old.<pid>) *)
PruneMoveAside ==
    /\ prPc = "aside"
    /\ storeUp
    /\ aside' = objs /\ asideReg' = reg
    /\ storeUp' = FALSE /\ objs' = {} /\ reg' = {}
    /\ prPc' = "swap"
    /\ UNCHANGED <<orphans, torn, lock, repoVars, addVars, prForce, prTodo, prWant, prLive, prBefore,
                   prNew, prNewReg, prunes>>

SwapDone ==
    /\ ~storeUp
    /\ storeUp' = TRUE /\ objs' = prNew /\ reg' = prNewReg
    /\ prPc' = "cleanup"
    /\ UNCHANGED <<aside, asideReg, orphans, torn, lock, prForce, prTodo, prWant, prLive, prBefore,
                   prNew, prNewReg, prunes>>

(* Mutant: a failed rename returns and leaves the backup where it is. *)
SwapKeepsBackup ==
    /\ ~storeUp /\ "renameFails" \in Env
    /\ PruneEnd
    /\ UNCHANGED storeVars

(* The rename fails: rename the backup back. *)
SwapRollback ==
    /\ ~storeUp /\ "renameFails" \in Env
    /\ storeUp' = TRUE /\ objs' = aside /\ reg' = asideReg
    /\ aside' = {} /\ asideReg' = {}
    /\ PruneEnd
    /\ UNCHANGED <<orphans, torn>>

(* Neither the compacted store nor the backup gets into place: the second  *)
(* rename fails as well, which is ignored, or an init-local made a new     *)
(* store meanwhile, which is in the way of both.                           *)
SwapBlocked ==
    /\ storeUp \/ "renameFails" \in Env
    /\ orphans' = orphans \cup aside
    /\ torn' = TRUE
    /\ aside' = {} /\ asideReg' = {}
    /\ PruneEnd
    /\ UNCHANGED <<storeUp, objs, reg>>

(* rename(new_store, store) *)
PruneSwap ==
    /\ prPc = "swap"
    /\ SwapDone \/ SwapRollback \/ SwapBlocked
    /\ UNCHANGED <<repoVars, addVars>>

PruneRemoveBackup ==
    /\ prPc = "cleanup"
    /\ aside' = {} /\ asideReg' = {}
    /\ PruneEnd
    /\ UNCHANGED <<storeUp, objs, reg, orphans, torn, repoVars, addVars>>

(* prune is killed; its directories stay, the flock does not.  A removal   *)
(* it was in the middle of has removed part of the backup.                 *)
PruneCrash ==
    /\ "crash" \in Env
    /\ prPc # "idle"
    /\ \E left \in IF prPc = "cleanup" THEN SUBSET aside ELSE {aside} : orphans' = orphans \cup left
    /\ torn' = (torn \/ prPc = "swap")
    /\ aside' = {} /\ asideReg' = {}
    /\ PruneEnd
    /\ UNCHANGED <<storeUp, objs, reg, repoVars, addVars>>

PruneStep ==
    \/ PruneList \/ (\E r \in Repos : PruneScan(r)) \/ PruneDecide
    \/ (\E h \in Hashes : PruneRebuild(h)) \/ PruneBail \/ PruneCopyRegistry
    \/ PruneMoveAside \/ PruneSwap \/ PruneRemoveBackup

RepoStep(r) ==
    \/ InitLocal(r)
    \/ CleanMark(r) \/ GitRecord(r) \/ AddAbort(r)
    \/ \E h \in Hashes : CleanWrite(r, h) \/ CleanHit(r, h) \/ DropRef(r, h) \/ Checkout(r, h)

Next ==
    \/ \E r \in Repos : RepoStep(r)
    \/ \E force \in BOOLEAN : PruneLock(force)
    \/ PruneStep
    \/ PruneCrash

Spec == Init /\ [][Next]_vars
-----------------------------------------------------------------------------
TypeOK ==
    /\ storeUp \in BOOLEAN /\ torn \in BOOLEAN /\ prForce \in BOOLEAN
    /\ objs \subseteq Hashes /\ aside \subseteq Hashes /\ orphans \subseteq Hashes
    /\ reg \subseteq Repos /\ asideReg \subseteq Repos
    /\ lock \in Repos \cup {Free, Prune} /\ (lock = Prune <=> prPc # "idle")
    /\ registered \subseteq Repos /\ forsaken \subseteq Repos
    /\ refs \in [Repos -> SUBSET Hashes] /\ backed \in [Repos -> SUBSET Hashes]
    /\ markers \in [Repos -> SUBSET Hashes] /\ cache \in [Repos -> SUBSET Hashes]
    /\ addPc \in [Repos -> {"idle", "mark", "record"}]
    /\ addHash \in [Repos -> Hashes \cup {None}] /\ fresh \subseteq Repos
    /\ prPc \in {"idle", "list", "scan", "rebuild", "aside", "swap", "cleanup"}
    /\ prunes \in Nat /\ prTodo \subseteq Repos /\ prWant \subseteq Hashes /\ prLive \subseteq Hashes
    /\ prBefore \subseteq Hashes /\ prNew \subseteq Hashes /\ prNewReg \subseteq Repos

(* Repositories that every prune so far has asked. *)
Kept == registered \ forsaken

(* What a repository cleaned itself and never stopped reaching is not lost,*)
(* wherever a prune fails or is killed, and whatever other repositories do:*)
(* the bytes are in the store or in a directory next to it (prune.rs run). *)
BytesSurvive == \A r \in Kept : backed[r] \subseteq objs \cup aside \cup orphans

(* ... and they are in the store itself, but for the moment between the    *)
(* two renames and for a prune that ended there (prune.rs "never leave the *)
(* store missing").                                                        *)
StoreComplete ==
    prPc # "swap" /\ ~torn => \A r \in Kept : backed[r] \subseteq objs

(* The swap keeps every registration, so that the next prune asks every    *)
(* repository (prune.rs copy_registry).                                    *)
RegistryKept == prPc # "swap" /\ ~torn => Kept \subseteq reg

(* No file that a registered repository reaches is lost, whichever way it  *)
(* came to reach it (prune.rs "the union of all repos' markers is the      *)
(* complete candidate set").                                               *)
NothingReachableLost == \A r \in Kept : refs[r] \subseteq objs \cup aside \cup orphans
=============================================================================
