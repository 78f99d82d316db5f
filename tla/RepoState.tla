------------------------------ MODULE RepoState ------------------------------
(***************************************************************************)
(* The state shared by the git-bale commands that run in one repository:   *)
(* what git records (index, refs, stash), what git-bale keeps on disk      *)
(* (staged objects, markers, clean-cache, store lock) and what the CAS     *)
(* server has registered.  The commands themselves are the modules         *)
(* GitOps, CleanFilter, Gc and PushPending; BaleRepo composes them.        *)
(*                                                                         *)
(* File contents are abstracted to their file hash: a pointer blob, a      *)
(* marker name, a clean-cache entry and a registration all name a hash.    *)
(***************************************************************************)
EXTENDS Naturals, Sequences, FiniteSets

CONSTANTS
    Hashes,      \* file hashes (contents of tracked files)
    Paths,       \* worktree paths tracked by the filter
    Ops,         \* git commands that may run at the same time
    None,        \* "no hash" / "no path": an absent entry
    Free,        \* the store lock is not held
    GcProc,      \* the gc process, as a lock holder
    PushProc,    \* the push-pending process, as a lock holder
    LocalMode,   \* bale.local: the store is the only copy, no server
    Commands,    \* the git commands users run (subset of AllCommands)
    MaxStash,    \* bound: entries on the stash stack
    Env          \* environment behaviours switched on (subset of AllEnv)

(***************************************************************************)
(* Environment behaviours under which a guarantee of the code may fail.    *)
(*   writeDuringGc  a recording git command starts, or writes the index or *)
(*                  a ref, after gc's in-flight check and before gc exits  *)
(*   slowStash      a stash takes longer than gc's reclaim grace           *)
(*   reflog         the user brings back a commit no ref reaches any more  *)
(*   markFails      writing or touching a staging marker fails (not fatal) *)
(*   readFails      gc cannot read the index, a ref, a commit or a blob    *)
(*   walkFails      a push cannot read the repository, a commit, a tree or *)
(*                  a blob of what it pushes, and walks on without it      *)
(*   listFails      a second listing of the markers fails                  *)
(*   forgetFails    gc cannot read or unlink a clean-cache entry           *)
(*   gcCrash        gc dies between two of its file operations             *)
(*   unlinkFails    a marker or an object cannot be unlinked               *)
(***************************************************************************)
AllEnv == {"writeDuringGc", "slowStash", "reflog", "markFails", "readFails",
           "walkFails", "listFails", "forgetFails", "gcCrash", "unlinkFails"}

(* Commands that call the filter; "recover" is a checkout of a commit that *)
(* only the reflog names.                                                  *)
AllKinds == {"add", "commit", "stash", "status", "checkout", "pop", "recover"}

AllCommands == AllKinds \cup {"push", "fetch"}

Kinds == Commands \cap AllKinds

ASSUME ConstantsAssumption ==
    /\ LocalMode \in BOOLEAN
    /\ Commands \subseteq AllCommands
    /\ Env \subseteq AllEnv
    /\ MaxStash \in Nat
    /\ None \notin Hashes
    /\ None \notin Paths
    /\ Ops \cap {Free, GcProc, PushProc} = {}
    /\ Free # GcProc /\ Free # PushProc /\ GcProc # PushProc

VARIABLES
    index,       \* path -> hash of the pointer git's index holds, or None
    local,       \* hashes in commits reachable from HEAD and the local refs
    remote,      \* hashes reachable from refs/remotes/*
    stash,       \* stack of stash entries; only the first is a ref's target
    reflog,      \* hashes of dropped commits the user can still name
    objects,     \* hashes whose xorbs and shard are complete in the store
    markers,     \* file-index/<hash> markers
    old,         \* markers whose mtime is further back than the grace
    cache,       \* clean-cache: path -> hash of the cached pointer, or None
    server,      \* hashes registered on the CAS server for this repository
    lock,        \* holder of the store lock
    opKind,      \* command run by each git process
    opPc,        \* its phase: idle, run, gap (stash), reset (stash)
    pend,        \* pointers the filter returned to it, not yet recorded
    missed,      \* the paths of pend whose pointer came from a full clean
    fPc,         \* phase of the filter serving the command
    fPath,       \* path of the filter's current request
    fHash,       \* content of the filter's current request
    gcPc, gcWant, gcTips, gcRemote, gcDead, gcOrphaned,
    heldIndex,   \* history: in the index ever since gc's in-flight check
    heldRefs,    \* history: reached by refs ever since gc's in-flight check
    pushPc, pushStaged, pushDone,
    pushAdv,     \* the pointers of the commits git pushes
    pushSeen,    \* those of them that the hook's walk found
    unread       \* history: pushed although no walk found them

gitVars   == <<index, local, remote, stash, reflog>>
storeVars == <<objects, markers, old, cache, server>>
opVars    == <<opKind, opPc, pend, missed>>
fltVars   == <<fPc, fPath, fHash>>
gcData    == <<gcWant, gcTips, gcRemote, gcDead, gcOrphaned>>
gcVars    == <<gcPc, gcData, heldIndex, heldRefs>>
pushVars  == <<pushPc, pushStaged, pushDone, pushAdv, pushSeen, unread>>

vars == <<gitVars, storeVars, lock, opVars, fltVars, gcVars, pushVars>>

-----------------------------------------------------------------------------
NoPend == [p \in Paths |-> None]

(* The hashes of a path-indexed table, without the absent entries. *)
HashesOf(table) == {table[p] : p \in Paths} \ {None}

(* refs/stash names the newest entry; the older ones live in its reflog. *)
StashTop == IF stash = <<>> THEN {} ELSE Head(stash)

StashHashes == UNION {stash[i] : i \in DOMAIN stash}

(* Every pointer the user can still reach through the index, a ref or the  *)
(* stash.                                                                  *)
Referenced == HashesOf(index) \cup local \cup remote \cup StashHashes

(* Smudge can produce the bytes.  Server mode: lukewarm, which the marker  *)
(* gates, or cold.  Local mode: the store only, marker or not.             *)
Readable(h) ==
    IF LocalMode THEN h \in objects
    ELSE (h \in markers /\ h \in objects) \/ h \in server

-----------------------------------------------------------------------------
(* Recording commands; status cleans content that git never records. *)
Recording == Kinds \ {"status"}

Cleaning == {"add", "commit", "stash", "status"}

Smudging == {"checkout", "pop", "recover"}

(* index.lock, held by every recording command but stash from its start to *)
(* its record.                                                             *)
HoldsIndexLock(g) == opPc[g] = "run" /\ opKind[g] \notin {"status", "stash"}

(* Any *.lock that gc's directory scan sees: stash has its temporary index *)
(* lock while it cleans, nothing during its gap, and locks refs/stash and  *)
(* the index only inside the atomic steps that write them.                 *)
GitOpInFlight == \E g \in Ops : opPc[g] = "run" /\ opKind[g] # "status"

(* gc is past its in-flight check. *)
GcPastCheck == gcPc \notin {"idle", "check"}

(* What the refs reach directly; older stash entries are not among it. *)
RefHashes == local \cup remote \cup StashTop

(* A git command moved references: gc runs on, and what it still holds is  *)
(* what was never gone.                                                    *)
StillHeld ==
    /\ heldIndex' = heldIndex \cap HashesOf(index')
    /\ heldRefs' = heldRefs \cap RefHashes'
    /\ UNCHANGED <<gcPc, gcData>>

(* The outcomes of unlinking each file of a set: the errors are only logged.*)
Unlinked(files) == IF "unlinkFails" \in Env THEN SUBSET files ELSE {files}

(* Whether git may begin a recording command or write a reference now. *)
GitMayWrite == "writeDuringGc" \in Env \/ ~GcPastCheck
=============================================================================
