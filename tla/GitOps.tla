-------------------------------- MODULE GitOps -------------------------------
(***************************************************************************)
(* git itself, as the filter, gc and push-pending meet it: the commands    *)
(* that call the filter and record the pointers it returns, and those that *)
(* move or drop references.  git is not part of the repository; its locks  *)
(* and the order of its writes are those gc.rs and ARCHITECTURE.md rely on.*)
(***************************************************************************)
EXTENDS RepoState

(* A command starts; the ones that take index.lock exclude each other. *)
OpBegin(g, k) ==
    /\ opPc[g] = "idle"
    /\ fPc[g] = "idle"
    /\ k \in Kinds
    /\ k \in Recording => GitMayWrite
    /\ k \in Recording \ {"stash"} => \A g2 \in Ops : ~HoldsIndexLock(g2)
    /\ opKind' = [opKind EXCEPT ![g] = k]
    /\ opPc' = [opPc EXCEPT ![g] = "run"]
    /\ UNCHANGED <<gitVars, storeVars, lock, pend, missed, fltVars, gcVars, pushVars>>

(* The command ends and forgets what the filter returned. *)
OpEnd(g) ==
    /\ opKind' = [opKind EXCEPT ![g] = "status"]
    /\ opPc' = [opPc EXCEPT ![g] = "idle"]
    /\ pend' = [pend EXCEPT ![g] = NoPend]
    /\ missed' = [missed EXCEPT ![g] = {}]

(* The index after the pending pointers of g were written to it. *)
IndexWith(g) ==
    [p \in Paths |-> IF pend[g][p] = None THEN index[p] ELSE pend[g][p]]

(* git waits for the filter's reply, not for its clean-cache save. *)
FilterReplied(g) == fPc[g] \in {"idle", "save"}

RecordAdd(g) ==
    /\ opPc[g] = "run" /\ opKind[g] = "add" /\ FilterReplied(g)
    /\ GitMayWrite
    /\ index' = IndexWith(g)
    /\ OpEnd(g)
    /\ UNCHANGED <<local, remote, stash, reflog, storeVars, lock, fltVars, pushVars>>
    /\ StillHeld

(* commit -a: the ref moves and the index lands under index.lock. *)
RecordCommit(g) ==
    /\ opPc[g] = "run" /\ opKind[g] = "commit" /\ FilterReplied(g)
    /\ GitMayWrite
    /\ index' = IndexWith(g)
    /\ local' = local \cup HashesOf(IndexWith(g))
    /\ OpEnd(g)
    /\ UNCHANGED <<remote, stash, reflog, storeVars, lock, fltVars, pushVars>>
    /\ StillHeld

(* checkout, pull, reset --hard: HEAD moves to the commit whose content    *)
(* was smudged; "recover" names a commit that no ref reached.              *)
RecordCheckout(g) ==
    /\ opPc[g] = "run" /\ opKind[g] \in {"checkout", "recover"} /\ FilterReplied(g)
    /\ GitMayWrite
    /\ index' = IndexWith(g)
    /\ local' = local \cup HashesOf(pend[g])
    /\ OpEnd(g)
    /\ UNCHANGED <<remote, stash, reflog, storeVars, lock, fltVars, pushVars>>
    /\ StillHeld

(* stash has cleaned into its temporary index and drops that lock. *)
StashUnlock(g) ==
    /\ opPc[g] = "run" /\ opKind[g] = "stash" /\ FilterReplied(g)
    /\ opPc' = [opPc EXCEPT ![g] = "gap"]
    /\ UNCHANGED <<gitVars, storeVars, lock, opKind, pend, missed, fltVars, gcVars, pushVars>>

(* refs/stash is written: the index tree and the worktree tree. *)
StashRef(g) ==
    /\ opPc[g] = "gap"
    /\ GitMayWrite
    /\ Len(stash) < MaxStash
    /\ stash' = <<HashesOf(index) \cup HashesOf(pend[g])>> \o stash
    /\ opPc' = [opPc EXCEPT ![g] = "reset"]
    /\ pend' = [pend EXCEPT ![g] = NoPend]
    /\ missed' = [missed EXCEPT ![g] = {}]
    /\ UNCHANGED <<index, local, remote, reflog, storeVars, lock, opKind, fltVars, pushVars>>
    /\ StillHeld

(* ... and the index is reset to the commit. *)
StashReset(g) ==
    /\ opPc[g] = "reset"
    /\ \A g2 \in Ops : ~HoldsIndexLock(g2)
    /\ index' = [p \in Paths |->
                    IF index[p] \in local \cup remote THEN index[p] ELSE None]
    /\ OpEnd(g)
    /\ UNCHANGED <<local, remote, stash, reflog, storeVars, lock, fltVars, pushVars>>
    /\ StillHeld

(* stash pop: the content is back in the worktree, the entry is dropped. *)
RecordPop(g) ==
    /\ opPc[g] = "run" /\ opKind[g] = "pop" /\ FilterReplied(g)
    /\ stash # <<>>
    /\ stash' = Tail(stash)
    /\ OpEnd(g)
    /\ UNCHANGED <<index, local, remote, reflog, storeVars, lock, fltVars, pushVars>>
    /\ StillHeld

(* A status ends; any command may fail; the filter dies with its pipe, and *)
(* the OS releases the flock of a dead process.                            *)
OpAbort(g) ==
    /\ opPc[g] # "idle" \/ fPc[g] # "idle"
    /\ OpEnd(g)
    /\ fPc' = [fPc EXCEPT ![g] = "idle"]
    /\ fHash' = [fHash EXCEPT ![g] = None]
    /\ fPath' = [fPath EXCEPT ![g] = None]
    /\ lock' = IF lock = g THEN Free ELSE lock
    /\ UNCHANGED <<gitVars, storeVars, gcVars, pushVars>>

(* git restore --staged, git rm --cached. *)
Unstage(p) ==
    /\ index[p] # None
    /\ \A g \in Ops : ~HoldsIndexLock(g)
    /\ index' = [index EXCEPT ![p] = None]
    /\ UNCHANGED <<local, remote, stash, reflog, storeVars, lock, opVars, fltVars, pushVars>>
    /\ StillHeld

(* git reset, git branch -D: commits of local refs are dropped. *)
DropCommit(h) ==
    /\ h \in local
    /\ local' = local \ {h}
    /\ reflog' = IF "reflog" \in Env THEN reflog \cup {h} ELSE reflog
    /\ UNCHANGED <<index, remote, stash, storeVars, lock, opVars, fltVars, pushVars>>
    /\ StillHeld

StashDrop ==
    /\ stash # <<>>
    /\ stash' = Tail(stash)
    /\ UNCHANGED <<index, local, remote, reflog, storeVars, lock, opVars, fltVars, pushVars>>
    /\ StillHeld

(* Another clone pushed h through push-pending and we fetched its commit. *)
Fetch(h) ==
    /\ "fetch" \in Commands
    /\ ~LocalMode
    /\ h \notin remote
    /\ server' = server \cup {h}
    /\ remote' = remote \cup {h}
    /\ UNCHANGED <<index, local, stash, reflog, objects, markers, old, cache, lock, opVars, fltVars, gcVars, pushVars>>

(* The remote branch was deleted or rewritten and the tracking ref pruned. *)
FetchPrune(h) ==
    /\ "fetch" \in Commands
    /\ h \in remote
    /\ remote' = remote \ {h}
    /\ UNCHANGED <<index, local, stash, reflog, storeVars, lock, opVars, fltVars, pushVars>>
    /\ StillHeld

(* A marker's mtime falls behind the grace.  gc compares ages once and runs*)
(* for less than the grace, so no marker ages under it; a stash keeps the  *)
(* markers it cleaned for less than the grace, unless the environment says *)
(* otherwise.                                                              *)
MarkerAges(h) ==
    /\ h \in markers \ old
    /\ ~GcPastCheck
    /\ \/ "slowStash" \in Env
       \/ \A g \in Ops :
             opKind[g] = "stash" => h \notin HashesOf(pend[g]) \cup {fHash[g]}
    /\ old' = old \cup {h}
    /\ UNCHANGED <<gitVars, objects, markers, cache, server, lock, opVars, fltVars, gcVars, pushVars>>
=============================================================================
