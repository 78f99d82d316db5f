----------------------------- MODULE CleanFilter -----------------------------
(***************************************************************************)
(* filter-process: the clean and smudge handlers that serve a git command. *)
(* Each step is one file-system effect, so that gc, push-pending and other *)
(* filters interleave where the code lets them.                            *)
(***************************************************************************)
EXTENDS RepoState

FilterIdle(g) ==
    /\ fPc' = [fPc EXCEPT ![g] = "idle"]
    /\ fPath' = [fPath EXCEPT ![g] = None]
    /\ fHash' = [fHash EXCEPT ![g] = None]

FilterServes(g, p, h, pc) ==
    /\ fPc' = [fPc EXCEPT ![g] = pc]
    /\ fPath' = [fPath EXCEPT ![g] = p]
    /\ fHash' = [fHash EXCEPT ![g] = h]

FilterAt(g, from, to) ==
    /\ fPc[g] = from
    /\ fPc' = [fPc EXCEPT ![g] = to]
    /\ UNCHANGED <<fPath, fHash>>

(* The pointer reaches git; fresh says that a full clean produced it. *)
Reply(g, fresh) ==
    /\ pend' = [pend EXCEPT ![g][fPath[g]] = fHash[g]]
    /\ missed' = [missed EXCEPT ![g] = IF fresh THEN @ \cup {fPath[g]} ELSE @]

(* Drain the payload, load the clean-cache entry and verify its chunks, all*)
(* without the store lock.  An unreadable entry means a full clean.        *)
CleanLookup(g, p, h) ==
    /\ opPc[g] = "run" /\ opKind[g] \in Cleaning
    /\ fPc[g] = "idle"
    /\ pend[g][p] = None
    /\ \E pc \in {"hit", "miss"} :
         /\ pc = "hit" => cache[p] = h
         /\ FilterServes(g, p, h, pc)
    /\ UNCHANGED <<gitVars, storeVars, lock, opVars, gcVars, pushVars>>

(* Cache hit: take the lock, refresh the marker if there is one (an error  *)
(* is ignored), reply and release.  Nothing else is written, so the four   *)
(* are one step.                                                           *)
CleanHit(g) ==
    /\ fPc[g] = "hit"
    /\ lock = Free
    /\ \/ old' = old \ {fHash[g]}
       \/ "markFails" \in Env /\ UNCHANGED old
    /\ Reply(g, FALSE)
    /\ FilterIdle(g)
    /\ UNCHANGED <<gitVars, objects, markers, cache, server, lock, opKind, opPc, gcVars, pushVars>>

(* Mutant: the guard is dropped as soon as it is taken. *)
CleanLockDropped(g) ==
    /\ lock = Free
    /\ FilterAt(g, "miss", "write")
    /\ UNCHANGED <<gitVars, storeVars, lock, opVars, gcVars, pushVars>>

CleanLock(g) ==
    /\ lock = Free
    /\ lock' = g
    /\ FilterAt(g, "miss", "write")
    /\ UNCHANGED <<gitVars, storeVars, opVars, gcVars, pushVars>>

(* session.finalize(): every xorb and the shard are on disk. *)
CleanWriteObjects(g) ==
    /\ FilterAt(g, "write", "mark")
    /\ objects' = objects \cup {fHash[g]}
    /\ UNCHANGED <<gitVars, markers, old, cache, server, lock, opVars, gcVars, pushVars>>

(* mark_file_staged; a failure is only logged. *)
CleanMark(g) ==
    /\ FilterAt(g, "mark", "reply")
    /\ \/ /\ markers' = markers \cup {fHash[g]}
          /\ old' = old \ {fHash[g]}
       \/ "markFails" \in Env /\ UNCHANGED <<markers, old>>
    /\ UNCHANGED <<gitVars, objects, cache, server, lock, opVars, gcVars, pushVars>>

CleanReply(g) ==
    /\ FilterAt(g, "reply", "save")
    /\ Reply(g, TRUE)
    /\ UNCHANGED <<gitVars, storeVars, lock, opKind, opPc, gcVars, pushVars>>

(* Mutant: the guard outlives the request. *)
CleanSaveKeepsLock(g) ==
    /\ fPc[g] = "save"
    /\ cache' = [cache EXCEPT ![fPath[g]] = fHash[g]]
    /\ FilterIdle(g)
    /\ UNCHANGED <<gitVars, objects, markers, old, server, lock, opVars, gcVars, pushVars>>

(* Best-effort clean-cache save, then the lock guard is dropped. *)
CleanSave(g) ==
    /\ fPc[g] = "save"
    /\ \/ cache' = [cache EXCEPT ![fPath[g]] = fHash[g]]
       \/ UNCHANGED cache
    /\ lock' = Free
    /\ FilterIdle(g)
    /\ UNCHANGED <<gitVars, objects, markers, old, server, opVars, gcVars, pushVars>>

(* The pointers a command smudges. *)
SmudgeSource(k) ==
    CASE k = "checkout" -> local \cup remote
      [] k = "pop"      -> StashTop
      [] k = "recover"  -> reflog

(* Reconstruct, lock-free, from the store or the server; when neither can  *)
(* the request fails and the command aborts.                               *)
SmudgeRead(g, p, h) ==
    /\ opPc[g] = "run" /\ opKind[g] \in Smudging
    /\ fPc[g] = "idle"
    /\ pend[g][p] = None
    /\ h \in SmudgeSource(opKind[g])
    /\ Readable(h)
    /\ FilterServes(g, p, h, "smudged")
    /\ UNCHANGED <<gitVars, storeVars, lock, opVars, gcVars, pushVars>>

(* Seed the clean-cache from the smudged bytes, best-effort and lock-free, *)
(* then return the content.                                                *)
SmudgeReply(g) ==
    /\ fPc[g] = "smudged"
    /\ \/ cache' = [cache EXCEPT ![fPath[g]] = fHash[g]]
       \/ UNCHANGED cache
    /\ Reply(g, FALSE)
    /\ FilterIdle(g)
    /\ UNCHANGED <<gitVars, objects, markers, old, server, lock, opKind, opPc, gcVars, pushVars>>
=============================================================================
