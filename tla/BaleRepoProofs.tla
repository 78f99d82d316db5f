--------------------------- MODULE BaleRepoProofs ----------------------------
(***************************************************************************)
(* Theorems about BaleRepo, for every set of hashes, paths and commands.   *)
(*                                                                         *)
(* RepoInv is the inductive invariant.  It rests on four ideas: the store  *)
(* lock serializes everything that adds or removes a marker (LockInv); a   *)
(* sweep runs with no marker left (SweepInv); gc past its in-flight check  *)
(* meets no command that holds a git lock, and a stash in its lock-free gap*)
(* only has pointers whose markers are too young to reclaim (OpInv); what  *)
(* gc read of the refs before the index still covers them (GcInv).         *)
(***************************************************************************)
EXTENDS BaleRepo, TLAPS

(* On the server, or staged with its marker: what every command preserves. *)
Kept(h) == h \in server \/ (h \in markers /\ h \in objects)

KeptTable(table) == \A p \in Paths : table[p] # None => Kept(table[p])

KeptSet(S) == \A h \in S : Kept(h)

LockInv ==
    /\ \A g \in Ops : lock = g <=> fPc[g] \in {"write", "mark", "reply", "save"}
    /\ lock = GcProc <=> gcPc # "idle"
    /\ lock = PushProc <=> pushPc \in {"unmark", "sweep"}

SweepInv ==
    /\ markers \subseteq objects
    /\ gcPc = "sweep" => markers = {}
    /\ pushPc = "sweep" => markers = {}
    /\ \A g \in Ops : fPc[g] = "mark" => fHash[g] \in objects

PushInv ==
    /\ LocalMode => pushPc = "idle" /\ server = {}
    /\ ~LocalMode => remote \subseteq server \cup unread
    /\ pushPc \in {"drain", "unmark", "sweep", "hookDone"} =>
           pushStaged \cup pushSeen \subseteq server

(* Walks that read everything find all that is pushed.                     *)
WalkInv ==
    /\ unread = {}
    /\ pushPc \notin {"idle", "list"} => pushSeen = pushAdv

(* What stayed where gc looks is among what gc found, or on the server.    *)
HeldInv ==
    /\ heldIndex \subseteq HashesOf(index)
    /\ heldRefs \subseteq RefHashes
    /\ gcPc = "index" => heldRefs \subseteq LiveTips \cup server \cup unread
    /\ GcNeverUndercounts

(* The filter serves a request exactly when it is not idle, and which      *)
(* requests a command can be waiting for.                                  *)
FilterInv ==
    \A g \in Ops :
        /\ fPc[g] # "idle" => fPath[g] \in Paths /\ fHash[g] \in Hashes
        /\ fPc[g] \in {"hit", "miss", "write", "mark", "reply", "smudged"} =>
            opPc[g] = "run"
        /\ fPc[g] \in {"hit", "miss", "write", "mark", "reply"} =>
            opKind[g] \in Cleaning
        /\ fPc[g] = "smudged" => opKind[g] \in Smudging
        /\ opPc[g] \in {"idle", "reset"} => pend[g] = NoPend
        /\ opPc[g] = "idle" => opKind[g] = "status"
        /\ opPc[g] \in {"gap", "reset"} => opKind[g] = "stash"
        /\ \A p \in missed[g] : pend[g][p] # None

OpInv ==
    /\ GcPastCheck => ~GitOpInFlight
    /\ \A g \in Ops : fPc[g] \in {"reply", "save"} => fHash[g] \in markers
    /\ \A g \in Ops : opKind[g] # "status" =>
         /\ KeptTable(pend[g])
         /\ fPc[g] \in {"hit", "smudged"} => Kept(fHash[g])
    /\ \A g \in Ops : opKind[g] = "stash" =>
         /\ \A p \in Paths : pend[g][p] # None =>
              pend[g][p] \in server \/ pend[g][p] \in markers \ old
         /\ fPc[g] \in {"reply", "save"} => fHash[g] \notin old

RefInv ==
    /\ KeptTable(index)
    /\ KeptSet(local) /\ KeptSet(remote)
    /\ \A i \in 1..Len(stash) : KeptSet(stash[i])
    /\ Len(stash) <= 1
    /\ reflog = {}

CacheInv ==
    \A p \in Paths :
        \/ cache[p] = None
        \/ Kept(cache[p])
        \/ gcPc \in {"orphans", "forget"} /\ cache[p] \in gcDead

Unreferenced(S) ==
    /\ \A p \in Paths : index[p] \in S => index[p] \in server
    /\ local \cap S \subseteq server /\ remote \cap S \subseteq server
    /\ \A i \in 1..Len(stash) : stash[i] \cap S \subseteq server

GcInv ==
    /\ gcPc \in {"index", "unmark", "orphans", "forget"} =>
         LocalMode \/ gcRemote \subseteq server
    /\ gcPc = "index" =>
         /\ local \subseteq LiveTips \cup server
         /\ remote \subseteq LiveTips \cup server
         /\ \A i \in 1..Len(stash) : stash[i] \subseteq LiveTips \cup server
    /\ gcPc = "unmark" => gcDead \subseteq old
    /\ gcPc \in {"unmark", "orphans", "forget"} =>
         /\ Unreferenced(gcDead)
         /\ gcDead \cap gcTips = {}
    /\ gcPc = "forget" => gcDead \ gcOrphaned \subseteq server

RepoInv ==
    /\ TypeOK /\ FilterInv /\ PushInv /\ WalkInv /\ LockInv /\ SweepInv
    /\ OpInv /\ RefInv /\ CacheInv /\ GcInv

(* The environment under which no pointer is lost: file-system errors may  *)
(* keep files gc meant to remove, and nothing else goes wrong.             *)
Quiet == Env \subseteq {"unlinkFails"} /\ MaxStash <= 1
-----------------------------------------------------------------------------

(* Every step of every process keeps the variables in their types, and the *)
(* filter's request in step with the command it serves.                    *)
LEMMA TypeStep ==
    ASSUME TypeOK, FilterInv, [Next]_vars
    PROVE  TypeOK' /\ FilterInv'
<1> USE ConstantsAssumption DEF TypeOK, FilterInv, NoPend, Kinds, AllKinds,
      Cleaning, Smudging,
      gitVars, storeVars, opVars, fltVars, gcVars, gcData, pushVars
<1>1. ASSUME NEW g \in Ops, NEW k \in Kinds, OpBegin(g, k)
       PROVE  TypeOK' /\ FilterInv'
  BY <1>1 DEF OpBegin, Recording
<1>2. ASSUME NEW g \in Ops, RecordAdd(g) PROVE TypeOK' /\ FilterInv'
  BY <1>2 DEF RecordAdd, StillHeld, OpEnd, IndexWith, FilterReplied
<1>3. ASSUME NEW g \in Ops, RecordCommit(g) PROVE TypeOK' /\ FilterInv'
  BY <1>3 DEF RecordCommit, StillHeld, OpEnd, IndexWith, FilterReplied, HashesOf
<1>4. ASSUME NEW g \in Ops, RecordCheckout(g) PROVE TypeOK' /\ FilterInv'
  BY <1>4 DEF RecordCheckout, StillHeld, OpEnd, IndexWith, FilterReplied, HashesOf
<1>5. ASSUME NEW g \in Ops, RecordPop(g) PROVE TypeOK' /\ FilterInv'
  BY <1>5 DEF RecordPop, StillHeld, OpEnd, FilterReplied
<1>6. ASSUME NEW g \in Ops, StashUnlock(g) PROVE TypeOK' /\ FilterInv'
  BY <1>6 DEF StashUnlock, FilterReplied
<1>7. ASSUME NEW g \in Ops, StashRef(g) PROVE TypeOK' /\ FilterInv'
  BY <1>7 DEF StashRef, StillHeld, HashesOf
<1>8. ASSUME NEW g \in Ops, StashReset(g) PROVE TypeOK' /\ FilterInv'
  BY <1>8 DEF StashReset, StillHeld, OpEnd
<1>9. ASSUME NEW g \in Ops, OpAbort(g) PROVE TypeOK' /\ FilterInv'
  BY <1>9 DEF OpAbort, OpEnd
<1>10. ASSUME NEW g \in Ops, NEW p \in Paths, NEW h \in Hashes,
              CleanLookup(g, p, h)
       PROVE TypeOK' /\ FilterInv'
  BY <1>10 DEF CleanLookup, FilterServes
<1>11. ASSUME NEW g \in Ops, NEW p \in Paths, NEW h \in Hashes, SmudgeRead(g,
    p, h) PROVE TypeOK' /\ FilterInv'
  BY <1>11 DEF SmudgeRead, FilterServes
<1>12. ASSUME NEW g \in Ops, CleanHit(g) PROVE TypeOK' /\ FilterInv'
  BY <1>12 DEF CleanHit, Reply, FilterIdle
<1>13. ASSUME NEW g \in Ops, CleanLock(g) PROVE TypeOK' /\ FilterInv'
  BY <1>13 DEF CleanLock, FilterAt
<1>14. ASSUME NEW g \in Ops, CleanWriteObjects(g) PROVE TypeOK' /\ FilterInv'
  BY <1>14 DEF CleanWriteObjects, FilterAt
<1>15. ASSUME NEW g \in Ops, CleanMark(g) PROVE TypeOK' /\ FilterInv'
  BY <1>15 DEF CleanMark, FilterAt
<1>16. ASSUME NEW g \in Ops, CleanReply(g) PROVE TypeOK' /\ FilterInv'
  BY <1>16 DEF CleanReply, FilterAt, Reply
<1>17. ASSUME NEW g \in Ops, CleanSave(g) PROVE TypeOK' /\ FilterInv'
  BY <1>17 DEF CleanSave, FilterIdle
<1>18. ASSUME NEW g \in Ops, SmudgeReply(g) PROVE TypeOK' /\ FilterInv'
  BY <1>18 DEF SmudgeReply, Reply, FilterIdle
<1>19. ASSUME NEW p \in Paths, Unstage(p) PROVE TypeOK' /\ FilterInv'
  BY <1>19 DEF Unstage, StillHeld
<1>20. ASSUME NEW h \in Hashes, DropCommit(h) PROVE TypeOK' /\ FilterInv'
  BY <1>20 DEF DropCommit, StillHeld
<1>21. ASSUME NEW h \in Hashes, Fetch(h) PROVE TypeOK' /\ FilterInv'
  BY <1>21 DEF Fetch
<1>22. ASSUME NEW h \in Hashes, FetchPrune(h) PROVE TypeOK' /\ FilterInv'
  BY <1>22 DEF FetchPrune, StillHeld
<1>23. ASSUME NEW h \in Hashes, MarkerAges(h) PROVE TypeOK' /\ FilterInv'
  BY <1>23 DEF MarkerAges
<1>24. ASSUME StashDrop PROVE TypeOK' /\ FilterInv'
  BY <1>24 DEF StashDrop, StillHeld
<1>25. ASSUME GcTryLock PROVE TypeOK' /\ FilterInv'
  BY <1>25 DEF GcTryLock, GcUnchangedData
<1>26. ASSUME GcCheck PROVE TypeOK' /\ FilterInv'
  <2>1. HashesOf(index) \subseteq Hashes /\ RefHashes \subseteq Hashes
    BY DEF HashesOf, RefHashes, StashTop
  <2> QED
    BY <1>26, <2>1 DEF GcCheck, GcExit, GcUnchangedData
<1>27. ASSUME GcList PROVE TypeOK' /\ FilterInv'
  BY <1>27 DEF GcList, GcExit
<1>28. ASSUME GcReadTips PROVE TypeOK' /\ FilterInv'
  BY <1>28 DEF GcReadTips, Unpushed, StashTop
<1>29. ASSUME GcReadIndex PROVE TypeOK' /\ FilterInv'
  BY <1>29 DEF GcReadIndex, GcDecide, GcExit, ReachableHashes, LiveTips
<1>30. ASSUME GcRemoveMarkers PROVE TypeOK' /\ FilterInv'
  BY <1>30 DEF GcRemoveMarkers, GcUnchangedData, Unlinked
<1>31. ASSUME GcFindOrphans PROVE TypeOK' /\ FilterInv'
  BY <1>31 DEF GcFindOrphans, ReachableHashes
<1>32. ASSUME GcForget PROVE TypeOK' /\ FilterInv'
  BY <1>32 DEF GcForget, ForgetHashes, GcExit, GcUnchangedData
<1>33. ASSUME GcSweep PROVE TypeOK' /\ FilterInv'
  BY <1>33 DEF GcSweep, GcExit
<1>34. ASSUME GcCrash PROVE TypeOK' /\ FilterInv'
  BY <1>34 DEF GcCrash, GcExit
<1>35. ASSUME PushBegin PROVE TypeOK' /\ FilterInv'
  BY <1>35 DEF PushBegin, PushUnchangedElse, Advertised
<1>36. ASSUME PushList PROVE TypeOK' /\ FilterInv'
  BY <1>36 DEF PushList, Found, PushUnchangedElse
<1>37. ASSUME NEW h \in Hashes, PushReadStaged(h) PROVE TypeOK' /\ FilterInv'
  BY <1>37 DEF PushReadStaged, PushUnchangedElse
<1>38. ASSUME PushFinalize PROVE TypeOK' /\ FilterInv'
  BY <1>38 DEF PushFinalize, PushUnchangedElse, FromRefs
<1>39. ASSUME PushFail PROVE TypeOK' /\ FilterInv'
  BY <1>39 DEF PushFail, PushExit, PushUnchangedElse
<1>40. ASSUME PushLock PROVE TypeOK' /\ FilterInv'
  BY <1>40 DEF PushLock, PushUnchangedElse
<1>41. ASSUME PushRemoveMarkers PROVE TypeOK' /\ FilterInv'
  BY <1>41 DEF PushRemoveMarkers, PushUnchangedElse, Unlinked
<1>42. ASSUME PushSweep PROVE TypeOK' /\ FilterInv'
  BY <1>42 DEF PushSweep, PushUnchangedElse
<1>43. ASSUME PushCrash PROVE TypeOK' /\ FilterInv'
  BY <1>43 DEF PushCrash, PushExit, PushUnchangedElse
<1>44. ASSUME GitPushed PROVE TypeOK' /\ FilterInv'
  BY <1>44 DEF GitPushed, PushExit, PushUnchangedElse
<1>45. ASSUME PushLocal PROVE TypeOK' /\ FilterInv'
  BY <1>45 DEF PushLocal, PushUnchangedElse
<1>46. ASSUME PushLockFails PROVE TypeOK' /\ FilterInv'
  BY <1>46 DEF PushLockFails, PushUnchangedElse
<1>47. CASE UNCHANGED vars
  BY <1>47 DEF vars
<1> QED
  BY <1>1, <1>2, <1>3, <1>4, <1>5, <1>6, <1>7, <1>8, <1>9, <1>10, <1>11,
      <1>12, <1>13, <1>14, <1>15, <1>16, <1>17, <1>18, <1>19, <1>20, <1>21,
      <1>22, <1>23, <1>24, <1>25, <1>26, <1>27, <1>28, <1>29, <1>30, <1>31,
      <1>32, <1>33, <1>34, <1>35, <1>36, <1>37, <1>38, <1>39, <1>40, <1>41,
      <1>42, <1>43, <1>44, <1>45, <1>46, <1>47 DEF GitStep, FilterStep, UserStep,
      GcStep, PushStep, Next

(* push-pending drains and git moves the remote ref only after the server  *)
(* has registered the files concerned, whatever fails or dies.             *)
LEMMA PushStepInv ==
    ASSUME TypeOK, FilterInv, PushInv, [Next]_vars
    PROVE  PushInv'
<1> USE ConstantsAssumption DEF TypeOK, PushInv,
      gitVars, storeVars, opVars, fltVars, gcVars, gcData, pushVars
<1>1. ASSUME NEW g \in Ops, NEW k \in Kinds, OpBegin(g, k) PROVE PushInv'
  BY <1>1 DEF OpBegin
<1>2. ASSUME NEW g \in Ops, RecordAdd(g) PROVE PushInv'
  BY <1>2 DEF RecordAdd, StillHeld, OpEnd, IndexWith, FilterReplied
<1>3. ASSUME NEW g \in Ops, RecordCommit(g) PROVE PushInv'
  BY <1>3 DEF RecordCommit, StillHeld, OpEnd, IndexWith, FilterReplied
<1>4. ASSUME NEW g \in Ops, RecordCheckout(g) PROVE PushInv'
  BY <1>4 DEF RecordCheckout, StillHeld, OpEnd, IndexWith, FilterReplied
<1>5. ASSUME NEW g \in Ops, RecordPop(g) PROVE PushInv'
  BY <1>5 DEF RecordPop, StillHeld, OpEnd, FilterReplied
<1>6. ASSUME NEW g \in Ops, StashUnlock(g) PROVE PushInv'
  BY <1>6 DEF StashUnlock, FilterReplied
<1>7. ASSUME NEW g \in Ops, StashRef(g) PROVE PushInv'
  BY <1>7 DEF StashRef, StillHeld
<1>8. ASSUME NEW g \in Ops, StashReset(g) PROVE PushInv'
  BY <1>8 DEF StashReset, StillHeld, OpEnd
<1>9. ASSUME NEW g \in Ops, OpAbort(g) PROVE PushInv'
  BY <1>9 DEF OpAbort, OpEnd
<1>10. ASSUME NEW g \in Ops, NEW p \in Paths, NEW h \in Hashes,
              CleanLookup(g, p, h)
       PROVE PushInv'
  BY <1>10 DEF CleanLookup, FilterServes
<1>11. ASSUME NEW g \in Ops, NEW p \in Paths, NEW h \in Hashes, SmudgeRead(g,
    p, h) PROVE PushInv'
  BY <1>11 DEF SmudgeRead, FilterServes
<1>12. ASSUME NEW g \in Ops, CleanHit(g) PROVE PushInv'
  BY <1>12 DEF CleanHit, Reply, FilterIdle
<1>13. ASSUME NEW g \in Ops, CleanLock(g) PROVE PushInv'
  BY <1>13 DEF CleanLock, FilterAt
<1>14. ASSUME NEW g \in Ops, CleanWriteObjects(g) PROVE PushInv'
  BY <1>14 DEF CleanWriteObjects, FilterAt
<1>15. ASSUME NEW g \in Ops, CleanMark(g) PROVE PushInv'
  BY <1>15 DEF CleanMark, FilterAt
<1>16. ASSUME NEW g \in Ops, CleanReply(g) PROVE PushInv'
  BY <1>16 DEF CleanReply, FilterAt, Reply
<1>17. ASSUME NEW g \in Ops, CleanSave(g) PROVE PushInv'
  BY <1>17 DEF CleanSave, FilterIdle
<1>18. ASSUME NEW g \in Ops, SmudgeReply(g) PROVE PushInv'
  BY <1>18 DEF SmudgeReply, Reply, FilterIdle
<1>19. ASSUME NEW p \in Paths, Unstage(p) PROVE PushInv'
  BY <1>19 DEF Unstage, StillHeld
<1>20. ASSUME NEW h \in Hashes, DropCommit(h) PROVE PushInv'
  BY <1>20 DEF DropCommit, StillHeld
<1>21. ASSUME NEW h \in Hashes, Fetch(h) PROVE PushInv'
  BY <1>21 DEF Fetch
<1>22. ASSUME NEW h \in Hashes, FetchPrune(h) PROVE PushInv'
  BY <1>22 DEF FetchPrune, StillHeld
<1>23. ASSUME NEW h \in Hashes, MarkerAges(h) PROVE PushInv'
  BY <1>23 DEF MarkerAges
<1>24. ASSUME StashDrop PROVE PushInv'
  BY <1>24 DEF StashDrop, StillHeld
<1>25. ASSUME GcTryLock PROVE PushInv'
  BY <1>25 DEF GcTryLock, GcUnchangedData
<1>26. ASSUME GcCheck PROVE PushInv'
  BY <1>26 DEF GcCheck, GcExit, GcUnchangedData
<1>27. ASSUME GcList PROVE PushInv'
  BY <1>27 DEF GcList, GcExit
<1>28. ASSUME GcReadTips PROVE PushInv'
  BY <1>28 DEF GcReadTips, Unpushed, StashTop
<1>29. ASSUME GcReadIndex PROVE PushInv'
  BY <1>29 DEF GcReadIndex, GcDecide, GcExit, ReachableHashes, LiveTips
<1>30. ASSUME GcRemoveMarkers PROVE PushInv'
  BY <1>30 DEF GcRemoveMarkers, GcUnchangedData, Unlinked
<1>31. ASSUME GcFindOrphans PROVE PushInv'
  BY <1>31 DEF GcFindOrphans, ReachableHashes
<1>32. ASSUME GcForget PROVE PushInv'
  BY <1>32 DEF GcForget, ForgetHashes, GcExit, GcUnchangedData
<1>33. ASSUME GcSweep PROVE PushInv'
  BY <1>33 DEF GcSweep, GcExit
<1>34. ASSUME GcCrash PROVE PushInv'
  BY <1>34 DEF GcCrash, GcExit
<1>35. ASSUME PushBegin PROVE PushInv'
  BY <1>35 DEF PushBegin, PushUnchangedElse, Advertised
<1>36. ASSUME PushList PROVE PushInv'
  BY <1>36 DEF PushList, Found, PushUnchangedElse
<1>37. ASSUME NEW h \in Hashes, PushReadStaged(h) PROVE PushInv'
  BY <1>37 DEF PushReadStaged, PushUnchangedElse
<1>38. ASSUME PushFinalize PROVE PushInv'
  BY <1>38 DEF PushFinalize, PushUnchangedElse, FromRefs
<1>39. ASSUME PushFail PROVE PushInv'
  BY <1>39 DEF PushFail, PushExit, PushUnchangedElse
<1>40. ASSUME PushLock PROVE PushInv'
  BY <1>40 DEF PushLock, PushUnchangedElse
<1>41. ASSUME PushRemoveMarkers PROVE PushInv'
  BY <1>41 DEF PushRemoveMarkers, PushUnchangedElse, Unlinked
<1>42. ASSUME PushSweep PROVE PushInv'
  BY <1>42 DEF PushSweep, PushUnchangedElse
<1>43. ASSUME PushCrash PROVE PushInv'
  BY <1>43 DEF PushCrash, PushExit, PushUnchangedElse
<1>44. ASSUME GitPushed PROVE PushInv'
  BY <1>44 DEF GitPushed, PushExit, PushUnchangedElse
<1>45. ASSUME PushLocal PROVE PushInv'
  BY <1>45 DEF PushLocal, PushUnchangedElse
<1>46. ASSUME PushLockFails PROVE PushInv'
  BY <1>46 DEF PushLockFails, PushUnchangedElse
<1>47. CASE UNCHANGED vars
  BY <1>47 DEF vars
<1> QED
  BY <1>1, <1>2, <1>3, <1>4, <1>5, <1>6, <1>7, <1>8, <1>9, <1>10, <1>11,
      <1>12, <1>13, <1>14, <1>15, <1>16, <1>17, <1>18, <1>19, <1>20, <1>21,
      <1>22, <1>23, <1>24, <1>25, <1>26, <1>27, <1>28, <1>29, <1>30, <1>31,
      <1>32, <1>33, <1>34, <1>35, <1>36, <1>37, <1>38, <1>39, <1>40, <1>41,
      <1>42, <1>43, <1>44, <1>45, <1>46, <1>47 DEF GitStep, FilterStep, UserStep,
      GcStep, PushStep, Next

(* The store lock has one holder: a filter writing a file, gc, or a drain. *)
LEMMA LockStep ==
    ASSUME TypeOK, FilterInv, PushInv, LockInv, [Next]_vars
    PROVE  LockInv'
<1> USE ConstantsAssumption DEF TypeOK, LockInv,
      gitVars, storeVars, opVars, fltVars, gcVars, gcData, pushVars
<1>1. ASSUME NEW g \in Ops, NEW k \in Kinds, OpBegin(g, k) PROVE LockInv'
  BY <1>1 DEF OpBegin
<1>2. ASSUME NEW g \in Ops, RecordAdd(g) PROVE LockInv'
  BY <1>2 DEF RecordAdd, StillHeld, OpEnd, IndexWith, FilterReplied
<1>3. ASSUME NEW g \in Ops, RecordCommit(g) PROVE LockInv'
  BY <1>3 DEF RecordCommit, StillHeld, OpEnd, IndexWith, FilterReplied
<1>4. ASSUME NEW g \in Ops, RecordCheckout(g) PROVE LockInv'
  BY <1>4 DEF RecordCheckout, StillHeld, OpEnd, IndexWith, FilterReplied
<1>5. ASSUME NEW g \in Ops, RecordPop(g) PROVE LockInv'
  BY <1>5 DEF RecordPop, StillHeld, OpEnd, FilterReplied
<1>6. ASSUME NEW g \in Ops, StashUnlock(g) PROVE LockInv'
  BY <1>6 DEF StashUnlock, FilterReplied
<1>7. ASSUME NEW g \in Ops, StashRef(g) PROVE LockInv'
  BY <1>7 DEF StashRef, StillHeld
<1>8. ASSUME NEW g \in Ops, StashReset(g) PROVE LockInv'
  BY <1>8 DEF StashReset, StillHeld, OpEnd
<1>9. ASSUME NEW g \in Ops, OpAbort(g) PROVE LockInv'
  BY <1>9 DEF OpAbort, OpEnd
<1>10. ASSUME NEW g \in Ops, NEW p \in Paths, NEW h \in Hashes,
              CleanLookup(g, p, h)
       PROVE LockInv'
  BY <1>10 DEF CleanLookup, FilterServes
<1>11. ASSUME NEW g \in Ops, NEW p \in Paths, NEW h \in Hashes, SmudgeRead(g,
    p, h) PROVE LockInv'
  BY <1>11 DEF SmudgeRead, FilterServes
<1>12. ASSUME NEW g \in Ops, CleanHit(g) PROVE LockInv'
  BY <1>12 DEF CleanHit, Reply, FilterIdle
<1>13. ASSUME NEW g \in Ops, CleanLock(g) PROVE LockInv'
  BY <1>13 DEF CleanLock, FilterAt
<1>14. ASSUME NEW g \in Ops, CleanWriteObjects(g) PROVE LockInv'
  BY <1>14 DEF CleanWriteObjects, FilterAt
<1>15. ASSUME NEW g \in Ops, CleanMark(g) PROVE LockInv'
  BY <1>15 DEF CleanMark, FilterAt
<1>16. ASSUME NEW g \in Ops, CleanReply(g) PROVE LockInv'
  BY <1>16 DEF CleanReply, FilterAt, Reply
<1>17. ASSUME NEW g \in Ops, CleanSave(g) PROVE LockInv'
  BY <1>17 DEF CleanSave, FilterIdle
<1>18. ASSUME NEW g \in Ops, SmudgeReply(g) PROVE LockInv'
  BY <1>18 DEF SmudgeReply, Reply, FilterIdle
<1>19. ASSUME NEW p \in Paths, Unstage(p) PROVE LockInv'
  BY <1>19 DEF Unstage, StillHeld
<1>20. ASSUME NEW h \in Hashes, DropCommit(h) PROVE LockInv'
  BY <1>20 DEF DropCommit, StillHeld
<1>21. ASSUME NEW h \in Hashes, Fetch(h) PROVE LockInv'
  BY <1>21 DEF Fetch
<1>22. ASSUME NEW h \in Hashes, FetchPrune(h) PROVE LockInv'
  BY <1>22 DEF FetchPrune, StillHeld
<1>23. ASSUME NEW h \in Hashes, MarkerAges(h) PROVE LockInv'
  BY <1>23 DEF MarkerAges
<1>24. ASSUME StashDrop PROVE LockInv'
  BY <1>24 DEF StashDrop, StillHeld
<1>25. ASSUME GcTryLock PROVE LockInv'
  BY <1>25 DEF GcTryLock, GcUnchangedData
<1>26. ASSUME GcCheck PROVE LockInv'
  BY <1>26 DEF GcCheck, GcExit, GcUnchangedData
<1>27. ASSUME GcList PROVE LockInv'
  BY <1>27 DEF GcList, GcExit
<1>28. ASSUME GcReadTips PROVE LockInv'
  BY <1>28 DEF GcReadTips, Unpushed, StashTop
<1>29. ASSUME GcReadIndex PROVE LockInv'
  BY <1>29 DEF GcReadIndex, GcDecide, GcExit, ReachableHashes, LiveTips
<1>30. ASSUME GcRemoveMarkers PROVE LockInv'
  BY <1>30 DEF GcRemoveMarkers, GcUnchangedData, Unlinked
<1>31. ASSUME GcFindOrphans PROVE LockInv'
  BY <1>31 DEF GcFindOrphans, ReachableHashes
<1>32. ASSUME GcForget PROVE LockInv'
  BY <1>32 DEF GcForget, ForgetHashes, GcExit, GcUnchangedData
<1>33. ASSUME GcSweep PROVE LockInv'
  BY <1>33 DEF GcSweep, GcExit
<1>34. ASSUME GcCrash PROVE LockInv'
  BY <1>34 DEF GcCrash, GcExit
<1>35. ASSUME PushBegin PROVE LockInv'
  BY <1>35 DEF PushBegin, PushUnchangedElse, Advertised
<1>36. ASSUME PushList PROVE LockInv'
  BY <1>36 DEF PushList, Found, PushUnchangedElse
<1>37. ASSUME NEW h \in Hashes, PushReadStaged(h) PROVE LockInv'
  BY <1>37 DEF PushReadStaged, PushUnchangedElse
<1>38. ASSUME PushFinalize PROVE LockInv'
  BY <1>38 DEF PushFinalize, PushUnchangedElse, FromRefs
<1>39. ASSUME PushFail PROVE LockInv'
  BY <1>39 DEF PushFail, PushExit, PushUnchangedElse
<1>40. ASSUME PushLock PROVE LockInv'
  BY <1>40 DEF PushLock, PushUnchangedElse
<1>41. ASSUME PushRemoveMarkers PROVE LockInv'
  BY <1>41 DEF PushRemoveMarkers, PushUnchangedElse, Unlinked
<1>42. ASSUME PushSweep PROVE LockInv'
  BY <1>42 DEF PushSweep, PushUnchangedElse
<1>43. ASSUME PushCrash PROVE LockInv'
  BY <1>43 DEF PushCrash, PushExit, PushUnchangedElse
<1>44. ASSUME GitPushed PROVE LockInv'
  BY <1>44 DEF GitPushed, PushExit, PushUnchangedElse
<1>45. ASSUME PushLocal PROVE LockInv'
  BY <1>45 DEF PushLocal, PushUnchangedElse
<1>46. ASSUME PushLockFails PROVE LockInv'
  BY <1>46 DEF PushLockFails, PushUnchangedElse
<1>47. CASE UNCHANGED vars
  BY <1>47 DEF vars
<1> QED
  BY <1>1, <1>2, <1>3, <1>4, <1>5, <1>6, <1>7, <1>8, <1>9, <1>10, <1>11,
      <1>12, <1>13, <1>14, <1>15, <1>16, <1>17, <1>18, <1>19, <1>20, <1>21,
      <1>22, <1>23, <1>24, <1>25, <1>26, <1>27, <1>28, <1>29, <1>30, <1>31,
      <1>32, <1>33, <1>34, <1>35, <1>36, <1>37, <1>38, <1>39, <1>40, <1>41,
      <1>42, <1>43, <1>44, <1>45, <1>46, <1>47 DEF GitStep, FilterStep, UserStep,
      GcStep, PushStep, Next

(* When nothing of the pushed commits is unreadable, a walk misses nothing.*)
LEMMA WalkStep ==
    ASSUME "walkFails" \notin Env, TypeOK, WalkInv, [Next]_vars
    PROVE  WalkInv'
<1> USE ConstantsAssumption DEF TypeOK, WalkInv,
      gitVars, storeVars, opVars, fltVars, gcVars, gcData, pushVars
<1>1. ASSUME NEW g \in Ops, NEW k \in Kinds, OpBegin(g, k) PROVE WalkInv'
  BY <1>1 DEF OpBegin
<1>2. ASSUME NEW g \in Ops, RecordAdd(g) PROVE WalkInv'
  BY <1>2 DEF RecordAdd, StillHeld, OpEnd, IndexWith, FilterReplied
<1>3. ASSUME NEW g \in Ops, RecordCommit(g) PROVE WalkInv'
  BY <1>3 DEF RecordCommit, StillHeld, OpEnd, IndexWith, FilterReplied
<1>4. ASSUME NEW g \in Ops, RecordCheckout(g) PROVE WalkInv'
  BY <1>4 DEF RecordCheckout, StillHeld, OpEnd, IndexWith, FilterReplied
<1>5. ASSUME NEW g \in Ops, RecordPop(g) PROVE WalkInv'
  BY <1>5 DEF RecordPop, StillHeld, OpEnd, FilterReplied
<1>6. ASSUME NEW g \in Ops, StashUnlock(g) PROVE WalkInv'
  BY <1>6 DEF StashUnlock, FilterReplied
<1>7. ASSUME NEW g \in Ops, StashRef(g) PROVE WalkInv'
  BY <1>7 DEF StashRef, StillHeld
<1>8. ASSUME NEW g \in Ops, StashReset(g) PROVE WalkInv'
  BY <1>8 DEF StashReset, StillHeld, OpEnd
<1>9. ASSUME NEW g \in Ops, OpAbort(g) PROVE WalkInv'
  BY <1>9 DEF OpAbort, OpEnd
<1>10. ASSUME NEW g \in Ops, NEW p \in Paths, NEW h \in Hashes,
              CleanLookup(g, p, h)
       PROVE WalkInv'
  BY <1>10 DEF CleanLookup, FilterServes
<1>11. ASSUME NEW g \in Ops, NEW p \in Paths, NEW h \in Hashes, SmudgeRead(g,
    p, h) PROVE WalkInv'
  BY <1>11 DEF SmudgeRead, FilterServes
<1>12. ASSUME NEW g \in Ops, CleanHit(g) PROVE WalkInv'
  BY <1>12 DEF CleanHit, Reply, FilterIdle
<1>13. ASSUME NEW g \in Ops, CleanLock(g) PROVE WalkInv'
  BY <1>13 DEF CleanLock, FilterAt
<1>14. ASSUME NEW g \in Ops, CleanWriteObjects(g) PROVE WalkInv'
  BY <1>14 DEF CleanWriteObjects, FilterAt
<1>15. ASSUME NEW g \in Ops, CleanMark(g) PROVE WalkInv'
  BY <1>15 DEF CleanMark, FilterAt
<1>16. ASSUME NEW g \in Ops, CleanReply(g) PROVE WalkInv'
  BY <1>16 DEF CleanReply, FilterAt, Reply
<1>17. ASSUME NEW g \in Ops, CleanSave(g) PROVE WalkInv'
  BY <1>17 DEF CleanSave, FilterIdle
<1>18. ASSUME NEW g \in Ops, SmudgeReply(g) PROVE WalkInv'
  BY <1>18 DEF SmudgeReply, Reply, FilterIdle
<1>19. ASSUME NEW p \in Paths, Unstage(p) PROVE WalkInv'
  BY <1>19 DEF Unstage, StillHeld
<1>20. ASSUME NEW h \in Hashes, DropCommit(h) PROVE WalkInv'
  BY <1>20 DEF DropCommit, StillHeld
<1>21. ASSUME NEW h \in Hashes, Fetch(h) PROVE WalkInv'
  BY <1>21 DEF Fetch
<1>22. ASSUME NEW h \in Hashes, FetchPrune(h) PROVE WalkInv'
  BY <1>22 DEF FetchPrune, StillHeld
<1>23. ASSUME NEW h \in Hashes, MarkerAges(h) PROVE WalkInv'
  BY <1>23 DEF MarkerAges
<1>24. ASSUME StashDrop PROVE WalkInv'
  BY <1>24 DEF StashDrop, StillHeld
<1>25. ASSUME GcTryLock PROVE WalkInv'
  BY <1>25 DEF GcTryLock, GcUnchangedData
<1>26. ASSUME GcCheck PROVE WalkInv'
  BY <1>26 DEF GcCheck, GcExit, GcUnchangedData
<1>27. ASSUME GcList PROVE WalkInv'
  BY <1>27 DEF GcList, GcExit
<1>28. ASSUME GcReadTips PROVE WalkInv'
  BY <1>28 DEF GcReadTips, Unpushed, StashTop
<1>29. ASSUME GcReadIndex PROVE WalkInv'
  BY <1>29 DEF GcReadIndex, GcDecide, GcExit, ReachableHashes, LiveTips
<1>30. ASSUME GcRemoveMarkers PROVE WalkInv'
  BY <1>30 DEF GcRemoveMarkers, GcUnchangedData, Unlinked
<1>31. ASSUME GcFindOrphans PROVE WalkInv'
  BY <1>31 DEF GcFindOrphans, ReachableHashes
<1>32. ASSUME GcForget PROVE WalkInv'
  BY <1>32 DEF GcForget, ForgetHashes, GcExit, GcUnchangedData
<1>33. ASSUME GcSweep PROVE WalkInv'
  BY <1>33 DEF GcSweep, GcExit
<1>34. ASSUME GcCrash PROVE WalkInv'
  BY <1>34 DEF GcCrash, GcExit
<1>35. ASSUME PushBegin PROVE WalkInv'
  BY <1>35 DEF PushBegin, PushUnchangedElse, Advertised
<1>36. ASSUME PushList PROVE WalkInv'
  BY <1>36 DEF PushList, Found, PushUnchangedElse
<1>37. ASSUME NEW h \in Hashes, PushReadStaged(h) PROVE WalkInv'
  BY <1>37 DEF PushReadStaged, PushUnchangedElse
<1>38. ASSUME PushFinalize PROVE WalkInv'
  BY <1>38 DEF PushFinalize, PushUnchangedElse, FromRefs
<1>39. ASSUME PushFail PROVE WalkInv'
  BY <1>39 DEF PushFail, PushExit, PushUnchangedElse
<1>40. ASSUME PushLock PROVE WalkInv'
  BY <1>40 DEF PushLock, PushUnchangedElse
<1>41. ASSUME PushRemoveMarkers PROVE WalkInv'
  BY <1>41 DEF PushRemoveMarkers, PushUnchangedElse, Unlinked
<1>42. ASSUME PushSweep PROVE WalkInv'
  BY <1>42 DEF PushSweep, PushUnchangedElse
<1>43. ASSUME PushCrash PROVE WalkInv'
  BY <1>43 DEF PushCrash, PushExit, PushUnchangedElse
<1>44. ASSUME GitPushed PROVE WalkInv'
  BY <1>44 DEF GitPushed, PushExit, PushUnchangedElse
<1>45. ASSUME PushLocal PROVE WalkInv'
  BY <1>45 DEF PushLocal, PushUnchangedElse
<1>46. ASSUME PushLockFails PROVE WalkInv'
  BY <1>46 DEF PushLockFails, PushUnchangedElse
<1>47. CASE UNCHANGED vars
  BY <1>47 DEF vars
<1> QED
  BY <1>1, <1>2, <1>3, <1>4, <1>5, <1>6, <1>7, <1>8, <1>9, <1>10, <1>11,
      <1>12, <1>13, <1>14, <1>15, <1>16, <1>17, <1>18, <1>19, <1>20, <1>21,
      <1>22, <1>23, <1>24, <1>25, <1>26, <1>27, <1>28, <1>29, <1>30, <1>31,
      <1>32, <1>33, <1>34, <1>35, <1>36, <1>37, <1>38, <1>39, <1>40, <1>41,
      <1>42, <1>43, <1>44, <1>45, <1>46, <1>47 DEF GitStep, FilterStep, UserStep,
      GcStep, PushStep, Next

(* gc reads the refs and then the index; what stayed in one of them since  *)
(* its in-flight check is found, whatever git writes in between.           *)
LEMMA HeldStep ==
    ASSUME "readFails" \notin Env, TypeOK, FilterInv, PushInv, HeldInv,
           [Next]_vars
    PROVE  HeldInv'
<1> USE ConstantsAssumption DEF TypeOK, HeldInv, GcNeverUndercounts,
      RefHashes, StashTop, HashesOf, LiveTips,
      gitVars, storeVars, opVars, fltVars, gcVars, gcData, pushVars
<1>1. ASSUME NEW g \in Ops, NEW k \in Kinds, OpBegin(g, k) PROVE HeldInv'
  BY <1>1 DEF OpBegin
<1>2. ASSUME NEW g \in Ops, RecordAdd(g) PROVE HeldInv'
  BY <1>2 DEF RecordAdd, StillHeld, OpEnd, IndexWith, FilterReplied
<1>3. ASSUME NEW g \in Ops, RecordCommit(g) PROVE HeldInv'
  BY <1>3 DEF RecordCommit, StillHeld, OpEnd, IndexWith, FilterReplied
<1>4. ASSUME NEW g \in Ops, RecordCheckout(g) PROVE HeldInv'
  BY <1>4 DEF RecordCheckout, StillHeld, OpEnd, IndexWith, FilterReplied
<1>5. ASSUME NEW g \in Ops, RecordPop(g) PROVE HeldInv'
  BY <1>5 DEF RecordPop, StillHeld, OpEnd, FilterReplied
<1>6. ASSUME NEW g \in Ops, StashUnlock(g) PROVE HeldInv'
  BY <1>6 DEF StashUnlock, FilterReplied
<1>7. ASSUME NEW g \in Ops, StashRef(g) PROVE HeldInv'
  BY <1>7 DEF StashRef, StillHeld
<1>8. ASSUME NEW g \in Ops, StashReset(g) PROVE HeldInv'
  BY <1>8 DEF StashReset, StillHeld, OpEnd
<1>9. ASSUME NEW g \in Ops, OpAbort(g) PROVE HeldInv'
  BY <1>9 DEF OpAbort, OpEnd
<1>10. ASSUME NEW g \in Ops, NEW p \in Paths, NEW h \in Hashes,
              CleanLookup(g, p, h)
       PROVE HeldInv'
  BY <1>10 DEF CleanLookup, FilterServes
<1>11. ASSUME NEW g \in Ops, NEW p \in Paths, NEW h \in Hashes, SmudgeRead(g,
    p, h) PROVE HeldInv'
  BY <1>11 DEF SmudgeRead, FilterServes
<1>12. ASSUME NEW g \in Ops, CleanHit(g) PROVE HeldInv'
  BY <1>12 DEF CleanHit, Reply, FilterIdle
<1>13. ASSUME NEW g \in Ops, CleanLock(g) PROVE HeldInv'
  BY <1>13 DEF CleanLock, FilterAt
<1>14. ASSUME NEW g \in Ops, CleanWriteObjects(g) PROVE HeldInv'
  BY <1>14 DEF CleanWriteObjects, FilterAt
<1>15. ASSUME NEW g \in Ops, CleanMark(g) PROVE HeldInv'
  BY <1>15 DEF CleanMark, FilterAt
<1>16. ASSUME NEW g \in Ops, CleanReply(g) PROVE HeldInv'
  BY <1>16 DEF CleanReply, FilterAt, Reply
<1>17. ASSUME NEW g \in Ops, CleanSave(g) PROVE HeldInv'
  BY <1>17 DEF CleanSave, FilterIdle
<1>18. ASSUME NEW g \in Ops, SmudgeReply(g) PROVE HeldInv'
  BY <1>18 DEF SmudgeReply, Reply, FilterIdle
<1>19. ASSUME NEW p \in Paths, Unstage(p) PROVE HeldInv'
  BY <1>19 DEF Unstage, StillHeld
<1>20. ASSUME NEW h \in Hashes, DropCommit(h) PROVE HeldInv'
  BY <1>20 DEF DropCommit, StillHeld
<1>21. ASSUME NEW h \in Hashes, Fetch(h) PROVE HeldInv'
  BY <1>21 DEF Fetch
<1>22. ASSUME NEW h \in Hashes, FetchPrune(h) PROVE HeldInv'
  BY <1>22 DEF FetchPrune, StillHeld
<1>23. ASSUME NEW h \in Hashes, MarkerAges(h) PROVE HeldInv'
  BY <1>23 DEF MarkerAges
<1>24. ASSUME StashDrop PROVE HeldInv'
  BY <1>24 DEF StashDrop, StillHeld
<1>25. ASSUME GcTryLock PROVE HeldInv'
  BY <1>25 DEF GcTryLock, GcUnchangedData
<1>26. ASSUME GcCheck PROVE HeldInv'
  BY <1>26 DEF GcCheck, GcExit, GcUnchangedData
<1>27. ASSUME GcList PROVE HeldInv'
  BY <1>27 DEF GcList, GcExit
<1>28. ASSUME GcReadTips PROVE HeldInv'
  <2>1. PICK tips \in IF LocalMode THEN {local} ELSE Unpushed :
          gcTips' = tips \cup StashTop
    BY <1>28 DEF GcReadTips
  <2>2. local \subseteq tips \cup remote /\ (LocalMode => local \subseteq tips)
    BY <2>1 DEF Unpushed
  <2>3. /\ gcRemote' = remote /\ gcPc' = "index"
        /\ UNCHANGED <<gitVars, storeVars, heldIndex, heldRefs, unread>>
    BY <1>28 DEF GcReadTips
  <2>4. RefHashes \subseteq LiveTips' \cup server \cup unread
    BY <2>1, <2>2, <2>3 DEF PushInv
  <2> QED
    BY <2>3, <2>4
<1>29. ASSUME GcReadIndex PROVE HeldInv'
  BY <1>29 DEF GcReadIndex, GcDecide, GcExit, ReachableHashes
<1>30. ASSUME GcRemoveMarkers PROVE HeldInv'
  BY <1>30 DEF GcRemoveMarkers, GcUnchangedData, Unlinked
<1>31. ASSUME GcFindOrphans PROVE HeldInv'
  BY <1>31 DEF GcFindOrphans, ReachableHashes
<1>32. ASSUME GcForget PROVE HeldInv'
  BY <1>32 DEF GcForget, ForgetHashes, GcExit, GcUnchangedData
<1>33. ASSUME GcSweep PROVE HeldInv'
  BY <1>33 DEF GcSweep, GcExit
<1>34. ASSUME GcCrash PROVE HeldInv'
  BY <1>34 DEF GcCrash, GcExit
<1>35. ASSUME PushBegin PROVE HeldInv'
  BY <1>35 DEF PushBegin, PushUnchangedElse, Advertised
<1>36. ASSUME PushList PROVE HeldInv'
  BY <1>36 DEF PushList, Found, PushUnchangedElse
<1>37. ASSUME NEW h \in Hashes, PushReadStaged(h) PROVE HeldInv'
  BY <1>37 DEF PushReadStaged, PushUnchangedElse
<1>38. ASSUME PushFinalize PROVE HeldInv'
  BY <1>38 DEF PushFinalize, PushUnchangedElse, FromRefs
<1>39. ASSUME PushFail PROVE HeldInv'
  BY <1>39 DEF PushFail, PushExit, PushUnchangedElse
<1>40. ASSUME PushLock PROVE HeldInv'
  BY <1>40 DEF PushLock, PushUnchangedElse
<1>41. ASSUME PushRemoveMarkers PROVE HeldInv'
  BY <1>41 DEF PushRemoveMarkers, PushUnchangedElse, Unlinked
<1>42. ASSUME PushSweep PROVE HeldInv'
  BY <1>42 DEF PushSweep, PushUnchangedElse
<1>43. ASSUME PushCrash PROVE HeldInv'
  BY <1>43 DEF PushCrash, PushExit, PushUnchangedElse
<1>44. ASSUME GitPushed PROVE HeldInv'
  BY <1>44 DEF GitPushed, PushExit, PushUnchangedElse
<1>45. ASSUME PushLocal PROVE HeldInv'
  BY <1>45 DEF PushLocal, PushUnchangedElse
<1>46. ASSUME PushLockFails PROVE HeldInv'
  BY <1>46 DEF PushLockFails, PushUnchangedElse
<1>47. CASE UNCHANGED vars
  BY <1>47 DEF vars
<1> QED
  BY <1>1, <1>2, <1>3, <1>4, <1>5, <1>6, <1>7, <1>8, <1>9, <1>10, <1>11,
      <1>12, <1>13, <1>14, <1>15, <1>16, <1>17, <1>18, <1>19, <1>20, <1>21,
      <1>22, <1>23, <1>24, <1>25, <1>26, <1>27, <1>28, <1>29, <1>30, <1>31,
      <1>32, <1>33, <1>34, <1>35, <1>36, <1>37, <1>38, <1>39, <1>40, <1>41,
      <1>42, <1>43, <1>44, <1>45, <1>46, <1>47 DEF GitStep, FilterStep, UserStep,
      GcStep, PushStep, Next

(* Objects are removed only when no marker is left and none can appear.    *)
LEMMA SweepStep ==
    ASSUME "listFails" \notin Env, TypeOK, FilterInv, PushInv, LockInv,
        SweepInv, [Next]_vars
    PROVE  SweepInv'
<1> USE ConstantsAssumption DEF TypeOK, FilterInv, LockInv, SweepInv,
      gitVars, storeVars, opVars, fltVars, gcVars, gcData, pushVars
<1>1. ASSUME NEW g \in Ops, NEW k \in Kinds, OpBegin(g, k) PROVE SweepInv'
  BY <1>1 DEF OpBegin
<1>2. ASSUME NEW g \in Ops, RecordAdd(g) PROVE SweepInv'
  BY <1>2 DEF RecordAdd, StillHeld, OpEnd, IndexWith, FilterReplied
<1>3. ASSUME NEW g \in Ops, RecordCommit(g) PROVE SweepInv'
  BY <1>3 DEF RecordCommit, StillHeld, OpEnd, IndexWith, FilterReplied
<1>4. ASSUME NEW g \in Ops, RecordCheckout(g) PROVE SweepInv'
  BY <1>4 DEF RecordCheckout, StillHeld, OpEnd, IndexWith, FilterReplied
<1>5. ASSUME NEW g \in Ops, RecordPop(g) PROVE SweepInv'
  BY <1>5 DEF RecordPop, StillHeld, OpEnd, FilterReplied
<1>6. ASSUME NEW g \in Ops, StashUnlock(g) PROVE SweepInv'
  BY <1>6 DEF StashUnlock, FilterReplied
<1>7. ASSUME NEW g \in Ops, StashRef(g) PROVE SweepInv'
  BY <1>7 DEF StashRef, StillHeld
<1>8. ASSUME NEW g \in Ops, StashReset(g) PROVE SweepInv'
  BY <1>8 DEF StashReset, StillHeld, OpEnd
<1>9. ASSUME NEW g \in Ops, OpAbort(g) PROVE SweepInv'
  BY <1>9 DEF OpAbort, OpEnd
<1>10. ASSUME NEW g \in Ops, NEW p \in Paths, NEW h \in Hashes,
              CleanLookup(g, p, h)
       PROVE SweepInv'
  BY <1>10 DEF CleanLookup, FilterServes
<1>11. ASSUME NEW g \in Ops, NEW p \in Paths, NEW h \in Hashes, SmudgeRead(g,
    p, h) PROVE SweepInv'
  BY <1>11 DEF SmudgeRead, FilterServes
<1>12. ASSUME NEW g \in Ops, CleanHit(g) PROVE SweepInv'
  BY <1>12 DEF CleanHit, Reply, FilterIdle
<1>13. ASSUME NEW g \in Ops, CleanLock(g) PROVE SweepInv'
  BY <1>13 DEF CleanLock, FilterAt
<1>14. ASSUME NEW g \in Ops, CleanWriteObjects(g) PROVE SweepInv'
  BY <1>14 DEF CleanWriteObjects, FilterAt
<1>15. ASSUME NEW g \in Ops, CleanMark(g) PROVE SweepInv'
  BY <1>15 DEF CleanMark, FilterAt
<1>16. ASSUME NEW g \in Ops, CleanReply(g) PROVE SweepInv'
  BY <1>16 DEF CleanReply, FilterAt, Reply
<1>17. ASSUME NEW g \in Ops, CleanSave(g) PROVE SweepInv'
  BY <1>17 DEF CleanSave, FilterIdle
<1>18. ASSUME NEW g \in Ops, SmudgeReply(g) PROVE SweepInv'
  BY <1>18 DEF SmudgeReply, Reply, FilterIdle
<1>19. ASSUME NEW p \in Paths, Unstage(p) PROVE SweepInv'
  BY <1>19 DEF Unstage, StillHeld
<1>20. ASSUME NEW h \in Hashes, DropCommit(h) PROVE SweepInv'
  BY <1>20 DEF DropCommit, StillHeld
<1>21. ASSUME NEW h \in Hashes, Fetch(h) PROVE SweepInv'
  BY <1>21 DEF Fetch
<1>22. ASSUME NEW h \in Hashes, FetchPrune(h) PROVE SweepInv'
  BY <1>22 DEF FetchPrune, StillHeld
<1>23. ASSUME NEW h \in Hashes, MarkerAges(h) PROVE SweepInv'
  BY <1>23 DEF MarkerAges
<1>24. ASSUME StashDrop PROVE SweepInv'
  BY <1>24 DEF StashDrop, StillHeld
<1>25. ASSUME GcTryLock PROVE SweepInv'
  BY <1>25 DEF GcTryLock, GcUnchangedData
<1>26. ASSUME GcCheck PROVE SweepInv'
  BY <1>26 DEF GcCheck, GcExit, GcUnchangedData
<1>27. ASSUME GcList PROVE SweepInv'
  BY <1>27 DEF GcList, GcExit
<1>28. ASSUME GcReadTips PROVE SweepInv'
  BY <1>28 DEF GcReadTips, Unpushed, StashTop
<1>29. ASSUME GcReadIndex PROVE SweepInv'
  BY <1>29 DEF GcReadIndex, GcDecide, GcExit, ReachableHashes, LiveTips
<1>30. ASSUME GcRemoveMarkers PROVE SweepInv'
  BY <1>30 DEF GcRemoveMarkers, GcUnchangedData, Unlinked
<1>31. ASSUME GcFindOrphans PROVE SweepInv'
  BY <1>31 DEF GcFindOrphans, ReachableHashes
<1>32. ASSUME GcForget PROVE SweepInv'
  BY <1>32 DEF GcForget, ForgetHashes, GcExit, GcUnchangedData
<1>33. ASSUME GcSweep PROVE SweepInv'
  BY <1>33 DEF GcSweep, GcExit
<1>34. ASSUME GcCrash PROVE SweepInv'
  BY <1>34 DEF GcCrash, GcExit
<1>35. ASSUME PushBegin PROVE SweepInv'
  BY <1>35 DEF PushBegin, PushUnchangedElse, Advertised
<1>36. ASSUME PushList PROVE SweepInv'
  BY <1>36 DEF PushList, Found, PushUnchangedElse
<1>37. ASSUME NEW h \in Hashes, PushReadStaged(h) PROVE SweepInv'
  BY <1>37 DEF PushReadStaged, PushUnchangedElse
<1>38. ASSUME PushFinalize PROVE SweepInv'
  BY <1>38 DEF PushFinalize, PushUnchangedElse, FromRefs
<1>39. ASSUME PushFail PROVE SweepInv'
  BY <1>39 DEF PushFail, PushExit, PushUnchangedElse
<1>40. ASSUME PushLock PROVE SweepInv'
  BY <1>40 DEF PushLock, PushUnchangedElse
<1>41. ASSUME PushRemoveMarkers PROVE SweepInv'
  BY <1>41 DEF PushRemoveMarkers, PushUnchangedElse, Unlinked
<1>42. ASSUME PushSweep PROVE SweepInv'
  BY <1>42 DEF PushSweep, PushUnchangedElse
<1>43. ASSUME PushCrash PROVE SweepInv'
  BY <1>43 DEF PushCrash, PushExit, PushUnchangedElse
<1>44. ASSUME GitPushed PROVE SweepInv'
  BY <1>44 DEF GitPushed, PushExit, PushUnchangedElse
<1>45. ASSUME PushLocal PROVE SweepInv'
  BY <1>45 DEF PushLocal, PushUnchangedElse
<1>46. ASSUME PushLockFails PROVE SweepInv'
  BY <1>46 DEF PushLockFails, PushUnchangedElse
<1>47. CASE UNCHANGED vars
  BY <1>47 DEF vars
<1> QED
  BY <1>1, <1>2, <1>3, <1>4, <1>5, <1>6, <1>7, <1>8, <1>9, <1>10, <1>11,
      <1>12, <1>13, <1>14, <1>15, <1>16, <1>17, <1>18, <1>19, <1>20, <1>21,
      <1>22, <1>23, <1>24, <1>25, <1>26, <1>27, <1>28, <1>29, <1>30, <1>31,
      <1>32, <1>33, <1>34, <1>35, <1>36, <1>37, <1>38, <1>39, <1>40, <1>41,
      <1>42, <1>43, <1>44, <1>45, <1>46, <1>47 DEF GitStep, FilterStep, UserStep,
      GcStep, PushStep, Next

(* The pointers a command holds stay kept until it records them.           *)
LEMMA OpStepInv ==
    ASSUME Quiet, RepoInv, [Next]_vars
    PROVE  OpInv'
<1> USE ConstantsAssumption DEF Quiet, RepoInv, TypeOK, FilterInv, PushInv, WalkInv,
      LockInv, SweepInv, Kept, KeptTable, KeptSet,
      OpInv, GcPastCheck, GitOpInFlight, NoPend,
      gitVars, storeVars, opVars, fltVars, gcVars, gcData, pushVars
<1>1. ASSUME NEW g \in Ops, NEW k \in Kinds, OpBegin(g, k) PROVE OpInv'
  BY <1>1 DEF OpBegin, Recording, GitMayWrite, Kinds, AllKinds
<1>2. ASSUME NEW g \in Ops, RecordAdd(g) PROVE OpInv'
  BY <1>2 DEF RecordAdd, StillHeld, OpEnd, IndexWith, FilterReplied
<1>3. ASSUME NEW g \in Ops, RecordCommit(g) PROVE OpInv'
  BY <1>3 DEF RecordCommit, StillHeld, OpEnd, IndexWith, FilterReplied
<1>4. ASSUME NEW g \in Ops, RecordCheckout(g) PROVE OpInv'
  BY <1>4 DEF RecordCheckout, StillHeld, OpEnd, IndexWith, FilterReplied
<1>5. ASSUME NEW g \in Ops, RecordPop(g) PROVE OpInv'
  BY <1>5 DEF RecordPop, StillHeld, OpEnd, FilterReplied
<1>6. ASSUME NEW g \in Ops, StashUnlock(g) PROVE OpInv'
  BY <1>6 DEF StashUnlock, FilterReplied
<1>7. ASSUME NEW g \in Ops, StashRef(g) PROVE OpInv'
  BY <1>7 DEF StashRef, StillHeld
<1>8. ASSUME NEW g \in Ops, StashReset(g) PROVE OpInv'
  BY <1>8 DEF StashReset, StillHeld, OpEnd
<1>9. ASSUME NEW g \in Ops, OpAbort(g) PROVE OpInv'
  BY <1>9 DEF OpAbort, OpEnd
<1>10. ASSUME NEW g \in Ops, NEW p \in Paths, NEW h \in Hashes,
              CleanLookup(g, p, h)
       PROVE OpInv'
  BY <1>10 DEF CleanLookup, FilterServes, CacheInv, Cleaning
<1>11. ASSUME NEW g \in Ops, NEW p \in Paths, NEW h \in Hashes, SmudgeRead(g,
    p, h) PROVE OpInv'
  <2>1. Kept(h)
    <3>1. opKind[g] = "checkout" => h \in local \cup remote
      BY <1>11 DEF SmudgeRead, SmudgeSource
    <3>2. opKind[g] = "pop" => stash # <<>> /\ h \in stash[1]
      BY <1>11 DEF SmudgeRead, SmudgeSource, StashTop
    <3>3. opKind[g] = "recover" => h \in reflog
      BY <1>11 DEF SmudgeRead, SmudgeSource
    <3>4. stash # <<>> => 1 \in 1..Len(stash)
      OBVIOUS
    <3> QED
      BY <1>11, <3>1, <3>2, <3>3, <3>4 DEF SmudgeRead, Smudging, RefInv
  <2>2. /\ fPc' = [fPc EXCEPT ![g] = "smudged"]
        /\ fHash' = [fHash EXCEPT ![g] = h]
        /\ UNCHANGED <<gitVars, storeVars, lock, opVars, gcVars, pushVars>>
    BY <1>11 DEF SmudgeRead, FilterServes
  <2>3. opKind[g] # "stash"
    BY <1>11 DEF SmudgeRead, Smudging
  <2> QED
    BY <2>1, <2>2, <2>3
<1>12. ASSUME NEW g \in Ops, CleanHit(g) PROVE OpInv'
  BY <1>12 DEF CleanHit, Reply, FilterIdle
<1>13. ASSUME NEW g \in Ops, CleanLock(g) PROVE OpInv'
  BY <1>13 DEF CleanLock, FilterAt
<1>14. ASSUME NEW g \in Ops, CleanWriteObjects(g) PROVE OpInv'
  BY <1>14 DEF CleanWriteObjects, FilterAt
<1>15. ASSUME NEW g \in Ops, CleanMark(g) PROVE OpInv'
  BY <1>15 DEF CleanMark, FilterAt
<1>16. ASSUME NEW g \in Ops, CleanReply(g) PROVE OpInv'
  BY <1>16 DEF CleanReply, FilterAt, Reply
<1>17. ASSUME NEW g \in Ops, CleanSave(g) PROVE OpInv'
  BY <1>17 DEF CleanSave, FilterIdle
<1>18. ASSUME NEW g \in Ops, SmudgeReply(g) PROVE OpInv'
  <2>1. opKind[g] # "stash" /\ opKind[g] # "status" /\ Kept(fHash[g]) /\
      fHash[g] \in Hashes
    BY <1>18 DEF SmudgeReply, Smudging
  <2>2. /\ pend' = [pend EXCEPT ![g][fPath[g]] = fHash[g]]
        /\ fPc' = [fPc EXCEPT ![g] = "idle"]
        /\ fHash' = [fHash EXCEPT ![g] = None]
        /\ UNCHANGED <<gitVars, objects, markers, old, server, lock, opKind,
            opPc, gcVars, pushVars>>
    BY <1>18 DEF SmudgeReply, Reply, FilterIdle
  <2>3. KeptTable(pend[g])'
    BY <2>1, <2>2
  <2> QED
    BY <2>1, <2>2, <2>3
<1>19. ASSUME NEW p \in Paths, Unstage(p) PROVE OpInv'
  BY <1>19 DEF Unstage, StillHeld
<1>20. ASSUME NEW h \in Hashes, DropCommit(h) PROVE OpInv'
  BY <1>20 DEF DropCommit, StillHeld
<1>21. ASSUME NEW h \in Hashes, Fetch(h) PROVE OpInv'
  BY <1>21 DEF Fetch
<1>22. ASSUME NEW h \in Hashes, FetchPrune(h) PROVE OpInv'
  BY <1>22 DEF FetchPrune, StillHeld
<1>23. ASSUME NEW h \in Hashes, MarkerAges(h) PROVE OpInv'
  BY <1>23 DEF MarkerAges, HashesOf
<1>24. ASSUME StashDrop PROVE OpInv'
  BY <1>24 DEF StashDrop, StillHeld
<1>25. ASSUME GcTryLock PROVE OpInv'
  BY <1>25 DEF GcTryLock, GcUnchangedData
<1>26. ASSUME GcCheck PROVE OpInv'
  BY <1>26 DEF GcCheck, GcExit, GcUnchangedData
<1>27. ASSUME GcList PROVE OpInv'
  BY <1>27 DEF GcList, GcExit
<1>28. ASSUME GcReadTips PROVE OpInv'
  BY <1>28 DEF GcReadTips, Unpushed, StashTop
<1>29. ASSUME GcReadIndex PROVE OpInv'
  BY <1>29 DEF GcReadIndex, GcDecide, GcExit, ReachableHashes, LiveTips
<1>30. ASSUME GcRemoveMarkers PROVE OpInv'
  BY <1>30 DEF GcRemoveMarkers, GcUnchangedData, Unlinked, GcInv
<1>31. ASSUME GcFindOrphans PROVE OpInv'
  BY <1>31 DEF GcFindOrphans, ReachableHashes
<1>32. ASSUME GcForget PROVE OpInv'
  BY <1>32 DEF GcForget, ForgetHashes, GcExit, GcUnchangedData
<1>33. ASSUME GcSweep PROVE OpInv'
  BY <1>33 DEF GcSweep, GcExit
<1>34. ASSUME GcCrash PROVE OpInv'
  BY <1>34 DEF GcCrash, GcExit
<1>35. ASSUME PushBegin PROVE OpInv'
  BY <1>35 DEF PushBegin, PushUnchangedElse, Advertised
<1>36. ASSUME PushList PROVE OpInv'
  BY <1>36 DEF PushList, Found, PushUnchangedElse
<1>37. ASSUME NEW h \in Hashes, PushReadStaged(h) PROVE OpInv'
  BY <1>37 DEF PushReadStaged, PushUnchangedElse
<1>38. ASSUME PushFinalize PROVE OpInv'
  BY <1>38 DEF PushFinalize, PushUnchangedElse, FromRefs
<1>39. ASSUME PushFail PROVE OpInv'
  BY <1>39 DEF PushFail, PushExit, PushUnchangedElse
<1>40. ASSUME PushLock PROVE OpInv'
  BY <1>40 DEF PushLock, PushUnchangedElse
<1>41. ASSUME PushRemoveMarkers PROVE OpInv'
  BY <1>41 DEF PushRemoveMarkers, PushUnchangedElse, Unlinked
<1>42. ASSUME PushSweep PROVE OpInv'
  BY <1>42 DEF PushSweep, PushUnchangedElse
<1>43. ASSUME PushCrash PROVE OpInv'
  BY <1>43 DEF PushCrash, PushExit, PushUnchangedElse
<1>44. ASSUME GitPushed PROVE OpInv'
  BY <1>44 DEF GitPushed, PushExit, PushUnchangedElse
<1>45. ASSUME PushLocal PROVE OpInv'
  BY <1>45 DEF PushLocal, PushUnchangedElse
<1>46. ASSUME PushLockFails PROVE OpInv'
  BY <1>46 DEF PushLockFails, PushUnchangedElse
<1>47. CASE UNCHANGED vars
  BY <1>47 DEF vars
<1> QED
  BY <1>1, <1>2, <1>3, <1>4, <1>5, <1>6, <1>7, <1>8, <1>9, <1>10, <1>11,
      <1>12, <1>13, <1>14, <1>15, <1>16, <1>17, <1>18, <1>19, <1>20, <1>21,
      <1>22, <1>23, <1>24, <1>25, <1>26, <1>27, <1>28, <1>29, <1>30, <1>31,
      <1>32, <1>33, <1>34, <1>35, <1>36, <1>37, <1>38, <1>39, <1>40, <1>41,
      <1>42, <1>43, <1>44, <1>45, <1>46, <1>47 DEF GitStep, FilterStep, UserStep,
      GcStep, PushStep, Next

(* The pointers that the index, the refs and the stash name stay kept.     *)
LEMMA RefStep ==
    ASSUME Quiet, RepoInv, [Next]_vars
    PROVE  RefInv'
<1> USE ConstantsAssumption DEF Quiet, RepoInv, TypeOK, FilterInv, PushInv, WalkInv,
      LockInv, SweepInv, Kept, KeptTable, KeptSet,
      OpInv, RefInv, NoPend,
      gitVars, storeVars, opVars, fltVars, gcVars, gcData, pushVars
<1>1. ASSUME NEW g \in Ops, NEW k \in Kinds, OpBegin(g, k) PROVE RefInv'
  BY <1>1 DEF OpBegin
<1>2. ASSUME NEW g \in Ops, RecordAdd(g) PROVE RefInv'
  BY <1>2 DEF RecordAdd, StillHeld, OpEnd, IndexWith, FilterReplied
<1>3. ASSUME NEW g \in Ops, RecordCommit(g) PROVE RefInv'
  <2>1. KeptTable(pend[g])
    BY <1>3 DEF RecordCommit
  <2>2. /\ index' = IndexWith(g)
        /\ local' = local \cup HashesOf(IndexWith(g))
        /\ UNCHANGED <<remote, stash, reflog, storeVars>>
    BY <1>3 DEF RecordCommit
  <2>3. KeptTable(IndexWith(g))
    BY <2>1 DEF IndexWith
  <2>4. KeptSet(HashesOf(IndexWith(g)))
    BY <2>3 DEF HashesOf, IndexWith
  <2> QED
    BY <2>2, <2>3, <2>4
<1>4. ASSUME NEW g \in Ops, RecordCheckout(g) PROVE RefInv'
  <2>1. KeptTable(pend[g])
    BY <1>4 DEF RecordCheckout, StillHeld
  <2>2. /\ index' = IndexWith(g)
        /\ local' = local \cup HashesOf(pend[g])
        /\ UNCHANGED <<remote, stash, reflog, storeVars>>
    BY <1>4 DEF RecordCheckout, StillHeld
  <2>3. KeptTable(index)' /\ KeptSet(local)'
    BY <2>1, <2>2 DEF IndexWith, HashesOf
  <2> QED
    BY <2>2, <2>3
<1>5. ASSUME NEW g \in Ops, RecordPop(g) PROVE RefInv'
  BY <1>5 DEF RecordPop, StillHeld, OpEnd, FilterReplied
<1>6. ASSUME NEW g \in Ops, StashUnlock(g) PROVE RefInv'
  BY <1>6 DEF StashUnlock, FilterReplied
<1>7. ASSUME NEW g \in Ops, StashRef(g) PROVE RefInv'
  <2>1. KeptTable(pend[g])
    BY <1>7 DEF StashRef, StillHeld
  <2> DEFINE top == HashesOf(index) \cup HashesOf(pend[g])
  <2>2. KeptSet(top)
    BY <2>1 DEF HashesOf
  <2>3. stash = <<>>
    BY <1>7 DEF StashRef, StillHeld
  <2>4. stash' = <<top>> /\ UNCHANGED <<index, local, remote, reflog,
      storeVars>>
    BY <1>7, <2>3 DEF StashRef, StillHeld
  <2>5. Len(stash') = 1 /\ stash'[1] = top
    BY <2>4
  <2>6. \A h \in stash'[1] : Kept(h)'
    <3> HIDE DEF top
    <3> QED  BY <2>2, <2>4, <2>5
  <2>7. (\A i \in 1..Len(stash) : KeptSet(stash[i]))'
    BY <2>5, <2>6
  <2>8. UNCHANGED <<index, local, remote, reflog, server, markers, objects>>
    BY <2>4
  <2> QED
    BY <2>5, <2>7, <2>8
<1>8. ASSUME NEW g \in Ops, StashReset(g) PROVE RefInv'
  BY <1>8 DEF StashReset, StillHeld, OpEnd
<1>9. ASSUME NEW g \in Ops, OpAbort(g) PROVE RefInv'
  BY <1>9 DEF OpAbort, OpEnd
<1>10. ASSUME NEW g \in Ops, NEW p \in Paths, NEW h \in Hashes,
              CleanLookup(g, p, h)
       PROVE RefInv'
  BY <1>10 DEF CleanLookup, FilterServes
<1>11. ASSUME NEW g \in Ops, NEW p \in Paths, NEW h \in Hashes, SmudgeRead(g,
    p, h) PROVE RefInv'
  BY <1>11 DEF SmudgeRead, FilterServes
<1>12. ASSUME NEW g \in Ops, CleanHit(g) PROVE RefInv'
  BY <1>12 DEF CleanHit, Reply, FilterIdle
<1>13. ASSUME NEW g \in Ops, CleanLock(g) PROVE RefInv'
  BY <1>13 DEF CleanLock, FilterAt
<1>14. ASSUME NEW g \in Ops, CleanWriteObjects(g) PROVE RefInv'
  BY <1>14 DEF CleanWriteObjects, FilterAt
<1>15. ASSUME NEW g \in Ops, CleanMark(g) PROVE RefInv'
  BY <1>15 DEF CleanMark, FilterAt
<1>16. ASSUME NEW g \in Ops, CleanReply(g) PROVE RefInv'
  BY <1>16 DEF CleanReply, FilterAt, Reply
<1>17. ASSUME NEW g \in Ops, CleanSave(g) PROVE RefInv'
  BY <1>17 DEF CleanSave, FilterIdle
<1>18. ASSUME NEW g \in Ops, SmudgeReply(g) PROVE RefInv'
  BY <1>18 DEF SmudgeReply, Reply, FilterIdle
<1>19. ASSUME NEW p \in Paths, Unstage(p) PROVE RefInv'
  BY <1>19 DEF Unstage, StillHeld
<1>20. ASSUME NEW h \in Hashes, DropCommit(h) PROVE RefInv'
  BY <1>20 DEF DropCommit, StillHeld
<1>21. ASSUME NEW h \in Hashes, Fetch(h) PROVE RefInv'
  BY <1>21 DEF Fetch
<1>22. ASSUME NEW h \in Hashes, FetchPrune(h) PROVE RefInv'
  BY <1>22 DEF FetchPrune, StillHeld
<1>23. ASSUME NEW h \in Hashes, MarkerAges(h) PROVE RefInv'
  BY <1>23 DEF MarkerAges
<1>24. ASSUME StashDrop PROVE RefInv'
  BY <1>24 DEF StashDrop, StillHeld
<1>25. ASSUME GcTryLock PROVE RefInv'
  BY <1>25 DEF GcTryLock, GcUnchangedData
<1>26. ASSUME GcCheck PROVE RefInv'
  BY <1>26 DEF GcCheck, GcExit, GcUnchangedData
<1>27. ASSUME GcList PROVE RefInv'
  BY <1>27 DEF GcList, GcExit
<1>28. ASSUME GcReadTips PROVE RefInv'
  BY <1>28 DEF GcReadTips, Unpushed, StashTop
<1>29. ASSUME GcReadIndex PROVE RefInv'
  BY <1>29 DEF GcReadIndex, GcDecide, GcExit, ReachableHashes, LiveTips
<1>30. ASSUME GcRemoveMarkers PROVE RefInv'
  BY <1>30 DEF GcRemoveMarkers, GcUnchangedData, Unlinked, GcInv, Unreferenced
<1>31. ASSUME GcFindOrphans PROVE RefInv'
  BY <1>31 DEF GcFindOrphans, ReachableHashes
<1>32. ASSUME GcForget PROVE RefInv'
  BY <1>32 DEF GcForget, ForgetHashes, GcExit, GcUnchangedData
<1>33. ASSUME GcSweep PROVE RefInv'
  BY <1>33 DEF GcSweep, GcExit
<1>34. ASSUME GcCrash PROVE RefInv'
  BY <1>34 DEF GcCrash, GcExit
<1>35. ASSUME PushBegin PROVE RefInv'
  BY <1>35 DEF PushBegin, PushUnchangedElse, Advertised
<1>36. ASSUME PushList PROVE RefInv'
  BY <1>36 DEF PushList, Found, PushUnchangedElse
<1>37. ASSUME NEW h \in Hashes, PushReadStaged(h) PROVE RefInv'
  BY <1>37 DEF PushReadStaged, PushUnchangedElse
<1>38. ASSUME PushFinalize PROVE RefInv'
  BY <1>38 DEF PushFinalize, PushUnchangedElse, FromRefs
<1>39. ASSUME PushFail PROVE RefInv'
  BY <1>39 DEF PushFail, PushExit, PushUnchangedElse
<1>40. ASSUME PushLock PROVE RefInv'
  BY <1>40 DEF PushLock, PushUnchangedElse
<1>41. ASSUME PushRemoveMarkers PROVE RefInv'
  BY <1>41 DEF PushRemoveMarkers, PushUnchangedElse, Unlinked
<1>42. ASSUME PushSweep PROVE RefInv'
  BY <1>42 DEF PushSweep, PushUnchangedElse
<1>43. ASSUME PushCrash PROVE RefInv'
  BY <1>43 DEF PushCrash, PushExit, PushUnchangedElse
<1>44. ASSUME GitPushed PROVE RefInv'
  BY <1>44 DEF GitPushed, PushExit, PushUnchangedElse
<1>45. ASSUME PushLocal PROVE RefInv'
  BY <1>45 DEF PushLocal, PushUnchangedElse
<1>46. ASSUME PushLockFails PROVE RefInv'
  BY <1>46 DEF PushLockFails, PushUnchangedElse
<1>47. CASE UNCHANGED vars
  BY <1>47 DEF vars
<1> QED
  BY <1>1, <1>2, <1>3, <1>4, <1>5, <1>6, <1>7, <1>8, <1>9, <1>10, <1>11,
      <1>12, <1>13, <1>14, <1>15, <1>16, <1>17, <1>18, <1>19, <1>20, <1>21,
      <1>22, <1>23, <1>24, <1>25, <1>26, <1>27, <1>28, <1>29, <1>30, <1>31,
      <1>32, <1>33, <1>34, <1>35, <1>36, <1>37, <1>38, <1>39, <1>40, <1>41,
      <1>42, <1>43, <1>44, <1>45, <1>46, <1>47 DEF GitStep, FilterStep, UserStep,
      GcStep, PushStep, Next

(* The clean-cache names only kept pointers, but for those gc will forget. *)
LEMMA CacheStep ==
    ASSUME Quiet, RepoInv, [Next]_vars
    PROVE  CacheInv'
<1> USE ConstantsAssumption DEF Quiet, RepoInv, TypeOK, FilterInv, PushInv, WalkInv,
      LockInv, SweepInv, Kept, KeptTable, KeptSet,
      OpInv, CacheInv, GcPastCheck, GitOpInFlight,
      gitVars, storeVars, opVars, fltVars, gcVars, gcData, pushVars
<1>1. ASSUME NEW g \in Ops, NEW k \in Kinds, OpBegin(g, k) PROVE CacheInv'
  BY <1>1 DEF OpBegin
<1>2. ASSUME NEW g \in Ops, RecordAdd(g) PROVE CacheInv'
  BY <1>2 DEF RecordAdd, StillHeld, OpEnd, IndexWith, FilterReplied
<1>3. ASSUME NEW g \in Ops, RecordCommit(g) PROVE CacheInv'
  BY <1>3 DEF RecordCommit, StillHeld, OpEnd, IndexWith, FilterReplied
<1>4. ASSUME NEW g \in Ops, RecordCheckout(g) PROVE CacheInv'
  BY <1>4 DEF RecordCheckout, StillHeld, OpEnd, IndexWith, FilterReplied
<1>5. ASSUME NEW g \in Ops, RecordPop(g) PROVE CacheInv'
  BY <1>5 DEF RecordPop, StillHeld, OpEnd, FilterReplied
<1>6. ASSUME NEW g \in Ops, StashUnlock(g) PROVE CacheInv'
  BY <1>6 DEF StashUnlock, FilterReplied
<1>7. ASSUME NEW g \in Ops, StashRef(g) PROVE CacheInv'
  BY <1>7 DEF StashRef, StillHeld
<1>8. ASSUME NEW g \in Ops, StashReset(g) PROVE CacheInv'
  BY <1>8 DEF StashReset, StillHeld, OpEnd
<1>9. ASSUME NEW g \in Ops, OpAbort(g) PROVE CacheInv'
  BY <1>9 DEF OpAbort, OpEnd
<1>10. ASSUME NEW g \in Ops, NEW p \in Paths, NEW h \in Hashes,
              CleanLookup(g, p, h)
       PROVE CacheInv'
  BY <1>10 DEF CleanLookup, FilterServes
<1>11. ASSUME NEW g \in Ops, NEW p \in Paths, NEW h \in Hashes, SmudgeRead(g,
    p, h) PROVE CacheInv'
  BY <1>11 DEF SmudgeRead, FilterServes
<1>12. ASSUME NEW g \in Ops, CleanHit(g) PROVE CacheInv'
  BY <1>12 DEF CleanHit, Reply, FilterIdle
<1>13. ASSUME NEW g \in Ops, CleanLock(g) PROVE CacheInv'
  BY <1>13 DEF CleanLock, FilterAt
<1>14. ASSUME NEW g \in Ops, CleanWriteObjects(g) PROVE CacheInv'
  BY <1>14 DEF CleanWriteObjects, FilterAt
<1>15. ASSUME NEW g \in Ops, CleanMark(g) PROVE CacheInv'
  BY <1>15 DEF CleanMark, FilterAt
<1>16. ASSUME NEW g \in Ops, CleanReply(g) PROVE CacheInv'
  BY <1>16 DEF CleanReply, FilterAt, Reply
<1>17. ASSUME NEW g \in Ops, CleanSave(g) PROVE CacheInv'
  <2>1. /\ cache' = [cache EXCEPT ![fPath[g]] = fHash[g]] \/ UNCHANGED cache
        /\ UNCHANGED <<objects, markers, server, gcVars>>
    BY <1>17 DEF CleanSave
  <2>2. fHash[g] \in markers /\ fHash[g] \in objects
    BY <1>17 DEF CleanSave
  <2> QED
    BY <2>1, <2>2
<1>18. ASSUME NEW g \in Ops, SmudgeReply(g) PROVE CacheInv'
  <2>1. Kept(fHash[g])
    BY <1>18 DEF SmudgeReply, Smudging
  <2>2. /\ cache' = [cache EXCEPT ![fPath[g]] = fHash[g]] \/ UNCHANGED cache
        /\ UNCHANGED <<objects, markers, server, gcVars>>
    BY <1>18 DEF SmudgeReply
  <2> QED
    BY <2>1, <2>2
<1>19. ASSUME NEW p \in Paths, Unstage(p) PROVE CacheInv'
  BY <1>19 DEF Unstage, StillHeld
<1>20. ASSUME NEW h \in Hashes, DropCommit(h) PROVE CacheInv'
  BY <1>20 DEF DropCommit, StillHeld
<1>21. ASSUME NEW h \in Hashes, Fetch(h) PROVE CacheInv'
  BY <1>21 DEF Fetch
<1>22. ASSUME NEW h \in Hashes, FetchPrune(h) PROVE CacheInv'
  BY <1>22 DEF FetchPrune, StillHeld
<1>23. ASSUME NEW h \in Hashes, MarkerAges(h) PROVE CacheInv'
  BY <1>23 DEF MarkerAges
<1>24. ASSUME StashDrop PROVE CacheInv'
  BY <1>24 DEF StashDrop, StillHeld
<1>25. ASSUME GcTryLock PROVE CacheInv'
  BY <1>25 DEF GcTryLock, GcUnchangedData
<1>26. ASSUME GcCheck PROVE CacheInv'
  BY <1>26 DEF GcCheck, GcExit, GcUnchangedData
<1>27. ASSUME GcList PROVE CacheInv'
  BY <1>27 DEF GcList, GcExit
<1>28. ASSUME GcReadTips PROVE CacheInv'
  BY <1>28 DEF GcReadTips, Unpushed, StashTop
<1>29. ASSUME GcReadIndex PROVE CacheInv'
  BY <1>29 DEF GcReadIndex, GcDecide, GcExit, ReachableHashes, LiveTips
<1>30. ASSUME GcRemoveMarkers PROVE CacheInv'
  BY <1>30 DEF GcRemoveMarkers, GcUnchangedData, Unlinked, GcInv
<1>31. ASSUME GcFindOrphans PROVE CacheInv'
  BY <1>31 DEF GcFindOrphans, ReachableHashes
<1>32. ASSUME GcForget PROVE CacheInv'
  BY <1>32 DEF GcForget, ForgetHashes, GcExit, GcUnchangedData, GcInv
<1>33. ASSUME GcSweep PROVE CacheInv'
  BY <1>33 DEF GcSweep, GcExit
<1>34. ASSUME GcCrash PROVE CacheInv'
  BY <1>34 DEF GcCrash, GcExit
<1>35. ASSUME PushBegin PROVE CacheInv'
  BY <1>35 DEF PushBegin, PushUnchangedElse, Advertised
<1>36. ASSUME PushList PROVE CacheInv'
  BY <1>36 DEF PushList, Found, PushUnchangedElse
<1>37. ASSUME NEW h \in Hashes, PushReadStaged(h) PROVE CacheInv'
  BY <1>37 DEF PushReadStaged, PushUnchangedElse
<1>38. ASSUME PushFinalize PROVE CacheInv'
  BY <1>38 DEF PushFinalize, PushUnchangedElse, FromRefs
<1>39. ASSUME PushFail PROVE CacheInv'
  BY <1>39 DEF PushFail, PushExit, PushUnchangedElse
<1>40. ASSUME PushLock PROVE CacheInv'
  BY <1>40 DEF PushLock, PushUnchangedElse
<1>41. ASSUME PushRemoveMarkers PROVE CacheInv'
  BY <1>41 DEF PushRemoveMarkers, PushUnchangedElse, Unlinked
<1>42. ASSUME PushSweep PROVE CacheInv'
  BY <1>42 DEF PushSweep, PushUnchangedElse
<1>43. ASSUME PushCrash PROVE CacheInv'
  BY <1>43 DEF PushCrash, PushExit, PushUnchangedElse
<1>44. ASSUME GitPushed PROVE CacheInv'
  BY <1>44 DEF GitPushed, PushExit, PushUnchangedElse
<1>45. ASSUME PushLocal PROVE CacheInv'
  BY <1>45 DEF PushLocal, PushUnchangedElse
<1>46. ASSUME PushLockFails PROVE CacheInv'
  BY <1>46 DEF PushLockFails, PushUnchangedElse
<1>47. CASE UNCHANGED vars
  BY <1>47 DEF vars
<1> QED
  BY <1>1, <1>2, <1>3, <1>4, <1>5, <1>6, <1>7, <1>8, <1>9, <1>10, <1>11,
      <1>12, <1>13, <1>14, <1>15, <1>16, <1>17, <1>18, <1>19, <1>20, <1>21,
      <1>22, <1>23, <1>24, <1>25, <1>26, <1>27, <1>28, <1>29, <1>30, <1>31,
      <1>32, <1>33, <1>34, <1>35, <1>36, <1>37, <1>38, <1>39, <1>40, <1>41,
      <1>42, <1>43, <1>44, <1>45, <1>46, <1>47 DEF GitStep, FilterStep, UserStep,
      GcStep, PushStep, Next

(* What gc read of the refs and the index still covers what they name.     *)
LEMMA GcStepInv ==
    ASSUME Quiet, RepoInv, [Next]_vars
    PROVE  GcInv'
<1> USE ConstantsAssumption DEF Quiet, RepoInv, TypeOK, FilterInv, PushInv, WalkInv,
      LockInv, SweepInv, Kept, KeptTable, KeptSet,
      OpInv, RefInv, GcInv, Unreferenced, LiveTips, GcPastCheck, GitMayWrite,
      GitOpInFlight,
      gitVars, storeVars, opVars, fltVars, gcVars, gcData, pushVars
<1>1. ASSUME NEW g \in Ops, NEW k \in Kinds, OpBegin(g, k) PROVE GcInv'
  BY <1>1 DEF OpBegin
<1>2. ASSUME NEW g \in Ops, RecordAdd(g) PROVE GcInv'
  BY <1>2 DEF RecordAdd, StillHeld, OpEnd, IndexWith, FilterReplied
<1>3. ASSUME NEW g \in Ops, RecordCommit(g) PROVE GcInv'
  BY <1>3 DEF RecordCommit, StillHeld, OpEnd, IndexWith, FilterReplied
<1>4. ASSUME NEW g \in Ops, RecordCheckout(g) PROVE GcInv'
  BY <1>4 DEF RecordCheckout, StillHeld, OpEnd, IndexWith, FilterReplied
<1>5. ASSUME NEW g \in Ops, RecordPop(g) PROVE GcInv'
  BY <1>5 DEF RecordPop, StillHeld, OpEnd, FilterReplied
<1>6. ASSUME NEW g \in Ops, StashUnlock(g) PROVE GcInv'
  BY <1>6 DEF StashUnlock, FilterReplied
<1>7. ASSUME NEW g \in Ops, StashRef(g) PROVE GcInv'
  BY <1>7 DEF StashRef, StillHeld
<1>8. ASSUME NEW g \in Ops, StashReset(g) PROVE GcInv'
  BY <1>8 DEF StashReset, StillHeld, OpEnd
<1>9. ASSUME NEW g \in Ops, OpAbort(g) PROVE GcInv'
  BY <1>9 DEF OpAbort, OpEnd
<1>10. ASSUME NEW g \in Ops, NEW p \in Paths, NEW h \in Hashes,
              CleanLookup(g, p, h)
       PROVE GcInv'
  BY <1>10 DEF CleanLookup, FilterServes
<1>11. ASSUME NEW g \in Ops, NEW p \in Paths, NEW h \in Hashes, SmudgeRead(g,
    p, h) PROVE GcInv'
  BY <1>11 DEF SmudgeRead, FilterServes
<1>12. ASSUME NEW g \in Ops, CleanHit(g) PROVE GcInv'
  BY <1>12 DEF CleanHit, Reply, FilterIdle
<1>13. ASSUME NEW g \in Ops, CleanLock(g) PROVE GcInv'
  BY <1>13 DEF CleanLock, FilterAt
<1>14. ASSUME NEW g \in Ops, CleanWriteObjects(g) PROVE GcInv'
  BY <1>14 DEF CleanWriteObjects, FilterAt
<1>15. ASSUME NEW g \in Ops, CleanMark(g) PROVE GcInv'
  BY <1>15 DEF CleanMark, FilterAt
<1>16. ASSUME NEW g \in Ops, CleanReply(g) PROVE GcInv'
  BY <1>16 DEF CleanReply, FilterAt, Reply
<1>17. ASSUME NEW g \in Ops, CleanSave(g) PROVE GcInv'
  BY <1>17 DEF CleanSave, FilterIdle
<1>18. ASSUME NEW g \in Ops, SmudgeReply(g) PROVE GcInv'
  BY <1>18 DEF SmudgeReply, Reply, FilterIdle
<1>19. ASSUME NEW p \in Paths, Unstage(p) PROVE GcInv'
  BY <1>19 DEF Unstage, StillHeld
<1>20. ASSUME NEW h \in Hashes, DropCommit(h) PROVE GcInv'
  BY <1>20 DEF DropCommit, StillHeld
<1>21. ASSUME NEW h \in Hashes, Fetch(h) PROVE GcInv'
  BY <1>21 DEF Fetch
<1>22. ASSUME NEW h \in Hashes, FetchPrune(h) PROVE GcInv'
  BY <1>22 DEF FetchPrune, StillHeld
<1>23. ASSUME NEW h \in Hashes, MarkerAges(h) PROVE GcInv'
  BY <1>23 DEF MarkerAges
<1>24. ASSUME StashDrop PROVE GcInv'
  BY <1>24 DEF StashDrop, StillHeld
<1>25. ASSUME GcTryLock PROVE GcInv'
  BY <1>25 DEF GcTryLock, GcUnchangedData
<1>26. ASSUME GcCheck PROVE GcInv'
  BY <1>26 DEF GcCheck, GcExit, GcUnchangedData
<1>27. ASSUME GcList PROVE GcInv'
  BY <1>27 DEF GcList, GcExit
<1>28. ASSUME GcReadTips PROVE GcInv'
  BY <1>28 DEF GcReadTips, Unpushed, StashTop
<1>29. ASSUME GcReadIndex PROVE GcInv'
  BY <1>29 DEF GcReadIndex, GcDecide, GcExit, ReachableHashes, LiveTips,
      HashesOf
<1>30. ASSUME GcRemoveMarkers PROVE GcInv'
  BY <1>30 DEF GcRemoveMarkers, GcUnchangedData, Unlinked
<1>31. ASSUME GcFindOrphans PROVE GcInv'
  BY <1>31 DEF GcFindOrphans, ReachableHashes, HashesOf
<1>32. ASSUME GcForget PROVE GcInv'
  BY <1>32 DEF GcForget, ForgetHashes, GcExit, GcUnchangedData
<1>33. ASSUME GcSweep PROVE GcInv'
  BY <1>33 DEF GcSweep, GcExit
<1>34. ASSUME GcCrash PROVE GcInv'
  BY <1>34 DEF GcCrash, GcExit
<1>35. ASSUME PushBegin PROVE GcInv'
  BY <1>35 DEF PushBegin, PushUnchangedElse, Advertised
<1>36. ASSUME PushList PROVE GcInv'
  BY <1>36 DEF PushList, Found, PushUnchangedElse
<1>37. ASSUME NEW h \in Hashes, PushReadStaged(h) PROVE GcInv'
  BY <1>37 DEF PushReadStaged, PushUnchangedElse
<1>38. ASSUME PushFinalize PROVE GcInv'
  BY <1>38 DEF PushFinalize, PushUnchangedElse, FromRefs
<1>39. ASSUME PushFail PROVE GcInv'
  BY <1>39 DEF PushFail, PushExit, PushUnchangedElse
<1>40. ASSUME PushLock PROVE GcInv'
  BY <1>40 DEF PushLock, PushUnchangedElse
<1>41. ASSUME PushRemoveMarkers PROVE GcInv'
  BY <1>41 DEF PushRemoveMarkers, PushUnchangedElse, Unlinked
<1>42. ASSUME PushSweep PROVE GcInv'
  BY <1>42 DEF PushSweep, PushUnchangedElse
<1>43. ASSUME PushCrash PROVE GcInv'
  BY <1>43 DEF PushCrash, PushExit, PushUnchangedElse
<1>44. ASSUME GitPushed PROVE GcInv'
  BY <1>44 DEF GitPushed, PushExit, PushUnchangedElse
<1>45. ASSUME PushLocal PROVE GcInv'
  BY <1>45 DEF PushLocal, PushUnchangedElse
<1>46. ASSUME PushLockFails PROVE GcInv'
  BY <1>46 DEF PushLockFails, PushUnchangedElse
<1>47. CASE UNCHANGED vars
  BY <1>47 DEF vars
<1> QED
  BY <1>1, <1>2, <1>3, <1>4, <1>5, <1>6, <1>7, <1>8, <1>9, <1>10, <1>11,
      <1>12, <1>13, <1>14, <1>15, <1>16, <1>17, <1>18, <1>19, <1>20, <1>21,
      <1>22, <1>23, <1>24, <1>25, <1>26, <1>27, <1>28, <1>29, <1>30, <1>31,
      <1>32, <1>33, <1>34, <1>35, <1>36, <1>37, <1>38, <1>39, <1>40, <1>41,
      <1>42, <1>43, <1>44, <1>45, <1>46, <1>47 DEF GitStep, FilterStep, UserStep,
      GcStep, PushStep, Next

(* The initial state satisfies the whole invariant. *)
LEMMA InitInv == Init => RepoInv
<1> SUFFICES ASSUME Init PROVE RepoInv
  OBVIOUS
<1> USE ConstantsAssumption DEF Init
<1>1. TypeOK /\ FilterInv
  BY DEF TypeOK, FilterInv, NoPend, AllKinds
<1>2. PushInv /\ WalkInv /\ LockInv /\ SweepInv
  BY DEF PushInv, WalkInv, LockInv, SweepInv
<1>3. OpInv
  BY DEF OpInv, GcPastCheck, GitOpInFlight
<1>4. RefInv /\ CacheInv /\ GcInv
  BY DEF RefInv, KeptTable, KeptSet, CacheInv, GcInv
<1> QED
  BY <1>1, <1>2, <1>3, <1>4 DEF RepoInv

-----------------------------------------------------------------------------
(* Type correctness, in every environment. *)
THEOREM TypeCorrect == Spec => []TypeOK
<1>1. Init => TypeOK /\ FilterInv
  BY InitInv DEF RepoInv
<1>2. TypeOK /\ FilterInv /\ [Next]_vars => (TypeOK /\ FilterInv)'
  BY TypeStep
<1> QED
  BY <1>1, <1>2, PTL DEF Spec

(* A push is safe in every environment, failing processes, failing         *)
(* listings, lost markers and short walks included: a remote ref never     *)
(* names a pointer that the server has not registered, unless the walk of  *)
(* the push that brought it there could not read it (push_pending.rs run). *)
THEOREM PushSafe == Spec => []RemoteOnServer
<1> DEFINE PInv == TypeOK /\ FilterInv /\ PushInv
<1>1. Init => PInv
  BY InitInv DEF RepoInv
<1>2. PInv /\ [Next]_vars => PInv'
  BY TypeStep, PushStepInv
<1>3. PInv => RemoteOnServer
  BY DEF PushInv, RemoteOnServer
<1> QED
  BY <1>1, <1>2, <1>3, PTL DEF Spec

(* One process changes the staging area at a time, in every environment:   *)
(* the store lock is held from a writer's first change to its last, and    *)
(* dies with the process (store.rs).                                       *)
THEOREM OneWriter == Spec => []OneStagingWriter
<1> DEFINE LInv == TypeOK /\ FilterInv /\ PushInv /\ LockInv
<1>1. Init => LInv
  BY InitInv DEF RepoInv
<1>2. LInv /\ [Next]_vars => LInv'
  BY TypeStep, PushStepInv, LockStep
<1>3. LInv => OneStagingWriter
  <2> SUFFICES ASSUME LInv, NEW a \in StagingWriters PROVE lock = a
    BY DEF OneStagingWriter
  <2> QED
    BY DEF StagingWriters, LockInv
<1> QED
  BY <1>1, <1>2, <1>3, PTL DEF Spec

(* A marker never outlives its objects, however gc, push and the filters   *)
(* interleave, fail or die, provided the listing that precedes a sweep     *)
(* does not fail: its error counts as "no marker" (gc.rs, push_pending.rs).*)
THEOREM MarkersSafe == "listFails" \notin Env => (Spec => []MarkersHaveObjects)
<1> SUFFICES ASSUME "listFails" \notin Env PROVE Spec => []MarkersHaveObjects
  OBVIOUS
<1> DEFINE SInv == TypeOK /\ FilterInv /\ PushInv /\ LockInv /\ SweepInv
<1>1. Init => SInv
  BY InitInv DEF RepoInv
<1>2. SInv /\ [Next]_vars => SInv'
  BY TypeStep, PushStepInv, LockStep, SweepStep
<1>3. SInv => MarkersHaveObjects
  BY DEF SweepInv, MarkersHaveObjects
<1> QED
  BY <1>1, <1>2, <1>3, PTL DEF Spec

(* The inductive invariant holds in a quiet environment. *)
LEMMA RepoInvHolds == Quiet => (Spec => []RepoInv)
<1> SUFFICES ASSUME Quiet PROVE Spec => []RepoInv
  OBVIOUS
<1>1. RepoInv /\ [Next]_vars => RepoInv'
  <2> SUFFICES ASSUME RepoInv, [Next]_vars PROVE RepoInv'
    OBVIOUS
  <2>1. TypeOK' /\ FilterInv'
    BY TypeStep DEF RepoInv
  <2>2. PushInv' /\ WalkInv'
    BY PushStepInv, WalkStep DEF RepoInv, Quiet
  <2>3. LockInv'
    BY LockStep DEF RepoInv
  <2>4. SweepInv'
    BY SweepStep DEF RepoInv, Quiet
  <2>5. OpInv' /\ RefInv' /\ CacheInv' /\ GcInv'
    BY OpStepInv, RefStep, CacheStep, GcStepInv
  <2> QED
    BY <2>1, <2>2, <2>3, <2>4, <2>5 DEF RepoInv
<1> QED
  BY InitInv, <1>1, PTL DEF Spec

(* A kept pointer can be smudged, in either mode. *)
LEMMA KeptReadable ==
    ASSUME RepoInv, NEW h \in Hashes, Kept(h)
    PROVE  Readable(h)
  BY ConstantsAssumption DEF RepoInv, PushInv, Kept, Readable

(* No data loss: while no command writes under gc, no reflog-only commit   *)
(* comes back and nothing but unlinking fails, every pointer the index, a  *)
(* ref or a one-entry stash names can be smudged, for any number of        *)
(* commands, paths and files (gc.rs reconcile, push_pending.rs run).       *)
THEOREM NoDataLoss == Quiet => (Spec => []NoDanglingPointer)
<1>1. RepoInv => NoDanglingPointer
  <2> SUFFICES ASSUME RepoInv, NEW h \in Referenced PROVE Readable(h)
    BY DEF NoDanglingPointer
  <2>1. h \in Hashes /\ Kept(h)
    <3>1. CASE h \in HashesOf(index)
      BY <3>1 DEF RepoInv, TypeOK, RefInv, KeptTable, HashesOf
    <3>2. CASE h \in local \cup remote
      BY <3>2 DEF RepoInv, TypeOK, RefInv, KeptSet
    <3>3. CASE h \in StashHashes
      <4>1. PICK i \in 1..Len(stash) : h \in stash[i]
        BY <3>3 DEF StashHashes, RepoInv, TypeOK
      <4> QED
        BY <4>1 DEF RepoInv, TypeOK, RefInv, KeptSet
    <3> QED
      BY <3>1, <3>2, <3>3 DEF Referenced
  <2> QED
    BY <2>1, KeptReadable
<1> QED
  BY RepoInvHolds, <1>1, PTL

(* The clean-cache never leads a later add to a pointer without backing:   *)
(* gc forgets what it orphans before it sweeps (gc.rs, clean_cache.rs).    *)
THEOREM CacheSafe == Quiet => (Spec => []CleanCacheBacked)
<1>1. RepoInv => CleanCacheBacked
  <2> SUFFICES ASSUME RepoInv, NEW p \in Paths, cache[p] # None,
                      ~(gcPc \in {"orphans", "forget"} /\ cache[p] \in gcDead)
               PROVE  Readable(cache[p])
    BY DEF CleanCacheBacked
  <2>1. cache[p] \in Hashes /\ Kept(cache[p])
    BY DEF RepoInv, TypeOK, CacheInv
  <2> QED
    BY <2>1, KeptReadable
<1> QED
  BY RepoInvHolds, <1>1, PTL

(* The pointer a full clean returned is readable until git records it.     *)
THEOREM CleanSafe == Quiet => (Spec => []FullCleanStaysBacked)
<1>1. RepoInv => FullCleanStaysBacked
  <2> SUFFICES ASSUME RepoInv, NEW g \in Ops, opKind[g] # "status",
                      NEW p \in missed[g]
               PROVE  Readable(pend[g][p])
    BY DEF FullCleanStaysBacked
  <2>1. p \in Paths /\ pend[g][p] # None
    BY DEF RepoInv, TypeOK, FilterInv
  <2>2. pend[g][p] \in Hashes /\ Kept(pend[g][p])
    BY <2>1 DEF RepoInv, TypeOK, OpInv, KeptTable
  <2> QED
    BY <2>2, KeptReadable
<1> QED
  BY RepoInvHolds, <1>1, PTL

(* gc never decides to drop the marker of a file that stayed in the index, *)
(* or stayed within reach of the refs, since its in-flight check, unless   *)
(* the server has the file or no walk could read it when it was pushed.    *)
(* git may write the index and the refs at any moment of the run, a stash  *)
(* may be of any depth, and anything may fail but gc's own reads           *)
(* (gc.rs ref_tips, reachable_hashes).                                     *)
THEOREM GcSafe == "readFails" \notin Env => (Spec => []GcNeverUndercounts)
<1> SUFFICES ASSUME "readFails" \notin Env
             PROVE  Spec => []GcNeverUndercounts
  OBVIOUS
<1> DEFINE HInv == TypeOK /\ FilterInv /\ PushInv /\ HeldInv
<1>1. Init => HInv
  <2>1. Init => HeldInv
    BY DEF Init, HeldInv, GcNeverUndercounts
  <2> QED
    BY <2>1, InitInv DEF RepoInv
<1>2. HInv /\ [Next]_vars => HInv'
  BY TypeStep, PushStepInv, HeldStep
<1>3. HInv => GcNeverUndercounts
  BY DEF HeldInv
<1> QED
  BY <1>1, <1>2, <1>3, PTL DEF Spec
=============================================================================
