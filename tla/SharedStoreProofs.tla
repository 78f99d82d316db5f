-------------------------- MODULE SharedStoreProofs --------------------------
(***************************************************************************)
(* Proofs about SharedStore, for any number of repositories, files and     *)
(* prunes, and every environment behaviour but a prune that cannot read a  *)
(* repository.                                                             *)
(***************************************************************************)
EXTENDS SharedStore, TLAPS

(* What a repository counts on: what it cleaned, marked and reaches, and   *)
(* what it has cleaned and marked and is about to reach.                   *)
Needed(r) == backed[r] \cup {h \in {addHash[r]} : r \in fresh}

(* Where bytes are safe from the next prune besides the store. *)
LeftBehind == {h \in orphans : torn}

(* A writer between its objects and its marker holds the lock. *)
Writers ==
    \A r \in Repos : addPc[r] = "mark" => lock = r /\ addHash[r] \in objs

(* A pointer in flight is one of the file hashes. *)
InFlight ==
    \A r \in Repos : /\ addPc[r] # "idle" => addHash[r] \in Hashes
                     /\ r \in fresh => addPc[r] = "record" /\ addHash[r] \in markers[r]

BackedMarked == \A r \in Repos : backed[r] \subseteq refs[r] \cap markers[r]

(* A repository that was never registered has added nothing. *)
Newcomers == \A r \in Repos : r \notin registered => backed[r] = {} /\ addPc[r] = "idle"

(* Bytes: in the store, or while it is moved aside in the backup. *)
Bytes ==
    /\ prPc # "swap" => \A r \in Kept : Needed(r) \subseteq objs \cup LeftBehind
    /\ prPc = "swap" => \A r \in Kept : Needed(r) \subseteq aside \cup LeftBehind

(* What prune has scanned is complete. *)
Scanned ==
    /\ prPc = "scan" => \A r \in Kept \ prTodo : r \notin fresh /\ backed[r] \subseteq prLive
    /\ prPc \in {"rebuild", "aside", "swap"} =>
          \A r \in Kept : r \notin fresh /\ backed[r] \subseteq prLive
    /\ prPc \in {"aside", "swap"} => prLive \subseteq prNew

(* Registrations follow the store. *)
Registrations ==
    ~torn => /\ prPc # "swap" => Kept \subseteq reg
             /\ prPc = "swap" => Kept \subseteq asideReg
             /\ prPc \in {"aside", "swap"} => Kept \subseteq prNewReg

SharedInv ==
    /\ TypeOK /\ Writers /\ InFlight /\ BackedMarked /\ Newcomers
    /\ Bytes /\ Scanned /\ Registrations

(* The initial state satisfies the invariant. *)
LEMMA InitShared == Init => SharedInv
<1> SUFFICES ASSUME Init PROVE SharedInv
  OBVIOUS
<1>1. TypeOK
  BY SharedAssumption DEF Init, TypeOK
<1>2. Writers /\ InFlight /\ BackedMarked /\ Newcomers
  BY DEF Init, Writers, InFlight, BackedMarked, Newcomers
<1>3. Bytes /\ Scanned /\ Registrations
  BY DEF Init, Bytes, Scanned, Registrations, Kept, Needed, LeftBehind
<1>4. QED
  BY <1>1, <1>2, <1>3 DEF SharedInv

-----------------------------------------------------------------------------
(* The steps of the repositories. *)

(* init-local, before or during a prune. *)
LEMMA InitLocalStep ==
    ASSUME SharedInv, NEW r \in Repos, InitLocal(r)
    PROVE  SharedInv'
<1> USE DEF SharedInv, InitLocal, addVars, pruneVars
<1>1. TypeOK'
  BY DEF TypeOK
<1>2. Writers' /\ InFlight' /\ BackedMarked' /\ Newcomers'
  BY DEF Writers, InFlight, BackedMarked, Newcomers
<1>3. /\ Kept' \subseteq Kept \cup {r}
      /\ prPc # "idle" => Kept' \subseteq Kept
      /\ Kept' \ Kept # {} => r \notin registered
  BY DEF Kept
<1>4. \A q \in Repos : Needed(q)' = Needed(q)
  BY DEF Needed
<1>5. r \notin registered => Needed(r) = {}
  BY DEF Needed, Newcomers, InFlight
<1>6. LeftBehind' = LeftBehind
  BY DEF LeftBehind
<1>7. Kept' \subseteq Repos
  BY <1>1 DEF TypeOK, Kept
<1>8. Bytes'
  BY <1>3, <1>4, <1>5, <1>6, <1>7 DEF Bytes, TypeOK
<1>9. Scanned'
  BY <1>3 DEF Scanned
<1>10. Registrations'
  BY <1>3 DEF Registrations
<1>11. QED
  BY <1>1, <1>2, <1>8, <1>9, <1>10

(* The clean filter writes its objects under the lock. *)
LEMMA CleanWriteStep ==
    ASSUME SharedInv, NEW r \in Repos, NEW h \in Hashes, CleanWrite(r, h)
    PROVE  SharedInv'
<1> USE SharedAssumption DEF SharedInv, CleanWrite, AddStep, repoVars, pruneVars
<1>1. TypeOK'
  BY DEF TypeOK
<1>2. prPc = "idle"
  BY DEF TypeOK
<1>3. Writers'
  BY DEF TypeOK, Writers
<1>4. InFlight' /\ BackedMarked' /\ Newcomers'
  BY DEF TypeOK, InFlight, BackedMarked, Newcomers
<1>5. \A q \in Repos : Needed(q)' = Needed(q)
  BY DEF Needed, InFlight, TypeOK
<1>6. Kept' = Kept /\ LeftBehind' = LeftBehind /\ Kept \subseteq Repos
  BY DEF Kept, LeftBehind, TypeOK
<1>7. Bytes'
  BY <1>2, <1>5, <1>6 DEF Bytes
<1>8. Scanned' /\ Registrations'
  BY <1>2, <1>6 DEF Scanned, Registrations
<1>9. QED
  BY <1>1, <1>3, <1>4, <1>7, <1>8

(* The marker follows the objects, still under the lock. *)
LEMMA CleanMarkStep ==
    ASSUME SharedInv, NEW r \in Repos, CleanMark(r)
    PROVE  SharedInv'
<1> USE SharedAssumption DEF SharedInv, AddStep, storeVars, pruneVars
<1>1. PICK marked \in BOOLEAN :
        /\ markers' = [markers EXCEPT ![r] = IF marked THEN @ \cup {addHash[r]} ELSE @]
        /\ fresh' = IF marked THEN fresh \cup {r} ELSE fresh
  BY DEF CleanMark
<1> USE DEF CleanMark
<1>2. addHash[r] \in Hashes /\ lock = r /\ addHash[r] \in objs /\ prPc = "idle"
  BY DEF InFlight, Writers, TypeOK
<1>3. TypeOK'
  <2>1. markers' \in [Repos -> SUBSET Hashes] /\ cache' \in [Repos -> SUBSET Hashes]
    BY <1>1, <1>2 DEF TypeOK
  <2>2. fresh' \subseteq Repos
    BY <1>1 DEF TypeOK
  <2>3. addPc' \in [Repos -> {"idle", "mark", "record"}]
    BY DEF TypeOK
  <2>4. QED
    BY <1>2, <2>1, <2>2, <2>3 DEF TypeOK
<1>4. Writers'
  BY <1>2 DEF Writers, TypeOK
<1>5. \A q \in Repos : markers[q] \subseteq markers'[q]
  BY <1>1 DEF TypeOK
<1>6. r \in fresh' => addHash[r] \in markers'[r]
  BY <1>1 DEF TypeOK, InFlight
<1>7. InFlight'
  BY <1>1, <1>5, <1>6 DEF TypeOK, InFlight
<1>8. BackedMarked' /\ Newcomers'
  BY <1>5 DEF BackedMarked, Newcomers, TypeOK
<1>9. \A q \in Repos : Needed(q)' \subseteq Needed(q) \cup {h \in {addHash[r]} : q = r}
  BY <1>1 DEF Needed
<1>10. Kept' = Kept /\ LeftBehind' = LeftBehind /\ Kept \subseteq Repos
  BY DEF Kept, LeftBehind, TypeOK
<1>11. Bytes'
  BY <1>2, <1>9, <1>10 DEF Bytes
<1>12. Scanned' /\ Registrations'
  BY <1>2, <1>10 DEF Scanned, Registrations
<1>13. QED
  BY <1>3, <1>4, <1>7, <1>8, <1>11, <1>12

(* A clean-cache hit returns a pointer that nothing here vouches for. *)
LEMMA CleanHitStep ==
    ASSUME SharedInv, NEW r \in Repos, NEW h \in Hashes, CleanHit(r, h)
    PROVE  SharedInv'
<1> USE SharedAssumption DEF SharedInv, CleanHit, AddStep, storeVars, repoVars, pruneVars
<1>1. TypeOK'
  BY DEF TypeOK
<1>2. Writers' /\ InFlight' /\ BackedMarked' /\ Newcomers'
  BY DEF TypeOK, Writers, InFlight, BackedMarked, Newcomers
<1>3. \A q \in Repos : Needed(q)' = Needed(q)
  BY DEF Needed, InFlight, TypeOK
<1>4. Kept' = Kept /\ LeftBehind' = LeftBehind /\ Kept \subseteq Repos
  BY DEF Kept, LeftBehind, TypeOK
<1>5. Bytes' /\ Scanned' /\ Registrations'
  BY <1>3, <1>4 DEF Bytes, Scanned, Registrations
<1>6. QED
  BY <1>1, <1>2, <1>5

(* git records a pointer: it was needed already if it is backed now. *)
LEMMA GitRecordStep ==
    ASSUME SharedInv, NEW r \in Repos, GitRecord(r)
    PROVE  SharedInv'
<1> USE SharedAssumption DEF SharedInv, GitRecord, AddStep, storeVars, pruneVars
<1>1. addHash[r] \in Hashes
  BY DEF InFlight
<1>2. TypeOK'
  BY <1>1 DEF TypeOK
<1>3. Writers' /\ InFlight' /\ Newcomers'
  BY DEF TypeOK, Writers, InFlight, Newcomers
<1>4. BackedMarked'
  BY DEF TypeOK, BackedMarked, InFlight
<1>5. \A q \in Repos : Needed(q)' \subseteq Needed(q)
  BY DEF Needed, TypeOK
<1>6. Kept' = Kept /\ LeftBehind' = LeftBehind /\ Kept \subseteq Repos
  BY DEF Kept, LeftBehind, TypeOK
<1>7. Bytes'
  BY <1>5, <1>6 DEF Bytes
<1>8. Scanned'
  BY <1>6 DEF Scanned, TypeOK
<1>9. Registrations'
  BY <1>6 DEF Registrations
<1>10. QED
  BY <1>2, <1>3, <1>4, <1>7, <1>8, <1>9

(* Commands that only stop, drop or read. *)
LEMMA OtherRepoSteps ==
    ASSUME SharedInv, NEW r \in Repos, NEW h \in Hashes,
           AddAbort(r) \/ DropRef(r, h) \/ Checkout(r, h)
    PROVE  SharedInv'
<1> USE SharedAssumption DEF SharedInv, AddAbort, DropRef, Checkout, storeVars, repoVars, addVars, pruneVars
<1>1. TypeOK'
  <2>1. CASE AddAbort(r)
    BY <2>1 DEF TypeOK
  <2>2. CASE DropRef(r, h)
    BY <2>2 DEF TypeOK
  <2>3. CASE Checkout(r, h)
    BY <2>3 DEF TypeOK
  <2>4. QED
    BY <2>1, <2>2, <2>3
<1>2. Writers' /\ InFlight' /\ Newcomers'
  BY DEF TypeOK, Writers, InFlight, Newcomers
<1>3. BackedMarked'
  BY DEF TypeOK, BackedMarked
<1>4. \A q \in Repos : Needed(q)' \subseteq Needed(q) /\ backed'[q] \subseteq backed[q]
  BY DEF Needed, TypeOK
<1>5. Kept' = Kept /\ LeftBehind' = LeftBehind /\ Kept \subseteq Repos /\ fresh' \subseteq fresh
  BY DEF Kept, LeftBehind, TypeOK
<1>6. UNCHANGED <<storeVars, pruneVars>>
  OBVIOUS
<1>7. Bytes' /\ Scanned' /\ Registrations'
  BY <1>4, <1>5, <1>6 DEF Bytes, Scanned, Registrations
<1>8. QED
  BY <1>1, <1>2, <1>3, <1>7

-----------------------------------------------------------------------------
(* The steps of prune. *)

(* A step of prune that ends it and leaves the repositories, and the store *)
(* where it is.                                                            *)
LEMMA EndStep ==
    ASSUME SharedInv, PruneEnd, prPc \notin {"idle", "swap"},
           UNCHANGED <<objs, reg, storeUp, torn, registered, refs, backed, markers, cache, addPc, addHash>>,
           aside' \subseteq Hashes, asideReg' \subseteq Repos,
           orphans \subseteq orphans', orphans' \subseteq Hashes,
           forsaken \subseteq forsaken', forsaken' \subseteq Repos, fresh' \subseteq fresh
    PROVE  SharedInv'
<1> USE SharedAssumption DEF SharedInv, PruneEnd
<1>1. lock = Prune
  BY DEF TypeOK
<1>2. TypeOK'
  BY DEF TypeOK
<1>3. Writers' /\ InFlight' /\ BackedMarked' /\ Newcomers'
  BY <1>1 DEF Writers, InFlight, BackedMarked, Newcomers
<1>4. \A q \in Repos : Needed(q)' \subseteq Needed(q)
  BY DEF Needed
<1>5. Kept' \subseteq Kept /\ Kept \subseteq Repos /\ LeftBehind \subseteq LeftBehind'
  BY DEF Kept, LeftBehind, TypeOK
<1>6. Bytes' /\ Scanned' /\ Registrations'
  BY <1>4, <1>5 DEF Bytes, Scanned, Registrations
<1>7. QED
  BY <1>2, <1>3, <1>6

(* prune takes the lock. *)
LEMMA LockStep ==
    ASSUME SharedInv, NEW force \in BOOLEAN, PruneLock(force)
    PROVE  SharedInv'
<1> USE SharedAssumption DEF SharedInv, PruneLock, storeVars, repoVars, addVars
<1>1. TypeOK'
  BY DEF TypeOK
<1>2. Writers' /\ InFlight' /\ BackedMarked' /\ Newcomers'
  BY DEF Writers, InFlight, BackedMarked, Newcomers, TypeOK
<1>3. \A q \in Repos : Needed(q)' = Needed(q)
  BY DEF Needed
<1>4. Kept' = Kept /\ LeftBehind' = LeftBehind /\ Kept \subseteq Repos
  BY DEF Kept, LeftBehind, TypeOK
<1>5. Bytes' /\ Scanned' /\ Registrations'
  BY <1>3, <1>4 DEF Bytes, Scanned, Registrations
<1>6. QED
  BY <1>1, <1>2, <1>5

(* prune lists the registry: every repository it must ask is in it. *)
LEMMA ListStep ==
    ASSUME SharedInv, PruneList
    PROVE  SharedInv'
<1> USE SharedAssumption DEF SharedInv, PruneList, storeVars, addVars
<1>1. forsaken \subseteq forsaken' /\ forsaken' \subseteq Repos
  BY DEF TypeOK
<1>2. CASE reg = {} /\ PruneEnd
  <2>1. UNCHANGED <<objs, reg, storeUp, torn, registered, refs, backed, markers, cache, addPc, addHash>>
    OBVIOUS
  <2>2. aside' \subseteq Hashes /\ asideReg' \subseteq Repos /\ orphans' \subseteq Hashes
    BY DEF TypeOK
  <2>3. QED
    BY <1>1, <1>2, <2>1, <2>2, EndStep
<1>3. CASE reg # {} /\ prTodo' = reg /\ prPc' = "scan"
            /\ UNCHANGED <<lock, prForce, prWant, prLive, prBefore, prNew, prNewReg, prunes>>
  <2>1. TypeOK'
    BY <1>1, <1>3 DEF TypeOK
  <2>2. Writers' /\ InFlight' /\ BackedMarked' /\ Newcomers'
    BY <1>3 DEF Writers, InFlight, BackedMarked, Newcomers
  <2>3. \A q \in Repos : Needed(q)' = Needed(q)
    BY DEF Needed
  <2>4. Kept' \subseteq Kept /\ Kept \subseteq Repos /\ LeftBehind' = LeftBehind
    BY <1>1 DEF Kept, LeftBehind, TypeOK
  <2>5. Kept' \subseteq reg
    BY <1>3, <2>4 DEF Kept, Registrations, TypeOK
  <2>6. Bytes' /\ Scanned' /\ Registrations'
    BY <1>3, <2>3, <2>4, <2>5 DEF Bytes, Scanned, Registrations
  <2>7. QED
    BY <2>1, <2>2, <2>6
<1>4. QED
  BY <1>2, <1>3

(* prune asks one repository; its markers and refs can be read. *)
LEMMA ScanStep ==
    ASSUME SharedInv, "readFails" \notin Env, NEW r \in Repos, PruneScan(r)
    PROVE  SharedInv'
<1> USE SharedAssumption DEF SharedInv, storeVars
<1>1. /\ prPc = "scan" /\ r \in prTodo /\ fresh' = fresh \ {r}
      /\ UNCHANGED <<storeVars, registered, refs, backed, markers, cache, addPc, addHash>>
  BY DEF PruneScan
<1>2. CASE ~prForce /\ PruneEnd /\ UNCHANGED forsaken
  <2>1. aside' \subseteq Hashes /\ asideReg' \subseteq Repos /\ orphans' \subseteq Hashes
    BY <1>1 DEF TypeOK
  <2>2. forsaken' \subseteq Repos /\ fresh' \subseteq fresh
    BY <1>1, <1>2 DEF TypeOK
  <2>3. QED
    BY <1>1, <1>2, <2>1, <2>2, EndStep
<1>3. ASSUME /\ prTodo' = prTodo \ {r}
             /\ forsaken \subseteq forsaken' /\ forsaken' \subseteq Repos
             /\ prWant' \subseteq Hashes /\ prLive' \subseteq Hashes /\ prLive \subseteq prLive'
             /\ r \in Kept' => backed[r] \subseteq prLive'
             /\ UNCHANGED <<lock, prPc, prForce, prBefore, prNew, prNewReg, prunes>>
      PROVE  SharedInv'
  <2>1. TypeOK'
    BY <1>1, <1>3 DEF TypeOK
  <2>2. Writers' /\ InFlight' /\ BackedMarked' /\ Newcomers'
    BY <1>1, <1>3 DEF Writers, InFlight, BackedMarked, Newcomers
  <2>3. \A q \in Repos : Needed(q)' \subseteq Needed(q)
    BY <1>1 DEF Needed
  <2>4. Kept' \subseteq Kept /\ Kept \subseteq Repos /\ LeftBehind' = LeftBehind
    BY <1>1, <1>3 DEF Kept, LeftBehind, TypeOK
  <2>5. Bytes' /\ Registrations'
    BY <1>1, <1>3, <2>3, <2>4 DEF Bytes, Registrations
  <2>6. Scanned'
    BY <1>1, <1>3, <2>4 DEF Scanned
  <2>7. QED
    BY <2>1, <2>2, <2>5, <2>6
<1>4. CASE /\ prForce
           /\ forsaken' = forsaken \cup {r}
           /\ prTodo' = prTodo \ {r}
           /\ UNCHANGED <<lock, prPc, prForce, prWant, prLive, prBefore, prNew, prNewReg, prunes>>
  <2>1. r \notin Kept'
    BY <1>4 DEF Kept
  <2>2. forsaken' \subseteq Repos /\ prWant' \subseteq Hashes /\ prLive' \subseteq Hashes
    BY <1>4 DEF TypeOK
  <2>3. QED
    BY <1>3, <1>4, <2>1, <2>2
<1>5. CASE /\ \E want \in MarkersRead(r) : \E live \in ReachableInRepo(r, want) :
                prWant' = prWant \cup want /\ prLive' = prLive \cup live
           /\ prTodo' = prTodo \ {r}
           /\ UNCHANGED <<lock, forsaken, prPc, prForce, prBefore, prNew, prNewReg, prunes>>
  <2>1. prWant' = prWant \cup markers[r] /\ prLive' = prLive \cup (markers[r] \cap refs[r])
    BY <1>5 DEF MarkersRead, ReachableInRepo
  <2>2. backed[r] \subseteq prLive'
    BY <2>1 DEF BackedMarked
  <2>3. prWant' \subseteq Hashes /\ prLive' \subseteq Hashes /\ forsaken' \subseteq Repos
    BY <1>5, <2>1 DEF TypeOK
  <2>4. QED
    BY <1>3, <1>5, <2>1, <2>2, <2>3
<1>6. QED
  BY <1>2, <1>4, <1>5 DEF PruneScan, ScanMissing

(* The steps of the rebuild, which write to the new store only. *)
LEMMA RebuildSteps ==
    ASSUME SharedInv,
           \/ PruneDecide \/ PruneBail \/ PruneCopyRegistry
           \/ \E h \in Hashes : PruneRebuild(h)
    PROVE  SharedInv'
<1> USE SharedAssumption DEF SharedInv, storeVars, repoVars, addVars
<1>1. UNCHANGED <<storeVars, repoVars, addVars>>
  BY DEF PruneDecide, Fingerprint, PruneRebuild, PruneBail, PruneCopyRegistry
<1>2. CASE PruneEnd
  <2>1. prPc \notin {"idle", "swap"}
    BY <1>2 DEF PruneDecide, Fingerprint, PruneRebuild, PruneBail, PruneCopyRegistry, PruneEnd, TypeOK
  <2>2. /\ aside' \subseteq Hashes /\ asideReg' \subseteq Repos /\ orphans' \subseteq Hashes
        /\ forsaken' \subseteq Repos
    BY <1>1 DEF TypeOK
  <2>3. QED
    BY <1>1, <1>2, <2>1, <2>2, EndStep
<1>3. CASE ~PruneEnd
  <2>1. TypeOK' /\ lock' = lock
    BY <1>1, <1>3 DEF PruneDecide, Fingerprint, PruneRebuild, PruneBail, PruneCopyRegistry, TypeOK
  <2>2. Writers' /\ InFlight' /\ BackedMarked' /\ Newcomers'
    BY <1>1, <2>1 DEF Writers, InFlight, BackedMarked, Newcomers
  <2>3. /\ \A q \in Repos : Needed(q)' = Needed(q)
        /\ Kept' = Kept /\ LeftBehind' = LeftBehind /\ Kept \subseteq Repos
    BY <1>1 DEF Needed, Kept, LeftBehind, TypeOK
  <2>4. prPc \in {"scan", "rebuild"} /\ prPc' \in {"rebuild", "aside"} /\ prLive' = prLive
    BY <1>3 DEF PruneDecide, Fingerprint, PruneRebuild, PruneBail, PruneCopyRegistry
  <2>5. Bytes'
    BY <1>1, <2>3, <2>4 DEF Bytes
  <2>6. Scanned'
    BY <1>1, <1>3, <2>3, <2>4 DEF Scanned, PruneDecide, Fingerprint, PruneRebuild, PruneBail, PruneCopyRegistry
  <2>7. Registrations'
    BY <1>1, <1>3, <2>3, <2>4 DEF Registrations, PruneDecide, Fingerprint, PruneRebuild, PruneBail, PruneCopyRegistry
  <2>8. QED
    BY <2>1, <2>2, <2>5, <2>6, <2>7
<1>4. QED
  BY <1>2, <1>3

(* The store is moved aside. *)
LEMMA MoveAsideStep ==
    ASSUME SharedInv, PruneMoveAside
    PROVE  SharedInv'
<1> USE SharedAssumption DEF SharedInv, PruneMoveAside, repoVars, addVars
<1>1. lock = Prune
  BY DEF TypeOK
<1>2. TypeOK'
  BY DEF TypeOK
<1>3. Writers' /\ InFlight' /\ BackedMarked' /\ Newcomers'
  BY <1>1 DEF Writers, InFlight, BackedMarked, Newcomers
<1>4. /\ \A q \in Repos : Needed(q)' = Needed(q)
      /\ Kept' = Kept /\ LeftBehind' = LeftBehind /\ Kept \subseteq Repos
  BY DEF Needed, Kept, LeftBehind, TypeOK
<1>5. Bytes' /\ Scanned' /\ Registrations'
  BY <1>4 DEF Bytes, Scanned, Registrations
<1>6. QED
  BY <1>2, <1>3, <1>5

(* The compacted store takes its place, or the backup returns, or neither  *)
(* can.                                                                    *)
LEMMA SwapStep ==
    ASSUME SharedInv, PruneSwap
    PROVE  SharedInv'
<1> USE SharedAssumption DEF SharedInv, PruneSwap, repoVars, addVars
<1>1. lock = Prune /\ prPc = "swap"
  BY DEF TypeOK
<1>2. /\ \A q \in Repos : Needed(q)' = Needed(q)
      /\ Kept' = Kept /\ Kept \subseteq Repos
  BY DEF Needed, Kept, TypeOK
<1>3. BackedMarked' /\ Newcomers' /\ InFlight'
  BY DEF InFlight, BackedMarked, Newcomers
<1>4. Writers'
  BY <1>1 DEF Writers
<1>5. CASE SwapDone
  <2>1. TypeOK'
    BY <1>5 DEF SwapDone, TypeOK
  <2>2. LeftBehind' = LeftBehind
    BY <1>5 DEF SwapDone, LeftBehind
  <2>3. \A q \in Kept : Needed(q) \subseteq prNew
    BY <1>1, <1>2 DEF Scanned, Needed
  <2>4. Bytes' /\ Scanned' /\ Registrations'
    BY <1>1, <1>2, <1>5, <2>2, <2>3 DEF SwapDone, Bytes, Scanned, Registrations
  <2>5. QED
    BY <1>3, <1>4, <2>1, <2>4
<1>6. CASE SwapRollback
  <2>1. TypeOK'
    BY <1>6 DEF SwapRollback, PruneEnd, TypeOK
  <2>2. LeftBehind' = LeftBehind
    BY <1>6 DEF SwapRollback, LeftBehind
  <2>3. Bytes' /\ Scanned' /\ Registrations'
    BY <1>1, <1>2, <1>6, <2>2 DEF SwapRollback, PruneEnd, Bytes, Scanned, Registrations
  <2>4. QED
    BY <1>3, <1>4, <2>1, <2>3
<1>7. CASE SwapBlocked
  <2>1. TypeOK'
    BY <1>7 DEF SwapBlocked, PruneEnd, TypeOK
  <2>2. aside \cup LeftBehind \subseteq LeftBehind'
    BY <1>7 DEF SwapBlocked, LeftBehind
  <2>3. Bytes' /\ Scanned' /\ Registrations'
    BY <1>1, <1>2, <1>7, <2>2 DEF SwapBlocked, PruneEnd, Bytes, Scanned, Registrations
  <2>4. QED
    BY <1>3, <1>4, <2>1, <2>3
<1>8. QED
  BY <1>5, <1>6, <1>7

(* The backup is removed once the compacted store is in place. *)
LEMMA RemoveBackupStep ==
    ASSUME SharedInv, PruneRemoveBackup
    PROVE  SharedInv'
<1>1. prPc \notin {"idle", "swap"} /\ orphans' \subseteq Hashes /\ forsaken' \subseteq Repos
  BY DEF SharedInv, TypeOK, PruneRemoveBackup, repoVars
<1>2. QED
  BY <1>1, EndStep DEF PruneRemoveBackup, repoVars, addVars

(* prune dies anywhere. *)
LEMMA CrashStep ==
    ASSUME SharedInv, PruneCrash
    PROVE  SharedInv'
<1> USE SharedAssumption DEF SharedInv, PruneCrash, repoVars, addVars
<1>1. orphans \subseteq orphans' /\ orphans' \subseteq orphans \cup aside
  OBVIOUS
<1>2. CASE prPc # "swap"
  <2>1. UNCHANGED torn
    BY <1>2 DEF TypeOK
  <2>2. orphans' \subseteq Hashes /\ forsaken' \subseteq Repos
    BY <1>1 DEF TypeOK
  <2>3. QED
    BY <1>1, <1>2, <2>1, <2>2, EndStep
<1>3. CASE prPc = "swap"
  <2>1. lock = Prune /\ torn' = TRUE /\ orphans' = orphans \cup aside
    BY <1>3 DEF TypeOK
  <2>2. TypeOK'
    BY <1>1, <2>1 DEF PruneEnd, TypeOK
  <2>3. Writers' /\ InFlight' /\ BackedMarked' /\ Newcomers'
    BY <2>1 DEF PruneEnd, Writers, InFlight, BackedMarked, Newcomers
  <2>4. /\ \A q \in Repos : Needed(q)' = Needed(q)
        /\ Kept' = Kept /\ Kept \subseteq Repos
    BY DEF Needed, Kept, TypeOK
  <2>5. aside \cup LeftBehind \subseteq LeftBehind'
    BY <2>1 DEF LeftBehind
  <2>6. Bytes' /\ Scanned' /\ Registrations'
    BY <1>3, <2>1, <2>4, <2>5 DEF PruneEnd, Bytes, Scanned, Registrations
  <2>7. QED
    BY <2>2, <2>3, <2>6
<1>4. QED
  BY <1>2, <1>3

-----------------------------------------------------------------------------
(* Every step preserves the invariant. *)
LEMMA NextShared ==
    ASSUME "readFails" \notin Env, SharedInv, [Next]_vars
    PROVE  SharedInv'
<1>1. CASE UNCHANGED vars
  BY <1>1 DEF vars, storeVars, repoVars, addVars, pruneVars, SharedInv, TypeOK, Writers, InFlight,
              BackedMarked, Newcomers, Bytes, Scanned, Registrations, Kept, Needed, LeftBehind
<1>2. ASSUME NEW r \in Repos, RepoStep(r)
      PROVE  SharedInv'
  <2>1. ASSUME NEW h \in Hashes,
               CleanWrite(r, h) \/ CleanHit(r, h) \/ DropRef(r, h) \/ Checkout(r, h)
        PROVE  SharedInv'
    BY <2>1, CleanWriteStep, CleanHitStep, OtherRepoSteps
  <2>2. CASE AddAbort(r)
    <3>1. addHash[r] \in Hashes
      BY <2>2 DEF SharedInv, InFlight, AddAbort
    <3>2. QED
      BY <2>2, <3>1, OtherRepoSteps
  <2>3. QED
    BY <1>2, <2>1, <2>2, InitLocalStep, CleanMarkStep, GitRecordStep DEF RepoStep
<1>3. CASE \E force \in BOOLEAN : PruneLock(force)
  BY <1>3, LockStep
<1>4. CASE PruneStep
  <2>1. CASE \/ PruneDecide \/ PruneBail \/ PruneCopyRegistry
             \/ \E h \in Hashes : PruneRebuild(h)
    BY <2>1, RebuildSteps
  <2>2. QED
    BY <1>4, <2>1, ListStep, ScanStep, MoveAsideStep, SwapStep, RemoveBackupStep DEF PruneStep
<1>5. CASE PruneCrash
  BY <1>5, CrashStep
<1>6. QED
  BY <1>1, <1>2, <1>3, <1>4, <1>5 DEF Next

(* The invariant implies the properties of the runs. *)
LEMMA SharedInvImplies == SharedInv => TypeOK /\ BytesSurvive /\ StoreComplete /\ RegistryKept
<1> SUFFICES ASSUME SharedInv PROVE TypeOK /\ BytesSurvive /\ StoreComplete /\ RegistryKept
  OBVIOUS
<1> USE DEF SharedInv
<1>1. \A r \in Repos : backed[r] \subseteq Needed(r)
  BY DEF Needed
<1>2. LeftBehind \subseteq orphans /\ (~torn => LeftBehind = {}) /\ Kept \subseteq Repos
  BY DEF LeftBehind, Kept, TypeOK
<1>3. BytesSurvive
  BY <1>1, <1>2 DEF BytesSurvive, Bytes
<1>4. StoreComplete
  BY <1>1, <1>2 DEF StoreComplete, Bytes
<1>5. RegistryKept
  BY DEF RegistryKept, Registrations
<1>6. QED
  BY <1>3, <1>4, <1>5

(* The state of the shared store keeps its type, and prune holds the store *)
(* lock exactly while it runs.                                             *)
THEOREM SharedTypeCorrect ==
    ASSUME "readFails" \notin Env
    PROVE  Spec => []TypeOK
<1>1. Init => SharedInv
  BY InitShared
<1>2. SharedInv /\ [Next]_vars => SharedInv'
  BY NextShared
<1>3. SharedInv => TypeOK
  BY SharedInvImplies
<1>4. QED
  BY <1>1, <1>2, <1>3, PTL DEF Spec

(* What a repository cleaned and never stopped reaching survives every     *)
(* prune, failed rename, crash and racing init-local, provided prune can   *)
(* read the repositories.                                                  *)
THEOREM PruneKeepsBytes ==
    ASSUME "readFails" \notin Env
    PROVE  Spec => []BytesSurvive
<1>1. Init => SharedInv
  BY InitShared
<1>2. SharedInv /\ [Next]_vars => SharedInv'
  BY NextShared
<1>3. SharedInv => BytesSurvive
  BY SharedInvImplies
<1>4. QED
  BY <1>1, <1>2, <1>3, PTL DEF Spec

(* ... in the store itself, outside the window between the two renames. *)
THEOREM PruneKeepsStore ==
    ASSUME "readFails" \notin Env
    PROVE  Spec => []StoreComplete
<1>1. Init => SharedInv
  BY InitShared
<1>2. SharedInv /\ [Next]_vars => SharedInv'
  BY NextShared
<1>3. SharedInv => StoreComplete
  BY SharedInvImplies
<1>4. QED
  BY <1>1, <1>2, <1>3, PTL DEF Spec

(* No swap drops the registration of a repository that prune must ask. *)
THEOREM PruneKeepsRegistry ==
    ASSUME "readFails" \notin Env
    PROVE  Spec => []RegistryKept
<1>1. Init => SharedInv
  BY InitShared
<1>2. SharedInv /\ [Next]_vars => SharedInv'
  BY NextShared
<1>3. SharedInv => RegistryKept
  BY SharedInvImplies
<1>4. QED
  BY <1>1, <1>2, <1>3, PTL DEF Spec
-----------------------------------------------------------------------------
(* What the finding about NothingReachableLost depends on.  Five kinds of  *)
(* behaviour can make prune drop a file that is still reached; with none   *)
(* of them it drops nothing.                                               *)
Unmarking == {"checkout", "reAdd", "addDuring", "readFails", "markFails"}

(* Everything reachable is backed, a recorded pointer is one that no prune *)
(* has seen without its reference, and no command runs beside a prune.     *)
AllBacked ==
    /\ \A r \in Repos : refs[r] \subseteq backed[r]
    /\ \A r \in Repos : addPc[r] = "record" => r \in fresh
    /\ prPc # "idle" => \A r \in Repos : addPc[r] = "idle"

(* Every step keeps that. *)
LEMMA AllBackedStep ==
    ASSUME Unmarking \cap Env = {}, SharedInv, AllBacked, [Next]_vars
    PROVE  AllBacked'
<1> USE SharedAssumption DEF AllBacked, storeVars, repoVars, addVars, pruneVars
<1>0. /\ "checkout" \notin Env /\ "reAdd" \notin Env /\ "addDuring" \notin Env
      /\ "readFails" \notin Env /\ "markFails" \notin Env
  BY DEF Unmarking
<1>1. TypeOK /\ Writers
  BY DEF SharedInv
<1>2. CASE UNCHANGED vars
  BY <1>2 DEF vars
<1>3. ASSUME NEW r \in Repos, RepoStep(r) PROVE AllBacked'
  <2>1. CASE InitLocal(r)
    BY <2>1 DEF InitLocal
  <2>2. CASE CleanMark(r)
    <3>1. fresh' = fresh \cup {r}
      BY <1>0, <2>2 DEF CleanMark
    <3>2. prPc = "idle"
      BY <1>1, <2>2 DEF CleanMark, AddStep, Writers, TypeOK
    <3>3. QED
      BY <1>1, <2>2, <3>1, <3>2 DEF CleanMark, AddStep, TypeOK
  <2>3. CASE GitRecord(r)
    BY <1>1, <2>3 DEF GitRecord, AddStep, TypeOK
  <2>4. CASE AddAbort(r)
    BY <1>1, <2>4 DEF AddAbort, TypeOK
  <2>5. ASSUME NEW h \in Hashes, CleanWrite(r, h) PROVE AllBacked'
    <3>1. prPc = "idle"
      BY <1>1, <2>5 DEF CleanWrite, TypeOK
    <3>2. QED
      BY <1>1, <2>5, <3>1 DEF CleanWrite, AddStep, TypeOK
  <2>6. ASSUME NEW h \in Hashes, DropRef(r, h) PROVE AllBacked'
    BY <1>1, <2>6 DEF DropRef, TypeOK
  <2>7. QED
    BY <1>0, <1>3, <2>1, <2>2, <2>3, <2>4, <2>5, <2>6 DEF RepoStep, CleanHit, Checkout
<1>4. ASSUME NEW force \in BOOLEAN, PruneLock(force) PROVE AllBacked'
  BY <1>0, <1>4 DEF PruneLock
<1>5. ASSUME prPc # "idle", UNCHANGED <<refs, backed, addPc>> PROVE AllBacked'
  BY <1>5
<1>6. CASE PruneStep \/ PruneCrash
  <2>1. prPc # "idle" /\ UNCHANGED <<refs, backed, addPc>>
    BY <1>6 DEF PruneStep, PruneList, PruneScan, PruneDecide, Fingerprint, PruneRebuild, PruneBail, PruneCopyRegistry,
                PruneMoveAside, PruneSwap, PruneRemoveBackup, PruneCrash
  <2>2. QED
    BY <1>5, <2>1
<1>7. QED
  BY <1>2, <1>3, <1>4, <1>6 DEF Next

(* prune loses nothing that a registered repository reaches, as long as    *)
(* every file a repository reaches is one it cleaned and marked itself,    *)
(* git commands and prunes do not overlap, and the repositories can be     *)
(* read; forced or killed prunes, failing renames and init-local at any    *)
(* time do not matter.                                                     *)
THEOREM PruneLosesOnlyUnmarked ==
    ASSUME Unmarking \cap Env = {}
    PROVE  Spec => []NothingReachableLost
<1>0. "readFails" \notin Env
  BY DEF Unmarking
<1>1. Init => SharedInv /\ AllBacked
  BY InitShared DEF Init, AllBacked
<1>2. SharedInv /\ AllBacked /\ [Next]_vars => SharedInv' /\ AllBacked'
  BY <1>0, NextShared, AllBackedStep
<1>3. SharedInv /\ AllBacked => NothingReachableLost
  <2> SUFFICES ASSUME SharedInv, AllBacked PROVE NothingReachableLost
    OBVIOUS
  <2>1. BytesSurvive /\ Kept \subseteq Repos
    BY SharedInvImplies DEF SharedInv, TypeOK, Kept
  <2>2. QED
    BY <2>1 DEF BytesSurvive, NothingReachableLost, AllBacked
<1>4. QED
  BY <1>1, <1>2, <1>3, PTL DEF Spec
=============================================================================
