--------------------------- MODULE CasServerProofs ---------------------------
(***************************************************************************)
(* Proofs about CasServer, for any number of concurrent requests, xorbs,   *)
(* files, repositories and quotas.                                         *)
(***************************************************************************)
EXTENDS CasServer, SumTheorems, FiniteSetTheorems, TLAPS

(* Past the gate a request's xorbs are stored. *)
Gated == \A r \in Requests : pc[r] \in ShardSteps \ {"sGate"} =>
             \A x \in body[r].cas \cup Uses(body[r].files) : blob[x] # None

(* Past its layout a xorb's ranges are known. *)
LayoutFirst == \A r \in Requests : pc[r] \in {"xProbe", "xPut"} => layout[body[r].xorb] # None

(* The CAS blocks left to register are the shard's. *)
TodoGated == \A r \in Requests : pc[r] = "sXorbs" => todo[r] \subseteq body[r].cas

(* Before its files are registered a shard is archived. *)
ArchiveFirst == \A r \in Requests : pc[r] = "sRegister" =>
                    DOMAIN body[r].files \subseteq archived

(* A term list is one of the file's own, over stored xorbs, and a          *)
(* registered file has one.                                                *)
TermsWhole ==
    /\ \A f \in Files : terms[f] # <<>> =>
           /\ terms[f] \in Segs[f]
           /\ \A x \in Range(terms[f]) : blob[x] # None
    /\ \A f \in Files, p \in Repos : <<f, p>> \in rows => terms[f] # <<>>

(* Where no two encodings met, the layout describes the body, now and once *)
(* the uploads under way have stored theirs.                               *)
BodyMatches ==
    /\ \A x \in Xorbs : blob[x] # None => blob[x] = layout[x] \/ x \in contested
    /\ \A r \in Requests :
         /\ pc[r] = "xProbe" => \/ layout[body[r].xorb] = body[r].enc
                                \/ blob[body[r].xorb] # None
                                \/ body[r].xorb \in contested
         /\ pc[r] = "xPut" => \/ layout[body[r].xorb] = body[r].enc
                              \/ body[r].xorb \in contested

CasInv ==
    /\ TypeOK
    /\ BlobsHaveLayout /\ LayoutFirst
    /\ Gated /\ TodoGated
    /\ RowsCharged
    /\ ArchiveFirst /\ RowsArchived
    /\ TermsWhole

-----------------------------------------------------------------------------
(* What the request bodies are made of. *)

(* A term list is a non-empty sequence of known xorbs. *)
LEMMA SegFacts ==
    ASSUME NEW f \in Files, NEW t \in Segs[f]
    PROVE  t # <<>> /\ t \in Seq(Xorbs) /\ Range(t) \subseteq Xorbs
<1>1. t \in Seq(Xorbs) /\ t # <<>>
  BY CasAssumption
<1>2. QED
  BY <1>1 DEF Range

(* The terms of a shard are cuts of its own files. *)
LEMMA ShardFacts ==
    ASSUME NEW s \in Shards
    PROVE  /\ s.repo \in Repos /\ s.cas \subseteq Xorbs /\ DOMAIN s.files \subseteq Files
           /\ \A f \in DOMAIN s.files : s.files[f] \in Segs[f]
           /\ Uses(s.files) \subseteq Xorbs
<1>1. PICK fs \in SUBSET Files : s \in [repo : Repos, files : Cuts(fs), cas : SUBSET Xorbs]
  BY DEF Shards
<1>2. s.repo \in Repos /\ s.files \in Cuts(fs) /\ s.cas \subseteq Xorbs
  BY <1>1
<1>3. DOMAIN s.files = fs /\ \A f \in fs : s.files[f] \in Segs[f]
  BY <1>2 DEF Cuts
<1>4. Uses(s.files) \subseteq Xorbs
  BY <1>3, SegFacts DEF Uses
<1>5. QED
  BY <1>2, <1>3, <1>4

(* The rows of a set of xorbs that have one, and their bytes. *)
Known(xs) == {x \in xs : xorbRow[x] # None}

LEMMA KnownBytes ==
    ASSUME TypeOK, NEW xs \in SUBSET Xorbs
    PROVE  /\ RowBytes(xs) = SumFunctionOnSet(xorbRow, Known(xs)) /\ RowBytes(xs) \in Nat
           /\ IsFiniteSet(Known(xs)) /\ \A x \in Known(xs) : xorbRow[x] \in Nat
<1>1. IsFiniteSet(Known(xs))
  BY CasAssumption, FS_Subset DEF Known
<1>2. \A x \in Known(xs) : xorbRow[x] \in Nat
  BY DEF TypeOK, Known
<1>3. RowBytes(xs) = SumFunctionOnSet(xorbRow, Known(xs))
  BY DEF RowBytes, Known
<1>4. SumFunctionOnSet(xorbRow, Known(xs)) \in Nat
  BY <1>1, <1>2, SumNat
<1>5. QED
  BY <1>1, <1>2, <1>3, <1>4

(* The xorbs an owner is charged for. *)
LEMMA OwnedXorbs ==
    ASSUME TypeOK, NEW o
    PROVE  XorbsOfOwner(o) \in SUBSET Xorbs /\ StoredBytesForOwner(o) \in Nat
<1>1. \A f \in Files : Range(terms[f]) \subseteq Xorbs
  <2> SUFFICES ASSUME NEW f \in Files PROVE Range(terms[f]) \subseteq Xorbs
    OBVIOUS
  <2>1. CASE terms[f] = <<>>
    BY <2>1 DEF Range
  <2>2. CASE terms[f] # <<>>
    <3>1. PICK g \in Files : terms[f] \in Segs[g]
      BY <2>2 DEF TypeOK
    <3>2. QED
      BY <3>1, SegFacts
  <2>3. QED
    BY <2>1, <2>2
<1>2. XorbsOfOwner(o) \in SUBSET Xorbs
  BY <1>1 DEF XorbsOfOwner, FilesOfOwner
<1>3. QED
  BY <1>2, KnownBytes DEF StoredBytesForOwner

(* The initial state satisfies the invariant. *)
LEMMA InitCas == Init => CasInv
<1> SUFFICES ASSUME Init PROVE CasInv
  OBVIOUS
<1>1. TypeOK
  BY DEF Init, TypeOK, XorbSteps, ShardSteps
<1>2. BlobsHaveLayout /\ LayoutFirst /\ Gated /\ TodoGated
  BY DEF Init, BlobsHaveLayout, LayoutFirst, Gated, TodoGated, ShardSteps
<1>3. RowsCharged /\ ArchiveFirst /\ RowsArchived /\ TermsWhole
  BY DEF Init, RowsCharged, ArchiveFirst, RowsArchived, TermsWhole
<1>4. QED
  BY <1>1, <1>2, <1>3 DEF CasInv

(* A request that ends, however it ends, touches neither store. *)
LEMMA DoneStep ==
    ASSUME CasInv, NEW r \in Requests, Done(r), UNCHANGED <<metaVars, blobVars>>
    PROVE  CasInv'
<1> USE DEF CasInv, metaVars, blobVars
<1>1. TypeOK'
  BY DEF TypeOK, Done, XorbSteps, ShardSteps
<1>2. BlobsHaveLayout' /\ LayoutFirst'
  BY DEF TypeOK, Done, BlobsHaveLayout, LayoutFirst
<1>3. Gated' /\ TodoGated'
  BY DEF TypeOK, Done, Gated, TodoGated, ShardSteps
<1>4. RowsCharged' /\ ArchiveFirst' /\ RowsArchived' /\ TermsWhole'
  BY DEF TypeOK, Done, RowsCharged, ArchiveFirst, RowsArchived, TermsWhole
<1>5. QED
  BY <1>1, <1>2, <1>3, <1>4

(* An upload of a xorb names a known xorb and an encoding. *)
LEMMA XorbFacts ==
    ASSUME TypeOK, NEW r \in Requests, pc[r] \in XorbSteps
    PROVE  body[r].xorb \in Xorbs /\ body[r].enc \in Encodings
BY DEF TypeOK, XorbBodies

-----------------------------------------------------------------------------
(* The steps of upload_xorb. *)

(* A xorb arrives. *)
LEMMA XorbArrival ==
    ASSUME CasInv, NEW r \in Requests,
           NEW p \in Repos, NEW x \in Xorbs, NEW e \in Encodings, UploadXorb(r, p, x, e)
    PROVE  CasInv'
<1> USE DEF CasInv, metaVars, blobVars, Goto
<1>1. TypeOK'
  <2>1. [repo |-> p, xorb |-> x, enc |-> e] \in XorbBodies
    BY DEF XorbBodies
  <2>2. QED
    BY <2>1 DEF UploadXorb, Arrives, TypeOK, XorbSteps, ShardSteps
<1>2. BlobsHaveLayout' /\ LayoutFirst'
  BY DEF UploadXorb, Arrives, TypeOK, BlobsHaveLayout, LayoutFirst
<1>3. Gated' /\ TodoGated'
  BY DEF UploadXorb, Arrives, TypeOK, Gated, TodoGated, ShardSteps
<1>4. RowsCharged' /\ RowsArchived' /\ TermsWhole'
  BY DEF UploadXorb, Arrives, TypeOK, RowsCharged, RowsArchived, TermsWhole
<1>5. ArchiveFirst'
  BY DEF UploadXorb, Arrives, TypeOK, ArchiveFirst
<1>6. QED
  BY <1>1, <1>2, <1>3, <1>4, <1>5

(* The ranges are recorded once. *)
LEMMA LayoutStep ==
    ASSUME CasInv, NEW r \in Requests, XorbLayout(r)
    PROVE  CasInv'
<1> USE DEF CasInv, metaVars, blobVars, Goto
<1>0. body[r].xorb \in Xorbs /\ body[r].enc \in Encodings
  BY XorbFacts DEF XorbLayout, TypeOK, XorbSteps
<1>1. TypeOK'
  BY <1>0 DEF XorbLayout, TypeOK, XorbSteps, ShardSteps
<1>2. BlobsHaveLayout' /\ LayoutFirst'
  BY <1>0, XorbFacts, CasAssumption DEF XorbLayout, TypeOK, BlobsHaveLayout, LayoutFirst, XorbSteps
<1>3. Gated' /\ TodoGated'
  BY DEF XorbLayout, TypeOK, Gated, TodoGated, ShardSteps
<1>4. RowsCharged' /\ RowsArchived' /\ TermsWhole'
  BY <1>0, CasAssumption DEF XorbLayout, TypeOK, RowsCharged, RowsArchived, TermsWhole
<1>5. ArchiveFirst'
  BY DEF XorbLayout, TypeOK, ArchiveFirst
<1>6. QED
  BY <1>1, <1>2, <1>3, <1>4, <1>5

(* The body is stored once its ranges are known. *)
LEMMA PutStep ==
    ASSUME CasInv, NEW r \in Requests, XorbPut(r)
    PROVE  CasInv'
<1> USE DEF CasInv, metaVars, blobVars, Goto
<1>0. body[r].xorb \in Xorbs /\ body[r].enc \in Encodings
  BY XorbFacts DEF XorbPut, TypeOK, XorbSteps
<1>1. TypeOK'
  BY <1>0 DEF XorbPut, Done, TypeOK, XorbSteps, ShardSteps
<1>2. BlobsHaveLayout' /\ LayoutFirst'
  BY <1>0 DEF XorbPut, Done, TypeOK, BlobsHaveLayout, LayoutFirst
<1>3. Gated' /\ TodoGated'
  BY <1>0, CasAssumption DEF XorbPut, Done, TypeOK, Gated, TodoGated, ShardSteps
<1>4. RowsCharged' /\ RowsArchived' /\ TermsWhole'
  BY <1>0, CasAssumption DEF XorbPut, Done, TypeOK, RowsCharged, RowsArchived, TermsWhole
<1>5. ArchiveFirst'
  BY DEF XorbPut, Done, TypeOK, ArchiveFirst
<1>6. QED
  BY <1>1, <1>2, <1>3, <1>4, <1>5

(* A xorb is admitted, or rejected for its owner's quota. *)
LEMMA AdmitStep ==
    ASSUME CasInv, NEW r \in Requests, XorbAdmit(r)
    PROVE  CasInv'
<1>1. CASE Done(r)
  BY <1>1, DoneStep DEF XorbAdmit
<1>2. CASE ~Done(r)
  <2> USE DEF CasInv, metaVars, blobVars, Goto
  <2>1. /\ pc[r] \in XorbSteps /\ pc' = [pc EXCEPT ![r] = "xLayout"]
        /\ pc[r] = "xProbe" \/ "xLayout" # "xPut"
        /\ UNCHANGED <<layout, xorbRow, rows, terms, quota, contested, blob, archived, body, limit, used, todo>>
    BY <1>2 DEF XorbAdmit, XorbSteps
  <2>2. TypeOK'
    BY <2>1 DEF TypeOK, XorbSteps, ShardSteps
  <2>3. BlobsHaveLayout' /\ LayoutFirst'
    BY <2>1 DEF TypeOK, BlobsHaveLayout, LayoutFirst
  <2>4. Gated' /\ TodoGated'
    BY <2>1 DEF TypeOK, Gated, TodoGated, ShardSteps
  <2>5. RowsCharged' /\ RowsArchived' /\ TermsWhole' /\ ArchiveFirst'
    BY <2>1 DEF TypeOK, RowsCharged, RowsArchived, TermsWhole, ArchiveFirst
  <2>6. QED
    BY <2>2, <2>3, <2>4, <2>5
<1>3. QED
  BY <1>1, <1>2

(* The store has the body already, or it is to be written. *)
LEMMA ProbeStep ==
    ASSUME CasInv, NEW r \in Requests, XorbProbe(r)
    PROVE  CasInv'
<1>1. CASE Done(r)
  BY <1>1, DoneStep DEF XorbProbe
<1>2. CASE ~Done(r)
  <2> USE DEF CasInv, metaVars, blobVars, Goto
  <2>1. /\ pc[r] \in XorbSteps /\ pc' = [pc EXCEPT ![r] = "xPut"]
        /\ pc[r] = "xProbe" \/ "xPut" # "xPut"
        /\ UNCHANGED <<layout, xorbRow, rows, terms, quota, contested, blob, archived, body, limit, used, todo>>
    BY <1>2 DEF XorbProbe, XorbSteps
  <2>2. TypeOK'
    BY <2>1 DEF TypeOK, XorbSteps, ShardSteps
  <2>3. BlobsHaveLayout' /\ LayoutFirst'
    BY <2>1 DEF TypeOK, BlobsHaveLayout, LayoutFirst
  <2>4. Gated' /\ TodoGated'
    BY <2>1 DEF TypeOK, Gated, TodoGated, ShardSteps
  <2>5. RowsCharged' /\ RowsArchived' /\ TermsWhole' /\ ArchiveFirst'
    BY <2>1 DEF TypeOK, RowsCharged, RowsArchived, TermsWhole, ArchiveFirst
  <2>6. QED
    BY <2>2, <2>3, <2>4, <2>5
<1>3. QED
  BY <1>1, <1>2

-----------------------------------------------------------------------------
(* The steps of upload_shard. *)

(* A shard arrives. *)
LEMMA ShardArrival ==
    ASSUME CasInv, NEW r \in Requests, NEW s \in Shards, UploadShard(r, s)
    PROVE  CasInv'
<1> USE DEF CasInv, metaVars, blobVars, Goto
<1>1. TypeOK'
  BY DEF UploadShard, Arrives, TypeOK, XorbSteps, ShardSteps
<1>2. BlobsHaveLayout' /\ LayoutFirst'
  BY DEF UploadShard, Arrives, TypeOK, BlobsHaveLayout, LayoutFirst
<1>3. Gated' /\ TodoGated'
  BY DEF UploadShard, Arrives, TypeOK, Gated, TodoGated, ShardSteps
<1>4. RowsCharged' /\ RowsArchived' /\ TermsWhole'
  BY DEF UploadShard, Arrives, TypeOK, RowsCharged, RowsArchived, TermsWhole
<1>5. ArchiveFirst'
  BY DEF UploadShard, Arrives, TypeOK, ArchiveFirst
<1>6. QED
  BY <1>1, <1>2, <1>3, <1>4, <1>5

(* The gate lets a shard pass whose xorbs are all stored. *)
LEMMA GateStep ==
    ASSUME CasInv, NEW r \in Requests, ShardGate(r)
    PROVE  CasInv'
<1>1. CASE Done(r)
  BY <1>1, DoneStep DEF ShardGate
<1>2. CASE ~Done(r)
  <2> USE DEF CasInv, metaVars, blobVars, Goto
  <2>1. /\ pc[r] = "sGate" /\ pc' = [pc EXCEPT ![r] = "sXorbs"]
        /\ todo' = [todo EXCEPT ![r] = body[r].cas]
        /\ \A x \in body[r].cas \cup Uses(body[r].files) : blob[x] # None
        /\ UNCHANGED <<layout, xorbRow, rows, terms, quota, contested, blob, archived, body, limit, used>>
    BY <1>2 DEF ShardGate
  <2>2. body[r] \in Shards /\ body[r].cas \subseteq Xorbs
    BY <2>1, ShardFacts DEF TypeOK, ShardSteps
  <2>3. TypeOK'
    BY <2>1, <2>2 DEF TypeOK, XorbSteps, ShardSteps
  <2>4. BlobsHaveLayout' /\ LayoutFirst'
    BY <2>1 DEF TypeOK, BlobsHaveLayout, LayoutFirst
  <2>5. Gated' /\ TodoGated'
    BY <2>1 DEF TypeOK, Gated, TodoGated, ShardSteps
  <2>6. RowsCharged' /\ RowsArchived' /\ TermsWhole' /\ ArchiveFirst'
    BY <2>1 DEF TypeOK, RowsCharged, RowsArchived, TermsWhole, ArchiveFirst
  <2>7. QED
    BY <2>3, <2>4, <2>5, <2>6
<1>3. QED
  BY <1>1, <1>2

(* A CAS block is registered at the size of its recorded frames. *)
LEMMA BlockStep ==
    ASSUME CasInv, NEW r \in Requests, NEW x \in Xorbs, ShardXorb(r, x)
    PROVE  CasInv'
<1> USE DEF CasInv, metaVars, blobVars, Goto
<1>0. pc[r] = "sXorbs" /\ x \in todo[r] /\ x \in body[r].cas
  BY DEF ShardXorb, TodoGated
<1>a. blob[x] # None
  BY <1>0 DEF Gated, ShardSteps
<1>b. layout[x] # None /\ layout[x] \in Encodings
  BY <1>a DEF BlobsHaveLayout, TypeOK
<1>c. SizeOf[x][layout[x]] \in Nat
  BY <1>b, CasAssumption
<1>1. TypeOK'
  BY <1>0, <1>b, <1>c DEF ShardXorb, TypeOK, XorbSteps, ShardSteps
<1>2. BlobsHaveLayout' /\ LayoutFirst'
  BY DEF ShardXorb, TypeOK, BlobsHaveLayout, LayoutFirst
<1>3. Gated' /\ TodoGated'
  BY DEF ShardXorb, TypeOK, Gated, TodoGated, ShardSteps
<1>4. RowsCharged' /\ RowsArchived' /\ TermsWhole'
  BY <1>0, <1>b, <1>c, CasAssumption DEF ShardXorb, TypeOK, RowsCharged, RowsArchived, TermsWhole
<1>5. ArchiveFirst'
  BY DEF ShardXorb, TypeOK, ArchiveFirst
<1>6. QED
  BY <1>1, <1>2, <1>3, <1>4, <1>5

(* The quota and the usage are read. *)
LEMMA UsageStep ==
    ASSUME CasInv, NEW r \in Requests, ShardUsage(r)
    PROVE  CasInv'
<1> USE DEF CasInv, metaVars, blobVars, Goto
<1>0. quota[OwnerOf[body[r].repo]] \in Limits \cup {NoLimit}
  BY ShardFacts, CasAssumption DEF ShardUsage, TypeOK, ShardSteps
<1>a. StoredBytesForOwner(OwnerOf[body[r].repo]) \in Nat
  BY OwnedXorbs
<1>1. TypeOK'
  BY <1>0, <1>a DEF ShardUsage, TypeOK, XorbSteps, ShardSteps
<1>2. BlobsHaveLayout' /\ LayoutFirst'
  BY DEF ShardUsage, TypeOK, BlobsHaveLayout, LayoutFirst
<1>3. Gated' /\ TodoGated'
  BY DEF ShardUsage, TypeOK, Gated, TodoGated, ShardSteps
<1>4. RowsCharged' /\ RowsArchived' /\ TermsWhole'
  BY DEF ShardUsage, TypeOK, RowsCharged, RowsArchived, TermsWhole
<1>5. ArchiveFirst'
  BY DEF ShardUsage, TypeOK, ArchiveFirst
<1>6. QED
  BY <1>1, <1>2, <1>3, <1>4, <1>5

(* A shard fits the quota, or is rejected. *)
LEMMA QuotaStep ==
    ASSUME CasInv, NEW r \in Requests, ShardQuota(r)
    PROVE  CasInv'
<1>1. CASE Done(r)
  BY <1>1, DoneStep DEF ShardQuota
<1>2. CASE ~Done(r)
  <2> USE DEF CasInv, metaVars, blobVars, Goto
  <2>1. /\ pc[r] = "sQuota" /\ pc' = [pc EXCEPT ![r] = "sArchive"]
        /\ UNCHANGED <<layout, xorbRow, rows, terms, quota, contested, blob, archived, body, limit, used, todo>>
    BY <1>2 DEF ShardQuota
  <2>2. TypeOK'
    BY <2>1 DEF TypeOK, XorbSteps, ShardSteps
  <2>3. BlobsHaveLayout' /\ LayoutFirst'
    BY <2>1 DEF TypeOK, BlobsHaveLayout, LayoutFirst
  <2>4. Gated' /\ TodoGated'
    BY <2>1 DEF TypeOK, Gated, TodoGated, ShardSteps
  <2>5. RowsCharged' /\ RowsArchived' /\ TermsWhole' /\ ArchiveFirst'
    BY <2>1 DEF TypeOK, RowsCharged, RowsArchived, TermsWhole, ArchiveFirst
  <2>6. QED
    BY <2>2, <2>3, <2>4, <2>5
<1>3. QED
  BY <1>1, <1>2

(* The shard is archived before its files are registered. *)
LEMMA ArchiveStep ==
    ASSUME CasInv, NEW r \in Requests, ShardArchive(r)
    PROVE  CasInv'
<1> USE DEF CasInv, metaVars, blobVars, Goto
<1>0. body[r] \in Shards /\ body[r].cas \subseteq Xorbs /\ DOMAIN body[r].files \subseteq Files
  BY ShardFacts DEF ShardArchive, TypeOK, ShardSteps
<1>1. TypeOK'
  BY <1>0 DEF ShardArchive, TypeOK, XorbSteps, ShardSteps
<1>2. BlobsHaveLayout' /\ LayoutFirst'
  BY DEF ShardArchive, TypeOK, BlobsHaveLayout, LayoutFirst
<1>3. Gated' /\ TodoGated'
  BY DEF ShardArchive, TypeOK, Gated, TodoGated, ShardSteps
<1>4. RowsCharged' /\ RowsArchived' /\ TermsWhole'
  BY DEF ShardArchive, TypeOK, RowsCharged, RowsArchived, TermsWhole
<1>5. ArchiveFirst'
  BY DEF ShardArchive, TypeOK, ArchiveFirst
<1>6. QED
  BY <1>1, <1>2, <1>3, <1>4, <1>5

(* The files are registered, and keep the terms they had. *)
LEMMA RegisterStep ==
    ASSUME CasInv, NEW r \in Requests, ShardRegister(r)
    PROVE  CasInv'
<1> USE DEF CasInv, metaVars, blobVars, Goto
<1>0. /\ body[r].repo \in Repos /\ DOMAIN body[r].files \subseteq Files
      /\ \A f \in DOMAIN body[r].files : body[r].files[f] \in Segs[f] /\ body[r].files[f] # <<>>
      /\ \A f \in DOMAIN body[r].files : \A x \in Range(body[r].files[f]) : blob[x] # None
  <2>1. pc[r] = "sRegister" /\ body[r] \in Shards
    BY DEF ShardRegister, TypeOK, ShardSteps
  <2>2. \A x \in Uses(body[r].files) : blob[x] # None
    BY <2>1 DEF Gated, ShardSteps
  <2>3. QED
    BY <2>1, <2>2, ShardFacts, SegFacts DEF Uses
<1>1. TypeOK'
  <2>1. rows' \subseteq Files \X Repos
    BY <1>0 DEF ShardRegister, TypeOK
  <2>2. terms' \in [Files -> {<<>>} \cup UNION {Segs[f] : f \in Files}]
    BY <1>0 DEF ShardRegister, TermsAfter, TypeOK
  <2>3. QED
    BY <2>1, <2>2 DEF ShardRegister, Done, TypeOK, XorbSteps, ShardSteps
<1>2. BlobsHaveLayout' /\ LayoutFirst'
  BY DEF ShardRegister, Done, TypeOK, BlobsHaveLayout, LayoutFirst
<1>3. Gated' /\ TodoGated'
  BY DEF ShardRegister, Done, TypeOK, Gated, TodoGated, ShardSteps
<1>4. RowsCharged' /\ RowsArchived' /\ TermsWhole'
  <2>1. RowsCharged'
    BY DEF ShardRegister, RowsCharged
  <2>2. RowsArchived'
    BY <1>0 DEF ShardRegister, TypeOK, RowsArchived, ArchiveFirst
  <2>3. TermsWhole'
    BY <1>0 DEF ShardRegister, TermsAfter, TypeOK, TermsWhole
  <2>4. QED
    BY <2>1, <2>2, <2>3
<1>5. ArchiveFirst'
  BY DEF ShardRegister, Done, TypeOK, ArchiveFirst
<1>6. QED
  BY <1>1, <1>2, <1>3, <1>4, <1>5

(* An administrator changes a quota. *)
LEMMA QuotaSet ==
    ASSUME CasInv, NEW o \in Owners, NEW q \in Limits \cup {NoLimit}, SetOwnerQuota(o, q)
    PROVE  CasInv'
<1> USE DEF CasInv, SetOwnerQuota, blobVars, reqVars
<1>1. TypeOK'
  BY DEF TypeOK
<1>2. BlobsHaveLayout' /\ LayoutFirst' /\ Gated' /\ TodoGated'
  BY DEF BlobsHaveLayout, LayoutFirst, Gated, TodoGated
<1>3. RowsCharged' /\ ArchiveFirst' /\ RowsArchived' /\ TermsWhole'
  BY DEF RowsCharged, ArchiveFirst, RowsArchived, TermsWhole
<1>4. QED
  BY <1>1, <1>2, <1>3

-----------------------------------------------------------------------------
(* Every step keeps the invariant. *)
LEMMA CasStep ==
    ASSUME CasInv, [Next]_vars
    PROVE  CasInv'
<1>1. CASE \E r \in Requests : Arrival(r)
  BY <1>1, XorbArrival, ShardArrival, CasAssumption DEF Arrival
<1>2. CASE \E r \in Requests : XorbAdmit(r) \/ XorbLayout(r) \/ XorbProbe(r) \/ XorbPut(r)
  BY <1>2, AdmitStep, LayoutStep, ProbeStep, PutStep
<1>3. CASE \E r \in Requests : ShardGate(r) \/ (\E x \in Xorbs : ShardXorb(r, x))
  BY <1>3, GateStep, BlockStep
<1>4. CASE \E r \in Requests : \/ ShardUsage(r) \/ ShardQuota(r)
                             \/ ShardArchive(r) \/ ShardRegister(r)
  BY <1>4, UsageStep, QuotaStep, ArchiveStep, RegisterStep
<1>5. CASE \E r \in Requests : RequestFails(r)
  BY <1>5, DoneStep DEF RequestFails
<1>6. CASE \E o \in Owners, q \in Limits \cup {NoLimit} : SetOwnerQuota(o, q)
  BY <1>6, QuotaSet
<1>7. CASE UNCHANGED vars
  <2> USE <1>7 DEF CasInv, vars, metaVars, blobVars, reqVars
  <2>1. TypeOK'
    BY DEF TypeOK
  <2>2. BlobsHaveLayout' /\ LayoutFirst' /\ Gated' /\ TodoGated'
    BY DEF BlobsHaveLayout, LayoutFirst, Gated, TodoGated
  <2>3. RowsCharged' /\ ArchiveFirst' /\ RowsArchived' /\ TermsWhole'
    BY DEF RowsCharged, ArchiveFirst, RowsArchived, TermsWhole
  <2>4. QED
    BY <2>1, <2>2, <2>3
<1>8. QED
  BY <1>1, <1>2, <1>3, <1>4, <1>5, <1>6, <1>7 DEF Next, HandlerStep

LEMMA CasInvHolds == Spec => []CasInv
BY InitCas, CasStep, PTL DEF Spec

(* Rows of xorbs and terms are write-once, and files stay registered. *)
Grows ==
    /\ \A x \in Xorbs : xorbRow[x] # None => xorbRow'[x] = xorbRow[x]
    /\ rows \subseteq rows'
    /\ \A f \in Files : terms[f] # <<>> => terms'[f] = terms[f]

LEMMA StoreGrows ==
    ASSUME CasInv, [Next]_vars
    PROVE  Grows
<1> USE DEF metaVars, blobVars, reqVars, vars, Grows, CasInv, TypeOK
<1>1. CASE \E r \in Requests : ShardRegister(r)
  BY <1>1 DEF ShardRegister, TermsAfter
<1>2. CASE \E r \in Requests : Arrival(r) \/ RequestFails(r)
  BY <1>2 DEF Arrival, UploadXorb, UploadShard, Arrives, RequestFails
<1>3. CASE \E r \in Requests : XorbAdmit(r) \/ XorbLayout(r) \/ XorbProbe(r) \/ XorbPut(r)
  BY <1>3 DEF XorbAdmit, XorbLayout, XorbProbe, XorbPut
<1>4. CASE \E r \in Requests : ShardGate(r) \/ ShardUsage(r) \/ ShardQuota(r) \/ ShardArchive(r)
  BY <1>4 DEF ShardGate, ShardUsage, ShardQuota, ShardArchive
<1>5. CASE \E r \in Requests, x \in Xorbs : ShardXorb(r, x)
  BY <1>5 DEF ShardXorb
<1>6. CASE \E o \in Owners, q \in Limits \cup {NoLimit} : SetOwnerQuota(o, q)
  BY <1>6 DEF SetOwnerQuota
<1>7. CASE UNCHANGED vars
  BY <1>7
<1>8. QED
  BY <1>1, <1>2, <1>3, <1>4, <1>5, <1>6, <1>7 DEF Next, HandlerStep

(* What a step leaves of the two stores, for a xorb that has a body. *)
LEMMA StoredStep ==
    ASSUME CasInv, [Next]_vars, NEW x \in Xorbs, blob[x] # None
    PROVE  /\ layout'[x] = layout[x] /\ (x \in contested' <=> x \in contested)
           /\ blob'[x] # None
<1> USE DEF metaVars, blobVars, reqVars, vars
<1>1. TypeOK /\ layout[x] # None
  BY DEF CasInv, BlobsHaveLayout
<1>2. CASE \E r \in Requests : XorbLayout(r)
  BY <1>1, <1>2 DEF TypeOK, XorbLayout
<1>3. CASE \E r \in Requests : XorbPut(r)
  <2>1. PICK r \in Requests : XorbPut(r)
    BY <1>3
  <2>2. body[r].enc # None
    BY <1>1, <2>1, XorbFacts, CasAssumption DEF XorbPut, XorbSteps
  <2>3. QED
    BY <1>1, <2>1, <2>2 DEF TypeOK, XorbPut
<1>4. CASE \E r \in Requests : Arrival(r) \/ RequestFails(r)
  BY <1>4 DEF Arrival, UploadXorb, UploadShard, Arrives, RequestFails
<1>5. CASE \E r \in Requests : XorbAdmit(r) \/ XorbProbe(r)
  BY <1>5 DEF XorbAdmit, XorbProbe
<1>6. CASE \E r \in Requests : \/ ShardGate(r) \/ (\E y \in Xorbs : ShardXorb(r, y))
                             \/ ShardUsage(r) \/ ShardQuota(r)
  BY <1>6 DEF ShardGate, ShardXorb, ShardUsage, ShardQuota
<1>7. CASE \E r \in Requests : ShardArchive(r) \/ ShardRegister(r)
  BY <1>7 DEF ShardArchive, ShardRegister
<1>8. CASE \E o \in Owners, q \in Limits \cup {NoLimit} : SetOwnerQuota(o, q)
  BY <1>8 DEF SetOwnerQuota
<1>9. CASE UNCHANGED vars
  BY <1>9
<1>10. QED
  BY <1>2, <1>3, <1>4, <1>5, <1>6, <1>7, <1>8, <1>9 DEF Next, HandlerStep

(* A step that starts no probe and no write, and touches neither the       *)
(* layouts nor the bodies.                                                 *)
LEMMA MatchKept ==
    ASSUME TypeOK, BodyMatches, UNCHANGED <<layout, blob, contested>>,
           \A r \in Requests : pc'[r] \in {"xProbe", "xPut"} =>
               pc'[r] = pc[r] /\ body'[r] = body[r]
    PROVE  BodyMatches'
BY DEF BodyMatches

(* Every step keeps it: an upload whose encoding is not that of the layout *)
(* either finds a body, and stores none, or makes its xorb contested.      *)
LEMMA MatchStep ==
    ASSUME CasInv, BodyMatches, [Next]_vars
    PROVE  BodyMatches'
<1> USE DEF metaVars, blobVars, reqVars, vars, Goto, Done
<1>0. TypeOK /\ TypeOK'
  BY CasStep DEF CasInv
<1>1. ASSUME NEW r \in Requests, XorbLayout(r) PROVE BodyMatches'
  <2> DEFINE x == body[r].xorb
  <2>1. x \in Xorbs /\ body[r].enc \in Encodings
    BY <1>0, <1>1, XorbFacts DEF XorbLayout, XorbSteps
  <2>2. /\ layout' = [layout EXCEPT ![x] = IF @ = None THEN body[r].enc ELSE @]
        /\ pc' = [pc EXCEPT ![r] = "xProbe"] /\ blob' = blob /\ body' = body
        /\ contested' = IF layout[x] \notin {None, body[r].enc} /\ blob[x] = None
                        THEN contested \cup {x} ELSE contested
    BY <1>1 DEF XorbLayout
  <2>3. ASSUME NEW y \in Xorbs, blob'[y] # None PROVE blob'[y] = layout'[y] \/ y \in contested'
    <3>1. layout[y] # None
      BY <2>2, <2>3 DEF CasInv, BlobsHaveLayout
    <3>2. QED
      BY <1>0, <2>2, <2>3, <3>1 DEF BodyMatches, TypeOK
  <2>4. ASSUME NEW u \in Requests, pc'[u] \in {"xProbe", "xPut"}, u # r
        PROVE  layout[body[u].xorb] # None /\ layout'[body[u].xorb] = layout[body[u].xorb]
    <3>1. pc[u] = pc'[u] /\ body[u].xorb \in Xorbs
      BY <1>0, <2>2, <2>4, XorbFacts DEF TypeOK, XorbSteps
    <3>2. layout[body[u].xorb] # None
      BY <2>4, <3>1 DEF CasInv, LayoutFirst
    <3>3. QED
      BY <1>0, <2>2, <3>1, <3>2 DEF TypeOK
  <2>5. ASSUME NEW u \in Requests, u # r
        PROVE  /\ pc'[u] = "xProbe" => \/ layout'[body'[u].xorb] = body'[u].enc
                                       \/ blob'[body'[u].xorb] # None
                                       \/ body'[u].xorb \in contested'
               /\ pc'[u] = "xPut" => \/ layout'[body'[u].xorb] = body'[u].enc
                                     \/ body'[u].xorb \in contested'
    BY <1>0, <2>2, <2>4, <2>5 DEF BodyMatches, TypeOK
  <2>6. pc'[r] = "xProbe" /\ (\/ layout'[x] = body[r].enc
                              \/ blob'[x] # None \/ x \in contested')
    BY <1>0, <2>1, <2>2 DEF TypeOK
  <2>7. QED
    BY <2>2, <2>3, <2>5, <2>6 DEF BodyMatches
<1>2. ASSUME NEW r \in Requests, XorbPut(r) PROVE BodyMatches'
  <2> DEFINE x == body[r].xorb
  <2>1. x \in Xorbs /\ body[r].enc # None
    BY <1>0, <1>2, XorbFacts, CasAssumption DEF XorbPut, XorbSteps
  <2>2. layout[x] = body[r].enc \/ x \in contested
    BY <1>2 DEF XorbPut, BodyMatches
  <2>3. /\ blob' = [blob EXCEPT ![x] = body[r].enc] /\ UNCHANGED <<layout, contested>>
        /\ pc' = [pc EXCEPT ![r] = "idle"] /\ body' = [body EXCEPT ![r] = NoBody]
    BY <1>2 DEF XorbPut
  <2>4. ASSUME NEW y \in Xorbs, blob'[y] # None PROVE blob'[y] = layout'[y] \/ y \in contested'
    BY <1>0, <2>1, <2>2, <2>3, <2>4 DEF BodyMatches, TypeOK
  <2>5. ASSUME NEW u \in Requests, pc'[u] \in {"xProbe", "xPut"}
        PROVE  /\ pc'[u] = pc[u] /\ body'[u] = body[u]
               /\ blob[body[u].xorb] # None => blob'[body[u].xorb] # None
    <3>1. pc[u] = pc'[u] /\ body'[u] = body[u] /\ body[u].xorb \in Xorbs
      BY <1>0, <2>3, <2>5, XorbFacts DEF TypeOK, XorbSteps
    <3>2. QED
      BY <1>0, <2>1, <2>3, <3>1 DEF TypeOK
  <2>6. QED
    BY <2>3, <2>4, <2>5 DEF BodyMatches
<1>3. ASSUME NEW r \in Requests, XorbProbe(r) PROVE BodyMatches'
  <2>1. CASE pc' = [pc EXCEPT ![r] = "xPut"] /\ body' = body
    BY <1>0, <1>3, <2>1 DEF XorbProbe, BodyMatches, TypeOK
  <2>2. CASE pc' = [pc EXCEPT ![r] = "idle"]
    BY <1>0, <1>3, <2>2, MatchKept DEF XorbProbe, TypeOK
  <2>3. QED
    BY <1>3, <2>1, <2>2 DEF XorbProbe
<1>4. CASE \E r \in Requests : Arrival(r) \/ RequestFails(r)
  BY <1>0, <1>4, MatchKept DEF TypeOK, Arrival, UploadXorb, UploadShard, Arrives, RequestFails
<1>5. CASE \E r \in Requests : XorbAdmit(r) \/ ShardGate(r)
  BY <1>0, <1>5, MatchKept DEF TypeOK, XorbAdmit, ShardGate
<1>6. CASE \E r \in Requests : (\E y \in Xorbs : ShardXorb(r, y)) \/ ShardUsage(r)
  BY <1>0, <1>6, MatchKept DEF TypeOK, ShardXorb, ShardUsage
<1>7. CASE \E r \in Requests : ShardQuota(r) \/ ShardArchive(r) \/ ShardRegister(r)
  BY <1>0, <1>7, MatchKept DEF TypeOK, ShardQuota, ShardArchive, ShardRegister
<1>8. CASE \E o \in Owners, q \in Limits \cup {NoLimit} : SetOwnerQuota(o, q)
  BY <1>0, <1>8, MatchKept DEF SetOwnerQuota
<1>9. CASE UNCHANGED vars
  BY <1>0, <1>9, MatchKept
<1>10. QED
  BY <1>1, <1>2, <1>3, <1>4, <1>5, <1>6, <1>7, <1>8, <1>9 DEF Next, HandlerStep

ServeInv == CasInv /\ BodyMatches

LEMMA ServeInvHolds == Spec => []ServeInv
<1>1. Init => ServeInv
  BY InitCas DEF Init, ServeInv, BodyMatches
<1>2. ServeInv /\ [Next]_vars => ServeInv'
  BY CasStep, MatchStep DEF ServeInv
<1>3. QED
  BY <1>1, <1>2, PTL DEF Spec

(* The invariant makes every settled registered file readable. *)
LEMMA RowsReadable == ServeInv => FilesReconstructible
<1> SUFFICES ASSUME ServeInv, NEW f \in Files, NEW p \in Repos, <<f, p>> \in rows, Settled(f)
             PROVE  Reconstructs(f, p)
  BY DEF FilesReconstructible
<1>1. terms[f] \in Segs[f] /\ \A x \in Range(terms[f]) : blob[x] # None
  BY DEF ServeInv, CasInv, TermsWhole
<1>2. \A x \in Range(terms[f]) : x \in Xorbs /\ layout[x] # None
  BY <1>1, SegFacts DEF ServeInv, CasInv, BlobsHaveLayout
<1>3. \A x \in Range(terms[f]) : blob[x] = layout[x]
  BY <1>1, <1>2 DEF ServeInv, BodyMatches, Settled
<1>4. QED
  BY <1>1, <1>2, <1>3 DEF Reconstructs

(* The tables and the locals of the handlers keep their types, for any     *)
(* number of concurrent requests.                                          *)
THEOREM CasTypeCorrect == Spec => []TypeOK
<1>1. CasInv => TypeOK
  BY DEF CasInv
<1>2. QED
  BY <1>1, CasInvHolds, PTL

(* Whatever uploads race or die, every file row of the server can be       *)
(* served from the ranges of the stored bodies, for any number of          *)
(* encodings, unless one of its xorbs met two of them before it had a      *)
(* body: upload_shard's gate, upload_xorb's order and the write-once terms *)
(* and layouts suffice.                                                    *)
THEOREM FilesSafe == Spec => []FilesReconstructible
BY ServeInvHolds, RowsReadable, PTL

(* No body is stored without its byte ranges.                              *)
THEOREM LayoutSafe == Spec => []BlobsHaveLayout
<1>1. CasInv => BlobsHaveLayout
  BY DEF CasInv
<1>2. QED
  BY <1>1, CasInvHolds, PTL

(* No file row lacks its archived shard.                                   *)
THEOREM ArchiveSafe == Spec => []RowsArchived
<1>1. CasInv => RowsArchived
  BY DEF CasInv
<1>2. QED
  BY <1>1, CasInvHolds, PTL

(* Every registered xorb is charged at its real size.                      *)
THEOREM ChargeSafe == Spec => []RowsCharged
<1>1. CasInv => RowsCharged
  BY DEF CasInv
<1>2. QED
  BY <1>1, CasInvHolds, PTL

-----------------------------------------------------------------------------
(* The refinement.  Under the invariant the readable pairs are exactly the *)
(* registered ones of settled files.                                       *)
Registered == {d \in rows : Settled(d[1])}
Readable == {d \in Files \X Repos : Settled(d[1]) /\ Reconstructs(d[1], d[2])}

LEMMA ReadableIsRegistered == ServeInv => Readable = Registered
<1> SUFFICES ASSUME ServeInv PROVE Readable = Registered
  OBVIOUS
<1>1. rows \subseteq Files \X Repos
  BY DEF ServeInv, CasInv, TypeOK
<1>2. ASSUME NEW d \in Files \X Repos, Settled(d[1])
      PROVE  Reconstructs(d[1], d[2]) <=> d \in rows
  <2>1. PICK f \in Files, p \in Repos : d = <<f, p>>
    OBVIOUS
  <2>2. d[1] = f /\ d[2] = p
    BY <2>1
  <2>3. Reconstructs(f, p) => <<f, p>> \in rows
    BY DEF Reconstructs
  <2>4. <<f, p>> \in rows => Reconstructs(f, p)
    BY <1>2, <2>2, RowsReadable DEF FilesReconstructible
  <2>5. QED
    BY <2>1, <2>2, <2>3, <2>4
<1>3. QED
  BY <1>1, <1>2 DEF Readable, Registered

(* A registered file keeps its terms, and with them whether it is settled. *)
LEMMA SettledKept ==
    ASSUME CasInv, [Next]_vars, NEW d \in rows
    PROVE  Settled(d[1])' <=> Settled(d[1])
<1>1. PICK f \in Files, p \in Repos : d = <<f, p>>
  BY DEF CasInv, TypeOK
<1>2. terms[f] # <<>> /\ terms[f] \in Segs[f] /\ \A x \in Range(terms[f]) : blob[x] # None
  BY <1>1 DEF CasInv, TermsWhole
<1>3. Range(terms[f]) \subseteq Xorbs
  BY <1>2, SegFacts
<1>4. terms'[f] = terms[f]
  BY <1>2, StoreGrows DEF Grows
<1>5. \A x \in Range(terms[f]) : x \in contested' <=> x \in contested
  BY <1>2, <1>3, StoredStep
<1>6. d[1] = f
  BY <1>1
<1>7. Settled(f)' <=> Settled(f)
  BY <1>4, <1>5 DEF Settled
<1>8. QED
  BY <1>6, <1>7

(* A step registers the files of one shard in one repository, or none. *)
LEMMA RowsStep ==
    ASSUME CasInv, [Next]_vars
    PROVE  \/ rows' = rows
           \/ \E p \in Repos, files \in SUBSET Files : rows' = rows \cup (files \X {p})
<1> USE DEF metaVars, blobVars, reqVars, vars
<1>1. CASE \E r \in Requests : ShardRegister(r)
  <2>1. PICK r \in Requests : ShardRegister(r)
    BY <1>1
  <2>2. body[r] \in Shards
    BY <2>1 DEF ShardRegister, CasInv, TypeOK, ShardSteps
  <2>3. body[r].repo \in Repos /\ DOMAIN body[r].files \in SUBSET Files
    BY <2>2, ShardFacts
  <2>4. QED
    BY <2>1, <2>3 DEF ShardRegister
<1>2. CASE \E r \in Requests : Arrival(r) \/ RequestFails(r)
  BY <1>2 DEF Arrival, UploadXorb, UploadShard, Arrives, RequestFails
<1>3. CASE \E r \in Requests : XorbAdmit(r) \/ XorbLayout(r) \/ XorbProbe(r) \/ XorbPut(r)
  BY <1>3 DEF XorbAdmit, XorbLayout, XorbProbe, XorbPut
<1>4. CASE \E r \in Requests : \/ ShardGate(r) \/ (\E x \in Xorbs : ShardXorb(r, x))
                             \/ ShardUsage(r) \/ ShardQuota(r) \/ ShardArchive(r)
  BY <1>4 DEF ShardGate, ShardXorb, ShardUsage, ShardQuota, ShardArchive
<1>5. CASE \E o \in Owners, q \in Limits \cup {NoLimit} : SetOwnerQuota(o, q)
  BY <1>5 DEF SetOwnerQuota
<1>6. CASE UNCHANGED vars
  BY <1>6
<1>7. QED
  BY <1>1, <1>2, <1>3, <1>4, <1>5, <1>6 DEF Next, HandlerStep

(* The upload handlers implement the registry the clients rely on: the     *)
(* files of a shard that use no contested xorb become readable together,   *)
(* when it is accepted, and stay readable, for any number of encodings.    *)
THEOREM RegistryRefined == Spec => ImplementsRegistry
<1>1. Init => Registry!Init
  <2> SUFFICES ASSUME Init PROVE Registry!Init
    OBVIOUS
  <2>1. rows = {}
    BY DEF Init
  <2>2. QED
    BY <2>1 DEF Registry!Init, Reconstructs
<1>2. ServeInv /\ ServeInv' /\ [Next]_vars => [Registry!Next]_<<Registered, Readable>>
  <2> SUFFICES ASSUME ServeInv, ServeInv', [Next]_vars
               PROVE  [Registry!Next]_<<Registered, Readable>>
    OBVIOUS
  <2>1. Readable = Registered
    BY ReadableIsRegistered
  <2>2. (ServeInv => Readable = Registered)'
    BY ReadableIsRegistered, PTL
  <2>3. Readable' = Registered'
    BY <2>2
  <2>4. \A d \in rows : Settled(d[1])' <=> Settled(d[1])
    BY SettledKept DEF ServeInv
  <2>5. CASE rows' = rows
    <3>1. Registered' = Registered
      BY <2>4, <2>5 DEF Registered
    <3>2. QED
      BY <2>1, <2>3, <3>1
  <2>6. CASE \E p \in Repos, files \in SUBSET Files : rows' = rows \cup (files \X {p})
    <3>1. PICK p \in Repos, files \in SUBSET Files : rows' = rows \cup (files \X {p})
      BY <2>6
    <3>2. PICK kept \in SUBSET Files : kept = {f \in files : Settled(f)'}
      OBVIOUS
    <3>3. \A d \in files \X {p} : d \in kept \X {p} <=> Settled(d[1])'
      BY <3>2
    <3>4. Registered' = Registered \cup (kept \X {p})
      <4>1. \A d \in rows' : d \in rows \/ d \in files \X {p}
        BY <3>1
      <4>2. kept \X {p} \subseteq files \X {p}
        BY <3>2
      <4>3. Registered' \subseteq Registered \cup (kept \X {p})
        BY <2>4, <3>3, <4>1 DEF Registered
      <4>4. Registered \cup (kept \X {p}) \subseteq Registered'
        BY <2>4, <3>1, <3>3, <4>2 DEF Registered
      <4>5. QED
        BY <4>3, <4>4
    <3>5. QED
      BY <2>1, <2>3, <3>4 DEF Registry!Next, Registry!Register, Readable, Registered
  <2>7. QED
    BY <2>5, <2>6, RowsStep DEF ServeInv
<1>3. QED
  BY <1>1, <1>2, ServeInvHolds, PTL DEF Spec, ImplementsRegistry, Registry!Spec, Readable, Registered
-----------------------------------------------------------------------------
(* The quota.  What upload_shard adds up before it registers the files is  *)
(* an upper bound of what the owner is charged afterwards: the rows of the *)
(* shard's xorbs are there and never change, and nothing that the owner is *)
(* charged for already is ever taken back.                                 *)

(* The CAS blocks of a shard have their rows once they are registered. *)
BlocksKnown ==
    \A r \in Requests :
        /\ pc[r] = "sXorbs" => \A x \in body[r].cas \ todo[r] : xorbRow[x] # None
        /\ pc[r] \in {"sQuota", "sArchive", "sRegister"} => \A x \in body[r].cas : xorbRow[x] # None

(* A shard past its check that describes the xorbs its files use still     *)
(* fits what was checked.                                                  *)
StillFits ==
    \A r \in Requests :
        pc[r] \in {"sArchive", "sRegister"} /\ Uses(body[r].files) \subseteq body[r].cas =>
            WithinQuota(used[r] + UnaccountedXorbBytes(OwnerOf[body[r].repo], Uses(body[r].files)),
                        limit[r])

QuotaInv == CasInv /\ BlocksKnown /\ StillFits

(* The bytes of two sets of xorbs together. *)
LEMMA BytesJoin ==
    ASSUME TypeOK, NEW A \in SUBSET Xorbs, NEW B \in SUBSET Xorbs, NEW C \in SUBSET (A \cup B)
    PROVE  RowBytes(C) <= RowBytes(A) + RowBytes(B \ A)
<1> DEFINE J == A \cup B
<1>1. /\ RowBytes(J) = SumFunctionOnSet(xorbRow, Known(J)) /\ RowBytes(J) \in Nat
      /\ IsFiniteSet(Known(J)) /\ \A x \in Known(J) : xorbRow[x] \in Nat
  BY KnownBytes
<1>2. /\ RowBytes(A) = SumFunctionOnSet(xorbRow, Known(A)) /\ RowBytes(A) \in Nat
      /\ RowBytes(B \ A) = SumFunctionOnSet(xorbRow, Known(B \ A)) /\ RowBytes(B \ A) \in Nat
      /\ RowBytes(C) = SumFunctionOnSet(xorbRow, Known(C)) /\ RowBytes(C) \in Nat
  BY KnownBytes
<1>3. /\ Known(A) \in SUBSET Known(J) /\ Known(J) \ Known(A) = Known(B \ A)
      /\ Known(C) \in SUBSET Known(J)
  BY DEF Known
<1> HIDE DEF J
<1>4. SumFunctionOnSet(xorbRow, Known(J))
        = SumFunctionOnSet(xorbRow, Known(A)) + SumFunctionOnSet(xorbRow, Known(J) \ Known(A))
  BY <1>1, <1>3, SumSplit
<1>5. RowBytes(J) = RowBytes(A) + RowBytes(B \ A)
  BY <1>1, <1>2, <1>3, <1>4, Zenon
<1>6. SumFunctionOnSet(xorbRow, Known(C)) <= SumFunctionOnSet(xorbRow, Known(J))
  BY <1>1, <1>3, SumMonotonic
<1>7. RowBytes(C) <= RowBytes(J)
  BY <1>1, <1>2, <1>6, Zenon
<1>8. QED
  BY <1>1, <1>2, <1>5, <1>7

(* What a shard would add to its owner's bytes never rises. *)
LEMMA UnaccountedFalls ==
    ASSUME CasInv, CasInv', Grows, NEW o, NEW xs \in SUBSET Xorbs, \A x \in xs : xorbRow[x] # None
    PROVE  /\ UnaccountedXorbBytes(o, xs) \in Nat /\ UnaccountedXorbBytes(o, xs)' \in Nat
           /\ UnaccountedXorbBytes(o, xs)' <= UnaccountedXorbBytes(o, xs)
<1> DEFINE A == xs \ XorbsOfOwner(o)
           B == xs \ XorbsOfOwner(o)'
<1>1. XorbsOfOwner(o) \subseteq XorbsOfOwner(o)'
  <2> SUFFICES ASSUME NEW f \in FilesOfOwner(o) PROVE f \in FilesOfOwner(o)' /\ terms'[f] = terms[f]
    BY DEF XorbsOfOwner
  <2>1. PICK p \in Repos : OwnerOf[p] = o /\ <<f, p>> \in rows
    BY DEF FilesOfOwner
  <2>2. terms[f] # <<>>
    BY <2>1 DEF CasInv, TermsWhole, FilesOfOwner
  <2>3. QED
    BY <2>1, <2>2 DEF Grows, FilesOfOwner
<1>2. B \in SUBSET A /\ A \in SUBSET Xorbs
  BY <1>1
<1>3. (\A x \in A : xorbRow[x] \in Nat) /\ (\A x \in B : xorbRow'[x] = xorbRow[x])
  BY <1>2 DEF CasInv, TypeOK, Grows
<1>4. IsFiniteSet(A) /\ IsFiniteSet(B)
  BY <1>2, CasAssumption, FS_Subset
<1>5. {x \in A : xorbRow[x] # None} = A /\ {x \in B : xorbRow'[x] # None} = B
  BY <1>3, CasAssumption
<1>6. UnaccountedXorbBytes(o, xs) = SumFunctionOnSet(xorbRow, A)
  BY <1>5, Zenon DEF UnaccountedXorbBytes, RowBytes
<1>7. UnaccountedXorbBytes(o, xs)' = SumFunctionOnSet(xorbRow', B)
  BY <1>5, Zenon DEF UnaccountedXorbBytes, RowBytes
<1> HIDE DEF A, B
<1>8. SumFunctionOnSet(xorbRow', B) = SumFunctionOnSet(xorbRow, B)
  BY <1>3, <1>4, SumAgree
<1>9. SumFunctionOnSet(xorbRow, B) <= SumFunctionOnSet(xorbRow, A)
  BY <1>2, <1>3, <1>4, SumMonotonic
<1>a. \A x \in B : xorbRow[x] \in Nat
  BY <1>2, <1>3
<1>b. SumFunctionOnSet(xorbRow, A) \in Nat /\ SumFunctionOnSet(xorbRow, B) \in Nat
  BY <1>3, <1>4, <1>a, SumNat
<1>c. QED
  BY <1>6, <1>7, <1>8, <1>9, <1>b

(* Fewer bytes fit too. *)
LEMMA FewerFit ==
    ASSUME NEW q \in Limits \cup {NoLimit}, NEW m \in Nat, NEW n \in Nat, m <= n, WithinQuota(n, q)
    PROVE  WithinQuota(m, q)
BY CasAssumption DEF WithinQuota

(* What a step does to a request, as far as its quota goes. *)
Same(u) == /\ pc'[u] = pc[u] /\ body'[u] = body[u] /\ todo'[u] = todo[u]
           /\ limit'[u] = limit[u] /\ used'[u] = used[u]
Early(u) == pc'[u] \notin {"sXorbs", "sQuota", "sArchive", "sRegister"}

LEMMA RequestStep ==
    ASSUME CasInv, [Next]_vars, NEW u \in Requests
    PROVE  \/ Same(u) \/ Early(u)
           \/ ShardGate(u) /\ todo'[u] = body'[u].cas /\ pc'[u] = "sXorbs"
           \/ \E x \in Xorbs : ShardXorb(u, x)
           \/ ShardUsage(u)
           \/ ShardQuota(u) /\ pc'[u] = "sArchive"
           \/ ShardArchive(u)
<1> USE DEF metaVars, blobVars, reqVars, vars, Goto, Done, Same, Early
<1>0. TypeOK
  BY DEF CasInv
<1>1. ASSUME NEW r \in Requests, r # u, Arrival(r) \/ HandlerStep(r) \/ RequestFails(r) PROVE Same(u)
  <2>1. CASE Arrival(r) \/ RequestFails(r)
    BY <1>0, <1>1, <2>1 DEF TypeOK, Arrival, UploadXorb, UploadShard, Arrives, RequestFails
  <2>2. CASE XorbAdmit(r) \/ XorbLayout(r) \/ XorbProbe(r) \/ XorbPut(r)
    BY <1>0, <1>1, <2>2 DEF TypeOK, XorbAdmit, XorbLayout, XorbProbe, XorbPut
  <2>3. CASE ShardGate(r) \/ (\E x \in Xorbs : ShardXorb(r, x)) \/ ShardUsage(r)
    BY <1>0, <1>1, <2>3 DEF TypeOK, ShardGate, ShardXorb, ShardUsage
  <2>4. CASE ShardQuota(r) \/ ShardArchive(r) \/ ShardRegister(r)
    BY <1>0, <1>1, <2>4 DEF TypeOK, ShardQuota, ShardArchive, ShardRegister
  <2>5. QED
    BY <1>1, <2>1, <2>2, <2>3, <2>4 DEF HandlerStep
<1>2. CASE Arrival(u) \/ RequestFails(u)
  BY <1>0, <1>2 DEF TypeOK, Arrival, UploadXorb, UploadShard, Arrives, RequestFails
<1>3. CASE XorbAdmit(u) \/ XorbLayout(u) \/ XorbProbe(u) \/ XorbPut(u) \/ ShardRegister(u)
  BY <1>0, <1>3 DEF TypeOK, XorbAdmit, XorbLayout, XorbProbe, XorbPut, ShardRegister
<1>4. CASE ShardGate(u)
  BY <1>0, <1>4 DEF TypeOK, ShardGate
<1>5. CASE ShardQuota(u)
  BY <1>0, <1>5 DEF TypeOK, ShardQuota
<1>6. CASE (\E x \in Xorbs : ShardXorb(u, x)) \/ ShardUsage(u) \/ ShardArchive(u)
  BY <1>6
<1>7. CASE \E o \in Owners, q \in Limits \cup {NoLimit} : SetOwnerQuota(o, q)
  BY <1>7 DEF SetOwnerQuota
<1>8. CASE UNCHANGED vars
  BY <1>8
<1>9. QED
  BY <1>1, <1>2, <1>3, <1>4, <1>5, <1>6, <1>7, <1>8 DEF Next, HandlerStep

(* Only its registration takes a shard out of "sRegister" with new rows. *)
LEMMA RegisterOnly ==
    ASSUME CasInv, [Next]_vars, NEW u \in Requests,
           pc[u] = "sRegister", pc'[u] # "sRegister", rows' # rows
    PROVE  ShardRegister(u)
<1> USE DEF metaVars, blobVars, reqVars, vars
<1>0. TypeOK
  BY DEF CasInv
<1>1. PICK r \in Requests : ShardRegister(r)
  <2>1. CASE \E r \in Requests : Arrival(r) \/ RequestFails(r)
    BY <2>1 DEF Arrival, UploadXorb, UploadShard, Arrives, RequestFails
  <2>2. CASE \E r \in Requests : XorbAdmit(r) \/ XorbLayout(r) \/ XorbProbe(r) \/ XorbPut(r)
    BY <2>2 DEF XorbAdmit, XorbLayout, XorbProbe, XorbPut
  <2>3. CASE \E r \in Requests : \/ ShardGate(r) \/ (\E x \in Xorbs : ShardXorb(r, x))
                               \/ ShardUsage(r) \/ ShardQuota(r) \/ ShardArchive(r)
    BY <2>3 DEF ShardGate, ShardXorb, ShardUsage, ShardQuota, ShardArchive
  <2>4. CASE \E o \in Owners, q \in Limits \cup {NoLimit} : SetOwnerQuota(o, q)
    BY <2>4 DEF SetOwnerQuota
  <2>5. CASE UNCHANGED vars
    BY <2>5
  <2>6. QED
    BY <2>1, <2>2, <2>3, <2>4, <2>5 DEF Next, HandlerStep
<1>2. pc' = [pc EXCEPT ![r] = "idle"]
  BY <1>1 DEF ShardRegister, Done
<1>3. r = u
  BY <1>0, <1>2 DEF TypeOK
<1>4. QED
  BY <1>1, <1>3

(* A shard past its gate. *)
LEMMA GatedShard ==
    ASSUME CasInv, NEW u \in Requests, pc[u] \in {"sXorbs", "sQuota", "sArchive", "sRegister"}
    PROVE  /\ body[u] \in Shards /\ body[u].cas \in SUBSET Xorbs
           /\ Uses(body[u].files) \in SUBSET Xorbs /\ DOMAIN body[u].files \subseteq Files
           /\ OwnerOf[body[u].repo] \in Owners
<1>1. body[u] \in Shards
  BY DEF CasInv, TypeOK, ShardSteps
<1>2. QED
  BY <1>1, ShardFacts, CasAssumption

LEMMA QuotaInit == Init => QuotaInv
BY InitCas DEF Init, QuotaInv, BlocksKnown, StillFits

(* Every step keeps the rows of the blocks ... *)
LEMMA BlocksStep ==
    ASSUME QuotaInv, [Next]_vars
    PROVE  BlocksKnown'
<1> SUFFICES ASSUME NEW u \in Requests
             PROVE  /\ pc'[u] = "sXorbs" => \A x \in body'[u].cas \ todo'[u] : xorbRow'[x] # None
                    /\ pc'[u] \in {"sQuota", "sArchive", "sRegister"} =>
                         \A x \in body'[u].cas : xorbRow'[x] # None
  BY DEF BlocksKnown
<1>1. CasInv /\ BlocksKnown /\ TypeOK
  BY DEF QuotaInv, CasInv
<1>2. Grows
  BY <1>1, StoreGrows
<1>3. CASE Same(u)
  <2>1. pc[u] \in {"sXorbs", "sQuota", "sArchive", "sRegister"} => body[u].cas \in SUBSET Xorbs
    BY <1>1, GatedShard
  <2>2. QED
    BY <1>1, <1>2, <1>3, <2>1 DEF Same, BlocksKnown, Grows
<1>4. CASE Early(u)
  BY <1>4 DEF Early
<1>5. CASE ShardGate(u) /\ todo'[u] = body'[u].cas /\ pc'[u] = "sXorbs"
  BY <1>5
<1>6. CASE \E x \in Xorbs : ShardXorb(u, x)
  <2>1. PICK x \in Xorbs : ShardXorb(u, x)
    BY <1>6
  <2>2. /\ pc[u] = "sXorbs" /\ pc'[u] = "sXorbs" /\ body'[u] = body[u] /\ todo'[u] = todo[u] \ {x}
    BY <1>1, <2>1 DEF TypeOK, ShardXorb
  <2>3. body[u].cas \in SUBSET Xorbs
    BY <1>1, <2>2, GatedShard
  <2>4. xorbRow'[x] # None
    <3>1. CasInv' /\ CasInv
      BY <1>1, CasStep
    <3>2. layout[x] # None => SizeOf[x][layout[x]] \in Nat
      BY <1>1, CasAssumption DEF TypeOK
    <3>3. QED
      BY <1>1, <2>1, <3>2, CasAssumption DEF TypeOK, ShardXorb
  <2>5. QED
    BY <1>1, <1>2, <2>2, <2>3, <2>4 DEF BlocksKnown, Grows
<1>7. CASE ShardUsage(u)
  <2>1. pc[u] = "sXorbs" /\ todo[u] = {} /\ pc'[u] = "sQuota" /\ body'[u] = body[u] /\ xorbRow' = xorbRow
    BY <1>1, <1>7 DEF TypeOK, ShardUsage, Goto, metaVars
  <2>2. QED
    BY <1>1, <2>1 DEF BlocksKnown
<1>8. CASE ShardQuota(u) /\ pc'[u] = "sArchive"
  <2>1. pc[u] = "sQuota" /\ xorbRow' = xorbRow /\ body'[u] = body[u]
    BY <1>1, <1>8 DEF TypeOK, ShardQuota, Done, metaVars
  <2>2. QED
    BY <1>1, <1>8, <2>1 DEF BlocksKnown
<1>9. CASE ShardArchive(u)
  <2>1. pc[u] = "sArchive" /\ pc'[u] = "sRegister" /\ xorbRow' = xorbRow /\ body'[u] = body[u]
    BY <1>1, <1>9 DEF TypeOK, ShardArchive, Goto, metaVars
  <2>2. QED
    BY <1>1, <2>1 DEF BlocksKnown
<1>10. QED
  BY <1>1, <1>3, <1>4, <1>5, <1>6, <1>7, <1>8, <1>9, RequestStep

(* ... and what was checked. *)
LEMMA FitsStep ==
    ASSUME QuotaInv, [Next]_vars
    PROVE  StillFits'
<1> DEFINE Fits(u) ==
             WithinQuota(used[u] + UnaccountedXorbBytes(OwnerOf[body[u].repo], Uses(body[u].files)), limit[u])
<1> SUFFICES ASSUME NEW u \in Requests, pc'[u] \in {"sArchive", "sRegister"},
                    Uses(body'[u].files) \subseteq body'[u].cas
             PROVE  Fits(u)'
  BY DEF StillFits
<1>1. CasInv /\ BlocksKnown /\ StillFits /\ TypeOK
  BY DEF QuotaInv, CasInv
<1>2. CasInv' /\ Grows
  BY <1>1, StoreGrows, CasStep
<1>3. ASSUME pc[u] \in {"sArchive", "sRegister"}, body'[u] = body[u], limit'[u] = limit[u], used'[u] = used[u]
      PROVE  Fits(u)'
  <2> DEFINE o == OwnerOf[body[u].repo]
             xs == Uses(body[u].files)
  <2>1. xs \in SUBSET Xorbs /\ xs \subseteq body[u].cas
    BY <1>1, <1>3, GatedShard
  <2>2. \A x \in xs : xorbRow[x] # None
    BY <1>1, <1>3, <2>1 DEF BlocksKnown
  <2>3. WithinQuota(used[u] + UnaccountedXorbBytes(o, xs), limit[u])
    BY <1>1, <1>3, <2>1 DEF StillFits
  <2>4. PICK p, ys : p = o /\ ys = xs
    OBVIOUS
  <2>5. /\ UnaccountedXorbBytes(p, ys) \in Nat /\ UnaccountedXorbBytes(p, ys)' \in Nat
        /\ UnaccountedXorbBytes(p, ys)' <= UnaccountedXorbBytes(p, ys)
    BY <1>1, <1>2, <2>1, <2>2, <2>4, UnaccountedFalls
  <2>6. p = o' /\ ys = xs'
    BY <1>3, <2>4
  <2>7. WithinQuota(used[u] + UnaccountedXorbBytes(p, ys), limit[u])
    BY <2>3, <2>4
  <2>8. used[u] \in Nat /\ limit[u] \in Limits \cup {NoLimit}
    BY <1>1 DEF TypeOK
  <2>9. WithinQuota(used[u] + UnaccountedXorbBytes(p, ys)', limit[u])
    <3>1. /\ used[u] + UnaccountedXorbBytes(p, ys)' \in Nat /\ used[u] + UnaccountedXorbBytes(p, ys) \in Nat
          /\ used[u] + UnaccountedXorbBytes(p, ys)' <= used[u] + UnaccountedXorbBytes(p, ys)
      BY <2>5, <2>8
    <3>2. QED
      BY <2>7, <2>8, <3>1, FewerFit
  <2>10. UnaccountedXorbBytes(p, ys)' = UnaccountedXorbBytes(o, xs)'
    BY <2>6, Zenon DEF UnaccountedXorbBytes, RowBytes, XorbsOfOwner, FilesOfOwner
  <2>11. QED
    BY <1>3, <2>9, <2>10, Zenon
<1>4. CASE Same(u)
  BY <1>3, <1>4 DEF Same
<1>5. CASE ShardArchive(u)
  BY <1>1, <1>3, <1>5 DEF TypeOK, ShardArchive
<1>6. CASE ShardQuota(u) /\ pc'[u] = "sArchive"
  <2>1. /\ Fits(u)
        /\ UNCHANGED <<body, limit, used, rows, terms, xorbRow>>
    BY <1>1, <1>6 DEF TypeOK, ShardQuota, Done, metaVars
  <2>2. QED
    BY <2>1, Zenon DEF UnaccountedXorbBytes, RowBytes, XorbsOfOwner, FilesOfOwner
<1>7. CASE \/ Early(u) \/ ShardUsage(u) \/ (\E x \in Xorbs : ShardXorb(u, x))
           \/ ShardGate(u) /\ pc'[u] = "sXorbs"
  BY <1>1, <1>7 DEF Early, TypeOK, ShardUsage, ShardXorb, Goto
<1>8. QED
  BY <1>1, <1>4, <1>5, <1>6, <1>7, RequestStep

LEMMA QuotaInvHolds == Spec => []QuotaInv
<1>1. QuotaInv /\ [Next]_vars => QuotaInv'
  BY CasStep, BlocksStep, FitsStep DEF QuotaInv
<1>2. QED
  BY <1>1, QuotaInit, PTL DEF Spec

(* The files that a shard registers bring its owner no xorbs but theirs. *)
LEMMA RegisterAdds ==
    ASSUME CasInv, NEW r \in Requests, ShardRegister(r), NEW o, OwnerOf[body[r].repo] = o,
           \A f \in DOMAIN body[r].files \ FilesOfOwner(o) : terms[f] \in {<<>>, body[r].files[f]}
    PROVE  XorbsOfOwner(o)' \subseteq XorbsOfOwner(o) \cup Uses(body[r].files)
<1> DEFINE files == body[r].files
<1>1. TypeOK /\ pc[r] = "sRegister"
  BY DEF CasInv, ShardRegister
<1>2. DOMAIN files \subseteq Files
  BY <1>1, GatedShard
<1>3. rows' = rows \cup ((DOMAIN files) \X {body[r].repo}) /\ terms' = TermsAfter(files)
  BY DEF ShardRegister
<1> SUFFICES ASSUME NEW f \in Files, f \in FilesOfOwner(o)'
             PROVE  Range(terms'[f]) \subseteq XorbsOfOwner(o) \cup Uses(files)
  BY DEF XorbsOfOwner, FilesOfOwner
<1>4. CASE f \in FilesOfOwner(o)
  <2>1. terms[f] # <<>>
    BY <1>4 DEF CasInv, TermsWhole, FilesOfOwner
  <2>2. terms'[f] = terms[f]
    BY <1>3, <2>1 DEF TermsAfter
  <2>3. QED
    BY <1>4, <2>2 DEF XorbsOfOwner
<1>5. CASE f \notin FilesOfOwner(o)
  <2>1. PICK p \in Repos : OwnerOf[p] = o /\ <<f, p>> \in rows'
    BY DEF FilesOfOwner
  <2>2. <<f, p>> \notin rows
    BY <1>5, <2>1 DEF FilesOfOwner
  <2>3. f \in DOMAIN files
    BY <1>3, <2>1, <2>2
  <2>4. terms[f] \in {<<>>, files[f]}
    BY <1>5, <2>3
  <2>5. terms'[f] = files[f]
    BY <1>3, <2>3, <2>4 DEF TermsAfter
  <2>6. QED
    BY <2>3, <2>5 DEF Uses
<1>6. QED
  BY <1>4, <1>5

(* upload_shard does not take an owner past the quota it checked, however  *)
(* many requests run between the check and the registration: neither the   *)
(* blocks nor the files that they register meanwhile raise what the shard  *)
(* adds.  This is for shards that describe every xorb their files use, of  *)
(* owners nobody else charged since the check, and for files that have no  *)
(* other terms from another owner.                                         *)
THEOREM QuotaSafe == Spec => QuotaNeverOvershot
<1> DEFINE Keeps ==
             \A r \in Requests, o \in Owners :
                 /\ pc[r] = "sRegister" /\ pc'[r] # "sRegister" /\ rows' # rows
                 /\ OwnerOf[body[r].repo] = o
                 /\ Uses(body[r].files) \subseteq body[r].cas
                 /\ \A f \in DOMAIN body[r].files \ FilesOfOwner(o) :
                       terms[f] \in {<<>>, body[r].files[f]}
                 /\ StoredBytesForOwner(o) = used[r]
                 => WithinQuota(StoredBytesForOwner(o)', limit[r])
<1>1. QuotaInv /\ [Next]_vars => [Keeps]_vars
  <2> SUFFICES ASSUME QuotaInv, [Next]_vars, NEW r \in Requests, NEW o \in Owners,
                      pc[r] = "sRegister", pc'[r] # "sRegister", rows' # rows,
                      OwnerOf[body[r].repo] = o,
                      Uses(body[r].files) \subseteq body[r].cas,
                      \A f \in DOMAIN body[r].files \ FilesOfOwner(o) :
                          terms[f] \in {<<>>, body[r].files[f]},
                      StoredBytesForOwner(o) = used[r]
               PROVE  WithinQuota(StoredBytesForOwner(o)', limit[r])
    OBVIOUS
  <2> DEFINE xs == Uses(body[r].files)
  <2>1. CasInv /\ CasInv' /\ TypeOK /\ TypeOK' /\ StillFits
    BY CasStep DEF QuotaInv, CasInv
  <2>2. ShardRegister(r)
    BY <2>1, RegisterOnly
  <2>3. xs \in SUBSET Xorbs
    BY <2>1, GatedShard
  <2>4. XorbsOfOwner(o)' \subseteq XorbsOfOwner(o) \cup xs
    BY <2>1, <2>2, RegisterAdds
  <2>5. XorbsOfOwner(o) \in SUBSET Xorbs /\ StoredBytesForOwner(o) \in Nat
    BY <2>1, OwnedXorbs
  <2>6. PICK C \in SUBSET (XorbsOfOwner(o) \cup xs) : C = XorbsOfOwner(o)'
    BY <2>4
  <2>7. RowBytes(C) <= StoredBytesForOwner(o) + UnaccountedXorbBytes(o, xs)
    BY <2>1, <2>3, <2>5, BytesJoin DEF StoredBytesForOwner, UnaccountedXorbBytes
  <2>8. StoredBytesForOwner(o)' = RowBytes(C)
    <3>1. xorbRow' = xorbRow
      BY <2>2 DEF ShardRegister
    <3>2. QED
      BY <2>6, <3>1, Zenon DEF StoredBytesForOwner, RowBytes
  <2>9. WithinQuota(used[r] + UnaccountedXorbBytes(o, xs), limit[r])
    BY <2>1 DEF StillFits
  <2>10. RowBytes(C) \in Nat /\ UnaccountedXorbBytes(o, xs) \in Nat
    <3>1. C \in SUBSET Xorbs /\ xs \ XorbsOfOwner(o) \in SUBSET Xorbs
      BY <2>3, <2>5, <2>6
    <3>2. QED
      BY <2>1, <3>1, KnownBytes DEF UnaccountedXorbBytes
  <2>11. limit[r] \in Limits \cup {NoLimit} /\ used[r] \in Nat
    BY <2>1 DEF TypeOK
  <2>12. WithinQuota(RowBytes(C), limit[r])
    <3>1. /\ used[r] + UnaccountedXorbBytes(o, xs) \in Nat
          /\ RowBytes(C) <= used[r] + UnaccountedXorbBytes(o, xs)
      BY <2>7, <2>10, <2>11
    <3>2. QED
      BY <2>9, <2>10, <2>11, <3>1, FewerFit
  <2>13. QED
    BY <2>8, <2>12, Zenon
<1>2. QED
  BY <1>1, QuotaInvHolds, PTL DEF Spec, QuotaNeverOvershot
=============================================================================
