------------------------------ MODULE CasServer ------------------------------
(***************************************************************************)
(* The upload handlers of the CAS server, POST /v1/xorbs and POST /shards, *)
(* over the metadata store (SQL) and the blob store (file system or S3).   *)
(* Each action is one await of a handler, so that concurrent requests      *)
(* interleave between them and a request may die at any of them.           *)
(*                                                                         *)
(* A xorb's hash covers its decompressed chunks, so one xorb has several   *)
(* on-disk encodings.  A file's content is cut into terms in several ways, *)
(* depending on the xorbs it was deduplicated against; each way is a list  *)
(* of xorbs.  The server verifies no terms; a client is assumed to send a  *)
(* list that describes the file, with chunk ranges its own xorbs have: a   *)
(* hash fixes how many chunks a xorb has, so the ranges are left out.      *)
(***************************************************************************)
EXTENDS Naturals, Sequences, FiniteSetsExt

CONSTANTS
    Requests,   \* handler tasks running at the same time
    Xorbs, Encodings,
    EncodingsOf, \* the encodings clients produce of a xorb
    SizeOf,     \* on-disk bytes of a xorb in an encoding
    Files,
    Segs,       \* the term lists that describe a file
    Repos, Owners,
    OwnerOf,    \* repository -> owner
    Limits,     \* the limits an administrator sets
    NoLimit,    \* no quota applies
    None        \* no layout, no blob, no xorb row

ASSUME CasAssumption ==
    /\ IsFiniteSet(Xorbs) /\ SizeOf \in [Xorbs -> [Encodings -> Nat]]
    /\ EncodingsOf \in [Xorbs -> SUBSET Encodings]
    /\ Segs \in [Files -> SUBSET (Seq(Xorbs) \ {<<>>})]
    /\ OwnerOf \in [Repos -> Owners]
    /\ Limits \subseteq Nat /\ NoLimit \notin Nat
    /\ None \notin Encodings /\ None \notin Nat

VARIABLES
    layout,     \* xorb_frames: xorb -> encoding its byte ranges describe
    blob,       \* blob store: xorb -> encoding of the stored body
    xorbRow,    \* xorbs table: xorb -> recorded bytes on disk
    rows,       \* files table: <<file, repo>>
    terms,      \* file_terms: file -> term list, <<>> when there is none
    archived,   \* files that archived shards describe
    quota,      \* owner_quotas, with the default already applied
    contested,  \* history: xorbs whose layout another encoding's upload found
                \* before there was a body
    pc, body, limit, used, todo   \* locals of each request

metaVars == <<layout, xorbRow, rows, terms, quota, contested>>
blobVars == <<blob, archived>>
reqVars  == <<pc, body, limit, used, todo>>
vars     == <<metaVars, blobVars, reqVars>>

XorbBodies == [repo : Repos, xorb : Xorbs, enc : Encodings]

(* A parsed shard: the files it describes with their terms, and the xorbs  *)
(* whose CAS blocks it carries.                                            *)
Uses(files) == UNION {Range(files[f]) : f \in DOMAIN files}

Cuts(fs) == {c \in [fs -> UNION {Segs[f] : f \in fs}] : \A f \in fs : c[f] \in Segs[f]}

Shards ==
    UNION {[repo : Repos, files : Cuts(fs), cas : SUBSET Xorbs] : fs \in SUBSET Files}

NoBody == [files |-> <<>>, cas |-> {}]

-----------------------------------------------------------------------------
(* Owner accounting *)

FilesOfOwner(o) == {f \in Files : \E p \in Repos : OwnerOf[p] = o /\ <<f, p>> \in rows}

XorbsOfOwner(o) == UNION {Range(terms[f]) : f \in FilesOfOwner(o)}

(* SUM(num_bytes_on_disk) over the rows of a set of xorbs; an unknown xorb *)
(* contributes nothing.                                                    *)
RowBytes(xs) == SumFunctionOnSet(xorbRow, {x \in xs : xorbRow[x] # None})

StoredBytesForOwner(o) == RowBytes(XorbsOfOwner(o))

UnaccountedXorbBytes(o, xs) == RowBytes(xs \ XorbsOfOwner(o))

WithinQuota(n, q) == q # NoLimit => n <= q

-----------------------------------------------------------------------------
Goto(r, next) == pc' = [pc EXCEPT ![r] = next]

(* The handler returns, with success or with an error. *)
Done(r) ==
    /\ pc' = [pc EXCEPT ![r] = "idle"]
    /\ body' = [body EXCEPT ![r] = NoBody]
    /\ todo' = [todo EXCEPT ![r] = {}]
    /\ limit' = [limit EXCEPT ![r] = NoLimit]
    /\ used' = [used EXCEPT ![r] = 0]

Arrives(r, b, next) ==
    /\ pc[r] = "idle"
    /\ pc' = [pc EXCEPT ![r] = next]
    /\ body' = [body EXCEPT ![r] = b]
    /\ UNCHANGED <<metaVars, blobVars, limit, used, todo>>

(* POST /v1/xorbs; the body was verified against the hash in the URL. *)
UploadXorb(r, p, x, e) == Arrives(r, [repo |-> p, xorb |-> x, enc |-> e], "xAdmit")

(* The quota check, skipped for a xorb that is already stored. *)
XorbAdmit(r) ==
    LET x == body[r].xorb
        o == OwnerOf[body[r].repo]
    IN  /\ pc[r] = "xAdmit"
        /\ \/ /\ \/ blob[x] # None
                 \/ WithinQuota(StoredBytesForOwner(o) + SizeOf[x][body[r].enc], quota[o])
              /\ Goto(r, "xLayout") /\ UNCHANGED <<body, limit, used, todo>>
           \/ /\ blob[x] = None
              /\ ~WithinQuota(StoredBytesForOwner(o) + SizeOf[x][body[r].enc], quota[o])
              /\ Done(r)
        /\ UNCHANGED <<metaVars, blobVars>>

(* Mutant: the body is stored without its layout. *)
XorbNoLayout(r) ==
    /\ pc[r] = "xLayout"
    /\ Goto(r, "xProbe")
    /\ UNCHANGED <<metaVars, blobVars, body, limit, used, todo>>

(* Mutant: INSERT OR REPLACE of the layout. *)
XorbLayoutReplaces(r) ==
    LET x == body[r].xorb
    IN  /\ pc[r] = "xLayout"
        /\ layout' = [layout EXCEPT ![x] = body[r].enc]
        /\ contested' = IF layout[x] \notin {None, body[r].enc} /\ blob[x] = None
                        THEN contested \cup {x} ELSE contested
        /\ Goto(r, "xProbe")
        /\ UNCHANGED <<xorbRow, rows, terms, quota, blobVars, body, limit, used, todo>>

(* register_xorb_layout: INSERT OR IGNORE, before the blob. *)
XorbLayout(r) ==
    LET x == body[r].xorb
    IN  /\ pc[r] = "xLayout"
        /\ layout' = [layout EXCEPT ![x] = IF @ = None THEN body[r].enc ELSE @]
        /\ contested' = IF layout[x] \notin {None, body[r].enc} /\ blob[x] = None
                        THEN contested \cup {x} ELSE contested
        /\ Goto(r, "xProbe")
        /\ UNCHANGED <<xorbRow, rows, terms, quota, blobVars, body, limit, used, todo>>

(* put_xorb looks whether the blob is there ... *)
XorbProbe(r) ==
    LET x == body[r].xorb
    IN  /\ pc[r] = "xProbe"
        /\ \/ blob[x] # None /\ Done(r)
           \/ /\ blob[x] = None /\ Goto(r, "xPut")
              /\ UNCHANGED <<body, limit, used, todo>>
        /\ UNCHANGED <<metaVars, blobVars>>

(* ... and writes it: a racing writer's blob is replaced. *)
XorbPut(r) ==
    LET x == body[r].xorb
    IN  /\ pc[r] = "xPut"
        /\ blob' = [blob EXCEPT ![x] = body[r].enc]
        /\ Done(r)
        /\ UNCHANGED <<metaVars, archived>>

-----------------------------------------------------------------------------
(* POST /shards, with whatever files and CAS blocks the client sends. *)
UploadShard(r, s) == Arrives(r, s, "sGate")

(* Every xorb of a CAS block or of a term must be in the blob store. *)
ShardGate(r) ==
    /\ pc[r] = "sGate"
    /\ \/ /\ \A x \in body[r].cas \cup Uses(body[r].files) : blob[x] # None
          /\ Goto(r, "sXorbs")
          /\ todo' = [todo EXCEPT ![r] = body[r].cas]
          /\ UNCHANGED <<body, limit, used>>
       \/ /\ \E x \in body[r].cas \cup Uses(body[r].files) : blob[x] = None
          /\ Done(r)
    /\ UNCHANGED <<metaVars, blobVars>>

(* Mutant: the size on disk is the shard's claim. *)
ShardXorbClaim(r, x) ==
    /\ pc[r] = "sXorbs"
    /\ x \in todo[r]
    /\ xorbRow' = [xorbRow EXCEPT ![x] = IF @ = None THEN 0 ELSE @]
    /\ todo' = [todo EXCEPT ![r] = @ \ {x}]
    /\ UNCHANGED <<layout, rows, terms, quota, contested, blobVars, pc, body, limit, used>>

(* register_xorb, a transaction per CAS block; the size on disk comes from *)
(* the recorded layout, and from the shard, which says 0, without one.     *)
ShardXorb(r, x) ==
    LET bytes == IF layout[x] = None THEN 0 ELSE SizeOf[x][layout[x]]
    IN  /\ pc[r] = "sXorbs"
        /\ x \in todo[r]
        /\ xorbRow' = [xorbRow EXCEPT ![x] = IF @ = None THEN bytes ELSE @]
        /\ todo' = [todo EXCEPT ![r] = @ \ {x}]
        /\ UNCHANGED <<layout, rows, terms, quota, contested, blobVars, pc, body, limit, used>>

(* The quota check over the xorbs of the shard's own terms: the limit and *)
(* the usage are read first ...                                            *)
ShardUsage(r) ==
    LET o == OwnerOf[body[r].repo]
    IN  /\ pc[r] = "sXorbs"
        /\ todo[r] = {}
        /\ limit' = [limit EXCEPT ![r] = quota[o]]
        /\ used' = [used EXCEPT ![r] = StoredBytesForOwner(o)]
        /\ Goto(r, "sQuota")
        /\ UNCHANGED <<metaVars, blobVars, body, todo>>

(* Mutant: what the shard adds is not counted. *)
ShardQuotaUsed(r) ==
    /\ pc[r] = "sQuota"
    /\ \/ /\ WithinQuota(used[r], limit[r]) /\ Goto(r, "sArchive")
          /\ UNCHANGED <<body, limit, used, todo>>
       \/ ~WithinQuota(used[r], limit[r]) /\ Done(r)
    /\ UNCHANGED <<metaVars, blobVars>>

(* ... and then what the shard adds to it. *)
ShardQuota(r) ==
    LET delta == UnaccountedXorbBytes(OwnerOf[body[r].repo], Uses(body[r].files))
        fits  == WithinQuota(used[r] + delta, limit[r])
    IN  /\ pc[r] = "sQuota"
        /\ \/ /\ fits /\ Goto(r, "sArchive")
              /\ UNCHANGED <<body, limit, used, todo>>
           \/ ~fits /\ Done(r)
        /\ UNCHANGED <<metaVars, blobVars>>

(* Mutant: the files are registered although put_shard did not run. *)
ShardNotArchived(r) ==
    /\ pc[r] = "sArchive"
    /\ Goto(r, "sRegister")
    /\ UNCHANGED <<metaVars, blobVars, body, limit, used, todo>>

(* put_shard *)
ShardArchive(r) ==
    /\ pc[r] = "sArchive"
    /\ archived' = archived \cup DOMAIN body[r].files
    /\ Goto(r, "sRegister")
    /\ UNCHANGED <<metaVars, blob, body, limit, used, todo>>

(* Mutant: INSERT OR IGNORE of each term merges two lists. *)
TermsMerged(files) ==
    [f \in Files |->
        IF f \in DOMAIN files /\ Len(files[f]) > Len(terms[f])
        THEN terms[f] \o SubSeq(files[f], Len(terms[f]) + 1, Len(files[f])) ELSE terms[f]]

(* write_file_in_tx: the terms are write-once per file. *)
TermsAfter(files) ==
    [f \in Files |-> IF f \in DOMAIN files /\ terms[f] = <<>> THEN files[f] ELSE terms[f]]

(* register_files: one transaction for the whole shard. *)
ShardRegister(r) ==
    LET files == body[r].files
    IN  /\ pc[r] = "sRegister"
        /\ rows' = rows \cup ((DOMAIN files) \X {body[r].repo})
        /\ terms' = TermsAfter(files)
        /\ Done(r)
        /\ UNCHANGED <<layout, xorbRow, quota, contested, blobVars>>

-----------------------------------------------------------------------------
(* A store error, a cancelled request or a server restart ends a request. *)
RequestFails(r) ==
    /\ pc[r] # "idle"
    /\ Done(r)
    /\ UNCHANGED <<metaVars, blobVars>>

(* PUT /v1/quotas/{owner}: the override, or the default when it is cleared. *)
SetOwnerQuota(o, q) ==
    /\ quota[o] # q
    /\ quota' = [quota EXCEPT ![o] = q]
    /\ UNCHANGED <<layout, xorbRow, rows, terms, contested, blobVars, reqVars>>

(* get_reconstruction answers with byte ranges of the stored bodies: the   *)
(* file is in the repository, its terms add up to its size and every xorb  *)
(* has a body and the layout of that very body.                            *)
Reconstructs(f, p) ==
    /\ <<f, p>> \in rows
    /\ terms[f] \in Segs[f]
    /\ \A x \in Range(terms[f]) : layout[x] # None /\ blob[x] = layout[x]

-----------------------------------------------------------------------------
Init ==
    /\ layout = [x \in Xorbs |-> None] /\ blob = [x \in Xorbs |-> None]
    /\ xorbRow = [x \in Xorbs |-> None]
    /\ rows = {} /\ terms = [f \in Files |-> <<>>]
    /\ archived = {} /\ contested = {}
    /\ quota \in [Owners -> Limits \cup {NoLimit}]
    /\ pc = [r \in Requests |-> "idle"]
    /\ body = [r \in Requests |-> NoBody]
    /\ limit = [r \in Requests |-> NoLimit]
    /\ used = [r \in Requests |-> 0]
    /\ todo = [r \in Requests |-> {}]

Arrival(r) ==
    \E p \in Repos :
        \/ \E x \in Xorbs : \E e \in EncodingsOf[x] : UploadXorb(r, p, x, e)
        \/ \E s \in Shards : UploadShard(r, s)

HandlerStep(r) ==
    \/ XorbAdmit(r) \/ XorbLayout(r) \/ XorbProbe(r) \/ XorbPut(r)
    \/ ShardGate(r) \/ (\E x \in Xorbs : ShardXorb(r, x))
    \/ ShardUsage(r) \/ ShardQuota(r) \/ ShardArchive(r) \/ ShardRegister(r)

Next ==
    \/ \E r \in Requests : Arrival(r) \/ HandlerStep(r) \/ RequestFails(r)
    \/ \E o \in Owners, q \in Limits \cup {NoLimit} : SetOwnerQuota(o, q)

Spec == Init /\ [][Next]_vars

-----------------------------------------------------------------------------
(* Properties *)

XorbSteps  == {"xAdmit", "xLayout", "xProbe", "xPut"}
ShardSteps == {"sGate", "sXorbs", "sQuota", "sArchive", "sRegister"}

(* The two stores and the locals of the handlers hold what their tables    *)
(* and Rust types allow, and a handler has the body of its own endpoint.   *)
TypeOK ==
    /\ layout \in [Xorbs -> Encodings \cup {None}]
    /\ blob \in [Xorbs -> Encodings \cup {None}]
    /\ xorbRow \in [Xorbs -> Nat \cup {None}]
    /\ rows \subseteq Files \X Repos
    /\ terms \in [Files -> {<<>>} \cup UNION {Segs[f] : f \in Files}]
    /\ archived \subseteq Files /\ contested \subseteq Xorbs
    /\ quota \in [Owners -> Limits \cup {NoLimit}]
    /\ pc \in [Requests -> {"idle"} \cup XorbSteps \cup ShardSteps]
    /\ body \in [Requests -> XorbBodies \cup Shards \cup {NoBody}]
    /\ limit \in [Requests -> Limits \cup {NoLimit}]
    /\ used \in [Requests -> Nat]
    /\ todo \in [Requests -> SUBSET Xorbs]
    /\ \A r \in Requests : /\ pc[r] \in XorbSteps => body[r] \in XorbBodies
                           /\ pc[r] \in ShardSteps => body[r] \in Shards

(* None of the file's xorbs had uploads of two encodings under way before  *)
(* it had a body.                                                          *)
Settled(f) == Range(terms[f]) \cap contested = {}

(* Every file row can be served: write_file_in_tx leaves one complete term *)
(* list, whatever shards raced for the file, and upload_shard's gate and   *)
(* upload_xorb's order leave no term without a body or without the ranges  *)
(* of that body.  The exception is a xorb for which an upload found the    *)
(* layout of another encoding and no body yet: upload_xorb stores its body *)
(* under the other's ranges then.                                          *)
FilesReconstructible ==
    \A f \in Files, p \in Repos : <<f, p>> \in rows /\ Settled(f) => Reconstructs(f, p)

(* upload_xorb records the byte ranges before the body: a body without     *)
(* ranges would wedge every file that refers to it.                        *)
BlobsHaveLayout == \A x \in Xorbs : blob[x] # None => layout[x] # None

(* upload_shard archives the shard before it registers the files, whatever *)
(* request fails in between.                                               *)
RowsArchived == \A f \in Files, p \in Repos : <<f, p>> \in rows => f \in archived

(* Owner accounting charges a xorb at the size of its recorded frames,    *)
(* although the client's shard says 0.                                     *)
RowsCharged ==
    \A x \in Xorbs : xorbRow[x] # None => layout[x] # None /\ xorbRow[x] = SizeOf[x][layout[x]]

(* A shard that describes all the xorbs its files use is not registered    *)
(* past the quota that upload_shard checked, unless another request of the *)
(* owner was charged since the usage was read.  A xorb the shard does not  *)
(* describe may get its row, and be charged, at any later time; and for a  *)
(* file that is new to the owner the terms may be those that another owner *)
(* wrote first, which the check did not look at.                           *)
QuotaNeverOvershot ==
    [][\A r \in Requests, o \in Owners :
           /\ pc[r] = "sRegister" /\ pc'[r] # "sRegister" /\ rows' # rows
           /\ OwnerOf[body[r].repo] = o
           /\ Uses(body[r].files) \subseteq body[r].cas
           /\ \A f \in DOMAIN body[r].files \ FilesOfOwner(o) :
                 terms[f] \in {<<>>, body[r].files[f]}
           /\ StoredBytesForOwner(o) = used[r]
           => WithinQuota(StoredBytesForOwner(o)', limit[r])]_vars

(* upload_shard and upload_xorb together implement the registry that the   *)
(* clients rely on: a shard's files become readable all at once, when the  *)
(* upload is accepted, and stay readable.  The files of a contested xorb   *)
(* are left out of the promise.                                            *)
Registry == INSTANCE FileRegistry WITH
                registered <- {d \in rows : Settled(d[1])},
                readable <- {d \in Files \X Repos : Settled(d[1]) /\ Reconstructs(d[1], d[2])}

ImplementsRegistry == Registry!Spec
=============================================================================
