----------------------------- MODULE PgMetadata -----------------------------
(***************************************************************************)
(* The PostgreSQL metadata store: concurrent transactions of several       *)
(* server tasks over the tables xorbs, chunks, xorb_frames, files and      *)
(* file_terms.                                                             *)
(*                                                                         *)
(* Each call of the store is a program of SQL statements, translated from  *)
(* the code; the statements are executed one at a time, interleaved with   *)
(* those of other calls.  What a statement does is PostgreSQL's (external) *)
(* at READ COMMITTED: it sees committed rows and its own; an INSERT that   *)
(* meets an uncommitted row of another transaction under the same key      *)
(* waits for that transaction to end; locks are held to the end of the     *)
(* transaction; of transactions that wait for each other in a circle one   *)
(* is aborted.                                                             *)
(***************************************************************************)
EXTENDS Naturals, Sequences, FiniteSetsExt

CONSTANTS
    Tasks,      \* connections of the pool in use at the same time
    Files, Repos, Xorbs, Encodings,
    Frames,     \* frames of a xorb
    Segs,       \* file -> the term lists that describe it: <<xorb, bytes>> pairs
    MaxTerms,   \* the length of the longest of them
    LockKey,    \* file -> the advisory lock key: the first eight bytes of its hash
    OwnerOf,    \* repository -> owner
    SizeOf,     \* xorb -> bytes on disk
    Calls,      \* the calls that the server makes
    None

ASSUME PgAssumption ==
    /\ Frames \in Nat \ {0} /\ MaxTerms \in Nat \ {0}
    /\ OwnerOf \in [Repos -> {OwnerOf[p] : p \in Repos}]
    /\ IsFiniteSet(Xorbs) /\ SizeOf \in [Xorbs -> Nat]
    /\ None \notin Tasks /\ None \notin Encodings /\ None \notin Nat /\ None \notin Xorbs \X Nat

VARIABLES
    db,         \* the committed rows: key -> value, None when there is no row
    buf,        \* task -> the rows of its open transaction
    lock,       \* key -> the transaction that holds it, or None
    task        \* task -> [prog: statements left of its part, left: parts after that,
                \*          seen: bytes it read, state]

vars == <<db, buf, lock, task>>

-----------------------------------------------------------------------------
(* Rows.  A row's key is its table and its primary key. *)

FileKey(f, p) == <<"files", f, p>>
TermKey(f, i) == <<"file_terms", f, i>>
XorbKey(x)    == <<"xorbs", x, 0>>
ChunkKey(x, i) == <<"chunks", x, i>>
FrameKey(x, i) == <<"xorb_frames", x, i>>
AdvisoryKey(f) == <<"advisory", LockKey[f], 0>>

RowKeys ==
    {FileKey(f, p) : f \in Files, p \in Repos} \cup
    {TermKey(f, i) : f \in Files, i \in 1..MaxTerms} \cup
    {XorbKey(x) : x \in Xorbs} \cup
    {ChunkKey(x, i) : x \in Xorbs, i \in 1..Frames} \cup
    {FrameKey(x, i) : x \in Xorbs, i \in 1..Frames}
LockKeys == RowKeys \cup {AdvisoryKey(f) : f \in Files}

NoRows == [k \in RowKeys |-> None]

\* SUM over the terms of a list.
Bytes(list) == SumFunctionOnSet([i \in DOMAIN list |-> list[i][2]], DOMAIN list)

\* A file's lists are what clients send for it.  None is empty; the server does
\* not verify them, so they need not add up to the same size.
ASSUME SegsAssumption ==
    \A f \in Files : \A l \in Segs[f] :
        l \in Seq(Xorbs \X Nat) /\ Len(l) \in 1..MaxTerms

\* The clients cut f differently but give it one size.
Agreed(f) == \A l, m \in Segs[f] : Bytes(l) = Bytes(m)

-----------------------------------------------------------------------------
(* The calls as programs: a list of parts, each a list of statements. *)

Stmt(op, k, v) == [op |-> op, key |-> k, val |-> v]

\* Mutant: the first registration takes no lock before it looks.
WriteFileNoLock(f, p, list) ==
    <<Stmt("upsert", FileKey(f, p), Bytes(list)),
      Stmt("probe", TermKey(f, 1), Len(list))>>
    \o [i \in 1..Len(list) |-> Stmt("insert", TermKey(f, i), list[i])]

\* write_file_in_tx: the row of the file in its repository, the advisory lock,
\* the look at existing terms (which skips the rest), the terms in batches.
WriteFile(f, p, list) ==
    <<Stmt("upsert", FileKey(f, p), Bytes(list)),
      Stmt("lock", AdvisoryKey(f), 0),
      Stmt("probe", TermKey(f, 1), Len(list))>>
    \o [i \in 1..Len(list) |-> Stmt("insert", TermKey(f, i), list[i])]

\* register_file, and register_files: a part for each file of a shard, in its
\* order, in one transaction.
RegisterFiles(p, shard) ==
    [i \in 1..Len(shard) |-> WriteFile(shard[i].file, p, shard[i].list)]

\* register_xorb: the xorb's row and the rows of its chunks.
RegisterXorb(x) ==
    <<Stmt("insert", XorbKey(x), SizeOf[x])>>
    \o [i \in 1..Frames |-> Stmt("insert", ChunkKey(x, i), SizeOf[x])]

\* register_xorb_layout: the frame rows, in the order of the frames.
RegisterXorbLayout(x, e) == [i \in 1..Frames |-> Stmt("insert", FrameKey(x, i), e)]

\* lookup_file: the terms, then the recorded size, each its own statement.
LookupFile(f) == <<Stmt("readTerms", TermKey(f, 1), f), Stmt("readTotal", TermKey(f, 1), f)>>

Program(c) ==
    CASE c.call = "register_files"       -> RegisterFiles(c.repo, c.shard)
      [] c.call = "register_xorb"        -> <<RegisterXorb(c.xorb)>>
      [] c.call = "register_xorb_layout" -> <<RegisterXorbLayout(c.xorb, c.enc)>>
      [] c.call = "lookup_file"          -> <<LookupFile(c.file)>>

\* The server registers one of the file's own lists.
ASSUME CallsAssumption ==
    \A c \in Calls :
        \/ c \in [call: {"register_xorb"}, xorb: Xorbs]
        \/ c \in [call: {"register_xorb_layout"}, xorb: Xorbs, enc: Encodings]
        \/ c \in [call: {"lookup_file"}, file: Files]
        \/ /\ c \in [call: {"register_files"}, repo: Repos,
                    shard: Seq([file: Files, list: UNION {Segs[f] : f \in Files}])]
           /\ \A i \in DOMAIN c.shard : c.shard[i].list \in Segs[c.shard[i].file]

-----------------------------------------------------------------------------
(* PostgreSQL. *)

Idle == [prog |-> <<>>, left |-> <<>>, seen |-> 0, state |-> "idle"]

Init ==
    /\ db = NoRows
    /\ buf = [t \in Tasks |-> NoRows]
    /\ lock = [k \in LockKeys |-> None]
    /\ task = [t \in Tasks |-> Idle]

Now(t)     == Head(task[t].prog)
Running(t) == task[t].state = "run" /\ task[t].prog # <<>>
Is(t, op)  == Running(t) /\ Now(t).op = op

\* What t sees: its own rows over the committed ones.
Sees(t, k) == IF buf[t][k] # None THEN buf[t][k] ELSE db[k]

\* The lock t's statement needs; an INSERT ... ON CONFLICT DO NOTHING whose row
\* is there already needs none.
Needs(t) ==
    /\ Running(t)
    /\ \/ Now(t).op \in {"upsert", "lock"}
       \/ Now(t).op = "insert" /\ Sees(t, Now(t).key) = None
Blocked(t) == Needs(t) /\ lock[Now(t).key] \notin {None, t}

\* t's statement is done; the next n are skipped.
Advance(t, n) == task' = [task EXCEPT ![t].prog = SubSeq(@, 2 + n, Len(@))]

\* A call of the store begins; register_files of no files is done at once.
Begin(t, c) ==
    /\ task[t].state # "run" /\ Program(c) # <<>>
    /\ task' = [task EXCEPT ![t] = [prog |-> Head(Program(c)), left |-> Tail(Program(c)),
                                   seen |-> 0, state |-> "run"]]
    /\ UNCHANGED <<db, buf, lock>>

\* The next file of a shard.
NextPart(t) ==
    /\ task[t].state = "run" /\ task[t].prog = <<>> /\ task[t].left # <<>>
    /\ task' = [task EXCEPT ![t].prog = Head(task[t].left), ![t].left = Tail(@)]
    /\ UNCHANGED <<db, buf, lock>>

Upsert(t) ==
    /\ Is(t, "upsert") /\ ~Blocked(t)
    /\ buf' = [buf EXCEPT ![t][Now(t).key] = Now(t).val]
    /\ lock' = [lock EXCEPT ![Now(t).key] = t]
    /\ Advance(t, 0) /\ UNCHANGED db

AdvisoryLock(t) ==
    /\ Is(t, "lock") /\ ~Blocked(t)
    /\ lock' = [lock EXCEPT ![Now(t).key] = t]
    /\ Advance(t, 0) /\ UNCHANGED <<db, buf>>

ProbeTerms(t) ==
    /\ Is(t, "probe")
    /\ Advance(t, IF Sees(t, Now(t).key) # None THEN Now(t).val ELSE 0)
    /\ UNCHANGED <<db, buf, lock>>

\* Mutant: the batch executed on the pool instead of the transaction.
InsertIgnoreOnPool(t) ==
    /\ Is(t, "insert") /\ ~Blocked(t)
    /\ db' = IF Needs(t) THEN [db EXCEPT ![Now(t).key] = Now(t).val] ELSE db
    /\ Advance(t, 0) /\ UNCHANGED <<buf, lock>>

InsertIgnore(t) ==
    /\ Is(t, "insert") /\ ~Blocked(t)
    /\ IF Needs(t)
         THEN /\ buf' = [buf EXCEPT ![t][Now(t).key] = Now(t).val]
              /\ lock' = [lock EXCEPT ![Now(t).key] = t]
         ELSE UNCHANGED <<buf, lock>>
    /\ Advance(t, 0) /\ UNCHANGED db

\* Mutant: the advisory lock taken for the session, not for the transaction.
ReleaseRowsOnly(t) ==
    lock' = [k \in LockKeys |-> IF lock[k] = t /\ k \in RowKeys THEN None ELSE lock[k]]

Release(t) == lock' = [k \in LockKeys |-> IF lock[k] = t THEN None ELSE lock[k]]

Commit(t) ==
    /\ task[t].state = "run" /\ task[t].prog = <<>> /\ task[t].left = <<>>
    /\ db' = [k \in RowKeys |-> Sees(t, k)]
    /\ buf' = [buf EXCEPT ![t] = NoRows]
    /\ Release(t)
    /\ task' = [task EXCEPT ![t] = Idle]

Rollback(t) ==
    /\ buf' = [buf EXCEPT ![t] = NoRows]
    /\ Release(t)
    /\ task' = [task EXCEPT ![t] = Idle]
    /\ UNCHANGED db

\* A statement fails or the connection is lost: the transaction is dropped.
Fail(t) == task[t].state = "run" /\ Rollback(t)

\* t waits, directly or not, for itself: a set of transactions in which each
\* waits for one of the set and is waited for by one of it.
InCycle(t) ==
    \E S \in SUBSET Tasks :
        /\ t \in S
        /\ \A u \in S : Blocked(u) /\ lock[Now(u).key] \in S
        /\ \A u \in S : \E w \in S : lock[Now(w).key] = u

DeadlockAbort(t) == InCycle(t) /\ Rollback(t)

-----------------------------------------------------------------------------
(* Reading. *)

\* The committed term list of f.
TermsOf(f) ==
    LET n == Cardinality({i \in 1..MaxTerms : db[TermKey(f, i)] # None})
    IN  [i \in 1..n |-> db[TermKey(f, i)]]

\* lookup_file's first statement: no rows, no file.
ReadTerms(t) ==
    /\ Is(t, "readTerms")
    /\ IF TermsOf(Now(t).val) = <<>>
         THEN task' = [task EXCEPT ![t] = Idle]
         ELSE task' = [task EXCEPT ![t].prog = Tail(@), ![t].seen = Bytes(TermsOf(Now(t).val))]
    /\ UNCHANGED <<db, buf, lock>>

\* Its second: any row of the file; a size that differs is refused.
ReadTotal(t) ==
    /\ Is(t, "readTotal")
    /\ LET f    == Now(t).val
           rows == {db[FileKey(f, p)] : p \in Repos} \ {None}
       IN  \E total \in IF rows = {} THEN {task[t].seen} ELSE rows :
              task' = [task EXCEPT ![t] =
                         IF total = task[t].seen THEN Idle ELSE [@ EXCEPT !.state = "refused"]]
    /\ UNCHANGED <<db, buf, lock>>

Step(t) ==
    \/ NextPart(t) \/ Upsert(t) \/ AdvisoryLock(t) \/ ProbeTerms(t) \/ InsertIgnore(t)
    \/ Commit(t) \/ ReadTerms(t) \/ ReadTotal(t)

Next ==
    \E t \in Tasks :
        \/ Step(t) \/ Fail(t) \/ DeadlockAbort(t)
        \/ \E c \in Calls : Begin(t, c)

Spec == Init /\ [][Next]_vars

\* Locks are granted in the order they were asked for, so no transaction is
\* passed over for ever, and the deadlock detector runs.
FairSpec == Spec /\ \A t \in Tasks : SF_vars(Step(t)) /\ WF_vars(DeadlockAbort(t))

-----------------------------------------------------------------------------
(* Accounting. *)

RowBytes(xs) ==
    SumFunctionOnSet([x \in Xorbs |-> db[XorbKey(x)]], {x \in xs : db[XorbKey(x)] # None})

\* The xorbs that the files of a set of repositories use.
XorbsIn(ps) ==
    UNION {{TermsOf(f)[i][1] : i \in DOMAIN TermsOf(f)} :
             f \in {g \in Files : \E p \in ps : db[FileKey(g, p)] # None}}

ReposOf(o) == {p \in Repos : OwnerOf[p] = o}

StoredBytesForOwner(o) == RowBytes(XorbsIn(ReposOf(o)))
StoredBytesForRepo(p)  == RowBytes(XorbsIn({p}))

\* Mutant: sharing with any other repository counts, not only with a sibling.
ExclusiveOfAll(p) == RowBytes(XorbsIn({p}) \ XorbsIn(Repos \ {p}))

ExclusiveStoredBytesForRepo(p) == RowBytes(XorbsIn({p}) \ XorbsIn(ReposOf(OwnerOf[p]) \ {p}))

UnaccountedXorbBytesForOwner(o, xs) == RowBytes(xs \ XorbsIn(ReposOf(o)))

-----------------------------------------------------------------------------
(* Properties. *)

\* Type invariant: a lock is held by a transaction that is open, or by none.
TypeOK ==
    /\ DOMAIN db = RowKeys /\ DOMAIN lock = LockKeys
    /\ \A k \in LockKeys : lock[k] \in {None} \cup {t \in Tasks : task[t].state = "run"}
    /\ \A t \in Tasks :
         /\ task[t].state \in {"idle", "run", "refused"}
         /\ \A k \in RowKeys : buf[t][k] # None => lock[k] = t

\* The committed terms of a file are none, or one of the lists registered for
\* it, whole: two registrations that cut the file differently never merge
\* (the advisory lock of write_file_in_tx).
TermsWhole ==
    \A f \in Files : {i \in 1..MaxTerms : db[TermKey(f, i)] # None} # {} =>
        TermsOf(f) \in Segs[f]

\* lookup_file's two statements act as one read, whatever commits between them:
\* the terms it counted are still the file's when it compares, and it refuses
\* only a file that clients gave different sizes, whichever repository's row
\* it happens to compare with.
LookupAsOneRead ==
    \A t \in Tasks : task[t].prog # <<>> /\ Now(t).op = "readTotal" =>
        /\ task[t].seen = Bytes(TermsOf(Now(t).val))
        /\ task[t].state = "refused" => ~Agreed(Now(t).val)

\* The frames of a xorb are those of one upload, though two uploads of it in
\* different encodings insert theirs row by row, each ignoring what is there.
LayoutOneEncoding ==
    \A x \in Xorbs : \A i, j \in 1..Frames : db[FrameKey(x, i)] = db[FrameKey(x, j)]

\* exclusive_stored_bytes_for_repo is "the amount the owner's stored_bytes
\* would drop if this repo were deleted", and the bytes that
\* unaccounted_xorb_bytes_for_owner announces are those by which registering
\* the repository's files under another owner would raise that owner's.
AccountingExact ==
    \A p \in Repos :
        /\ StoredBytesForOwner(OwnerOf[p]) - RowBytes(XorbsIn(ReposOf(OwnerOf[p]) \ {p}))
             = ExclusiveStoredBytesForRepo(p)
        /\ \A q \in Repos :
             RowBytes(XorbsIn(ReposOf(OwnerOf[q]) \cup {p})) - StoredBytesForOwner(OwnerOf[q])
               = UnaccountedXorbBytesForOwner(OwnerOf[q], XorbsIn({p}))

\* The rows that commits have made, for files whose size is agreed; they are
\* readable when the terms are whole and no row makes lookup_file refuse them.
RegisteredFiles == {e \in Files \X Repos : Agreed(e[1]) /\ db[FileKey(e[1], e[2])] # None}
ReadableFiles ==
    {e \in RegisteredFiles :
        /\ TermsOf(e[1]) \in Segs[e[1]]
        /\ \A p \in Repos : db[FileKey(e[1], p)] \in {None, Bytes(TermsOf(e[1]))}}

\* The store keeps the promise that the clients of the server rely on: the
\* files of a shard become readable at once and stay so.
Registry == INSTANCE FileRegistry WITH registered <- RegisteredFiles, readable <- ReadableFiles
ImplementsRegistry == Registry!Spec

\* Every call ends, though shards that name the same files in different orders
\* wait for each other's locks.
CallsEnd == \A t \in Tasks : task[t].state = "run" ~> task[t].state # "run"
=============================================================================
