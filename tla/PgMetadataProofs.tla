------------------------- MODULE PgMetadataProofs --------------------------
(***************************************************************************)
(* Proofs about PgMetadata, for any number of tasks, files, repositories,  *)
(* xorbs, encodings, frames and terms, and for any calls the server makes. *)
(*                                                                         *)
(* The committed rows alone say too little: what a commit will add depends *)
(* on what the transaction wrote, and that on how far its program is, on   *)
(* the locks it holds and on what the others may commit meanwhile.         *)
(***************************************************************************)
EXTENDS PgMetadata, SumTheorems, FiniteSetTheorems, TLAPS

Values   == {None} \cup Nat \cup Encodings \cup Files \cup (Xorbs \X Nat)
Ops      == {"upsert", "lock", "probe", "insert", "readTerms", "readTotal"}
Stmts    == {s \in [op: Ops, key: LockKeys, val: Values] :
               /\ s.op \in {"upsert", "insert"} => s.key \in RowKeys
               /\ s.op = "probe" => s.val \in Nat
               /\ s.op = "readTerms" => s.val \in Files}
TaskType == [prog: Seq(Stmts), left: Seq(Seq(Stmts)), seen: Nat, state: {"idle", "run", "refused"}]

Types ==
    /\ db \in [RowKeys -> Values]
    /\ buf \in [Tasks -> [RowKeys -> Values]]
    /\ lock \in [LockKeys -> Tasks \cup {None}]
    /\ task \in [Tasks -> TaskType]

(* An uncommitted row is locked. *)
Held == \A t \in Tasks, k \in RowKeys : buf[t][k] # None => lock[k] = t

-----------------------------------------------------------------------------
(* Rows of a file and of a xorb, committed (rows is db) or not (buf[t]). *)

IsSize(f, n) == \E l \in Segs[f] : n = Bytes(l)

NoTerms(rows, f) == \A i \in 1..MaxTerms : rows[TermKey(f, i)] = None

(* The first k terms of l, and no others. *)
ListRows(rows, f, l, k) ==
    \A i \in 1..MaxTerms : rows[TermKey(f, i)] = IF i <= k THEN l[i] ELSE None

WholeRows(rows, f) == \E l \in Segs[f] : ListRows(rows, f, l, Len(l))

NoFrames(rows, x)  == \A i \in 1..Frames : rows[FrameKey(x, i)] = None
AllFrames(rows, x) == \A i \in 1..Frames : rows[FrameKey(x, i)] # None

(* The first m frames of x in encoding e, and no others. *)
FrameRows(rows, x, e, m) ==
    \A i \in 1..Frames : rows[FrameKey(x, i)] = IF i <= m THEN e ELSE None

(* No rows of files. *)
NoFiles(rows) ==
    /\ \A f \in Files, p \in Repos : rows[FileKey(f, p)] = None
    /\ \A f \in Files : NoTerms(rows, f)

-----------------------------------------------------------------------------
(* What a transaction has done. *)

(* What is left of a part of which m statements are done. *)
Rest(prog, part, m) ==
    /\ Len(prog) + m = Len(part)
    /\ \A j \in 1..Len(prog) : prog[j] = part[m + j]

(* It is at a file: its row is written after one statement, the advisory   *)
(* lock held after two, and after three no terms of it are committed and   *)
(* those written are the first of its list.                                *)
Writing(t, f, p, l, m) ==
    /\ Rest(task[t].prog, WriteFile(f, p, l), m)
    /\ m >= 1 => IsSize(f, buf[t][FileKey(f, p)])
    /\ m >= 2 => lock[AdvisoryKey(f)] = t
    /\ m >= 3 => NoTerms(db, f) /\ ListRows(buf[t], f, l, m - 3)

(* It is at f and has done at least a statements of it. *)
Midst(t, f, p, a) == \E l \in Segs[f], m \in 0..(MaxTerms + 2) : a <= m /\ Writing(t, f, p, l, m)

(* A row of a file has the file's size, and the file its terms, unless the *)
(* transaction is at it.                                                   *)
Filed(t, f, p) ==
    buf[t][FileKey(f, p)] # None =>
        /\ IsSize(f, buf[t][FileKey(f, p)])
        /\ ~NoTerms(db, f) \/ WholeRows(buf[t], f) \/ Midst(t, f, p, 1)

(* Terms are written under the advisory lock, when none are committed. *)
Termed(t, f, p) ==
    \/ NoTerms(buf[t], f)
    \/ /\ lock[AdvisoryKey(f)] = t /\ NoTerms(db, f)
       /\ WholeRows(buf[t], f) \/ Midst(t, f, p, 4)

(* register_files. *)
FilingIn(t, p) ==
    /\ \A i \in 1..Len(task[t].left) :
         \E f \in Files : \E l \in Segs[f] : task[t].left[i] = WriteFile(f, p, l)
    /\ \A f \in Files, q \in Repos : buf[t][FileKey(f, q)] # None => q = p
    /\ \A x \in Xorbs : NoFrames(buf[t], x)
    /\ task[t].prog = <<>> \/ \E f \in Files : Midst(t, f, p, 0)
    /\ \A f \in Files : Filed(t, f, p) /\ Termed(t, f, p)

Filing(t) == \E p \in Repos : FilingIn(t, p)

(* register_xorb. *)
Storing(t) ==
    /\ \E x \in Xorbs, m \in 0..(Frames + 1) : Rest(task[t].prog, RegisterXorb(x), m)
    /\ task[t].left = <<>> /\ NoFiles(buf[t]) /\ \A x \in Xorbs : NoFrames(buf[t], x)

(* register_xorb_layout: the frames were there before, or none is and the  *)
(* first ones are written.                                                 *)
LayingAt(t, x, e, m) ==
    /\ Rest(task[t].prog, RegisterXorbLayout(x, e), m)
    /\ \A y \in Xorbs \ {x} : NoFrames(buf[t], y)
    /\ \/ NoFrames(buf[t], x) /\ (m = 0 \/ AllFrames(db, x))
       \/ m > 0 /\ NoFrames(db, x) /\ FrameRows(buf[t], x, e, m)

Laying(t) ==
    /\ \E x \in Xorbs, e \in Encodings, m \in 0..Frames : LayingAt(t, x, e, m)
    /\ task[t].left = <<>> /\ NoFiles(buf[t])

(* A task that has neither rows nor locks. *)
Bare(t) == (\A k \in RowKeys : buf[t][k] = None) /\ \A k \in LockKeys : lock[k] # t

(* The bytes that were counted are those of f's committed list. *)
Counted(rows, f, n) == \E l \in Segs[f] : ListRows(rows, f, l, Len(l)) /\ n = Bytes(l)

(* It is at f, and when the terms are read they are counted. *)
LookingAt(t, f, m) ==
    Rest(task[t].prog, LookupFile(f), m) /\ (m = 1 => Counted(db, f, task[t].seen))

(* lookup_file: it writes nothing. *)
Looking(t) ==
    /\ \E f \in Files, m \in 0..1 : LookingAt(t, f, m)
    /\ task[t].left = <<>> /\ Bare(t)

Job(t) ==
    /\ task[t].state = "idle" => Bare(t) /\ task[t].prog = <<>>
    /\ task[t].state = "refused" => Bare(t) /\ \E f \in Files : LookingAt(t, f, 1) /\ ~Agreed(f)
    /\ task[t].state = "run" => Filing(t) \/ Storing(t) \/ Laying(t) \/ Looking(t)

(* The committed rows: term lists whole, every row of a file with the      *)
(* file's size and its terms, layouts of one encoding.                     *)
Committed ==
    /\ \A f \in Files : NoTerms(db, f) \/ WholeRows(db, f)
    /\ \A f \in Files, p \in Repos :
         db[FileKey(f, p)] # None => IsSize(f, db[FileKey(f, p)]) /\ ~NoTerms(db, f)
    /\ LayoutOneEncoding

PgInv == Types /\ Held /\ Committed /\ \A t \in Tasks : Job(t)

-----------------------------------------------------------------------------
(* Keys. *)

(* A key names one row of one table. *)
LEMMA KeysDiffer ==
    /\ \A f, p, g, q : FileKey(f, p) = FileKey(g, q) => f = g /\ p = q
    /\ \A f, i, g, j : TermKey(f, i) = TermKey(g, j) => f = g /\ i = j
    /\ \A x, i, y, j : FrameKey(x, i) = FrameKey(y, j) => x = y /\ i = j
    /\ \A f, p, g, j : FileKey(f, p) # TermKey(g, j)
    /\ \A f, p, y, j : FileKey(f, p) # FrameKey(y, j)
    /\ \A f, p, y : FileKey(f, p) # XorbKey(y)
    /\ \A f, p, y, j : FileKey(f, p) # ChunkKey(y, j)
    /\ \A f, i, y, j : TermKey(f, i) # FrameKey(y, j)
    /\ \A f, i, y : TermKey(f, i) # XorbKey(y)
    /\ \A f, i, y, j : TermKey(f, i) # ChunkKey(y, j)
    /\ \A x, i, y : FrameKey(x, i) # XorbKey(y)
    /\ \A x, i, y, j : FrameKey(x, i) # ChunkKey(y, j)
  BY DEF FileKey, TermKey, XorbKey, ChunkKey, FrameKey

(* The keys of rows and of locks; an advisory lock is not a row's. *)
LEMMA KeyTypes ==
    /\ \A f \in Files, p \in Repos : FileKey(f, p) \in RowKeys
    /\ \A f \in Files, i \in 1..MaxTerms : TermKey(f, i) \in RowKeys
    /\ \A x \in Xorbs : XorbKey(x) \in RowKeys
    /\ \A x \in Xorbs, i \in 1..Frames : ChunkKey(x, i) \in RowKeys /\ FrameKey(x, i) \in RowKeys
    /\ \A f \in Files : AdvisoryKey(f) \in LockKeys /\ AdvisoryKey(f) \notin RowKeys
    /\ RowKeys \subseteq LockKeys
<1>1. \A f \in Files : AdvisoryKey(f) \notin RowKeys
  BY DEF RowKeys, AdvisoryKey, FileKey, TermKey, XorbKey, ChunkKey, FrameKey
<1>2. \A f \in Files : AdvisoryKey(f) \in LockKeys
  BY DEF LockKeys
<1>3. RowKeys \subseteq LockKeys
  BY DEF LockKeys
<1> QED
  BY <1>1, <1>2, <1>3 DEF RowKeys

(* The advisory key differs from every row's. *)
LEMMA AdvisoryApart ==
    ASSUME NEW f \in Files, NEW k \in RowKeys
    PROVE  AdvisoryKey(f) # k
  BY KeyTypes

-----------------------------------------------------------------------------
(* The programs. *)

(* The bytes of a term list are a number. *)
LEMMA BytesNat ==
    ASSUME NEW l \in Seq(Xorbs \X Nat)
    PROVE  Bytes(l) \in Nat
<1> DEFINE w == [i \in DOMAIN l |-> l[i][2]]
<1>1. DOMAIN l = 1..Len(l) /\ Len(l) \in Nat
  OBVIOUS
<1>2. IsFiniteSet(DOMAIN l)
  BY <1>1, FS_Interval
<1>3. \A i \in DOMAIN l : w[i] \in Nat
  OBVIOUS
<1>4. Bytes(l) = SumFunctionOnSet(w, DOMAIN l)
  BY DEF Bytes
<1> HIDE DEF w
<1> QED
  BY <1>2, <1>3, <1>4, SumNat

(* The list of a file is no longer than MaxTerms, and its terms are rows.  *)
LEMMA ListFacts ==
    ASSUME NEW f \in Files, NEW l \in Segs[f]
    PROVE  /\ l \in Seq(Xorbs \X Nat) /\ Len(l) \in Nat /\ 1 <= Len(l) /\ Len(l) <= MaxTerms
           /\ MaxTerms \in Nat /\ Bytes(l) \in Nat
           /\ \A i \in 1..Len(l) : l[i] \in Xorbs \X Nat /\ l[i] # None
           /\ Bytes(l) # None
<1>1. l \in Seq(Xorbs \X Nat) /\ Len(l) \in 1..MaxTerms /\ Bytes(l) \in Nat
  BY SegsAssumption, BytesNat
<1>2. MaxTerms \in Nat
  BY PgAssumption
<1>3. Len(l) \in Nat /\ 1 <= Len(l) /\ Len(l) <= MaxTerms
  BY <1>1, <1>2
<1>4. \A i \in 1..Len(l) : l[i] \in Xorbs \X Nat
  BY <1>1
<1>5. None \notin Xorbs \X Nat /\ None \notin Nat
  BY PgAssumption
<1> QED
  BY <1>1, <1>2, <1>3, <1>4, <1>5

(* A concatenation, by positions. *)
LEMMA ConcatFacts ==
    ASSUME NEW S, NEW a \in Seq(S), NEW b \in Seq(S)
    PROVE  /\ a \o b \in Seq(S) /\ Len(a \o b) = Len(a) + Len(b)
           /\ \A i \in 1..Len(a) : (a \o b)[i] = a[i]
           /\ \A i \in 1..Len(b) : (a \o b)[Len(a) + i] = b[i]
  OBVIOUS

(* A statement is a statement. *)
LEMMA StmtType ==
    ASSUME NEW op \in Ops, NEW k \in LockKeys, NEW v \in Values,
           op \in {"upsert", "insert"} => k \in RowKeys,
           op = "probe" => v \in Nat, op = "readTerms" => v \in Files
    PROVE  Stmt(op, k, v) \in Stmts
  BY DEF Stmt, Stmts

LEMMA StmtFields ==
    ASSUME NEW op, NEW k, NEW v
    PROVE  Stmt(op, k, v).op = op /\ Stmt(op, k, v).key = k /\ Stmt(op, k, v).val = v
  BY DEF Stmt

(* The statements of write_file_in_tx. *)
LEMMA WriteFacts ==
    ASSUME NEW f \in Files, NEW p \in Repos, NEW l \in Segs[f]
    PROVE  /\ WriteFile(f, p, l) \in Seq(Stmts)
           /\ Len(WriteFile(f, p, l)) = Len(l) + 3
           /\ WriteFile(f, p, l)[1] = Stmt("upsert", FileKey(f, p), Bytes(l))
           /\ WriteFile(f, p, l)[2] = Stmt("lock", AdvisoryKey(f), 0)
           /\ WriteFile(f, p, l)[3] = Stmt("probe", TermKey(f, 1), Len(l))
           /\ \A i \in 1..Len(l) :
                WriteFile(f, p, l)[3 + i] = Stmt("insert", TermKey(f, i), l[i])
<1> DEFINE a == <<Stmt("upsert", FileKey(f, p), Bytes(l)), Stmt("lock", AdvisoryKey(f), 0),
                  Stmt("probe", TermKey(f, 1), Len(l))>>
           b == [i \in 1..Len(l) |-> Stmt("insert", TermKey(f, i), l[i])]
<1>1. WriteFile(f, p, l) = a \o b
  BY DEF WriteFile
<1>2. /\ Len(l) \in Nat /\ 1 <= Len(l) /\ Len(l) <= MaxTerms /\ MaxTerms \in Nat /\ Bytes(l) \in Nat
      /\ \A i \in 1..Len(l) : l[i] \in Xorbs \X Nat
  BY ListFacts
<1>3. /\ FileKey(f, p) \in LockKeys /\ FileKey(f, p) \in RowKeys /\ AdvisoryKey(f) \in LockKeys
      /\ \A i \in 1..Len(l) : TermKey(f, i) \in LockKeys /\ TermKey(f, i) \in RowKeys
      /\ TermKey(f, 1) \in LockKeys
  <2>1. \A i \in 1..Len(l) : i \in 1..MaxTerms
    BY <1>2
  <2>2. 1 \in 1..Len(l)
    BY <1>2
  <2> QED
    BY <2>1, <2>2, KeyTypes
<1>4. /\ Bytes(l) \in Values /\ 0 \in Values /\ Len(l) \in Values
      /\ \A i \in 1..Len(l) : l[i] \in Values
  BY <1>2 DEF Values
<1>5. /\ Stmt("upsert", FileKey(f, p), Bytes(l)) \in Stmts /\ Stmt("lock", AdvisoryKey(f), 0) \in Stmts
      /\ Stmt("probe", TermKey(f, 1), Len(l)) \in Stmts
  <2>1. "upsert" \in Ops /\ "lock" \in Ops /\ "probe" \in Ops
    BY DEF Ops
  <2>2. Stmt("upsert", FileKey(f, p), Bytes(l)) \in Stmts
    BY <1>3, <1>4, <2>1, StmtType
  <2>3. Stmt("lock", AdvisoryKey(f), 0) \in Stmts
    BY <1>3, <1>4, <2>1, StmtType
  <2>4. Stmt("probe", TermKey(f, 1), Len(l)) \in Stmts
    BY <1>2, <1>3, <1>4, <2>1, StmtType
  <2> QED
    BY <2>2, <2>3, <2>4
<1>6. \A i \in 1..Len(l) : Stmt("insert", TermKey(f, i), l[i]) \in Stmts
  <2>1. "insert" \in Ops
    BY DEF Ops
  <2> QED
    BY <1>3, <1>4, <2>1, StmtType
<1>7. a \in Seq(Stmts) /\ Len(a) = 3
  BY <1>5
<1>8. a \in Seq(Stmts)
  BY <1>7
<1>9. b \in Seq(Stmts) /\ Len(b) = Len(l) /\ \A i \in 1..Len(l) : b[i] = Stmt("insert", TermKey(f, i), l[i])
  BY <1>2, <1>6
<1>10. b \in Seq(Stmts)
  BY <1>9
<1> HIDE DEF b
<1>11. /\ a[1] = Stmt("upsert", FileKey(f, p), Bytes(l)) /\ a[2] = Stmt("lock", AdvisoryKey(f), 0)
      /\ a[3] = Stmt("probe", TermKey(f, 1), Len(l))
  OBVIOUS
<1> HIDE DEF a
<1>12. /\ a \o b \in Seq(Stmts) /\ Len(a \o b) = Len(a) + Len(b)
       /\ \A i \in 1..Len(a) : (a \o b)[i] = a[i]
       /\ \A i \in 1..Len(b) : (a \o b)[Len(a) + i] = b[i]
  BY <1>8, <1>10, ConcatFacts
<1>13. PICK w : w = a \o b
  OBVIOUS
<1>14. /\ w \in Seq(Stmts) /\ Len(w) = 3 + Len(l)
       /\ \A i \in 1..3 : w[i] = a[i]
       /\ \A i \in 1..Len(l) : w[3 + i] = b[i]
  BY <1>7, <1>9, <1>12, <1>13, Zenon
<1>15. Len(w) = Len(l) + 3
  BY <1>2, <1>14
<1>16. w[1] = a[1] /\ w[2] = a[2] /\ w[3] = a[3]
  BY <1>14
<1>17. WriteFile(f, p, l) = w
  BY <1>1, <1>13
<1> QED
  BY <1>9, <1>11, <1>14, <1>15, <1>16, <1>17, Zenon

(* The statements of register_xorb: none is of a file or a frame. *)
LEMMA XorbFacts ==
    ASSUME NEW x \in Xorbs
    PROVE  /\ RegisterXorb(x) \in Seq(Stmts) /\ Len(RegisterXorb(x)) = Frames + 1
           /\ \A i \in 1..(Frames + 1) :
                /\ RegisterXorb(x)[i].op = "insert" /\ RegisterXorb(x)[i].val = SizeOf[x]
                /\ RegisterXorb(x)[i].key = XorbKey(x)
                   \/ \E j \in 1..Frames : RegisterXorb(x)[i].key = ChunkKey(x, j)
<1> DEFINE a == <<Stmt("insert", XorbKey(x), SizeOf[x])>>
           b == [i \in 1..Frames |-> Stmt("insert", ChunkKey(x, i), SizeOf[x])]
<1>1. RegisterXorb(x) = a \o b
  BY DEF RegisterXorb
<1>2. Frames \in Nat /\ SizeOf[x] \in Nat
  BY PgAssumption
<1>3. SizeOf[x] \in Values /\ "insert" \in Ops
  BY <1>2 DEF Values, Ops
<1>4. Stmt("insert", XorbKey(x), SizeOf[x]) \in Stmts
  BY <1>3, KeyTypes, StmtType
<1>5. \A i \in 1..Frames : Stmt("insert", ChunkKey(x, i), SizeOf[x]) \in Stmts
  BY <1>3, KeyTypes, StmtType
<1>6. a \in Seq(Stmts) /\ Len(a) = 1 /\ a[1] = Stmt("insert", XorbKey(x), SizeOf[x])
  BY <1>4
<1>7. b \in Seq(Stmts) /\ Len(b) = Frames
      /\ \A i \in 1..Frames : b[i] = Stmt("insert", ChunkKey(x, i), SizeOf[x])
  BY <1>2, <1>5
<1> HIDE DEF a, b
<1>8. /\ a \o b \in Seq(Stmts) /\ Len(a \o b) = Len(a) + Len(b)
      /\ \A i \in 1..Len(a) : (a \o b)[i] = a[i]
      /\ \A i \in 1..Len(b) : (a \o b)[Len(a) + i] = b[i]
  BY <1>6, <1>7, ConcatFacts
<1>9. PICK w : w = a \o b
  OBVIOUS
<1>10. /\ w \in Seq(Stmts) /\ Len(w) = 1 + Frames
       /\ \A i \in 1..1 : w[i] = a[i]
       /\ \A i \in 1..Frames : w[1 + i] = b[i]
  BY <1>6, <1>7, <1>8, <1>9, Zenon
<1>11. Len(w) = Frames + 1
  BY <1>2, <1>10
<1>12. ASSUME NEW i \in 1..(Frames + 1)
       PROVE  /\ w[i].op = "insert" /\ w[i].val = SizeOf[x]
              /\ (w[i].key = XorbKey(x) \/ \E j \in 1..Frames : w[i].key = ChunkKey(x, j))
  <2>1. CASE i = 1
    <3>1. w[i] = Stmt("insert", XorbKey(x), SizeOf[x])
      BY <1>6, <1>10, <2>1
    <3> QED
      BY <3>1, StmtFields
  <2>2. CASE i # 1
    <3>1. PICK j \in 1..Frames : i = 1 + j
      <4>1. i - 1 \in 1..Frames /\ i = 1 + (i - 1)
        BY <1>2, <2>2
      <4> QED
        BY <4>1
    <3>2. w[i] = Stmt("insert", ChunkKey(x, j), SizeOf[x])
      BY <1>7, <1>10, <3>1
    <3> QED
      BY <3>2, StmtFields
  <2> QED
    BY <2>1, <2>2
<1>13. RegisterXorb(x) = w
  BY <1>1, <1>9
<1> HIDE DEF RegisterXorb
<1> QED
  BY <1>10, <1>11, <1>12, <1>13

(* The statements of register_xorb_layout. *)
LEMMA LayoutFacts ==
    ASSUME NEW x \in Xorbs, NEW e \in Encodings
    PROVE  /\ RegisterXorbLayout(x, e) \in Seq(Stmts) /\ Len(RegisterXorbLayout(x, e)) = Frames
           /\ \A i \in 1..Frames :
                RegisterXorbLayout(x, e)[i] = Stmt("insert", FrameKey(x, i), e)
<1>1. Frames \in Nat
  BY PgAssumption
<1>2. e \in Values /\ "insert" \in Ops
  BY DEF Values, Ops
<1>3. \A i \in 1..Frames : Stmt("insert", FrameKey(x, i), e) \in Stmts
  BY <1>2, KeyTypes, StmtType
<1> QED
  BY <1>1, <1>3 DEF RegisterXorbLayout

(* The statements of lookup_file. *)
LEMMA LookupFacts ==
    ASSUME NEW f \in Files
    PROVE  /\ LookupFile(f) \in Seq(Stmts) /\ Len(LookupFile(f)) = 2
           /\ LookupFile(f)[1] = Stmt("readTerms", TermKey(f, 1), f)
           /\ LookupFile(f)[2] = Stmt("readTotal", TermKey(f, 1), f)
<1>1. f \in Values /\ "readTerms" \in Ops /\ "readTotal" \in Ops
  BY DEF Values, Ops
<1>2. TermKey(f, 1) \in LockKeys
  BY PgAssumption, KeyTypes
<1>3. Stmt("readTerms", TermKey(f, 1), f) \in Stmts /\ Stmt("readTotal", TermKey(f, 1), f) \in Stmts
  BY <1>1, <1>2, StmtType
<1> QED
  BY <1>3 DEF LookupFile

-----------------------------------------------------------------------------
(* The place in a part. *)

(* The statement to execute is the one after those done. *)
LEMMA RestHead ==
    ASSUME NEW S, NEW prog \in Seq(S), NEW part \in Seq(S), NEW m \in Nat,
           Rest(prog, part, m), prog # <<>>
    PROVE  /\ Head(prog) = part[m + 1] /\ Len(prog) \in Nat /\ 1 <= Len(prog)
           /\ Len(prog) + m = Len(part) /\ prog[Len(prog)] = part[Len(part)]
<1>1. PICK n \in Nat : n = Len(prog)
  OBVIOUS
<1>2. 1 <= n
  BY <1>1
<1>3. n + m = Len(part) /\ \A j \in 1..n : prog[j] = part[m + j]
  BY <1>1 DEF Rest
<1>4. Head(prog) = prog[1]
  BY <1>1, <1>2
<1>5. 1 \in 1..n /\ n \in 1..n /\ m + n = n + m
  BY <1>2
<1> QED
  BY <1>1, <1>2, <1>3, <1>4, <1>5

(* No statement is left when all are done. *)
LEMMA RestDone ==
    ASSUME NEW S, NEW prog \in Seq(S), NEW part \in Seq(S), NEW m \in Nat, Rest(prog, part, m)
    PROVE  /\ m <= Len(part) /\ Len(part) \in Nat
           /\ prog = <<>> <=> m = Len(part)
<1>1. PICK n \in Nat : n = Len(prog)
  OBVIOUS
<1>2. n + m = Len(part)
  BY <1>1 DEF Rest
<1>3. prog = <<>> <=> n = 0
  BY <1>1
<1> QED
  BY <1>2, <1>3

LEMMA RestStart ==
    ASSUME NEW S, NEW part \in Seq(S)
    PROVE  Rest(part, part, 0)
<1>1. PICK n \in Nat : n = Len(part)
  OBVIOUS
<1>2. n + 0 = n /\ \A j \in 1..n : 0 + j = j
  OBVIOUS
<1> QED
  BY <1>1, <1>2 DEF Rest

(* A suffix, by positions. *)
LEMMA SuffixFacts ==
    ASSUME NEW S, NEW s \in Seq(S), NEW k \in Nat, k + 1 <= Len(s)
    PROVE  /\ SubSeq(s, 2 + k, Len(s)) \in Seq(S)
           /\ Len(SubSeq(s, 2 + k, Len(s))) = Len(s) - (k + 1)
           /\ \A j \in 1..(Len(s) - (k + 1)) : SubSeq(s, 2 + k, Len(s))[j] = s[k + 1 + j]
<1>1. PICK n \in Nat : n = Len(s)
  OBVIOUS
<1>2. PICK w : w = SubSeq(s, 2 + k, n)
  OBVIOUS
<1>3. \A i \in (2 + k)..n : s[i] \in S
  BY <1>1
<1>4. w \in Seq(S) /\ Len(w) = n - (k + 1)
  BY <1>1, <1>2, <1>3
<1>5. \A j \in 1..(n - (k + 1)) : w[j] = s[k + 1 + j]
  BY <1>1, <1>2
<1> QED
  BY <1>1, <1>2, <1>4, <1>5

(* Executing a statement, and skipping k more, moves the place. *)
LEMMA RestNext ==
    ASSUME NEW S, NEW prog \in Seq(S), NEW part \in Seq(S), NEW m \in Nat, NEW k \in Nat,
           Rest(prog, part, m), m + 1 + k <= Len(part)
    PROVE  /\ SubSeq(prog, 2 + k, Len(prog)) \in Seq(S)
           /\ Rest(SubSeq(prog, 2 + k, Len(prog)), part, m + 1 + k)
<1>1. PICK n \in Nat : n = Len(prog)
  OBVIOUS
<1>2. n + m = Len(part) /\ \A j \in 1..n : prog[j] = part[m + j]
  BY <1>1 DEF Rest
<1>3. k + 1 <= n
  BY <1>2
<1>4. PICK w : w = SubSeq(prog, 2 + k, Len(prog))
  OBVIOUS
<1>5. w \in Seq(S) /\ Len(w) = n - (k + 1) /\ \A j \in 1..(n - (k + 1)) : w[j] = prog[k + 1 + j]
  BY <1>1, <1>3, <1>4, SuffixFacts
<1>6. Len(w) + (m + 1 + k) = Len(part)
  <2>1. (n - (k + 1)) + (m + 1 + k) = n + m
    OBVIOUS
  <2> QED
    BY <1>2, <1>5, <2>1
<1>7. ASSUME NEW j \in 1..Len(w)
      PROVE  w[j] = part[(m + 1 + k) + j]
  <2>1. j \in 1..(n - (k + 1)) /\ k + 1 + j \in 1..n /\ m + (k + 1 + j) = (m + 1 + k) + j
    BY <1>3, <1>5
  <2> QED
    BY <1>2, <1>5, <2>1
<1> QED
  BY <1>4, <1>5, <1>6, <1>7 DEF Rest

-----------------------------------------------------------------------------
(* Term lists as rows. *)

(* The rows of a list are its terms. *)
LEMMA ListTerms ==
    ASSUME NEW f \in Files, NEW l \in Segs[f], ListRows(db, f, l, Len(l))
    PROVE  /\ TermsOf(f) = l
           /\ ~NoTerms(db, f)
           /\ {i \in 1..MaxTerms : db[TermKey(f, i)] # None} # {}
<1>2. /\ l \in Seq(Xorbs \X Nat) /\ Len(l) \in Nat /\ 1 <= Len(l) /\ Len(l) <= MaxTerms
      /\ MaxTerms \in Nat /\ \A i \in 1..Len(l) : l[i] # None
  BY ListFacts
<1>3. PICK n \in Nat : n = Len(l)
  BY <1>2
<1>4. \A i \in 1..MaxTerms : db[TermKey(f, i)] = IF i <= n THEN l[i] ELSE None
  BY <1>3 DEF ListRows
<1>5. {i \in 1..MaxTerms : db[TermKey(f, i)] # None} = 1..n
  <2>1. \A i \in 1..MaxTerms : db[TermKey(f, i)] # None <=> i <= n
    BY <1>2, <1>3, <1>4
  <2>2. \A i : i \in 1..n <=> i \in 1..MaxTerms /\ i <= n
    BY <1>2, <1>3
  <2> QED
    BY <2>1, <2>2
<1>6. Cardinality(1..n) = n
  <2>1. Cardinality(1..n) = IF 1 > n THEN 0 ELSE n - 1 + 1
    BY FS_Interval
  <2> QED
    BY <1>2, <1>3, <2>1
<1>7. TermsOf(f) = [i \in 1..n |-> db[TermKey(f, i)]]
  BY <1>5, <1>6, Zenon DEF TermsOf
<1>8. \A i \in 1..n : db[TermKey(f, i)] = l[i]
  BY <1>2, <1>3, <1>4
<1>9. l = [i \in 1..n |-> l[i]]
  BY <1>2, <1>3
<1>10. TermsOf(f) = l
  BY <1>7, <1>8, <1>9
<1>11. 1 \in 1..n /\ 1 \in 1..MaxTerms
  BY <1>2, <1>3
<1>12. db[TermKey(f, 1)] # None
  BY <1>5, <1>11
<1> QED
  BY <1>10, <1>11, <1>12 DEF NoTerms

LEMMA WholeTerms ==
    ASSUME NEW f \in Files, WholeRows(db, f)
    PROVE  /\ TermsOf(f) \in Segs[f]
           /\ ~NoTerms(db, f)
           /\ {i \in 1..MaxTerms : db[TermKey(f, i)] # None} # {}
<1>1. PICK l \in Segs[f] : ListRows(db, f, l, Len(l))
  BY DEF WholeRows
<1> QED
  BY <1>1, ListTerms

(* What TermsOf gives for a whole list is counted, and only that. *)
LEMMA CountedTerms ==
    ASSUME NEW f \in Files
    PROVE  /\ WholeRows(db, f) => Counted(db, f, Bytes(TermsOf(f)))
           /\ \A n : Counted(db, f, n) => n = Bytes(TermsOf(f))
<1>1. ASSUME WholeRows(db, f) PROVE Counted(db, f, Bytes(TermsOf(f)))
  <2>1. PICK l \in Segs[f] : ListRows(db, f, l, Len(l))
    BY <1>1 DEF WholeRows
  <2>2. TermsOf(f) = l
    BY <2>1, ListTerms
  <2> QED
    BY <2>1, <2>2 DEF Counted
<1>2. ASSUME NEW n, Counted(db, f, n) PROVE n = Bytes(TermsOf(f))
  <2>1. PICK l \in Segs[f] : ListRows(db, f, l, Len(l)) /\ n = Bytes(l)
    BY <1>2 DEF Counted
  <2>2. TermsOf(f) = l
    BY <2>1, ListTerms
  <2> QED
    BY <2>1, <2>2
<1> QED
  BY <1>1, <1>2

(* Without rows there are no terms. *)
LEMMA NoTermsOf ==
    ASSUME NEW f \in Files, NoTerms(db, f)
    PROVE  TermsOf(f) = <<>> /\ TermsOf(f) \notin Segs[f]
           /\ {i \in 1..MaxTerms : db[TermKey(f, i)] # None} = {}
<1>1. {i \in 1..MaxTerms : db[TermKey(f, i)] # None} = {}
  BY DEF NoTerms
<1>2. Cardinality({}) = 0
  BY FS_EmptySet
<1>3. TermsOf(f) = [i \in 1..0 |-> db[TermKey(f, i)]]
  BY <1>1, <1>2, Zenon DEF TermsOf
<1>4. TermsOf(f) = <<>>
  BY <1>3
<1>5. ASSUME <<>> \in Segs[f] PROVE FALSE
  <2>1. 1 <= Len(<<>>)
    BY <1>5, ListFacts
  <2> QED
    BY <2>1
<1> QED
  BY <1>1, <1>4, <1>5

(* The first row tells whether there are any. *)
LEMMA FirstRow ==
    ASSUME NEW rows, NEW f \in Files, WholeRows(rows, f)
    PROVE  rows[TermKey(f, 1)] # None /\ ~NoTerms(rows, f)
<1>1. PICK l \in Segs[f] : ListRows(rows, f, l, Len(l))
  BY DEF WholeRows
<1>2. /\ Len(l) \in Nat /\ 1 <= Len(l) /\ Len(l) <= MaxTerms /\ MaxTerms \in Nat
      /\ \A i \in 1..Len(l) : l[i] # None
  BY ListFacts
<1>3. 1 \in 1..MaxTerms /\ 1 \in 1..Len(l)
  BY <1>2
<1>4. rows[TermKey(f, 1)] = l[1]
  BY <1>1, <1>2, <1>3 DEF ListRows
<1> QED
  BY <1>2, <1>3, <1>4 DEF NoTerms

(* A file whose size the clients agree on has one size. *)
LEMMA OneSize ==
    ASSUME NEW f \in Files, Agreed(f), NEW a, NEW b, IsSize(f, a), IsSize(f, b)
    PROVE  a = b /\ a \in Nat
  BY ListFacts DEF IsSize, Agreed

(* Committed terms stay, so what was counted stays counted. *)
LEMMA CountedKept ==
    ASSUME NEW f \in Files, NEW n, Counted(db, f, n),
           ~NoTerms(db, f) => \A i \in 1..MaxTerms : db'[TermKey(f, i)] = db[TermKey(f, i)]
    PROVE  Counted(db', f, n)
<1>1. PICK l \in Segs[f] : ListRows(db, f, l, Len(l)) /\ n = Bytes(l)
  BY DEF Counted
<1>2. ~NoTerms(db, f)
  BY <1>1, FirstRow DEF WholeRows
<1>3. ListRows(db', f, l, Len(l))
  BY <1>1, <1>2 DEF ListRows
<1> QED
  BY <1>1, <1>3 DEF Counted

-----------------------------------------------------------------------------
(* What a transaction relies on of the others. *)

(* Between two of its statements the others may commit: its rows and locks *)
(* stay, terms and frames that are committed stay so, and those that it    *)
(* guards with a lock do not appear.                                       *)
Untouched(u) ==
    /\ task'[u] = task[u] /\ buf'[u] = buf[u]
    /\ \A k \in LockKeys : lock[k] = u <=> lock'[k] = u
    /\ \A f \in Files : ~NoTerms(db, f) => ~NoTerms(db', f)
    /\ \A f \in Files : ~NoTerms(db, f) => \A i \in 1..MaxTerms : db'[TermKey(f, i)] = db[TermKey(f, i)]
    /\ \A f \in Files : lock[AdvisoryKey(f)] = u /\ NoTerms(db, f) => NoTerms(db', f)
    /\ \A x \in Xorbs : AllFrames(db, x) => AllFrames(db', x)
    /\ \A x \in Xorbs : lock[FrameKey(x, 1)] = u /\ NoFrames(db, x) => NoFrames(db', x)

(* Its own rows are guarded. *)
LEMMA FrameGuard ==
    ASSUME Held, NEW t \in Tasks, NEW x \in Xorbs, NEW e \in Encodings, NEW m \in Nat,
           m > 0, FrameRows(buf[t], x, e, m)
    PROVE  lock[FrameKey(x, 1)] = t
<1>1. 1 \in 1..Frames /\ 1 <= m
  BY PgAssumption
<1>2. buf[t][FrameKey(x, 1)] = e
  BY <1>1 DEF FrameRows
<1>3. e # None
  BY PgAssumption
<1>4. FrameKey(x, 1) \in RowKeys
  BY <1>1, KeyTypes
<1> QED
  BY <1>2, <1>3, <1>4 DEF Held

(* Writing a file stands against what the others do. *)
LEMMA OtherWriting ==
    ASSUME NEW u \in Tasks, Untouched(u), NEW f \in Files, NEW p \in Repos, NEW l \in Segs[f],
           NEW m \in Nat, Writing(u, f, p, l, m)
    PROVE  Writing(u, f, p, l, m)'
<1>1. task'[u] = task[u] /\ buf'[u] = buf[u]
  BY DEF Untouched
<1>2. Rest(task[u].prog, WriteFile(f, p, l), m)'
  BY <1>1 DEF Writing, Rest
<1>3. m >= 1 => IsSize(f, buf'[u][FileKey(f, p)])
  BY <1>1 DEF Writing
<1>4. m >= 2 => lock'[AdvisoryKey(f)] = u
  BY KeyTypes DEF Writing, Untouched
<1>5. m >= 3 => NoTerms(db', f)
  <2>1. m >= 3 => m >= 2
    OBVIOUS
  <2> QED
    BY <2>1 DEF Writing, Untouched
<1>6. m >= 3 => ListRows(buf'[u], f, l, m - 3)
  BY <1>1 DEF Writing
<1> QED
  BY <1>1, <1>2, <1>3, <1>4, <1>5, <1>6 DEF Writing, IsSize, NoTerms, ListRows

LEMMA OtherMidst ==
    ASSUME NEW u \in Tasks, Untouched(u), NEW f \in Files, NEW p \in Repos, NEW a \in Nat,
           Midst(u, f, p, a)
    PROVE  Midst(u, f, p, a)'
<1>1. PICK l \in Segs[f], m \in 0..(MaxTerms + 2) : a <= m /\ Writing(u, f, p, l, m)
  BY DEF Midst
<1>2. m \in Nat
  BY PgAssumption
<1>3. Writing(u, f, p, l, m)'
  BY <1>1, <1>2, OtherWriting
<1> QED
  BY <1>1, <1>3 DEF Midst

LEMMA OtherFiling ==
    ASSUME NEW u \in Tasks, Untouched(u), NEW p \in Repos, FilingIn(u, p)
    PROVE  FilingIn(u, p)'
<1>1. task'[u] = task[u] /\ buf'[u] = buf[u]
  BY DEF Untouched
<1>2. (\A i \in 1..Len(task[u].left) :
         \E f \in Files : \E l \in Segs[f] : task[u].left[i] = WriteFile(f, p, l))'
  BY <1>1 DEF FilingIn
<1>3. (\A f \in Files, q \in Repos : buf[u][FileKey(f, q)] # None => q = p)'
  BY <1>1 DEF FilingIn
<1>4. (\A x \in Xorbs : NoFrames(buf[u], x))'
  BY <1>1 DEF FilingIn, NoFrames
<1>5. (task[u].prog = <<>> \/ \E f \in Files : Midst(u, f, p, 0))'
  <2>1. CASE task[u].prog = <<>>
    BY <1>1, <2>1
  <2>2. CASE \E f \in Files : Midst(u, f, p, 0)
    <3>1. PICK f \in Files : Midst(u, f, p, 0)
      BY <2>2
    <3>2. Midst(u, f, p, 0)'
      BY <3>1, OtherMidst
    <3> QED
      BY <3>2
  <2> QED
    BY <2>1, <2>2 DEF FilingIn
<1>6. ASSUME NEW f \in Files PROVE Filed(u, f, p)'
  <2> SUFFICES ASSUME buf'[u][FileKey(f, p)] # None
               PROVE  /\ IsSize(f, buf'[u][FileKey(f, p)])
                      /\ ~NoTerms(db', f) \/ WholeRows(buf'[u], f) \/ Midst(u, f, p, 1)'
    BY DEF Filed, IsSize, NoTerms, WholeRows, ListRows
  <2>1. /\ IsSize(f, buf[u][FileKey(f, p)])
        /\ ~NoTerms(db, f) \/ WholeRows(buf[u], f) \/ Midst(u, f, p, 1)
    BY <1>1 DEF FilingIn, Filed
  <2>2. ~NoTerms(db, f) => ~NoTerms(db', f)
    BY DEF Untouched
  <2>3. Midst(u, f, p, 1) => Midst(u, f, p, 1)'
    BY OtherMidst
  <2> QED
    BY <1>1, <2>1, <2>2, <2>3
<1>7. ASSUME NEW f \in Files PROVE Termed(u, f, p)'
  <2>1. CASE NoTerms(buf[u], f)
    BY <1>1, <2>1 DEF Termed, NoTerms
  <2>2. CASE /\ lock[AdvisoryKey(f)] = u /\ NoTerms(db, f)
             /\ WholeRows(buf[u], f) \/ Midst(u, f, p, 4)
    <3>1. lock'[AdvisoryKey(f)] = u /\ NoTerms(db', f)
      BY <2>2, KeyTypes DEF Untouched
    <3>2. Midst(u, f, p, 4) => Midst(u, f, p, 4)'
      BY OtherMidst
    <3>3. WholeRows(buf'[u], f) \/ Midst(u, f, p, 4)'
      BY <1>1, <2>2, <3>2
    <3> QED
      BY <3>1, <3>3 DEF Termed, NoTerms, WholeRows, ListRows
  <2> QED
    BY <2>1, <2>2 DEF FilingIn, Termed
<1> QED
  BY <1>2, <1>3, <1>4, <1>5, <1>6, <1>7 DEF FilingIn

LEMMA OtherLaying ==
    ASSUME Held, NEW u \in Tasks, Untouched(u), Laying(u)
    PROVE  Laying(u)'
<1>1. task'[u] = task[u] /\ buf'[u] = buf[u]
  BY DEF Untouched
<1>2. PICK x \in Xorbs, e \in Encodings, m \in 0..Frames : LayingAt(u, x, e, m)
  BY DEF Laying
<1>3. m \in Nat
  BY PgAssumption
<1>4. Rest(task[u].prog, RegisterXorbLayout(x, e), m)'
  BY <1>1, <1>2 DEF LayingAt, Rest
<1>5. (\A y \in Xorbs \ {x} : NoFrames(buf[u], y))'
  BY <1>1, <1>2 DEF LayingAt, NoFrames
<1>6. (\/ NoFrames(buf[u], x) /\ (m = 0 \/ AllFrames(db, x))
       \/ m > 0 /\ NoFrames(db, x) /\ FrameRows(buf[u], x, e, m))'
  <2>1. CASE NoFrames(buf[u], x) /\ (m = 0 \/ AllFrames(db, x))
    <3>1. AllFrames(db, x) => AllFrames(db', x)
      BY DEF Untouched
    <3> QED
      BY <1>1, <2>1, <3>1 DEF NoFrames, AllFrames
  <2>2. CASE m > 0 /\ NoFrames(db, x) /\ FrameRows(buf[u], x, e, m)
    <3>1. lock[FrameKey(x, 1)] = u
      BY <1>3, <2>2, FrameGuard
    <3>2. NoFrames(db', x)
      BY <2>2, <3>1 DEF Untouched
    <3> QED
      BY <1>1, <2>2, <3>2 DEF NoFrames, FrameRows
  <2> QED
    BY <1>2, <2>1, <2>2 DEF LayingAt
<1>7. LayingAt(u, x, e, m)'
  BY <1>4, <1>5, <1>6 DEF LayingAt
<1>8. (task[u].left = <<>> /\ NoFiles(buf[u]))'
  BY <1>1 DEF Laying, NoFiles, NoTerms
<1> QED
  BY <1>7, <1>8 DEF Laying

(* What a transaction has done stands against what the others do. *)
LEMMA OtherJob ==
    ASSUME Held, NEW u \in Tasks, Untouched(u), Job(u)
    PROVE  Job(u)'
<1>1. task'[u] = task[u] /\ buf'[u] = buf[u]
  BY DEF Untouched
<1>2. Filing(u) => Filing(u)'
  <2> SUFFICES ASSUME Filing(u) PROVE Filing(u)'
    OBVIOUS
  <2>1. PICK p \in Repos : FilingIn(u, p)
    BY DEF Filing
  <2>2. FilingIn(u, p)'
    BY <2>1, OtherFiling
  <2> QED
    BY <2>2 DEF Filing
<1>3. Storing(u) => Storing(u)'
  BY <1>1 DEF Storing, Rest, NoFiles, NoTerms, NoFrames
<1>4. Laying(u) => Laying(u)'
  BY OtherLaying
<1>5. Bare(u) => Bare(u)'
  BY <1>1 DEF Bare, Untouched
<1>6. ASSUME NEW f \in Files, NEW m, LookingAt(u, f, m) PROVE LookingAt(u, f, m)'
  <2>1. Rest(task'[u].prog, LookupFile(f), m) /\ (m = 1 => Counted(db, f, task'[u].seen))
    BY <1>1, <1>6 DEF LookingAt
  <2>2. m = 1 => Counted(db', f, task'[u].seen)
    BY <2>1, CountedKept DEF Untouched
  <2> QED
    BY <2>1, <2>2 DEF LookingAt, Rest, Counted, ListRows
<1>7. Looking(u) => Looking(u)'
  BY <1>1, <1>5, <1>6 DEF Looking
<1> QED
  BY <1>1, <1>2, <1>3, <1>4, <1>5, <1>6, <1>7 DEF Job

-----------------------------------------------------------------------------
(* Writing a file. *)

(* The statement of a file's part and how many are done before it. *)
LEMMA WriteNow ==
    ASSUME NEW f \in Files, NEW p \in Repos, NEW l \in Segs[f], NEW m \in Nat, m < Len(l) + 3
    PROVE  /\ WriteFile(f, p, l)[m + 1].op \in {"upsert", "lock", "probe", "insert"}
           /\ WriteFile(f, p, l)[m + 1].op = "upsert" => m = 0
           /\ WriteFile(f, p, l)[m + 1].op = "lock" => m = 1
           /\ WriteFile(f, p, l)[m + 1].op = "probe" => m = 2
           /\ WriteFile(f, p, l)[m + 1].op = "insert" =>
                /\ m >= 3 /\ m - 2 \in 1..Len(l)
                /\ WriteFile(f, p, l)[m + 1] = Stmt("insert", TermKey(f, m - 2), l[m - 2])
<1>1. PICK w : w = WriteFile(f, p, l)
  OBVIOUS
<1>2. /\ w[1] = Stmt("upsert", FileKey(f, p), Bytes(l))
      /\ w[2] = Stmt("lock", AdvisoryKey(f), 0)
      /\ w[3] = Stmt("probe", TermKey(f, 1), Len(l))
      /\ \A i \in 1..Len(l) : w[3 + i] = Stmt("insert", TermKey(f, i), l[i])
  BY <1>1, WriteFacts
<1>3. Len(l) \in Nat
  BY ListFacts
<1>4. w[1].op = "upsert" /\ w[2].op = "lock" /\ w[3].op = "probe"
  BY <1>2, StmtFields
<1>5. CASE m = 0
  BY <1>1, <1>4, <1>5
<1>6. CASE m = 1
  BY <1>1, <1>4, <1>6
<1>7. CASE m = 2
  BY <1>1, <1>4, <1>7
<1>8. CASE m >= 3
  <2>1. m - 2 \in 1..Len(l) /\ 3 + (m - 2) = m + 1
    BY <1>3, <1>8
  <2>2. w[m + 1] = Stmt("insert", TermKey(f, m - 2), l[m - 2])
    BY <1>2, <2>1
  <2>3. w[m + 1].op = "insert"
    BY <2>2, StmtFields
  <2> QED
    BY <1>1, <1>8, <2>1, <2>2, <2>3
<1> QED
  BY <1>5, <1>6, <1>7, <1>8

(* The statements left tell the file and the place. *)
LEMMA OnePlace ==
    ASSUME NEW prog \in Seq(Stmts), prog # <<>>, NEW p \in Repos, NEW q \in Repos,
           NEW f \in Files, NEW l \in Segs[f], NEW m \in Nat, Rest(prog, WriteFile(f, p, l), m),
           NEW g \in Files, NEW k \in Segs[g], NEW n \in Nat, Rest(prog, WriteFile(g, q, k), n)
    PROVE  f = g /\ m = n
<1>1. /\ Len(l) \in Nat /\ 1 <= Len(l) /\ Len(k) \in Nat /\ 1 <= Len(k)
  BY ListFacts
<1>2. PICK v : v = WriteFile(f, p, l)
  OBVIOUS
<1>3. PICK w : w = WriteFile(g, q, k)
  OBVIOUS
<1>4. /\ v \in Seq(Stmts) /\ Len(v) = Len(l) + 3
      /\ \A i \in 1..Len(l) : v[3 + i] = Stmt("insert", TermKey(f, i), l[i])
  BY <1>2, WriteFacts
<1>5. /\ w \in Seq(Stmts) /\ Len(w) = Len(k) + 3
      /\ \A i \in 1..Len(k) : w[3 + i] = Stmt("insert", TermKey(g, i), k[i])
  BY <1>3, WriteFacts
<1>6. Len(prog) \in Nat /\ Len(prog) + m = Len(v) /\ prog[Len(prog)] = v[Len(v)]
  BY <1>2, <1>4, RestHead
<1>7. Len(prog) + n = Len(w) /\ prog[Len(prog)] = w[Len(w)]
  BY <1>3, <1>5, RestHead
<1>8. v[Len(v)] = Stmt("insert", TermKey(f, Len(l)), l[Len(l)])
  <2>1. Len(l) \in 1..Len(l) /\ 3 + Len(l) = Len(l) + 3
    BY <1>1
  <2> QED
    BY <1>4, <2>1
<1>9. w[Len(w)] = Stmt("insert", TermKey(g, Len(k)), k[Len(k)])
  <2>1. Len(k) \in 1..Len(k) /\ 3 + Len(k) = Len(k) + 3
    BY <1>1
  <2> QED
    BY <1>5, <2>1
<1>10. v[Len(v)].key = TermKey(f, Len(l)) /\ w[Len(w)].key = TermKey(g, Len(k))
  BY <1>8, <1>9, StmtFields
<1>11. TermKey(f, Len(l)) = TermKey(g, Len(k))
  BY <1>6, <1>7, <1>10
<1>12. f = g /\ Len(l) = Len(k)
  <2>1. \A i, j : TermKey(f, i) = TermKey(g, j) => f = g /\ i = j
    BY KeysDiffer
  <2> QED
    BY <1>11, <2>1
<1>13. Len(prog) + m = Len(l) + 3 /\ Len(prog) + n = Len(l) + 3
  BY <1>4, <1>5, <1>6, <1>7, <1>12
<1>14. m = n
  BY <1>1, <1>6, <1>13
<1> QED
  BY <1>12, <1>14

(* A file that the transaction is not at: done with, or not begun. *)
TermsDone(t, f) ==
    NoTerms(buf[t], f) \/ (lock[AdvisoryKey(f)] = t /\ NoTerms(db, f) /\ WholeRows(buf[t], f))

FileDone(t, f, p) ==
    /\ TermsDone(t, f)
    /\ buf[t][FileKey(f, p)] # None =>
         IsSize(f, buf[t][FileKey(f, p)]) /\ (~NoTerms(db, f) \/ WholeRows(buf[t], f))

(* With no statement left the transaction is at no file. *)
LEMMA MidstDone ==
    ASSUME NEW t \in Tasks, task[t].prog = <<>>, NEW f \in Files, NEW p \in Repos,
           NEW a \in Nat, Midst(t, f, p, a)
    PROVE  WholeRows(buf[t], f)
<1>1. PICK l \in Segs[f], m \in 0..(MaxTerms + 2) : Writing(t, f, p, l, m)
  BY DEF Midst
<1>2. m \in Nat /\ Len(l) \in Nat
  BY PgAssumption, ListFacts
<1>3. Rest(<<>>, WriteFile(f, p, l), m)
  BY <1>1 DEF Writing
<1>4. WriteFile(f, p, l) \in Seq(Stmts) /\ Len(WriteFile(f, p, l)) = Len(l) + 3
  BY WriteFacts
<1>5. <<>> \in Seq(Stmts)
  OBVIOUS
<1>6. m = Len(WriteFile(f, p, l))
  BY <1>2, <1>3, <1>4, <1>5, RestDone
<1>7. m >= 3 /\ m - 3 = Len(l)
  BY <1>2, <1>4, <1>6
<1>8. ListRows(buf[t], f, l, m - 3)
  BY <1>1, <1>7 DEF Writing
<1> QED
  BY <1>7, <1>8 DEF WholeRows

LEMMA AllDone ==
    ASSUME NEW t \in Tasks, NEW p \in Repos, FilingIn(t, p), task[t].prog = <<>>, NEW f \in Files
    PROVE  FileDone(t, f, p)
<1>1. Midst(t, f, p, 1) \/ Midst(t, f, p, 4) => WholeRows(buf[t], f)
  BY MidstDone
<1>2. Filed(t, f, p) /\ Termed(t, f, p)
  BY DEF FilingIn
<1>3. TermsDone(t, f)
  BY <1>1, <1>2 DEF Termed, TermsDone
<1>4. buf[t][FileKey(f, p)] # None =>
        IsSize(f, buf[t][FileKey(f, p)]) /\ (~NoTerms(db, f) \/ WholeRows(buf[t], f))
  BY <1>1, <1>2 DEF Filed
<1> QED
  BY <1>3, <1>4 DEF FileDone

(* Midst of f, the transaction is at no other file. *)
LEMMA OthersDone ==
    ASSUME Types, NEW t \in Tasks, NEW p \in Repos, FilingIn(t, p), task[t].prog # <<>>,
           NEW f \in Files, NEW l \in Segs[f], NEW m \in Nat, Writing(t, f, p, l, m)
    PROVE  /\ \A g \in Files \ {f} : FileDone(t, g, p)
           /\ m < 4 => TermsDone(t, f)
<1>1. task[t].prog \in Seq(Stmts)
  BY DEF Types, TaskType
<1>2. Rest(task[t].prog, WriteFile(f, p, l), m)
  BY DEF Writing
<1>3. ASSUME NEW g \in Files, NEW a \in Nat, Midst(t, g, p, a)
      PROVE  g = f /\ a <= m
  <2>1. PICK k \in Segs[g], n \in 0..(MaxTerms + 2) : a <= n /\ Writing(t, g, p, k, n)
    BY <1>3 DEF Midst
  <2>2. n \in Nat
    BY PgAssumption
  <2>3. Rest(task[t].prog, WriteFile(g, p, k), n)
    BY <2>1 DEF Writing
  <2>4. f = g /\ m = n
    BY <1>1, <1>2, <2>2, <2>3, OnePlace
  <2> QED
    BY <2>1, <2>4
<1>4. ASSUME NEW g \in Files \ {f} PROVE FileDone(t, g, p)
  <2>1. ~Midst(t, g, p, 1) /\ ~Midst(t, g, p, 4)
    BY <1>3
  <2>2. Filed(t, g, p) /\ Termed(t, g, p)
    BY DEF FilingIn
  <2>3. TermsDone(t, g)
    BY <2>1, <2>2 DEF Termed, TermsDone
  <2>4. buf[t][FileKey(g, p)] # None =>
          IsSize(g, buf[t][FileKey(g, p)]) /\ (~NoTerms(db, g) \/ WholeRows(buf[t], g))
    BY <2>1, <2>2 DEF Filed
  <2> QED
    BY <2>3, <2>4 DEF FileDone
<1>5. ASSUME m < 4 PROVE TermsDone(t, f)
  <2>1. ~(4 <= m)
    BY <1>5
  <2>2. ~Midst(t, f, p, 4)
    BY <1>3, <2>1
  <2>3. Termed(t, f, p)
    BY DEF FilingIn
  <2> QED
    BY <2>2, <2>3 DEF Termed, TermsDone
<1> QED
  BY <1>4, <1>5

(* A step at f that leaves the other files' rows alone. *)
LEMMA FilingKept ==
    ASSUME Types, NEW t \in Tasks, NEW p \in Repos, FilingIn(t, p), NEW f \in Files,
           task'[t].left = task[t].left, db' = db,
           \A k \in RowKeys : \/ k = FileKey(f, p)
                              \/ \E i \in 1..MaxTerms : k = TermKey(f, i)
                              \/ buf'[t][k] = buf[t][k],
           \A k \in LockKeys : lock[k] = t => lock'[k] = t,
           \A g \in Files \ {f} : FileDone(t, g, p),
           task'[t].prog = <<>> \/ Midst(t, f, p, 0)',
           Filed(t, f, p)', Termed(t, f, p)'
    PROVE  FilingIn(t, p)'
<1>1. (\A i \in 1..Len(task[t].left) :
         \E g \in Files : \E l \in Segs[g] : task[t].left[i] = WriteFile(g, p, l))'
  BY DEF FilingIn
<1>2. \A g \in Files, q \in Repos : q # p => buf'[t][FileKey(g, q)] = buf[t][FileKey(g, q)]
  BY KeyTypes, KeysDiffer
<1>3. (\A g \in Files, q \in Repos : buf[t][FileKey(g, q)] # None => q = p)'
  BY <1>2 DEF FilingIn
<1>4. \A x \in Xorbs, i \in 1..Frames : buf'[t][FrameKey(x, i)] = buf[t][FrameKey(x, i)]
  BY KeyTypes, KeysDiffer
<1>5. (\A x \in Xorbs : NoFrames(buf[t], x))'
  BY <1>4 DEF FilingIn, NoFrames
<1>6. ASSUME NEW g \in Files \ {f} PROVE (Filed(t, g, p) /\ Termed(t, g, p))'
  <2>1. buf'[t][FileKey(g, p)] = buf[t][FileKey(g, p)]
    BY KeyTypes, KeysDiffer
  <2>2. \A i \in 1..MaxTerms : buf'[t][TermKey(g, i)] = buf[t][TermKey(g, i)]
    BY KeyTypes, KeysDiffer
  <2>3. FileDone(t, g, p) /\ TermsDone(t, g)
    BY DEF FileDone
  <2>4. WholeRows(buf[t], g) => WholeRows(buf'[t], g)
    BY <2>2 DEF WholeRows, ListRows
  <2>5. NoTerms(buf[t], g) => NoTerms(buf'[t], g)
    BY <2>2 DEF NoTerms
  <2>6. lock[AdvisoryKey(g)] = t => lock'[AdvisoryKey(g)] = t
    BY KeyTypes
  <2>7. Filed(t, g, p)'
    <3> SUFFICES ASSUME buf'[t][FileKey(g, p)] # None
                 PROVE  IsSize(g, buf'[t][FileKey(g, p)]) /\ (~NoTerms(db', g) \/ WholeRows(buf'[t], g))
      BY DEF Filed, IsSize, NoTerms, WholeRows, ListRows
    <3> QED
      BY <2>1, <2>3, <2>4 DEF FileDone
  <2>8. Termed(t, g, p)'
    <3>1. NoTerms(buf'[t], g)
          \/ (lock'[AdvisoryKey(g)] = t /\ NoTerms(db', g) /\ WholeRows(buf'[t], g))
      BY <2>3, <2>4, <2>5, <2>6 DEF TermsDone
    <3> QED
      BY <3>1 DEF Termed, NoTerms, WholeRows, ListRows
  <2> QED
    BY <2>7, <2>8
<1>7. (task[t].prog = <<>> \/ \E g \in Files : Midst(t, g, p, 0))'
  OBVIOUS
<1>8. \A g \in Files : (Filed(t, g, p) /\ Termed(t, g, p))'
  BY <1>6
<1> QED
  BY <1>1, <1>3, <1>5, <1>7, <1>8 DEF FilingIn

(* What a statement does to its own transaction. *)
Moves(t, n) ==
    /\ task'[t].prog = SubSeq(task[t].prog, 2 + n, Len(task[t].prog))
    /\ task'[t].left = task[t].left /\ task'[t].seen = task[t].seen /\ task'[t].state = task[t].state

(* The place of a transaction that files: its statement, and the place     *)
(* after it when it moves.                                                 *)
Place(t, f, p, l, m) ==
    /\ Writing(t, f, p, l, m) /\ m < Len(l) + 3
    /\ Now(t) = WriteFile(f, p, l)[m + 1]
    /\ \A k \in Nat : m + 1 + k <= Len(l) + 3 /\ Moves(t, k) =>
         /\ Rest(task'[t].prog, WriteFile(f, p, l), m + 1 + k)
         /\ m + 1 + k = Len(l) + 3 => task'[t].prog = <<>>

LEMMA FilingPlace ==
    ASSUME Types, NEW t \in Tasks, NEW p \in Repos, FilingIn(t, p), task[t].prog # <<>>
    PROVE  \E f \in Files : \E l \in Segs[f], m \in 0..(MaxTerms + 2) : Place(t, f, p, l, m)
<1>1. PICK f \in Files : Midst(t, f, p, 0)
  BY DEF FilingIn
<1>2. PICK l \in Segs[f], m \in 0..(MaxTerms + 2) : Writing(t, f, p, l, m)
  BY <1>1 DEF Midst
<1>3. m \in Nat /\ Len(l) \in Nat
  BY PgAssumption, ListFacts
<1>4. PICK w : w = WriteFile(f, p, l)
  OBVIOUS
<1>5. w \in Seq(Stmts) /\ Len(w) = Len(l) + 3
  BY <1>4, WriteFacts
<1>6. PICK s : s = task[t].prog
  OBVIOUS
<1>7. s \in Seq(Stmts) /\ s # <<>>
  BY <1>6 DEF Types, TaskType
<1>8. Rest(s, w, m)
  BY <1>2, <1>4, <1>6 DEF Writing
<1>9. Head(s) = w[m + 1] /\ Len(s) \in Nat /\ 1 <= Len(s) /\ Len(s) + m = Len(w)
  BY <1>3, <1>5, <1>7, <1>8, RestHead
<1>10. m < Len(l) + 3
  BY <1>3, <1>5, <1>9
<1>11. ASSUME NEW k \in Nat, m + 1 + k <= Len(l) + 3, Moves(t, k)
       PROVE  /\ Rest(task'[t].prog, w, m + 1 + k)
              /\ m + 1 + k = Len(l) + 3 => task'[t].prog = <<>>
  <2>1. PICK r : r = SubSeq(s, 2 + k, Len(s))
    OBVIOUS
  <2>2. r \in Seq(Stmts) /\ Rest(r, w, m + 1 + k)
    BY <1>3, <1>5, <1>7, <1>8, <1>11, <2>1, RestNext
  <2>3. task'[t].prog = r
    BY <1>6, <1>11, <2>1 DEF Moves
  <2>4. m + 1 + k \in Nat
    BY <1>3
  <2>5. r = <<>> <=> m + 1 + k = Len(w)
    BY <1>5, <2>2, <2>4, RestDone
  <2> QED
    BY <1>5, <2>2, <2>3, <2>5
<1> QED
  BY <1>2, <1>4, <1>6, <1>9, <1>10, <1>11 DEF Now, Place

-----------------------------------------------------------------------------
(* The steps of a transaction, for itself and for the others. *)

LEMMA AdvanceMoves ==
    ASSUME Types, NEW t \in Tasks, NEW n, Advance(t, n)
    PROVE  Moves(t, n) /\ \A u \in Tasks \ {t} : task'[u] = task[u]
<1>1. task[t] \in TaskType /\ task \in [Tasks -> TaskType]
  BY DEF Types
<1>2. task' = [task EXCEPT ![t].prog = SubSeq(@, 2 + n, Len(@))]
  BY DEF Advance
<1>3. task'[t] = [task[t] EXCEPT !.prog = SubSeq(task[t].prog, 2 + n, Len(task[t].prog))]
  BY <1>1, <1>2
<1>4. Moves(t, n)
  BY <1>1, <1>3 DEF Moves, TaskType
<1>5. \A u \in Tasks \ {t} : task'[u] = task[u]
  BY <1>1, <1>2
<1> QED
  BY <1>4, <1>5

(* A statement that writes a row. *)
LEMMA RowWritten ==
    ASSUME Types, NEW t \in Tasks, Now(t).key \in RowKeys,
           buf' = [buf EXCEPT ![t][Now(t).key] = Now(t).val]
    PROVE  /\ buf'[t][Now(t).key] = Now(t).val
           /\ \A j \in RowKeys : j # Now(t).key => buf'[t][j] = buf[t][j]
           /\ \A u \in Tasks \ {t} : buf'[u] = buf[u]
<1>1. buf \in [Tasks -> [RowKeys -> Values]] /\ buf[t] \in [RowKeys -> Values]
  BY DEF Types
<1>2. PICK k : k = Now(t).key
  OBVIOUS
<1>3. PICK v : v = Now(t).val
  OBVIOUS
<1>4. k \in RowKeys /\ buf' = [buf EXCEPT ![t][k] = v]
  BY <1>2, <1>3
<1>5. buf'[t] = [buf[t] EXCEPT ![k] = v]
  BY <1>1, <1>4
<1>6. \A u \in Tasks \ {t} : buf'[u] = buf[u]
  BY <1>1, <1>4
<1>7. buf'[t][k] = v /\ \A j \in RowKeys : j # k => buf'[t][j] = buf[t][j]
  BY <1>1, <1>4, <1>5
<1> QED
  BY <1>2, <1>3, <1>6, <1>7

(* A statement that takes a lock that no other holds. *)
LEMMA LockTaken ==
    ASSUME Types, NEW t \in Tasks, Now(t).key \in LockKeys, lock[Now(t).key] \in {None, t},
           lock' = [lock EXCEPT ![Now(t).key] = t]
    PROVE  /\ lock'[Now(t).key] = t
           /\ \A j \in LockKeys : j # Now(t).key => lock'[j] = lock[j]
           /\ \A u \in Tasks, j \in LockKeys : lock[j] = u => lock'[j] = u
           /\ \A u \in Tasks \ {t}, j \in LockKeys : lock[j] = u <=> lock'[j] = u
<1>1. lock \in [LockKeys -> Tasks \cup {None}]
  BY DEF Types
<1>2. PICK k : k = Now(t).key
  OBVIOUS
<1>3. k \in LockKeys /\ lock' = [lock EXCEPT ![k] = t] /\ lock[k] \in {None, t}
  BY <1>2
<1>4. lock'[k] = t /\ \A j \in LockKeys : j # k => lock'[j] = lock[j]
  BY <1>1, <1>3
<1>5. None \notin Tasks
  BY PgAssumption
<1>6. \A u \in Tasks, j \in LockKeys : lock[j] = u => lock'[j] = u
  BY <1>3, <1>4, <1>5
<1>7. \A u \in Tasks \ {t}, j \in LockKeys : lock[j] = u <=> lock'[j] = u
  BY <1>4, <1>6
<1> QED
  BY <1>2, <1>4, <1>6, <1>7

(* The statement of a task is well typed. *)
LEMMA NowType ==
    ASSUME Types, NEW t \in Tasks, task[t].prog # <<>>
    PROVE  Now(t) \in Stmts /\ Now(t).key \in LockKeys /\ Now(t).val \in Values
<1>1. task[t].prog \in Seq(Stmts)
  BY DEF Types, TaskType
<1>2. Now(t) \in Stmts
  BY <1>1 DEF Now
<1> QED
  BY <1>2 DEF Stmts

(* Terms written before stay written. *)
LEMMA TermedKept ==
    ASSUME NEW t \in Tasks, NEW f \in Files, NEW p \in Repos, TermsDone(t, f), db' = db,
           \A i \in 1..MaxTerms : buf'[t][TermKey(f, i)] = buf[t][TermKey(f, i)],
           \A k \in LockKeys : lock[k] = t => lock'[k] = t
    PROVE  Termed(t, f, p)'
<1>1. WholeRows(buf[t], f) => WholeRows(buf'[t], f)
  BY DEF WholeRows, ListRows
<1>2. NoTerms(buf[t], f) => NoTerms(buf'[t], f)
  BY DEF NoTerms
<1>3. lock[AdvisoryKey(f)] = t => lock'[AdvisoryKey(f)] = t
  BY KeyTypes
<1>4. NoTerms(buf'[t], f) \/ (lock'[AdvisoryKey(f)] = t /\ NoTerms(db', f) /\ WholeRows(buf'[t], f))
  BY <1>1, <1>2, <1>3 DEF TermsDone
<1> QED
  BY <1>4 DEF Termed, NoTerms, WholeRows, ListRows

(* Being at a file, with its row. *)
LEMMA FiledNow ==
    ASSUME NEW t \in Tasks, NEW f \in Files, NEW p \in Repos, NEW l \in Segs[f],
           NEW m \in 1..(MaxTerms + 2), Writing(t, f, p, l, m)'
    PROVE  Midst(t, f, p, 0)' /\ Filed(t, f, p)'
<1>1. m \in 0..(MaxTerms + 2) /\ 1 <= m /\ 0 <= m /\ m >= 1
  BY PgAssumption
<1>2. Midst(t, f, p, 0)' /\ Midst(t, f, p, 1)'
  BY <1>1 DEF Midst
<1>3. IsSize(f, buf'[t][FileKey(f, p)])
  BY <1>1 DEF Writing, IsSize
<1> QED
  BY <1>2, <1>3 DEF Filed, IsSize

LEMMA FilingUpsert ==
    ASSUME Types, NEW t \in Tasks, NEW p \in Repos, FilingIn(t, p), Upsert(t)
    PROVE  FilingIn(t, p)'
<1>1. task[t].prog # <<>> /\ Now(t).op = "upsert"
  BY DEF Upsert, Is, Running
<1>2. PICK f \in Files : \E l \in Segs[f], m \in 0..(MaxTerms + 2) : Place(t, f, p, l, m)
  BY <1>1, FilingPlace
<1>3. PICK l \in Segs[f], m \in 0..(MaxTerms + 2) : Place(t, f, p, l, m)
  BY <1>2
<1>4. /\ Writing(t, f, p, l, m) /\ m < Len(l) + 3
      /\ Now(t) = WriteFile(f, p, l)[m + 1]
  BY <1>3 DEF Place
<1>5. m \in Nat /\ Len(l) \in Nat /\ MaxTerms \in Nat
  BY PgAssumption, ListFacts
<1>6. m = 0
  BY <1>1, <1>4, <1>5, WriteNow
<1>7. Now(t).key = FileKey(f, p) /\ Now(t).val = Bytes(l)
  <2>1. Now(t) = WriteFile(f, p, l)[1]
    BY <1>4, <1>6
  <2>2. Now(t) = Stmt("upsert", FileKey(f, p), Bytes(l))
    BY <2>1, WriteFacts
  <2> QED
    BY <2>2, StmtFields
<1>8. FileKey(f, p) \in RowKeys /\ FileKey(f, p) \in LockKeys
  BY KeyTypes
<1>9. /\ buf'[t][FileKey(f, p)] = Bytes(l)
      /\ \A j \in RowKeys : j # FileKey(f, p) => buf'[t][j] = buf[t][j]
  <2>1. buf' = [buf EXCEPT ![t][Now(t).key] = Now(t).val]
    BY DEF Upsert
  <2>2. Now(t).key \in RowKeys
    BY <1>7, <1>8
  <2>3. /\ buf'[t][Now(t).key] = Now(t).val
        /\ \A j \in RowKeys : j # Now(t).key => buf'[t][j] = buf[t][j]
    BY <2>1, <2>2, RowWritten
  <2> QED
    BY <1>7, <2>3
<1>10. \A j \in LockKeys : lock[j] = t => lock'[j] = t
  <2>1. lock' = [lock EXCEPT ![FileKey(f, p)] = t]
    BY <1>7 DEF Upsert
  <2> QED
    BY <1>8, <2>1 DEF Types
<1>11. Moves(t, 0) /\ db' = db
  BY AdvanceMoves DEF Upsert
<1>12. Rest(task'[t].prog, WriteFile(f, p, l), 1)
  <2>1. m + 1 + 0 <= Len(l) + 3 /\ m + 1 + 0 = 1
    BY <1>5, <1>6
  <2> QED
    BY <1>3, <1>11, <2>1 DEF Place
<1>13. Writing(t, f, p, l, 1)'
  <2>1. IsSize(f, buf'[t][FileKey(f, p)])
    BY <1>9 DEF IsSize
  <2> QED
    BY <1>12, <2>1 DEF Writing, Rest, IsSize
<1>14. Midst(t, f, p, 0)' /\ Filed(t, f, p)'
  <2>1. 1 \in 1..(MaxTerms + 2)
    BY <1>5
  <2> QED
    BY <1>13, <2>1, FiledNow
<1>15. (\A g \in Files \ {f} : FileDone(t, g, p)) /\ TermsDone(t, f)
  BY <1>1, <1>4, <1>5, <1>6, OthersDone
<1>16. Termed(t, f, p)'
  <2>1. \A i \in 1..MaxTerms : buf'[t][TermKey(f, i)] = buf[t][TermKey(f, i)]
    BY <1>9, KeyTypes, KeysDiffer
  <2> QED
    BY <1>10, <1>11, <1>15, <2>1, TermedKept
<1>17. task'[t].left = task[t].left
  BY <1>11 DEF Moves
<1> QED
  BY <1>9, <1>10, <1>11, <1>14, <1>15, <1>16, <1>17, FilingKept

LEMMA FilingLock ==
    ASSUME Types, NEW t \in Tasks, NEW p \in Repos, FilingIn(t, p), AdvisoryLock(t)
    PROVE  FilingIn(t, p)'
<1>1. task[t].prog # <<>> /\ Now(t).op = "lock"
  BY DEF AdvisoryLock, Is, Running
<1>2. PICK f \in Files : \E l \in Segs[f], m \in 0..(MaxTerms + 2) : Place(t, f, p, l, m)
  BY <1>1, FilingPlace
<1>3. PICK l \in Segs[f], m \in 0..(MaxTerms + 2) : Place(t, f, p, l, m)
  BY <1>2
<1>4. /\ Writing(t, f, p, l, m) /\ m < Len(l) + 3
      /\ Now(t) = WriteFile(f, p, l)[m + 1]
  BY <1>3 DEF Place
<1>5. m \in Nat /\ Len(l) \in Nat /\ MaxTerms \in Nat
  BY PgAssumption, ListFacts
<1>6. m = 1
  BY <1>1, <1>4, <1>5, WriteNow
<1>7. Now(t).key = AdvisoryKey(f)
  <2>1. Now(t) = WriteFile(f, p, l)[2]
    BY <1>4, <1>6
  <2>2. Now(t) = Stmt("lock", AdvisoryKey(f), 0)
    BY <2>1, WriteFacts
  <2> QED
    BY <2>2, StmtFields
<1>8. AdvisoryKey(f) \in LockKeys
  BY KeyTypes
<1>9. buf' = buf /\ db' = db
  BY DEF AdvisoryLock
<1>10. lock'[AdvisoryKey(f)] = t /\ \A j \in LockKeys : lock[j] = t => lock'[j] = t
  <2>1. lock' = [lock EXCEPT ![AdvisoryKey(f)] = t]
    BY <1>7 DEF AdvisoryLock
  <2> QED
    BY <1>8, <2>1 DEF Types
<1>11. Moves(t, 0)
  BY AdvanceMoves DEF AdvisoryLock
<1>12. Rest(task'[t].prog, WriteFile(f, p, l), 2)
  <2>1. m + 1 + 0 <= Len(l) + 3 /\ m + 1 + 0 = 2
    BY <1>5, <1>6
  <2> QED
    BY <1>3, <1>11, <2>1 DEF Place
<1>13. Writing(t, f, p, l, 2)'
  <2>1. IsSize(f, buf'[t][FileKey(f, p)])
    BY <1>4, <1>6, <1>9 DEF Writing
  <2> QED
    BY <1>10, <1>12, <2>1 DEF Writing, Rest, IsSize
<1>14. Midst(t, f, p, 0)' /\ Filed(t, f, p)'
  <2>1. 2 \in 1..(MaxTerms + 2)
    BY <1>5
  <2> QED
    BY <1>13, <2>1, FiledNow
<1>15. (\A g \in Files \ {f} : FileDone(t, g, p)) /\ TermsDone(t, f)
  BY <1>1, <1>4, <1>5, <1>6, OthersDone
<1>16. Termed(t, f, p)'
  BY <1>9, <1>10, <1>15, TermedKept
<1>17. task'[t].left = task[t].left
  BY <1>11 DEF Moves
<1> QED
  BY <1>9, <1>10, <1>14, <1>15, <1>16, <1>17, FilingKept

(* No terms seen under the advisory lock: none committed, none written. *)
LEMMA FilingProbe ==
    ASSUME Types, Committed, NEW t \in Tasks, NEW p \in Repos, FilingIn(t, p), ProbeTerms(t)
    PROVE  FilingIn(t, p)'
<1>1. task[t].prog # <<>> /\ Now(t).op = "probe"
  BY DEF ProbeTerms, Is, Running
<1>2. PICK f \in Files : \E l \in Segs[f], m \in 0..(MaxTerms + 2) : Place(t, f, p, l, m)
  BY <1>1, FilingPlace
<1>3. PICK l \in Segs[f], m \in 0..(MaxTerms + 2) : Place(t, f, p, l, m)
  BY <1>2
<1>4. /\ Writing(t, f, p, l, m) /\ m < Len(l) + 3
      /\ Now(t) = WriteFile(f, p, l)[m + 1]
  BY <1>3 DEF Place
<1>5. m \in Nat /\ Len(l) \in Nat /\ MaxTerms \in Nat
  BY PgAssumption, ListFacts
<1>6. m = 2
  BY <1>1, <1>4, <1>5, WriteNow
<1>7. Now(t).key = TermKey(f, 1) /\ Now(t).val = Len(l)
  <2>1. Now(t) = WriteFile(f, p, l)[3]
    BY <1>4, <1>6
  <2>2. Now(t) = Stmt("probe", TermKey(f, 1), Len(l))
    BY <2>1, WriteFacts
  <2> QED
    BY <2>2, StmtFields
<1>8. buf' = buf /\ db' = db /\ lock' = lock
  BY DEF ProbeTerms
<1>9. (\A g \in Files \ {f} : FileDone(t, g, p)) /\ TermsDone(t, f)
  BY <1>1, <1>4, <1>5, <1>6, OthersDone
<1>10. Termed(t, f, p)'
  BY <1>8, <1>9, TermedKept
<1>11. IsSize(f, buf[t][FileKey(f, p)]) /\ lock[AdvisoryKey(f)] = t
  BY <1>4, <1>6 DEF Writing
<1>12. CASE Sees(t, TermKey(f, 1)) # None
  <2>1. Moves(t, Len(l))
    <3>1. Advance(t, Len(l))
      BY <1>7, <1>12 DEF ProbeTerms
    <3> QED
      BY <3>1, AdvanceMoves
  <2>2. task'[t].prog = <<>> /\ task'[t].left = task[t].left
    <3>1. m + 1 + Len(l) <= Len(l) + 3 /\ m + 1 + Len(l) = Len(l) + 3
      BY <1>5, <1>6
    <3> QED
      BY <1>5, <1>3, <2>1, <3>1 DEF Place, Moves
  <2>3. 1 \in 1..MaxTerms
    BY PgAssumption
  <2>4. ~NoTerms(db, f) \/ WholeRows(buf[t], f)
    <3>1. CASE buf[t][TermKey(f, 1)] # None
      BY <1>9, <2>3, <3>1 DEF TermsDone, NoTerms
    <3>2. CASE buf[t][TermKey(f, 1)] = None
      BY <1>12, <2>3, <3>2 DEF Sees, NoTerms
    <3> QED
      BY <3>1, <3>2
  <2>5. IsSize(f, buf'[t][FileKey(f, p)]) /\ (~NoTerms(db', f) \/ WholeRows(buf'[t], f))
    BY <1>8, <1>11, <2>4
  <2>6. Filed(t, f, p)'
    BY <2>5 DEF Filed, IsSize, NoTerms, WholeRows, ListRows
  <2> QED
    BY <1>8, <1>9, <1>10, <2>2, <2>6, FilingKept
<1>13. CASE Sees(t, TermKey(f, 1)) = None
  <2>1. Moves(t, 0)
    <3>1. Advance(t, 0)
      BY <1>7, <1>13 DEF ProbeTerms
    <3> QED
      BY <3>1, AdvanceMoves
  <2>2. Rest(task'[t].prog, WriteFile(f, p, l), 3)
    <3>1. m + 1 + 0 <= Len(l) + 3 /\ m + 1 + 0 = 3
      BY <1>5, <1>6
    <3> QED
      BY <1>3, <2>1, <3>1 DEF Place
  <2>3. buf[t][TermKey(f, 1)] = None /\ db[TermKey(f, 1)] = None
    BY <1>13 DEF Sees
  <2>4. NoTerms(buf[t], f)
    BY <1>9, <2>3, FirstRow DEF TermsDone
  <2>5. NoTerms(db, f)
    BY <2>3, FirstRow DEF Committed
  <2>6. ListRows(buf[t], f, l, 3 - 3)
    <3>1. \A i \in 1..MaxTerms : ~(i <= 3 - 3)
      OBVIOUS
    <3> QED
      BY <2>4, <3>1 DEF NoTerms, ListRows
  <2>7. Writing(t, f, p, l, 3)'
    <3>1. NoTerms(db', f) /\ ListRows(buf'[t], f, l, 3 - 3)
      BY <1>8, <2>5, <2>6
    <3>2. IsSize(f, buf'[t][FileKey(f, p)]) /\ lock'[AdvisoryKey(f)] = t
      BY <1>8, <1>11
    <3> QED
      BY <2>2, <3>1, <3>2 DEF Writing, Rest, IsSize, NoTerms, ListRows
  <2>8. Midst(t, f, p, 0)' /\ Filed(t, f, p)'
    <3>1. 3 \in 1..(MaxTerms + 2)
      BY PgAssumption
    <3> QED
      BY <2>7, <3>1, FiledNow
  <2>9. task'[t].left = task[t].left
    BY <2>1 DEF Moves
  <2> QED
    BY <1>8, <1>9, <1>10, <2>8, <2>9, FilingKept
<1> QED
  BY <1>12, <1>13

(* After the look the terms go in one by one, none of them ignored. *)
LEMMA FilingInsert ==
    ASSUME Types, NEW t \in Tasks, NEW p \in Repos, FilingIn(t, p), InsertIgnore(t)
    PROVE  FilingIn(t, p)'
<1>1. task[t].prog # <<>> /\ Now(t).op = "insert" /\ Running(t)
  BY DEF InsertIgnore, Is, Running
<1>2. PICK f \in Files : \E l \in Segs[f], m \in 0..(MaxTerms + 2) : Place(t, f, p, l, m)
  BY <1>1, FilingPlace
<1>3. PICK l \in Segs[f], m \in 0..(MaxTerms + 2) : Place(t, f, p, l, m)
  BY <1>2
<1>4. /\ Writing(t, f, p, l, m) /\ m < Len(l) + 3
      /\ Now(t) = WriteFile(f, p, l)[m + 1]
  BY <1>3 DEF Place
<1>5. m \in Nat /\ Len(l) \in Nat /\ MaxTerms \in Nat /\ Len(l) <= MaxTerms
  BY PgAssumption, ListFacts
<1>6. m >= 3 /\ m - 2 \in 1..Len(l) /\ Now(t) = Stmt("insert", TermKey(f, m - 2), l[m - 2])
  BY <1>1, <1>4, <1>5, WriteNow
<1>7. PICK i \in 1..Len(l) : i = m - 2
  BY <1>6
<1>8. Now(t).key = TermKey(f, i) /\ Now(t).val = l[i]
  BY <1>6, <1>7, StmtFields
<1>9. i \in 1..MaxTerms /\ TermKey(f, i) \in RowKeys /\ TermKey(f, i) \in LockKeys
  <2>1. i \in 1..MaxTerms
    BY <1>5
  <2> QED
    BY <2>1, KeyTypes
<1>10. /\ IsSize(f, buf[t][FileKey(f, p)]) /\ lock[AdvisoryKey(f)] = t
      /\ NoTerms(db, f) /\ ListRows(buf[t], f, l, m - 3)
  <2>1. m >= 1 /\ m >= 2 /\ m >= 3
    BY <1>5, <1>6
  <2> QED
    BY <1>4, <2>1 DEF Writing
<1>11. buf[t][TermKey(f, i)] = None /\ db[TermKey(f, i)] = None
  <2>1. ~(i <= m - 3)
    BY <1>5, <1>7
  <2> QED
    BY <1>9, <1>10, <2>1 DEF ListRows, NoTerms
<1>12. Needs(t)
  BY <1>1, <1>8, <1>11 DEF Needs, Sees
<1>13. /\ buf'[t][TermKey(f, i)] = l[i]
       /\ \A j \in RowKeys : j # TermKey(f, i) => buf'[t][j] = buf[t][j]
  <2>1. buf' = [buf EXCEPT ![t][Now(t).key] = Now(t).val]
    BY <1>12 DEF InsertIgnore
  <2>2. Now(t).key \in RowKeys
    BY <1>8, <1>9
  <2>3. /\ buf'[t][Now(t).key] = Now(t).val
        /\ \A j \in RowKeys : j # Now(t).key => buf'[t][j] = buf[t][j]
    BY <2>1, <2>2, RowWritten
  <2> QED
    BY <1>8, <2>3
<1>14. \A j \in LockKeys : lock[j] = t => lock'[j] = t
  <2>1. lock' = [lock EXCEPT ![TermKey(f, i)] = t]
    BY <1>8, <1>12 DEF InsertIgnore
  <2> QED
    BY <1>9, <2>1 DEF Types
<1>15. Moves(t, 0) /\ db' = db
  BY AdvanceMoves DEF InsertIgnore
<1>16. Rest(task'[t].prog, WriteFile(f, p, l), m + 1) /\ (m + 1 = Len(l) + 3 => task'[t].prog = <<>>)
  <2>1. m + 1 + 0 <= Len(l) + 3 /\ m + 1 + 0 = m + 1
    BY <1>4, <1>5
  <2>2. 0 \in Nat
    OBVIOUS
  <2>3. Rest(task'[t].prog, WriteFile(f, p, l), m + 1 + 0)
        /\ (m + 1 + 0 = Len(l) + 3 => task'[t].prog = <<>>)
    BY <1>15, <1>3, <2>1, <2>2 DEF Place
  <2> QED
    BY <2>1, <2>3
<1>17. ListRows(buf'[t], f, l, (m + 1) - 3)
  <2> SUFFICES ASSUME NEW j \in 1..MaxTerms
               PROVE  buf'[t][TermKey(f, j)] = IF j <= (m + 1) - 3 THEN l[j] ELSE None
    BY DEF ListRows
  <2>1. CASE j = i
    <3>1. j <= (m + 1) - 3
      BY <1>5, <1>7, <2>1
    <3> QED
      BY <1>13, <2>1, <3>1
  <2>2. CASE j # i
    <3>1. buf'[t][TermKey(f, j)] = buf[t][TermKey(f, j)]
      BY <1>13, <2>2, KeyTypes, KeysDiffer
    <3>2. j <= (m + 1) - 3 <=> j <= m - 3
      BY <1>5, <1>7, <2>2
    <3>3. buf[t][TermKey(f, j)] = IF j <= m - 3 THEN l[j] ELSE None
      BY <1>10 DEF ListRows
    <3> QED
      BY <3>1, <3>2, <3>3
  <2> QED
    BY <2>1, <2>2
<1>18. IsSize(f, buf'[t][FileKey(f, p)])
  BY <1>10, <1>13, KeyTypes, KeysDiffer
<1>19. lock'[AdvisoryKey(f)] = t /\ NoTerms(db', f)
  BY <1>10, <1>14, <1>15, KeyTypes
<1>20. \A g \in Files \ {f} : FileDone(t, g, p)
  BY <1>1, <1>4, <1>5, OthersDone
<1>21. task'[t].left = task[t].left
  BY <1>15 DEF Moves
<1>22. (task'[t].prog = <<>> \/ Midst(t, f, p, 0)') /\ Filed(t, f, p)' /\ Termed(t, f, p)'
  <2>1. CASE m + 1 = Len(l) + 3
    <3>1. task'[t].prog = <<>>
      BY <1>16, <2>1
    <3>2. WholeRows(buf'[t], f)
      <4>1. (m + 1) - 3 = Len(l)
        BY <1>5, <2>1
      <4> QED
        BY <1>17, <4>1 DEF WholeRows
    <3>3. Filed(t, f, p)'
      BY <1>18, <3>2 DEF Filed, IsSize, WholeRows, ListRows
    <3>4. Termed(t, f, p)'
      BY <1>19, <3>2 DEF Termed, NoTerms, WholeRows, ListRows
    <3> QED
      BY <3>1, <3>3, <3>4
  <2>2. CASE m + 1 # Len(l) + 3
    <3>1. m + 1 \in 1..(MaxTerms + 2) /\ m + 1 \in 0..(MaxTerms + 2) /\ 4 <= m + 1
      BY <1>4, <1>5, <1>6, <2>2
    <3>2. Writing(t, f, p, l, m + 1)'
      BY <1>16, <1>17, <1>18, <1>19 DEF Writing, Rest, IsSize, NoTerms, ListRows
    <3>3. Midst(t, f, p, 0)' /\ Filed(t, f, p)'
      BY <3>1, <3>2, FiledNow
    <3>4. Midst(t, f, p, 4)'
      BY <3>1, <3>2 DEF Midst
    <3>5. Termed(t, f, p)'
      BY <1>19, <3>4 DEF Termed, NoTerms
    <3> QED
      BY <3>3, <3>5
  <2> QED
    BY <2>1, <2>2
<1>23. \A k \in RowKeys : \/ k = FileKey(f, p)
                          \/ \E j \in 1..MaxTerms : k = TermKey(f, j)
                          \/ buf'[t][k] = buf[t][k]
  BY <1>9, <1>13
<1> QED
  BY <1>14, <1>15, <1>20, <1>21, <1>22, <1>23, FilingKept

(* The next file of the shard. *)
LEMMA FilingNext ==
    ASSUME Types, NEW t \in Tasks, NEW p \in Repos, FilingIn(t, p), NextPart(t)
    PROVE  FilingIn(t, p)'
<1>1. task[t] \in TaskType /\ task \in [Tasks -> TaskType]
  BY DEF Types
<1>2. /\ task[t].prog = <<>> /\ task[t].left # <<>>
      /\ task' = [task EXCEPT ![t].prog = Head(task[t].left), ![t].left = Tail(@)]
      /\ buf' = buf /\ db' = db /\ lock' = lock
  BY DEF NextPart
<1>3. PICK s : s = task[t].left
  OBVIOUS
<1>4. s \in Seq(Seq(Stmts)) /\ s # <<>>
  BY <1>1, <1>2, <1>3 DEF TaskType
<1>5. task'[t].prog = Head(s) /\ task'[t].left = Tail(s)
  BY <1>1, <1>2, <1>3 DEF TaskType
<1>6. \A i \in 1..Len(s) : \E g \in Files : \E l \in Segs[g] : s[i] = WriteFile(g, p, l)
  BY <1>3 DEF FilingIn
<1>7. \A i \in 1..Len(Tail(s)) : Tail(s)[i] = s[i + 1] /\ i + 1 \in 1..Len(s)
  BY <1>4
<1>8. (\A i \in 1..Len(task[t].left) :
         \E g \in Files : \E l \in Segs[g] : task[t].left[i] = WriteFile(g, p, l))'
  BY <1>5, <1>6, <1>7
<1>9. Head(s) = s[1] /\ 1 \in 1..Len(s)
  BY <1>4
<1>10. PICK f \in Files : \E l \in Segs[f] : Head(s) = WriteFile(f, p, l)
  BY <1>6, <1>9
<1>11. PICK l \in Segs[f] : Head(s) = WriteFile(f, p, l)
  BY <1>10
<1>12. Rest(task'[t].prog, WriteFile(f, p, l), 0)
  <2>1. WriteFile(f, p, l) \in Seq(Stmts)
    BY WriteFacts
  <2> QED
    BY <1>5, <1>11, <2>1, RestStart
<1>13. Midst(t, f, p, 0)'
  <2>1. Writing(t, f, p, l, 0)'
    BY <1>12 DEF Writing, Rest
  <2>2. 0 \in 0..(MaxTerms + 2)
    BY PgAssumption
  <2> QED
    BY <2>1, <2>2 DEF Midst
<1>14. ASSUME NEW g \in Files PROVE (Filed(t, g, p) /\ Termed(t, g, p))'
  <2>1. FileDone(t, g, p) /\ TermsDone(t, g)
    BY <1>2, AllDone DEF FileDone
  <2>2. Filed(t, g, p)'
    BY <1>2, <2>1 DEF FileDone, Filed, IsSize, NoTerms, WholeRows, ListRows
  <2>3. Termed(t, g, p)'
    BY <1>2, <2>1, TermedKept
  <2> QED
    BY <2>2, <2>3
<1>15. (\A g \in Files, q \in Repos : buf[t][FileKey(g, q)] # None => q = p)'
  BY <1>2 DEF FilingIn
<1>16. (\A x \in Xorbs : NoFrames(buf[t], x))'
  BY <1>2 DEF FilingIn, NoFrames
<1> QED
  BY <1>8, <1>13, <1>14, <1>15, <1>16 DEF FilingIn

-----------------------------------------------------------------------------
(* Registering a xorb and its layout. *)

LEMMA InsertDoes ==
    ASSUME Types, NEW t \in Tasks, InsertIgnore(t), Now(t).key \in RowKeys
    PROVE  /\ \A j \in RowKeys : j # Now(t).key => buf'[t][j] = buf[t][j]
           /\ Needs(t) => buf'[t][Now(t).key] = Now(t).val
           /\ ~Needs(t) => buf' = buf
           /\ Moves(t, 0) /\ db' = db
           /\ Needs(t) <=> buf[t][Now(t).key] = None /\ db[Now(t).key] = None
<1>1. Moves(t, 0) /\ db' = db
  BY AdvanceMoves DEF InsertIgnore
<1>2. Needs(t) <=> Sees(t, Now(t).key) = None
  BY DEF InsertIgnore, Is, Needs
<1>3. Sees(t, Now(t).key) = None <=> buf[t][Now(t).key] = None /\ db[Now(t).key] = None
  BY DEF Sees
<1>4. CASE Needs(t)
  <2>1. buf' = [buf EXCEPT ![t][Now(t).key] = Now(t).val]
    BY <1>4 DEF InsertIgnore
  <2>2. /\ buf'[t][Now(t).key] = Now(t).val
        /\ \A j \in RowKeys : j # Now(t).key => buf'[t][j] = buf[t][j]
    BY <2>1, RowWritten
  <2> QED
    BY <1>1, <1>2, <1>3, <1>4, <2>2
<1>5. CASE ~Needs(t)
  <2>1. buf' = buf
    BY <1>5 DEF InsertIgnore
  <2> QED
    BY <1>1, <1>2, <1>3, <1>5, <2>1
<1> QED
  BY <1>4, <1>5

(* The place of a transaction in a part, before and after a statement. *)
LEMMA PartPlace ==
    ASSUME Types, NEW t \in Tasks, NEW part \in Seq(Stmts), NEW m \in Nat,
           Rest(task[t].prog, part, m), task[t].prog # <<>>
    PROVE  /\ Now(t) = part[m + 1] /\ m + 1 <= Len(part) /\ Len(part) \in Nat
           /\ Moves(t, 0) => Rest(task'[t].prog, part, m + 1)
<1>1. PICK s : s = task[t].prog
  OBVIOUS
<1>2. s \in Seq(Stmts) /\ s # <<>> /\ Rest(s, part, m)
  BY <1>1 DEF Types, TaskType
<1>3. Head(s) = part[m + 1] /\ Len(s) \in Nat /\ 1 <= Len(s) /\ Len(s) + m = Len(part)
  BY <1>2, RestHead
<1>4. m + 1 <= Len(part) /\ Len(part) \in Nat
  BY <1>3
<1>5. ASSUME Moves(t, 0) PROVE Rest(task'[t].prog, part, m + 1)
  <2>1. PICK k \in Nat : k = 0
    OBVIOUS
  <2>2. m + 1 + k = m + 1
    BY <2>1
  <2>3. Rest(SubSeq(s, 2 + k, Len(s)), part, m + 1 + k)
    BY <1>2, <1>4, <2>2, RestNext
  <2>4. task'[t].prog = SubSeq(s, 2 + k, Len(s))
    BY <1>1, <1>5, <2>1 DEF Moves
  <2> QED
    BY <2>2, <2>3, <2>4
<1> QED
  BY <1>1, <1>3, <1>4, <1>5 DEF Now

(* register_xorb only inserts rows of the xorb and of its chunks. *)
LEMMA StoringNow ==
    ASSUME Types, NEW t \in Tasks, Storing(t), task[t].prog # <<>>
    PROVE  Now(t).op = "insert" /\ (InsertIgnore(t) => Storing(t)')
<1>1. PICK x \in Xorbs, m \in 0..(Frames + 1) : Rest(task[t].prog, RegisterXorb(x), m)
  BY DEF Storing
<1>2. m \in Nat /\ Frames \in Nat
  BY PgAssumption
<1>3. RegisterXorb(x) \in Seq(Stmts) /\ Len(RegisterXorb(x)) = Frames + 1
  BY XorbFacts
<1>4. /\ Now(t) = RegisterXorb(x)[m + 1] /\ m + 1 <= Len(RegisterXorb(x))
      /\ Moves(t, 0) => Rest(task'[t].prog, RegisterXorb(x), m + 1)
  BY <1>1, <1>2, <1>3, PartPlace
<1>5. m + 1 \in 1..(Frames + 1) /\ m + 1 \in 0..(Frames + 1)
  BY <1>2, <1>3, <1>4
<1>6. /\ Now(t).op = "insert"
      /\ Now(t).key = XorbKey(x) \/ \E j \in 1..Frames : Now(t).key = ChunkKey(x, j)
  BY <1>4, <1>5, XorbFacts
<1>7. ASSUME InsertIgnore(t) PROVE Storing(t)'
  <2>1. Now(t).key \in RowKeys
    BY <1>6, KeyTypes
  <2>2. (\A j \in RowKeys : j # Now(t).key => buf'[t][j] = buf[t][j]) /\ Moves(t, 0)
    BY <1>7, <2>1, InsertDoes
  <2>3. \A f \in Files, p \in Repos : buf'[t][FileKey(f, p)] = buf[t][FileKey(f, p)]
    BY <1>6, <2>2, KeyTypes, KeysDiffer
  <2>4. \A f \in Files, i \in 1..MaxTerms : buf'[t][TermKey(f, i)] = buf[t][TermKey(f, i)]
    BY <1>6, <2>2, KeyTypes, KeysDiffer
  <2>5. \A y \in Xorbs, i \in 1..Frames : buf'[t][FrameKey(y, i)] = buf[t][FrameKey(y, i)]
    BY <1>6, <2>2, KeyTypes, KeysDiffer
  <2>6. NoFiles(buf[t])'
    BY <2>3, <2>4 DEF Storing, NoFiles, NoTerms
  <2>7. (\A y \in Xorbs : NoFrames(buf[t], y))'
    BY <2>5 DEF Storing, NoFrames
  <2>8. (task[t].left = <<>>)'
    BY <2>2 DEF Storing, Moves
  <2>9. (\E y \in Xorbs, n \in 0..(Frames + 1) : Rest(task[t].prog, RegisterXorb(y), n))'
    BY <1>4, <1>5, <2>2 DEF Rest
  <2> QED
    BY <2>6, <2>7, <2>8, <2>9 DEF Storing
<1> QED
  BY <1>6, <1>7

(* All frames of a xorb are committed, or none. *)
LEMMA FramesAgree ==
    ASSUME LayoutOneEncoding, NEW x \in Xorbs, NEW i \in 1..Frames
    PROVE  /\ db[FrameKey(x, i)] = None => NoFrames(db, x)
           /\ db[FrameKey(x, i)] # None => AllFrames(db, x)
  BY DEF LayoutOneEncoding, NoFrames, AllFrames

(* register_xorb_layout writes all of its frames or none. *)
LEMMA LayingNow ==
    ASSUME Types, Committed, NEW t \in Tasks, Laying(t), task[t].prog # <<>>
    PROVE  Now(t).op = "insert" /\ (InsertIgnore(t) => Laying(t)')
<1>1. PICK x \in Xorbs, e \in Encodings, m \in 0..Frames : LayingAt(t, x, e, m)
  BY DEF Laying
<1>2. m \in Nat /\ Frames \in Nat
  BY PgAssumption
<1>3. PICK w : w = RegisterXorbLayout(x, e)
  OBVIOUS
<1>4. /\ w \in Seq(Stmts) /\ Len(w) = Frames
      /\ \A i \in 1..Frames : w[i] = Stmt("insert", FrameKey(x, i), e)
  BY <1>3, LayoutFacts
<1>5. Rest(task[t].prog, w, m)
  BY <1>1, <1>3 DEF LayingAt
<1>6. /\ Now(t) = w[m + 1] /\ m + 1 <= Len(w)
      /\ Moves(t, 0) => Rest(task'[t].prog, w, m + 1)
  BY <1>2, <1>4, <1>5, PartPlace
<1>7. PICK i \in 1..Frames : i = m + 1
  BY <1>2, <1>4, <1>6
<1>8. Now(t).op = "insert" /\ Now(t).key = FrameKey(x, i) /\ Now(t).val = e
  BY <1>4, <1>6, <1>7, StmtFields
<1>9. ASSUME InsertIgnore(t) PROVE Laying(t)'
  <2>1. FrameKey(x, i) \in RowKeys
    BY KeyTypes
  <2>2. /\ \A j \in RowKeys : j # FrameKey(x, i) => buf'[t][j] = buf[t][j]
        /\ Needs(t) => buf'[t][FrameKey(x, i)] = e
        /\ ~Needs(t) => buf' = buf
        /\ Moves(t, 0) /\ db' = db
        /\ Needs(t) <=> buf[t][FrameKey(x, i)] = None /\ db[FrameKey(x, i)] = None
    BY <1>8, <1>9, <2>1, InsertDoes
  <2>3. \A f \in Files, p \in Repos : buf'[t][FileKey(f, p)] = buf[t][FileKey(f, p)]
    BY <2>2, KeyTypes, KeysDiffer
  <2>4. \A f \in Files, j \in 1..MaxTerms : buf'[t][TermKey(f, j)] = buf[t][TermKey(f, j)]
    BY <2>2, KeyTypes, KeysDiffer
  <2>5. \A y \in Xorbs, j \in 1..Frames :
          y # x \/ j # i => buf'[t][FrameKey(y, j)] = buf[t][FrameKey(y, j)]
    BY <2>2, KeyTypes, KeysDiffer
  <2>6. NoFiles(buf[t])'
    BY <2>3, <2>4 DEF Laying, NoFiles, NoTerms
  <2>7. (\A y \in Xorbs \ {x} : NoFrames(buf[t], y))'
    BY <1>1, <2>5 DEF LayingAt, NoFrames
  <2>8. (task[t].left = <<>>)'
    BY <2>2 DEF Laying, Moves
  <2>9. Rest(task'[t].prog, RegisterXorbLayout(x, e), m + 1)
    BY <1>3, <1>6, <2>2
  <2>10. m + 1 > 0 /\ m + 1 \in 0..Frames
    BY <1>2, <1>7
  <2>11. \/ NoFrames(buf'[t], x) /\ AllFrames(db', x)
         \/ NoFrames(db', x) /\ FrameRows(buf'[t], x, e, m + 1)
    <3>1. CASE NoFrames(buf[t], x) /\ db[FrameKey(x, i)] # None
      <4>1. AllFrames(db, x)
        BY <3>1, FramesAgree DEF Committed
      <4> QED
        BY <2>2, <3>1, <4>1
    <3>2. CASE NoFrames(buf[t], x) /\ db[FrameKey(x, i)] = None
      <4>1. NoFrames(db, x)
        BY <3>2, FramesAgree DEF Committed
      <4>2. m = 0
        <5>1. ~AllFrames(db, x)
          BY <3>2 DEF AllFrames
        <5>2. m > 0 /\ FrameRows(buf[t], x, e, m) => FALSE
          <6> SUFFICES ASSUME m > 0, FrameRows(buf[t], x, e, m) PROVE FALSE
            OBVIOUS
          <6>1. 1 \in 1..Frames /\ 1 <= m
            BY <1>2, PgAssumption
          <6>2. buf[t][FrameKey(x, 1)] = e
            BY <6>1 DEF FrameRows
          <6>3. e # None
            BY PgAssumption
          <6> QED
            BY <3>2, <6>1, <6>2, <6>3 DEF NoFrames
        <5> QED
          BY <1>1, <5>1, <5>2 DEF LayingAt
      <4>3. buf[t][FrameKey(x, i)] = None
        BY <3>2 DEF NoFrames
      <4>4. buf'[t][FrameKey(x, i)] = e
        BY <2>2, <3>2, <4>3
      <4>5. FrameRows(buf'[t], x, e, m + 1)
        <5> SUFFICES ASSUME NEW j \in 1..Frames
                     PROVE  buf'[t][FrameKey(x, j)] = IF j <= m + 1 THEN e ELSE None
          BY DEF FrameRows
        <5>1. CASE j = i
          <6>1. j <= m + 1
            BY <1>7, <5>1, <1>2
          <6> QED
            BY <4>4, <5>1, <6>1
        <5>2. CASE j # i
          <6>1. ~(j <= m + 1)
            BY <1>2, <1>7, <4>2, <5>2
          <6>2. buf'[t][FrameKey(x, j)] = None
            BY <2>5, <3>2, <5>2 DEF NoFrames
          <6> QED
            BY <6>1, <6>2
        <5> QED
          BY <5>1, <5>2
      <4> QED
        BY <2>2, <4>1, <4>5
    <3>3. CASE m > 0 /\ NoFrames(db, x) /\ FrameRows(buf[t], x, e, m)
      <4>1. buf[t][FrameKey(x, i)] = None /\ db[FrameKey(x, i)] = None
        <5>1. ~(i <= m)
          BY <1>2, <1>7
        <5> QED
          BY <3>3, <5>1 DEF NoFrames, FrameRows
      <4>2. buf'[t][FrameKey(x, i)] = e
        BY <2>2, <4>1
      <4>3. FrameRows(buf'[t], x, e, m + 1)
        <5> SUFFICES ASSUME NEW j \in 1..Frames
                     PROVE  buf'[t][FrameKey(x, j)] = IF j <= m + 1 THEN e ELSE None
          BY DEF FrameRows
        <5>1. CASE j = i
          <6>1. j <= m + 1
            BY <1>7, <5>1, <1>2
          <6> QED
            BY <4>2, <5>1, <6>1
        <5>2. CASE j # i
          <6>1. j <= m + 1 <=> j <= m
            BY <1>2, <1>7, <5>2
          <6>2. buf'[t][FrameKey(x, j)] = IF j <= m THEN e ELSE None
            BY <2>5, <3>3, <5>2 DEF FrameRows
          <6> QED
            BY <6>1, <6>2
        <5> QED
          BY <5>1, <5>2
      <4> QED
        BY <2>2, <3>3, <4>3
    <3> QED
      BY <1>1, <3>1, <3>2, <3>3 DEF LayingAt
  <2>12. LayingAt(t, x, e, m + 1)'
    BY <2>7, <2>9, <2>10, <2>11 DEF LayingAt, Rest, NoFrames, AllFrames, FrameRows
  <2> QED
    BY <2>6, <2>8, <2>10, <2>12 DEF Laying
<1> QED
  BY <1>8, <1>9

-----------------------------------------------------------------------------
(* lookup_file. *)

(* A task that is idle, without rows and locks, has done its job. *)
LEMMA IdleJob ==
    ASSUME NEW t \in Tasks, task'[t] = Idle, Bare(t)'
    PROVE  Job(t)'
<1>1. task'[t].state = "idle" /\ task'[t].prog = <<>>
  BY DEF Idle
<1> QED
  BY <1>1 DEF Job

(* The terms it reads are the file's list. *)
LEMMA LookingTerms ==
    ASSUME Types, Committed, NEW t \in Tasks, Looking(t), task[t].state = "run", ReadTerms(t)
    PROVE  Job(t)'
<1>1. PICK f \in Files, m \in 0..1 : Rest(task[t].prog, LookupFile(f), m)
  BY DEF Looking, LookingAt
<1>2. task[t] \in TaskType /\ task \in [Tasks -> TaskType]
  BY DEF Types
<1>3. task[t].prog # <<>> /\ Now(t).op = "readTerms" /\ buf' = buf /\ lock' = lock
  BY DEF ReadTerms, Is, Running
<1>4. m \in Nat
  OBVIOUS
<1>5. PICK w : w = LookupFile(f)
  OBVIOUS
<1>6. /\ w \in Seq(Stmts) /\ w[1] = Stmt("readTerms", TermKey(f, 1), f)
      /\ w[2] = Stmt("readTotal", TermKey(f, 1), f)
  BY <1>5, LookupFacts
<1>7. Now(t) = w[m + 1] /\ (Moves(t, 0) => Rest(task'[t].prog, w, m + 1))
  BY <1>1, <1>3, <1>4, <1>5, <1>6, PartPlace
<1>8. m = 0
  <2>1. CASE m = 1
    <3>1. Now(t).op = "readTotal"
      BY <1>6, <1>7, <2>1, StmtFields
    <3> QED
      BY <1>3, <3>1
  <2> QED
    BY <2>1
<1>9. Now(t).val = f
  BY <1>6, <1>7, <1>8, StmtFields
<1>10. Bare(t)'
  BY <1>3 DEF Looking, Bare
<1>11. CASE TermsOf(f) = <<>>
  <2>1. task'[t] = Idle
    BY <1>2, <1>9, <1>11 DEF ReadTerms
  <2> QED
    BY <1>10, <2>1, IdleJob
<1>12. CASE TermsOf(f) # <<>>
  <2>1. PICK b : b = Bytes(TermsOf(f))
    OBVIOUS
  <2>2. task' = [task EXCEPT ![t].prog = Tail(@), ![t].seen = b]
    BY <1>9, <1>12, <2>1 DEF ReadTerms
  <2>3. /\ task'[t].prog = Tail(task[t].prog) /\ task'[t].seen = b
        /\ task'[t].left = task[t].left /\ task'[t].state = task[t].state
    BY <1>2, <2>2 DEF TaskType
  <2>4. WholeRows(db, f)
    BY <1>12, NoTermsOf DEF Committed
  <2>5. Counted(db, f, task'[t].seen)
    BY <2>1, <2>3, <2>4, CountedTerms
  <2>6. Rest(task'[t].prog, w, 1)
    <3>1. PICK s : s = task[t].prog
      OBVIOUS
    <3>2. s \in Seq(Stmts) /\ s # <<>> /\ Rest(s, w, 0)
      BY <1>1, <1>2, <1>3, <1>5, <1>8, <3>1 DEF TaskType
    <3>3. Tail(s) = SubSeq(s, 2 + 0, Len(s))
      BY <3>2
    <3>4. PICK z \in Nat : z = 0
      OBVIOUS
    <3>5. z + 1 + z = 1 /\ Len(w) \in Nat
      BY <1>6, <3>4
    <3>6. 1 <= Len(w)
      BY <1>1, <1>5, LookupFacts
    <3>7. Rest(SubSeq(s, 2 + z, Len(s)), w, z + 1 + z)
      BY <1>6, <3>2, <3>4, <3>5, <3>6, RestNext
    <3> QED
      BY <2>3, <3>1, <3>3, <3>4, <3>5, <3>7
  <2>7. Looking(t)'
    <3>1. LookingAt(t, f, 1)'
      <4>1. Counted(db', f, task'[t].seen)
        BY <2>5 DEF ReadTerms
      <4> QED
        BY <1>5, <2>6, <4>1 DEF LookingAt, Rest, Counted, ListRows
    <3>2. task'[t].left = <<>>
      BY <2>3 DEF Looking
    <3> QED
      BY <1>10, <3>1, <3>2 DEF Looking
  <2> QED
    BY <2>3, <2>7 DEF Job
<1> QED
  BY <1>11, <1>12

(* Whichever row it compares with has that size, if the size is agreed. *)
LEMMA LookingTotal ==
    ASSUME Types, Committed, NEW t \in Tasks, Looking(t), ReadTotal(t)
    PROVE  Job(t)'
<1>1. PICK f \in Files, m \in 0..1 : LookingAt(t, f, m) /\ Rest(task[t].prog, LookupFile(f), m)
  BY DEF Looking, LookingAt
<1>2. task[t] \in TaskType /\ task \in [Tasks -> TaskType]
  BY DEF Types
<1>3. task[t].prog # <<>> /\ Now(t).op = "readTotal" /\ buf' = buf /\ lock' = lock
  BY DEF ReadTotal, Is, Running
<1>4. m \in Nat
  OBVIOUS
<1>5. PICK w : w = LookupFile(f)
  OBVIOUS
<1>6. /\ w \in Seq(Stmts) /\ w[1] = Stmt("readTerms", TermKey(f, 1), f)
      /\ w[2] = Stmt("readTotal", TermKey(f, 1), f)
  BY <1>5, LookupFacts
<1>7. Now(t) = w[m + 1]
  BY <1>1, <1>3, <1>4, <1>5, <1>6, PartPlace
<1>8. m = 1
  <2>1. CASE m = 0
    <3>1. Now(t).op = "readTerms"
      BY <1>6, <1>7, <2>1, StmtFields
    <3> QED
      BY <1>3, <3>1
  <2> QED
    BY <2>1
<1>9. Now(t).val = f
  BY <1>6, <1>7, <1>8, StmtFields
<1>10. Bare(t)'
  BY <1>3 DEF Looking, Bare
<1>11. ASSUME NEW p \in Repos, db[FileKey(f, p)] # None, Agreed(f)
       PROVE  db[FileKey(f, p)] = task[t].seen
  <2>1. IsSize(f, db[FileKey(f, p)])
    BY <1>11 DEF Committed
  <2>2. IsSize(f, task[t].seen)
    BY <1>1, <1>8 DEF LookingAt, Counted, IsSize
  <2> QED
    BY <1>11, <2>1, <2>2, OneSize
<1>12. PICK rows : rows = {db[FileKey(Now(t).val, p)] : p \in Repos} \ {None}
  OBVIOUS
<1>13. ASSUME Agreed(f)
       PROVE  \A total \in IF rows = {} THEN {task[t].seen} ELSE rows : total = task[t].seen
  BY <1>9, <1>11, <1>12, <1>13
<1>14. PICK total \in IF rows = {} THEN {task[t].seen} ELSE rows :
          task' = [task EXCEPT ![t] =
                     IF total = task[t].seen THEN Idle ELSE [@ EXCEPT !.state = "refused"]]
  BY <1>12 DEF ReadTotal
<1>15. CASE total = task[t].seen
  <2>1. task'[t] = Idle
    BY <1>2, <1>14, <1>15
  <2> QED
    BY <1>10, <2>1, IdleJob
<1>16. CASE total # task[t].seen
  <2>1. /\ task'[t].state = "refused" /\ task'[t].prog = task[t].prog
        /\ task'[t].seen = task[t].seen
    BY <1>2, <1>14, <1>16 DEF TaskType
  <2>2. ~Agreed(f)
    BY <1>13, <1>14, <1>16
  <2>3. LookingAt(t, f, 1)'
    <3>1. Rest(task'[t].prog, LookupFile(f), 1)
      BY <1>1, <1>8, <2>1
    <3>2. Counted(db', f, task'[t].seen)
      BY <1>1, <1>8, <2>1 DEF LookingAt, ReadTotal
    <3> QED
      BY <3>1, <3>2 DEF LookingAt, Rest, Counted, ListRows
  <2> QED
    BY <1>10, <2>1, <2>2, <2>3 DEF Job, Agreed
<1> QED
  BY <1>15, <1>16

(* It has no other statements. *)
LEMMA LookingNow ==
    ASSUME Types, NEW t \in Tasks, Looking(t), task[t].prog # <<>>
    PROVE  Now(t).op \in {"readTerms", "readTotal"}
<1>1. PICK f \in Files, m \in 0..1 : Rest(task[t].prog, LookupFile(f), m)
  BY DEF Looking, LookingAt
<1>2. PICK w : w = LookupFile(f)
  OBVIOUS
<1>3. /\ w \in Seq(Stmts) /\ w[1] = Stmt("readTerms", TermKey(f, 1), f)
      /\ w[2] = Stmt("readTotal", TermKey(f, 1), f)
  BY <1>2, LookupFacts
<1>4. m \in Nat
  OBVIOUS
<1>5. Now(t) = w[m + 1]
  BY <1>1, <1>2, <1>3, <1>4, PartPlace
<1>6. m + 1 = 1 \/ m + 1 = 2
  OBVIOUS
<1>7. w[1].op = "readTerms" /\ w[2].op = "readTotal"
  BY <1>3, StmtFields
<1> QED
  BY <1>5, <1>6, <1>7

(* Nor has filing. *)
LEMMA FilingNow ==
    ASSUME Types, NEW t \in Tasks, Filing(t), task[t].prog # <<>>
    PROVE  Now(t).op \in {"upsert", "lock", "probe", "insert"}
<1>1. PICK p \in Repos : FilingIn(t, p)
  BY DEF Filing
<1>2. PICK f \in Files : \E l \in Segs[f], m \in 0..(MaxTerms + 2) : Place(t, f, p, l, m)
  BY <1>1, FilingPlace
<1>3. PICK l \in Segs[f], m \in 0..(MaxTerms + 2) : Place(t, f, p, l, m)
  BY <1>2
<1>4. m \in Nat
  BY PgAssumption
<1> QED
  BY <1>3, <1>4, WriteNow DEF Place

-----------------------------------------------------------------------------
(* Types and locks. *)

LEMMA SuffixType ==
    ASSUME NEW S, NEW s \in Seq(S), NEW k \in Nat
    PROVE  SubSeq(s, 2 + k, Len(s)) \in Seq(S)
<1>1. CASE k + 1 <= Len(s)
  BY <1>1, SuffixFacts
<1>2. CASE ~(k + 1 <= Len(s))
  <2>1. PICK n \in Nat : n = Len(s)
    OBVIOUS
  <2>2. \A i \in (2 + k)..n : s[i] \in S
    BY <1>2, <2>1
  <2>3. SubSeq(s, 2 + k, n) \in Seq(S)
    BY <2>2
  <2> QED
    BY <2>1, <2>3
<1> QED
  BY <1>1, <1>2

LEMMA AdvanceTypes ==
    ASSUME Types, NEW t \in Tasks, NEW n \in Nat, Advance(t, n)
    PROVE  task' \in [Tasks -> TaskType]
<1>1. task \in [Tasks -> TaskType] /\ task[t] \in TaskType
  BY DEF Types
<1>2. task[t].prog \in Seq(Stmts)
  BY <1>1 DEF TaskType
<1>3. PICK r : r = SubSeq(task[t].prog, 2 + n, Len(task[t].prog))
  OBVIOUS
<1>4. r \in Seq(Stmts)
  BY <1>2, <1>3, SuffixType
<1>5. [task[t] EXCEPT !.prog = r] \in TaskType
  BY <1>1, <1>4 DEF TaskType
<1>6. task' = [task EXCEPT ![t] = [task[t] EXCEPT !.prog = r]]
  BY <1>1, <1>3 DEF Advance
<1> QED
  BY <1>1, <1>5, <1>6

(* What a step that commits nothing does to the others. *)
LEMMA Quiet ==
    ASSUME NEW u \in Tasks, db' = db, task'[u] = task[u], buf'[u] = buf[u],
           \A k \in LockKeys : lock[k] = u <=> lock'[k] = u
    PROVE  Untouched(u)
  BY DEF Untouched

(* A statement that changes nothing but its task's place. *)
LEMMA ProbeKeeps ==
    ASSUME Types, Held, NEW t \in Tasks, ProbeTerms(t)
    PROVE  Types' /\ Held' /\ \A u \in Tasks \ {t} : Untouched(u)
<1>1. db' = db /\ buf' = buf /\ lock' = lock
  BY DEF ProbeTerms
<1>2. PICK n \in Nat : Advance(t, n)
  <2>1. task[t].prog # <<>> /\ Now(t).op = "probe"
    BY DEF ProbeTerms, Is, Running
  <2>2. Now(t).val \in Nat
    BY <2>1, NowType DEF Stmts
  <2>3. CASE Sees(t, Now(t).key) # None
    BY <2>2, <2>3 DEF ProbeTerms
  <2>4. CASE Sees(t, Now(t).key) = None
    BY <2>4 DEF ProbeTerms
  <2> QED
    BY <2>3, <2>4
<1>3. task' \in [Tasks -> TaskType] /\ \A u \in Tasks \ {t} : task'[u] = task[u]
  BY <1>2, AdvanceTypes, AdvanceMoves
<1>4. Types'
  BY <1>1, <1>3 DEF Types
<1>5. Held'
  BY <1>1 DEF Held
<1>6. \A u \in Tasks \ {t} : Untouched(u)
  BY <1>1, <1>3, Quiet
<1> QED
  BY <1>4, <1>5, <1>6

LEMMA LockKeeps ==
    ASSUME Types, Held, NEW t \in Tasks, AdvisoryLock(t)
    PROVE  Types' /\ Held' /\ \A u \in Tasks \ {t} : Untouched(u)
<1>1. db' = db /\ buf' = buf /\ Advance(t, 0) /\ lock' = [lock EXCEPT ![Now(t).key] = t]
  BY DEF AdvisoryLock
<1>2. task[t].prog # <<>> /\ Now(t).op = "lock" /\ Running(t)
  BY DEF AdvisoryLock, Is, Running
<1>3. lock[Now(t).key] \in {None, t} /\ Now(t).key \in LockKeys
  <2>1. Needs(t)
    BY <1>2 DEF Needs
  <2> QED
    BY <1>2, <2>1, NowType DEF AdvisoryLock, Blocked
<1>4. /\ \A u \in Tasks, j \in LockKeys : lock[j] = u => lock'[j] = u
      /\ \A u \in Tasks \ {t}, j \in LockKeys : lock[j] = u <=> lock'[j] = u
  BY <1>1, <1>3, LockTaken
<1>5. task' \in [Tasks -> TaskType] /\ \A u \in Tasks \ {t} : task'[u] = task[u]
  BY <1>1, AdvanceTypes, AdvanceMoves
<1>6. lock' \in [LockKeys -> Tasks \cup {None}]
  BY <1>1 DEF Types
<1>7. Types'
  BY <1>1, <1>5, <1>6 DEF Types
<1>8. Held'
  BY <1>1, <1>4, KeyTypes DEF Held
<1>9. \A u \in Tasks \ {t} : Untouched(u)
  BY <1>1, <1>4, <1>5, Quiet
<1> QED
  BY <1>7, <1>8, <1>9

(* A statement that writes a row under its lock. *)
LEMMA WriteKeeps ==
    ASSUME Types, Held, NEW t \in Tasks, Running(t), Now(t).op \in {"upsert", "insert"},
           Needs(t), ~Blocked(t), db' = db, Advance(t, 0),
           buf' = [buf EXCEPT ![t][Now(t).key] = Now(t).val],
           lock' = [lock EXCEPT ![Now(t).key] = t]
    PROVE  Types' /\ Held' /\ \A u \in Tasks \ {t} : Untouched(u)
<1>1. task[t].prog # <<>>
  BY DEF Running
<1>2. Now(t).key \in RowKeys /\ Now(t).val \in Values /\ Now(t).key \in LockKeys
  BY <1>1, NowType DEF Stmts
<1>3. lock[Now(t).key] \in {None, t}
  BY DEF Blocked
<1>4. /\ lock'[Now(t).key] = t
      /\ \A u \in Tasks, j \in LockKeys : lock[j] = u => lock'[j] = u
      /\ \A u \in Tasks \ {t}, j \in LockKeys : lock[j] = u <=> lock'[j] = u
  BY <1>2, <1>3, LockTaken
<1>5. /\ \A j \in RowKeys : j # Now(t).key => buf'[t][j] = buf[t][j]
      /\ \A u \in Tasks \ {t} : buf'[u] = buf[u]
  BY <1>2, RowWritten
<1>6. task' \in [Tasks -> TaskType] /\ \A u \in Tasks \ {t} : task'[u] = task[u]
  BY AdvanceTypes, AdvanceMoves
<1>7. lock' \in [LockKeys -> Tasks \cup {None}]
  BY DEF Types
<1>8. buf' \in [Tasks -> [RowKeys -> Values]]
  <2>1. buf \in [Tasks -> [RowKeys -> Values]] /\ buf[t] \in [RowKeys -> Values]
    BY DEF Types
  <2>2. PICK k : k = Now(t).key
    OBVIOUS
  <2>3. PICK v : v = Now(t).val
    OBVIOUS
  <2>4. k \in RowKeys /\ v \in Values /\ buf' = [buf EXCEPT ![t][k] = v]
    BY <1>2, <2>2, <2>3
  <2>5. [buf[t] EXCEPT ![k] = v] \in [RowKeys -> Values]
    BY <2>1, <2>4
  <2>6. buf' = [buf EXCEPT ![t] = [buf[t] EXCEPT ![k] = v]]
    BY <2>1, <2>4
  <2> QED
    BY <2>1, <2>5, <2>6
<1>9. Types'
  BY <1>6, <1>7, <1>8 DEF Types
<1>10. Held'
  <2> SUFFICES ASSUME NEW u \in Tasks, NEW k \in RowKeys, buf'[u][k] # None
               PROVE  lock'[k] = u
    BY DEF Held
  <2>1. k \in LockKeys
    BY KeyTypes
  <2>2. CASE u = t /\ k = Now(t).key
    BY <1>4, <2>2
  <2>3. CASE ~(u = t /\ k = Now(t).key)
    <3>1. buf'[u][k] = buf[u][k]
      BY <1>5, <2>3
    <3>2. lock[k] = u
      BY <3>1 DEF Held
    <3> QED
      BY <1>4, <2>1, <3>2
  <2> QED
    BY <2>2, <2>3
<1>11. \A u \in Tasks \ {t} : Untouched(u)
  BY <1>4, <1>5, <1>6, Quiet
<1> QED
  BY <1>9, <1>10, <1>11

LEMMA UpsertKeeps ==
    ASSUME Types, Held, NEW t \in Tasks, Upsert(t)
    PROVE  Types' /\ Held' /\ \A u \in Tasks \ {t} : Untouched(u)
<1>1. Running(t) /\ Now(t).op = "upsert" /\ ~Blocked(t) /\ db' = db /\ Advance(t, 0)
  BY DEF Upsert, Is
<1>2. Needs(t)
  BY <1>1 DEF Needs
<1>3. /\ buf' = [buf EXCEPT ![t][Now(t).key] = Now(t).val]
      /\ lock' = [lock EXCEPT ![Now(t).key] = t]
  BY DEF Upsert
<1> QED
  BY <1>1, <1>2, <1>3, WriteKeeps

LEMMA InsertKeeps ==
    ASSUME Types, Held, NEW t \in Tasks, InsertIgnore(t)
    PROVE  Types' /\ Held' /\ \A u \in Tasks \ {t} : Untouched(u)
<1>1. Running(t) /\ Now(t).op = "insert" /\ ~Blocked(t) /\ db' = db /\ Advance(t, 0)
  BY DEF InsertIgnore, Is
<1>2. CASE Needs(t)
  <2>1. /\ buf' = [buf EXCEPT ![t][Now(t).key] = Now(t).val]
        /\ lock' = [lock EXCEPT ![Now(t).key] = t]
    BY <1>2 DEF InsertIgnore
  <2> QED
    BY <1>1, <1>2, <2>1, WriteKeeps
<1>3. CASE ~Needs(t)
  <2>1. buf' = buf /\ lock' = lock
    BY <1>3 DEF InsertIgnore
  <2>2. task' \in [Tasks -> TaskType] /\ \A u \in Tasks \ {t} : task'[u] = task[u]
    BY <1>1, AdvanceTypes, AdvanceMoves
  <2>3. Types' /\ Held'
    BY <1>1, <2>1, <2>2 DEF Types, Held
  <2>4. \A u \in Tasks \ {t} : Untouched(u)
    BY <1>1, <2>1, <2>2, Quiet
  <2> QED
    BY <2>3, <2>4
<1> QED
  BY <1>2, <1>3

LEMMA NextPartKeeps ==
    ASSUME Types, Held, NEW t \in Tasks, NextPart(t)
    PROVE  Types' /\ Held' /\ \A u \in Tasks \ {t} : Untouched(u)
<1>1. /\ db' = db /\ buf' = buf /\ lock' = lock /\ task[t].left # <<>>
      /\ task' = [task EXCEPT ![t].prog = Head(task[t].left), ![t].left = Tail(@)]
  BY DEF NextPart
<1>2. task \in [Tasks -> TaskType] /\ task[t] \in TaskType
  BY DEF Types
<1>3. task[t].left \in Seq(Seq(Stmts))
  BY <1>2 DEF TaskType
<1>4. PICK h : h = Head(task[t].left)
  OBVIOUS
<1>5. PICK r : r = Tail(task[t].left)
  OBVIOUS
<1>6. h \in Seq(Stmts) /\ r \in Seq(Seq(Stmts))
  BY <1>1, <1>3, <1>4, <1>5
<1>7. [task[t] EXCEPT !.prog = h, !.left = r] \in TaskType
  BY <1>2, <1>6 DEF TaskType
<1>8. task' = [task EXCEPT ![t] = [task[t] EXCEPT !.prog = h, !.left = r]]
  BY <1>1, <1>2, <1>4, <1>5 DEF TaskType
<1>9. task' \in [Tasks -> TaskType] /\ \A u \in Tasks \ {t} : task'[u] = task[u]
  BY <1>2, <1>7, <1>8
<1>10. Types' /\ Held'
  BY <1>1, <1>9 DEF Types, Held
<1>11. \A u \in Tasks \ {t} : Untouched(u)
  BY <1>1, <1>9, Quiet
<1> QED
  BY <1>10, <1>11

LEMMA IdleType == Idle \in TaskType
<1>1. <<>> \in Seq(Stmts) /\ <<>> \in Seq(Seq(Stmts))
  OBVIOUS
<1> QED
  BY <1>1 DEF Idle, TaskType

(* A step that changes only its task. *)
LEMMA TaskKeeps ==
    ASSUME Types, Held, NEW t \in Tasks, NEW r \in TaskType,
           task' = [task EXCEPT ![t] = r], db' = db, buf' = buf, lock' = lock
    PROVE  Types' /\ Held' /\ \A u \in Tasks \ {t} : Untouched(u)
<1>1. task' \in [Tasks -> TaskType] /\ \A u \in Tasks \ {t} : task'[u] = task[u]
  BY DEF Types
<1>2. Types' /\ Held'
  BY <1>1 DEF Types, Held
<1>3. \A u \in Tasks \ {t} : Untouched(u)
  BY <1>1, Quiet
<1> QED
  BY <1>2, <1>3

LEMMA ReadTermsKeeps ==
    ASSUME Types, Held, Committed, NEW t \in Tasks, ReadTerms(t)
    PROVE  Types' /\ Held' /\ \A u \in Tasks \ {t} : Untouched(u)
<1>1. db' = db /\ buf' = buf /\ lock' = lock
  BY DEF ReadTerms
<1>2. task \in [Tasks -> TaskType] /\ task[t] \in TaskType
  BY DEF Types
<1>3. task[t].prog # <<>> /\ Now(t).op = "readTerms"
  BY DEF ReadTerms, Is, Running
<1>4. PICK f \in Files : f = Now(t).val
  BY <1>3, NowType DEF Stmts
<1>5. PICK r \in TaskType : task' = [task EXCEPT ![t] = r]
  <2>1. CASE TermsOf(f) = <<>>
    BY <1>4, <2>1, IdleType DEF ReadTerms
  <2>2. CASE TermsOf(f) # <<>>
    <3>1. PICK b : b = Bytes(TermsOf(f))
      OBVIOUS
    <3>2. TermsOf(f) \in Segs[f]
      BY <2>2, NoTermsOf, WholeTerms DEF Committed
    <3>3. b \in Nat
      BY <3>1, <3>2, ListFacts
    <3>4. task' = [task EXCEPT ![t].prog = Tail(@), ![t].seen = b]
      BY <1>4, <2>2, <3>1 DEF ReadTerms
    <3>5. PICK s : s = Tail(task[t].prog)
      OBVIOUS
    <3>6. s \in Seq(Stmts)
      <4>1. task[t].prog \in Seq(Stmts)
        BY <1>2 DEF TaskType
      <4> QED
        BY <1>3, <3>5, <4>1
    <3>7. [task[t] EXCEPT !.prog = s, !.seen = b] \in TaskType
      BY <1>2, <3>3, <3>6 DEF TaskType
    <3>8. task' = [task EXCEPT ![t] = [task[t] EXCEPT !.prog = s, !.seen = b]]
      BY <1>2, <3>4, <3>5 DEF TaskType
    <3> QED
      BY <3>7, <3>8
  <2> QED
    BY <2>1, <2>2
<1> QED
  BY <1>1, <1>5, TaskKeeps

LEMMA ReadTotalKeeps ==
    ASSUME Types, Held, NEW t \in Tasks, ReadTotal(t)
    PROVE  Types' /\ Held' /\ \A u \in Tasks \ {t} : Untouched(u)
<1>1. db' = db /\ buf' = buf /\ lock' = lock
  BY DEF ReadTotal
<1>2. task \in [Tasks -> TaskType] /\ task[t] \in TaskType
  BY DEF Types
<1>3. [task[t] EXCEPT !.state = "refused"] \in TaskType
  BY <1>2 DEF TaskType
<1>4. PICK rows : rows = {db[FileKey(Now(t).val, p)] : p \in Repos} \ {None}
  OBVIOUS
<1>5. PICK total \in IF rows = {} THEN {task[t].seen} ELSE rows :
          task' = [task EXCEPT ![t] =
                     IF total = task[t].seen THEN Idle ELSE [@ EXCEPT !.state = "refused"]]
  BY <1>4 DEF ReadTotal
<1>6. PICK r \in TaskType : task' = [task EXCEPT ![t] = r]
  <2>1. CASE total = task[t].seen
    BY <1>5, <2>1, IdleType
  <2>2. CASE total # task[t].seen
    <3>1. task' = [task EXCEPT ![t] = [task[t] EXCEPT !.state = "refused"]]
      BY <1>2, <1>5, <2>2
    <3> QED
      BY <1>3, <3>1
  <2> QED
    BY <2>1, <2>2
<1> QED
  BY <1>1, <1>6, TaskKeeps

-----------------------------------------------------------------------------
(* A call begins. *)

(* The program of a call, by the kind of the call. *)
LEMMA ProgramFacts ==
    ASSUME NEW c \in Calls
    PROVE  \/ \E x \in Xorbs : Program(c) = <<RegisterXorb(x)>>
           \/ \E x \in Xorbs, e \in Encodings : Program(c) = <<RegisterXorbLayout(x, e)>>
           \/ \E f \in Files : Program(c) = <<LookupFile(f)>>
           \/ \E p \in Repos :
                /\ Program(c) \in Seq(Seq(Stmts))
                /\ \A i \in 1..Len(Program(c)) :
                     \E f \in Files : \E l \in Segs[f] : Program(c)[i] = WriteFile(f, p, l)
<1>1. CASE c \in [call: {"register_xorb"}, xorb: Xorbs]
  <2>1. c.call = "register_xorb" /\ c.xorb \in Xorbs
    BY <1>1
  <2>2. Program(c) = <<RegisterXorb(c.xorb)>>
    BY <2>1 DEF Program
  <2> QED
    BY <2>1, <2>2
<1>2. CASE c \in [call: {"register_xorb_layout"}, xorb: Xorbs, enc: Encodings]
  <2>1. c.call = "register_xorb_layout" /\ c.xorb \in Xorbs /\ c.enc \in Encodings
    BY <1>2
  <2>2. Program(c) = <<RegisterXorbLayout(c.xorb, c.enc)>>
    BY <2>1 DEF Program
  <2> QED
    BY <2>1, <2>2
<1>3. CASE c \in [call: {"lookup_file"}, file: Files]
  <2>1. c.call = "lookup_file" /\ c.file \in Files
    BY <1>3
  <2>2. Program(c) = <<LookupFile(c.file)>>
    BY <2>1 DEF Program
  <2> QED
    BY <2>1, <2>2
<1>4. CASE /\ c \in [call: {"register_files"}, repo: Repos,
                    shard: Seq([file: Files, list: UNION {Segs[f] : f \in Files}])]
           /\ \A i \in DOMAIN c.shard : c.shard[i].list \in Segs[c.shard[i].file]
  <2>1. /\ c.call = "register_files" /\ c.repo \in Repos
        /\ c.shard \in Seq([file: Files, list: UNION {Segs[f] : f \in Files}])
    BY <1>4
  <2>2. PICK s : s = c.shard
    OBVIOUS
  <2>3. s \in Seq([file: Files, list: UNION {Segs[f] : f \in Files}])
    BY <2>1, <2>2
  <2>4. PICK n \in Nat : n = Len(s)
    BY <2>3
  <2>5. \A i \in 1..n : s[i].file \in Files /\ s[i].list \in Segs[s[i].file]
    <3>1. DOMAIN s = 1..n
      BY <2>3, <2>4
    <3>2. \A i \in 1..n : s[i].list \in Segs[s[i].file]
      BY <1>4, <2>2, <3>1
    <3>3. \A i \in 1..n : s[i] \in [file: Files, list: UNION {Segs[f] : f \in Files}]
      <4>1. PICK E : E = [file: Files, list: UNION {Segs[f] : f \in Files}]
        OBVIOUS
      <4>2. s \in Seq(E)
        BY <2>3, <4>1
      <4>3. \A i \in 1..n : s[i] \in E
        BY <2>4, <4>2
      <4> QED
        BY <4>1, <4>3
    <3>4. \A i \in 1..n : s[i].file \in Files
      BY <3>3
    <3> QED
      BY <3>2, <3>4
  <2>6. Program(c) = [i \in 1..n |-> WriteFile(s[i].file, c.repo, s[i].list)]
    BY <2>1, <2>2, <2>4 DEF Program, RegisterFiles
  <2>7. \A i \in 1..n : WriteFile(s[i].file, c.repo, s[i].list) \in Seq(Stmts)
    BY <2>1, <2>5, WriteFacts
  <2>8. Program(c) \in Seq(Seq(Stmts)) /\ Len(Program(c)) = n
    BY <2>6, <2>7
  <2>9. \A i \in 1..n : \E f \in Files : \E l \in Segs[f] : Program(c)[i] = WriteFile(f, c.repo, l)
    BY <2>5, <2>6
  <2> QED
    BY <2>1, <2>8, <2>9
<1> QED
  BY <1>1, <1>2, <1>3, <1>4, CallsAssumption

(* A list of one part. *)
LEMMA OnePart ==
    ASSUME NEW part \in Seq(Stmts)
    PROVE  /\ <<part>> \in Seq(Seq(Stmts)) /\ Head(<<part>>) = part /\ Tail(<<part>>) = <<>>
  OBVIOUS

LEMMA ProgramType ==
    ASSUME NEW c \in Calls
    PROVE  Program(c) \in Seq(Seq(Stmts))
  BY ProgramFacts, OnePart, XorbFacts, LayoutFacts, LookupFacts

LEMMA BeginKeeps ==
    ASSUME Types, Held, NEW t \in Tasks, NEW c \in Calls, Begin(t, c)
    PROVE  /\ Types' /\ Held' /\ \A u \in Tasks \ {t} : Untouched(u)
           /\ task'[t].prog = Head(Program(c)) /\ task'[t].left = Tail(Program(c))
           /\ task'[t].state = "run"
<1>1. db' = db /\ buf' = buf /\ lock' = lock /\ Program(c) # <<>>
  BY DEF Begin
<1>2. PICK h : h = Head(Program(c))
  OBVIOUS
<1>3. PICK r : r = Tail(Program(c))
  OBVIOUS
<1>4. h \in Seq(Stmts) /\ r \in Seq(Seq(Stmts))
  <2>1. Program(c) \in Seq(Seq(Stmts))
    BY ProgramType
  <2> QED
    BY <1>1, <1>2, <1>3, <2>1
<1>5. PICK q : q = [prog |-> h, left |-> r, seen |-> 0, state |-> "run"]
  OBVIOUS
<1>6. q \in TaskType
  BY <1>4, <1>5 DEF TaskType
<1>7. task' = [task EXCEPT ![t] = q]
  BY <1>2, <1>3, <1>5 DEF Begin
<1>8. Types' /\ Held' /\ \A u \in Tasks \ {t} : Untouched(u)
  BY <1>1, <1>6, <1>7, TaskKeeps
<1>9. task'[t] = q
  BY <1>7 DEF Types
<1> QED
  BY <1>2, <1>3, <1>5, <1>8, <1>9

(* Its transaction has written nothing. *)
LEMMA BeginJob ==
    ASSUME Types, Held, NEW t \in Tasks, NEW c \in Calls, Begin(t, c), Job(t)
    PROVE  Job(t)'
<1>1. /\ task'[t].prog = Head(Program(c)) /\ task'[t].left = Tail(Program(c))
      /\ task'[t].state = "run"
  BY BeginKeeps
<1>2. buf' = buf /\ lock' = lock /\ Bare(t) /\ Program(c) # <<>>
  <2>1. task[t].state \in {"idle", "run", "refused"} /\ task[t].state # "run"
    BY DEF Begin, Types, TaskType
  <2> QED
    BY <2>1 DEF Begin, Job
<1>3. \A k \in RowKeys : buf'[t][k] = None
  BY <1>2 DEF Bare
<1>4. \A f \in Files, p \in Repos : buf'[t][FileKey(f, p)] = None
  BY <1>3, KeyTypes
<1>5. \A f \in Files, i \in 1..MaxTerms : buf'[t][TermKey(f, i)] = None
  BY <1>3, KeyTypes
<1>6. \A x \in Xorbs, i \in 1..Frames : buf'[t][FrameKey(x, i)] = None
  BY <1>3, KeyTypes
<1>7. NoFiles(buf[t])' /\ (\A x \in Xorbs : NoFrames(buf[t], x))'
  BY <1>4, <1>5, <1>6 DEF NoFiles, NoTerms, NoFrames
<1>8. 0 \in 0..(Frames + 1) /\ 0 \in 0..Frames /\ 0 \in 0..1 /\ 0 \in 0..(MaxTerms + 2)
  BY PgAssumption
<1>9. ASSUME NEW x \in Xorbs, Program(c) = <<RegisterXorb(x)>> PROVE Storing(t)'
  <2>1. task'[t].prog = RegisterXorb(x) /\ task'[t].left = <<>>
    BY <1>1, <1>9, OnePart, XorbFacts
  <2>2. Rest(RegisterXorb(x), RegisterXorb(x), 0)
    BY RestStart, XorbFacts
  <2> QED
    BY <1>7, <1>8, <2>1, <2>2 DEF Storing, Rest
<1>10. ASSUME NEW x \in Xorbs, NEW e \in Encodings, Program(c) = <<RegisterXorbLayout(x, e)>>
       PROVE  Laying(t)'
  <2>1. task'[t].prog = RegisterXorbLayout(x, e) /\ task'[t].left = <<>>
    BY <1>1, <1>10, OnePart, LayoutFacts
  <2>2. Rest(RegisterXorbLayout(x, e), RegisterXorbLayout(x, e), 0)
    BY RestStart, LayoutFacts
  <2>3. LayingAt(t, x, e, 0)'
    BY <1>7, <2>1, <2>2 DEF LayingAt, Rest, NoFrames
  <2> QED
    BY <1>7, <1>8, <2>1, <2>3 DEF Laying
<1>11. ASSUME NEW f \in Files, Program(c) = <<LookupFile(f)>> PROVE Looking(t)'
  <2>1. task'[t].prog = LookupFile(f) /\ task'[t].left = <<>>
    BY <1>1, <1>11, OnePart, LookupFacts
  <2>2. Rest(LookupFile(f), LookupFile(f), 0)
    BY RestStart, LookupFacts
  <2> QED
    BY <1>2, <1>3, <1>8, <2>1, <2>2 DEF Looking, LookingAt, Rest, Bare
<1>12. ASSUME NEW p \in Repos, Program(c) \in Seq(Seq(Stmts)),
              \A i \in 1..Len(Program(c)) :
                 \E f \in Files : \E l \in Segs[f] : Program(c)[i] = WriteFile(f, p, l)
       PROVE  Filing(t)'
  <2>1. PICK s : s = Program(c)
    OBVIOUS
  <2>2. s \in Seq(Seq(Stmts)) /\ s # <<>>
    BY <1>2, <1>12, <2>1
  <2>3. \A i \in 1..Len(s) : \E f \in Files : \E l \in Segs[f] : s[i] = WriteFile(f, p, l)
    BY <1>12, <2>1
  <2>4. \A i \in 1..Len(Tail(s)) : Tail(s)[i] = s[i + 1] /\ i + 1 \in 1..Len(s)
    BY <2>2
  <2>5. task'[t].prog = Head(s) /\ task'[t].left = Tail(s)
    BY <1>1, <2>1
  <2>6. (\A i \in 1..Len(task[t].left) :
           \E f \in Files : \E l \in Segs[f] : task[t].left[i] = WriteFile(f, p, l))'
    BY <2>3, <2>4, <2>5
  <2>7. Head(s) = s[1] /\ 1 \in 1..Len(s)
    BY <2>2
  <2>8. PICK f \in Files : \E l \in Segs[f] : Head(s) = WriteFile(f, p, l)
    BY <2>3, <2>7
  <2>9. PICK l \in Segs[f] : Head(s) = WriteFile(f, p, l)
    BY <2>8
  <2>10. Rest(task'[t].prog, WriteFile(f, p, l), 0)
    <3>1. WriteFile(f, p, l) \in Seq(Stmts)
      BY WriteFacts
    <3> QED
      BY <2>5, <2>9, <3>1, RestStart
  <2>11. Midst(t, f, p, 0)'
    <3>1. Writing(t, f, p, l, 0)'
      BY <2>10 DEF Writing, Rest
    <3> QED
      BY <1>8, <3>1 DEF Midst
  <2>12. \A g \in Files : (Filed(t, g, p) /\ Termed(t, g, p))'
    BY <1>4, <1>7 DEF Filed, Termed, NoFiles, NoTerms
  <2>13. (\A g \in Files, q \in Repos : buf[t][FileKey(g, q)] # None => q = p)'
    BY <1>4
  <2>14. FilingIn(t, p)'
    BY <1>7, <2>6, <2>11, <2>12, <2>13 DEF FilingIn
  <2> QED
    BY <2>14 DEF Filing
<1>13. (Filing(t) \/ Storing(t) \/ Laying(t) \/ Looking(t))'
  BY <1>9, <1>10, <1>11, <1>12, ProgramFacts
<1> QED
  BY <1>1, <1>13 DEF Job

-----------------------------------------------------------------------------
(* The end of a transaction. *)

LEMMA ReleaseDoes ==
    ASSUME Types, NEW t \in Tasks, Release(t)
    PROVE  /\ lock' \in [LockKeys -> Tasks \cup {None}]
           /\ \A u \in Tasks \ {t}, k \in LockKeys : lock[k] = u <=> lock'[k] = u
           /\ \A k \in LockKeys : lock'[k] # t
<1>1. None \notin Tasks
  BY PgAssumption
<1> QED
  BY <1>1 DEF Types, Release

(* Rows, locks and place of the transaction are gone. *)
LEMMA EndDoes ==
    ASSUME Types, Held, NEW t \in Tasks, Release(t),
           buf' = [buf EXCEPT ![t] = NoRows], task' = [task EXCEPT ![t] = Idle]
    PROVE  /\ buf' \in [Tasks -> [RowKeys -> Values]] /\ task' \in [Tasks -> TaskType]
           /\ lock' \in [LockKeys -> Tasks \cup {None}]
           /\ Held' /\ Job(t)'
           /\ \A u \in Tasks \ {t} :
                /\ buf'[u] = buf[u] /\ task'[u] = task[u]
                /\ \A k \in LockKeys : lock[k] = u <=> lock'[k] = u
<1>1. /\ lock' \in [LockKeys -> Tasks \cup {None}]
      /\ \A u \in Tasks \ {t}, k \in LockKeys : lock[k] = u <=> lock'[k] = u
      /\ \A k \in LockKeys : lock'[k] # t
  BY ReleaseDoes
<1>2. NoRows \in [RowKeys -> Values] /\ \A k \in RowKeys : NoRows[k] = None
  BY DEF NoRows, Values
<1>3. buf' \in [Tasks -> [RowKeys -> Values]] /\ buf'[t] = NoRows
      /\ \A u \in Tasks \ {t} : buf'[u] = buf[u]
  BY <1>2 DEF Types
<1>4. task' \in [Tasks -> TaskType] /\ task'[t] = Idle
      /\ \A u \in Tasks \ {t} : task'[u] = task[u]
  BY IdleType DEF Types
<1>5. \A k \in RowKeys : buf'[t][k] = None
  BY <1>2, <1>3
<1>6. Job(t)'
  BY <1>1, <1>4, <1>5, IdleJob DEF Bare
<1>7. Held'
  <2> SUFFICES ASSUME NEW u \in Tasks, NEW k \in RowKeys, buf'[u][k] # None
               PROVE  lock'[k] = u
    BY DEF Held
  <2>1. u # t
    BY <1>5
  <2>2. lock[k] = u
    BY <1>3, <2>1 DEF Held
  <2> QED
    BY <1>1, <2>1, <2>2, KeyTypes
<1> QED
  BY <1>1, <1>3, <1>4, <1>6, <1>7

LEMMA RollbackKeeps ==
    ASSUME Types, Held, NEW t \in Tasks, Rollback(t)
    PROVE  Types' /\ Held' /\ Job(t)' /\ \A u \in Tasks \ {t} : Untouched(u)
<1>1. /\ db' = db /\ Release(t)
      /\ buf' = [buf EXCEPT ![t] = NoRows] /\ task' = [task EXCEPT ![t] = Idle]
  BY DEF Rollback
<1>2. /\ buf' \in [Tasks -> [RowKeys -> Values]] /\ task' \in [Tasks -> TaskType]
      /\ lock' \in [LockKeys -> Tasks \cup {None}]
      /\ Held' /\ Job(t)'
      /\ \A u \in Tasks \ {t} :
           /\ buf'[u] = buf[u] /\ task'[u] = task[u]
           /\ \A k \in LockKeys : lock[k] = u <=> lock'[k] = u
  BY <1>1, EndDoes
<1>3. Types'
  BY <1>1, <1>2 DEF Types
<1>4. \A u \in Tasks \ {t} : Untouched(u)
  BY <1>1, <1>2, Quiet
<1> QED
  BY <1>2, <1>3, <1>4

(* The frames a transaction wrote at its end: none, or all of a xorb that  *)
(* has none committed, in one encoding and under the lock of the first.    *)
FramesDone(t, x) ==
    \/ NoFrames(buf[t], x)
    \/ /\ NoFrames(db, x) /\ lock[FrameKey(x, 1)] = t
       /\ \E e \in Encodings : \A i \in 1..Frames : buf[t][FrameKey(x, i)] = e

(* What a transaction that has come to its end adds. *)
LEMMA CommitFacts ==
    ASSUME PgInv, NEW t \in Tasks, Commit(t)
    PROVE  /\ \A f \in Files : TermsDone(t, f)
           /\ \A f \in Files, p \in Repos : buf[t][FileKey(f, p)] # None =>
                IsSize(f, buf[t][FileKey(f, p)]) /\ (~NoTerms(db, f) \/ WholeRows(buf[t], f))
           /\ \A x \in Xorbs : FramesDone(t, x)
           /\ \A f, g \in Files, p, q \in Repos :
                buf[t][FileKey(f, p)] # None /\ buf[t][FileKey(g, q)] # None => p = q
<1> USE DEF PgInv
<1>1. task[t].state = "run" /\ task[t].prog = <<>> /\ Types /\ Held
  BY DEF Commit
<1>2. Filing(t) \/ Storing(t) \/ Laying(t) \/ Looking(t)
  BY <1>1 DEF Job
<1>3. CASE Filing(t)
  <2>1. PICK p \in Repos : FilingIn(t, p)
    BY <1>3 DEF Filing
  <2>2. \A f \in Files : FileDone(t, f, p)
    BY <1>1, <2>1, AllDone
  <2>3. \A f \in Files, q \in Repos : buf[t][FileKey(f, q)] # None => q = p
    BY <2>1 DEF FilingIn
  <2>4. \A x \in Xorbs : NoFrames(buf[t], x)
    BY <2>1 DEF FilingIn
  <2>5. \A f \in Files : TermsDone(t, f)
    BY <2>2 DEF FileDone
  <2>6. \A f \in Files, q \in Repos : buf[t][FileKey(f, q)] # None =>
          IsSize(f, buf[t][FileKey(f, q)]) /\ (~NoTerms(db, f) \/ WholeRows(buf[t], f))
    BY <2>2, <2>3 DEF FileDone
  <2> QED
    BY <2>3, <2>4, <2>5, <2>6 DEF FramesDone
<1>4. CASE NoFiles(buf[t]) /\ \A x \in Xorbs : FramesDone(t, x)
  <2>1. \A f \in Files : TermsDone(t, f)
    BY <1>4 DEF NoFiles, TermsDone
  <2>2. \A f \in Files, q \in Repos : buf[t][FileKey(f, q)] = None
    BY <1>4 DEF NoFiles
  <2> QED
    BY <1>4, <2>1, <2>2
<1>5. CASE Storing(t)
  BY <1>4, <1>5 DEF Storing, FramesDone
<1>6. CASE Laying(t)
  <2>1. PICK x \in Xorbs, e \in Encodings, m \in 0..Frames : LayingAt(t, x, e, m)
    BY <1>6 DEF Laying
  <2>2. m \in Nat /\ Frames \in Nat
    BY PgAssumption
  <2>3. m = Frames
    <3>1. Rest(<<>>, RegisterXorbLayout(x, e), m)
      BY <1>1, <2>1 DEF LayingAt
    <3>2. RegisterXorbLayout(x, e) \in Seq(Stmts) /\ Len(RegisterXorbLayout(x, e)) = Frames
      BY LayoutFacts
    <3>3. <<>> \in Seq(Stmts)
      OBVIOUS
    <3> QED
      BY <2>2, <3>1, <3>2, <3>3, RestDone
  <2>4. FramesDone(t, x)
    <3>1. CASE NoFrames(buf[t], x)
      BY <3>1 DEF FramesDone
    <3>2. CASE m > 0 /\ NoFrames(db, x) /\ FrameRows(buf[t], x, e, m)
      <4>1. lock[FrameKey(x, 1)] = t
        BY <1>1, <2>2, <3>2, FrameGuard
      <4>2. \A i \in 1..Frames : buf[t][FrameKey(x, i)] = e
        <5>1. \A i \in 1..Frames : i <= m
          BY <2>2, <2>3
        <5> QED
          BY <3>2, <5>1 DEF FrameRows
      <4> QED
        BY <3>2, <4>1, <4>2 DEF FramesDone
    <3> QED
      BY <2>1, <3>1, <3>2 DEF LayingAt
  <2>5. \A y \in Xorbs : FramesDone(t, y)
    BY <2>1, <2>4 DEF LayingAt, FramesDone
  <2> QED
    BY <1>4, <1>6, <2>5 DEF Laying
<1>7. CASE Looking(t)
  <2>1. \A k \in RowKeys : buf[t][k] = None
    BY <1>7 DEF Looking, Bare
  <2>2. \A f \in Files, p \in Repos : buf[t][FileKey(f, p)] = None
    BY <2>1, KeyTypes
  <2>3. \A f \in Files, i \in 1..MaxTerms : buf[t][TermKey(f, i)] = None
    BY <2>1, KeyTypes
  <2>4. \A x \in Xorbs, i \in 1..Frames : buf[t][FrameKey(x, i)] = None
    BY <2>1, KeyTypes
  <2> QED
    BY <1>4, <2>2, <2>3, <2>4 DEF NoFiles, NoTerms, FramesDone, NoFrames
<1> QED
  BY <1>2, <1>3, <1>5, <1>6, <1>7

(* The rows after a commit. *)
LEMMA CommitRows ==
    ASSUME NEW t \in Tasks, Commit(t)
    PROVE  \A k \in RowKeys :
             /\ buf[t][k] # None => db'[k] = buf[t][k]
             /\ buf[t][k] = None => db'[k] = db[k]
             /\ db[k] # None => db'[k] # None
  BY DEF Commit, Sees

(* A commit leaves a file's terms as they were, or whole. *)
LEMMA CommitTerms ==
    ASSUME NEW t \in Tasks, Commit(t), NEW f \in Files, TermsDone(t, f)
    PROVE  /\ NoTerms(buf[t], f) => \A i \in 1..MaxTerms : db'[TermKey(f, i)] = db[TermKey(f, i)]
           /\ ~NoTerms(buf[t], f) => WholeRows(db', f)
           /\ ~NoTerms(db, f) => ~NoTerms(db', f)
           /\ ~NoTerms(db, f) => \A i \in 1..MaxTerms : db'[TermKey(f, i)] = db[TermKey(f, i)]
           /\ WholeRows(buf[t], f) => ~NoTerms(db', f)
<1>1. \A i \in 1..MaxTerms :
        /\ buf[t][TermKey(f, i)] # None => db'[TermKey(f, i)] = buf[t][TermKey(f, i)]
        /\ buf[t][TermKey(f, i)] = None => db'[TermKey(f, i)] = db[TermKey(f, i)]
        /\ db[TermKey(f, i)] # None => db'[TermKey(f, i)] # None
  BY CommitRows, KeyTypes
<1>2. NoTerms(buf[t], f) => \A i \in 1..MaxTerms : db'[TermKey(f, i)] = db[TermKey(f, i)]
  BY <1>1 DEF NoTerms
<1>3. ~NoTerms(db, f) => ~NoTerms(db', f)
  BY <1>1 DEF NoTerms
<1>4. ASSUME ~NoTerms(buf[t], f) PROVE WholeRows(db', f)
  <2>1. NoTerms(db, f) /\ WholeRows(buf[t], f)
    BY <1>4 DEF TermsDone
  <2>2. \A i \in 1..MaxTerms : db'[TermKey(f, i)] = buf[t][TermKey(f, i)]
    BY <1>1, <2>1 DEF NoTerms
  <2> QED
    BY <2>1, <2>2 DEF WholeRows, ListRows
<1>5. WholeRows(buf[t], f) => ~NoTerms(db', f)
  BY <1>4, FirstRow
<1>6. ~NoTerms(db, f) => NoTerms(buf[t], f)
  BY DEF TermsDone
<1> QED
  BY <1>2, <1>3, <1>4, <1>5, <1>6

LEMMA CommitFrames ==
    ASSUME NEW t \in Tasks, Commit(t), NEW x \in Xorbs, FramesDone(t, x)
    PROVE  /\ NoFrames(buf[t], x) => \A i \in 1..Frames : db'[FrameKey(x, i)] = db[FrameKey(x, i)]
           /\ ~NoFrames(buf[t], x) => \E e \in Encodings : \A i \in 1..Frames : db'[FrameKey(x, i)] = e
           /\ AllFrames(db, x) => AllFrames(db', x)
<1>1. \A i \in 1..Frames :
        /\ buf[t][FrameKey(x, i)] # None => db'[FrameKey(x, i)] = buf[t][FrameKey(x, i)]
        /\ buf[t][FrameKey(x, i)] = None => db'[FrameKey(x, i)] = db[FrameKey(x, i)]
        /\ db[FrameKey(x, i)] # None => db'[FrameKey(x, i)] # None
  BY CommitRows, KeyTypes
<1>2. NoFrames(buf[t], x) => \A i \in 1..Frames : db'[FrameKey(x, i)] = db[FrameKey(x, i)]
  BY <1>1 DEF NoFrames
<1>3. AllFrames(db, x) => AllFrames(db', x)
  BY <1>1 DEF AllFrames
<1>4. ASSUME ~NoFrames(buf[t], x)
      PROVE  \E e \in Encodings : \A i \in 1..Frames : db'[FrameKey(x, i)] = e
  <2>1. PICK e \in Encodings : \A i \in 1..Frames : buf[t][FrameKey(x, i)] = e
    BY <1>4 DEF FramesDone
  <2>2. e # None
    BY PgAssumption
  <2> QED
    BY <1>1, <2>1, <2>2
<1> QED
  BY <1>2, <1>3, <1>4

(* A commit leaves the committed rows in order. *)
LEMMA CommitKeeps ==
    ASSUME PgInv, NEW t \in Tasks, Commit(t)
    PROVE  Types' /\ Held' /\ Committed' /\ Job(t)' /\ \A u \in Tasks \ {t} : Untouched(u)
<1>1. Types /\ Held /\ Committed
  BY DEF PgInv
<1>2. /\ \A f \in Files : TermsDone(t, f)
      /\ \A f \in Files, p \in Repos : buf[t][FileKey(f, p)] # None =>
           IsSize(f, buf[t][FileKey(f, p)]) /\ (~NoTerms(db, f) \/ WholeRows(buf[t], f))
      /\ \A x \in Xorbs : FramesDone(t, x)
  BY CommitFacts
<1>3. /\ Release(t) /\ db' = [k \in RowKeys |-> Sees(t, k)]
      /\ buf' = [buf EXCEPT ![t] = NoRows] /\ task' = [task EXCEPT ![t] = Idle]
  BY DEF Commit
<1>4. /\ buf' \in [Tasks -> [RowKeys -> Values]] /\ task' \in [Tasks -> TaskType]
      /\ lock' \in [LockKeys -> Tasks \cup {None}]
      /\ Held' /\ Job(t)'
      /\ \A u \in Tasks \ {t} :
           /\ buf'[u] = buf[u] /\ task'[u] = task[u]
           /\ \A k \in LockKeys : lock[k] = u <=> lock'[k] = u
  BY <1>1, <1>3, EndDoes
<1>5. Types'
  <2>1. \A k \in RowKeys : Sees(t, k) \in Values
    BY <1>1 DEF Types, Sees
  <2>2. db' \in [RowKeys -> Values]
    BY <1>3, <2>1
  <2> QED
    BY <1>4, <2>2 DEF Types
<1>6. ASSUME NEW f \in Files PROVE NoTerms(db', f) \/ WholeRows(db', f)
  <2>1. CASE NoTerms(buf[t], f)
    <3>1. \A i \in 1..MaxTerms : db'[TermKey(f, i)] = db[TermKey(f, i)]
      BY <1>2, <2>1, CommitTerms
    <3>2. NoTerms(db, f) \/ WholeRows(db, f)
      BY <1>1 DEF Committed
    <3> QED
      BY <3>1, <3>2 DEF NoTerms, WholeRows, ListRows
  <2>2. CASE ~NoTerms(buf[t], f)
    BY <1>2, <2>2, CommitTerms
  <2> QED
    BY <2>1, <2>2
<1>7. ASSUME NEW f \in Files, NEW p \in Repos, db'[FileKey(f, p)] # None
      PROVE  IsSize(f, db'[FileKey(f, p)]) /\ ~NoTerms(db', f)
  <2>1. FileKey(f, p) \in RowKeys
    BY KeyTypes
  <2>2. CASE buf[t][FileKey(f, p)] # None
    <3>1. db'[FileKey(f, p)] = buf[t][FileKey(f, p)]
      BY <2>1, <2>2, CommitRows
    <3>2. IsSize(f, buf[t][FileKey(f, p)]) /\ (~NoTerms(db, f) \/ WholeRows(buf[t], f))
      BY <1>2, <2>2
    <3>3. ~NoTerms(db', f)
      BY <1>2, <3>2, CommitTerms
    <3> QED
      BY <3>1, <3>2, <3>3
  <2>3. CASE buf[t][FileKey(f, p)] = None
    <3>1. db'[FileKey(f, p)] = db[FileKey(f, p)]
      BY <2>1, <2>3, CommitRows
    <3>2. IsSize(f, db[FileKey(f, p)]) /\ ~NoTerms(db, f)
      BY <1>1, <1>7, <3>1 DEF Committed
    <3>3. ~NoTerms(db', f)
      BY <1>2, <3>2, CommitTerms
    <3> QED
      BY <3>1, <3>2, <3>3
  <2> QED
    BY <2>2, <2>3
<1>8. ASSUME NEW x \in Xorbs, NEW i \in 1..Frames, NEW j \in 1..Frames
      PROVE  db'[FrameKey(x, i)] = db'[FrameKey(x, j)]
  <2>1. CASE NoFrames(buf[t], x)
    <3>1. db'[FrameKey(x, i)] = db[FrameKey(x, i)] /\ db'[FrameKey(x, j)] = db[FrameKey(x, j)]
      BY <1>2, <2>1, CommitFrames
    <3> QED
      BY <1>1, <3>1 DEF Committed, LayoutOneEncoding
  <2>2. CASE ~NoFrames(buf[t], x)
    BY <1>2, <2>2, CommitFrames
  <2> QED
    BY <2>1, <2>2
<1>9. Committed'
  <2>1. (\A f \in Files : NoTerms(db, f) \/ WholeRows(db, f))'
    BY <1>6 DEF NoTerms, WholeRows, ListRows
  <2>2. (\A f \in Files, p \in Repos :
           db[FileKey(f, p)] # None => IsSize(f, db[FileKey(f, p)]) /\ ~NoTerms(db, f))'
    BY <1>7 DEF IsSize, NoTerms
  <2>3. LayoutOneEncoding'
    BY <1>8 DEF LayoutOneEncoding
  <2> QED
    BY <2>1, <2>2, <2>3 DEF Committed
<1>10. ASSUME NEW u \in Tasks \ {t} PROVE Untouched(u)
  <2>1. /\ buf'[u] = buf[u] /\ task'[u] = task[u]
        /\ \A k \in LockKeys : lock[k] = u <=> lock'[k] = u
    BY <1>4
  <2>2. \A f \in Files : ~NoTerms(db, f) =>
          ~NoTerms(db', f) /\ \A i \in 1..MaxTerms : db'[TermKey(f, i)] = db[TermKey(f, i)]
    BY <1>2, CommitTerms
  <2>3. ASSUME NEW f \in Files, lock[AdvisoryKey(f)] = u, NoTerms(db, f) PROVE NoTerms(db', f)
    <3>1. NoTerms(buf[t], f)
      BY <1>2, <2>3 DEF TermsDone
    <3>2. \A i \in 1..MaxTerms : db'[TermKey(f, i)] = db[TermKey(f, i)]
      BY <1>2, <3>1, CommitTerms
    <3> QED
      BY <2>3, <3>2 DEF NoTerms
  <2>4. \A x \in Xorbs : AllFrames(db, x) => AllFrames(db', x)
    BY <1>2, CommitFrames
  <2>5. ASSUME NEW x \in Xorbs, lock[FrameKey(x, 1)] = u, NoFrames(db, x) PROVE NoFrames(db', x)
    <3>1. NoFrames(buf[t], x)
      BY <1>2, <2>5 DEF FramesDone
    <3>2. \A i \in 1..Frames : db'[FrameKey(x, i)] = db[FrameKey(x, i)]
      BY <1>2, <3>1, CommitFrames
    <3> QED
      BY <2>5, <3>2 DEF NoFrames
  <2> QED
    BY <2>1, <2>2, <2>3, <2>4, <2>5 DEF Untouched
<1> QED
  BY <1>4, <1>5, <1>9, <1>10

-----------------------------------------------------------------------------
(* The invariant. *)

(* A statement of a transaction keeps its job. *)
LEMMA OwnJob ==
    ASSUME PgInv, NEW t \in Tasks,
           NextPart(t) \/ Upsert(t) \/ AdvisoryLock(t) \/ ProbeTerms(t) \/ InsertIgnore(t)
             \/ ReadTerms(t) \/ ReadTotal(t)
    PROVE  Job(t)'
<1>1. Types /\ Held /\ Committed /\ Job(t)
  BY DEF PgInv
<1>2. task[t].state = "run"
  BY DEF NextPart, Upsert, AdvisoryLock, ProbeTerms, InsertIgnore, ReadTerms, ReadTotal, Is, Running
<1>3. Filing(t) \/ Storing(t) \/ Laying(t) \/ Looking(t)
  BY <1>1, <1>2 DEF Job
<1>4. Storing(t) \/ Laying(t) \/ Looking(t) => task[t].left = <<>>
  BY DEF Storing, Laying, Looking
<1>5. CASE NextPart(t)
  <2>1. Filing(t) /\ task'[t].state = "run"
    BY <1>1, <1>2, <1>3, <1>4, <1>5 DEF NextPart, Types, TaskType
  <2>2. PICK p \in Repos : FilingIn(t, p)
    BY <2>1 DEF Filing
  <2>3. FilingIn(t, p)'
    BY <1>1, <1>5, <2>2, FilingNext
  <2> QED
    BY <2>1, <2>3 DEF Filing, Job
<1>6. ASSUME Is(t, "upsert") \/ Is(t, "lock") \/ Is(t, "probe")
      PROVE  Filing(t)
  <2>1. task[t].prog # <<>> /\ Now(t).op \notin {"insert", "readTerms", "readTotal"}
    BY <1>6 DEF Is, Running
  <2> QED
    BY <1>1, <1>3, <2>1, StoringNow, LayingNow, LookingNow
<1>7. CASE Upsert(t)
  <2>1. PICK p \in Repos : FilingIn(t, p)
    BY <1>6, <1>7 DEF Filing, Upsert
  <2>2. FilingIn(t, p)'
    BY <1>1, <1>7, <2>1, FilingUpsert
  <2>3. task'[t].state = "run"
    BY <1>1, <1>2, <1>7, AdvanceMoves DEF Upsert, Moves
  <2> QED
    BY <2>2, <2>3 DEF Filing, Job
<1>8. CASE AdvisoryLock(t)
  <2>1. PICK p \in Repos : FilingIn(t, p)
    BY <1>6, <1>8 DEF Filing, AdvisoryLock
  <2>2. FilingIn(t, p)'
    BY <1>1, <1>8, <2>1, FilingLock
  <2>3. task'[t].state = "run"
    BY <1>1, <1>2, <1>8, AdvanceMoves DEF AdvisoryLock, Moves
  <2> QED
    BY <2>2, <2>3 DEF Filing, Job
<1>9. CASE ProbeTerms(t)
  <2>1. PICK p \in Repos : FilingIn(t, p)
    BY <1>6, <1>9 DEF Filing, ProbeTerms
  <2>2. FilingIn(t, p)'
    BY <1>1, <1>9, <2>1, FilingProbe
  <2>3. task'[t].state = "run"
    BY <1>1, <1>2, <1>9, AdvanceMoves DEF ProbeTerms, Moves
  <2> QED
    BY <2>2, <2>3 DEF Filing, Job
<1>10. CASE InsertIgnore(t)
  <2>1. task[t].prog # <<>> /\ Now(t).op = "insert"
    BY <1>10 DEF InsertIgnore, Is, Running
  <2>2. ~Looking(t)
    BY <1>1, <2>1, LookingNow
  <2>3. Filing(t) => Filing(t)'
    BY <1>1, <1>10, FilingInsert DEF Filing
  <2>4. Storing(t) => Storing(t)'
    BY <1>1, <1>10, <2>1, StoringNow
  <2>5. Laying(t) => Laying(t)'
    BY <1>1, <1>10, <2>1, LayingNow
  <2>6. task'[t].state = "run"
    BY <1>1, <1>2, <1>10, AdvanceMoves DEF InsertIgnore, Moves
  <2> QED
    BY <1>3, <2>2, <2>3, <2>4, <2>5, <2>6 DEF Job
<1>11. ASSUME Is(t, "readTerms") \/ Is(t, "readTotal")
       PROVE  Looking(t)
  <2>1. task[t].prog # <<>> /\ Now(t).op \notin {"upsert", "lock", "probe", "insert"}
    BY <1>11 DEF Is, Running
  <2> QED
    BY <1>1, <1>3, <2>1, StoringNow, LayingNow, FilingNow
<1>12. CASE ReadTerms(t)
  <2>1. Looking(t)
    BY <1>11, <1>12 DEF ReadTerms
  <2> QED
    BY <1>1, <1>2, <1>12, <2>1, LookingTerms
<1>13. CASE ReadTotal(t)
  <2>1. Looking(t)
    BY <1>11, <1>13 DEF ReadTotal
  <2> QED
    BY <1>1, <1>13, <2>1, LookingTotal
<1> QED
  BY <1>5, <1>7, <1>8, <1>9, <1>10, <1>12, <1>13

(* The committed rows change by commits alone. *)
LEMMA CommittedKept ==
    ASSUME Committed, db' = db
    PROVE  Committed'
  BY DEF Committed, NoTerms, WholeRows, ListRows, IsSize, LayoutOneEncoding

LEMMA InvFromParts ==
    ASSUME PgInv, NEW t \in Tasks, Types', Held', Committed', Job(t)',
           \A u \in Tasks \ {t} : Untouched(u)
    PROVE  PgInv'
<1>1. ASSUME NEW u \in Tasks PROVE Job(u)'
  <2>1. CASE u = t
    BY <2>1
  <2>2. CASE u # t
    <3>1. Untouched(u) /\ Held /\ Job(u)
      BY <2>2 DEF PgInv
    <3> QED
      BY <3>1, OtherJob
  <2> QED
    BY <2>1, <2>2
<1> QED
  BY <1>1 DEF PgInv

LEMMA InvInit == Init => PgInv
<1> SUFFICES ASSUME Init PROVE PgInv
  OBVIOUS
<1>1. /\ \A k \in RowKeys : db[k] = None
      /\ \A t \in Tasks, k \in RowKeys : buf[t][k] = None
      /\ \A t \in Tasks : task[t] = Idle
  BY DEF Init, NoRows
<1>2. Types
  <2>1. NoRows \in [RowKeys -> Values]
    BY DEF NoRows, Values
  <2> QED
    BY <2>1, IdleType DEF Init, Types
<1>3. Held
  BY <1>1 DEF Held
<1>4. \A t \in Tasks : task[t].state = "idle" /\ task[t].prog = <<>>
  BY <1>1 DEF Idle
<1>5. \A t \in Tasks, k \in LockKeys : lock[k] # t
  BY PgAssumption DEF Init
<1>6. \A t \in Tasks : Job(t)
  BY <1>1, <1>4, <1>5 DEF Job, Bare
<1>7. \A f \in Files, i \in 1..MaxTerms : db[TermKey(f, i)] = None
  BY <1>1, KeyTypes
<1>8. \A f \in Files, p \in Repos : db[FileKey(f, p)] = None
  BY <1>1, KeyTypes
<1>9. \A x \in Xorbs, i \in 1..Frames : db[FrameKey(x, i)] = None
  BY <1>1, KeyTypes
<1>10. Committed
  BY <1>7, <1>8, <1>9 DEF Committed, NoTerms, LayoutOneEncoding
<1> QED
  BY <1>2, <1>3, <1>6, <1>10 DEF PgInv

LEMMA InvNext == PgInv /\ [Next]_vars => PgInv'
<1> SUFFICES ASSUME PgInv, [Next]_vars PROVE PgInv'
  OBVIOUS
<1>1. Types /\ Held /\ Committed /\ \A t \in Tasks : Job(t)
  BY DEF PgInv
<1>2. CASE UNCHANGED vars
  <2>1. db' = db /\ buf' = buf /\ lock' = lock /\ task' = task
    BY <1>2 DEF vars
  <2>2. Types' /\ Held'
    BY <1>1, <2>1 DEF Types, Held
  <2>3. Committed'
    BY <1>1, <2>1, CommittedKept
  <2>4. \A u \in Tasks : Untouched(u)
    BY <2>1, Quiet
  <2>5. \A u \in Tasks : Job(u)'
    BY <1>1, <2>4, OtherJob
  <2> QED
    BY <2>2, <2>3, <2>5 DEF PgInv
<1>3. ASSUME NEW t \in Tasks,
             NextPart(t) \/ Upsert(t) \/ AdvisoryLock(t) \/ ProbeTerms(t) \/ InsertIgnore(t)
               \/ ReadTerms(t) \/ ReadTotal(t)
      PROVE  PgInv'
  <2>1. Job(t)'
    BY <1>3, OwnJob
  <2>2. db' = db
    BY <1>3 DEF NextPart, Upsert, AdvisoryLock, ProbeTerms, InsertIgnore, ReadTerms, ReadTotal
  <2>3. Committed'
    BY <1>1, <2>2, CommittedKept
  <2>4. Types' /\ Held' /\ \A u \in Tasks \ {t} : Untouched(u)
    BY <1>1, <1>3, NextPartKeeps, UpsertKeeps, LockKeeps, ProbeKeeps, InsertKeeps,
       ReadTermsKeeps, ReadTotalKeeps
  <2> QED
    BY <2>1, <2>3, <2>4, InvFromParts
<1>4. ASSUME NEW t \in Tasks, Commit(t) PROVE PgInv'
  BY <1>4, CommitKeeps, InvFromParts
<1>5. ASSUME NEW t \in Tasks, Rollback(t) PROVE PgInv'
  <2>1. Types' /\ Held' /\ Job(t)' /\ \A u \in Tasks \ {t} : Untouched(u)
    BY <1>1, <1>5, RollbackKeeps
  <2>2. Committed'
    BY <1>1, <1>5, CommittedKept DEF Rollback
  <2> QED
    BY <2>1, <2>2, InvFromParts
<1>6. ASSUME NEW t \in Tasks, NEW c \in Calls, Begin(t, c) PROVE PgInv'
  <2>1. Types' /\ Held' /\ \A u \in Tasks \ {t} : Untouched(u)
    BY <1>1, <1>6, BeginKeeps
  <2>2. Job(t)'
    BY <1>1, <1>6, BeginJob
  <2>3. Committed'
    BY <1>1, <1>6, CommittedKept DEF Begin
  <2> QED
    BY <2>1, <2>2, <2>3, InvFromParts
<1>7. CASE Next
  <2>1. PICK t \in Tasks : Step(t) \/ Fail(t) \/ DeadlockAbort(t) \/ \E c \in Calls : Begin(t, c)
    BY <1>7 DEF Next
  <2>2. CASE Step(t)
    BY <1>3, <1>4, <2>2 DEF Step
  <2>3. CASE Fail(t) \/ DeadlockAbort(t)
    BY <1>5, <2>3 DEF Fail, DeadlockAbort
  <2>4. CASE \E c \in Calls : Begin(t, c)
    BY <1>6, <2>4
  <2> QED
    BY <2>1, <2>2, <2>3, <2>4
<1> QED
  BY <1>2, <1>7

(* The committed terms of a file are none or one whole list of it, however *)
(* the registrations that cut it differently interleave, fail and wait.    *)
THEOREM TermsOneCut == Spec => []TermsWhole
<1>1. PgInv => TermsWhole
  <2> SUFFICES ASSUME PgInv, NEW f \in Files,
                      {i \in 1..MaxTerms : db[TermKey(f, i)] # None} # {}
               PROVE  TermsOf(f) \in Segs[f]
    BY DEF TermsWhole
  <2>1. WholeRows(db, f)
    BY NoTermsOf DEF PgInv, Committed
  <2> QED
    BY <2>1, WholeTerms
<1> QED
  BY <1>1, InvInit, InvNext, PTL DEF Spec

(* lookup_file compares with the terms it counted, though others commit in *)
(* between, and refuses only a file that the clients gave different sizes. *)
THEOREM LookupsAgree == Spec => []LookupAsOneRead
<1>1. PgInv => LookupAsOneRead
  <2> SUFFICES ASSUME PgInv, NEW t \in Tasks, task[t].prog # <<>>, Now(t).op = "readTotal"
               PROVE  /\ task[t].seen = Bytes(TermsOf(Now(t).val))
                      /\ task[t].state = "refused" => ~Agreed(Now(t).val)
    BY DEF LookupAsOneRead
  <2>1. Types /\ Job(t) /\ task[t].state \in {"idle", "run", "refused"}
    BY DEF PgInv, Types, TaskType
  <2>2. PICK f \in Files, m \in 0..1 :
          LookingAt(t, f, m) /\ (task[t].state = "refused" => m = 1 /\ ~Agreed(f))
    <3>1. CASE task[t].state = "run"
      <4>1. Filing(t) \/ Storing(t) \/ Laying(t) \/ Looking(t)
        BY <2>1, <3>1 DEF Job
      <4>2. Looking(t)
        <5>1. Now(t).op \notin {"upsert", "lock", "probe", "insert"}
          OBVIOUS
        <5> QED
          BY <2>1, <4>1, <5>1, StoringNow, LayingNow, FilingNow DEF PgInv
      <4> QED
        BY <3>1, <4>2 DEF Looking
    <3>2. CASE task[t].state = "refused"
      BY <2>1, <3>2 DEF Job
    <3> QED
      BY <2>1, <3>1, <3>2 DEF Job
  <2>3. PICK w : w = LookupFile(f)
    OBVIOUS
  <2>4. /\ w \in Seq(Stmts) /\ w[1] = Stmt("readTerms", TermKey(f, 1), f)
        /\ w[2] = Stmt("readTotal", TermKey(f, 1), f)
    BY <2>3, LookupFacts
  <2>5. m \in Nat
    OBVIOUS
  <2>6. Now(t) = w[m + 1]
    BY <2>1, <2>2, <2>3, <2>4, <2>5, PartPlace DEF LookingAt
  <2>7. m = 1
    <3>1. CASE m = 0
      BY <2>4, <2>6, <3>1, StmtFields
    <3> QED
      BY <3>1
  <2>8. Now(t).val = f
    BY <2>4, <2>6, <2>7, StmtFields
  <2>9. task[t].seen = Bytes(TermsOf(f))
    BY <2>2, <2>7, CountedTerms DEF LookingAt
  <2> QED
    BY <2>2, <2>8, <2>9
<1> QED
  BY <1>1, InvInit, InvNext, PTL DEF Spec

(* The committed frames of a xorb are all of one upload's encoding. *)
THEOREM LayoutsOneEncoding == Spec => []LayoutOneEncoding
<1>1. PgInv => LayoutOneEncoding
  BY DEF PgInv, Committed
<1> QED
  BY <1>1, InvInit, InvNext, PTL DEF Spec

(* A lock is held by an open transaction, and an uncommitted row is locked *)
(* by the transaction that wrote it: no failure or abort leaves one behind. *)
THEOREM LocksHeld == Spec => []TypeOK
<1>1. PgInv => TypeOK
  <2> SUFFICES ASSUME PgInv PROVE TypeOK
    OBVIOUS
  <2>1. Types /\ Held /\ \A t \in Tasks : Job(t)
    BY DEF PgInv
  <2>2. DOMAIN db = RowKeys /\ DOMAIN lock = LockKeys
    BY <2>1 DEF Types
  <2>3. \A t \in Tasks : task[t].state \in {"idle", "run", "refused"}
    BY <2>1 DEF Types, TaskType
  <2>4. \A t \in Tasks : \A k \in RowKeys : buf[t][k] # None => lock[k] = t
    BY <2>1 DEF Held
  <2>5. ASSUME NEW k \in LockKeys, lock[k] # None
        PROVE  lock[k] \in {t \in Tasks : task[t].state = "run"}
    <3>1. PICK t \in Tasks : lock[k] = t
      BY <2>1, <2>5 DEF Types
    <3>2. ~Bare(t)
      BY <3>1 DEF Bare
    <3>3. task[t].state # "idle" /\ task[t].state # "refused"
      BY <2>1, <3>2 DEF Job
    <3> QED
      BY <2>3, <3>1, <3>3
  <2> QED
    BY <2>2, <2>3, <2>4, <2>5 DEF TypeOK
<1> QED
  BY <1>1, InvInit, InvNext, PTL DEF Spec

-----------------------------------------------------------------------------
(* The registry.  Under the invariant a file that is registered has its    *)
(* terms and, if its size is agreed, rows of that size, so a commit makes  *)
(* all such files of its shard readable at once.                           *)

LEMMA AllReadable ==
    ASSUME PgInv
    PROVE  ReadableFiles = RegisteredFiles
<1>1. ASSUME NEW e \in RegisteredFiles
      PROVE  /\ TermsOf(e[1]) \in Segs[e[1]]
             /\ \A q \in Repos : db[FileKey(e[1], q)] \in {None, Bytes(TermsOf(e[1]))}
  <2>1. PICK f \in Files, p \in Repos : e = <<f, p>>
    BY DEF RegisteredFiles
  <2>2. db[FileKey(f, p)] # None /\ Agreed(f)
    BY <2>1 DEF RegisteredFiles
  <2>3. ~NoTerms(db, f)
    BY <2>2 DEF PgInv, Committed
  <2>4. WholeRows(db, f)
    BY <2>3 DEF PgInv, Committed
  <2>5. TermsOf(f) \in Segs[f]
    BY <2>4, WholeTerms
  <2>6. ASSUME NEW q \in Repos, db[FileKey(f, q)] # None PROVE db[FileKey(f, q)] = Bytes(TermsOf(f))
    <3>1. IsSize(f, db[FileKey(f, q)])
      BY <2>6 DEF PgInv, Committed
    <3>2. IsSize(f, Bytes(TermsOf(f)))
      BY <2>5 DEF IsSize
    <3> QED
      BY <2>2, <3>1, <3>2, OneSize
  <2> QED
    BY <2>1, <2>5, <2>6
<1> QED
  BY <1>1 DEF ReadableFiles

(* Rows of files appear by commits alone, those of one repository at once. *)
LEMMA RegisteredStep ==
    ASSUME PgInv, [Next]_vars
    PROVE  \/ RegisteredFiles' = RegisteredFiles
           \/ \E p \in Repos, files \in SUBSET Files :
                RegisteredFiles' = RegisteredFiles \cup (files \X {p})
<1>1. CASE db' = db
  BY <1>1 DEF RegisteredFiles, Agreed
<1>2. ASSUME NEW t \in Tasks, Commit(t)
      PROVE  \/ RegisteredFiles' = RegisteredFiles
             \/ \E p \in Repos, files \in SUBSET Files :
                  RegisteredFiles' = RegisteredFiles \cup (files \X {p})
  <2>1. \A f, g \in Files, p, q \in Repos :
          buf[t][FileKey(f, p)] # None /\ buf[t][FileKey(g, q)] # None => p = q
    BY <1>2, CommitFacts
  <2>2. \A f \in Files, p \in Repos :
          db'[FileKey(f, p)] # None <=> db[FileKey(f, p)] # None \/ buf[t][FileKey(f, p)] # None
    BY <1>2, CommitRows, KeyTypes
  <2>3. \A e : e \in Files \X Repos <=> \E f \in Files, p \in Repos : e = <<f, p>>
    OBVIOUS
  <2>4. \A f \in Files, p \in Repos : <<f, p>> \in RegisteredFiles <=> Agreed(f) /\ db[FileKey(f, p)] # None
    BY DEF RegisteredFiles
  <2>5. \A f \in Files, p \in Repos : <<f, p>> \in RegisteredFiles' <=> Agreed(f) /\ db'[FileKey(f, p)] # None
    BY DEF RegisteredFiles, Agreed
  <2>6. RegisteredFiles \subseteq Files \X Repos /\ RegisteredFiles' \subseteq Files \X Repos
    BY DEF RegisteredFiles
  <2>7. CASE \A f \in Files, p \in Repos : buf[t][FileKey(f, p)] = None
    <3>1. \A f \in Files, p \in Repos : <<f, p>> \in RegisteredFiles' <=> <<f, p>> \in RegisteredFiles
      BY <2>2, <2>4, <2>5, <2>7
    <3>2. \A e \in Files \X Repos : e \in RegisteredFiles' <=> e \in RegisteredFiles
      BY <2>3, <3>1
    <3> QED
      BY <2>6, <3>2
  <2>8. ASSUME NEW g \in Files, NEW p \in Repos, buf[t][FileKey(g, p)] # None
        PROVE  \E files \in SUBSET Files : RegisteredFiles' = RegisteredFiles \cup (files \X {p})
    <3>1. PICK files \in SUBSET Files : files = {f \in Files : Agreed(f) /\ buf[t][FileKey(f, p)] # None}
      OBVIOUS
    <3>2. PICK new : new = RegisteredFiles \cup (files \X {p})
      OBVIOUS
    <3>3. \A f \in Files, q \in Repos : <<f, q>> \in files \X {p} <=> Agreed(f) /\ buf[t][FileKey(f, q)] # None
      BY <2>1, <2>8, <3>1
    <3>4. \A f \in Files, q \in Repos : <<f, q>> \in RegisteredFiles' <=> <<f, q>> \in new
      <4> SUFFICES ASSUME NEW f \in Files, NEW q \in Repos
                   PROVE  <<f, q>> \in RegisteredFiles' <=> <<f, q>> \in new
        OBVIOUS
      <4>1. <<f, q>> \in new <=> <<f, q>> \in RegisteredFiles \/ <<f, q>> \in files \X {p}
        BY <3>2, Zenon
      <4>2. <<f, q>> \in new <=> Agreed(f) /\ (db[FileKey(f, q)] # None \/ buf[t][FileKey(f, q)] # None)
        BY <2>4, <3>3, <4>1, Zenon
      <4> QED
        BY <2>2, <2>5, <4>2, Zenon
    <3>5. new \subseteq Files \X Repos
      BY <2>6, <3>2
    <3>6. \A e \in Files \X Repos : e \in RegisteredFiles' <=> e \in new
      BY <2>3, <3>4
    <3>7. RegisteredFiles' = new
      BY <2>6, <3>5, <3>6
    <3> QED
      BY <3>2, <3>7
  <2> QED
    BY <2>7, <2>8
<1>3. CASE UNCHANGED vars
  BY <1>1, <1>3 DEF vars
<1>4. CASE Next
  <2>1. PICK t \in Tasks : Step(t) \/ Fail(t) \/ DeadlockAbort(t) \/ \E c \in Calls : Begin(t, c)
    BY <1>4 DEF Next
  <2>2. CASE Commit(t)
    BY <1>2, <2>2
  <2>3. CASE \/ NextPart(t) \/ Upsert(t) \/ AdvisoryLock(t) \/ ProbeTerms(t) \/ InsertIgnore(t)
             \/ ReadTerms(t) \/ ReadTotal(t)
    <3>1. db' = db
      BY <2>3 DEF NextPart, Upsert, AdvisoryLock, ProbeTerms, InsertIgnore, ReadTerms, ReadTotal
    <3> QED
      BY <1>1, <3>1
  <2>4. CASE Fail(t) \/ DeadlockAbort(t) \/ \E c \in Calls : Begin(t, c)
    <3>1. db' = db
      BY <2>4 DEF Fail, DeadlockAbort, Rollback, Begin
    <3> QED
      BY <1>1, <3>1
  <2> QED
    BY <2>1, <2>2, <2>3, <2>4 DEF Step
<1> QED
  BY <1>3, <1>4

(* For files of an agreed size the store implements the registry that the  *)
(* clients rely on: a shard's files become readable together, at its       *)
(* commit, and stay readable; failed and aborted transactions change       *)
(* nothing.                                                                *)
THEOREM RegistryRefined == Spec => ImplementsRegistry
<1>1. Init => Registry!Init
  <2> SUFFICES ASSUME Init PROVE Registry!Init
    OBVIOUS
  <2>1. RegisteredFiles = {}
    <3>1. \A f \in Files, p \in Repos : db[FileKey(f, p)] = None
      BY KeyTypes DEF Init, NoRows
    <3> QED
      BY <3>1 DEF RegisteredFiles
  <2>2. ReadableFiles = RegisteredFiles
    BY InvInit, AllReadable
  <2> QED
    BY <2>1, <2>2 DEF Registry!Init
<1>2. PgInv /\ PgInv' /\ [Next]_vars => [Registry!Next]_<<RegisteredFiles, ReadableFiles>>
  <2> SUFFICES ASSUME PgInv, PgInv', [Next]_vars
               PROVE  [Registry!Next]_<<RegisteredFiles, ReadableFiles>>
    OBVIOUS
  <2>1. ReadableFiles = RegisteredFiles
    BY AllReadable
  <2>2. (PgInv => ReadableFiles = RegisteredFiles)'
    BY AllReadable, PTL
  <2>3. ReadableFiles' = RegisteredFiles'
    BY <2>2
  <2>4. CASE RegisteredFiles' = RegisteredFiles
    BY <2>1, <2>3, <2>4
  <2>5. CASE \E p \in Repos, files \in SUBSET Files :
               RegisteredFiles' = RegisteredFiles \cup (files \X {p})
    BY <2>1, <2>3, <2>5 DEF Registry!Next, Registry!Register
  <2> QED
    BY <2>4, <2>5, RegisteredStep
<1> QED
  BY <1>1, <1>2, InvInit, InvNext, PTL DEF Spec, ImplementsRegistry, Registry!Spec
-----------------------------------------------------------------------------
(* Accounting.  The row of a xorb, committed or not, has the xorb's size:  *)
(* of the four programs only register_xorb writes such rows.               *)
Charged(rows) == \A x \in Xorbs : rows[XorbKey(x)] \in {None, SizeOf[x]}
AccountInv == PgInv /\ Charged(db) /\ \A t \in Tasks : Charged(buf[t])

(* A statement that writes the row of a xorb writes its size. *)
LEMMA ChargedNow ==
    ASSUME PgInv, NEW t \in Tasks, Running(t), Now(t).op \in {"upsert", "insert"},
           NEW x \in Xorbs, Now(t).key = XorbKey(x)
    PROVE  Now(t).val = SizeOf[x]
<1>1. Types /\ Committed /\ task[t].state = "run" /\ task[t].prog # <<>>
  BY DEF PgInv, Running
<1>2. Filing(t) \/ Storing(t) \/ Laying(t) \/ Looking(t)
  BY <1>1 DEF PgInv, Job
<1>3. MaxTerms \in Nat /\ Frames \in Nat
  BY PgAssumption
<1>4. CASE Filing(t)
  <2>1. PICK p \in Repos : FilingIn(t, p)
    BY <1>4 DEF Filing
  <2>2. PICK f \in Files : \E l \in Segs[f], m \in 0..(MaxTerms + 2) : Place(t, f, p, l, m)
    BY <1>1, <2>1, FilingPlace
  <2>3. PICK l \in Segs[f], m \in 0..(MaxTerms + 2) : Place(t, f, p, l, m)
    BY <2>2
  <2>4. m \in Nat /\ m < Len(l) + 3 /\ Now(t) = WriteFile(f, p, l)[m + 1]
    BY <1>3, <2>3 DEF Place
  <2>5. CASE Now(t).op = "upsert"
    <3>a. m = 0
      BY <2>4, <2>5, WriteNow
    <3>1. m + 1 = 1
      BY <3>a
    <3>2. Now(t) = Stmt("upsert", FileKey(f, p), Bytes(l))
      BY <2>4, <3>1, WriteFacts
    <3> QED
      BY <3>2, StmtFields, KeysDiffer
  <2>6. CASE Now(t).op = "insert"
    <3>1. Now(t) = Stmt("insert", TermKey(f, m - 2), l[m - 2])
      BY <2>4, <2>6, WriteNow
    <3> QED
      BY <3>1, StmtFields, KeysDiffer
  <2> QED
    BY <2>5, <2>6
<1>5. CASE Storing(t)
  <2>1. PICK y \in Xorbs, m \in 0..(Frames + 1) : Rest(task[t].prog, RegisterXorb(y), m)
    BY <1>5 DEF Storing
  <2>2. m \in Nat /\ RegisterXorb(y) \in Seq(Stmts) /\ Len(RegisterXorb(y)) = Frames + 1
    BY <1>3, XorbFacts
  <2>3. Now(t) = RegisterXorb(y)[m + 1] /\ m + 1 <= Frames + 1
    BY <1>1, <2>1, <2>2, PartPlace
  <2>4. m + 1 \in 1..(Frames + 1)
    BY <1>3, <2>2, <2>3
  <2>5. /\ Now(t).val = SizeOf[y]
        /\ Now(t).key = XorbKey(y) \/ \E j \in 1..Frames : Now(t).key = ChunkKey(y, j)
    BY <2>3, <2>4, XorbFacts
  <2>6. x = y
    BY <2>5 DEF XorbKey, ChunkKey
  <2> QED
    BY <2>5, <2>6
<1>6. CASE Laying(t)
  <2>1. PICK y \in Xorbs, e \in Encodings, m \in 0..Frames : LayingAt(t, y, e, m)
    BY <1>6 DEF Laying
  <2>2. m \in Nat /\ Rest(task[t].prog, RegisterXorbLayout(y, e), m)
    BY <1>3, <2>1 DEF LayingAt
  <2>3. RegisterXorbLayout(y, e) \in Seq(Stmts) /\ Len(RegisterXorbLayout(y, e)) = Frames
    BY LayoutFacts
  <2>4. Now(t) = RegisterXorbLayout(y, e)[m + 1] /\ m + 1 <= Frames
    BY <1>1, <2>2, <2>3, PartPlace
  <2>5. m + 1 \in 1..Frames
    BY <1>3, <2>2, <2>4
  <2>6. Now(t).key = FrameKey(y, m + 1)
    BY <2>4, <2>5, LayoutFacts, StmtFields
  <2>7. FrameKey(y, m + 1) # XorbKey(x)
    BY KeysDiffer
  <2> QED
    BY <2>6, <2>7
<1>7. CASE Looking(t)
  <2>1. Now(t).op \in {"readTerms", "readTotal"}
    BY <1>1, <1>7, LookingNow
  <2> QED
    BY <2>1
<1> QED
  BY <1>2, <1>4, <1>5, <1>6, <1>7

(* A statement that writes keeps the rows of the transactions so. *)
LEMMA ChargedWrite ==
    ASSUME PgInv, NEW t \in Tasks, \A u \in Tasks : Charged(buf[u]),
           Running(t), Now(t).op \in {"upsert", "insert"},
           buf' = [buf EXCEPT ![t][Now(t).key] = Now(t).val]
    PROVE  \A u \in Tasks : Charged(buf'[u])
<1>1. Types /\ Now(t).key \in RowKeys
  BY NowType DEF PgInv, Running, Stmts
<1>2. /\ buf'[t][Now(t).key] = Now(t).val
      /\ \A j \in RowKeys : j # Now(t).key => buf'[t][j] = buf[t][j]
      /\ \A u \in Tasks \ {t} : buf'[u] = buf[u]
  BY <1>1, RowWritten
<1>3. Charged(buf'[t])
  <2> SUFFICES ASSUME NEW x \in Xorbs PROVE buf'[t][XorbKey(x)] \in {None, SizeOf[x]}
    BY DEF Charged
  <2>1. CASE Now(t).key = XorbKey(x)
    BY <1>2, <2>1, ChargedNow
  <2>2. CASE Now(t).key # XorbKey(x)
    BY <1>2, <2>2, KeyTypes DEF Charged
  <2> QED
    BY <2>1, <2>2
<1> QED
  BY <1>2, <1>3

(* So does the end of a transaction. *)
LEMMA ChargedEnd ==
    ASSUME Types, NEW t \in Tasks, \A u \in Tasks : Charged(buf[u]),
           buf' = [buf EXCEPT ![t] = NoRows]
    PROVE  \A u \in Tasks : Charged(buf'[u])
<1>1. Charged(NoRows)
  BY KeyTypes DEF Charged, NoRows
<1> QED
  BY <1>1 DEF Types

(* No rows at first. *)
LEMMA AccountInit == Init => AccountInv
<1> SUFFICES ASSUME Init PROVE AccountInv
  OBVIOUS
<1>1. Charged(NoRows)
  BY KeyTypes DEF Charged, NoRows
<1> QED
  BY <1>1, InvInit DEF Init, AccountInv

(* Every step keeps the sizes: a commit only moves rows that have them. *)
LEMMA AccountNext == AccountInv /\ [Next]_vars => AccountInv'
<1> SUFFICES ASSUME AccountInv, [Next]_vars PROVE AccountInv'
  OBVIOUS
<1>1. PgInv /\ Types /\ Charged(db) /\ (\A u \in Tasks : Charged(buf[u])) /\ PgInv'
  BY InvNext DEF AccountInv, PgInv
<1> SUFFICES Charged(db') /\ \A u \in Tasks : Charged(buf'[u])
  BY <1>1 DEF AccountInv, Charged
<1>2. ASSUME db' = db, buf' = buf PROVE Charged(db') /\ \A u \in Tasks : Charged(buf'[u])
  BY <1>1, <1>2
<1>3. CASE UNCHANGED vars
  BY <1>2, <1>3 DEF vars
<1>4. ASSUME NEW t \in Tasks, Upsert(t) \/ InsertIgnore(t)
      PROVE  Charged(db') /\ \A u \in Tasks : Charged(buf'[u])
  <2>1. db' = db /\ Running(t) /\ Now(t).op \in {"upsert", "insert"}
    BY <1>4 DEF Upsert, InsertIgnore, Is
  <2>2. buf' = buf \/ buf' = [buf EXCEPT ![t][Now(t).key] = Now(t).val]
    BY <1>4 DEF Upsert, InsertIgnore
  <2> QED
    BY <1>1, <1>2, <2>1, <2>2, ChargedWrite
<1>5. ASSUME NEW t \in Tasks, NextPart(t) \/ AdvisoryLock(t) \/ ProbeTerms(t) \/ ReadTerms(t) \/ ReadTotal(t)
      PROVE  Charged(db') /\ \A u \in Tasks : Charged(buf'[u])
  <2>1. db' = db /\ buf' = buf
    BY <1>5 DEF NextPart, AdvisoryLock, ProbeTerms, ReadTerms, ReadTotal
  <2> QED
    BY <1>2, <2>1
<1>6. ASSUME NEW t \in Tasks, Commit(t)
      PROVE  Charged(db') /\ \A u \in Tasks : Charged(buf'[u])
  <2>1. ASSUME NEW x \in Xorbs PROVE db'[XorbKey(x)] \in {None, SizeOf[x]}
    <3>1. db'[XorbKey(x)] = buf[t][XorbKey(x)] \/ db'[XorbKey(x)] = db[XorbKey(x)]
      BY <1>6, CommitRows, KeyTypes
    <3> QED
      BY <1>1, <3>1 DEF Charged
  <2>2. buf' = [buf EXCEPT ![t] = NoRows]
    BY <1>6 DEF Commit
  <2> QED
    BY <1>1, <2>1, <2>2, ChargedEnd DEF Charged
<1>7. ASSUME NEW t \in Tasks, Rollback(t)
      PROVE  Charged(db') /\ \A u \in Tasks : Charged(buf'[u])
  BY <1>1, <1>7, ChargedEnd DEF Rollback
<1>8. ASSUME NEW t \in Tasks, NEW c \in Calls, Begin(t, c)
      PROVE  Charged(db') /\ \A u \in Tasks : Charged(buf'[u])
  BY <1>2, <1>8 DEF Begin
<1>9. CASE Next
  <2>1. PICK t \in Tasks : Step(t) \/ Fail(t) \/ DeadlockAbort(t) \/ \E c \in Calls : Begin(t, c)
    BY <1>9 DEF Next
  <2>2. CASE Step(t)
    BY <1>4, <1>5, <1>6, <2>2 DEF Step
  <2>3. CASE Fail(t) \/ DeadlockAbort(t)
    BY <1>7, <2>3 DEF Fail, DeadlockAbort
  <2>4. CASE \E c \in Calls : Begin(t, c)
    BY <1>8, <2>4
  <2> QED
    BY <2>1, <2>2, <2>3, <2>4
<1> QED
  BY <1>3, <1>9

(* The bytes of a set of xorbs, less those of a part of it. *)
LEMMA RowBytesLess ==
    ASSUME Charged(db), NEW A \in SUBSET Xorbs, NEW B \in SUBSET A
    PROVE  RowBytes(A) - RowBytes(B) = RowBytes(A \ B)
<1> DEFINE w == [x \in Xorbs |-> db[XorbKey(x)]]
           Known(xs) == {x \in xs : db[XorbKey(x)] # None}
<1>1. IsFiniteSet(Known(A))
  BY PgAssumption, FS_Subset
<1>2. \A x \in Known(A) : w[x] \in Nat
  BY PgAssumption DEF Charged
<1>3. Known(B) \in SUBSET Known(A) /\ Known(A) \ Known(B) = Known(A \ B)
  OBVIOUS
<1>4. /\ RowBytes(A) = SumFunctionOnSet(w, Known(A)) /\ RowBytes(B) = SumFunctionOnSet(w, Known(B))
      /\ RowBytes(A \ B) = SumFunctionOnSet(w, Known(A \ B))
  BY Zenon DEF RowBytes
<1> HIDE DEF w, Known
<1>5. SumFunctionOnSet(w, Known(A)) = SumFunctionOnSet(w, Known(B)) + SumFunctionOnSet(w, Known(A) \ Known(B))
  BY <1>1, <1>2, <1>3, SumSplit
<1>6. RowBytes(A) = RowBytes(B) + RowBytes(A \ B)
  BY <1>3, <1>4, <1>5, Zenon
<1>7. (\A x \in Known(B) : w[x] \in Nat) /\ (\A x \in Known(A) \ Known(B) : w[x] \in Nat)
  BY <1>2, <1>3, Zenon
<1>8. IsFiniteSet(Known(B)) /\ IsFiniteSet(Known(A) \ Known(B))
  BY <1>1, <1>3, FS_Subset
<1>9. RowBytes(B) \in Nat /\ RowBytes(A \ B) \in Nat
  BY <1>3, <1>4, <1>7, <1>8, SumNat
<1> QED
  BY <1>6, <1>9

(* The terms of a registered file name known xorbs. *)
LEMMA XorbsKnown ==
    ASSUME PgInv, NEW ps
    PROVE  XorbsIn(ps) \in SUBSET Xorbs
<1> SUFFICES ASSUME NEW f \in Files, NEW i \in DOMAIN TermsOf(f) PROVE TermsOf(f)[i][1] \in Xorbs
  BY DEF XorbsIn
<1>1. CASE NoTerms(db, f)
  BY <1>1, NoTermsOf
<1>2. CASE WholeRows(db, f)
  <2>1. PICK l : l = TermsOf(f)
    OBVIOUS
  <2>2. l \in Segs[f]
    BY <1>2, <2>1, WholeTerms
  <2>3. l \in Seq(Xorbs \X Nat) /\ i \in DOMAIN l
    BY <2>1, <2>2, ListFacts
  <2>4. l[i] \in Xorbs \X Nat
    BY <2>3
  <2> QED
    BY <2>1, <2>4
<1> QED
  BY <1>1, <1>2 DEF PgInv, Committed

(* The xorbs of two sets of repositories together. *)
LEMMA XorbsJoin ==
    ASSUME NEW ps, NEW qs
    PROVE  XorbsIn(ps \cup qs) = XorbsIn(ps) \cup XorbsIn(qs)
  BY DEF XorbsIn

(* The two accounting queries agree with the sum they stand for, for any   *)
(* repositories, owners, shared files and shared xorbs: what a repository  *)
(* holds alone is what its owner's total drops by without it, and what     *)
(* is announced for another owner is what that owner's total would rise    *)
(* by.                                                                     *)
THEOREM AccountingAgrees == Spec => []AccountingExact
<1>1. AccountInv => AccountingExact
  <2> SUFFICES ASSUME AccountInv, NEW p \in Repos
               PROVE  /\ StoredBytesForOwner(OwnerOf[p]) - RowBytes(XorbsIn(ReposOf(OwnerOf[p]) \ {p}))
                           = ExclusiveStoredBytesForRepo(p)
                      /\ \A q \in Repos :
                           RowBytes(XorbsIn(ReposOf(OwnerOf[q]) \cup {p})) - StoredBytesForOwner(OwnerOf[q])
                             = UnaccountedXorbBytesForOwner(OwnerOf[q], XorbsIn({p}))
    BY DEF AccountingExact
  <2>1. PgInv /\ Charged(db)
    BY DEF AccountInv
  <2>2. ASSUME NEW R, NEW Q
        PROVE  RowBytes(XorbsIn(R \cup Q)) - RowBytes(XorbsIn(R)) = RowBytes(XorbsIn(Q) \ XorbsIn(R))
    <3>1. XorbsIn(R \cup Q) = XorbsIn(R) \cup XorbsIn(Q)
      BY XorbsJoin
    <3>2. XorbsIn(R \cup Q) \in SUBSET Xorbs /\ XorbsIn(R) \in SUBSET XorbsIn(R \cup Q)
      BY <2>1, <3>1, XorbsKnown
    <3>3. XorbsIn(R \cup Q) \ XorbsIn(R) = XorbsIn(Q) \ XorbsIn(R)
      BY <3>1
    <3> QED
      BY <2>1, <3>2, <3>3, RowBytesLess
  <2>3. (ReposOf(OwnerOf[p]) \ {p}) \cup {p} = ReposOf(OwnerOf[p])
    BY DEF ReposOf
  <2>4. StoredBytesForOwner(OwnerOf[p]) - RowBytes(XorbsIn(ReposOf(OwnerOf[p]) \ {p}))
          = ExclusiveStoredBytesForRepo(p)
    <3>1. RowBytes(XorbsIn((ReposOf(OwnerOf[p]) \ {p}) \cup {p})) - RowBytes(XorbsIn(ReposOf(OwnerOf[p]) \ {p}))
            = RowBytes(XorbsIn({p}) \ XorbsIn(ReposOf(OwnerOf[p]) \ {p}))
      BY <2>2
    <3> QED
      BY <2>3, <3>1, Zenon DEF StoredBytesForOwner, ExclusiveStoredBytesForRepo
  <2>5. ASSUME NEW q \in Repos
        PROVE  RowBytes(XorbsIn(ReposOf(OwnerOf[q]) \cup {p})) - StoredBytesForOwner(OwnerOf[q])
                 = UnaccountedXorbBytesForOwner(OwnerOf[q], XorbsIn({p}))
    BY <2>2, Zenon DEF StoredBytesForOwner, UnaccountedXorbBytesForOwner
  <2> QED
    BY <2>4, <2>5
<1> QED
  BY <1>1, AccountInit, AccountNext, PTL DEF Spec
=============================================================================
