-------------------------- MODULE MountReaderProofs --------------------------
(***************************************************************************)
(* Proofs about MountReader, for any number of threads and opens, any      *)
(* revision and any pathspec.                                              *)
(***************************************************************************)
EXTENDS MountReader, SumTheorems, FiniteSetTheorems, SequenceTheorems, TLAPS

(* A thread's callback keeps its fields. *)
Record(r) == r \in [pc : {r.pc}, rest : {r.rest}, node : {r.node}, file : {r.file},
                    tmp : {r.tmp}, fh : {r.fh}, cell : {r.cell}]

ThreadsOK == DOMAIN thr = Threads /\ \A t \in Threads : Record(thr[t])

(* The tree of inodes: a directory that was not read yet is empty, and     *)
(* whoever walks it stands on an inode of it.                              *)
TreeOK ==
    /\ nodes \in Seq(Paths \cup DirPaths) /\ 1 \in 1..Len(nodes) /\ DOMAIN kids = 1..Len(nodes)
    /\ \A i \in 1..Len(nodes) : \A name \in DOMAIN kids[i] : kids[i][name] \in 1..Len(nodes)
    /\ \A i \in lazy : i \in 1..Len(nodes) /\ DOMAIN kids[i] = {}
    /\ \A t \in Threads : thr[t].node \in 1..Len(nodes)

(* Past the download a thread holds the whole file. *)
Opening  == {"odb", "lru", "hot", "cold"}
Complete == {"backfill", "write", "rename", "slurp", "alloc", "insert"}
Materialised ==
    \A t \in Threads :
        /\ thr[t].pc \in Opening \cup Complete => thr[t].file \in Files
        /\ thr[t].pc \in Complete => thr[t].tmp = Size[thr[t].file]

(* A handle is given out once: to a thread that has not inserted it yet or *)
(* to one open file.                                                       *)
HandlesOnce ==
    /\ next \in Nat /\ \A h \in DOMAIN handles : h \in 1..next
    /\ \A t \in Threads : thr[t].pc = "insert" =>
           thr[t].fh \in 1..next /\ thr[t].fh \notin DOMAIN handles
    /\ \A s, t \in Threads : thr[s].pc = "insert" /\ thr[t].pc = "insert" /\ thr[s].fh = thr[t].fh
           => s = t
    /\ \A d, e \in fds : d.fh = e.fh => d = e

MountInv == ThreadsOK /\ TreeOK /\ DirWhole /\ Materialised /\ HandlesOnce /\ ReadsOwn

-----------------------------------------------------------------------------
(* Paths. *)

Names == UNION {{p[i] : i \in DOMAIN p} : p \in Paths \cup Pathspec}

(* Paths are sequences of names, and so are the directories above them.    *)
LEMMA PathsAreSequences ==
    Paths \subseteq Seq(Names) /\ Pathspec \subseteq Seq(Names) /\ DirPaths \subseteq Seq(Names)
<1>1. ASSUME NEW p \in Paths \cup Pathspec PROVE p \in Seq(Names)
  <2> DEFINE S == {p[i] : i \in DOMAIN p}
  <2>1. p \in Seq(S)
    BY MountAssumption
  <2>2. S \subseteq Names
    BY DEF Names
  <2> HIDE DEF S
  <2>3. QED
    BY <2>1, <2>2, SeqMonotonic
<1>2. ASSUME NEW p \in Paths, NEW n \in 1..(Len(p) - 1) PROVE SubSeq(p, 1, n) \in Seq(Names)
  BY <1>1
<1>3. <<>> \in Seq(Names)
  OBVIOUS
<1>4. ASSUME NEW d \in DirPaths PROVE d \in Seq(Names)
  <2>1. CASE d = <<>>
    BY <2>1, <1>3
  <2>2. CASE d # <<>>
    <3>1. PICK p \in Paths : d \in {SubSeq(p, 1, n) : n \in 1..(Len(p) - 1)}
      BY <2>2 DEF DirPaths
    <3>2. QED
      BY <3>1, <1>2
  <2>3. QED
    BY <2>1, <2>2
<1>5. QED
  BY <1>1, <1>4

(* A path is its directory and its name. *)
LEMMA FrontLast ==
    ASSUME NEW p \in Seq(Names), p # <<>>
    PROVE  p = Append(Front(p), Last(p))
<1>1. Len(p) \in Nat \ {0} /\ Last(p) \in Names
  BY EmptySeq DEF Last
<1>2. Front(p) \in Seq(Names) /\ Len(Front(p)) = Len(p) - 1
      /\ \A i \in 1..(Len(p) - 1) : Front(p)[i] = p[i]
  <2>1. \A i \in 1..(Len(p) - 1) : p[i] \in Names
    BY <1>1
  <2>2. 1 \in Int /\ Len(p) - 1 \in Int /\ Len(p) \in Int
    BY <1>1
  <2>3. /\ SubSeq(p, 1, Len(p) - 1) \in Seq(Names)
        /\ Len(SubSeq(p, 1, Len(p) - 1)) = IF 1 <= Len(p) - 1 THEN (Len(p) - 1) - 1 + 1 ELSE 0
        /\ \A i \in 1..((Len(p) - 1) - 1 + 1) : SubSeq(p, 1, Len(p) - 1)[i] = p[1 + i - 1]
    BY <2>1, <2>2, SubSeqProperties
  <2>4. (Len(p) - 1) - 1 + 1 = Len(p) - 1 /\ \A i \in 1..(Len(p) - 1) : 1 + i - 1 = i
    BY <1>1
  <2>5. QED
    BY <1>1, <2>3, <2>4 DEF Front
<1>3. /\ Append(Front(p), Last(p)) \in Seq(Names) /\ Len(Append(Front(p), Last(p))) = Len(p)
      /\ \A i \in 1..Len(p) : Append(Front(p), Last(p))[i] = p[i]
  BY <1>1, <1>2 DEF Last
<1>4. QED
  BY <1>3, SeqEqual

(* A list of a finite set names all of it. *)
LEMMA SetToSeqFacts ==
    ASSUME NEW S, IsFiniteSet(S)
    PROVE  /\ SetToSeq(S) \in Seq(S)
           /\ \A x \in S : \E k \in 1..Len(SetToSeq(S)) : SetToSeq(S)[k] = x
<1> DEFINE n == Cardinality(S)
           s == SetToSeq(S)
<1>1. n \in Nat /\ ExistsBijection(1..n, S)
  BY FS_CardinalityType
<1>2. \E g \in [1..n -> S] : IsInjective(g)
  BY <1>1 DEF ExistsBijection, Bijection, Injection
<1>3. s \in [1..n -> S] /\ IsInjective(s)
  BY <1>2 DEF SetToSeq
<1>4. s \in Seq(S) /\ Len(s) = n
  BY <1>1, <1>3
<1>5. IsFiniteSet(1..n) /\ Cardinality(1..n) = n
  BY <1>1, FS_Interval
<1>6. s \in Injection(1..n, S)
  BY <1>3 DEF Injection
<1>7. s \in Surjection(1..n, S)
  BY <1>5, <1>6, FS_Injection
<1>8. QED
  BY <1>4, <1>7 DEF Surjection

(* The next name towards a path below d, when the pathspec allows the path,*)
(* is an entry of d.                                                       *)
LEMMA StepTowards ==
    ASSUME NEW d \in DirPaths, NEW p \in Paths, IsStrictPrefix(d, p),
           Pathspec = {} \/ \E q \in Pathspec : IsPrefix(q, p)
    PROVE  SubSeq(p, 1, Len(d) + 1) \in Pending(d)
<1> DEFINE q == SubSeq(p, 1, Len(d) + 1)
<1>1. d \in Seq(Names) /\ p \in Seq(Names) /\ Len(d) \in Nat /\ Len(p) \in Nat
  BY PathsAreSequences
<1>2. Len(d) <= Len(p) /\ d # p /\ SubSeq(d, 1, Len(d)) = SubSeq(p, 1, Len(d))
  BY DEF IsStrictPrefix, IsPrefix
<1>3. SubSeq(d, 1, Len(d)) = d /\ SubSeq(p, 1, Len(p)) = p
  BY <1>1, SubSeqFull
<1>4. Len(d) < Len(p)
  BY <1>1, <1>2, <1>3
<1>5. /\ q \in Seq(Names) /\ Len(q) = Len(d) + 1
      /\ \A i \in 1..(Len(d) + 1) : q[i] = p[i]
  BY <1>1, <1>4
<1>6. Front(q) = d
  <2>1. Front(q) = SubSeq(q, 1, Len(d))
    BY <1>1, <1>5 DEF Front
  <2>2. SubSeq(q, 1, Len(d)) = SubSeq(p, 1, Len(d))
    BY <1>1, <1>4, <1>5
  <2>3. QED
    BY <2>1, <2>2, <1>2, <1>3
<1>7. CASE Len(p) = Len(d) + 1
  <2>1. q = p
    BY <1>3, <1>7
  <2>2. QED
    BY <2>1, <1>6 DEF Pending, pathspec_matches_file
<1>8. CASE Len(p) # Len(d) + 1
  <2>1. Len(d) + 1 \in 1..(Len(p) - 1)
    BY <1>1, <1>4, <1>8
  <2>2. q \in DirPaths
    BY <2>1 DEF DirPaths
  <2>3. q # <<>>
    <3>1. Len(q) # 0
      BY <1>1, <1>5
    <3>2. QED
      BY <3>1, EmptySeq, Zenon
  <2>4. pathspec_intersects_dir(q)
    <3>1. ASSUME NEW g \in Pathspec, IsPrefix(g, p) PROVE IsPrefix(g, q) \/ IsPrefix(q, g)
      <4>1. g \in Seq(Names) /\ Len(g) \in Nat /\ Len(g) <= Len(p)
            /\ SubSeq(g, 1, Len(g)) = SubSeq(p, 1, Len(g))
        BY <3>1, PathsAreSequences DEF IsPrefix
      <4>2. \A i \in 1..Len(g) : g[i] = p[i]
        BY <1>1, <4>1
      <4>3. CASE Len(g) <= Len(q)
        <5>1. \A i \in 1..Len(g) : g[i] = q[i]
          BY <1>1, <1>5, <4>1, <4>2, <4>3
        <5>2. SubSeq(g, 1, Len(g)) = SubSeq(q, 1, Len(g))
          BY <5>1, <4>1, <4>3, <1>5
        <5>3. QED
          BY <5>2, <4>3 DEF IsPrefix
      <4>4. CASE Len(q) < Len(g)
        <5>1. \A i \in 1..Len(q) : g[i] = q[i]
          BY <1>1, <1>5, <4>1, <4>2, <4>4
        <5>2. SubSeq(q, 1, Len(q)) = SubSeq(g, 1, Len(q))
          BY <5>1, <4>1, <4>4, <1>5
        <5>3. QED
          BY <5>2, <4>1, <4>4, <1>5, <1>1 DEF IsPrefix
      <4>5. QED
        BY <4>1, <4>3, <4>4, <1>5, <1>1
    <3>2. QED
      BY <3>1 DEF pathspec_intersects_dir
  <2>5. QED
    BY <2>2, <2>3, <2>4, <1>6 DEF Pending
<1>9. QED
  BY <1>7, <1>8

-----------------------------------------------------------------------------
(* The tree. *)

(* A directory is filled in: the new inodes follow the old ones, which stay *)
(* as they are but for the directory itself.                               *)
LEMMA AllocateFacts ==
    ASSUME TreeOK, NEW i \in lazy, Allocate(i, Pending(nodes[i]))
    PROVE  /\ nodes' \in Seq(Paths \cup DirPaths) /\ Len(nodes') >= Len(nodes) /\ Len(nodes') \in Nat
           /\ \A k \in 1..Len(nodes) : nodes'[k] = nodes[k]
           /\ DOMAIN kids' = 1..Len(nodes')
           /\ \A k \in 1..Len(nodes') : k # i => kids'[k] = IF k <= Len(nodes) THEN kids[k] ELSE <<>>
           /\ DOMAIN kids'[i] = {Last(p) : p \in Pending(nodes[i])}
           /\ \A name \in DOMAIN kids'[i] : kids'[i][name] \in 1..Len(nodes')
           /\ \A name \in DOMAIN kids'[i] : nodes'[kids'[i][name]] = Append(nodes[i], name)
           /\ \A k \in lazy' : k \in 1..Len(nodes') /\ k # i /\ (k \in lazy \/ k > Len(nodes))
<1> DEFINE pending == Pending(nodes[i])
           new == SetToSeq(pending)
           n == Len(nodes)
           fresh == [name \in {Last(p) : p \in pending} |->
                       n + CHOOSE k \in 1..Len(new) : Last(new[k]) = name]
<1>1. n \in Nat /\ i \in 1..n /\ nodes \in Seq(Paths \cup DirPaths)
  BY DEF TreeOK
<1>2. pending \subseteq Paths \cup DirPaths /\ IsFiniteSet(pending)
  <2>1. pending \subseteq Paths \cup DirPaths
    BY DEF Pending
  <2>2. QED
    BY <2>1, MountAssumption, FS_Subset
<1>3. /\ new \in Seq(pending) /\ Len(new) \in Nat
      /\ \A x \in pending : \E k \in 1..Len(new) : new[k] = x
  BY <1>2, SetToSeqFacts
<1>4. new \in Seq(Paths \cup DirPaths)
  BY <1>2, <1>3, SeqMonotonic
<1>5. /\ nodes' = nodes \o new
      /\ kids' = [[k \in 1..(n + Len(new)) |-> IF k <= n THEN kids[k] ELSE <<>>] EXCEPT ![i] = fresh]
      /\ lazy' = (lazy \ {i}) \cup {n + k : k \in {j \in 1..Len(new) : new[j] \in DirPaths}}
  BY DEF Allocate
<1>6. \A name \in DOMAIN fresh : fresh[name] \in 1..(n + Len(new))
  <2> SUFFICES ASSUME NEW name \in {Last(p) : p \in pending}
               PROVE  n + (CHOOSE k \in 1..Len(new) : Last(new[k]) = name) \in 1..(n + Len(new))
    OBVIOUS
  <2> DEFINE c == CHOOSE k \in 1..Len(new) : Last(new[k]) = name
  <2>1. \E k \in 1..Len(new) : Last(new[k]) = name
    BY <1>3
  <2>2. c \in 1..Len(new)
    BY <2>1
  <2> HIDE DEF c, new, n
  <2>3. n + c \in 1..(n + Len(new))
    BY <2>2, <1>1, <1>3
  <2>4. QED
    BY <2>3 DEF c
<1>a. ASSUME NEW name \in DOMAIN fresh
      PROVE  \E k \in 1..Len(new) : fresh[name] = n + k /\ new[k] = Append(nodes[i], name)
  <2> DEFINE k == CHOOSE j \in 1..Len(new) : Last(new[j]) = name
  <2>1. \E j \in 1..Len(new) : Last(new[j]) = name
    BY <1>3
  <2>2. k \in 1..Len(new) /\ Last(new[k]) = name
    BY <2>1
  <2>3. new[k] \in pending
    BY <2>2, <1>3
  <2>4. Front(new[k]) = nodes[i] /\ new[k] \in Seq(Names) /\ new[k] # <<>>
    BY <2>3, PathsAreSequences, MountAssumption DEF Pending
  <2>5. new[k] = Append(Front(new[k]), Last(new[k]))
    BY <2>4, FrontLast
  <2>6. QED
    BY <2>2, <2>4, <2>5
<1> HIDE DEF pending, new, n, fresh
<1>7. /\ nodes' \in Seq(Paths \cup DirPaths) /\ Len(nodes') = n + Len(new)
      /\ \A k \in 1..n : nodes'[k] = nodes[k]
      /\ \A k \in 1..Len(new) : nodes'[n + k] = new[k]
  BY <1>1, <1>3, <1>4, <1>5, ConcatProperties DEF n
<1>8. /\ DOMAIN kids' = 1..Len(nodes')
      /\ \A k \in 1..Len(nodes') : k # i => kids'[k] = IF k <= n THEN kids[k] ELSE <<>>
      /\ kids'[i] = fresh
  BY <1>1, <1>3, <1>5, <1>7
<1>9. \A k \in lazy' : k \in 1..Len(nodes') /\ k # i /\ (k \in lazy \/ k > n)
  <2>1. \A k \in lazy : k \in 1..n
    BY DEF TreeOK, n
  <2>2. ASSUME NEW j \in 1..Len(new)
        PROVE  n + j \in 1..(n + Len(new)) /\ n + j # i /\ n + j > n
    BY <1>1, <1>3
  <2>3. 1..n \subseteq 1..(n + Len(new))
    BY <1>1, <1>3
  <2>4. QED
    BY <2>1, <2>2, <2>3, <1>5, <1>7
<1>10. DOMAIN fresh = {Last(p) : p \in Pending(nodes[i])}
  BY DEF fresh, pending
<1>11. \A name \in DOMAIN fresh : nodes'[fresh[name]] = Append(nodes[i], name)
  BY <1>a, <1>7
<1>12. Len(nodes') >= n /\ Len(nodes') \in Nat
  BY <1>1, <1>3, <1>7
<1>13. QED
  BY <1>6, <1>7, <1>8, <1>9, <1>10, <1>11, <1>12 DEF n

(* Reading a directory, or failing to, keeps the tree, and what it showed. *)
LEMMA PopulateStep ==
    ASSUME TreeOK, DirWhole, NEW i \in 1..Len(nodes), Populate(i) \/ UNCHANGED vfsVars
    PROVE  /\ nodes' \in Seq(Paths \cup DirPaths) /\ DOMAIN kids' = 1..Len(nodes')
           /\ Len(nodes') \in Nat /\ Len(nodes) <= Len(nodes')
           /\ \A k \in 1..Len(nodes) : nodes'[k] = nodes[k]
           /\ \A k \in 1..Len(nodes) : \A name \in DOMAIN kids[k] :
                name \in DOMAIN kids'[k] /\ kids'[k][name] = kids[k][name]
           /\ \A k \in 1..Len(nodes') : \A name \in DOMAIN kids'[k] : kids'[k][name] \in 1..Len(nodes')
           /\ \A k \in lazy' : k \in 1..Len(nodes') /\ DOMAIN kids'[k] = {}
           /\ DirWhole'
<1>0. nodes \in Seq(Paths \cup DirPaths) /\ Len(nodes) \in Nat /\ DOMAIN nodes = 1..Len(nodes)
  BY DEF TreeOK
<1>1. CASE UNCHANGED vfsVars \/ PopulateFailed(i)
  <2>1. nodes' = nodes /\ kids' = kids /\ lazy' \subseteq lazy
    BY <1>1 DEF vfsVars, PopulateFailed
  <2>2. DirWhole'
    BY <2>1 DEF DirWhole
  <2>3. QED
    BY <1>0, <2>1, <2>2 DEF TreeOK
<1>2. CASE i \in lazy /\ Allocate(i, Pending(nodes[i]))
  <2>1. /\ nodes' \in Seq(Paths \cup DirPaths) /\ Len(nodes') >= Len(nodes) /\ Len(nodes') \in Nat
        /\ \A k \in 1..Len(nodes) : nodes'[k] = nodes[k]
        /\ DOMAIN kids' = 1..Len(nodes')
        /\ \A k \in 1..Len(nodes') : k # i => kids'[k] = IF k <= Len(nodes) THEN kids[k] ELSE <<>>
        /\ DOMAIN kids'[i] = {Last(p) : p \in Pending(nodes[i])}
        /\ \A name \in DOMAIN kids'[i] : kids'[i][name] \in 1..Len(nodes')
        /\ \A name \in DOMAIN kids'[i] : nodes'[kids'[i][name]] = Append(nodes[i], name)
        /\ \A k \in lazy' : k \in 1..Len(nodes') /\ k # i /\ (k \in lazy \/ k > Len(nodes))
    BY <1>2, AllocateFacts
  <2>2. DOMAIN kids[i] = {} /\ DOMAIN <<>> = {}
    BY <1>2 DEF TreeOK
  <2>3. \A k \in 1..Len(nodes') : k # i => IF k <= Len(nodes) THEN k \in 1..Len(nodes) /\ kids'[k] = kids[k]
                                             ELSE DOMAIN kids'[k] = {}
    BY <1>0, <2>1, <2>2
  <2>4. \A k \in 1..Len(nodes) : \A name \in DOMAIN kids[k] :
          name \in DOMAIN kids'[k] /\ kids'[k][name] = kids[k][name]
    BY <1>0, <2>1, <2>2, <2>3
  <2>5. \A k \in 1..Len(nodes') : \A name \in DOMAIN kids'[k] : kids'[k][name] \in 1..Len(nodes')
    BY <1>0, <2>1, <2>3 DEF TreeOK
  <2>6. \A k \in lazy' : k \in 1..Len(nodes') /\ DOMAIN kids'[k] = {}
    BY <1>0, <2>1, <2>3 DEF TreeOK
  <2>7. DirWhole'
    <3> DEFINE Here(d) == {Last(SubSeq(p, 1, Len(d) + 1)) :
                   p \in {q \in {p \in Paths : Pathspec = {} \/ \E f \in Pathspec : IsPrefix(f, p)} :
                            IsStrictPrefix(d, q)}}
    <3>1. ASSUME NEW k \in DOMAIN nodes', nodes'[k] \in DirPaths
          PROVE  DOMAIN kids'[k] = {} \/ (k \notin lazy' /\ Here(nodes'[k]) \subseteq DOMAIN kids'[k])
      <4>1. CASE k = i
        <5>1. nodes'[k] = nodes[i] /\ k \notin lazy'
          BY <4>1, <2>1
        <5>2. \A x \in Here(nodes[i]) : x \in DOMAIN kids'[i]
          BY <5>1, <3>1, <2>1, StepTowards
        <5>3. QED
          BY <5>1, <5>2, <4>1
      <4>2. CASE k # i /\ k \in 1..Len(nodes)
        <5>1. nodes'[k] = nodes[k] /\ kids'[k] = kids[k] /\ (k \in lazy' => k \in lazy)
          BY <4>2, <1>0, <2>1, <2>3
        <5>2. QED
          BY <5>1, <4>2, <3>1, <1>0 DEF DirWhole
      <4>3. CASE k # i /\ k \notin 1..Len(nodes)
        BY <4>3, <2>1, <2>3, <1>0
      <4>4. QED
        BY <4>1, <4>2, <4>3
    <3>2. ASSUME NEW k \in DOMAIN nodes', nodes'[k] \in DirPaths, NEW name \in DOMAIN kids'[k]
          PROVE  nodes'[kids'[k][name]] = Append(nodes'[k], name)
      <4>1. CASE k = i
        BY <4>1, <2>1
      <4>2. CASE k # i
        <5>1. k \in 1..Len(nodes) /\ kids'[k] = kids[k] /\ nodes'[k] = nodes[k]
          BY <4>2, <3>2, <2>1, <2>3, <1>0
        <5>2. kids[k][name] \in 1..Len(nodes) /\ nodes[kids[k][name]] = Append(nodes[k], name)
          BY <5>1, <3>2, <1>0 DEF TreeOK, DirWhole
        <5>3. QED
          BY <5>1, <5>2, <2>1
      <4>3. QED
        BY <4>1, <4>2
    <3>3. QED
      BY <3>1, <3>2 DEF DirWhole
  <2>8. QED
    BY <1>0, <2>1, <2>4, <2>5, <2>6, <2>7
<1>3. QED
  BY <1>1, <1>2 DEF Populate

-----------------------------------------------------------------------------
(* The callbacks. *)

(* Threads on the tree: a step that changes the tree only by reading a     *)
(* directory, and one thread only.                                         *)
LEMMA TreeStep ==
    ASSUME MountInv, NEW t \in Threads, NEW r, thr' = [thr EXCEPT ![t] = r], Record(r),
           NEW i \in 1..Len(nodes), Populate(i) \/ UNCHANGED vfsVars,
           r.node \in 1..Len(nodes')
    PROVE  ThreadsOK' /\ TreeOK' /\ DirWhole'
<1>1. ThreadsOK'
  BY DEF MountInv, ThreadsOK
<1>2. /\ nodes' \in Seq(Paths \cup DirPaths) /\ DOMAIN kids' = 1..Len(nodes')
      /\ Len(nodes') \in Nat /\ Len(nodes) <= Len(nodes') /\ Len(nodes) \in Nat
      /\ \A k \in 1..Len(nodes') : \A name \in DOMAIN kids'[k] : kids'[k][name] \in 1..Len(nodes')
      /\ \A k \in lazy' : k \in 1..Len(nodes') /\ DOMAIN kids'[k] = {}
      /\ DirWhole'
  <2>1. Len(nodes) \in Nat
    BY DEF MountInv, TreeOK
  <2>2. QED
    BY <2>1, PopulateStep DEF MountInv
<1>3. \A s \in Threads : thr'[s].node \in 1..Len(nodes')
  BY <1>2 DEF MountInv, ThreadsOK, TreeOK
<1>4. 1 \in 1..Len(nodes')
  BY <1>2 DEF MountInv, TreeOK
<1>5. QED
  BY <1>1, <1>2, <1>3, <1>4 DEF TreeOK

(* Handles: a step of one thread that leaves them alone and is not about   *)
(* to insert one.                                                          *)
LEMMA HandleStep ==
    ASSUME MountInv, NEW t \in Threads, NEW r, thr' = [thr EXCEPT ![t] = r],
           UNCHANGED <<handles, next, fds>>, r.pc # "insert",
           r.pc \in Opening \cup Complete => r.file \in Files,
           r.pc \in Complete => r.tmp = Size[r.file]
    PROVE  Materialised' /\ HandlesOnce' /\ ReadsOwn'
<1>1. \A s \in Threads : thr'[s] = IF s = t THEN r ELSE thr[s]
  BY DEF MountInv, ThreadsOK
<1>2. Materialised'
  BY <1>1 DEF MountInv, Materialised
<1>3. HandlesOnce' /\ ReadsOwn'
  BY <1>1 DEF MountInv, HandlesOnce, ReadsOwn
<1>4. QED
  BY <1>2, <1>3

(* Both together: a thread goes on with its callback on the same inode.    *)
LEMMA ThreadStep ==
    ASSUME MountInv, NEW t \in Threads, NEW r, thr' = [thr EXCEPT ![t] = r], Record(r),
           UNCHANGED <<vfsVars, handles, next, fds>>, r.node \in 1..Len(nodes), r.pc # "insert",
           r.pc \in Opening \cup Complete => r.file \in Files,
           r.pc \in Complete => r.tmp = Size[r.file]
    PROVE  MountInv'
<1>1. nodes' = nodes
  BY DEF vfsVars
<1>2. ThreadsOK' /\ TreeOK' /\ DirWhole'
  BY <1>1, TreeStep
<1>3. Materialised' /\ HandlesOnce' /\ ReadsOwn'
  BY HandleStep
<1>4. QED
  BY <1>2, <1>3 DEF MountInv

(* An idle thread stands on the root. *)
LEMMA IdleFacts ==
    ASSUME MountInv
    PROVE  Record(Idle) /\ Idle.pc = "idle" /\ Idle.node \in 1..Len(nodes)
BY DEF Record, Idle, MountInv, TreeOK

(* The callbacks that keep to the tree: a lookup follows a name to an      *)
(* inode that is there by then.                                            *)
LEMMA WalkStep ==
    ASSUME MountInv, NEW t \in Threads,
           \/ \E p \in Paths \cup DirPaths : Callback(t, p)
           \/ LookupChild(t) \/ OpReaddir(t) \/ OpGetattr(t)
    PROVE  MountInv'
<1>0. thr[t].node \in 1..Len(nodes) /\ Record(thr[t]) /\ Record(Idle) /\ Idle.pc = "idle"
      /\ Idle.node \in 1..Len(nodes)
  BY IdleFacts DEF MountInv, ThreadsOK, TreeOK
<1>1. ASSUME NEW p \in Paths \cup DirPaths, Callback(t, p) PROVE MountInv'
  <2> DEFINE r == [Idle EXCEPT !.pc = "walk", !.rest = p]
  <2>1. Record(r) /\ r.pc = "walk" /\ r.node = 1
    BY DEF Record, Idle
  <2>2. thr' = [thr EXCEPT ![t] = r] /\ UNCHANGED <<vfsVars, handles, next, fds>>
    BY <1>1 DEF Callback, readerVars
  <2>3. 1 \in 1..Len(nodes)
    BY DEF MountInv, TreeOK
  <2> HIDE DEF r
  <2>4. QED
    BY <2>1, <2>2, <2>3, ThreadStep DEF Opening, Complete
<1>2. CASE LookupChild(t)
  <2> DEFINE here == kids'[thr[t].node]
             name == Head(thr[t].rest)
             r == IF name \in DOMAIN here
                    THEN [thr[t] EXCEPT !.node = here[name], !.rest = Tail(thr[t].rest)] ELSE Idle
  <2>1. /\ thr' = [thr EXCEPT ![t] = r] /\ UNCHANGED <<handles, next, fds>>
        /\ Populate(thr[t].node) /\ thr[t].pc = "walk"
    <3>1. /\ UNCHANGED readerVars /\ Populate(thr[t].node) /\ thr[t].pc = "walk"
          /\ thr' = [thr EXCEPT ![t] = IF name \in DOMAIN here
                                         THEN [thr[t] EXCEPT !.node = here[name], !.rest = Tail(@)]
                                         ELSE Idle]
      BY <1>2 DEF LookupChild
    <3>2. QED
      BY <3>1 DEF readerVars
  <2>2. /\ Len(nodes') \in Nat /\ Len(nodes) <= Len(nodes') /\ Len(nodes) \in Nat
        /\ \A k \in 1..Len(nodes') : \A x \in DOMAIN kids'[k] : kids'[k][x] \in 1..Len(nodes')
    <3>1. Len(nodes) \in Nat
      BY DEF MountInv, TreeOK
    <3>2. QED
      BY <3>1, <2>1, <1>0, PopulateStep DEF MountInv
  <2>3. thr[t].node \in 1..Len(nodes') /\ Idle.node \in 1..Len(nodes')
    BY <1>0, <2>2
  <2>4. CASE name \in DOMAIN here
    <3>1. here[name] \in 1..Len(nodes')
      BY <2>2, <2>3, <2>4
    <3>2. r = [thr[t] EXCEPT !.node = here[name], !.rest = Tail(thr[t].rest)]
      BY <2>4
    <3> HIDE DEF here, name, r
    <3>3. Record(r) /\ r.pc = "walk" /\ r.node = here[name]
      BY <1>0, <2>1, <3>2 DEF Record
    <3>4. ThreadsOK' /\ TreeOK' /\ DirWhole'
      BY <1>0, <2>1, <3>1, <3>3, TreeStep
    <3>5. Materialised' /\ HandlesOnce' /\ ReadsOwn'
      BY <2>1, <3>3, HandleStep DEF Opening, Complete
    <3>6. QED
      BY <3>4, <3>5 DEF MountInv
  <2>5. CASE name \notin DOMAIN here
    <3>1. r = Idle
      BY <2>5
    <3> HIDE DEF here, name, r
    <3>2. ThreadsOK' /\ TreeOK' /\ DirWhole'
      BY <1>0, <2>1, <2>3, <3>1, TreeStep
    <3>3. Materialised' /\ HandlesOnce' /\ ReadsOwn'
      BY <1>0, <2>1, <3>1, HandleStep DEF Opening, Complete
    <3>4. QED
      BY <3>2, <3>3 DEF MountInv
  <2>6. QED
    BY <2>4, <2>5
<1>3. CASE OpReaddir(t)
  <2>1. /\ thr' = [thr EXCEPT ![t] = Idle] /\ UNCHANGED <<handles, next, fds>>
        /\ Populate(thr[t].node) \/ UNCHANGED vfsVars
    BY <1>3 DEF OpReaddir, Done, readerVars
  <2>2. Len(nodes') \in Nat /\ Len(nodes) <= Len(nodes') /\ Len(nodes) \in Nat
    <3>1. Len(nodes) \in Nat
      BY DEF MountInv, TreeOK
    <3>2. QED
      BY <3>1, <2>1, <1>0, PopulateStep DEF MountInv
  <2>3. Idle.node \in 1..Len(nodes')
    BY <1>0, <2>2
  <2>4. ThreadsOK' /\ TreeOK' /\ DirWhole'
    BY <1>0, <2>1, <2>3, TreeStep
  <2>5. Materialised' /\ HandlesOnce' /\ ReadsOwn'
    BY <1>0, <2>1, HandleStep DEF Opening, Complete
  <2>6. QED
    BY <2>4, <2>5 DEF MountInv
<1>4. CASE OpGetattr(t)
  <2>1. thr' = [thr EXCEPT ![t] = Idle] /\ UNCHANGED <<vfsVars, handles, next, fds>>
    BY <1>4 DEF OpGetattr, Done, readerVars
  <2>2. QED
    BY <1>0, <2>1, ThreadStep DEF Opening, Complete
<1>5. QED
  BY <1>1, <1>2, <1>3, <1>4

(* An open begins with the file of its inode, and plain blobs come whole.  *)
LEMMA OpenStep ==
    ASSUME MountInv, NEW t \in Threads, OpOpen(t) \/ LoadPlain(t) \/ OpenFails(t)
    PROVE  MountInv'
<1>0. thr[t].node \in 1..Len(nodes) /\ Record(thr[t]) /\ Record(Idle) /\ Idle.pc = "idle"
      /\ Idle.node \in 1..Len(nodes)
  BY IdleFacts DEF MountInv, ThreadsOK, TreeOK
<1>1. CASE OpOpen(t)
  <2> DEFINE p == nodes[thr[t].node]
             q == IF Tree[p] \notin Plain THEN "lru" ELSE IF Tree[p] \in plain THEN "alloc" ELSE "odb"
             n == IF Tree[p] \in plain THEN Size[Tree[p]] ELSE 0
             r == [thr[t] EXCEPT !.file = Tree[p], !.pc = q, !.tmp = n]
  <2>1. /\ thr' = [thr EXCEPT ![t] = IF p \in DirPaths THEN Idle ELSE r]
        /\ UNCHANGED <<vfsVars, handles, next, fds>>
    BY <1>1 DEF OpOpen, readerVars
  <2>2. CASE p \in DirPaths
    <3>1. thr' = [thr EXCEPT ![t] = Idle]
      BY <2>1, <2>2
    <3>2. QED
      BY <1>0, <2>1, <3>1, ThreadStep DEF Opening, Complete
  <2>3. CASE p \notin DirPaths
    <3>1. p \in Paths
      BY <1>0, <2>3 DEF MountInv, TreeOK
    <3>2. Tree[p] \in Files
      BY <3>1, MountAssumption
    <3>3. /\ q \in {"lru", "alloc", "odb"} /\ (q = "alloc" => n = Size[Tree[p]])
      OBVIOUS
    <3>4. thr' = [thr EXCEPT ![t] = r]
      BY <2>1, <2>3
    <3> HIDE DEF q, n, p
    <3>5. Record(r) /\ r.pc = q /\ r.node = thr[t].node /\ r.file = Tree[p] /\ r.tmp = n
      BY <1>0 DEF Record
    <3> HIDE DEF r
    <3>6. QED
      BY <1>0, <2>1, <3>2, <3>3, <3>4, <3>5, ThreadStep DEF Opening, Complete
  <2>4. QED
    BY <2>2, <2>3
<1>2. CASE LoadPlain(t)
  <2> DEFINE r == [thr[t] EXCEPT !.pc = "alloc", !.tmp = Size[thr[t].file]]
  <2>1. /\ thr' = [thr EXCEPT ![t] = r] /\ UNCHANGED <<vfsVars, handles, next, fds>>
        /\ thr[t].pc = "odb"
    BY <1>2 DEF LoadPlain
  <2>2. thr[t].file \in Files
    BY <2>1 DEF MountInv, Materialised, Opening
  <2>3. Record(r) /\ r.pc = "alloc" /\ r.node = thr[t].node /\ r.file = thr[t].file
        /\ r.tmp = Size[thr[t].file]
    BY <1>0 DEF Record
  <2> HIDE DEF r
  <2>4. QED
    BY <1>0, <2>1, <2>2, <2>3, ThreadStep
<1>3. CASE OpenFails(t)
  <2>1. thr' = [thr EXCEPT ![t] = Idle] /\ UNCHANGED <<vfsVars, handles, next, fds>>
    BY <1>3 DEF OpenFails, Done, readerVars
  <2>2. QED
    BY <1>0, <2>1, ThreadStep DEF Opening, Complete
<1>4. QED
  BY <1>1, <1>2, <1>3

(* The steps that fetch a bale file end with all of it: what the hot path  *)
(* left over is gone when the download is done.                            *)
LEMMA FetchStep ==
    ASSUME MountInv, NEW t \in Threads, LruGet(t) \/ HotPath(t) \/ ColdDownload(t)
    PROVE  MountInv'
<1> DEFINE R(pc, n) == [thr[t] EXCEPT !.pc = pc, !.tmp = n]
<1>0. thr[t].node \in 1..Len(nodes) /\ Record(thr[t])
  BY DEF MountInv, ThreadsOK, TreeOK
<1>1. thr[t].file \in Files
  BY DEF MountInv, Materialised, Opening, LruGet, HotPath, ColdDownload
<1>2. UNCHANGED <<vfsVars, handles, next, fds>>
  BY DEF LruGet, HotPath, ColdDownload, readerVars
<1>3. \/ \E pc \in {"alloc", "slurp", "backfill"} : thr' = [thr EXCEPT ![t] = R(pc, Size[thr[t].file])]
      \/ \E n : thr' = [thr EXCEPT ![t] = R("cold", n)]
      \/ thr' = [thr EXCEPT ![t] = [thr[t] EXCEPT !.pc = "hot"]]
  BY DEF LruGet, HotPath, ColdDownload, Goto
<1>4. ASSUME NEW pc \in {"alloc", "slurp", "backfill"}, thr' = [thr EXCEPT ![t] = R(pc, Size[thr[t].file])]
      PROVE  MountInv'
  <2> DEFINE r == R(pc, Size[thr[t].file])
  <2>1. Record(r) /\ r.pc = pc /\ r.node = thr[t].node /\ r.file = thr[t].file
        /\ r.tmp = Size[thr[t].file]
    BY <1>0 DEF Record
  <2>2. thr' = [thr EXCEPT ![t] = r]
    BY <1>4
  <2> HIDE DEF r
  <2>3. QED
    BY <1>0, <1>1, <1>2, <2>1, <2>2, ThreadStep
<1>5. ASSUME NEW n, thr' = [thr EXCEPT ![t] = R("cold", n)] PROVE MountInv'
  <2> DEFINE r == R("cold", n)
  <2>1. Record(r) /\ r.pc = "cold" /\ r.node = thr[t].node /\ r.file = thr[t].file
    BY <1>0 DEF Record
  <2>2. thr' = [thr EXCEPT ![t] = r]
    BY <1>5
  <2> HIDE DEF r
  <2>3. QED
    BY <1>0, <1>1, <1>2, <2>1, <2>2, ThreadStep DEF Complete
<1>6. CASE thr' = [thr EXCEPT ![t] = [thr[t] EXCEPT !.pc = "hot"]]
  <2> DEFINE r == [thr[t] EXCEPT !.pc = "hot"]
  <2>1. Record(r) /\ r.pc = "hot" /\ r.node = thr[t].node /\ r.file = thr[t].file
    BY <1>0 DEF Record
  <2>2. thr' = [thr EXCEPT ![t] = r]
    BY <1>6
  <2> HIDE DEF r
  <2>3. QED
    BY <1>0, <1>1, <1>2, <2>1, <2>2, ThreadStep DEF Complete
<1>7. QED
  BY <1>3, <1>4, <1>5, <1>6

(* Saving the manifest and filling the LRU leave the file's bytes alone.   *)
LEMMA SaveStep ==
    ASSUME MountInv, NEW t \in Threads,
           \/ BackfillSkipped(t) \/ SaveCreate(t) \/ SaveWrite(t) \/ SaveFails(t)
           \/ SaveRename(t) \/ Slurp(t)
    PROVE  MountInv'
<1>0. thr[t].node \in 1..Len(nodes) /\ Record(thr[t])
  BY DEF MountInv, ThreadsOK, TreeOK
<1>1. thr[t].file \in Files /\ thr[t].tmp = Size[thr[t].file]
  BY DEF MountInv, Materialised, Complete, BackfillSkipped, SaveCreate, SaveWrite, SaveFails,
         SaveRename, Slurp
<1>2. UNCHANGED <<vfsVars, handles, next, fds>>
  BY DEF BackfillSkipped, SaveCreate, SaveWrite, SaveFails, SaveRename, Slurp, readerVars
<1>3. ASSUME NEW pc \in {"slurp", "write", "rename", "alloc"},
             \/ thr' = [thr EXCEPT ![t] = [thr[t] EXCEPT !.pc = pc]]
             \/ \E c : thr' = [thr EXCEPT ![t] = [thr[t] EXCEPT !.pc = pc, !.cell = c]]
      PROVE  MountInv'
  <2>1. \E r : /\ thr' = [thr EXCEPT ![t] = r] /\ Record(r) /\ r.node = thr[t].node
               /\ r.file = thr[t].file /\ r.tmp = thr[t].tmp /\ r.pc = pc
    <3>1. CASE thr' = [thr EXCEPT ![t] = [thr[t] EXCEPT !.pc = pc]]
      <4> DEFINE r == [thr[t] EXCEPT !.pc = pc]
      <4>1. Record(r) /\ r.node = thr[t].node /\ r.file = thr[t].file /\ r.tmp = thr[t].tmp
            /\ r.pc = pc
        BY <1>0 DEF Record
      <4>2. QED
        BY <3>1, <4>1
    <3>2. ASSUME NEW c, thr' = [thr EXCEPT ![t] = [thr[t] EXCEPT !.pc = pc, !.cell = c]]
          PROVE  \E r : /\ thr' = [thr EXCEPT ![t] = r] /\ Record(r) /\ r.node = thr[t].node
                        /\ r.file = thr[t].file /\ r.tmp = thr[t].tmp /\ r.pc = pc
      <4> DEFINE r == [thr[t] EXCEPT !.pc = pc, !.cell = c]
      <4>1. Record(r) /\ r.node = thr[t].node /\ r.file = thr[t].file /\ r.tmp = thr[t].tmp
            /\ r.pc = pc
        BY <1>0 DEF Record
      <4>2. QED
        BY <3>2, <4>1
    <3>3. QED
      BY <1>3, <3>1, <3>2
  <2>2. QED
    BY <1>0, <1>1, <1>2, <2>1, ThreadStep
<1>4. CASE BackfillSkipped(t) \/ Slurp(t) \/ SaveWrite(t)
  BY <1>3, <1>4 DEF BackfillSkipped, Slurp, SaveWrite, Goto
<1>5. CASE SaveCreate(t)
  <2>1. PICK c : thr' = [thr EXCEPT ![t].pc = "write", ![t].cell = c]
    BY <1>5 DEF SaveCreate
  <2>2. QED
    BY <1>3, <2>1
<1>6. CASE SaveFails(t)
  BY <1>3, <1>6 DEF SaveFails
<1>7. CASE SaveRename(t)
  <2>1. thr' = [thr EXCEPT ![t].pc = "slurp", ![t].cell = NoCell]
    BY <1>7 DEF SaveRename
  <2>2. QED
    BY <1>3, <2>1
<1>8. QED
  BY <1>4, <1>5, <1>6, <1>7

(* A handle is new when it is given out ... *)
LEMMA AllocStep ==
    ASSUME MountInv, NEW t \in Threads, Alloc(t)
    PROVE  MountInv'
<1> DEFINE r == [thr[t] EXCEPT !.pc = "insert", !.fh = next + 1]
<1>0. thr[t].node \in 1..Len(nodes) /\ Record(thr[t])
  BY DEF MountInv, ThreadsOK, TreeOK
<1>1. /\ thr' = [thr EXCEPT ![t] = r] /\ UNCHANGED <<vfsVars, handles, fds>> /\ next' = next + 1
      /\ thr[t].pc = "alloc"
  BY DEF Alloc
<1>2. Record(r) /\ r.pc = "insert" /\ r.node = thr[t].node /\ r.file = thr[t].file
      /\ r.tmp = thr[t].tmp /\ r.fh = next + 1
  BY <1>0 DEF Record
<1>3. thr[t].file \in Files /\ thr[t].tmp = Size[thr[t].file] /\ next \in Nat
  BY <1>1 DEF MountInv, Materialised, Complete, HandlesOnce
<1> HIDE DEF r
<1>4. nodes' = nodes
  BY <1>1 DEF vfsVars
<1>5. ThreadsOK' /\ TreeOK' /\ DirWhole'
  BY <1>0, <1>1, <1>2, <1>4, TreeStep
<1>6. \A s \in Threads : thr'[s] = IF s = t THEN r ELSE thr[s]
  BY <1>1 DEF MountInv, ThreadsOK
<1>7. Materialised'
  BY <1>2, <1>3, <1>6 DEF MountInv, Materialised
<1>8. HandlesOnce' /\ ReadsOwn'
  BY <1>1, <1>2, <1>3, <1>6 DEF MountInv, HandlesOnce, ReadsOwn
<1>9. QED
  BY <1>5, <1>7, <1>8 DEF MountInv

(* ... and inserted for one open file ... *)
LEMMA InsertStep ==
    ASSUME MountInv, NEW t \in Threads, Insert(t)
    PROVE  MountInv'
<1> DEFINE h == thr[t].fh
           new == [file |-> thr[t].file, len |-> thr[t].tmp]
           d == [fh |-> h, file |-> thr[t].file]
<1>0. Record(Idle) /\ Idle.pc = "idle" /\ Idle.node \in 1..Len(nodes)
  BY IdleFacts
<1>1. /\ thr' = [thr EXCEPT ![t] = Idle] /\ UNCHANGED <<vfsVars, next>> /\ thr[t].pc = "insert"
      /\ handles' = [k \in DOMAIN handles \cup {h} |-> IF k = h THEN new ELSE handles[k]]
      /\ fds' = fds \cup {d}
  BY DEF Insert, Done
<1>2. thr[t].tmp = Size[thr[t].file] /\ h \in 1..next /\ h \notin DOMAIN handles
  BY <1>1 DEF MountInv, Materialised, Complete, HandlesOnce
<1>3. nodes' = nodes
  BY <1>1 DEF vfsVars
<1>4. ThreadsOK' /\ TreeOK' /\ DirWhole'
  BY <1>0, <1>1, <1>3, TreeStep
<1>5. \A s \in Threads : thr'[s] = IF s = t THEN Idle ELSE thr[s]
  BY <1>1 DEF MountInv, ThreadsOK
<1>6. Materialised'
  BY <1>0, <1>5 DEF MountInv, Materialised, Opening, Complete
<1>7. d.fh = h /\ d.file = thr[t].file /\ new = [file |-> d.file, len |-> Size[d.file]]
  BY <1>2
<1> HIDE DEF h, new, d
<1>8. ReadsOwn'
  BY <1>1, <1>2, <1>7 DEF MountInv, ReadsOwn
<1>9. HandlesOnce'
  <2>1. \A e \in fds : e.fh # h
    BY <1>2 DEF MountInv, ReadsOwn
  <2>2. \A s \in Threads : thr[s].pc = "insert" /\ s # t => thr[s].fh # h
    BY <1>1 DEF MountInv, HandlesOnce, h
  <2>3. QED
    BY <1>0, <1>1, <1>2, <1>5, <1>7, <2>1, <2>2 DEF MountInv, HandlesOnce
<1>10. QED
  BY <1>4, <1>6, <1>8, <1>9 DEF MountInv

(* ... whose release takes away that handle and no other. *)
LEMMA ReleaseStep ==
    ASSUME MountInv, NEW d \in fds, OpRelease(d)
    PROVE  MountInv'
<1>1. /\ UNCHANGED <<nodes, kids, lazy, thr, next>> /\ fds' = fds \ {d}
      /\ handles' = [k \in DOMAIN handles \ {d.fh} |-> handles[k]]
  BY DEF OpRelease, vfsVars
<1>2. ThreadsOK' /\ TreeOK' /\ Materialised'
  BY <1>1 DEF MountInv, ThreadsOK, TreeOK, Materialised
<1>3. DirWhole'
  BY <1>1 DEF MountInv, DirWhole
<1>4. HandlesOnce' /\ ReadsOwn'
  BY <1>1 DEF MountInv, HandlesOnce, ReadsOwn
<1>5. QED
  BY <1>2, <1>3, <1>4 DEF MountInv

-----------------------------------------------------------------------------
(* What it comes to. *)

(* The initial state satisfies the invariant. *)
LEMMA InitMount == Init => MountInv
<1> SUFFICES ASSUME Init PROVE MountInv
  OBVIOUS
<1> USE DEF Init
<1>1. \A t \in Threads : thr[t] = Idle
  OBVIOUS
<1>2. Record(Idle) /\ Idle.pc = "idle" /\ Idle.node = 1
  BY DEF Record, Idle
<1>3. /\ nodes \in Seq(Paths \cup DirPaths) /\ Len(nodes) = 1 /\ DOMAIN nodes = {1} /\ 1..1 = {1}
      /\ DOMAIN kids = {1} /\ DOMAIN kids[1] = {} /\ lazy = {1} /\ DOMAIN handles = {}
  <2>1. <<>> \in Paths \cup DirPaths
    BY DEF DirPaths
  <2>2. QED
    BY <2>1
<1>4. ThreadsOK /\ TreeOK
  BY <1>1, <1>2, <1>3 DEF ThreadsOK, TreeOK
<1>5. DirWhole
  BY <1>3 DEF DirWhole
<1>6. Materialised /\ HandlesOnce /\ ReadsOwn
  BY <1>1, <1>2, <1>3 DEF Materialised, HandlesOnce, ReadsOwn, Opening, Complete
<1>7. QED
  BY <1>4, <1>5, <1>6 DEF MountInv

(* Every step preserves the invariant. *)
LEMMA NextMount ==
    ASSUME MountInv, [Next]_vars
    PROVE  MountInv'
<1>1. ASSUME NEW t \in Threads, Step(t) PROVE MountInv'
  BY <1>1, WalkStep, OpenStep, FetchStep, SaveStep, AllocStep, InsertStep DEF Step
<1>2. CASE UNCHANGED vars
  <2>1. UNCHANGED <<nodes, kids, lazy, thr, handles, next, fds>>
    BY <1>2 DEF vars, vfsVars, readerVars
  <2>2. ThreadsOK' /\ TreeOK' /\ Materialised' /\ HandlesOnce' /\ ReadsOwn'
    BY <2>1 DEF MountInv, ThreadsOK, TreeOK, Materialised, HandlesOnce, ReadsOwn
  <2>3. DirWhole'
    BY <2>1 DEF MountInv, DirWhole
  <2>4. QED
    BY <2>2, <2>3 DEF MountInv
<1>3. QED
  BY <1>1, <1>2, ReleaseStep DEF Next

(* An open file reads its own bytes, all of them and no more, until its    *)
(* release, however many threads open, evict and release files meanwhile   *)
(* (Reader::open, materialize, next_handle).                               *)
THEOREM OpenFilesReadOwn == Spec => []ReadsOwn
<1>1. MountInv => ReadsOwn
  BY DEF MountInv
<1>2. QED
  BY <1>1, InitMount, NextMount, PTL DEF Spec

(* A directory shows what the pathspec allows of it or, unreadable, nothing,*)
(* and its names lead where they say (populate_dir_locked).                *)
THEOREM DirectoriesWhole == Spec => []DirWhole
<1>1. MountInv => DirWhole
  BY DEF MountInv
<1>2. QED
  BY <1>1, InitMount, NextMount, PTL DEF Spec

(* Inodes are stable for the life of the mount, although every thread      *)
(* fills in the tree (populate_if_lazy).                                   *)
THEOREM InodesKept == Spec => InodesStable
<1> DEFINE Stable == /\ IsPrefix(nodes, nodes')
                     /\ \A i \in DOMAIN kids : \A name \in DOMAIN kids[i] :
                          name \in DOMAIN kids'[i] /\ kids'[i][name] = kids[i][name]
<1>1. ASSUME MountInv, [Next]_vars PROVE [Stable]_vars
  <2>1. CASE UNCHANGED vars
    BY <2>1
  <2>2. CASE UNCHANGED <<nodes, kids>>
    <3>1. IsPrefix(nodes, nodes)
      BY <1>1 DEF IsPrefix, MountInv, TreeOK
    <3>2. QED
      BY <2>2, <3>1
  <2>3. ASSUME NEW t \in Threads, Populate(thr[t].node) PROVE Stable
    <3>1. thr[t].node \in 1..Len(nodes) /\ nodes \in Seq(Paths \cup DirPaths) /\ Len(nodes) \in Nat
          /\ DOMAIN kids = 1..Len(nodes)
      BY <1>1 DEF MountInv, TreeOK
    <3>2. /\ nodes' \in Seq(Paths \cup DirPaths) /\ Len(nodes') \in Nat /\ Len(nodes) <= Len(nodes')
          /\ \A k \in 1..Len(nodes) : nodes'[k] = nodes[k]
          /\ \A k \in 1..Len(nodes) : \A name \in DOMAIN kids[k] :
               name \in DOMAIN kids'[k] /\ kids'[k][name] = kids[k][name]
      BY <3>1, <2>3, <1>1, PopulateStep DEF MountInv
    <3>3. IsPrefix(nodes, nodes')
      BY <3>1, <3>2 DEF IsPrefix
    <3>4. QED
      BY <3>1, <3>2, <3>3
  <2>4. ASSUME NEW t \in Threads, Step(t) PROVE UNCHANGED <<nodes, kids>> \/ Populate(thr[t].node)
    BY <2>4 DEF Step, Callback, LookupChild, OpReaddir, OpGetattr, OpOpen, LoadPlain, OpenFails,
       LruGet, HotPath, ColdDownload, BackfillSkipped, SaveCreate, SaveWrite, SaveFails,
       SaveRename, Slurp, Alloc, Insert, vfsVars
  <2>5. (\E d \in fds : OpRelease(d)) => UNCHANGED <<nodes, kids>>
    BY DEF OpRelease, vfsVars
  <2>6. QED
    BY <1>1, <2>1, <2>2, <2>3, <2>4, <2>5 DEF Next
<1>2. QED
  BY <1>1, InitMount, NextMount, PTL DEF Spec, InodesStable

-----------------------------------------------------------------------------
(* The LRU. *)

(* What is cached is listed, so that it can be evicted, and counted, so    *)
(* that nothing is subtracted twice; a file that two threads put is listed *)
(* and counted twice, and a listed file need not be cached any more.       *)
LruOK ==
    /\ lru \in [map : SUBSET Files, order : Seq(Files), used : Nat]
    /\ SumFunctionOnSet(Size, lru.map) <= lru.used
    /\ LruBounded

LEMMA SizeNat == ASSUME NEW S \in SUBSET Files PROVE \A f \in S : Size[f] \in Nat
BY MountAssumption

(* The members of a list are finitely many. *)
LEMMA RangeFinite ==
    ASSUME NEW S, NEW s \in Seq(S)
    PROVE  IsFiniteSet(Range(s)) /\ Range(s) \subseteq S
<1>1. s \in Surjection(1..Len(s), Range(s))
  BY DEF Surjection, Range
<1>2. IsFiniteSet(1..Len(s))
  BY FS_Interval
<1>3. IsFiniteSet(Range(s))
  BY <1>1, <1>2, FS_Surjection
<1>4. QED
  BY <1>3 DEF Range

LEMMA CachedFinite ==
    ASSUME LruOK
    PROVE  IsFiniteSet(lru.map) /\ SumFunctionOnSet(Size, lru.map) \in Nat
<1>1. lru.order \in Seq(Files) /\ lru.map \subseteq Range(lru.order) /\ lru.map \in SUBSET Files
  BY DEF LruOK, LruBounded
<1>2. IsFiniteSet(lru.map)
  BY <1>1, RangeFinite, FS_Subset
<1>3. QED
  BY <1>1, <1>2, SizeNat, SumNat

LEMMA MinIn ==
    ASSUME NEW I \in SUBSET Nat, I # {}
    PROVE  Min(I) \in I
BY LeastNat DEF Min

(* A touch keeps the members of the order. *)
LEMMA TouchKeeps ==
    ASSUME NEW order \in Seq(Files), NEW f \in Files
    PROVE  Touch(order, f) \in Seq(Files) /\ Range(order) \subseteq Range(Touch(order, f))
<1> DEFINE I == {i \in 1..Len(order) : order[i] = f}
           k == IF I # {} THEN Min(I) ELSE 0
<1>1. Touch(order, f) = IF k = 0 THEN order ELSE Append(RemoveAt(order, k), f)
  BY DEF Touch, SelectInSeq
<1>2. I # {} => Min(I) \in I
  <2> HIDE DEF I
  <2>1. I \in SUBSET Nat
    BY DEF I
  <2>2. QED
    BY <2>1, MinIn
<1>3. CASE k = 0
  BY <1>1, <1>3
<1>4. CASE k # 0
  <2>1. k \in 1..Len(order) /\ order[k] = f /\ Len(order) \in Nat
    BY <1>2, <1>4
  <2> HIDE DEF k
  <2> DEFINE a == SubSeq(order, 1, k - 1)
             b == SubSeq(order, k + 1, Len(order))
             s == Append(a \o b, f)
  <2>2. /\ a \in Seq(Files) /\ Len(a) = k - 1 /\ \A i \in 1..(k - 1) : a[i] = order[i]
    BY <2>1
  <2>3. /\ b \in Seq(Files) /\ Len(b) = Len(order) - k
        /\ \A i \in 1..(Len(order) - k) : b[i] = order[k + i]
    BY <2>1
  <2> HIDE DEF a, b
  <2> DEFINE ab == a \o b
  <2>4. /\ ab \in Seq(Files) /\ Len(ab) = Len(order) - 1
        /\ \A i \in 1..(k - 1) : ab[i] = order[i]
        /\ \A i \in 1..(Len(order) - k) : ab[k - 1 + i] = order[k + i]
    <3>1. ab \in Seq(Files) /\ Len(ab) = Len(a) + Len(b)
      BY <2>2, <2>3
    <3>2. \A i \in 1..Len(a) : ab[i] = a[i]
      BY <2>2, <2>3
    <3>3. \A i \in 1..Len(b) : ab[Len(a) + i] = b[i]
      BY <2>2, <2>3
    <3> HIDE DEF ab
    <3>4. Len(ab) = Len(order) - 1
      BY <3>1, <2>1, <2>2, <2>3
    <3>5. QED
      BY <3>1, <3>2, <3>3, <3>4, <2>2, <2>3
  <2>5. /\ s \in Seq(Files) /\ Len(s) = Len(order) /\ s[Len(order)] = f
        /\ \A i \in 1..(k - 1) : s[i] = order[i]
        /\ \A i \in 1..(Len(order) - k) : s[k - 1 + i] = order[k + i]
    <3> HIDE DEF ab
    <3>1. s = Append(ab, f)
      BY DEF ab
    <3>2. /\ s \in Seq(Files) /\ Len(s) = Len(ab) + 1 /\ s[Len(ab) + 1] = f
          /\ \A i \in 1..Len(ab) : s[i] = ab[i]
      BY <3>1, <2>4
    <3> HIDE DEF s
    <3>3. /\ Len(ab) + 1 = Len(order)
          /\ \A i \in 1..(k - 1) : i \in 1..Len(ab)
          /\ \A i \in 1..(Len(order) - k) : k - 1 + i \in 1..Len(ab)
      BY <2>1, <2>4
    <3>4. QED
      BY <3>2, <3>3, <2>4
  <2> HIDE DEF s
  <2>6. ASSUME NEW i \in 1..Len(order) PROVE \E j \in 1..Len(order) : s[j] = order[i]
    <3>1. CASE i < k
      BY <3>1, <2>1, <2>5
    <3>2. CASE i = k
      <4>1. s[Len(order)] = order[i] /\ Len(order) \in 1..Len(order)
        BY <3>2, <2>1, <2>5
      <4>2. QED
        BY <4>1
    <3>3. CASE i > k
      <4>1. i - k \in 1..(Len(order) - k) /\ k + (i - k) = i /\ k - 1 + (i - k) = i - 1
            /\ i - 1 \in 1..Len(order)
        BY <3>3, <2>1
      <4>2. s[k - 1 + (i - k)] = order[k + (i - k)]
        BY <4>1, <2>5
      <4>3. s[i - 1] = order[i]
        BY <4>1, <4>2
      <4>4. QED
        BY <4>1, <4>3
    <3>4. QED
      BY <3>1, <3>2, <3>3, <2>1
  <2>7. Touch(order, f) = s
    BY <1>1, <1>4 DEF RemoveAt, a, b, s, k
  <2>8. Range(order) \subseteq Range(s)
    BY <2>5, <2>6 DEF Range
  <2>9. QED
    BY <2>5, <2>7, <2>8
<1>5. QED
  BY <1>3, <1>4

(* Victims: the first n entries go, and what is left is still counted.     *)
(* Either there is room then, or nothing is left.                          *)
LEMMA VictimsFacts ==
    ASSUME LruOK, NEW size \in Nat
    PROVE  LET n    == Victims(size)[1]
               u    == Victims(size)[2]
               kept == lru.map \ {lru.order[j] : j \in 1..n}
           IN  /\ n \in 0..Len(lru.order) /\ u \in Nat
               /\ SumFunctionOnSet(Size, kept) <= u
               /\ u + size <= Budget \/ n = Len(lru.order)
<1> DEFINE freed(k) == SumFunctionOnSet(Size, lru.map \cap {lru.order[j] : j \in 1..k})
           used(k)  == IF freed(k) > lru.used THEN 0 ELSE lru.used - freed(k)
           enough   == {k \in 0..Len(lru.order) : used(k) + size <= Budget}
           n        == IF enough = {} THEN Len(lru.order) ELSE Min(enough)
<1>1. Victims(size) = <<n, used(n)>>
  BY DEF Victims
<1>2. lru.order \in Seq(Files) /\ Len(lru.order) \in Nat /\ lru.used \in Nat
      /\ lru.map \in SUBSET Files /\ SumFunctionOnSet(Size, lru.map) <= lru.used
  BY DEF LruOK
<1>3. n \in 0..Len(lru.order) /\ (enough # {} => n \in enough)
  <2>1. enough \in SUBSET Nat
    BY <1>2
  <2>2. enough # {} => Min(enough) \in enough
    <3> HIDE DEF enough
    <3>1. QED
      BY <2>1, MinIn
  <2>3. Len(lru.order) \in 0..Len(lru.order)
    BY <1>2
  <2> HIDE DEF used
  <2>4. QED
    BY <2>2, <2>3
<1>4. used(n) + size <= Budget \/ n = Len(lru.order)
  <2>1. CASE enough = {}
    BY <2>1
  <2>2. CASE enough # {}
    <3>1. n \in enough
      BY <1>3, <2>2
    <3> HIDE DEF n, used
    <3>2. QED
      BY <3>1
  <2>3. QED
    BY <2>1, <2>2
<1> HIDE DEF n
<1>5. /\ used(n) \in Nat
      /\ SumFunctionOnSet(Size, lru.map \ {lru.order[j] : j \in 1..n}) <= used(n)
  <2> DEFINE gone == lru.map \cap {lru.order[j] : j \in 1..n}
             kept == lru.map \ {lru.order[j] : j \in 1..n}
  <2>1. IsFiniteSet(lru.map) /\ \A f \in lru.map : Size[f] \in Nat
    BY <1>2, CachedFinite, SizeNat
  <2>2. gone \in SUBSET lru.map /\ kept \in SUBSET lru.map /\ lru.map \ gone = kept
    OBVIOUS
  <2>3. freed(n) = SumFunctionOnSet(Size, gone)
    OBVIOUS
  <2> HIDE DEF gone, kept, freed
  <2>4. IsFiniteSet(gone) /\ IsFiniteSet(kept)
    BY <2>1, <2>2, FS_Subset
  <2>5. SumFunctionOnSet(Size, lru.map)
          = SumFunctionOnSet(Size, gone) + SumFunctionOnSet(Size, kept)
    <3>1. SumFunctionOnSet(Size, lru.map)
            = SumFunctionOnSet(Size, gone) + SumFunctionOnSet(Size, lru.map \ gone)
      BY <2>1, <2>2, SumSplit
    <3>2. QED
      BY <3>1, <2>2, Zenon
  <2>6. SumFunctionOnSet(Size, gone) \in Nat /\ SumFunctionOnSet(Size, kept) \in Nat
    BY <2>1, <2>2, <2>4, SumNat
  <2>7. freed(n) \in Nat /\ SumFunctionOnSet(Size, kept) <= lru.used - freed(n)
        /\ ~(freed(n) > lru.used)
    BY <1>2, <2>3, <2>5, <2>6
  <2>8. used(n) \in Nat /\ SumFunctionOnSet(Size, kept) <= used(n)
    BY <1>2, <2>7
  <2>9. QED
    BY <2>8 DEF kept
<1> HIDE DEF used
<1>6. QED
  BY <1>1, <1>3, <1>4, <1>5

LEMMA PutStepLru ==
    ASSUME LruOK, NEW f \in Files, Size[f] <= Budget, LruPut(f)
    PROVE  LruOK'
<1> DEFINE n    == Victims(Size[f])[1]
           u    == Victims(Size[f])[2]
           gone == {lru.order[j] : j \in 1..n}
           kept == lru.map \ gone
           rest == SubSeq(lru.order, n + 1, Len(lru.order))
<1>1. lru' = [map |-> kept \cup {f}, order |-> Append(rest, f), used |-> u + Size[f]]
  BY DEF LruPut
<1>2. Size[f] \in Nat /\ Budget \in Nat
  BY MountAssumption
<1>3. /\ n \in 0..Len(lru.order) /\ u \in Nat
      /\ SumFunctionOnSet(Size, kept) <= u
      /\ u + Size[f] <= Budget \/ n = Len(lru.order)
  BY <1>2, VictimsFacts
<1> HIDE DEF n, u
<1>4. lru.order \in Seq(Files) /\ Len(lru.order) \in Nat /\ lru.map \in SUBSET Files
      /\ lru.map \subseteq Range(lru.order)
  BY DEF LruOK, LruBounded
<1>5. /\ rest \in Seq(Files) /\ Len(rest) = Len(lru.order) - n
      /\ \A i \in 1..(Len(lru.order) - n) : rest[i] = lru.order[n + i]
  BY <1>3, <1>4
<1>6. kept \subseteq Range(rest)
  <2>1. ASSUME NEW g \in kept PROVE \E i \in 1..Len(rest) : rest[i] = g
    <3>1. PICK i \in 1..Len(lru.order) : lru.order[i] = g
      BY <1>4 DEF Range
    <3>2. ~(i <= n)
      BY <1>3, <3>1
    <3>3. i - n \in 1..(Len(lru.order) - n) /\ n + (i - n) = i
      BY <1>3, <1>4, <3>2
    <3>4. QED
      BY <1>5, <3>1, <3>3
  <2> HIDE DEF rest, kept
  <2>2. QED
    BY <2>1, <1>5 DEF Range
<1>7. /\ Append(rest, f) \in Seq(Files)
      /\ kept \cup {f} \subseteq Range(Append(rest, f))
  <2> HIDE DEF rest, kept
  <2>1. Append(rest, f) \in Seq(Files) /\ Len(Append(rest, f)) = Len(rest) + 1
        /\ Append(rest, f)[Len(rest) + 1] = f /\ \A i \in 1..Len(rest) : Append(rest, f)[i] = rest[i]
    BY <1>5
  <2>2. Range(rest) \subseteq Range(Append(rest, f)) /\ f \in Range(Append(rest, f))
    BY <1>5, <2>1 DEF Range
  <2>3. QED
    BY <2>1, <2>2, <1>6
<1>8. IsFiniteSet(kept) /\ SumFunctionOnSet(Size, kept) \in Nat /\ kept \in SUBSET Files
  <2>1. IsFiniteSet(lru.map)
    BY CachedFinite
  <2>2. IsFiniteSet(kept) /\ kept \in SUBSET Files
    BY <1>4, <2>1, FS_Subset
  <2> HIDE DEF kept
  <2>3. QED
    BY <2>2, SizeNat, SumNat
<1>9. kept # {} => u + Size[f] <= Budget
  <2>1. ASSUME n = Len(lru.order) PROVE kept = {}
    BY <1>4, <2>1 DEF Range
  <2>2. QED
    BY <1>3, <2>1
<1> HIDE DEF kept, rest
<1>10. SumFunctionOnSet(Size, kept \cup {f}) <= SumFunctionOnSet(Size, kept) + Size[f]
  <2>1. CASE f \in kept
    <3>1. kept \cup {f} = kept
      BY <2>1
    <3>2. SumFunctionOnSet(Size, kept \cup {f}) = SumFunctionOnSet(Size, kept)
      BY <3>1, Zenon
    <3>3. QED
      BY <1>2, <1>8, <3>2
  <2>2. CASE f \notin kept
    <3>1. \A g \in kept \cup {f} : Size[g] \in Nat
      BY <1>2, <1>8, SizeNat
    <3>2. SumFunctionOnSet(Size, kept \cup {f}) = Size[f] + SumFunctionOnSet(Size, kept)
      BY <1>8, <2>2, <3>1, SumAdd
    <3>3. QED
      BY <1>2, <1>8, <3>2
  <2>3. QED
    BY <2>1, <2>2
<1>11. SumFunctionOnSet(Size, kept \cup {f}) \in Nat
  <2>1. IsFiniteSet(kept \cup {f}) /\ kept \cup {f} \in SUBSET Files
    BY <1>8, FS_AddElement
  <2>2. QED
    BY <2>1, SizeNat, SumNat
<1>12. kept = {} => SumFunctionOnSet(Size, kept) = 0
  BY SumEmpty
<1>13. /\ SumFunctionOnSet(Size, kept \cup {f}) <= u + Size[f]
       /\ SumFunctionOnSet(Size, kept \cup {f}) <= Budget
  BY <1>2, <1>3, <1>8, <1>9, <1>10, <1>11, <1>12
<1>14. /\ lru'.map = kept \cup {f} /\ lru'.order = Append(rest, f) /\ lru'.used = u + Size[f]
       /\ lru' \in [map : SUBSET Files, order : Seq(Files), used : Nat]
  BY <1>1, <1>2, <1>3, <1>7, <1>8
<1>15. QED
  BY <1>7, <1>13, <1>14 DEF LruOK, LruBounded

(* A hit only moves a name to the back. *)
LEMMA GetStepLru ==
    ASSUME LruOK, NEW f \in Files, lru' = [lru EXCEPT !.order = Touch(@, f)]
    PROVE  LruOK'
<1>1. lru \in [map : SUBSET Files, order : Seq(Files), used : Nat]
  BY DEF LruOK
<1>2. Touch(lru.order, f) \in Seq(Files) /\ Range(lru.order) \subseteq Range(Touch(lru.order, f))
  BY <1>1, TouchKeeps
<1>3. /\ lru'.map = lru.map /\ lru'.order = Touch(lru.order, f) /\ lru'.used = lru.used
      /\ lru' \in [map : SUBSET Files, order : Seq(Files), used : Nat]
  BY <1>1, <1>2
<1>4. QED
  BY <1>2, <1>3 DEF LruOK, LruBounded

LEMMA InitLru == Init => LruOK
<1> SUFFICES ASSUME Init PROVE LruOK
  OBVIOUS
<1>1. /\ lru = [map |-> {}, order |-> <<>>, used |-> 0]
      /\ lru \in [map : SUBSET Files, order : Seq(Files), used : Nat]
  BY DEF Init
<1>2. QED
  BY <1>1, SumEmpty, MountAssumption DEF LruOK, LruBounded

LEMMA NextLru ==
    ASSUME MountInv, LruOK, [Next]_vars
    PROVE  LruOK'
<1>1. UNCHANGED lru => LruOK'
  BY DEF LruOK, LruBounded
<1>2. ASSUME NEW t \in Threads, LruGet(t) PROVE LruOK'
  <2>1. thr[t].file \in Files
    BY <1>2 DEF LruGet, MountInv, Materialised, Opening
  <2>2. QED
    BY <1>1, <1>2, <2>1, GetStepLru DEF LruGet
<1>3. ASSUME NEW t \in Threads, Slurp(t) PROVE LruOK'
  <2>1. thr[t].file \in Files
    BY <1>3 DEF Slurp, MountInv, Materialised, Complete
  <2>2. QED
    BY <1>1, <1>3, <2>1, PutStepLru DEF Slurp
<1>4. ASSUME NEW t \in Threads, Step(t), ~LruGet(t), ~Slurp(t) PROVE UNCHANGED lru
  BY <1>4 DEF Step, Callback, LookupChild, OpReaddir, OpGetattr, OpOpen, LoadPlain, OpenFails,
     HotPath, ColdDownload, BackfillSkipped, SaveCreate, SaveWrite, SaveFails,
     SaveRename, Alloc, Insert, readerVars
<1>5. (\E d \in fds : OpRelease(d)) \/ UNCHANGED vars => UNCHANGED lru
  BY DEF OpRelease, vars, readerVars
<1>6. QED
  BY <1>1, <1>2, <1>3, <1>4, <1>5 DEF Next

(* The cache stays within its budget and all of it can be evicted, for any *)
(* number of threads that open the same files at once (BaleLru).           *)
THEOREM CacheWithinBudget == Spec => []LruBounded
<1>1. Init => MountInv /\ LruOK
  BY InitMount, InitLru
<1>2. MountInv /\ LruOK /\ [Next]_vars => (MountInv /\ LruOK)'
  BY NextMount, NextLru
<1>3. LruOK => LruBounded
  BY DEF LruOK
<1>4. QED
  BY <1>1, <1>2, <1>3, PTL DEF Spec
=============================================================================
