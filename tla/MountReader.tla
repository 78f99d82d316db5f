---------------------------- MODULE MountReader ----------------------------
(***************************************************************************)
(* git-bale mount: the read-only view of one revision.  The worker threads *)
(* of libfuse run the callbacks: they walk a path through a tree of inodes *)
(* that is filled in directory by directory, and open, read and release    *)
(* files whose bytes come from git, from an LRU of reconstructed files,    *)
(* from the chunk cache or from the server.                                *)
(*                                                                         *)
(* Each mutex is taken for one step; what the code does between two of its *)
(* locks is left open to the other threads.  A file's bytes are their      *)
(* number: the right ones are Size[f] many.                                *)
(***************************************************************************)
EXTENDS Naturals, Sequences, FiniteSets, SequencesExt, FiniteSetsExt

CONSTANTS
    Threads,
    Files,      \* blobs of the revision
    Plain,      \* the blobs that are no bale pointers
    Size,       \* file -> its length
    Tree,       \* path (a sequence of names) -> the file there
    Pathspec,   \* the literal prefixes the mount is restricted to; {} is no restriction
    Budget,     \* BALE_LRU_BUDGET_BYTES
    MaxOpens,   \* bound on the opens of a behaviour
    None

Paths    == DOMAIN Tree
DirPaths == {<<>>} \cup UNION {{SubSeq(p, 1, n) : n \in 1..(Len(p) - 1)} : p \in Paths}

ASSUME MountAssumption ==
    /\ Plain \subseteq Files /\ Size \in [Files -> Nat] /\ Budget \in Nat /\ MaxOpens \in Nat
    /\ Tree \in [Paths -> Files] /\ <<>> \notin Paths /\ Paths \cap DirPaths = {}
    /\ \A p \in Paths \cup Pathspec : p \in Seq({p[i] : i \in DOMAIN p})
    /\ IsFiniteSet(Paths \cup DirPaths) /\ None \notin Files

VARIABLES
    nodes,      \* inode -> the path it stands for; the root is inode 1
    kids,       \* inode of a directory -> name -> inode
    lazy,       \* inodes of the directories not read yet
    thr,        \* thread -> the callback it runs
    lru,        \* BaleLru: the cached files, their order (oldest first), bytes_used
    plain,      \* plain_cache
    handles,    \* fh -> [file, len], what an open materialised
    next,       \* next_handle
    fds,        \* the kernel's open files: [fh, file]
    cells,      \* inode of a manifest file -> "torn" or "whole" or "stale"
    manifest,   \* file -> the inode its manifest's final path names
    mtmp        \* file -> the inode its manifest's temporary path names

vfsVars    == <<nodes, kids, lazy>>
readerVars == <<lru, plain, handles, next, fds>>
cacheVars  == <<cells, manifest, mtmp>>
vars       == <<vfsVars, thr, readerVars, cacheVars>>

NoCell == <<None, 0>>
Idle   == [pc |-> "idle", rest |-> <<>>, node |-> 1, file |-> None,
           tmp |-> 0, fh |-> 0, cell |-> NoCell]
Goto(t, pc) == thr' = [thr EXCEPT ![t].pc = pc]
Done(t)     == thr' = [thr EXCEPT ![t] = Idle]

Init ==
    /\ nodes = <<<<>>>> /\ kids = <<<<>>>> /\ lazy = {1}
    /\ thr = [t \in Threads |-> Idle]
    /\ lru = [map |-> {}, order |-> <<>>, used |-> 0] /\ plain = {}
    /\ handles = <<>> /\ next = 0 /\ fds = {}
    \* No manifests, or ones that no longer fit the chunk cache.
    /\ \E old \in {{}, Files \ Plain} :
         /\ cells = [k \in old \X {1} |-> "stale"]
         /\ manifest = [f \in Files |-> IF f \in old THEN <<f, 1>> ELSE NoCell]
    /\ mtmp = [f \in Files |-> NoCell]

-----------------------------------------------------------------------------
(* The tree of inodes (vfs.rs). *)

pathspec_matches_file(p) == Pathspec = {} \/ \E f \in Pathspec : IsPrefix(f, p)

pathspec_intersects_dir(d) ==
    Pathspec = {} \/ \E f \in Pathspec : IsPrefix(f, d) \/ IsPrefix(d, f)

\* What populate_dir_locked collects from the tree object of directory d.
Pending(d) ==
    {p \in Paths : Front(p) = d /\ pathspec_matches_file(p)} \cup
    {p \in DirPaths \ {<<>>} : Front(p) = d /\ pathspec_intersects_dir(p)}

\* Inodes are allocated in the tree's order.
Allocate(i, pending) ==
    LET new == SetToSeq(pending)
        n   == Len(nodes)
    IN  /\ nodes' = nodes \o new
        /\ kids' = [[k \in 1..(n + Len(new)) |-> IF k <= n THEN kids[k] ELSE <<>>]
                      EXCEPT ![i] = [name \in {Last(p) : p \in pending} |->
                                       n + CHOOSE k \in 1..Len(new) : Last(new[k]) = name]]
        /\ lazy' = (lazy \ {i}) \cup {n + k : k \in {j \in 1..Len(new) : new[j] \in DirPaths}}

\* Mutant: what was read before a broken entry is kept.
PopulateFailedPartly(i) == \E part \in SUBSET Pending(nodes[i]) : Allocate(i, part)

\* The tree cannot be read: nothing was allocated yet, and the directory stays
\* empty, "so a broken tree doesn't hammer the ODB".
PopulateFailed(i) == lazy' = lazy \ {i} /\ UNCHANGED <<nodes, kids>>

\* Mutant: a directory is read again at every look.
PopulateAlways(i) ==
    IF nodes[i] \in DirPaths
      THEN Allocate(i, Pending(nodes[i])) \/ PopulateFailed(i)
      ELSE UNCHANGED vfsVars

\* populate_if_lazy, under the state's mutex.
Populate(i) ==
    IF i \in lazy
      THEN Allocate(i, Pending(nodes[i])) \/ PopulateFailed(i)
      ELSE UNCHANGED vfsVars

\* A callback on a path starts.
Callback(t, p) ==
    /\ thr[t].pc = "idle"
    /\ thr' = [thr EXCEPT ![t] = [Idle EXCEPT !.pc = "walk", !.rest = p]]
    /\ UNCHANGED <<vfsVars, readerVars, cacheVars>>

\* lookup_path: one lookup_child, and one lock, per component.
LookupChild(t) ==
    /\ thr[t].pc = "walk" /\ thr[t].rest # <<>>
    /\ Populate(thr[t].node)
    /\ LET here == kids'[thr[t].node]
           name == Head(thr[t].rest)
       IN  thr' = [thr EXCEPT ![t] = IF name \in DOMAIN here
                                       THEN [thr[t] EXCEPT !.node = here[name], !.rest = Tail(@)]
                                       ELSE Idle]                              \* ENOENT
    /\ UNCHANGED <<readerVars, cacheVars>>

\* readdir of a directory populates it too.
OpReaddir(t) ==
    /\ thr[t].pc = "walk" /\ thr[t].rest = <<>>
    /\ IF nodes[thr[t].node] \in DirPaths THEN Populate(thr[t].node) ELSE UNCHANGED vfsVars
    /\ Done(t) /\ UNCHANGED <<readerVars, cacheVars>>

\* getattr answers from the pointer; it never reconstructs.
OpGetattr(t) ==
    /\ thr[t].pc = "walk" /\ thr[t].rest = <<>>
    /\ Done(t) /\ UNCHANGED <<vfsVars, readerVars, cacheVars>>

-----------------------------------------------------------------------------
(* Opening a file (reader.rs, Reader::open and materialize). *)

\* open of a directory is EISDIR; a plain blob in the cache needs no more.
OpOpen(t) ==
    /\ thr[t].pc = "walk" /\ thr[t].rest = <<>>
    /\ next + Cardinality({s \in Threads : thr[s].file # None /\ thr[s].fh = 0}) < MaxOpens
    /\ LET p == nodes[thr[t].node]
       IN  thr' = [thr EXCEPT ![t] =
                     IF p \in DirPaths THEN Idle
                     ELSE [@ EXCEPT !.file = Tree[p],
                                    !.pc = IF Tree[p] \notin Plain THEN "lru"
                                           ELSE IF Tree[p] \in plain THEN "alloc" ELSE "odb",
                                    !.tmp = IF Tree[p] \in plain THEN Size[Tree[p]] ELSE 0]]
    /\ UNCHANGED <<vfsVars, readerVars, cacheVars>>

\* A plain blob is read whole and cached.
LoadPlain(t) ==
    /\ thr[t].pc = "odb"
    /\ plain' = plain \cup {thr[t].file}
    /\ thr' = [thr EXCEPT ![t].pc = "alloc", ![t].tmp = Size[thr[t].file]]
    /\ UNCHANGED <<vfsVars, lru, handles, next, fds, cacheVars>>

\* The blob or the manifest cannot be read, a plain blob is over its cap, no token
\* is granted or the download fails: EIO.  That its temporary file cannot be read
\* back is left out: it leaves no more than an open of the file and its release do.
OpenFails(t) ==
    /\ thr[t].pc \in {"odb", "lru", "hot", "cold"}
    /\ Done(t) /\ UNCHANGED <<vfsVars, readerVars, cacheVars>>

\* The first place of f in the order, moved to the back.
Touch(order, f) ==
    LET k == SelectInSeq(order, LAMBDA g : g = f)
    IN  IF k = 0 THEN order ELSE Append(RemoveAt(order, k), f)

\* BaleLru::get.
LruGet(t) ==
    /\ thr[t].pc = "lru"
    /\ LET f == thr[t].file
       IN  IF f \in lru.map
             THEN /\ lru' = [lru EXCEPT !.order = Touch(@, f)]
                  /\ thr' = [thr EXCEPT ![t].pc = "alloc", ![t].tmp = Size[f]]
             ELSE Goto(t, "hot") /\ UNCHANGED lru
    /\ UNCHANGED <<vfsVars, plain, handles, next, fds, cacheVars>>

\* The manifest, if it parses, drives the chunk cache.  The lengths add up, or
\* a chunk is missing or a length is off, with some bytes written by then.
HotPath(t) ==
    /\ thr[t].pc = "hot"
    /\ LET f == thr[t].file
           c == manifest[f]
           m == IF c = NoCell THEN "torn" ELSE cells[c]
       IN  \/ /\ m = "whole"
              /\ thr' = [thr EXCEPT ![t].pc = "slurp", ![t].tmp = Size[f]]
           \/ \E n \in CASE m = "torn"  -> {0}
                         [] m = "whole" -> 0..Size[f]
                         [] m = "stale" -> (0..(Size[f] + 1)) :
                thr' = [thr EXCEPT ![t].pc = "cold", ![t].tmp = n]
    /\ UNCHANGED <<vfsVars, readerVars, cacheVars>>

\* Mutant: the download is written over what the hot path left.
ColdDownloadOver(t) ==
    /\ thr[t].pc = "cold"
    /\ thr' = [thr EXCEPT ![t].pc = "backfill", ![t].tmp = Max({@, Size[thr[t].file]})]
    /\ UNCHANGED <<vfsVars, readerVars, cacheVars>>

\* The partial bytes are discarded, and the file is downloaded.  Nothing counts
\* what came: that a download which succeeds is the whole file is the library's
\* promise (push_pending.rs "download verifies content against the merkle hash").
ColdDownload(t) ==
    /\ thr[t].pc = "cold"
    /\ thr' = [thr EXCEPT ![t].pc = "backfill", ![t].tmp = Size[thr[t].file]]
    /\ UNCHANGED <<vfsVars, readerVars, cacheVars>>

\* The manifest could not be fetched: no backfill.
BackfillSkipped(t) ==
    /\ thr[t].pc = "backfill" /\ Goto(t, "slurp")
    /\ UNCHANGED <<vfsVars, readerVars, cacheVars>>

FreeCell(f) == <<f, Min({n \in 1..(Cardinality(DOMAIN cells) + 1) : <<f, n>> \notin DOMAIN cells})>>

\* manifest_cache::save: File::create of a name that holds the process id only,
\* so a second thread truncates the file the first one writes.
SaveCreate(t) ==
    /\ thr[t].pc = "backfill"
    /\ LET f == thr[t].file
           c == IF mtmp[f] = NoCell THEN FreeCell(f) ELSE mtmp[f]
       IN  /\ cells' = [d \in DOMAIN cells \cup {c} |-> IF d = c THEN "torn" ELSE cells[d]]
           /\ mtmp' = [mtmp EXCEPT ![f] = c]
           /\ thr' = [thr EXCEPT ![t].pc = "write", ![t].cell = c]
    /\ UNCHANGED <<vfsVars, readerVars, manifest>>

SaveWrite(t) ==
    /\ thr[t].pc = "write"
    /\ cells' = [cells EXCEPT ![thr[t].cell] = "whole"]
    /\ Goto(t, "rename") /\ UNCHANGED <<vfsVars, readerVars, manifest, mtmp>>

\* A failed save is ignored; what it wrote stays under the temporary name.
SaveFails(t) ==
    /\ thr[t].pc = "write"
    /\ thr' = [thr EXCEPT ![t].pc = "slurp", ![t].cell = NoCell]
    /\ UNCHANGED <<vfsVars, readerVars, cacheVars>>

\* Cells nobody names or writes are gone.
Collected(m, tmp, th) ==
    {c \in DOMAIN cells : c \in {m[f] : f \in Files} \cup {tmp[f] : f \in Files}
                               \cup {th[s].cell : s \in Threads}}

\* rename of the temporary name, whatever file it names by now; a failure (the
\* other thread has renamed it) is ignored.
SaveRename(t) ==
    /\ thr[t].pc = "rename"
    /\ LET f == thr[t].file
       IN  /\ manifest' = IF mtmp[f] = NoCell THEN manifest ELSE [manifest EXCEPT ![f] = mtmp[f]]
           /\ mtmp' = [mtmp EXCEPT ![f] = NoCell]
           /\ thr' = [thr EXCEPT ![t].pc = "slurp", ![t].cell = NoCell]
    /\ cells' = [c \in Collected(manifest', mtmp', thr') |-> cells[c]]
    /\ UNCHANGED <<vfsVars, readerVars>>

\* How many of the oldest entries make room, as few as possible or all, and what
\* bytes_used is without them (saturating_sub); a name whose file is no longer
\* cached frees nothing.
Victims(size) ==
    LET freed(k) == SumFunctionOnSet(Size, lru.map \cap {lru.order[j] : j \in 1..k})
        used(k)  == IF freed(k) > lru.used THEN 0 ELSE lru.used - freed(k)
        enough   == {k \in 0..Len(lru.order) : used(k) + size <= Budget}
        n        == IF enough = {} THEN Len(lru.order) ELSE Min(enough)
    IN  <<n, used(n)>>

\* Mutant: room is made once the budget is exceeded.
LruPutLate(f) ==
    LET v == Victims(0)
    IN  lru' = [map   |-> (lru.map \ {lru.order[j] : j \in 1..v[1]}) \cup {f},
                order |-> Append(SubSeq(lru.order, v[1] + 1, Len(lru.order)), f),
                used  |-> v[2] + Size[f]]

\* BaleLru::put; the file may have been put by another thread meanwhile.
LruPut(f) ==
    LET v == Victims(Size[f])
    IN  lru' = [map   |-> (lru.map \ {lru.order[j] : j \in 1..v[1]}) \cup {f},
                order |-> Append(SubSeq(lru.order, v[1] + 1, Len(lru.order)), f),
                used  |-> v[2] + Size[f]]

\* A file within the budget is read into memory and cached; a larger one stays
\* in its temporary file.
Slurp(t) ==
    /\ thr[t].pc = "slurp"
    /\ IF Size[thr[t].file] <= Budget THEN LruPut(thr[t].file) ELSE UNCHANGED lru
    /\ Goto(t, "alloc")
    /\ UNCHANGED <<vfsVars, plain, handles, next, fds, cacheVars>>

\* next_handle.fetch_add, and then the insert under the handles' mutex.
Alloc(t) ==
    /\ thr[t].pc = "alloc"
    /\ next' = next + 1 /\ thr' = [thr EXCEPT ![t].pc = "insert", ![t].fh = next + 1]
    /\ UNCHANGED <<vfsVars, lru, plain, handles, fds, cacheVars>>

Insert(t) ==
    /\ thr[t].pc = "insert"
    /\ LET h == thr[t].fh
       IN  /\ handles' = [k \in DOMAIN handles \cup {h} |->
                            IF k = h THEN [file |-> thr[t].file, len |-> thr[t].tmp] ELSE handles[k]]
           /\ fds' = fds \cup {[fh |-> h, file |-> thr[t].file]}
    /\ Done(t) /\ UNCHANGED <<vfsVars, lru, plain, next, cacheVars>>

\* The last close of a file: its handle goes.
OpRelease(d) ==
    /\ d \in fds /\ fds' = fds \ {d}
    /\ handles' = [k \in DOMAIN handles \ {d.fh} |-> handles[k]]
    /\ UNCHANGED <<vfsVars, thr, lru, plain, next, cacheVars>>

-----------------------------------------------------------------------------
Step(t) ==
    \/ \E p \in Paths \cup DirPaths : Callback(t, p)
    \/ LookupChild(t) \/ OpReaddir(t) \/ OpGetattr(t) \/ OpOpen(t)
    \/ LoadPlain(t) \/ OpenFails(t) \/ LruGet(t) \/ HotPath(t) \/ ColdDownload(t)
    \/ BackfillSkipped(t) \/ SaveCreate(t) \/ SaveWrite(t) \/ SaveFails(t)
    \/ SaveRename(t) \/ Slurp(t) \/ Alloc(t) \/ Insert(t)

Next == (\E t \in Threads : Step(t)) \/ (\E d \in fds : OpRelease(d))

Spec == Init /\ [][Next]_vars

-----------------------------------------------------------------------------
(* Properties. *)

\* Type invariant.
TypeOK ==
    /\ nodes \in Seq(Paths \cup DirPaths) /\ DOMAIN kids = DOMAIN nodes
    /\ \A i \in DOMAIN kids : \A name \in DOMAIN kids[i] : kids[i][name] \in DOMAIN nodes
    /\ lazy \subseteq DOMAIN nodes
    /\ \A t \in Threads :
         /\ thr[t].pc \in {"idle", "walk", "odb", "lru", "hot", "cold", "backfill", "write",
                           "rename", "slurp", "alloc", "insert"}
         /\ thr[t].node \in DOMAIN nodes /\ thr[t].tmp \in Nat
         /\ (thr[t].pc \in {"write", "rename"}) = (thr[t].cell \in DOMAIN cells)
    /\ lru.map \subseteq Files /\ lru.order \in Seq(Files) /\ lru.used \in Nat
    /\ plain \subseteq Plain /\ next \in 0..MaxOpens
    /\ DOMAIN handles \subseteq 1..next /\ \A d \in fds : d.fh \in DOMAIN handles
    /\ \A f \in Files : {manifest[f], mtmp[f]} \subseteq DOMAIN cells \cup {NoCell}

\* An open file reads its own bytes, all of them and no more, until it is
\* released: whatever the other threads open, evict and release, and whatever
\* a half-done attempt left in the temporary file.
ReadsOwn ==
    \A d \in fds : d.fh \in DOMAIN handles /\ handles[d.fh] = [file |-> d.file, len |-> Size[d.file]]

\* The cached bytes stay within the budget, and whatever is cached can be
\* evicted, although a file two threads opened at once is in the order twice.
LruBounded ==
    /\ SumFunctionOnSet(Size, lru.map) <= Budget
    /\ lru.map \subseteq Range(lru.order)

\* A directory shows all of its entries that the pathspec allows or, when its
\* tree could not be read, none, so that a file within the pathspec can be
\* reached; and a name of it leads to the inode of the path that ends in it.
DirWhole ==
    \A i \in DOMAIN nodes : nodes[i] \in DirPaths =>
        LET want == {p \in Paths : Pathspec = {} \/ \E f \in Pathspec : IsPrefix(f, p)}
            here == {Last(SubSeq(p, 1, Len(nodes[i]) + 1)) :
                       p \in {q \in want : IsStrictPrefix(nodes[i], q)}}
        IN  /\ DOMAIN kids[i] = {} \/ (i \notin lazy /\ here \subseteq DOMAIN kids[i])
            /\ \A name \in DOMAIN kids[i] : nodes[kids[i][name]] = Append(nodes[i], name)

\* "Inodes are stable for the life of the mount": a name keeps its inode, and an
\* inode its file, whoever looks it up again.
InodesStable ==
    [][/\ IsPrefix(nodes, nodes')
       /\ \A i \in DOMAIN kids : \A name \in DOMAIN kids[i] :
            name \in DOMAIN kids'[i] /\ kids'[i][name] = kids[i][name]]_vars
=============================================================================
