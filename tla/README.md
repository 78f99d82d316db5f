# A TLA+ verification of baleforgit

`git-bale` keeps large files out of git: a clean/smudge filter replaces each
tracked file by a small pointer, stages the content locally, uploads it to a
CAS server from a pre-push hook, and a `gc` run by git hooks reclaims what no
reference needs any more. Repositories in local mode may share one store, which
`prune` compacts; `mount` shows a revision as a read-only file system.

This directory models what can lose, mix up or withhold data: the commands of
one repository, the filter's wire protocol, the shared store, pushes between
several remotes, the server's upload handlers, its PostgreSQL transactions, and
the threads of the mount.

## 1. Inventory

| Component | State | Operations | What makes it correct |
|---|---|---|---|
| clean/smudge filter (`filter_process.rs`) | request in progress, reply, runtime | read a request, clean (cache hit or full), smudge (hot, local, staged, cold), report an error | a pointer it returns can be turned back into content; git takes an answer only to its own request, and only whole |
| pkt-lines (`pktline.rs`) | two pipes | read, drain, write, flush | the two sides stay in step; nobody waits for ever |
| staging (`staging.rs`) | `file-index/<hash>` markers with their mtime, staged xorbs and shards | mark, touch, list, remove, clear, sweep | a marker never outlives its objects |
| store lock and registry (`store.rs`) | one exclusive flock, `repos/` | acquire, try-acquire, drop, register | serialises every writer; always released |
| clean-cache (`clean_cache.rs`) | path → pointer and chunk list | load, verify, save, forget | an entry has backing |
| gc (`gc.rs`) | locals of one run | try-lock, in-flight check, list, read tips, walk, grace, drop markers, forget cache entries, sweep | never under-counts what is reachable; reclaims in the end |
| prune (`prune.rs`) | locals of one run, the compacted store | lock, scan the repositories, rebuild, compare fingerprints, two renames | never drops what a repository needs |
| push-pending (`push_pending.rs`) | locals of one hook run, sessions to other remotes | list, walk, upload, probe, re-source, finalize, drain | a remote never names what its server lacks; a failed push loses nothing |
| resolver (`resolver.rs`) | token, count of expired mints | resolve by configuration, SSH or HTTP, refresh | a long push is not cut off; a public repository asks for nothing |
| git (external) | index, refs, stash, reflog, lock files | add, commit, stash, checkout, pop, push, fetch, reset, ... | |
| mount (`mount/`) | inode tree, open handles, LRU | lookup, readdir, getattr, open, release | every descriptor reads its own file, whole; the cache is bounded |
| manifest cache (`manifest_cache.rs`) | one file per hash | load, save | a torn file is never taken for a manifest |
| CAS handlers (`bale-server-http`) | locals of each request | POST xorb, POST shard, quotas, reconstruction | an accepted file is readable for ever |
| metadata stores (`-meta-sqlite`, `-meta-postgres`) | layouts, xorb rows, file rows, terms, quotas | register_*, lookup_file, stored_bytes | terms are write-once and whole; accounting is complete |
| blob stores (`-storage-fs`, `-s3`, `-mem`) | xorb bodies, shard archives | probe, put, range read | a body appears whole |
| formats (`-shard`, `-wire`, pointer) | none | parse, serialise | inverse of each other |
| authz, tokens | none shared | judge a request | |

The commands meet only through the file system (staging, clean-cache, flock) and
git's own files; the filter and git through two pipes; the client and the server
through HTTP. What is hard: filters, gc and hooks run concurrently without a
daemon; git records a pointer some time *after* the filter returned it; gc and
prune read refs, indexes and markers at different moments; any process may die
between two file operations; an error may strike when half of an answer has been
sent; a token may lapse between two requests; the server writes two stores
without a common transaction, and one of them at READ COMMITTED. `PROJECT.json`
lists these as hazards, at their lines.

## 2. Modules

| Module | Models |
|---|---|
| `RepoState` | the shared state of one repository, `Readable` (what smudge can produce), git's locks as gc sees them |
| `GitOps` | git itself (external): when each command takes its lock, when it records |
| `CleanFilter` | `do_clean`, `handle_clean`, `handle_smudge` as they touch the repository |
| `Gc` | `gc::reconcile` |
| `PushPending` | `push_pending::run` with one remote, against gc and the filters |
| `BaleRepo` | their composition, fairness and the properties |
| `BaleRepoProofs` | the inductive invariant and the theorems |
| `FilterProcess` | one filter process and git over the pipes |
| `FilterProcessProofs` | its invariant and theorems |
| `SharedStore` | a store shared by several repositories, `init-local --shared`, `prune --shared` |
| `SharedStoreProofs` | its invariant and theorems |
| `RemotePush` | `push_pending::run` with several remotes, `SourceSessions`, the resolver and the upload refresher |
| `RemotePushProofs` | its invariants and theorems |
| `FileRegistry` | abstract: what clients expect of a server |
| `CasServer` | `upload_xorb`, `upload_shard`, accounting and quotas |
| `CasServerProofs` | its invariant, its theorems and the refinement |
| `PgMetadata` | the PostgreSQL store as concurrent transactions |
| `PgMetadataProofs` | its invariant, its theorems and the refinement |
| `MountReader` | the callbacks of the mount, the reader and the manifest cache |
| `MountReaderProofs` | its invariant and theorems |
| `SumTheorems` | lemmas about sums over finite sets, for the byte counts |
| `MC*` | symmetry sets and values of the small instances |

`FileRegistry` is implemented twice: by `CasServer`, where a registration is one
step as in SQLite, and by `PgMetadata`, where it is many statements; both
implementations are checked and proved.
`PushPending` and `RemotePush` are two views of one command: the first
interleaves it with gc and the filters, the second with other remotes and
lapsing tokens. A definition whose comment begins with "Mutant:" is no part of
any specification; it is the plausible bug against which a property is tried.

### The repository

Content is its file hash; a pointer, a marker, a cache entry and a registration
all name one. `objects` holds the hashes whose xorbs and shard are in the
store, `markers` those with a marker, `old` the markers older than the reclaim
grace, `cache` the clean-cache by path, `server` the registered hashes. git's
side is `index`, `local` and `remote` (hashes reachable from local and remote
refs), the `stash` stack and `reflog`. The commit graph is not modelled: a walk
that hides the remote tips finds everything no remote reaches, plus any subset
of the rest (`Unpushed`, `Advertised`); the walk of a push may miss what it cannot
read (`Found`). Three history variables: `heldIndex` and `heldRefs`, the hashes that
stayed in the index and within reach of the refs since gc's in-flight check, and
`unread`, those a push brought to the remote without having read them. An action is one file-system effect or
one read, so the other processes interleave wherever the code lets them. A
clean-cache hit is the exception: lock, touch, reply and unlock are one step,
because the lock excludes every other writer.

`Readable` leaves out the chunk cache and the manifest cache: they only add
ways to read, and may be emptied at any time.

What the environment may do is switched on by name in `Env`: git writing
during a gc run, a stash slower than the grace, recovery from the reflog, files
that cannot be written, read, walked, listed or unlinked, and gc dying. Without
`writeDuringGc`, git waits for a running gc (`GitMayWrite`), which the code does not
make it do: gc only looks for git's locks before it starts. Section 4
says which guarantee each switch breaks.

### The filter protocol

A packet is its kind, its request and its place. git's side is external and
taken from the protocol the filter speaks: it writes a whole request before it
reads; an absent final status leaves the first one standing; it stops a filter
that answers neither success nor error. The filter reads header, payload (up to
its cap) or drains, then cleans, or smudges into one temporary file (`tmp`):
from the chunk cache; else, in local mode, from the durable store or not at all;
else from staging; else from the server. A hot path that misses leaves what it
wrote, up to `Surplus` packets more than the file when the manifest describes too
much; the local and the cold path empty the temporary file, the staged one writes
over it. Opening the session (`SmudgeCold`) and `FetchManifest` are calls to other
machines that no watchdog limits.
The download advances by steps of the network, and `WatchdogPoll` counts polls
without progress. The answer is written packet by packet into a bounded pipe;
`FinishTorn` is a read error after `status=success`. Two history variables:
`verdict`, how the filter decided each request, and `overrun`, that a payload
was given up half-read, over its cap or because it could not be spilled to disk.

### The shared store

`objs`, `reg` and `storeUp` are the store directory, `aside` and `asideReg` the
`.old.<pid>` directory, `orphans` what dead prunes left behind. Each repository
has its own `markers`, `cache` and `refs` (what its index and refs reach).
`prune` takes one action per repository scanned, per fingerprint, copy and
rename; adds, checkouts and registrations interleave, as far as they take no
lock. History: `backed`, what a repository marked itself and has reached ever
since; `fresh`, whose pointer in flight no prune has seen; `torn`, that a prune
ended between its renames; `forsaken`, the repositories a prune was forced to
leave out or whose registration raced it. The switches in `Env` are commented in
the module.

### Several remotes

A file is registered under a scope: the remote's repository, or that of a
literal `bale.token`. The upload token is `none`, `good`, `lapsed` or `suspect`
(minted a moment ago, and looking expired already, because clocks differ); the
refresher counts the latter in `expired`, and `mints` remembers how the last
ones looked. `SourceSessions` is `sess`: a source is built when first needed and
dead once it failed. Any request may fail. The walk of a push may miss any of the
files it should find, as the code takes an unreadable repository, commit, tree or
blob for an empty one; `missed` and `unread` remember which, for the push and for
the remotes, and forget a file once the server has been given it. What is pushed is branches, or
annotated tags, from which the reference walk finds nothing.

### The server

Each action is one await of a handler. A xorb's hash covers its decompressed
chunks, so one xorb has several encodings with different byte ranges; `layout`
records the encoding whose ranges are stored, `blob` the encoding whose body
is. A xorb is `contested` once an upload found the layout of another encoding and
no body yet. A file's content can be cut into terms in several ways (`Segs`), each a
list of xorbs; that clients send one of these lists is assumed, as the server
verifies no terms (`docs/ARCHITECTURE.md:579`). A request may die at any step. `put_xorb` is two steps, probe
and write, as in the file-system and S3 stores. Quota and usage are read in one
step and the shard's addition in another. The gate of `upload_shard` and the
admission of `upload_xorb` are one step each: they read stores that only grow,
and the admission only decides whether the upload goes on. Left out: the chunk
ranges inside a xorb, hashes and verification of bodies (a body that does not
match is a failed request), authentication, and shards with empty files.

### PostgreSQL

A call of the store is a program, translated from the code: a list of parts, one
for each file of a shard and one for every other call, each the list of its SQL
statements. Tasks execute the statements one at a time and `NextPart` goes on to
the next file, with what a statement does at
READ COMMITTED taken from PostgreSQL (external): it sees committed rows and its
own; an insert that meets another's uncommitted row waits; row and advisory
locks last to the end of the transaction; of a circle of waiters one is aborted.
A connection may fail at any statement. `lookup_file` is two reads with no
transaction around them, and the accounting queries are operators over `db`. The
lists clients send for a file are arbitrary and need not agree in size (`Agreed`
says of a file that they do).

### The mount

Threads run callbacks. A mutex is held for one step, and what the code does
between two locks is open to the other threads. A file's bytes are their number.
The inode tree is populated directory by directory; `cells` are the manifest
files on disk, each torn, whole or stale, and `manifest` and `mtmp` the names
that point to them, so that two saves under one temporary name can meet.

## 3. Passing runs

| Run | Instance | Shows |
|---|---|---|
| `RepoServer` | server mode, 2 hashes, 1 path, 1 command at a time: commit, checkout, push; unlink errors | no pointer dangles, markers and cache entries have backing |
| `RepoLocal` | local mode, 2 hashes, 2 commands at once: commit, stash, pop, push; unlink errors | the store as the only copy; the store lock between filters; stash's gap |
| `RepoFaults` | 1 hash, commit, stash, status, checkout, recovery and push, every fault on but `readFails` | a push fails closed except for what its walk could not read; gc never under-counts what stayed where it looks; one process at a time changes staging |
| `RepoLive` | 1 hash, 2 commands at once: add, push, fetch; fairness | requests answered, drains end, abandoned content reclaimed |
| `FilterWire` | 2 requests, payloads up to 3 packets with a cap of 1, pipes of 2 and 6 packets, files of 2 packets and manifests that describe 3, a stall limit of 2 polls or none; fairness | accepted answers are the request's own and whole, with two exceptions; the streams stay in step; the watchdog fires on silence only; the command ends, or waits in an unwatched call |
| `SharedPrune` | 2 repositories, 2 hashes, 2 prunes; forced, dying, failing renames, checkouts, re-adds, registrations during a prune | what a repository marked and still reaches keeps its bytes, its place in the store, and the repository its registration |
| `RemoteSources` | 2 files, an HTTP origin and an SSH fork, 1 expired mint tolerated, branches, short walks | no remote ref without its files, those a walk missed excepted, no file lost, clocks blamed only when they are to blame, no prompt for a public read |
| `CasRace` | 2 requests, 2 xorbs, one in two encodings, a file with two cuts, 1 owner with a limit of 3 | readable unless a xorb is contested, archived, charged, within the quota; refinement of `FileRegistry` |
| `PgRegister` | 2 tasks, a file with two cuts and one with two sizes, 2 xorbs of 2 frames in 2 encodings, 3 repositories of 2 owners; fairness | terms whole, a lookup acts as one read, layouts from one upload, accounting exact, calls end; refinement of `FileRegistry` |
| `MountThreads` | 2 threads, 3 opens; a small file, a large one, one above the LRU budget of 2, a plain one; a pathspec that leaves one out | descriptors read their own file, the LRU is bounded, directories whole, inodes stable |

Why the bounds are enough. Two hashes let one file keep the other's objects
alive through the all-or-nothing sweep, and one path lets a cache entry be
replaced; two commands show a filter waiting for another's lock.
`add` is in `RepoLive`; that a hash is in the index and in no
ref also happens after a commit and a reset. `MaxStash` is 1,
since the older entries are a finding. Two prunes show what the second makes of
the directories a dead first one left. A cap of one packet under payloads of
three leaves more than a packet unread; a pipe to the filter shorter than a
request makes git block, and the second request meets what the first one left in
the streams. One surplus packet is the smallest tail a miss can leave. `ReplyCap` is what the code relies on: an error reply fits into the
pipe whether or not git reads. One tolerated expired mint is the smallest number
with both a tolerated and a refused one. On the server two xorbs and cuts of
different length are enough for a merged list to be wrong, and two requests for
a race between probe and put, for two encodings of one xorb to meet, or for a
deadlock over two files.

Deadlock is not checked in the `Repo*` and shared-store runs, where users may
stop typing commands; it is in the others.

Fairness. `RepoLive`: a running filter, gc or hook takes its next step (weak); a
process waiting on the flock gets it in the end if it is free again and again
(strong: the kernel wakes waiters; that taking it fails with an error is an action
of its own, `PushLockFails`, without fairness); hooks run gc again and again and time passes,
so markers age. `FilterWire`: git and the filter take their next step (weak),
the watchdog's timer included; of the network nothing is assumed, so neither
opening a session (`SmudgeCold`), nor the download, nor `FetchManifest` need
return. `PgRegister`: a
task's statement is executed if again and again it can be (strong: PostgreSQL
grants locks in queue order), and the deadlock detector runs (weak). No fairness is assumed of
users, failures or crashes.

## 4. Where the code and its documentation differ

Two runs check one property each that a comment states, and TLC finds it
violated. `PROJECT.json` quotes the sentence.

| Run | What happens |
|---|---|
| `VPrune` | a repository that checked a file out of the shared store has no marker for it; when the one that added it drops it, prune deletes the only copy |
| `VTag` | a push of an annotated tag walks no commit, so a file that was drained to another remote is neither probed nor re-sourced |

The switches of `Env` in `BaleRepo` have no run of their own. To see what one breaks,
take `RepoServer.cfg`, set `Env` (for `reflog` also add the command `"recover"`
and `LocalMode = TRUE`) and check the property named:

| Setting | Property | What happens | Against |
|---|---|---|---|
| `writeDuringGc` | `NoDanglingPointer` | gc reads the refs (`gc.rs:126`), then the index (`gc.rs:221`), and what a command records, or moves from the index into a ref, in between is in neither; a cache entry looked up before the lock (`filter_process.rs:320`) may be swept before it is used | `gc.rs:13`, `docs/ARCHITECTURE.md:334` |
| `slowStash` | `NoDanglingPointer` | a stash outlasts the grace, and nothing refreshes its markers | `docs/ARCHITECTURE.md:334` |
| `MaxStash = 2`, with `"stash"` | `NoDanglingPointer` | older stash entries are in no ref (`gc.rs:280`) | `docs/ARCHITECTURE.md:328` |
| `gcCrash` | `NoDanglingPointer` | gc dies between dropping a marker (`gc.rs:157`) and forgetting the cache entry (`gc.rs:184`) | `docs/ARCHITECTURE.md:265` |
| `reflog` | `NoDanglingPointer` | local mode: content recovered from the reflog has no marker, a sweep takes it | `docs/ARCHITECTURE.md:328` |
| `readFails` | `GcNeverUndercounts` | what gc cannot read counts as unreferenced | `gc.rs:41` |
| `listFails` | `NoDanglingPointer` | a failed listing counts as no markers (`gc.rs:193`) | `gc.rs:41` |
| `markFails` | `NoDanglingPointer` | a failed marker write leaves a recorded pointer without backing, and a failed touch (`filter_process.rs:351-353`) leaves an old marker to be reclaimed | `filter_process.rs:499` |
| `forgetFails` | `CleanCacheBacked` | the entry of a dropped file stays in the clean-cache | `docs/ARCHITECTURE.md:265` |
| `walkFails` | `NoDanglingPointer` | the push's walk misses a file that gc dropped meanwhile, and the remote ref moves | `push_pending.rs:1` |

`RemoteOnServer` and `RefsBacked` make an exception for `unread`: `reachable_pointers`
takes what it cannot read for empty (`push_pending.rs:521-527`, `543-546`, `571-574`,
`593-596`, `621-633`), so in a partial clone, or with a damaged object, a push
succeeds without the files of the part it did not see, against
`push_pending.rs:1`. `GcNeverUndercounts` is about what stays in place: content
that a command moves between two places gc reads one after the other is the case of
`writeDuringGc`, and an older stash entry is in no place gc reads.

The filter:

- When reading the temporary file fails after `status=success` was sent
  (`finish_smudge`), the error list arrives where git expects content; git takes
  the truncated bytes and the error text for the file, which
  `filter_process.rs:79-80` means to exclude. `AcceptedOwn` names this as an
  exception (`torn`).
- A payload above its cap is left half-read, and the next request is parsed out
  of the rest, against `filter_process.rs:182-185`; `InSync` excludes it through
  `overrun`. The streams do not lock up, which `CommandEnds` shows.
- The error reply ends with one flush more than git expects. The next reply
  then seems to lack a status, so a request after a failed one fails too, and
  without `filter.bale.required` git goes on without the filter.
- The staged path (`filter_process.rs:685-707`) writes over what a failed hot path
  left, without the reset that `local_reconstruct.rs:20-21` asks for and without a
  look at the length. When the manifest described more than the file
  (`local_reconstruct.rs:75-78`), git gets the file and a tail: the second
  exception of `AcceptedOwn` (`long`).
- The session is opened and the manifest fetched (`filter_process.rs:754-814`)
  outside the watchdog; a machine that never answers there keeps git waiting,
  which `CommandEnds` allows.
- The comment at `filter_process.rs:316-319` says that a cache hit takes no
  lock; the code takes it.

Push and resolver: when the refresher gives up because of the clocks
(`resolver.rs:135-138` wants that said), `re_translate_from_any` drops the error
and reports that no remote had the file (`push_pending.rs:410-422`).

The shared store: `init-local` takes no lock, and one that runs during the swap
makes the directory again and so blocks both the rename and its rollback
(`docs/ARCHITECTURE.md:344` says the store is never absent); that the rollback
fails (`prune.rs:181`) is not noticed. A repository registered while a prune runs
may be missing from the registry after the swap; `RegistryKept` leaves it out
(`forsaken`). After a death between
the renames the next command starts an empty store with an empty registry, and
nothing looks into `.old.<pid>`. Markers that cannot be listed, or a repository
that cannot be opened, count as empty (`readFails`), and files are lost. A
clean-cache entry outlives a prune, so adding the content again can return a
pointer that was pruned (`reAdd`). A marker that cannot be written (`markFails`),
or an add that runs beside a prune (`addDuring`), has the same end. With these
four and the checkout of `VPrune` left out, nothing reachable is lost (section 5).

The mount: two threads that open one file at once both insert it, so
`bytes_used` counts it twice and its name is in the order twice
(`reader.rs:72`); the LRU then evicts early, and stays within its budget. The
temporary name of a manifest contains only the process id
(`manifest_cache.rs:59` says "Atomic temp + rename"), so two threads can rename
a half-written file into place; `load` rejects it.

The server, read from the code:

- With two encodings of a xorb, the stored byte ranges can belong to another
  encoding than the stored body: an upload that finds the layout of another
  encoding keeps it (`bale-server-http/src/lib.rs:343-344`) and goes on to store its
  own body. The comment at `bale-server-http/src/lib.rs:340-342` calls
  a layout without a body harmless, and the one at
  `bale-server-storage-s3/src/lib.rs:179` two racing bodies benign.
  `FilesReconstructible` and `ImplementsRegistry` leave out the files of such
  `contested` xorbs; every other order of uploads is covered.
- The quota check adds up the xorbs of the shard's own terms, but
  `write_file_in_tx` keeps the terms another owner registered first and charges
  for those, so with two owners a shard can go over the quota it was checked
  against (`docs/ARCHITECTURE.md:516` says that owners do not affect each
  other). `QuotaNeverOvershot` therefore leaves out shards with a file that is
  new to the owner and has terms another owner wrote; it also leaves out
  registrations that another request of the same owner raced, and shards that use
  a xorb they do not describe.
- `write_file_in_tx` verifies no list. It overwrites `total_bytes` with the sum of
  the new one and keeps the old terms (`bale-server-meta-postgres/src/lib.rs:136-145`,
  `182-190`), so two clients that disagree about a file's size make `lookup_file`
  refuse it from then on. `LookupAsOneRead` says that it refuses no other file.
- `docs/ARCHITECTURE.md:582` says that `POST /shards` archives the shard before
  it registers the xorbs; the code registers them first.
- `docs/ARCHITECTURE.md:579` says that every xorb of a shard must be in the
  `xorbs` table; the gate asks the blob store.

## 5. Proofs

`BaleRepoProofs`, for any sets of hashes, paths and commands:

- `TypeCorrect`, `OneWriter` and `PushSafe` hold in every environment (`PushSafe` with
  the exception of `unread`); `MarkersSafe` as long as listing the markers succeeds,
  and `GcSafe` as long as gc can read what it walks, whatever git writes meanwhile.
- `NoDataLoss`, `CacheSafe` and `CleanSafe` assume `Quiet`: of the
  environment behaviours at most unlink errors, and at most one stash entry.
  Every behaviour `Quiet` excludes breaks `NoDanglingPointer`, `CleanCacheBacked` or
  `GcNeverUndercounts` (section 4), so the assumption says what the guarantee
  depends on.

No property is inductive by itself. `RepoInv` adds who holds the lock
(`LockInv`), that a sweep runs without markers (`SweepInv`), that a command's
unrecorded pointers are kept and, for a stash, too young to reclaim (`OpInv`),
and that what gc read of the refs and will read of the index covers everything
referenced until it decides (`GcInv`). A walk that reads everything finds
all that is pushed (`WalkInv`). `GcSafe` needs only `HeldInv`: what is held in the
refs was among the tips gc read, or is on the server, or was missed by a walk, and
what is held in the index is still there when gc reads it. The parts are proved one at a time, each
action a step, later parts using the earlier ones.

`SharedStoreProofs`, for any repositories and hashes and any number of prunes:
`SharedTypeCorrect`, `PruneKeepsBytes`, `PruneKeepsStore` and
`PruneKeepsRegistry`. All assume that prune can read what it scans
(`"readFails" \notin Env`), and nothing else of the environment. `SharedInv`
adds who may hold the lock and write (`Writers`), what a command between the
filter's reply and its record has (`InFlight`), that what is `backed` has a
marker (`BackedMarked`), that an unregistered repository has
nothing yet (`Newcomers`), that the bytes are in the store or, while it is moved aside, in
the backup (`Bytes`), that everything backed in a repository prune has scanned is
in its live set (`Scanned`), and where registrations are at each step
(`Registrations`).
`PruneLosesOnlyUnmarked` bounds the finding of `VPrune`: `NothingReachableLost`
holds in every environment without the five behaviours of `Unmarking`, forced or
dying prunes, failing renames and `init-local` at any time included. There
`AllBacked` holds, everything reachable is marked by who reaches it, and the
claim follows from `PruneKeepsBytes`. None of the five can be spared: with
any one in place of `"checkout"` in `VPrune.cfg`, TLC finds a violation.

`CasServerProofs`, for any number of requests, xorbs, encodings, files,
repositories and owners: `FilesSafe`, `LayoutSafe`, `ArchiveSafe`,
`ChargeSafe`, `CasTypeCorrect`, and `RegistryRefined`: the handlers implement
`FileRegistry`, with the readable files as the mapped state. `FilesSafe` and
`RegistryRefined` are about the files without a contested xorb: for every other
xorb a body that is stored, or about to be, is of the encoding of the layout
(`BodyMatches`). `CasInv` adds that
past the gate all of a shard's xorbs are stored (bodies are never removed), that
past the layout step the ranges are known, that an unregistered file's terms are
empty and any other list is one of the file's own cuts over stored xorbs.
`QuotaSafe` is an action theorem about sums, for shards that describe every xorb
they use, whose files new to the owner have no terms of another owner, and whose
owner nobody charged since the check. `QuotaInv` adds that past the quota
check the xorbs a shard describes have their rows (`BlocksKnown`), and that the
usage read then plus what is *now* unaccounted is within the limit (`StillFits`).
The second is kept by the steps of all other requests because the stores only
grow: more rows of the owner leave less unaccounted, and a row, once there, keeps
its size. A registration then adds to the owner no xorb beyond its candidates,
so the new total is at most the sum that was checked.

`RemotePushProofs`, for any files and remotes of either kind and any number of
tolerated expired mints: `TypesKept`, `BytesKept`, `SkewIsSkew` and
`PublicReads`, whatever is pushed and whichever request fails; `RefsKeptBacked`
for pushes of branches, because with tags the property is false (`VTag`). Beside
the types and the shape of a running push, `PushInv` says that a drain removes
only what is on the target (`DrainsUploaded`), that everything named by a local
commit, a ref or the push itself has bytes somewhere (`NamedSomewhere`, without
which a fetched commit could name lost bytes), that `expired` is the number of
bad mints after the last good one (`Trailing`, which ties the refresher's
counter to the history), and that credentials to read are asked for only after
the anonymous probe (`AnonymousFirst`). `BranchInv` adds `Advertised`: until the
ref moves, each advertised file is on the target, or still among what the push
has to upload, probe or re-source, or was missed by a walk (`Missed`).

`MountReaderProofs`, for any tree, pathspec, budget and number of threads:
`OpenFilesReadOwn`, `DirectoriesWhole`, `InodesKept` and `CacheWithinBudget`. `MountInv` adds the
callbacks' locals, that a directory not read yet has no children and every
thread stands on an existing inode (`TreeOK`), that past the download a thread
holds the whole file (`Materialised`), and that a handle number belongs to one
thread about to insert it or to one open file (`HandlesOnce`), which is why two
racing opens cannot replace each other's file. Paths are sequences, so the
proofs rest on a few lemmas about prefixes and the names below a directory.
For the cache, `LruOK` says that what is cached is in the order and takes at most
`bytes_used`, which a file inserted twice raises twice and an eviction
lowers once, so `saturating_sub` never saturates. `put` either finds room, and
the new total is within the budget, or evicts everything; `bytes_used` itself
may then exceed the budget.

`FilterProcessProofs`, for any number of requests, any payload, file and pipe
sizes and any stall limit: `WatchdogFair`, `AcceptedAnswers` and `StreamsInStep`.
The watchdog needs only `Counted`: the polls it has counted were silent, unless
bytes came after the last one, which the next poll notices. The other two need to know where
both sides are in both streams. `At(a)` says that the filter has read the first
`a` packets of git's request and the pipe holds the ones after them; `Sync` ties
it to the filter's program counter as long as no payload was given up half-read.
`Phase` says what git has still to read, in the pipe and in what the filter has
to write: nothing (`Unanswered`), an error reply (`Erring`), an answer that is
being written, whole, or torn (`Answering`), its last status list (`Closing`), or
the flush an earlier error reply left over (`Poisoned`). The last one is what
makes acceptance after an error safe: the stale flush makes the next request
fail, so no later answer is read out of place and accepted. `Undecided` adds that
no request is worked on that git has already accepted. `Filled` says that a
temporary file about to be answered from holds the whole file, and more only in
server mode; `Decided` and `Taken` tie what git has read of an answer to its
length, so a tail is accepted only behind the file.
The one number the argument depends on is `ReplyCap > 4`: an error reply fits
into the pipe.

`PgMetadataProofs`, for any number of tasks, files, xorbs, encodings, frames and
terms: `TermsOneCut`, `LookupsAgree`, `LayoutsOneEncoding`, `LocksHeld`, and
`RegistryRefined`. `PgInv` says of the committed rows that a term list is whole,
that every row of a file has the size of one of its lists and terms beside it, and
that a layout is of one encoding (`Committed`); of the uncommitted ones that their
writer holds the lock (`Held`); and of each transaction what it has done, by its
place in the current part (`Job`). For a file: its row after one statement, the
advisory lock after two, and from the third on no terms of it are committed and
the transaction's own are the first ones of its list (`Writing`); files done
earlier in the shard have terms, its own or committed ones (`Filed`, `Termed`).
A lookup past its first statement has counted the committed list, which no later
commit changes (`Counted`). For a layout: the frames were all there before, or none is committed and the
first ones are its own. The rest of the argument is a rely condition,
`Untouched(u)`: while others take steps, u keeps its rows and locks,
committed terms and frames stay, and those u guards with a lock do not appear.
Each statement is proved to keep its own task's `Job` and every other's
`Untouched`. For the refinement the mapped state is `ReadableFiles`, the files whose
clients agree on the size, with a row, a whole list and no row of another size; under
`PgInv` these are the agreed files with a row, so only a commit adds any. Advisory keys may collide, as hashes of file names may.
`AccountingAgrees` needs that every xorb row holds the xorb's size
(`AccountInv`: nothing but `register_xorb` writes one); the rest is set algebra,
a repository's xorbs are its own and those it shares, and the sum over a set
without a part of it.

`SumTheorems` has what these three arguments use of `SumFunctionOnSet`: it is a
natural number, splits over disjoint sets, is monotonic, and depends only on the
values on the set. The operator is a recursive function that takes elements away
in the order `CHOOSE` fixes, so first the function is shown to exist, then the
order not to matter. The induction theorems for finite sets take a predicate as a
parameter and cannot be used; instead each proof takes the set of the
counterexamples' subsets and one of least cardinality in it, which exists
because `<` on the naturals is well founded.

Assumptions are the named `ASSUME`s of the modules: typing and distinctness of
the constants; that a file's term lists are non-empty; that calls are ones of the store's
interface; that paths are finitely many, and xorbs too (a hash has 256 bits).

Only model-checked: the liveness properties (`RequestAnswered`, `PushDrains`,
`AbandonedReclaimed`, `CommandEnds`, `CallsEnd`), since the prover has no fairness
or ENABLED. Every safety property of a passing run is a theorem, under the hypotheses above.

## 6. Not modelled, and the plan

1. The types of `FilterProcess` and `MountReader` with their bounds, as theorems.
2. Server: the loss of a body and the dedup query that must not offer it;
   single-file download; usage per repository in SQLite.
3. The mode gc assumes when the configuration cannot be read (`gc.rs:53`): the
   mode is a constant of `BaleRepo`.
4. A composition of `BaleRepo` with `FileRegistry` in place of `server`.
5. Pure algorithms as operators: xorb frames, shard sections, `verify_chunks`,
   byte-range parsing.

Out of reach or not worth it: cryptography and authentication (each request is
judged alone), byte formats and hash encoding (pure conversions with unit tests),
telemetry, progress output, argument parsing and hook installation; the diff
mount, which computes its tree once and keeps no state; the WinFsp backend,
which repeats the callbacks of libfuse against another interface.
