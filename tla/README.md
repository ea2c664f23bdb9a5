# A verification project for Orient Search

Orient Search (`src/src/*.rs`) indexes source repositories for coding agents. A
repository becomes one index file; many repositories become a *shard
directory*: one index per repository and a manifest that says which shard may
answer which query. A daemon keeps indexes and results in memory and answers
tool requests from many connections at once, while it, or the command line
beside it, refreshes the same directories.

The modules here model two kinds of parts. In the first, steps of several actors
meet: the directory on disk and its writers, the lock between them, a search
that reads the directory meanwhile, and what the daemon's requests share in
memory (workers, searches, indexes, manifests). In the second, several texts of
the program must say the same: which source a tool request is answered from and
where the requests in its answer lead, the lists of argument names, the three
ways an index chooses candidates, and a refresh of an index against a build.
`PROJECT.json` maps each definition to the lines it stands for and lists the
runs, hazards, findings and theorems.

## The system

| Part | State it keeps | Operations | What makes it correct |
|---|---|---|---|
| Shard worker pool (`server.rs` 1116-1224) | free workers under a mutex, a condition variable | `acquire`, drop of a permit | no worker lost or made up, no lost wake-up |
| Writer lock (`shards.rs` 1026-1087) | one file with an age | `acquire`, drop, judging the age | one writer at a time; every waiter gets an answer |
| Shard directory (`shards.rs` 504-792, 1089-1145, 3822-4046) | index files, `manifest.json`, `manifest.bin`, `manifest.prefilter.bin`, `manifest.route.bin` | build, ensure, refresh all, refresh by root | files of one generation are read together; no shard disappears unasked; what an index has is found |
| Shard search (`shards.rs` 1147-1383, 2886-3352; `server.rs` 8535-8637) | none | prefilter, route or sketches, then the indexes on several workers | a search beside a writer finds what it would have found alone |
| Coalescing of searches (`server.rs` 1127-1264, 7754-7803, 8477-8533) | searches in flight, completed searches, an epoch | look up, join, lead, store, invalidate | nothing older than a finished refresh; no follower forgotten |
| Coalescing of query plans, freshness, route statistics (`server.rs` 7806-7969, 8655-8709) | the same with other values; freshness verdicts expire | the same | the same |
| Index cache (`server.rs` 1274-1418, 7971-8091, 8345-8438) | indexes with a fingerprint and an access number, pins | get, load, reload, replace, pin, evict, clear | a cached index is as new as its file; pinned ones stay |
| Manifest cache (`server.rs` 8181-8231) | manifests with a fingerprint | get, get if fresh | a cached manifest is as new as the file |
| `refresh_if_stale` (`server.rs` 7581-7665) | a mutex | check, lock, check, refresh, clear caches | after it, no older answer |
| FastIndex (`fast_index.rs`) | postings per term, file metadata | build, refresh with reuse, save, load, freshness, search | a refresh equals a build; the verdict is right |
| Sketches and route (`shards.rs` 2400-2545, 3130-3352, 3886-3988) | bloom bits, hashes, encoded shard ids | make, ask | never a false "no" |
| Tool dispatch and routing (`server.rs` 2630-4990, 6060-7665) | which directories are registered, which indexes are ready | find the target, ask it, suggest the next requests | the next request comes back to the source and the scope of the answer |
| Names of arguments (`server.rs`, `main.rs`, `repo_index.rs` 7552-7825) | none | declare, read, carry on, print as flags | what one list says the others know |
| Command line (`main.rs`) | none | parse, call the daemon or fall back, print follow-ups; start a daemon | a printed command finds what the answer was about |
| Query parser (`query.rs`), live search and ranges (`repo_index.rs`), discovery (`discover.rs`), warmth plans (`warmth.rs`) | none | pure functions over text and file system | |
| Transports (`main.rs`, `server.rs` 865-1050) | a socket, a thread per connection | read a line, call a tool, write a line | one daemon per socket |

How they meet: a connection thread calls `dispatch`, which runs a tool to its
end. A search tool looks into the completed searches, joins or leads a search;
the leader reads the manifest files, takes a permit from the worker pool, reads
the indexes through the index cache, hands the result to those who joined and
stores it. A refresh tool takes the writer lock of the directory, writes index
files and manifest files, lets go, and then clears the daemon's caches. Nothing
connects a search with a writer but the fingerprint of `manifest.json` that the
derived files carry, and, in the daemon, the epoch that is part of every key.

What is hard here: a sequence of atomic writes that can stop anywhere and that
readers see half-done; a lock made of separate system calls; results that are
computed before a refresh and stored after it; condition variables without a
time limit; caches that judge files by length and time; a value read before its
fingerprint; a target that depends on what earlier requests left in the caches;
lists and algorithms that are written several times. `PROJECT.json` lists each
under "hazards" at its line, with the property that covers it or the reason why
none does.

## Modules

| Module | Role |
|---|---|
| `WorkerPool` | the worker pool; `MCWorkerPool` checks it, `WorkerPoolProofs` proves it |
| `WriterMutex` | abstract: one writer at a time, until the lock is broken |
| `ShardLock` | the lock file, which implements `WriterMutex`; `MCShardLock`, `ShardLockProofs` |
| `ShardStore` | the directory and its writers under the lock; `MCShardStore`, first part of `ShardSearchProofs` |
| `ShardSearch` | extends `ShardStore` with a search that runs beside the writers; `MCShardSearch`, `ShardSearchProofs` |
| `SearchCoalescing` | equal searches, the completed cache, and refreshes; `MCSearchCoalescing`, `SearchCoalescingProofs` |
| `DaemonCaches` | indexes, pins, manifests and completed searches in memory: the warming before the daemon serves, then read, refresh and `refresh_if_stale` requests; `MCDaemonCaches`, `DaemonCachesProofs` (types, waiting, eviction, how new answers are, pins), `DaemonRefreshProofs` (`refresh_if_stale`) |
| `ToolRouting` | which source a tool request is answered from, what it registers, loads and refreshes, and the requests its answer carries |
| `CommandLine` | extends `ToolRouting` with the commands, the way through a daemon or without one, and the start of a daemon; `RoutingProofs` proves both |
| `Vocabulary` | extends `CommandLine` with the names of arguments and flags |
| `IndexSearch` | candidates, filters and plans in one index; pure; `IndexProofs` |
| `FastIndexRefresh` | build, refresh and freshness of one index; pure; `IndexProofs` |
| `IndexRequests` | what the last two promise, asked of a daemon as `CommandLine` has it |
| `MCRequests` | checks the last six together |

Definitions marked `defect` are not part of any specification. Each is a
plausible mistake in the definition that follows it, and putting it in that
definition's place breaks the property `PROJECT.json` names beside it.

### WorkerPool

`available` is the counter under the mutex, `held[t]` the count of a permit,
`wants[t]` the clamped request of a thread inside `acquire`. Checking the
counter and going to sleep is one step (`Sleep`), as is checking it and taking
workers (`Grant`), because both happen under the mutex; `Release` is the
permit's drop, with `notify_all`. What a request asks for is computed by
`BoundedWorkerCount` and `Requested` as in the code, zero and clamping included.
Lock poisoning is left out.

### ShardLock

Each system call of `ShardWriteLock::acquire` and of its drop is an action:
`create_new` (`Create`, `CreateThenFail`, `CreateError`, `Exists`), reading the
age (`JudgeStale`, `JudgeRetry`, `JudgeTimeout`), removing (`Unlink`,
`UnlinkFails`, `Release`). Time is two events: a file reaches the stale age of
30 minutes (`Age`), a waiter reaches its limit of two minutes (`Elapse`). A file
without an `owner` was left behind by a `Crash` or by `CreateThenFail`; a drop
whose removal fails has the effect of `Crash`, and an age that cannot be read
ends `acquire` with an error as `CreateError` does. With `SlowHolders = FALSE` a
file ages only when its writer is gone.

### ShardStore

Contents are sets of pairs of a repository and a term. A term stands for any
word a query asks for, and a sketch is the exact set of terms of its index: the
bloom filters of the code may claim more, which costs time and loses nothing.
`json.stamp` is the fingerprint (length and modification time) of
`manifest.json`; each derived file has the stamp it was made for. `work` is the
writer that has the lock: what it has still to index, its manifest in memory,
and how far it has come with the four files. `ShardLock` justifies that there
is one writer at a time, with the reservation of the finding below.

One action per atomic write: `RefreshShard` and `BuildShard` save one index,
`RemoveMissing` removes one, `SaveJson`, `SaveSidecar`, `SavePrefilter`,
`SaveRoute` are the four writes of `save_manifest_with_mode`. `Abort` is an
error or a kill between any two of them. `RefreshIndexFile` is the
`refresh_index` tool used on an index file of the directory, which takes no
lock. `Edit`, `RemoveRoot` and `RestoreRoot` are the world outside. `clean` is
history: TRUE from the end of a full refresh or build on, until a writer stops
half-way or an index is replaced from outside.

That the stamp of a new `manifest.json` differs from the old one is an
assumption of the model (`NextStamp`): two writes of equal length within the
resolution of the file system's clock would break it, and the defect
`StampMissed` shows that `TrustedFilesAgree` then fails.

### ShardSearch

A search is the sequence of reads of `search_shards` and of the daemon's
`search_shards_cached_core`: fingerprint, prefilter, fingerprint, route, and
without a valid route fingerprint, `manifest.bin`, `manifest.json`; then the
indexes in any order. Each read is a step, and every writer's step may come
between any two. `due` is history: the shards a search that started now would
find, minus those that an edit, a lost root or a forced rebuild took away since.

### SearchCoalescing

Each critical section of `coalesced_search_shards_cached_core` is an action:
looking up (`Hit`, `Miss`), joining or leading (`Follow`, `Lead`), waiting,
computing, `Finish`, `Store` with eviction, `Remove`. A refresh is `Write` (the
directory) and then, for the tools that end in `clear_runtime_caches`, `Clear`
and `Bump`; for `refresh_index`, `Retain`. The directory is one version number
and a search sees the version of one moment, which need not be the last.
`Announcing` are the tools whose return is taken as a promise that later
searches see what they wrote; `promised` and `since` remember it. The eviction
victim is any entry, since clients take their access number before the lock.

### DaemonCaches

One action per lock that `ToolRuntime` takes: `cached_index_with_key` is `Look`
(the fingerprint), `Lock` (find, or put a loading entry), `Load`, `BecomeReady`
or `Fail`, `Wait` on another thread's entry, and `Evict`, `EvictVictims` (the
pins are copied under their own lock first). `cached_shard_manifest` is
`Manifest` to `PutManifest`, `clear_runtime_caches` is `ClearIndexes`,
`ClearPins`, `ClearManifests`, `NextEpochStarts`, and a request with
`refresh_if_stale` is `Check`, `Acquire`, `Recheck`, the two saves, the clearing
and then the search. An entry is shared through its `Arc`: `mine` is what a
thread holds of it, and `Told` lets holders see what its loader made of it, also
when the map has a newer one.

A version number stands for both the content of a file and its fingerprint. The
code reads the value first and takes the fingerprint afterwards; the model keeps
the two reads apart, so entries can be *torn*. The completed search is one of a
single query (`SearchCoalescing` has the rest).

Pins are set in one place only: `warm_shard_roots`, which `bootstrap_runtime`
(`main.rs` 6797-6862) runs to its end before the daemon answers anybody; the
tools `warm_index` and `warm_shards` load without pinning. So the thread
`Starter` warms first, and requests begin when it is done (`Serving`). An error
ends the process, which is started again with nothing in memory (`StartAgain`).
`promised` is history: all that was warmed at the start, minus what a clearing,
a changed manifest or a failed load took away since; evictions take nothing
from it. An evictor copies the pins before it takes the lock of the indexes
(8384-8389) and could take one that is pinned in between, but in the daemon
nothing is: only a program that used the library with threads of its own could
warm beside an eviction. Preloading with `--index` before and `--warm-query`
after the warming are not modelled.

The check of `refresh_if_stale` (`Verdicts`) finds the directory stale when an
index is older than its sources, may find it so when only the git metadata in
the manifest can differ, and fails when an index file is missing, although a
refresh would have built it anew.

### ToolRouting and CommandLine

The state is what routing looks at: which directories have a cached manifest,
which indexes are ready, and which repositories a directory has. `Arms` has one
record per tool: how it finds its target (`way`), whether it takes a query and
honours `refresh_if_stale`, and what its answers carry, per kind of source.
`Answer(q, known)` is the source a request is answered from, with the scope that
a filter, the query or the working directory gives it; `FollowUps` are the
requests in the answer. `Ask` gives what an answer does to the caches. `Cmds`
are the commands in the same form, `Written` is a request printed as a command
and `SearchAutoAnswer` the way of `search-auto`. Which indexes an eviction takes
is left open here (`Fits`), since `DaemonCaches` has that.

### Vocabulary

Sets of names: what a tool's schema declares (`Schema`), what its handler reads
(`ReadsOf`), what a follow-up carries from a request (`Carried`, per kind), which
flags a command has (`Flags`) and what is printed of a request (`Form`). The
properties say how the lists relate and name each place where they do not; the
exceptions are the code's, and each is worth a look:

* `symbol_type` is declared (`server.rs` 2829) and read nowhere (11537);
  `include_read_batch` is declared for symbol batches, and `dir`, `directory`,
  `folder` for range reads and related tools, which read neither.
* Schemas are closed (2630), but plans carry `line` and `refresh_if_stale`,
  retries `refresh_if_stale` to `search_code`, and maps the excluded scopes, to
  tools that do not declare them. A `line` becomes a string on the way
  (4390-4398), which the reader of numbers refuses.
* The retry that gives up an import filter keeps it when it was spelled
  `imports`, `modules` or `uses`, and keeps kebab-case names (4211-4247); the
  retry that broadens a query takes out canonical names only (4377-4388).
* A printed plan drops filters given by an alias, a printed map drops branch,
  origin and excluded scopes, and `require_all` with `any_terms` prints a command
  that the parser refuses (`main.rs` 1558).
* `find_index_symbol_batch` and `find_shard_symbol_batch` fall back on the only
  index or directory without being in the lists that say so.

### IndexSearch and FastIndexRefresh

Both are pure operators over constants: the indexes and queries of a search
(`Corpora`, `Queries`), the trees and the edits during a refresh (`Trees`,
`Edits`). What these must be is assumed by name (`InputsAssumption`,
`TreesAssumption`), and TLC evaluates it. Their properties are stated in
`IndexRequests`: they do not depend on what a daemon holds, so they are asked
where it has just started. `IndexSearch` has a file as sets of words and
symbols and a posting list as the set of files that have a word, a trigram, a
symbol, a kind or an attribute; `Found`, `QueryMayMatch` and `QueryPlan`
translate the three functions that choose candidates separately. Scores are
left out but for being zero. `OnlyInPath` is an exception of the code: a single
word that some file's text has is not looked for in paths when it has at most
four letters (`fast_index.rs` 1440-1443, 1502-1506), nor when one term says it
twice, since the trigrams across the joint are then asked of the path as well.

`FastIndexRefresh` has three trees per refresh: at the walk, when a file is
hashed, and when it is read. `Converges` compares a refresh with a build,
`Healed` a refresh that edits overtook with the one after it. The code's
exceptions are in the formulas: an edit that leaves size and mtime is not seen;
a renamed file keeps the symbols its old name gave it (5471-5491), although
`extract_symbols` (`repo_index.rs` 4982-5010) chooses by name, so that a file
renamed to or from, say, `package.json` differs from a build until it is edited;
and a file with a NUL is walked but never indexed, so that freshness calls the
index stale for ever and each request with `refresh_if_stale` refreshes and
clears the caches again.

## Runs

| Run | Instance | States | Result |
|---|---|---|---|
| `worker_pool` | 4 threads, 3 workers, at most 2 per request | 671 | holds |
| `shard_lock` | 3 writers, slow holders, 2 files may turn stale (`MaxAges`) | 7 768 | holds |
| `shard_lock_stale` | 3 writers, no slow holder, 1 file turns stale | | `MutualExclusion` fails |
| `shard_store` | 2 repositories, 1 term, 4 saves, 2 changes, 1 writer that stops, 1 refresh from outside | 1.06 million | holds |
| `shard_store_fresh` | 2 saves, 1 change, 1 writer that stops | | `FreshIsFound` fails |
| `shard_store_ensure` | 3 saves, 1 change | | `EnsureKeepsShards` fails |
| `shard_search` | as `shard_store`, 3 saves, 1 change, 1 refresh from outside, searches one after the other | 0.85 million | holds |
| `search_coalescing` | 2 clients, 2 limits, 2 refreshes of either tool, a cache of 1 entry, 3 versions | 0.83 million | holds |
| `search_coalescing_index` | the same with 2 versions; `refresh_index` promises too | | `FreshAnswers` fails |
| `daemon_caches` | 2 threads, one of which warms first; 1 index in a directory and 2 outside, room for 1 ready index, 1 edit | 0.65 million | holds |
| `daemon_caches_fresh` | 1 thread that only asks with `refresh_if_stale`, and another process | | `RefreshedBeforeUse` fails |
| `requests` | 2 repositories, 2 directories, room for 2 indexes, 38 argument records for each tool; 21 corpora and 241 queries; 56 trees, 480 edits | 108 | holds |

Why the bounds are enough. *Worker pool:* four threads give two at work with
different permits, one that sleeps and one that comes in. *Lock:* a holder and
two that race for its file; with two stale files the race repeats on a newcomer.
*Store:* what a search for a term finds depends on no other term, and shards
interact only through the files they share, for which two are enough; four
saves are a build, an ensure that adds (two saves) and a scoped refresh, so that
a directory is broken, repaired and used again. Repositories are symmetric, and
no liveness is checked there. *Coalescing:* two clients are a leader and a
follower, or an old search and a new one, and either request may be the larger.
*Caches:* one thread answers, the other changes what it answers from, and both
may find the directory stale. With room for one ready index a pinned one, one
that is read and one that is refreshed compete for it, so each load evicts. One
edit gives an old and a new version, which is what staleness needs; a second
edit repeats the first. An index file may vanish once it has its last version:
that includes the reload of a cached index that fails, and the first load that
fails, and leaves out only the same of an older version. The directory has no route in this run, so that searches
go through the manifest cache, and one in `daemon_caches_fresh`. *Requests:* two
repositories and two directories, one of which may hold both, are the least in
which "the only one" can be none, the right one, the wrong one or ambiguous;
with room for two indexes one can be evicted. Each property looks, in every
state of the caches, at every tool with every argument record; the state space
is small because the caches are all the state routing has. The corpora are all
choices of three files out of six, in which a word lies in a path, in a text, in
a name, inside another word, or only in the part of a text that is shown; the
trees have files that come, go, move, change with and without a new size or
time, grow too large, or have a NUL or no text.

Deadlock is checked in every run. `Rest` in `ShardStore` says that an idle
directory may stay as it is; only a writer at work must be able to go on.

Fairness. *Worker pool:* a thread that has a permit gives it back, and one that
can run in `acquire` does: fan-outs are bounded loops and threads are not
stopped. Nothing is assumed of new requests and spurious wake-ups. *Lock:* a
waiter keeps looping and time passes for it; nothing is assumed of removals,
which may fail for ever, and holders need not finish. *Coalescing:* threads that search go on, and
a search comes back with a result or an error; refreshes need not finish.
*Caches and requests:* none is assumed. That a sleeping thread is woken is
stated there as the invariant `WaitsEnd`: whoever it waits for is at work, and
its next step is not waiting; unlike liveness this can be proved (`NobodyIsForgotten`).

### What the passing runs show of the lock, the daemon and requests

`shard_lock` shows that every waiter gets the lock, an error or the timeout, with
one exception that `WaitersAnswered` states: `acquire` drops the error of
removing a stale file and goes round again without sleeping or looking at the
time limit (`shards.rs` 1048-1050), so a waiter may spin for as long as a stale
file is there that nobody gets removed.

`daemon_caches` shows that the caches are right but for one thing, which is
part of `CurrentUnlessTorn`: a file replaced between the read of its content and
the reading of its fingerprint is served in its old state until it changes
again. `PromisedResident` shows how far "pinned warm repos stay resident"
(`docs/shared-daemon.md` 44-46) goes: whoever evicts, until all caches are
cleared, which every refresh of any directory does, the directory's manifest
changes, or a load of the index fails. Nothing pins again until the daemon is
started again: after the first refresh warm repositories are evicted like
others, which the document does not say. The comment "Keep indexes and
pinned_indexes in sync whenever cache entries are removed" (`server.rs` 8346,
8365) is not kept where a failed load removes its entry (8056).

`requests` shows that follow-ups come back to their source (`FollowUpsStay`,
`CmdFollowUpsStay`, `CommandFormsStay`), that `daemon_status` tells the truth
(`StatusTellsRoute`) and that a refresh for one checkout leaves other shards of
a directory alone (`RefreshStaysScoped`). What it also shows is in the formulas
as exceptions, or follows from the definitions:

* From a checkout that the one registered directory does not hold, searches, maps
  and symbol lookups answer with nothing, and `search_auto` may answer from the
  one ready index of another repository (`LacksCheckout`).
* After `refresh_shards`, `index_shards` or any `refresh_if_stale` that found
  something stale, no directory is registered any more, although
  `docs/agent-protocol.md` speaks of a registered one as the default target.
* Where no directory takes a request, the one ready index is refreshed, also
  that of another repository (`RefreshesForeign`): the tools that compare it with
  the checkout do so afterwards, and `search_auto` and the tools of indexes do
  not compare at all. "With `cwd`, Orient refreshes only the active checkout's
  shard" (`docs/shared-daemon.md` 104-105) is not so there, and the property,
  being an equivalence, would fail if it were.
* A repository filter that matches no root refreshes all shards
  (`RefreshRoots`); `search_auto` registers a directory it merely looked at
  (`Probed`); the batch form selects what to refresh without the working
  directory; a retry that relaxes a search scoped by it is not scoped.
* A live command's follow-ups carry the repository "." (`main.rs` 2742-2746), so
  a daemon started elsewhere answers them from its own directory
  (`LostByDaemon`). A command that asks a daemon with nothing registered is
  answered from the daemon's directory, and a daemon's error is not replaced by
  a search in the process (`SearchAutoFinds`).
* A tool for repositories ignores an index or directory it is given while its
  retries pass it on, and a request with both `repo` and `repo_filter` means
  different repositories as a tool and as a command (`IgnoresTarget`, `TwoScopes`).

### What the failing runs show

* **Two writers after a stale lock** (`shard_lock_stale`). A waiter judges the
  file and removes the path in two steps. Two waiters judge the same left-behind
  file; the second removal takes away the lock the first has just made.
* **Fresh and not found** (`shard_store_fresh`). A refresh that stops after it
  saved an index leaves the old sketches, prefilter and route valid, and the
  index fresh. A new term in it is not found, and `refresh_if_stale` sees
  nothing to do. A full refresh repairs it (`CleanRecall` in `shard_store`).
* **Ensure drops shards** (`shard_store_ensure`), against
  `docs/shared-daemon.md`: it prunes roots that are missing at that moment.
* **Old results after `refresh_index`** (`search_coalescing_index`). The tool
  drops the completed searches of its shard without moving the epoch, so a
  search that is under way stores its old result afterwards.
* **Old results with `refresh_if_stale`** (`daemon_caches_fresh`). When another
  process has refreshed the directory, the check finds it fresh and leaves the
  completed searches alone, and looking one up compares no fingerprint.

## Proofs

The theorems hold for all values of the constants under the assumptions stated
with them in the modules (`PoolAssumption`, `LockAssumption`,
`NoOneIsNoWriter`, `CoalescingAssumption`, `CachesAssumption`,
`RoutingAssumption`, `CommandAssumption`, `InputsAssumption`,
`TreesAssumption`), which TLC evaluates in the runs. That threads and indexes
are finitely many, in `CachesAssumption`, is for counting them.

* `WorkerPoolProofs`. `PoolInv` adds to types and conservation that only a
  thread at work holds a permit: a grant overwrites what its thread holds.
  Conservation counts the workers on permits as a set of pairs; a grant adds the
  pairs of one permit and a release takes them away, disjointly. From it follows
  that the `min` in the drop never cuts anything off (`ReturnNeverSaturates`),
  which no run asks. `NoLostWakeup` is inductive with the types.
* `ShardLockProofs`. `LockInv` adds to the types that, while no file was ever
  old, nobody is about to remove one: a waiter reaches `unlink` only over a file
  that was old. From it come `FreshLockKept` and, step by step, the refinement
  `LockIsMutex`; the action `Age` maps to the abstract `Break`.
* `ShardSearchProofs`, the writers. `StoreInv` adds to the types that no stamp is ahead of
  `manifest.json`, that between the four writes the writer lists what it has
  saved, and that every listed shard is kept, still to be indexed or known to be
  missing. Without the second a derived file could get a valid stamp and other
  shards; without the third a save could drop a shard. `CleanInv` is what
  `clean` means at every step (`CleanOpens` and `CleanRecall` ask only between
  writers): a writer that keeps the promise has the index files of the shards it
  is done with, and all their terms in memory (`MemoryClean`); the derived files
  written so far say what it has in memory (`FilesWritten`); an index file is
  missing only while its shard is being dropped (`OpenOrGone`); and between
  writers the derived files have every term (`DiskClean`). That the sidecar then
  has a sketch of every shard is part of it: a scoped refresh that started
  without them would write a route that hides the shards it did not touch.
* `ShardSearchProofs`, the search. `SearchInv` says of each shard the search must not miss
  that it is still there with the term (`IndexStays`) and that no route or
  sidecar with the fingerprint the search has, or would read now, hides it
  (`Knows`): each file a writer puts there meanwhile is made from an index that
  has the term. `RouteLast` is needed for the start of a search, which may be
  led by the route at first and by the sidecar later: a valid route has what the
  sidecar of its fingerprint has. `FailsForCause` comes from `OpenOrGone`.
* `SearchCoalescingProofs`. `FreshInv`: all requests of one epoch were promised
  the same version, and whatever is kept under a key (in the cache, in flight,
  in a client's hands) is as new as the requests of its epoch were promised.
  The proof needs that promises are made only where the epoch moves; that is
  the hypothesis `DirectoriesAnnounce`, and the run `search_coalescing_index`
  shows what happens without it. `Exact` restates `InFlightExact` entry by entry: each
  entry belongs to a leader at work and has its key, each such leader has one,
  and no two lead under one key. Only `Lead` and `Remove` change this, each in
  one critical section. `LimitInv` adds to it that every result on its way, in
  an entry or in the hands of a client, is large enough for the key it is under;
  without the entries it is not inductive, since a follower gets its answer from
  one.
* `DaemonCachesProofs`. `Types` adds to `TypeOK` the fields of each thread's
  record and that the order of use lists each ready index once, which the
  eviction loop relies on. `WaitInv` gives each loading entry, in the map or in a
  thread's hands, a loader at work on that index; an entry that is no longer in
  the map keeps its loader, which is why `WaitsEnd` needs the second half.
  `ColdInv` counts: each eviction under way pays for one index above the limit,
  and leaves none above it when it ends. What `Without` leaves of the order of
  use is shown by the least place where it would go wrong, since its facts are
  about sequences of every length.
* `DaemonCachesProofs`, how new answers are. It first says what each step leaves in the
  record of its thread and in the records of others. `CurrentInv` then says that
  no file is ahead of the sources, that one thread at a time saves the manifest,
  and of each thread's record (`Fresh`) that what its request may expect is not
  ahead of the file, and that what it was answered from is that new or torn. The
  maps need no claim of their own: a hit compares the fingerprint of the entry
  with the one the file has, so an entry is the file's content or torn.
* `DaemonCachesProofs`, what stays warm. `StartInv` follows the start of the
  daemon: everybody else is idle, and at each step the indexes gone through are
  pinned and in the map, the others are not in it, and an evictor's copy of the
  pins has all of them. So at the end the whole directory is warm, and the
  history `promised` starts from it without a condition. `PromiseInv` adds to
  `PromisedResident` that who evicts spares what is promised: its copy of the
  pins was taken when all promises had been made, and a clearing that takes pins
  takes the promise first.
* `DaemonRefreshProofs`. After a request wrote version `w`, `SelfInv` says step
  by step what is at least `w`: the files of the directory at once, the indexes
  in the map once they were cleared, the completed search once the epoch moved,
  and from then on whatever a thread holds that could still store its answer.
  The theorem has two hypotheses, which the run `daemon_caches` satisfies:
  `UpdateKeys \cap DirKeys = {}`, since a `refresh_index` of a shard's own index
  that was built before the refresh may be saved after it, and `DirKeys # {}`,
  since a search over an empty directory is answered from no version at all.

* `RoutingProofs`. The invariant is only `Types`: what is registered is a
  directory and what is ready is an index file that was named. It is enough
  because every answer is a function of the caches and the arguments, so the
  properties are about all caches of these types; that an eviction may take any
  index is what makes this more than the reachable states of a run. Tools are
  grouped by the way they find their target, and for each way a lemma says what
  its follow-ups name: an index, a directory with a scope, or a repository that
  is not in doubt. A request that names its source is answered from there
  whatever is cached, and one that names none is left to the default, which the
  answer itself came from and registered. Of the constants they use
  `RoutingAssumption` and `CommandAssumption`, which type them and keep the
  three reserved names and `Dot` apart from repositories and directories;
  neither need be finite, and `Args` may be any records of the fields tools have.
  `RefreshesStayScoped` is in two halves: of a directory such a request selects
  the checkout's root only (`RefreshOfCheckout`), and the index it opens is the
  one ready index or none (`OpenedByCheckout`), which is the exception when it is
  of another repository.
* `IndexProofs`, searching. The heart of `SearchesConsistent` is
  `NothingPlanned`: the three texts differ in when they stop for a word that is
  posted nowhere, and where one stops the others come to no candidates. With
  `ListsKeep` (a file that passes the filters is in all of their lists) this
  makes `query_may_match` a consequence of any hit. `TermsAreFound` goes by the
  way a word gets its list: all terms required, any, one word in the text, in a
  path only, or in a path by its trigrams. Its proof showed that an earlier
  `OnlyInPath` said too little: a word said twice in one term is missed as well.
  The hypotheses are those of `InputsAssumption`: a word inside another has its
  trigrams only (true of substrings), one for the trigram lookup has some, a
  file has a path, and a name filter is one word.
* `IndexProofs`, refreshing. `Sound` says of a refresh that has been through the
  first `n` paths what each of them got and why, and how the three counters and
  the files that are still gone add up; it is kept by every path
  (`CandidateIsSound`). That the walk lists a path once is needed for the
  counters. `EditsHeal` follows since a stat is never newer than the text beside
  it: an entry whose stat is still right after the edit was not edited, if time
  goes forward.

Functions defined by recursion (`Once`, `FlattenSeq`, `Without`, the passes of a
refresh) are unfolded by an induction over their places (`Induct`, from the
least-element principle of the library).

Only model-checked: liveness under fairness (`SleepersWoken`, `WaitersServed`,
`WaitersAnswered`, `FollowersAnswered`), which the prover does not do, and
`SurfacesAgree`, `FollowUpsAccepted` and `RetriesRelax` of `Vocabulary`. Those
three are about definite lists of names that the code spells out and depend on
no constant, so that TLC's run through all of them is the proof.

## Not modelled

* Text: tokenising, query syntax, quoting, symbol extraction, snippets, the
  wording of hints, guides and diagnosis, output and its caps. Sequential, and
  unit tests reach it. Tokens, names and paths are words and sequences of words.
* Numbers: floating-point scores, the order of equally good results, the cap on
  candidates (never below 1024), the caps on trigram lists (`fast_index.rs`
  5273-5277: several words are looked for by the first eight lists; 1572 and
  2177: scored by the first sixteen; the three ways of choosing candidates share
  the first cap, and the second only leaves out parts of a score), the early stop of the fan-out, which compares
  scores with upper bounds of them. A model over small sets would have to invent
  the order that the properties would then be about.
* Bytes: the format of index files and posting lists, the encoding of the route,
  bloom bits. A decoder is the inverse of its encoder or it is not, for which
  round trips over many inputs are a better check than small sets; models here
  use what is encoded.
* Coalescing of query plans, freshness verdicts and route statistics
  (`server.rs` 7806-7969, 8655-8709): the code of `SearchCoalescing` with
  another type of value. The freshness verdicts also expire, and decide nothing
  but a message.
* Discovery and warmth plans: reports computed from one look at the file system;
  nothing is kept and nothing runs beside them. Warming is in `DaemonCaches`.
* Transports: a thread per connection reads a line, calls a tool and writes a
  line; threads meet only in the caches. Replacing a socket file that was left
  behind is the two-step pattern of `shard_lock_stale`, and what the loser of
  that race does is up to the operating system's sockets.
* The `rg` process of live search, its time limit and its output; merging of
  read ranges; build from Git objects; benchmarks, doctor and completion scripts.
* Lock poisoning after a panic. The file system is taken to do what `rename` and
  `fsync` promise.

## Plan

What is left, in this order:

1. The fan-out of a search over its shards with errors and the early stop, if an
   order of results can be had without scores, composed with `WorkerPool`.
2. Merging of read ranges and the plan of a warm start against reference
   definitions over bounded inputs.
