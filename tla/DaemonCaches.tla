---------------------------- MODULE DaemonCaches ----------------------------
(***************************************************************************)
(* What the daemon keeps in memory and how its requests share it           *)
(* (server.rs, ToolRuntime): loaded indexes with a limit and pins, the     *)
(* manifest of a shard directory, and a completed search.                  *)
(*                                                                         *)
(* A cached value counts as current while the fingerprint stored with it   *)
(* is the one its file has.  The value is read first and its fingerprint   *)
(* taken afterwards, so a write in between leaves a "torn" entry: the      *)
(* version of the value is not the version of its fingerprint.             *)
(*                                                                         *)
(* A version counts the edits of the sources that a file was built from.   *)
(* It stands for the content and for the fingerprint: a save that changes  *)
(* nothing is not told apart.  Version 0: there is no file.                *)
(***************************************************************************)
EXTENDS Naturals, FiniteSets, Sequences

CONSTANTS
  Threads,    (* connection threads, and the one that starts the daemon    *)
  Starter,    (* who warms the directory before the daemon serves, or None *)
  DirKeys,    (* index files of the shard directory                        *)
  SoloKeys,   (* index files outside it                                    *)
  MaxReady,   (* IndexCachePolicy.max_ready_indexes                        *)
  MaxSource,  (* bound: versions of the sources, the first is 1            *)
  Asks,       (* the requests that may come in on each thread              *)
  ReadKeys,   (* the indexes that are read one by one, ...                 *)
  UpdateKeys, (* ... refreshed one by one, ...                             *)
  DeleteKeys, (* ... and whose file may be removed                         *)
  Routed,     (* the directory has a route that searches can use           *)
  Dated       (* requests with refresh_if_stale remember how new the       *)
              (* sources were when they came in (see RefreshedBeforeUse)   *)

Keys == DirKeys \cup SoloKeys
None == "none"

ASSUME CachesAssumption ==
  /\ IsFiniteSet(Threads) /\ IsFiniteSet(Keys)
  /\ DirKeys \cap SoloKeys = {} /\ None \notin Keys \cup Threads
  /\ Starter \in Threads \cup {None}
  /\ MaxReady \in Nat \ {0}
  /\ MaxSource \in Nat \ {0}
  /\ \A c \in Threads : Asks[c] \subseteq {"fresh", "refresh", "read", "update"}
  /\ ReadKeys \cup UpdateKeys \cup DeleteKeys \subseteq Keys
  /\ Routed \in BOOLEAN /\ Dated \in BOOLEAN

VARIABLES
  source,     (* version of the source trees                               *)
  file,       (* version of each index file                                *)
  manifest,   (* version of manifest.json                                  *)
  indexes,    (* ToolRuntime.indexes: the IndexCacheEntry of each key      *)
  recent,     (* its ready keys by last_access, the oldest first           *)
  pinned,     (* pinned_indexes                                            *)
  cached,     (* shard_manifests, of the one directory: [version, print]   *)
  completed,  (* completed_shard_searches, of one query and the current    *)
              (* epoch: the oldest version it was answered from, or 0      *)
  refreshing, (* shard_refresh_lock: who holds it                          *)
  t,          (* what each thread does and holds                           *)
  promised    (* keys that were warmed at the start, and that nothing has  *)
              (* dropped since but by an eviction                          *)

disk == <<source, file, manifest>>
entries == <<indexes, recent>>
memory == <<entries, pinned, cached, completed>>
vars == <<disk, memory, refreshing, t, promised>>

(* An entry is shared by those who hold its Arc.  While it loads it is     *)
(* known by its loader, who loads one index at a time.                     *)
Entry(state, by, index, print) ==
  [state |-> state, by |-> by, index |-> index, print |-> print]
NoEntry == Entry("none", None, 0, 0)
Loading(c) == Entry("loading", c, 0, 0)
Failed(c) == Entry("failed", c, 0, 0)
Ready(index, print) == Entry("ready", None, index, print)

NoManifest == [version |-> 0, print |-> 0]

Idle == [pc |-> "idle", request |-> None, todo |-> {}, key |-> None, mine |-> NoEntry,
         print |-> 0, spared |-> {}, manifest |-> NoManifest, got |-> 0,
         current |-> FALSE, wrote |-> 0, since |-> 0, manifestSince |-> 0]

(* bootstrap_runtime, before the daemon listens: warm_shard_roots.         *)
Starting == [Idle EXCEPT !.pc = "manifest", !.request = "warm", !.todo = DirKeys]

Init ==
  /\ source = 1 /\ file = [k \in Keys |-> 1] /\ manifest = 1
  /\ indexes = [k \in Keys |-> NoEntry] /\ recent = << >> /\ pinned = {}
  /\ cached = NoManifest /\ completed = 0
  /\ refreshing = None
  /\ t = [c \in Threads |-> IF c = Starter THEN Starting ELSE Idle]
  /\ promised = {}

At(c, pc) == t[c].pc = pc
Smaller(a, b) == IF a < b THEN a ELSE b
KeptAll(s, gone) == s                       \* defect: the order of use is not kept up
Without(s, gone) ==
  LET kept[n \in 0 .. Len(s)] ==
        IF n = 0 THEN << >>
        ELSE IF s[n] \in gone THEN kept[n - 1] ELSE Append(kept[n - 1], s[n])
  IN  kept[Len(s)]
Dropped(gone) == [k \in Keys |-> IF k \in gone THEN NoEntry ELSE indexes[k]]
IsReady(k) == indexes[k].state = "ready"

-----------------------------------------------------------------------------
(* Outside the daemon                                                      *)

Edit ==
  /\ source < MaxSource
  /\ source' = source + 1
  /\ UNCHANGED <<file, manifest, memory, refreshing, t, promised>>

(* A reader of k may be answered from what is there from now on.           *)
Lowered(k, version) ==
  [c \in Threads |-> IF t[c].request = "read" /\ t[c].key = k
                       THEN [t[c] EXCEPT !.since = Smaller(@, version)] ELSE t[c]]

DirSavedAs(version) == [k \in Keys |-> IF k \in DirKeys THEN version ELSE file[k]]
Unlocked == \A c \in Threads : ~At(c, "save manifest")

(* orient refresh-shards of another process, under the directory's lock.   *)
OtherProcess ==
  /\ manifest # source /\ Unlocked
  /\ manifest' = source
  /\ file' = DirSavedAs(source)
  /\ UNCHANGED <<source, memory, refreshing, t, promised>>

(* An index file vanishes; bound: only once it has its last version.       *)
Delete(k) ==
  /\ file[k] = MaxSource
  /\ file' = [file EXCEPT ![k] = 0]
  /\ t' = Lowered(k, 0)
  /\ UNCHANGED <<source, manifest, memory, refreshing, promised>>

-----------------------------------------------------------------------------
(* Requests                                                                *)

Serving == \A c \in Threads : t[c].request # "warm"

Begin(c, request, pc) ==
  /\ Serving
  /\ request \in Asks[c]
  /\ At(c, "idle")
  /\ t' = [t EXCEPT ![c] = [Idle EXCEPT !.pc = pc, !.request = request,
                              !.since = IF request = "fresh" /\ Dated THEN source ELSE 0]]
  /\ UNCHANGED <<disk, memory, refreshing, promised>>

BeginOn(c, request, pc, k) ==
  /\ Serving
  /\ request \in Asks[c]
  /\ At(c, "idle")
  /\ t' = [t EXCEPT ![c] = [Idle EXCEPT !.pc = pc, !.request = request, !.key = k,
                              !.since = IF request = "read" THEN file[k] ELSE 0]]
  /\ UNCHANGED <<disk, memory, refreshing, promised>>

Return(c) ==
  /\ At(c, "answered")
  /\ t' = [t EXCEPT ![c] = Idle]
  /\ UNCHANGED <<disk, memory, refreshing, promised>>

-----------------------------------------------------------------------------
(* refresh_shards_if_stale, and the tool refresh_shards from its third     *)
(* step on                                                                 *)

(* shard_status compares each index with its sources, and the git metadata *)
(* in the manifest, which an edit may change or not; it fails without an   *)
(* index file, and so does the request.                                    *)
Verdicts ==
  IF \E k \in DirKeys : file[k] = 0 THEN {"error"}
  ELSE IF \E k \in DirKeys : file[k] # source THEN {"stale"}
  ELSE IF manifest # source THEN {"stale", "fresh"} ELSE {"fresh"}

Checked(c, verdict, next) ==
  IF verdict = "error" THEN Idle
  ELSE [t[c] EXCEPT !.pc = IF verdict = "stale" THEN next ELSE "lookup"]

Check(c) ==
  /\ At(c, "check")
  /\ \E verdict \in Verdicts : t' = [t EXCEPT ![c] = Checked(c, verdict, "acquire")]
  /\ UNCHANGED <<disk, memory, refreshing, promised>>

Acquire(c) ==
  /\ At(c, "acquire")
  /\ refreshing = None
  /\ refreshing' = c
  /\ t' = [t EXCEPT ![c].pc = "recheck"]
  /\ UNCHANGED <<disk, memory, promised>>

Recheck(c) ==
  /\ At(c, "recheck")
  /\ \E verdict \in Verdicts :
       /\ t' = [t EXCEPT ![c] = Checked(c, verdict, "save indexes")]
       /\ refreshing' = IF verdict = "stale" THEN c ELSE None
  /\ UNCHANGED <<disk, memory, promised>>

(* refresh_shards: the indexes before the manifest (see ShardStore).       *)
SaveIndexes(c) ==
  /\ At(c, "save indexes") /\ Unlocked
  /\ file' = DirSavedAs(source)
  /\ t' = [t EXCEPT ![c].pc = "save manifest", ![c].wrote = source]
  /\ UNCHANGED <<source, manifest, memory, refreshing, promised>>

SaveManifest(c) ==
  /\ At(c, "save manifest")
  /\ manifest' = t[c].wrote
  /\ t' = [t EXCEPT ![c].pc = "clear indexes"]
  /\ UNCHANGED <<source, file, memory, refreshing, promised>>

(* clear_runtime_caches: one lock after the other.                         *)
ClearIndexes(c) ==
  /\ At(c, "clear indexes")
  /\ indexes' = Dropped(Keys) /\ recent' = << >>
  /\ t' = [t EXCEPT ![c].pc = "clear pins"]
  /\ promised' = {}
  /\ UNCHANGED <<disk, pinned, cached, completed, refreshing>>

ClearPins(c) ==
  /\ At(c, "clear pins")
  /\ pinned' = {}
  /\ t' = [t EXCEPT ![c].pc = "clear manifests"]
  /\ promised' = {}
  /\ UNCHANGED <<disk, entries, cached, completed, refreshing>>

ClearManifests(c) ==
  /\ At(c, "clear manifests")
  /\ cached' = NoManifest
  /\ t' = [t EXCEPT ![c].pc = "next epoch"]
  /\ UNCHANGED <<disk, entries, pinned, completed, refreshing, promised>>

(* invalidate_completed_shard_work_caches: searches under way keep the     *)
(* epoch they began with.  Then the guard is dropped.                      *)
SameEpoch(d) == t[d].current                \* defect: no fetch_add
NextEpoch(d) == FALSE

NextEpochStarts(c) ==
  /\ At(c, "next epoch")
  /\ completed' = 0
  /\ t' = [d \in Threads |->
             IF d # c THEN [t[d] EXCEPT !.current = NextEpoch(d)]
             ELSE IF t[c].request = "fresh" THEN [t[c] EXCEPT !.pc = "lookup"] ELSE Idle]
  /\ refreshing' = IF refreshing = c THEN None ELSE refreshing
  /\ UNCHANGED <<disk, entries, pinned, cached, promised>>

-----------------------------------------------------------------------------
(* A search of the directory: search_shards_cached                         *)

(* The completed search of the current epoch (see SearchCoalescing), or a  *)
(* search over the shards of the route, or else of the manifest.           *)
Lookup(c) ==
  /\ At(c, "lookup")
  /\ t' = [t EXCEPT ![c] =
             IF completed # 0 THEN [@ EXCEPT !.pc = "answered", !.got = completed]
             ELSE IF Routed THEN [@ EXCEPT !.pc = "visit", !.todo = DirKeys, !.current = TRUE]
             ELSE [@ EXCEPT !.pc = "manifest", !.todo = DirKeys, !.current = TRUE,
                             !.manifestSince = manifest]]
  /\ UNCHANGED <<disk, memory, refreshing, promised>>

(* cached_shard_manifest                                                   *)
Manifest(c) ==
  /\ At(c, "manifest")
  /\ t' = [t EXCEPT ![c] =
             IF cached # NoManifest /\ cached.print = manifest
               THEN [@ EXCEPT !.pc = "visit", !.manifest = cached]
             ELSE IF cached # NoManifest THEN [@ EXCEPT !.pc = "reload manifest"]
             ELSE [@ EXCEPT !.pc = "load manifest"]]
  /\ UNCHANGED <<disk, memory, refreshing, promised>>

LoadManifest(c) ==
  /\ At(c, "load manifest") \/ At(c, "reload manifest")
  /\ t' = [t EXCEPT ![c].manifest.version = manifest,
                    ![c].pc = IF At(c, "load manifest") THEN "put manifest" ELSE "evict directory"]
  /\ UNCHANGED <<disk, memory, refreshing, promised>>

(* evict_cached_indexes_in_dir; the fingerprint is taken just before.      *)
EvictDirectory(c) ==
  /\ At(c, "evict directory")
  /\ indexes' = Dropped(DirKeys) /\ recent' = Without(recent, DirKeys)
  /\ t' = [t EXCEPT ![c].pc = "unpin directory", ![c].manifest.print = manifest]
  /\ promised' = promised \ DirKeys
  /\ UNCHANGED <<disk, pinned, cached, completed, refreshing>>

UnpinDirectory(c) ==
  /\ At(c, "unpin directory")
  /\ pinned' = pinned \ DirKeys
  /\ completed' = 0
  /\ t' = [t EXCEPT ![c].pc = "put manifest"]
  /\ promised' = promised \ DirKeys
  /\ UNCHANGED <<disk, entries, cached, refreshing>>

PutManifest(c) ==
  /\ At(c, "put manifest")
  /\ LET taken == IF t[c].manifest.print = 0 THEN manifest ELSE t[c].manifest.print
         put == [t[c].manifest EXCEPT !.print = taken]
     IN  /\ cached' = put
         /\ t' = [t EXCEPT ![c].pc = "visit", ![c].manifest = put]
  /\ UNCHANGED <<disk, entries, pinned, completed, refreshing, promised>>

(* The next shard; warm_pinned_index pins it before it loads it.           *)
Visit(c, k) ==
  /\ At(c, "visit")
  /\ k \in t[c].todo
  /\ pinned' = IF t[c].request = "warm" THEN pinned \cup {k} ELSE pinned
  /\ t' = [t EXCEPT ![c].pc = "look", ![c].key = k, ![c].todo = @ \ {k},
                    ![c].manifest = NoManifest,
                    ![c].manifestSince = 0]
  /\ UNCHANGED <<disk, entries, cached, completed, refreshing, promised>>

Store(c) ==
  /\ At(c, "visit") /\ t[c].todo = {} /\ t[c].request = "fresh"
  /\ completed' = IF t[c].current THEN t[c].got ELSE completed
  /\ t' = [t EXCEPT ![c].pc = "answered", ![c].key = None, ![c].current = FALSE]
  /\ UNCHANGED <<disk, entries, pinned, cached, refreshing, promised>>

(* The directory is warm; the daemon begins to serve.                      *)
Warmed(c) ==
  /\ At(c, "visit") /\ t[c].todo = {} /\ t[c].request = "warm"
  /\ promised' = DirKeys
  /\ t' = [t EXCEPT ![c] = Idle]
  /\ UNCHANGED <<disk, memory, refreshing>>

-----------------------------------------------------------------------------
(* cached_index_with_key                                                   *)

Look(c) ==
  /\ At(c, "look")
  /\ t' = [t EXCEPT ![c].pc = "lock", ![c].print = file[t[c].key]]
  /\ UNCHANGED <<disk, memory, refreshing, promised>>

NeverStale(entry, fingerprint) == FALSE     \* defect: the fingerprint is not compared
Outdated(entry, fingerprint) ==
  entry.state = "ready" /\ fingerprint # 0 /\ entry.print # fingerprint

Lock(c) ==
  /\ At(c, "lock")
  /\ LET k == t[c].key
         stale == Outdated(indexes[k], t[c].print)
     IN  IF indexes[k] = NoEntry \/ stale
           THEN /\ indexes' = [indexes EXCEPT ![k] = Loading(c)]
                /\ recent' = Without(recent, {k})
                /\ t' = [t EXCEPT ![c].pc = IF stale THEN "invalidate" ELSE "load",
                                   ![c].print = 0]
           ELSE /\ t' = [t EXCEPT ![c].pc = "wait", ![c].mine = indexes[k], ![c].print = 0]
                /\ UNCHANGED entries
  /\ UNCHANGED <<disk, pinned, cached, completed, refreshing, promised>>

(* invalidate_completed_shard_work_for_index_path: the shards of an index  *)
(* are looked up in the cached manifest.                                   *)
Invalidated(keys) ==
  IF cached # NoManifest /\ keys \cap DirKeys # {} THEN 0 ELSE completed

Invalidate(c) ==
  /\ At(c, "invalidate")
  /\ completed' = Invalidated({t[c].key})
  /\ t' = [t EXCEPT ![c].pc = "load"]
  /\ UNCHANGED <<disk, entries, pinned, cached, refreshing, promised>>

(* FastIndex::load                                                         *)
Load(c) ==
  /\ At(c, "load")
  /\ LET version == file[t[c].key]
     IN  t' = [t EXCEPT ![c].pc = IF version = 0 THEN "fail" ELSE "ready", ![c].print = version]
  /\ UNCHANGED <<disk, memory, refreshing, promised>>

(* Those who hold the entry see what it became; notify_all wakes sleepers. *)
WokenNobody(pc) == pc                       \* defect: no notify_all
Woken(pc) == IF pc = "asleep" THEN "wait" ELSE pc

Told(c, entry, threads) ==
  [d \in Threads |-> IF threads[d].mine = Loading(c)
                       THEN [threads[d] EXCEPT !.mine = entry, !.pc = Woken(@)] ELSE threads[d]]

Answered(c, index, print) ==
  [t[c] EXCEPT !.got = IF @ = 0 THEN index ELSE Smaller(@, index), !.mine = NoEntry,
               !.print = IF t[c].request = "read" THEN print ELSE 0]

BecomeReady(c) ==
  /\ At(c, "ready")
  /\ LET k == t[c].key
         entry == Ready(t[c].print, file[k])
     IN  /\ IF indexes[k] = Loading(c)
              THEN /\ indexes' = [indexes EXCEPT ![k] = entry]
                   /\ recent' = Append(recent, k)
              ELSE UNCHANGED entries
         /\ t' = Told(c, entry, [t EXCEPT ![c] = [Answered(c, entry.index, entry.print)
                                                    EXCEPT !.pc = "evict"]])
  /\ UNCHANGED <<disk, pinned, cached, completed, refreshing, promised>>

Fail(c) ==
  /\ At(c, "fail")
  /\ LET k == t[c].key
     IN  indexes' = [indexes EXCEPT ![k] = IF @ = Loading(c) THEN Failed(c) ELSE @]
  /\ t' = Told(c, Failed(c), [t EXCEPT ![c].pc = "unmap"])
  /\ UNCHANGED <<disk, recent, pinned, cached, completed, refreshing, promised>>

(* An error ends the request, or the start of the daemon.                  *)
Failing(c) ==
  IF t[c].request = "warm" THEN [t[c] EXCEPT !.pc = "exit", !.mine = NoEntry] ELSE Idle

Unmap(c) ==
  /\ At(c, "unmap")
  /\ LET gone == {k \in {t[c].key} : indexes[k] = Failed(c)}
     IN  /\ indexes' = Dropped(gone)
         /\ promised' = promised \ gone
  /\ t' = [t EXCEPT ![c] = Failing(c)]
  /\ UNCHANGED <<disk, recent, pinned, cached, completed, refreshing>>

(* The pin is taken back, the process ends and is started once more.       *)
StartAgain(c) ==
  /\ At(c, "exit")
  /\ indexes' = Dropped(Keys) /\ recent' = << >> /\ pinned' = {}
  /\ cached' = NoManifest /\ completed' = 0
  /\ t' = [t EXCEPT ![c] = Starting]
  /\ promised' = {}
  /\ UNCHANGED <<disk, refreshing>>

AfterIndex(request) ==
  IF request = "read" THEN "answered" ELSE "visit"

Wait(c) ==
  /\ At(c, "wait")
  /\ LET k == t[c].key
         entry == t[c].mine
     IN  \/ /\ entry.state = "loading"
            /\ t' = [t EXCEPT ![c].pc = "asleep"]
            /\ UNCHANGED recent
         \/ /\ entry.state = "failed"
            /\ t' = [t EXCEPT ![c] = Failing(c)]
            /\ UNCHANGED recent
         \/ /\ Outdated(entry, file[k])
            /\ t' = [t EXCEPT ![c].pc = "look", ![c].mine = NoEntry]
            /\ UNCHANGED recent
         \/ /\ entry.state = "ready" /\ ~Outdated(entry, file[k])
            /\ recent' = IF indexes[k] = entry THEN Append(Without(recent, {k}), k) ELSE recent
            /\ t' = [t EXCEPT ![c] = [Answered(c, entry.index, entry.print)
                                        EXCEPT !.pc = AfterIndex(t[c].request)]]
  /\ UNCHANGED <<disk, indexes, pinned, cached, completed, refreshing, promised>>

-----------------------------------------------------------------------------
(* evict_cached_indexes_if_needed: the pins are copied under their own     *)
(* lock, then the oldest ready entries go that are not spared.             *)

Evict(c) ==
  /\ At(c, "evict")
  /\ t' = [t EXCEPT ![c].pc = "victims", ![c].spared = pinned]
  /\ UNCHANGED <<disk, memory, refreshing, promised>>

EvictablePinned(c) == Without(recent, {t[c].key})   \* defect: pins are not looked at
Evictable(c) == Without(recent, {t[c].key} \cup t[c].spared)

OneTooMany == IF Len(recent) > MaxReady + 1 THEN Len(recent) - MaxReady - 1 ELSE 0 \* defect
TooMany == IF Len(recent) > MaxReady THEN Len(recent) - MaxReady ELSE 0

Victims(c) ==
  LET count == Smaller(TooMany, Len(Evictable(c)))
  IN  {Evictable(c)[i] : i \in 1 .. count}

EvictVictims(c) ==
  /\ At(c, "victims")
  /\ indexes' = Dropped(Victims(c)) /\ recent' = Without(recent, Victims(c))
  /\ completed' = Invalidated(Victims(c) \cup {k \in {t[c].key} : t[c].request = "update"})
  /\ t' = [t EXCEPT ![c] = IF @.request = "update" THEN Idle
                           ELSE [@ EXCEPT !.pc = AfterIndex(t[c].request), !.spared = {}]]
  /\ UNCHANGED <<disk, pinned, cached, refreshing, promised>>

-----------------------------------------------------------------------------
(* refresh_index                                                           *)

Build(c) ==
  /\ At(c, "build")
  /\ t' = [t EXCEPT ![c].pc = "save", ![c].got = source]
  /\ UNCHANGED <<disk, memory, refreshing, promised>>

Save(c) ==
  /\ At(c, "save")
  /\ file' = [file EXCEPT ![t[c].key] = t[c].got]
  /\ t' = [Lowered(t[c].key, t[c].got) EXCEPT ![c].pc = "replace"]
  /\ UNCHANGED <<source, manifest, memory, refreshing, promised>>

(* replace_cached_index                                                    *)
Replace(c) ==
  /\ At(c, "replace")
  /\ LET k == t[c].key
     IN  /\ indexes' = [indexes EXCEPT ![k] = Ready(t[c].got, file[k])]
         /\ recent' = Append(Without(recent, {k}), k)
  /\ t' = [t EXCEPT ![c].pc = "evict"]
  /\ UNCHANGED <<disk, pinned, cached, completed, refreshing, promised>>

-----------------------------------------------------------------------------

Step(c) ==
  \/ Return(c)
  \/ Check(c) \/ Acquire(c) \/ Recheck(c) \/ SaveIndexes(c) \/ SaveManifest(c)
  \/ ClearIndexes(c) \/ ClearPins(c) \/ ClearManifests(c) \/ NextEpochStarts(c)
  \/ Lookup(c) \/ Manifest(c) \/ LoadManifest(c) \/ EvictDirectory(c) \/ UnpinDirectory(c)
  \/ PutManifest(c) \/ (\E k \in DirKeys : Visit(c, k)) \/ Store(c) \/ Warmed(c)
  \/ Look(c) \/ Lock(c) \/ Invalidate(c) \/ Load(c) \/ BecomeReady(c)
  \/ Fail(c) \/ Unmap(c) \/ StartAgain(c) \/ Wait(c) \/ Evict(c) \/ EvictVictims(c)
  \/ Build(c) \/ Save(c) \/ Replace(c)

Next ==
  \/ Edit \/ OtherProcess \/ (\E k \in DeleteKeys : Delete(k))
  \/ \E c \in Threads :
       \/ Begin(c, "fresh", "check") \/ Begin(c, "refresh", "save indexes")
       \/ \E k \in ReadKeys : BeginOn(c, "read", "look", k)
       \/ \E k \in UpdateKeys : BeginOn(c, "update", "build", k)
       \/ Step(c)

Spec == Init /\ [][Next]_vars

-----------------------------------------------------------------------------

Versions == 0 .. MaxSource
Entries == [state : {"none", "loading", "failed", "ready"}, by : Threads \cup {None},
            index : Versions, print : Versions]
Manifests == [version : Versions, print : Versions]

(* Each variable has its type; the keys in the order of use are those that *)
(* are ready, each once: what the eviction counts is what is there.        *)
TypeOK ==
  /\ source \in Versions /\ file \in [Keys -> Versions] /\ manifest \in Versions
  /\ indexes \in [Keys -> Entries]
  /\ {recent[i] : i \in DOMAIN recent} = {k \in Keys : IsReady(k)}
  /\ Len(recent) = Cardinality({k \in Keys : IsReady(k)})
  /\ pinned \subseteq Keys /\ promised \subseteq Keys
  /\ cached \in Manifests /\ completed \in Versions
  /\ refreshing \in Threads \cup {None}
  /\ \A c \in Threads : t[c].mine \in Entries /\ t[c].manifest \in Manifests
                          /\ t[c].got \in Versions /\ t[c].spared \subseteq Keys

(* refresh_if_stale: a request that found the directory stale under the    *)
(* lock and refreshed it is answered from indexes at least as new as those *)
(* it wrote, whatever other threads load, finish or store meanwhile.       *)
SelfRefreshed ==
  \A c \in Threads :
    At(c, "answered") /\ t[c].request = "fresh" => t[c].got >= t[c].wrote

(* A cached index, or manifest, is at least as new as the file was when    *)
(* the request came in, unless it was replaced between the read of the     *)
(* file and the reading of its fingerprint: nothing else, no eviction, no  *)
(* failed or overtaken load, makes the daemon serve an old file.           *)
CurrentUnlessTorn ==
  \A c \in Threads :
    /\ At(c, "answered") /\ t[c].request = "read" =>
         t[c].got >= t[c].since \/ t[c].got # t[c].print
    /\ At(c, "visit") /\ t[c].request # "warm" /\ t[c].todo = DirKeys =>
         \/ t[c].manifest.version >= t[c].manifestSince
         \/ t[c].manifest.version # t[c].manifest.print

(* "pinned warm repos stay resident" (docs/shared-daemon.md), as far as    *)
(* the code goes: what was warmed before the daemon served stays in the    *)
(* cache and pinned, whoever is evicting, until the directory's manifest   *)
(* changes, all caches are cleared (as every refresh of any directory      *)
(* does), or a load of it fails.                                           *)
PromisedResident ==
  \A k \in promised : indexes[k] # NoEntry /\ k \in pinned

(* However many threads load and evict at once, the indexes that were      *)
(* never pinned exceed the limit by no more than the evictions under way;  *)
(* eviction passes over loading, pinned and its own entry and still ends   *)
(* with few enough.                                                        *)
ColdWithinLimit ==
  Cardinality({k \in SoloKeys : IsReady(k)})
    <= MaxReady + Cardinality({c \in Threads : At(c, "evict") \/ At(c, "victims")})

(* Who sleeps until another thread has loaded an index sleeps on an entry  *)
(* whose loader is still at work on it, also when the entry was evicted,   *)
(* cleared or replaced in the map meanwhile; and who holds the refresh     *)
(* lock is on the way to give it back.  Nobody waits for a thread that is  *)
(* gone or that waits itself.                                              *)
Refreshing == {"recheck", "save indexes", "save manifest", "clear indexes", "clear pins",
               "clear manifests", "next epoch"}
WaitsEnd ==
  /\ \A c \in Threads : At(c, "asleep") =>
       \E d \in Threads : /\ t[c].mine = Loading(d) /\ t[d].key = t[c].key
                          /\ t[d].pc \in {"invalidate", "load", "ready", "fail"}
  /\ refreshing # None => t[refreshing].pc \in Refreshing

(* A request with refresh_if_stale is answered from indexes that are as    *)
(* new as the sources were when it began: the agent guide says such a call *)
(* "refreshes that shard before use".                                      *)
RefreshedBeforeUse ==
  \A c \in Threads :
    At(c, "answered") /\ t[c].request = "fresh" => t[c].got >= t[c].since
=============================================================================
