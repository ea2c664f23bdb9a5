----------------------------- MODULE ToolRouting -----------------------------
(***************************************************************************)
(* What a tool request is answered from (server.rs, ToolRuntime::          *)
(* dispatch_result): a shard directory, one index, or the repository       *)
(* itself.  A request may name it.  If it does not, the answer depends on  *)
(* what the daemon has registered and warmed, and on the client's working  *)
(* directory.  The answer carries requests for the next step (read, relate,*)
(* plan, map, retry, refresh), which the client sends later.               *)
(*                                                                         *)
(* A repository stands for its git root and for every way to select it     *)
(* (path, name, branch, origin).  What is found in it is no part of this.  *)
(***************************************************************************)
EXTENDS Naturals, FiniteSets, Functions

CONSTANTS
  Repos,       (* git repositories                                         *)
  Dirs,        (* shard directories                                        *)
  MaxReady,    (* max_ready_indexes                                        *)
  Process,     (* the repository the daemon was started in                 *)
  RootChoices, (* what the shard directories may hold                      *)
  Args         (* the arguments requests come with                         *)

None == "none"
Outside == "outside"   \* a directory in no repository
Solo == "solo"         \* the place of an index that is in no shard directory
Files == (Dirs \cup {Solo}) \X Repos
NoFile == <<None, None>>
RootOf(f) == f[2]

NoArgs == [dir |-> None, index |-> NoFile, repo |-> None, cwd |-> None,
           filter |-> None, inQuery |-> None, refresh |-> FALSE]

ASSUME RoutingAssumption ==
  /\ MaxReady \in Nat \ {0} /\ Process \in Repos \cup {Outside}
  /\ {None, Outside, Solo} \cap (Repos \cup Dirs) = {}
  /\ RootChoices \subseteq [Dirs -> SUBSET Repos]
  /\ Args \subseteq [dir : Dirs \cup {None}, index : Files \cup {NoFile},
                     repo : Repos \cup {None}, cwd : Repos \cup {None, Outside},
                     filter : Repos \cup {None}, inQuery : Repos \cup {None},
                     refresh : BOOLEAN]

VARIABLES
  registered,  (* keys of shard_manifests                                  *)
  ready,       (* keys of indexes that are ready                           *)
  roots        (* the repositories each directory has a shard of           *)

routingVars == <<registered, ready, roots>>

(* Routing reads the caches only.                                          *)
Known == [registered |-> registered, ready |-> ready]
Forgotten == [registered |-> {}, ready |-> {}]

-----------------------------------------------------------------------------
(* The client's working directory and the scope of a request               *)

TheOnly(s, none) == IF Cardinality(s) = 1 THEN CHOOSE x \in s : TRUE ELSE none
SingleDir(known) == TheOnly(known.registered, None)
SingleIndex(known) == TheOnly(known.ready, NoFile)
UnregisteredWarmed(known) ==
  {f[1] : f \in known.ready} \ (known.registered \cup {Solo})

GitRoot(a) == IF a.cwd \in Repos THEN a.cwd ELSE None

Scoped(a) ==
  IF a.filter # None \/ GitRoot(a) = None THEN a ELSE [a EXCEPT !.filter = GitRoot(a)]

ScopedForQuery(a) == IF a.inQuery # None THEN a ELSE Scoped(a)

(* search_filters with allow_repo_alias, merged with the query's filters.  *)
Scope(a) ==
  IF a.inQuery # None THEN a.inQuery ELSE IF a.repo # None THEN a.repo ELSE a.filter

LiveRepo(a) ==
  IF a.repo # None THEN a.repo ELSE IF a.cwd # None THEN a.cwd ELSE Process

AnyIndexMatches(f, a) == f # NoFile                 \* defect: of whatever repository
IndexMatches(f, a) == f # NoFile /\ GitRoot(a) # None /\ RootOf(f) = GitRoot(a)

Source(kind, at, scope, a) == [kind |-> kind, at |-> at, scope |-> scope, args |-> a]
InDir(d, a) == Source("dir", d, Scope(a), a)
InIndex(f, a) == Source("index", f, Scope(a), a)
Live(r, a) == Source("live", r, None, a)
Error(a) == Source("error", None, None, a)

-----------------------------------------------------------------------------
(* The tools.  An arm of dispatch_result says how the target is found, if  *)
(* the tool takes a query, if it honours refresh_if_stale, and which       *)
(* requests an answer from each kind of source carries.                    *)

Arm(way, query, refresh, dir, index, live) ==
  [way |-> way, query |-> query, refresh |-> refresh,
   next |-> [dir |-> dir, index |-> index, live |-> live, error |-> {}]]

Read(t) == {<<"read", t>>}
Plan(t) == {<<"plan", t>>}
Map(t) == {<<"map", t>>}
Retry(t) == {<<"retry", t>>, <<"relaxed", t>>}
Hits(read, files, symbols) == {<<"read", read>>, <<"related", files>>, <<"related", symbols>>}
LiveHits == Hits("read_range", "related_files", "related_symbols")
IndexHits == Hits("read_index_range", "related_index_files", "related_index_symbols")
ShardHits == Hits("read_shard_range", "related_shard_files", "related_shard_symbols")
Batch == Read("read_ranges") \cup Plan("search_plan") \cup Map("repo_map")

(* Tools that take any target.                                             *)
RepoMap == Arm("scoped", FALSE, TRUE, Read("read_ranges"), Read("read_ranges"), Read("read_ranges"))
ReadRange == Arm("path", FALSE, FALSE, {}, {}, {})
ReadRanges == Arm("path", FALSE, FALSE, {}, {}, {})

SearchGiven == [dir |-> LiveHits, index |-> LiveHits \cup Retry("indexed_search_code")]
Search == Arm("scoped", TRUE, TRUE, SearchGiven.dir, SearchGiven.index, LiveHits)

SearchBatchGiven == [dir |-> LiveHits \cup Batch, index |-> LiveHits \cup Batch]
SearchBatch == Arm("scoped", TRUE, TRUE, SearchBatchGiven.dir, SearchBatchGiven.index,
                   LiveHits \cup Batch)

SearchPlan == Arm("scoped", TRUE, TRUE, Retry("search"), Retry("search"), Retry("search"))
SearchPlanBatch == Arm("scoped", TRUE, TRUE, Retry("search"), Retry("search"), Retry("search"))

Symbols == Read("read_range") \cup Read("read_ranges")
FindSymbol == Arm("scoped", FALSE, FALSE, Symbols, Symbols, Symbols)
FindSymbolBatch == Arm("scoped", FALSE, FALSE, Symbols, Symbols, Symbols)
RelatedFiles == Arm("path", FALSE, FALSE, Symbols, Symbols, Symbols)
RelatedSymbols == Arm("path", FALSE, FALSE, Symbols, Symbols, Symbols)

AutoNext(plan, retry) ==
  LiveHits \cup Read("read_ranges") \cup Map("repo_map") \cup Plan(plan) \cup Retry(retry)
AutoLive == AutoNext("search_query_plan", "search_code")
AutoShards == AutoNext("shard_query_plan", "search_shards") \cup {<<"refresh", "search_auto">>}
AutoIndex == AutoNext("indexed_query_plan", "indexed_search_code") \cup {<<"refresh", "search_auto">>}
SearchAuto == Arm("auto", TRUE, TRUE, AutoShards, AutoIndex, AutoLive)
SearchAutoBatch == Arm("auto_batch", TRUE, TRUE, AutoShards, AutoIndex, AutoLive)

(* Tools for one kind of target.                                           *)
OfRepo(query, next) == Arm("repo", query, FALSE, {}, {}, next)
RepoBrief == OfRepo(FALSE, {})
WarmthPlan == OfRepo(FALSE, {})
SearchCode == OfRepo(TRUE, LiveHits)
SearchQueryPlan == OfRepo(TRUE, Retry("search_code"))
SearchQueryPlanBatch == OfRepo(TRUE, Retry("search_code"))

OfIndex(query, refresh, next) == Arm("index", query, refresh, {}, next, {})
IndexSymbols == Read("read_index_range") \cup Read("read_index_ranges")
IndexedRepoMap == OfIndex(FALSE, FALSE, Read("read_index_ranges"))
IndexedSearchCode == OfIndex(TRUE, TRUE, IndexHits \cup Retry("indexed_search_code"))
IndexedSearchBatch ==
  OfIndex(TRUE, TRUE, IndexHits \cup Retry("indexed_search_code") \cup Read("read_index_ranges")
                        \cup Plan("indexed_query_plan") \cup Map("indexed_repo_map"))
IndexedQueryPlan == OfIndex(TRUE, TRUE, Retry("indexed_search_code"))
IndexedQueryPlanBatch == OfIndex(TRUE, TRUE, Retry("indexed_search_code"))
IndexStatus == OfIndex(FALSE, FALSE, {})
ReadIndexRange == OfIndex(FALSE, FALSE, {})
ReadIndexRanges == OfIndex(FALSE, FALSE, {})
FindIndexSymbol == OfIndex(FALSE, FALSE, IndexSymbols)
FindIndexSymbolBatch == OfIndex(FALSE, FALSE, IndexSymbols)
RelatedIndexFiles == OfIndex(FALSE, FALSE, IndexSymbols)
RelatedIndexSymbols == OfIndex(FALSE, FALSE, IndexSymbols)

(* "dir": the client's working directory scopes the request as well.       *)
OfDir(query, refresh, next) == Arm("dir", query, refresh, next, {}, {})
OfWholeDir(next) == Arm("whole_dir", FALSE, FALSE, next, {}, {})
ShardSymbols == Read("read_shard_range") \cup Read("read_shard_ranges")
ShardStatus == OfDir(FALSE, FALSE, {})
SearchShards == OfDir(TRUE, TRUE, ShardHits)
SearchShardsBatch ==
  OfDir(TRUE, TRUE, ShardHits \cup Read("read_shard_ranges")
                      \cup Plan("shard_query_plan") \cup Map("shard_repo_map"))
ShardPlan == OfDir(TRUE, TRUE, Retry("search_shards"))
ShardPlanBatch == OfDir(TRUE, TRUE, Retry("search_shards"))
ShardRepoMap == OfDir(FALSE, TRUE, Read("read_shard_ranges"))
ReadShardRange == OfWholeDir({})
ReadShardRanges == OfWholeDir({})
FindShardSymbol == OfWholeDir(ShardSymbols)
FindShardSymbolBatch == OfWholeDir(ShardSymbols)
RelatedShardFiles == OfWholeDir(ShardSymbols)
RelatedShardSymbols == OfWholeDir(ShardSymbols)

Arms == [
  repo_brief |-> RepoBrief, warmth_plan |-> WarmthPlan, repo_map |-> RepoMap,
  indexed_repo_map |-> IndexedRepoMap, shard_repo_map |-> ShardRepoMap,
  read_range |-> ReadRange, read_ranges |-> ReadRanges,
  read_index_range |-> ReadIndexRange, read_index_ranges |-> ReadIndexRanges,
  read_shard_range |-> ReadShardRange, read_shard_ranges |-> ReadShardRanges,
  search_code |-> SearchCode, search |-> Search, search_batch |-> SearchBatch,
  search_auto |-> SearchAuto, search_auto_batch |-> SearchAutoBatch,
  search_query_plan |-> SearchQueryPlan, search_query_plan_batch |-> SearchQueryPlanBatch,
  search_plan |-> SearchPlan, search_plan_batch |-> SearchPlanBatch,
  indexed_search_code |-> IndexedSearchCode, indexed_search_batch |-> IndexedSearchBatch,
  indexed_query_plan |-> IndexedQueryPlan, indexed_query_plan_batch |-> IndexedQueryPlanBatch,
  index_status |-> IndexStatus, shard_status |-> ShardStatus,
  search_shards |-> SearchShards, search_shards_batch |-> SearchShardsBatch,
  shard_query_plan |-> ShardPlan, shard_query_plan_batch |-> ShardPlanBatch,
  find_symbol |-> FindSymbol, find_symbol_batch |-> FindSymbolBatch,
  find_index_symbol |-> FindIndexSymbol, find_index_symbol_batch |-> FindIndexSymbolBatch,
  find_shard_symbol |-> FindShardSymbol, find_shard_symbol_batch |-> FindShardSymbolBatch,
  related_files |-> RelatedFiles, related_symbols |-> RelatedSymbols,
  related_index_files |-> RelatedIndexFiles, related_index_symbols |-> RelatedIndexSymbols,
  related_shard_files |-> RelatedShardFiles, related_shard_symbols |-> RelatedShardSymbols ]

Tools == DOMAIN Arms
Request(tool, a) == [tool |-> tool, args |-> a]
Requests ==
  {q \in [tool : Tools, args : Args] : q.args.inQuery # None => Arms[q.tool].query}

-----------------------------------------------------------------------------
(* Which source answers                                                    *)

(* A path tool leaves the registered directory aside when it has no shard  *)
(* of the client's repository; the others ask it whatever it holds.        *)
InRegisteredDir(arm, a, known) ==
  /\ a.cwd # None /\ SingleDir(known) # None
  /\ arm.way = "scoped" \/ GitRoot(a) \in roots[SingleDir(known)]

AnyTarget(arm, a, known) ==
  LET scoped == IF arm.query THEN ScopedForQuery(a) ELSE Scoped(a)
      mine == IF arm.way = "path" THEN [a EXCEPT !.filter = GitRoot(a)] ELSE scoped
  IN  IF a.dir # None /\ a.index # NoFile THEN Error(a)
      ELSE IF a.dir # None THEN InDir(a.dir, a)
      ELSE IF a.index # NoFile THEN InIndex(a.index, a)
      ELSE IF InRegisteredDir(arm, a, known) THEN InDir(SingleDir(known), mine)
      ELSE IF a.cwd # None /\ IndexMatches(SingleIndex(known), a)
        THEN InIndex(SingleIndex(known), mine)
      ELSE Live(LiveRepo(a), a)

IndexTarget(a, known) ==
  LET f == IF a.index # NoFile THEN a.index ELSE SingleIndex(known)
  IN  IF f = NoFile THEN Error(a) ELSE InIndex(f, a)

DirTarget(arm, a, known) ==
  LET d == IF a.dir # None THEN a.dir ELSE SingleDir(known)
      scoped == IF arm.way = "whole_dir" THEN a
                ELSE IF arm.query THEN ScopedForQuery(a) ELSE Scoped(a)
  IN  IF d = None THEN Error(a) ELSE InDir(d, scoped)

RepoTarget(a) == IF a.repo = None THEN Error(a) ELSE Live(a.repo, a)

MatchesScope(d, a) ==
  \/ a.cwd = None \/ ScopedForQuery(a).filter = None
  \/ Scope(ScopedForQuery(a)) \in roots[d]

AutoTarget(a, known) ==
  LET scoped == ScopedForQuery(a)
      warmed == TheOnly(UnregisteredWarmed(known), None)
      fits(d) == d # None /\ MatchesScope(d, a)
  IN  IF a.dir # None THEN InDir(a.dir, a)
      ELSE IF a.index # NoFile THEN InIndex(a.index, a)
      ELSE IF a.repo # None THEN Live(a.repo, a)
      ELSE IF fits(SingleDir(known)) THEN InDir(SingleDir(known), scoped)
      ELSE IF fits(warmed) THEN InDir(warmed, scoped)
      ELSE IF SingleIndex(known) # NoFile THEN InIndex(SingleIndex(known), scoped)
      ELSE Live(LiveRepo(a), scoped)

(* The directory a batch refreshes once; the batch then stays with it.     *)
BatchRefreshTarget(a, known) ==
  IF a.dir # None THEN a.dir
  ELSE IF a.index # NoFile \/ a.repo # None THEN None
  ELSE IF SingleDir(known) # None THEN SingleDir(known)
  ELSE TheOnly(UnregisteredWarmed(known), None)

AutoBatchTarget(a, known) ==
  LET d == BatchRefreshTarget(a, known)
  IN  IF a.refresh /\ d # None
        THEN InDir(d, IF a.dir # None THEN a ELSE ScopedForQuery(a))
        ELSE AutoTarget(a, known)

Answer(q, known) ==
  LET arm == Arms[q.tool]
  IN  CASE arm.way \in {"scoped", "path"} -> AnyTarget(arm, q.args, known)
        [] arm.way = "index" -> IndexTarget(q.args, known)
        [] arm.way \in {"dir", "whole_dir"} -> DirTarget(arm, q.args, known)
        [] arm.way = "repo" -> RepoTarget(q.args)
        [] arm.way = "auto" -> AutoTarget(q.args, known)
        [] OTHER -> AutoBatchTarget(q.args, known)

-----------------------------------------------------------------------------
(* The requests an answer carries                                          *)

Target(s, a) ==
  CASE s.kind = "dir" -> [a EXCEPT !.dir = s.at, !.index = NoFile]
    [] s.kind = "index" -> [a EXCEPT !.index = s.at, !.dir = None]
    [] OTHER -> [a EXCEPT !.repo = s.at]

(* Searches pass their filters on to the related tools as repo_filter.     *)
RelatedArgs(s) ==
  Target(s, [NoArgs EXCEPT !.filter =
               IF s.args.repo # None /\ s.kind # "live" THEN s.args.repo ELSE s.args.filter])

PlanArgs(s) == Target(s, [s.args EXCEPT !.cwd = None])

MapArgs(s) == Target(s, [NoArgs EXCEPT !.repo = IF s.kind = "dir" THEN s.scope ELSE None])

(* The filters the plan found active become arguments of the retry, so the *)
(* suggested query may do without them.                                    *)
RetryArgs(s) ==
  LET a == PlanArgs(s)
      kept == IF s.kind = "live" \/ s.scope = None THEN a ELSE [a EXCEPT !.repo = s.scope]
  IN  {kept, [kept EXCEPT !.inQuery = None]}

(* A relax_filters hint drops the scope.                                   *)
RelaxedArgs(s) == Target(s, [NoArgs EXCEPT !.refresh = s.args.refresh])

RefreshArgs(s) == [Target(s, s.args) EXCEPT !.refresh = TRUE]

ArgsOf(kind, s) ==
  CASE kind = "read" -> {Target(s, NoArgs)}
    [] kind = "related" -> {RelatedArgs(s)}
    [] kind = "plan" -> {PlanArgs(s)}
    [] kind = "map" -> {MapArgs(s)}
    [] kind = "retry" -> RetryArgs(s)
    [] kind = "relaxed" -> {RelaxedArgs(s)}
    [] kind = "refresh" -> {RefreshArgs(s)}

FollowUps(q, s) ==
  UNION {{[kind |-> n[1], request |-> Request(n[2], a)] : a \in ArgsOf(n[1], s)} :
           n \in Arms[q.tool].next[s.kind]}

(* orient client-jsonl adds the directory it runs in.                      *)
AcceptsCwd ==
  {"search", "search_code", "search_batch", "search_auto", "search_auto_batch", "repo_map",
   "search_plan", "search_plan_batch", "find_symbol", "find_symbol_batch", "read_range",
   "read_ranges", "related_files", "related_symbols"}

HasTarget(a) == a.index # NoFile \/ {a.repo, a.dir, a.cwd, a.filter} # {None}

CwdAlways(q, cwd) == IF q.tool \in AcceptsCwd THEN [q EXCEPT !.args.cwd = cwd] ELSE q  \* defect
WithCwd(q, cwd) ==
  IF q.tool \in AcceptsCwd /\ ~HasTarget(q.args)
    THEN [q EXCEPT !.args.cwd = cwd] ELSE q

-----------------------------------------------------------------------------
(* What daemon_status promises                                             *)

IndexFirst(known) ==                                \* defect: the single index first
  IF SingleIndex(known) # NoFile THEN InIndex(SingleIndex(known), NoArgs)
  ELSE IF SingleDir(known) # None THEN InDir(SingleDir(known), NoArgs)
  ELSE Live(Process, NoArgs)
DefaultStatus(known) ==
  LET warmed == TheOnly(UnregisteredWarmed(known), None)
  IN  IF SingleDir(known) # None THEN InDir(SingleDir(known), NoArgs)
      ELSE IF warmed # None THEN InDir(warmed, NoArgs)
      ELSE IF SingleIndex(known) # NoFile THEN InIndex(SingleIndex(known), NoArgs)
      ELSE Live(Process, NoArgs)

DefaultMap(known) ==
  LET s == DefaultStatus(known)
  IN  Request(CASE s.kind = "dir" -> "shard_repo_map" [] s.kind = "index" -> "indexed_repo_map"
                [] OTHER -> "repo_map", Target(s, NoArgs))

DefaultPlan(known) ==
  LET s == DefaultStatus(known)
  IN  Request(CASE s.kind = "dir" -> "shard_query_plan" [] s.kind = "index" -> "indexed_query_plan"
                [] OTHER -> "search_query_plan", Target(s, NoArgs))

(* Asked with a working directory, the status suggests these instead.      *)
CwdArgs(r) == [NoArgs EXCEPT !.cwd = r, !.refresh = TRUE]
CwdDefaults(r) ==
  {Request(t, CwdArgs(r)) : t \in {"repo_map", "search_auto", "search_auto_batch", "search_plan"}}

-----------------------------------------------------------------------------
(* refresh_if_stale                                                        *)

(* The roots of a directory that a request looks at and refreshes.         *)
FilterRoots(a) == {a.filter} \ {None}              \* defect: the working directory is not asked
ScopedRoots(a) ==
  IF GitRoot(a) # None /\ a.filter \in {None, GitRoot(a)} THEN {GitRoot(a)}
  ELSE {a.filter} \ {None}

RefreshRoots(d, a) ==
  LET picked == IF Scope(a) # None THEN {Scope(a)} \cap roots[d] ELSE ScopedRoots(a)
      selected == IF picked = {} /\ Scope(a) # None THEN ScopedRoots(a) ELSE picked
  IN  IF selected = {} THEN roots[d] ELSE selected \cap roots[d]

(* The batch over a directory selects with the unscoped arguments.         *)
RefreshedShards(q, s) ==
  LET a == IF q.tool \in {"search_shards_batch", "search_auto_batch"} THEN q.args ELSE s.args
  IN  RefreshRoots(s.at, a)

(* The index a request opens: with a working directory the one ready       *)
(* index, before it is looked at whether it is of that repository.         *)
OpenedIndex(q, s, known) ==
  IF s.kind = "index" THEN s.at
  ELSE IF s.kind = "live" /\ q.args.cwd # None /\ Arms[q.tool].way \in {"scoped", "path"}
    THEN SingleIndex(known)
  ELSE NoFile

RefreshedRoots(q, s, known) ==
  LET opened == OpenedIndex(q, s, known)
  IN  IF ~q.args.refresh \/ ~Arms[q.tool].refresh THEN {}
      ELSE IF s.kind = "dir" THEN RefreshedShards(q, s)
      ELSE {RootOf(opened)} \ {None}

-----------------------------------------------------------------------------
(* What a request leaves in the caches                                     *)

(* Which indexes an eviction takes is the matter of DaemonCaches.          *)
Fits(kept, had, loaded) ==
  /\ kept \subseteq had \cup loaded
  /\ Cardinality(kept) <= MaxReady
  /\ Cardinality(had \cup loaded) <= MaxReady => kept = had \cup loaded
  /\ loaded # {} => kept \cap loaded # {}

Loads(had, loaded) == ready' \in {kept \in SUBSET Files : Fits(kept, had, loaded)}

InScope(s) == {<<s.at, r>> : r \in IF s.scope = None THEN roots[s.at] ELSE roots[s.at] \cap {s.scope}}

(* search_auto reads the manifest of a directory to see if it fits.        *)
Probed(q, known) ==
  LET warmed == TheOnly(UnregisteredWarmed(known), None)
      a == q.args
      reads == /\ a.dir = None /\ a.index = NoFile /\ a.repo = None /\ a.cwd # None
               /\ ScopedForQuery(a).filter # None
      first == {SingleDir(known)} \ {None}
      second == IF \E d \in first : MatchesScope(d, a) THEN {} ELSE {warmed} \ {None}
  IN  IF Arms[q.tool].way \in {"auto", "auto_batch"} /\ reads THEN first \cup second ELSE {}

(* A refresh that found something stale clears the caches; a search that   *)
(* has a route does not read the manifest.                                 *)
AskDir(q, s) ==
  \E cleared \in {RefreshedRoots(q, s, Known) # {}, FALSE}, loaded \in SUBSET InScope(s) :
    LET had == IF cleared THEN Forgotten
               ELSE [Known EXCEPT !.registered = @ \cup Probed(q, Known)]
    IN  /\ \/ registered' = had.registered \cup {s.at}
           \/ Arms[q.tool].query /\ registered' = had.registered
        /\ Loads(had.ready, loaded)

AskIndex(q, s) ==
  /\ registered' = registered \cup Probed(q, Known)
  /\ Loads(ready, {s.at})

AskLive(q, s) ==
  /\ registered' = registered \cup Probed(q, Known)
  /\ Loads(ready, {OpenedIndex(q, s, Known)} \ {NoFile})

Ask(q) ==
  LET s == Answer(q, Known)
  IN  /\ CASE s.kind = "dir" -> AskDir(q, s)
           [] s.kind = "index" -> AskIndex(q, s)
           [] OTHER -> AskLive(q, s)
      /\ UNCHANGED roots

(* Writers.  index_shards and refresh_shards clear the caches;             *)
(* ensure_shards registers the directory again afterwards.                 *)
RefreshShards(a) ==
  /\ a.dir # None \/ SingleDir(Known) # None
  /\ registered' = {} /\ ready' = {}
  /\ UNCHANGED roots

IndexShards ==
  /\ registered' = {} /\ ready' = {}
  /\ UNCHANGED roots

EnsureShards(d) ==
  /\ registered' = {d} /\ ready' = {}
  /\ UNCHANGED roots

RefreshIndex(f) ==
  /\ Loads(ready, {f})
  /\ UNCHANGED <<registered, roots>>

WarmIndex(f) ==
  /\ Loads(ready, {f})
  /\ UNCHANGED <<registered, roots>>

WarmShards(d) ==
  /\ registered' = registered \cup {d}
  /\ Loads(ready, {<<d, r>> : r \in roots[d]})
  /\ UNCHANGED roots

RegisterShards(d) ==
  /\ registered' = registered \cup {d}
  /\ UNCHANGED <<ready, roots>>

RoutingInit ==
  /\ registered = {} /\ ready = {}
  /\ roots \in RootChoices

Present == {f \in Files : f[1] = Solo \/ (f[1] \in Dirs /\ RootOf(f) \in roots[f[1]])}

RoutingNext ==
  \/ \E q \in Requests : Ask(q)
  \/ \E a \in Args : RefreshShards(a)
  \/ IndexShards
  \/ \E d \in Dirs : EnsureShards(d) \/ WarmShards(d) \/ RegisterShards(d)
  \/ \E f \in Present : RefreshIndex(f) \/ WarmIndex(f)

-----------------------------------------------------------------------------
(* A request that an answer carries is answered from the source of the     *)
(* answer and, if it searches or maps, within the same scope: also after   *)
(* the daemon forgot everything, and also when a client adds its working   *)
(* directory (server.rs 3308-3403, 4184-4261; main.rs 8009-8072).  A       *)
(* relaxed retry gives up the scope, and a path names its shard itself.    *)
SameSource(f, s, known) ==
  LET t == Answer(f.request, known)
  IN  /\ t.kind = s.kind /\ t.at = s.at
      /\ f.kind \in {"plan", "map", "retry", "refresh"} /\ s.kind = "dir" => t.scope = s.scope

FollowUpsStay ==
  \A q \in Requests :
    LET s == Answer(q, Known)
    IN  \A f \in FollowUps(q, s), cwd \in Repos \cup {None} :
          LET sent == IF cwd = None THEN f ELSE [f EXCEPT !.request = WithCwd(@, cwd)]
          IN  \A known \in {Known, Forgotten} : SameSource(sent, s, known)

(* A search_auto without target or working directory is answered from what *)
(* daemon_status says it will be, and so are the map and the plan that the *)
(* status suggests (server.rs 6872-6907, 11400-11455, 6970-7084).          *)
StatusTellsRoute ==
  LET told == DefaultStatus(Known)
  IN  \A q \in {Request("search_auto", NoArgs), DefaultMap(Known), DefaultPlan(Known)} :
        LET s == Answer(q, Known) IN s.kind = told.kind /\ s.at = told.at

(* A request with nothing but the client's working directory in a          *)
(* repository reaches that repository, with two exceptions in the code: a  *)
(* search, map or symbol lookup goes to the one registered directory even  *)
(* if it has no shard of the repository, and search_auto goes to the one   *)
(* ready index even if it is of another repository.                        *)
Covers(s, r) ==
  CASE s.kind = "dir" -> r \in roots[s.at] /\ s.scope = r
    [] s.kind = "index" -> RootOf(s.at) = r
    [] OTHER -> s.at = r

LacksCheckout(arm, r) ==
  CASE arm.way = "scoped" -> SingleDir(Known) # None /\ r \notin roots[SingleDir(Known)]
    [] arm.way = "auto" ->
         /\ SingleIndex(Known) # NoFile /\ RootOf(SingleIndex(Known)) # r
         /\ \A d \in {SingleDir(Known), TheOnly(UnregisteredWarmed(Known), None)} \ {None} :
              r \notin roots[d]
    [] OTHER -> FALSE

CheckoutReached ==
  \A r \in Repos, t \in Tools :
    LET arm == Arms[t]
        s == Answer(Request(t, [NoArgs EXCEPT !.cwd = r]), Known)
    IN  arm.way \in {"scoped", "path", "auto"} => (Covers(s, r) <=> ~LacksCheckout(arm, r))

(* The requests that daemon_status suggests to a client in a checkout, and *)
(* every other one that selects by the working directory alone, refresh    *)
(* nothing of another repository, with one exception in the code: where no *)
(* directory takes the request, the one ready index is refreshed before it *)
(* is looked at whether it is of the checkout, and search_auto and the     *)
(* tools of indexes do not look at all (server.rs 3497-3582, 7609-7665,    *)
(* 4579-4583, 7413, 7581-7593).  "With cwd, Orient refreshes only the      *)
(* active checkout's shard" (docs/shared-daemon.md) leaves this out.       *)
CheckoutRequests(r) ==
  {q \in Requests : /\ q.args.cwd = r /\ q.args.refresh /\ q.args.index = NoFile
                    /\ {q.args.repo, q.args.filter, q.args.inQuery} = {None}}

RefreshesForeign(q, r) ==
  LET arm == Arms[q.tool]
      f == SingleIndex(Known)
      dirs == {SingleDir(Known), TheOnly(UnregisteredWarmed(Known), None)} \ {None}
  IN  /\ arm.refresh /\ f # NoFile /\ RootOf(f) # r
      /\ CASE arm.way = "scoped" -> q.args.dir = None /\ SingleDir(Known) = None
           [] arm.way = "auto" -> q.args.dir = None /\ \A d \in dirs : r \notin roots[d]
           [] arm.way = "auto_batch" -> q.args.dir = None /\ dirs = {}
           [] OTHER -> arm.way = "index"

RefreshStaysScoped ==
  \A r \in Repos : \A q \in CwdDefaults(r) \cup CheckoutRequests(r) :
    RefreshedRoots(q, Answer(q, Known), Known) \subseteq {r} <=> ~RefreshesForeign(q, r)
==============================================================================
