----------------------------- MODULE CommandLine -----------------------------
(***************************************************************************)
(* The orient command (main.rs, run): what a command is answered from,     *)
(* which requests its answer carries, how a request is written as a        *)
(* command (repo_index.rs, cli_command_for_request), search-auto through a *)
(* daemon or without one, and the start of a daemon.                       *)
(*                                                                         *)
(* Commands take their target from flags alone.  Paths of indexes and of   *)
(* shard directories are absolute here; a repository left out is ".", the  *)
(* directory the command runs in.                                          *)
(***************************************************************************)
EXTENDS ToolRouting

CONSTANTS
  Starts,        (* the flags a daemon is started with                     *)
  DefaultLimit   (* DEFAULT_MAX_CACHED_INDEXES                             *)

Dot == "."

ASSUME CommandAssumption ==
  /\ DefaultLimit \in Nat \ {0} /\ Dot \notin Repos \cup Dirs
  /\ Starts \subseteq [indexes : SUBSET Files, dirs : SUBSET Dirs, warm : SUBSET Dirs,
                       ensured : SUBSET Dirs, repos : SUBSET Repos, limit : Nat]

-----------------------------------------------------------------------------
(* The commands, arm by arm as Arms of ToolRouting.  "any" takes --repo,   *)
(* --index or --index-dir; "auto" takes several of them and prefers the    *)
(* directory.  A bare plan has neither filters nor scope.                  *)

BarePlan(t) == {<<"bare_plan", t>>}
CmdOfDir(query, refresh, next) == Arm("dir", query, refresh, next, {}, {})

CmdIndexMap == OfIndex(FALSE, FALSE, Read("read_index_ranges"))
CmdIndexPlan == OfIndex(TRUE, TRUE, Retry("indexed_search_code"))
CmdIndexPlanBatch == OfIndex(TRUE, TRUE, Retry("indexed_search_code"))
CmdIndexedSearch == OfIndex(TRUE, TRUE, IndexHits \cup Retry("indexed_search_code"))
CmdIndexedSearchBatch ==
  OfIndex(TRUE, TRUE, IndexHits \cup Retry("indexed_search_code") \cup Read("read_index_ranges")
                        \cup Plan("indexed_query_plan") \cup Map("indexed_repo_map"))
CmdReadIndexRange == OfIndex(FALSE, FALSE, {})
CmdReadIndexRanges == OfIndex(FALSE, FALSE, {})
CmdIndexSymbol == OfIndex(FALSE, FALSE, IndexSymbols)
CmdIndexSymbolBatch == OfIndex(FALSE, FALSE, IndexSymbols)
CmdRelatedIndex == OfIndex(FALSE, FALSE, IndexSymbols)
CmdRelatedIndexSymbols == OfIndex(FALSE, FALSE, IndexSymbols)
CmdIndexStatus == OfIndex(FALSE, FALSE, {})

CmdShardStatus == CmdOfDir(FALSE, FALSE, {})
CmdSearchShards == CmdOfDir(TRUE, TRUE, ShardHits)
CmdSearchShardsBatch ==
  CmdOfDir(TRUE, TRUE, ShardHits \cup Read("read_shard_ranges")
                         \cup Plan("shard_query_plan") \cup Map("shard_repo_map"))
CmdShardPlan == CmdOfDir(TRUE, TRUE, Retry("search_shards"))
CmdShardPlanBatch == CmdOfDir(TRUE, TRUE, Retry("search_shards"))
CmdReadShardRange == CmdOfDir(FALSE, FALSE, {})
CmdReadShardRanges == CmdOfDir(FALSE, FALSE, {})
CmdShardSymbol == CmdOfDir(FALSE, FALSE, Read("read_shard_range"))
CmdShardSymbolBatch == CmdOfDir(FALSE, FALSE, ShardSymbols)
CmdShardMap == CmdOfDir(FALSE, FALSE, Read("read_shard_ranges"))
CmdRelatedShard == CmdOfDir(FALSE, FALSE, ShardSymbols)
CmdRelatedShardSymbols == CmdOfDir(FALSE, FALSE, ShardSymbols)

CmdBrief == Arm("live", FALSE, FALSE, {}, {}, {})
CmdRepoMap ==
  Arm("any", FALSE, FALSE, Read("read_ranges"), Read("read_ranges"), Read("read_ranges"))
CmdSearchPlan == Arm("any", TRUE, TRUE, Retry("search"), Retry("search"), Retry("search"))
CmdSearchPlanBatch == Arm("any", TRUE, TRUE, Retry("search"), Retry("search"), Retry("search"))
CmdReadRange == Arm("any", FALSE, FALSE, {}, {}, {})
CmdReadRanges == Arm("any", FALSE, FALSE, {}, {}, {})
CmdSearch ==
  Arm("any", TRUE, TRUE, ShardHits, IndexHits \cup Retry("indexed_search_code"), LiveHits)
CmdSymbol == Arm("any", FALSE, FALSE, Symbols, Symbols, Symbols)
CmdSymbolBatch == Arm("any", FALSE, FALSE, Symbols, Symbols, Symbols)
CmdRelated == Arm("any", FALSE, FALSE, Symbols, Symbols, Symbols)
CmdRelatedSymbols == Arm("any", FALSE, FALSE, Symbols, Symbols, Symbols)

BatchOfDir == LiveHits \cup Batch
BatchOfIndex == LiveHits \cup Batch \cup Retry("indexed_search_code")
CmdSearchBatch == Arm("any", TRUE, TRUE, BatchOfDir, BatchOfIndex, LiveHits \cup Batch)

AutoOfDir ==
  ShardHits \cup Read("read_ranges") \cup BarePlan("shard_query_plan")
    \cup Map("shard_repo_map") \cup Retry("search_shards")
AutoOfIndex ==
  IndexHits \cup Read("read_ranges") \cup BarePlan("indexed_query_plan")
    \cup Map("indexed_repo_map") \cup Retry("indexed_search_code")
AutoOfRepo ==
  LiveHits \cup Read("read_ranges") \cup BarePlan("search_query_plan")
    \cup Map("repo_map") \cup Retry("search_code")
CmdSearchAuto == Arm("auto", TRUE, TRUE, AutoOfDir, AutoOfIndex, AutoOfRepo)

AutoBatchOfDir == AutoOfDir
AutoBatchOfIndex == AutoOfIndex
AutoBatchOfRepo == AutoOfRepo
CmdSearchAutoBatch == Arm("auto", TRUE, TRUE, AutoBatchOfDir, AutoBatchOfIndex, AutoBatchOfRepo)

Cmds == [
  brief |-> CmdBrief, repo_map |-> CmdRepoMap, index_map |-> CmdIndexMap, shard_map |-> CmdShardMap,
  read_range |-> CmdReadRange, read_ranges |-> CmdReadRanges,
  read_index_range |-> CmdReadIndexRange, read_index_ranges |-> CmdReadIndexRanges,
  read_shard_range |-> CmdReadShardRange, read_shard_ranges |-> CmdReadShardRanges,
  index_plan |-> CmdIndexPlan, index_plan_batch |-> CmdIndexPlanBatch,
  search_plan |-> CmdSearchPlan, search_plan_batch |-> CmdSearchPlanBatch,
  shard_plan |-> CmdShardPlan, shard_plan_batch |-> CmdShardPlanBatch,
  search |-> CmdSearch, search_batch |-> CmdSearchBatch,
  search_auto |-> CmdSearchAuto, search_auto_batch |-> CmdSearchAutoBatch,
  indexed_search |-> CmdIndexedSearch, indexed_search_batch |-> CmdIndexedSearchBatch,
  search_shards |-> CmdSearchShards, search_shards_batch |-> CmdSearchShardsBatch,
  symbol |-> CmdSymbol, symbol_batch |-> CmdSymbolBatch,
  index_symbol |-> CmdIndexSymbol, index_symbol_batch |-> CmdIndexSymbolBatch,
  shard_symbol |-> CmdShardSymbol, shard_symbol_batch |-> CmdShardSymbolBatch,
  related |-> CmdRelated, related_symbols |-> CmdRelatedSymbols,
  related_index |-> CmdRelatedIndex, related_index_symbols |-> CmdRelatedIndexSymbols,
  related_shard |-> CmdRelatedShard, related_shard_symbols |-> CmdRelatedShardSymbols,
  index_status |-> CmdIndexStatus, shard_status |-> CmdShardStatus ]

(* --repo of a command for a directory and --repo-filter are both filter.  *)
CmdScope(a) == IF a.inQuery # None THEN a.inQuery ELSE a.filter

CmdAnswer(c, a, cwd) ==
  LET way == Cmds[c].way
      repo == IF a.repo \in {None, Dot} THEN cwd ELSE a.repo
  IN  IF \/ way = "any" /\ a.dir # None /\ a.index # NoFile
         \/ way = "dir" /\ a.dir = None
         \/ way = "index" /\ a.index = NoFile
        THEN Error(a)
      ELSE IF way \notin {"live", "index"} /\ a.dir # None
        THEN Source("dir", a.dir, CmdScope(a), a)
      ELSE IF way # "live" /\ a.index # NoFile
        THEN Source("index", a.index, CmdScope(a), a)
      ELSE Live(repo, a)

-----------------------------------------------------------------------------
(* The requests in a command's answer                                      *)

(* A command names its repository as it was given: "." stays ".".  The     *)
(* plans of search-plan name the root of the index they built.             *)
CmdTarget(c, s, a) ==
  CASE s.kind = "dir" -> [a EXCEPT !.dir = s.at]
    [] s.kind = "index" -> [a EXCEPT !.index = s.at]
    [] OTHER -> [a EXCEPT !.repo =
                   IF c \in {"search_plan", "search_plan_batch"} THEN s.at
                   ELSE IF s.args.repo = None THEN Dot ELSE s.args.repo]

CmdRelatedArgs(c, s) == CmdTarget(c, s, [NoArgs EXCEPT !.filter = s.args.filter])

CmdPlanArgs(c, s) ==
  CmdTarget(c, s, [NoArgs EXCEPT !.inQuery = s.args.inQuery,
                                 !.repo = IF s.kind = "dir" THEN s.scope ELSE s.args.filter])

CmdBarePlanArgs(c, s) == CmdTarget(c, s, [NoArgs EXCEPT !.inQuery = s.args.inQuery])

CmdMapArgs(c, s) ==
  CmdTarget(c, s, [NoArgs EXCEPT !.repo = IF s.kind = "dir" THEN s.scope ELSE None])

CmdRetryArgs(c, s) ==
  {CmdTarget(c, s, [NoArgs EXCEPT !.repo = s.scope, !.inQuery = q]) : q \in {None, s.args.inQuery}}

CmdRelaxedArgs(c, s) == CmdTarget(c, s, NoArgs)

CmdArgsOf(kind, c, s) ==
  CASE kind = "read" -> {CmdTarget(c, s, NoArgs)}
    [] kind = "related" -> {CmdRelatedArgs(c, s)}
    [] kind = "plan" -> {CmdPlanArgs(c, s)}
    [] kind = "bare_plan" -> {CmdBarePlanArgs(c, s)}
    [] kind = "map" -> {CmdMapArgs(c, s)}
    [] kind = "retry" -> CmdRetryArgs(c, s)
    [] kind = "relaxed" -> {CmdRelaxedArgs(c, s)}

CmdFollowUps(c, s) ==
  UNION {{[kind |-> n[1], request |-> Request(n[2], a)] : a \in CmdArgsOf(n[1], c, s)} :
           n \in Cmds[c].next[s.kind]}

(* A relative path means the directory of whoever reads it.                *)
ReadIn(q, place) == [q EXCEPT !.args.repo = IF @ = Dot THEN place ELSE @]

-----------------------------------------------------------------------------
(* A request as a command                                                  *)

Reads == {"read_range", "read_ranges", "read_index_range", "read_index_ranges",
          "read_shard_range", "read_shard_ranges"}
Maps == {"repo_map", "indexed_repo_map", "shard_repo_map"}
Plans == {"search_query_plan", "search_plan", "indexed_query_plan", "shard_query_plan"}
Relations ==
  [related_files |-> "related", related_symbols |-> "related_symbols",
   related_index_files |-> "related_index", related_index_symbols |-> "related_index_symbols",
   related_shard_files |-> "related_shard", related_shard_symbols |-> "related_shard_symbols"]
CommandOf(tool) ==
  CASE tool \in Reads -> tool
    [] tool \in Maps -> "repo_map"
    [] tool \in Plans -> "search_plan"
    [] tool \in DOMAIN Relations -> Relations[tool]
    [] OTHER -> "search"

RepoFirst(a) == IF a.repo # None THEN [dir |-> None, index |-> NoFile, repo |-> a.repo]
                ELSE [dir |-> a.dir, index |-> a.index, repo |-> None]   \* defect: repo is no filter
TargetFlags(a) ==
  IF a.dir # None THEN [dir |-> a.dir, index |-> NoFile, repo |-> None]
  ELSE IF a.index # NoFile THEN [dir |-> None, index |-> a.index, repo |-> None]
  ELSE [dir |-> None, index |-> NoFile, repo |-> a.repo]

FilterOnly(a) == a.filter                            \* defect: the repo of a plan is lost
RepoFilterFlag(a) == IF a.dir # None /\ a.filter = None THEN a.repo ELSE a.filter

(* Reads have no filter, and a map none by branch or origin.               *)
FilterFlag(q, byRepo) ==
  IF q.tool \in Reads \/ (q.tool \in Maps /\ ~byRepo) THEN None
  ELSE RepoFilterFlag(q.args)

Written(q, byRepo) ==
  LET to == TargetFlags(q.args)
  IN  [name |-> CommandOf(q.tool),
       args |-> [NoArgs EXCEPT !.dir = to.dir, !.index = to.index, !.repo = to.repo,
                               !.filter = FilterFlag(q, byRepo),
                               !.inQuery = IF Cmds[CommandOf(q.tool)].query THEN q.args.inQuery
                                           ELSE None,
                               !.refresh = q.args.refresh]]

-----------------------------------------------------------------------------
(* search-auto with a daemon                                               *)

CwdSent(a, cwd) == [a EXCEPT !.cwd = cwd]           \* defect: the daemon looks for the checkout
DaemonArgs(a, cwd) ==
  [a EXCEPT !.filter = IF @ = None /\ cwd \in Repos THEN cwd ELSE @]

DaemonStates == {"answering", "failing", "unreachable"}

SearchAutoAnswer(a, cwd, daemon, known) ==
  IF {a.dir, a.repo} = {None} /\ a.index = NoFile /\ daemon # "unreachable"
    THEN IF daemon = "failing" THEN Error(a)
         ELSE Answer(Request("search_auto", DaemonArgs(a, cwd)), known)
  ELSE CmdAnswer("search_auto", a, cwd)

-----------------------------------------------------------------------------
(* A daemon starts, with empty caches and the flags it was given           *)

Sum(f, s) == FoldFunctionOnSet(LAMBDA x, y : x + y, 0, f, s)
WarmedShards(c) == Sum([d \in Dirs |-> Cardinality(roots[d])], c.warm)
CacheLimit(c) ==
  IF c.limit # 0 THEN c.limit
  ELSE CHOOSE n \in {DefaultLimit, WarmedShards(c)} : n >= DefaultLimit /\ n >= WarmedShards(c)

StartDirs(c) == c.dirs \cup c.warm \cup c.ensured
WarmRepoShards(c) == {f \in StartDirs(c) \X c.repos : f[2] \in roots[f[1]]}
StartLoads(c) == c.indexes \cup {f \in c.warm \X Repos : f[2] \in roots[f[1]]} \cup WarmRepoShards(c)

Start(c) ==
  /\ CacheLimit(c) = MaxReady
  /\ c.repos # {} => WarmRepoShards(c) # {}
  /\ registered' = StartDirs(c)
  /\ ready' \in {kept \in SUBSET Files : Fits(kept, {}, StartLoads(c))}
  /\ UNCHANGED roots

AskThroughCli(a, cwd) ==
  LET q == Request("search_auto", DaemonArgs(a, cwd))
      s == Answer(q, Known)
  IN  /\ {a.dir, a.repo} = {None} /\ a.index = NoFile
      /\ CASE s.kind = "dir" -> AskDir(q, s)
           [] s.kind = "index" -> AskIndex(q, s)
           [] OTHER -> AskLive(q, s)
      /\ UNCHANGED roots

CommandNext ==
  \/ \E c \in Starts : Start(c)
  \/ \E a \in Args, cwd \in Repos \cup {Outside} : a.cwd = None /\ AskThroughCli(a, cwd)

Init == RoutingInit
Next == RoutingNext \/ CommandNext
Spec == Init /\ [][Next]_routingVars

\* where a property is asked that does not depend on what a daemon holds
JustStarted == registered = {} /\ ready = {}

-----------------------------------------------------------------------------
(* A request in a command's answer comes back to the same source, in the   *)
(* same scope, when it is run as a command in the same directory and when  *)
(* a daemon reads it, unless the request names the repository "." and the  *)
(* daemon was started elsewhere (main.rs 2742-2746, README.md:76-80).      *)
CmdArgsIn(a) == a.cwd = None
CmdSameSource(f, s, cwd, byRepo) ==
  LET w == Written(f.request, byRepo)
      t == CmdAnswer(w.name, w.args, cwd)
      scoped == f.kind \in {"plan", "retry"} \/ (f.kind = "map" /\ byRepo)
  IN  t.kind = s.kind /\ t.at = s.at /\ (scoped /\ s.kind = "dir" => t.scope = s.scope)

LostByDaemon(f, s) == f.request.args.repo = Dot /\ s.at # Process

CmdFollowUpsStay ==
  \A c \in DOMAIN Cmds, a \in Args, cwd \in Repos \cup {Outside} :
    a.cwd = None /\ (a.inQuery # None => Cmds[c].query) =>
      LET s == CmdAnswer(c, a, cwd)
      IN  \A f \in CmdFollowUps(c, s) :
            /\ \A byRepo \in BOOLEAN : CmdSameSource(f, s, cwd, byRepo)
            /\ SameSource([f EXCEPT !.request = ReadIn(@, Process)], s, Known)
                 <=> ~LostByDaemon(f, s)

(* The command form of a request in a daemon's answer reaches the source   *)
(* of the answer too (repo_index.rs 7552-7812).  A tool of repositories    *)
(* ignores a directory or an index it is given, but its retries pass them  *)
(* on (server.rs 4322), and the command obeys them.  A request for two     *)
(* repositories at once means the one of repo to a tool and the one of     *)
(* repo_filter to a command (server.rs 11531, repo_index.rs 7800).         *)
IgnoresTarget(q, s) == s.kind = "live" /\ (q.args.dir # None \/ q.args.index # NoFile)

TwoScopes(a) == a.dir # None /\ None \notin {a.repo, a.filter} /\ a.repo # a.filter

CommandFormsStay ==
  \A q \in Requests :
    LET s == Answer(q, Known)
    IN  \A f \in FollowUps(q, s) :
          f.kind # "refresh" /\ ~IgnoresTarget(q, s) /\ ~TwoScopes(f.request.args)
            => CmdSameSource(f, s, Outside, TRUE)

(* search-auto in a checkout: a daemon that answers is asked for the       *)
(* repository of the checkout, but chooses the source as it would for any  *)
(* client, so the answer covers the checkout only if what daemon_status    *)
(* tells does; without a daemon the checkout itself is searched, and a     *)
(* daemon that fails is not replaced (README.md:64, main.rs 4807-4826).    *)
AutoCovers(s, r) == s.kind # "error" /\ Covers(s, r)
SearchAutoFinds ==
  \A r \in Repos :
    /\ AutoCovers(SearchAutoAnswer(NoArgs, r, "answering", Known), r)
         <=> Covers([DefaultStatus(Known) EXCEPT !.scope = r], r)
    /\ AutoCovers(SearchAutoAnswer(NoArgs, r, "unreachable", Known), r)
    /\ ~AutoCovers(SearchAutoAnswer(NoArgs, r, "failing", Known), r)
==============================================================================
