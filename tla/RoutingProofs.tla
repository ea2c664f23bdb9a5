---------------------------- MODULE RoutingProofs ---------------------------
(***************************************************************************)
(* Which source answers a request and where the requests in an answer      *)
(* lead, for every set of repositories and directories, whatever the       *)
(* daemon has registered and warmed and whatever arguments come.           *)
(***************************************************************************)
EXTENDS CommandLine, FiniteSetTheorems, TLAPS

-----------------------------------------------------------------------------
(* The tools, by the way they find their target                            *)

ScopedTools ==
  {"repo_map", "search", "search_batch", "search_plan", "search_plan_batch",
   "find_symbol", "find_symbol_batch"}
PathTools == {"read_range", "read_ranges", "related_files", "related_symbols"}
RepoTools ==
  {"repo_brief", "warmth_plan", "search_code", "search_query_plan",
   "search_query_plan_batch"}
IndexTools ==
  {"indexed_repo_map", "indexed_search_code", "indexed_search_batch",
   "indexed_query_plan", "indexed_query_plan_batch", "index_status",
   "read_index_range", "read_index_ranges", "find_index_symbol",
   "find_index_symbol_batch", "related_index_files", "related_index_symbols"}
DirTools ==
  {"shard_status", "search_shards", "search_shards_batch", "shard_query_plan",
   "shard_query_plan_batch", "shard_repo_map"}
WholeDirTools ==
  {"read_shard_range", "read_shard_ranges", "find_shard_symbol",
   "find_shard_symbol_batch", "related_shard_files", "related_shard_symbols"}

LEMMA ToolNames ==
  Tools = ScopedTools \cup PathTools \cup RepoTools \cup IndexTools \cup DirTools \cup WholeDirTools
            \cup {"search_auto", "search_auto_batch"}
<1>1. DOMAIN Arms =
       {"repo_brief", "warmth_plan", "repo_map", "indexed_repo_map", "shard_repo_map",
        "read_range", "read_ranges", "read_index_range", "read_index_ranges",
        "read_shard_range", "read_shard_ranges", "search_code", "search", "search_batch",
        "search_auto", "search_auto_batch", "search_query_plan", "search_query_plan_batch",
        "search_plan", "search_plan_batch", "indexed_search_code", "indexed_search_batch",
        "indexed_query_plan", "indexed_query_plan_batch", "index_status", "shard_status",
        "search_shards", "search_shards_batch", "shard_query_plan", "shard_query_plan_batch",
        "find_symbol", "find_symbol_batch", "find_index_symbol", "find_index_symbol_batch",
        "find_shard_symbol", "find_shard_symbol_batch", "related_files", "related_symbols",
        "related_index_files", "related_index_symbols",
        "related_shard_files", "related_shard_symbols"}
  BY DEF Arms
<1> QED BY <1>1 DEF Tools, ScopedTools, PathTools, RepoTools, IndexTools, DirTools, WholeDirTools

(* The arm of each tool.                                                   *)
LEMMA ArmOfTool ==
  /\ Arms.repo_map = RepoMap /\ Arms.search = Search
  /\ Arms.search_batch = SearchBatch /\ Arms.search_plan = SearchPlan
  /\ Arms.search_plan_batch = SearchPlanBatch /\ Arms.find_symbol = FindSymbol
  /\ Arms.find_symbol_batch = FindSymbolBatch
  /\ Arms.read_range = ReadRange /\ Arms.read_ranges = ReadRanges
  /\ Arms.related_files = RelatedFiles /\ Arms.related_symbols = RelatedSymbols
  /\ Arms.repo_brief = RepoBrief /\ Arms.warmth_plan = WarmthPlan
  /\ Arms.search_code = SearchCode /\ Arms.search_query_plan = SearchQueryPlan
  /\ Arms.search_query_plan_batch = SearchQueryPlanBatch
  /\ Arms.indexed_repo_map = IndexedRepoMap
  /\ Arms.indexed_search_code = IndexedSearchCode
  /\ Arms.indexed_search_batch = IndexedSearchBatch
  /\ Arms.indexed_query_plan = IndexedQueryPlan
  /\ Arms.indexed_query_plan_batch = IndexedQueryPlanBatch
  /\ Arms.index_status = IndexStatus /\ Arms.read_index_range = ReadIndexRange
  /\ Arms.read_index_ranges = ReadIndexRanges
  /\ Arms.find_index_symbol = FindIndexSymbol
  /\ Arms.find_index_symbol_batch = FindIndexSymbolBatch
  /\ Arms.related_index_files = RelatedIndexFiles
  /\ Arms.related_index_symbols = RelatedIndexSymbols
  /\ Arms.shard_status = ShardStatus /\ Arms.search_shards = SearchShards
  /\ Arms.search_shards_batch = SearchShardsBatch
  /\ Arms.shard_query_plan = ShardPlan
  /\ Arms.shard_query_plan_batch = ShardPlanBatch
  /\ Arms.shard_repo_map = ShardRepoMap
  /\ Arms.read_shard_range = ReadShardRange
  /\ Arms.read_shard_ranges = ReadShardRanges
  /\ Arms.find_shard_symbol = FindShardSymbol
  /\ Arms.find_shard_symbol_batch = FindShardSymbolBatch
  /\ Arms.related_shard_files = RelatedShardFiles
  /\ Arms.related_shard_symbols = RelatedShardSymbols
  /\ Arms.search_auto = SearchAuto /\ Arms.search_auto_batch = SearchAutoBatch
BY DEF Arms

LEMMA Ways ==
  /\ \A t \in ScopedTools : Arms[t].way = "scoped"
  /\ \A t \in PathTools : Arms[t].way = "path"
  /\ \A t \in RepoTools : Arms[t].way = "repo"
  /\ \A t \in IndexTools : Arms[t].way = "index"
  /\ \A t \in DirTools : Arms[t].way = "dir"
  /\ \A t \in WholeDirTools : Arms[t].way = "whole_dir"
  /\ Arms.search_auto.way = "auto" /\ Arms.search_auto_batch.way = "auto_batch"
<1>1. \A t \in ScopedTools : Arms[t].way = "scoped"
  BY ArmOfTool DEF ScopedTools, Arm, RepoMap, Search, SearchBatch, SearchPlan, SearchPlanBatch,
     FindSymbol, FindSymbolBatch
<1>2. \A t \in PathTools : Arms[t].way = "path"
  BY ArmOfTool DEF PathTools, Arm, ReadRange, ReadRanges, RelatedFiles, RelatedSymbols
<1>3. \A t \in RepoTools : Arms[t].way = "repo"
  BY ArmOfTool DEF RepoTools, OfRepo, Arm, RepoBrief, WarmthPlan, SearchCode, SearchQueryPlan,
     SearchQueryPlanBatch
<1>4. \A t \in IndexTools : Arms[t].way = "index"
  BY ArmOfTool DEF IndexTools, OfIndex, Arm, IndexedRepoMap, IndexedSearchCode, IndexedSearchBatch,
     IndexedQueryPlan, IndexedQueryPlanBatch, IndexStatus, ReadIndexRange, ReadIndexRanges,
     FindIndexSymbol, FindIndexSymbolBatch, RelatedIndexFiles, RelatedIndexSymbols
<1>5. \A t \in DirTools : Arms[t].way = "dir"
  BY ArmOfTool DEF DirTools, OfDir, Arm, ShardStatus, SearchShards, SearchShardsBatch, ShardPlan,
     ShardPlanBatch, ShardRepoMap
<1>6. \A t \in WholeDirTools : Arms[t].way = "whole_dir"
  BY ArmOfTool DEF WholeDirTools, OfWholeDir, Arm, ReadShardRange, ReadShardRanges,
     FindShardSymbol, FindShardSymbolBatch, RelatedShardFiles, RelatedShardSymbols
<1>7. Arms.search_auto.way = "auto" /\ Arms.search_auto_batch.way = "auto_batch"
  BY ArmOfTool DEF Arm, SearchAuto, SearchAutoBatch
<1> QED BY <1>1, <1>2, <1>3, <1>4, <1>5, <1>6, <1>7

-----------------------------------------------------------------------------
(* Types                                                                   *)

ArgTypes ==
  [dir : Dirs \cup {None}, index : Files \cup {NoFile}, repo : Repos \cup {None},
   cwd : Repos \cup {None, Outside}, filter : Repos \cup {None}, inQuery : Repos \cup {None},
   refresh : BOOLEAN]

(* What the caches are when a request comes or a follow-up does.           *)
Holds(known) == known.registered \subseteq Dirs /\ known.ready \subseteq Files

Types ==
  /\ registered \subseteq Dirs
  /\ ready \subseteq Files
  /\ roots \in [Dirs -> SUBSET Repos]

SourceTypes(s) ==
  /\ s.kind \in {"dir", "index", "live", "error"}
  /\ s.kind = "dir" => s.at \in Dirs /\ s.scope = Scope(s.args)
  /\ s.kind = "index" => s.at \in Files
  /\ s.kind = "live" => s.at \in Repos \cup {Outside}
  /\ s.args \in ArgTypes

LEMMA Names ==
  /\ None # Outside /\ None # Solo /\ Outside # Solo
  /\ None \notin Repos \cup Dirs /\ Outside \notin Repos \cup Dirs /\ Solo \notin Repos \cup Dirs
  /\ NoFile \notin Files
BY RoutingAssumption DEF None, Outside, Solo, NoFile, Files

LEMMA TheOnlyIn ==
  ASSUME NEW s, NEW none PROVE TheOnly(s, none) \in s \cup {none}
BY FS_EmptySet DEF TheOnly

LEMMA Singles ==
  ASSUME NEW known, Holds(known)
  PROVE  /\ SingleDir(known) \in Dirs \cup {None}
         /\ SingleIndex(known) \in Files \cup {NoFile}
         /\ UnregisteredWarmed(known) \subseteq Dirs
         /\ TheOnly(UnregisteredWarmed(known), None) \in Dirs \cup {None}
<1>1. SingleDir(known) \in known.registered \cup {None}
  BY TheOnlyIn DEF SingleDir
<1>2. SingleIndex(known) \in known.ready \cup {NoFile}
  BY TheOnlyIn DEF SingleIndex
<1>3. UnregisteredWarmed(known) \subseteq Dirs
  BY DEF UnregisteredWarmed, Holds, Files
<1> QED BY <1>1, <1>2, <1>3, TheOnlyIn DEF Holds

LEMMA ScopedTypes ==
  ASSUME NEW a \in ArgTypes
  PROVE  /\ Scoped(a) \in ArgTypes /\ ScopedForQuery(a) \in ArgTypes
         /\ GitRoot(a) \in Repos \cup {None}
         /\ [a EXCEPT !.filter = GitRoot(a)] \in ArgTypes
         /\ \A b \in {Scoped(a), ScopedForQuery(a)} : 
              b.dir = a.dir /\ b.index = a.index /\ b.repo = a.repo /\ b.cwd = a.cwd
                /\ b.inQuery = a.inQuery /\ b.refresh = a.refresh
BY DEF ArgTypes, Scoped, ScopedForQuery, GitRoot

LEMMA LiveRepoType == ASSUME NEW a \in ArgTypes PROVE LiveRepo(a) \in Repos \cup {Outside}
BY RoutingAssumption DEF LiveRepo, ArgTypes

LEMMA MadeSources ==
  ASSUME NEW a \in ArgTypes
  PROVE  /\ \A d \in Dirs : SourceTypes(InDir(d, a))
         /\ \A f \in Files : SourceTypes(InIndex(f, a))
         /\ \A r \in Repos \cup {Outside} : SourceTypes(Live(r, a))
         /\ SourceTypes(Error(a))
BY DEF SourceTypes, InDir, InIndex, Live, Error, Source

LEMMA AnswerTypes ==
  ASSUME NEW known, Holds(known), NEW q, q.args \in ArgTypes
  PROVE  SourceTypes(Answer(q, known))
<1> DEFINE a == q.args
           arm == Arms[q.tool]
<1>1. /\ a \in ArgTypes /\ a.dir \in Dirs \cup {None} /\ a.index \in Files \cup {NoFile}
      /\ a.repo \in Repos \cup {None}
  BY DEF ArgTypes
<1>2. SourceTypes(AnyTarget(arm, a, known))
  BY <1>1, Names, Singles, ScopedTypes, LiveRepoType, MadeSources DEF AnyTarget, InRegisteredDir, IndexMatches
<1>3. SourceTypes(IndexTarget(a, known))
  BY <1>1, Singles, MadeSources DEF IndexTarget
<1>4. SourceTypes(DirTarget(arm, a, known))
  BY <1>1, Singles, ScopedTypes, MadeSources DEF DirTarget
<1>5. SourceTypes(RepoTarget(a))
  BY <1>1, MadeSources DEF RepoTarget
<1>6. SourceTypes(AutoTarget(a, known))
  BY <1>1, Singles, ScopedTypes, LiveRepoType, MadeSources DEF AutoTarget
<1>7. SourceTypes(AutoBatchTarget(a, known))
  BY <1>1, <1>6, Singles, ScopedTypes, MadeSources DEF AutoBatchTarget, BatchRefreshTarget
<1> QED BY <1>2, <1>3, <1>4, <1>5, <1>6, <1>7 DEF Answer

-----------------------------------------------------------------------------
(* The types are kept                                                      *)

LEMMA LoadsTypes ==
  ASSUME NEW had, NEW loaded, Loads(had, loaded) PROVE ready' \subseteq Files
BY DEF Loads

LEMMA ProbedTypes ==
  ASSUME NEW q, NEW known, Holds(known) PROVE Probed(q, known) \subseteq Dirs
<1>1. {SingleDir(known)} \ {None} \subseteq Dirs
  BY Singles
<1>2. {TheOnly(UnregisteredWarmed(known), None)} \ {None} \subseteq Dirs
  BY Singles
<1> QED BY <1>1, <1>2 DEF Probed

LEMMA KnownHolds == ASSUME Types PROVE Holds(Known) /\ Holds(Forgotten)
BY DEF Types, Holds, Known, Forgotten

(* The three ways to be asked, for a source of these types.                *)
LEMMA AskedTypes ==
  ASSUME Types, NEW q, NEW s, SourceTypes(s), UNCHANGED roots,
         \/ s.kind = "dir" /\ AskDir(q, s)
         \/ s.kind = "index" /\ AskIndex(q, s)
         \/ AskLive(q, s)
  PROVE  Types'
<1>1. Probed(q, Known) \subseteq Dirs
  BY KnownHolds, ProbedTypes
<1>2. CASE s.kind = "dir" /\ AskDir(q, s)
  <2>1. PICK cleared \in {RefreshedRoots(q, s, Known) # {}, FALSE}, loaded \in SUBSET InScope(s) :
          LET had == IF cleared THEN Forgotten
                     ELSE [Known EXCEPT !.registered = @ \cup Probed(q, Known)]
          IN  /\ \/ registered' = had.registered \cup {s.at}
                 \/ Arms[q.tool].query /\ registered' = had.registered
              /\ Loads(had.ready, loaded)
    BY <1>2 DEF AskDir
  <2>2. registered' \subseteq Dirs
    BY <2>1, <1>1, <1>2 DEF Types, Known, Forgotten, SourceTypes
  <2>3. ready' \subseteq Files
    BY <2>1, LoadsTypes
  <2> QED BY <2>2, <2>3 DEF Types
<1>3. CASE s.kind = "index" /\ AskIndex(q, s)
  BY <1>1, <1>3, LoadsTypes DEF AskIndex, Types
<1>4. CASE AskLive(q, s)
  BY <1>1, <1>4, LoadsTypes DEF AskLive, Types
<1> QED BY <1>2, <1>3, <1>4

LEMMA AskTypes ==
  ASSUME Types, NEW q \in Requests, Ask(q) PROVE Types'
<1>1. q.args \in ArgTypes
  BY RoutingAssumption DEF Requests, ArgTypes
<1>2. SourceTypes(Answer(q, Known))
  BY <1>1, KnownHolds, AnswerTypes
<1>3. /\ UNCHANGED roots
      /\ LET s == Answer(q, Known)
         IN  \/ s.kind = "dir" /\ AskDir(q, s)
             \/ s.kind = "index" /\ AskIndex(q, s)
             \/ AskLive(q, s)
  BY DEF Ask
<1> QED BY <1>2, <1>3, AskedTypes

LEMMA AskCliTypes ==
  ASSUME Types, NEW a \in Args, NEW cwd \in Repos \cup {Outside}, AskThroughCli(a, cwd)
  PROVE  Types'
<1> DEFINE q == Request("search_auto", DaemonArgs(a, cwd))
<1>1. q.args \in ArgTypes
  BY RoutingAssumption DEF ArgTypes, DaemonArgs, Request
<1>2. SourceTypes(Answer(q, Known))
  BY <1>1, KnownHolds, AnswerTypes
<1>3. /\ UNCHANGED roots
      /\ LET s == Answer(q, Known)
         IN  \/ s.kind = "dir" /\ AskDir(q, s)
             \/ s.kind = "index" /\ AskIndex(q, s)
             \/ AskLive(q, s)
  BY DEF AskThroughCli
<1> QED BY <1>2, <1>3, AskedTypes

(* Every state of the caches is one of these types.                        *)
LEMMA TypesKept == Spec => []Types
<1>1. Init => Types
  BY RoutingAssumption DEF Init, RoutingInit, Types
<1>2. ASSUME Types, [Next]_routingVars PROVE Types'
  <2>1. ASSUME NEW q \in Requests, Ask(q) PROVE Types'
    BY <1>2, <2>1, AskTypes
  <2>2. ASSUME NEW a \in Args, RefreshShards(a) PROVE Types'
    BY <1>2, <2>2 DEF RefreshShards, Types
  <2>3. CASE IndexShards
    BY <1>2, <2>3 DEF IndexShards, Types
  <2>4. ASSUME NEW d \in Dirs, EnsureShards(d) \/ WarmShards(d) \/ RegisterShards(d) PROVE Types'
    BY <1>2, <2>4, LoadsTypes DEF EnsureShards, WarmShards, RegisterShards, Types
  <2>5. ASSUME NEW f \in Present, RefreshIndex(f) \/ WarmIndex(f) PROVE Types'
    BY <1>2, <2>5, LoadsTypes DEF RefreshIndex, WarmIndex, Types
  <2>6. ASSUME NEW c \in Starts, Start(c) PROVE Types'
    <3>1. StartDirs(c) \subseteq Dirs
      BY CommandAssumption DEF StartDirs
    <3> QED BY <1>2, <2>6, <3>1 DEF Start, Types
  <2>7. ASSUME NEW a \in Args, NEW cwd \in Repos \cup {Outside}, AskThroughCli(a, cwd) PROVE Types'
    BY <1>2, <2>7, AskCliTypes
  <2>8. CASE UNCHANGED routingVars
    BY <1>2, <2>8 DEF Types, routingVars
  <2> QED BY <1>2, <2>1, <2>2, <2>3, <2>4, <2>5, <2>6, <2>7, <2>8 DEF Next, RoutingNext, CommandNext
<1> QED BY <1>1, <1>2, PTL DEF Spec

-----------------------------------------------------------------------------
(* A request that names its target is answered from there, whatever the    *)
(* daemon knows.                                                           *)

DirWays == {"scoped", "path", "dir", "whole_dir", "auto", "auto_batch"}
IndexWays == {"scoped", "path", "index", "auto", "auto_batch"}
RepoWays == {"scoped", "path", "repo", "auto", "auto_batch"}

LEMMA AnswerOf ==
  ASSUME NEW t, NEW a, NEW known
  PROVE  LET arm == Arms[t]
             s == Answer(Request(t, a), known)
         IN  /\ arm.way \in {"scoped", "path"} => s = AnyTarget(arm, a, known)
             /\ arm.way = "index" => s = IndexTarget(a, known)
             /\ arm.way \in {"dir", "whole_dir"} => s = DirTarget(arm, a, known)
             /\ arm.way = "repo" => s = RepoTarget(a)
             /\ arm.way = "auto" => s = AutoTarget(a, known)
             /\ arm.way = "auto_batch" => s = AutoBatchTarget(a, known)
BY DEF Answer, Request

LEMMA NamedDir ==
  ASSUME NEW t, Arms[t].way \in DirWays, NEW a, a.dir # None, a.index = NoFile, NEW known
  PROVE  LET s == Answer(Request(t, a), known)
         IN  /\ s.kind = "dir" /\ s.at = a.dir
             /\ a.cwd = None \/ Arms[t].way \in {"auto", "auto_batch"} => s.scope = Scope(a)
<1>1. a.cwd = None => Scoped(a) = a /\ ScopedForQuery(a) = a
  BY Names DEF Scoped, ScopedForQuery, GitRoot
<1>2. CASE Arms[t].way \in {"scoped", "path"}
  <2>1. AnyTarget(Arms[t], a, known) = InDir(a.dir, a)
    BY DEF AnyTarget
  <2> QED BY <1>2, <2>1, AnswerOf DEF InDir, Source
<1>3. CASE Arms[t].way \in {"dir", "whole_dir"}
  BY <1>1, <1>3, AnswerOf DEF DirTarget, InDir, Source
<1>4. CASE Arms[t].way = "auto"
  BY <1>4, AnswerOf DEF AutoTarget, InDir, Source
<1>5. CASE Arms[t].way = "auto_batch"
  BY <1>5, AnswerOf DEF AutoBatchTarget, BatchRefreshTarget, AutoTarget, InDir, Source
<1> QED BY <1>2, <1>3, <1>4, <1>5 DEF DirWays

LEMMA NamedIndex ==
  ASSUME NEW t, Arms[t].way \in IndexWays, NEW a, a.index # NoFile, a.dir = None, NEW known
  PROVE  LET s == Answer(Request(t, a), known) IN s.kind = "index" /\ s.at = a.index
<1>1. CASE Arms[t].way \in {"scoped", "path"}
  <2>1. AnyTarget(Arms[t], a, known) = InIndex(a.index, a)
    BY DEF AnyTarget
  <2> QED BY <1>1, <2>1, AnswerOf DEF InIndex, Source
<1>2. CASE Arms[t].way = "index"
  BY <1>2, AnswerOf DEF IndexTarget, InIndex, Source
<1>3. CASE Arms[t].way = "auto"
  BY <1>3, AnswerOf DEF AutoTarget, InIndex, Source
<1>4. CASE Arms[t].way = "auto_batch"
  BY <1>4, AnswerOf DEF AutoBatchTarget, BatchRefreshTarget, AutoTarget, InIndex, Source
<1> QED BY <1>1, <1>2, <1>3, <1>4 DEF IndexWays

LEMMA NamedRepo ==
  ASSUME NEW t, Arms[t].way \in RepoWays, NEW a, a.repo # None, NEW known,
         Arms[t].way = "repo" \/ (a.dir = None /\ a.index = NoFile /\ a.cwd = None)
  PROVE  LET s == Answer(Request(t, a), known) IN s.kind = "live" /\ s.at = a.repo
<1>1. CASE Arms[t].way \in {"scoped", "path"}
  <2>1. AnyTarget(Arms[t], a, known) = Live(a.repo, a)
    BY <1>1 DEF AnyTarget, InRegisteredDir, LiveRepo
  <2> QED BY <1>1, <2>1, AnswerOf DEF Live, Source
<1>2. CASE Arms[t].way = "repo"
  BY <1>2, AnswerOf DEF RepoTarget, Live, Source
<1>3. CASE Arms[t].way = "auto"
  BY <1>3, AnswerOf DEF AutoTarget, Live, Source
<1>4. CASE Arms[t].way = "auto_batch"
  BY <1>4, AnswerOf DEF AutoBatchTarget, BatchRefreshTarget, AutoTarget, Live, Source
<1> QED BY <1>1, <1>2, <1>3, <1>4 DEF RepoWays

-----------------------------------------------------------------------------
(* What daemon_status promises                                             *)

(* daemon_status tells which source answers a search_auto, a map and a     *)
(* plan without target (server.rs 6872-6907, 11400-11455), in every state  *)
(* of the caches: StatusTellsRoute.                                        *)
LEMMA StatusTells == ASSUME Types PROVE StatusTellsRoute
<1> DEFINE told == DefaultStatus(Known)
           warmed == TheOnly(UnregisteredWarmed(Known), None)
<1>0. /\ NoArgs.dir = None /\ NoArgs.index = NoFile /\ NoArgs.repo = None /\ NoArgs.cwd = None
      /\ Process # None
  BY Names, RoutingAssumption DEF NoArgs
<1>1. \/ told.kind = "dir" /\ told.at # None
      \/ told.kind = "index" /\ told.at # NoFile
      \/ told.kind = "live" /\ told.at = Process
  BY DEF DefaultStatus, InDir, InIndex, Live, Source
<1>2. LET s == Answer(Request("search_auto", NoArgs), Known) IN s.kind = told.kind /\ s.at = told.at
  <2>1. Answer(Request("search_auto", NoArgs), Known) = AutoTarget(NoArgs, Known)
    BY Ways DEF Answer, Request
  <2>2. \A d : MatchesScope(d, NoArgs)
    BY <1>0 DEF MatchesScope
  <2>3. LiveRepo(NoArgs) = Process
    BY <1>0 DEF LiveRepo
  <2> QED BY <2>1, <2>2, <2>3, <1>0 DEF AutoTarget, DefaultStatus, InDir, InIndex, Live, Source
<1>3. LET a == Target(told, NoArgs)
      IN  /\ told.kind = "dir" => a.dir = told.at /\ a.index = NoFile
          /\ told.kind = "index" => a.index = told.at /\ a.dir = None
          /\ told.kind = "live" => a.repo = told.at /\ a.dir = None /\ a.index = NoFile /\ a.cwd = None
  BY <1>1 DEF Target, NoArgs
<1>4. ASSUME NEW ofDir \in DirTools, NEW ofIndex \in IndexTools,
             NEW ofRepo \in ScopedTools \cup RepoTools,
             NEW q, q = Request(CASE told.kind = "dir" -> ofDir [] told.kind = "index" -> ofIndex
                                  [] OTHER -> ofRepo, Target(told, NoArgs))
      PROVE  LET s == Answer(q, Known) IN s.kind = told.kind /\ s.at = told.at
  <2>1. CASE told.kind = "dir"
    BY <1>1, <1>3, <1>4, <2>1, Ways, NamedDir DEF DirWays
  <2>2. CASE told.kind = "index"
    BY <1>1, <1>3, <1>4, <2>2, Ways, NamedIndex DEF IndexWays
  <2>3. CASE told.kind = "live"
    BY <1>0, <1>1, <1>3, <1>4, <2>3, Ways, NamedRepo DEF RepoWays
  <2> QED BY <1>1, <2>1, <2>2, <2>3
<1>5. LET s == Answer(DefaultMap(Known), Known) IN s.kind = told.kind /\ s.at = told.at
  BY <1>4 DEF DefaultMap, DirTools, IndexTools, ScopedTools
<1>6. LET s == Answer(DefaultPlan(Known), Known) IN s.kind = told.kind /\ s.at = told.at
  BY <1>4 DEF DefaultPlan, DirTools, IndexTools, RepoTools
<1> QED BY <1>2, <1>5, <1>6 DEF StatusTellsRoute

-----------------------------------------------------------------------------
(* A request with nothing but the client's working directory               *)

LEMMA FromCheckout ==
  ASSUME NEW r \in Repos
  PROVE  LET a == [NoArgs EXCEPT !.cwd = r]
             b == [a EXCEPT !.filter = r]
         IN  /\ a.dir = None /\ a.index = NoFile /\ a.repo = None /\ a.cwd = r /\ a.cwd # None
             /\ a.filter = None /\ a.inQuery = None
             /\ GitRoot(a) = r /\ Scoped(a) = b /\ ScopedForQuery(a) = b /\ Scope(b) = r
             /\ LiveRepo(a) = r
<1> DEFINE a == [NoArgs EXCEPT !.cwd = r]
           b == [a EXCEPT !.filter = r]
<1>1. /\ a.dir = None /\ a.index = NoFile /\ a.repo = None /\ a.cwd = r /\ r # None
      /\ a.filter = None /\ a.inQuery = None
  BY Names DEF NoArgs
<1>2. b.filter = r /\ b.repo = None /\ b.inQuery = None
  BY DEF NoArgs
<1> HIDE DEF a
<1>3. GitRoot(a) = r
  BY <1>1 DEF GitRoot
<1> QED BY <1>1, <1>2, <1>3 DEF a, Scoped, ScopedForQuery, Scope, LiveRepo

LEMMA CheckoutIsReached == CheckoutReached
<1> SUFFICES ASSUME NEW r \in Repos, NEW t \in Tools,
                    Arms[t].way \in {"scoped", "path", "auto"}
             PROVE  LET s == Answer(Request(t, [NoArgs EXCEPT !.cwd = r]), Known)
                    IN  Covers(s, r) <=> ~LacksCheckout(Arms[t], r)
  BY DEF CheckoutReached
<1> DEFINE a == [NoArgs EXCEPT !.cwd = r]
           b == [a EXCEPT !.filter = r]
           s == Answer(Request(t, a), Known)
           D == SingleDir(Known)
           W == TheOnly(UnregisteredWarmed(Known), None)
           F == SingleIndex(Known)
<1>1. /\ a.dir = None /\ a.index = NoFile /\ a.repo = None /\ a.cwd = r /\ r # None
      /\ GitRoot(a) = r /\ Scoped(a) = b /\ ScopedForQuery(a) = b /\ Scope(b) = r
      /\ LiveRepo(a) = r /\ b.filter = r
  BY FromCheckout DEF NoArgs
<1>2. /\ \A d : Covers(InDir(d, b), r) <=> r \in roots[d]
      /\ \A f, x : Covers(InIndex(f, x), r) <=> RootOf(f) = r
      /\ \A x : Covers(Live(r, x), r)
  BY <1>1 DEF Covers, InDir, InIndex, Live, Source
<1> HIDE DEF a, b
<1>3. CASE Arms[t].way = "scoped"
  <2>1. s = IF D # None THEN InDir(D, b)
            ELSE IF IndexMatches(F, a) THEN InIndex(F, b) ELSE Live(r, a)
    <3>1. s = AnyTarget(Arms[t], a, Known)
      BY <1>3, AnswerOf
    <3>2. InRegisteredDir(Arms[t], a, Known) <=> D # None
      BY <1>1, <1>3 DEF InRegisteredDir
    <3>3. Arms[t].way # "path"
      BY <1>3
    <3> QED BY <1>1, <3>1, <3>2, <3>3 DEF AnyTarget
  <2>2. IndexMatches(F, a) => RootOf(F) = r
    BY <1>1 DEF IndexMatches
  <2> QED BY <1>2, <1>3, <2>1, <2>2 DEF LacksCheckout, a
<1>4. CASE Arms[t].way = "path"
  <2>1. s = IF D # None /\ r \in roots[D] THEN InDir(D, [a EXCEPT !.filter = r])
            ELSE IF IndexMatches(F, a) THEN InIndex(F, [a EXCEPT !.filter = r]) ELSE Live(r, a)
    BY <1>1, <1>4, AnswerOf DEF AnyTarget, InRegisteredDir
  <2>2. IndexMatches(F, a) => RootOf(F) = r
    BY <1>1 DEF IndexMatches
  <2> QED BY <1>2, <1>4, <2>1, <2>2 DEF LacksCheckout, a, b
<1>5. CASE Arms[t].way = "auto"
  <2>1. \A d : MatchesScope(d, a) <=> r \in roots[d]
    BY <1>1 DEF MatchesScope
  <2>2. s = IF D # None /\ r \in roots[D] THEN InDir(D, b)
            ELSE IF W # None /\ r \in roots[W] THEN InDir(W, b)
            ELSE IF F # NoFile THEN InIndex(F, b) ELSE Live(r, b)
    BY <1>1, <1>5, <2>1, AnswerOf DEF AutoTarget
  <2> QED BY <1>2, <1>5, <2>2 DEF LacksCheckout, a
<1> QED BY <1>3, <1>4, <1>5 DEF a

(* Of a directory a request that selects by the working directory alone    *)
(* refreshes the shard of that repository.                                 *)
LEMMA RefreshOfCheckout ==
  ASSUME NEW r \in Repos, NEW q, q.args \in ArgTypes, q.args.cwd = r,
         q.args.repo = None, q.args.filter = None, q.args.inQuery = None
  PROVE  LET s == Answer(q, Known)
         IN  s.kind = "dir" => RefreshedShards(q, s) \subseteq {r}
<1> DEFINE a == q.args
           arm == Arms[q.tool]
           s == Answer(q, Known)
           Mine(x) == x.filter \in {None, r} /\ x.repo = None /\ x.inQuery = None /\ x.cwd = r
<1>1. Mine(a) /\ Mine(Scoped(a)) /\ Mine(ScopedForQuery(a)) /\ Mine([a EXCEPT !.filter = GitRoot(a)])
  BY Names DEF ArgTypes, Scoped, ScopedForQuery, GitRoot
<1>2. \A d, x : /\ InDir(d, x).kind = "dir" => InDir(d, x).args = x
                /\ InIndex(d, x).kind # "dir" /\ Live(d, x).kind # "dir" /\ Error(x).kind # "dir"
  BY DEF InDir, InIndex, Live, Error, Source
<1>3. s.kind = "dir" => Mine(s.args)
  <2> DEFINE Good(x) == x.kind = "dir" => Mine(x.args)
  <2>0. /\ \A d, x : Mine(x) => Good(InDir(d, x))
        /\ \A d, x : Good(InIndex(d, x)) /\ Good(Live(d, x)) /\ Good(Error(x))
    BY <1>2
  <2> HIDE DEF Mine, Good
  <2>1. Good(AnyTarget(arm, a, Known))
    BY <1>1, <2>0 DEF AnyTarget
  <2>2. Good(IndexTarget(a, Known))
    BY <2>0 DEF IndexTarget
  <2>3. Good(DirTarget(arm, a, Known))
    BY <1>1, <2>0 DEF DirTarget
  <2>4. Good(RepoTarget(a))
    BY <2>0 DEF RepoTarget
  <2>5. Good(AutoTarget(a, Known))
    BY <1>1, <2>0 DEF AutoTarget
  <2>6. Good(AutoBatchTarget(a, Known))
    BY <1>1, <2>0, <2>5 DEF AutoBatchTarget
  <2>7. Good(s)
    BY <2>1, <2>2, <2>3, <2>4, <2>5, <2>6 DEF Answer
  <2> QED BY <2>7 DEF Good
<1>4. ASSUME NEW d, NEW x, Mine(x) PROVE RefreshRoots(d, x) \subseteq {r}
  <2>1. Scope(x) \in {None, r} /\ ScopedRoots(x) = {r}
    BY <1>4, Names DEF Scope, ScopedRoots, GitRoot
  <2> QED BY <2>1 DEF RefreshRoots
<1> QED BY <1>1, <1>3, <1>4 DEF RefreshedShards

LEMMA RefreshingTools ==
  /\ \A t \in PathTools : ~Arms[t].refresh
  /\ \A t \in Tools : Arms[t].way \in
       {"scoped", "path", "repo", "index", "dir", "whole_dir", "auto", "auto_batch"}
  /\ \A t \in Tools : Arms[t].way = "path" => t \in PathTools
<1>1. \A t \in PathTools : ~Arms[t].refresh
  BY ArmOfTool DEF PathTools, Arm, ReadRange, ReadRanges, RelatedFiles, RelatedSymbols
<1> QED BY <1>1, ToolNames, Ways

(* Which index such a request opens, and that it is the exception if it is *)
(* of another repository.                                                  *)
LEMMA OpenedByCheckout ==
  ASSUME NEW r \in Repos, NEW q, q.tool \in Tools, q.args \in ArgTypes, Arms[q.tool].refresh,
         q.args.cwd = r, q.args.refresh, q.args.index = NoFile,
         q.args.repo = None, q.args.filter = None, q.args.inQuery = None
  PROVE  LET s == Answer(q, Known)
             f == SingleIndex(Known)
         IN  IF s.kind = "dir" THEN ~RefreshesForeign(q, r)
             ELSE \/ OpenedIndex(q, s, Known) = NoFile /\ ~RefreshesForeign(q, r)
                  \/ /\ OpenedIndex(q, s, Known) = f
                     /\ RefreshesForeign(q, r) <=> f # NoFile /\ RootOf(f) # r
<1> DEFINE a == q.args
           arm == Arms[q.tool]
           s == Answer(q, Known)
           D == SingleDir(Known)
           W == TheOnly(UnregisteredWarmed(Known), None)
           F == SingleIndex(Known)
           O == OpenedIndex(q, s, Known)
           Foreign == F # NoFile /\ RootOf(F) # r
           Told == IF s.kind = "dir" THEN ~RefreshesForeign(q, r)
                   ELSE \/ O = NoFile /\ ~RefreshesForeign(q, r)
                        \/ O = F /\ (RefreshesForeign(q, r) <=> Foreign)
<1> SUFFICES Told
  OBVIOUS
<1>1. /\ a.index = NoFile /\ a.repo = None /\ a.cwd = r /\ r # None /\ a.refresh
      /\ a.dir \in Dirs \cup {None} /\ GitRoot(a) = r
  BY Names DEF ArgTypes, GitRoot
<1>2. /\ \A d, x : InDir(d, x).kind = "dir"
      /\ \A f, x : InIndex(f, x).kind = "index" /\ InIndex(f, x).at = f
      /\ \A x, y : Live(x, y).kind = "live" /\ \A z : Error(z).kind = "error"
  BY DEF InDir, InIndex, Live, Error, Source
<1>3. /\ \A f, x : s = InIndex(f, x) => O = f
      /\ \A x : s = Error(x) => O = NoFile
      /\ \A x, y : s = Live(x, y) => O = IF arm.way \in {"scoped", "path"} THEN F ELSE NoFile
  BY <1>1, <1>2 DEF OpenedIndex
<1>4. RefreshesForeign(q, r) <=>
        /\ Foreign
        /\ CASE arm.way = "scoped" -> a.dir = None /\ D = None
             [] arm.way = "auto" -> a.dir = None /\ \A d \in {D, W} \ {None} : r \notin roots[d]
             [] arm.way = "auto_batch" -> a.dir = None /\ {D, W} \ {None} = {}
             [] OTHER -> arm.way = "index"
  BY DEF RefreshesForeign
<1> HIDE DEF O, Foreign
<1>5. CASE arm.way = "scoped"
  <2>1. s = AnyTarget(arm, a, Known)
    BY <1>5 DEF Answer
  <2>2. InRegisteredDir(arm, a, Known) <=> D # None
    BY <1>1, <1>5 DEF InRegisteredDir
  <2>3. CASE a.dir # None \/ D # None
    <3>1. \E d, x : s = InDir(d, x)
      BY <1>1, <2>1, <2>2, <2>3 DEF AnyTarget
    <3> QED BY <1>2, <1>4, <1>5, <2>3, <3>1
  <2>4. CASE a.dir = None /\ D = None
    <3>1. (\E x : s = InIndex(F, x)) \/ \E x, y : s = Live(x, y)
      BY <1>1, <2>1, <2>2, <2>4 DEF AnyTarget
    <3>2. O = F /\ s.kind # "dir"
      BY <1>2, <1>3, <1>5, <3>1
    <3> QED BY <1>4, <1>5, <2>4, <3>2
  <2> QED BY <2>3, <2>4
<1>6. CASE arm.way = "path"
  BY <1>6, RefreshingTools
<1>7. CASE arm.way = "repo"
  <2>1. s = Error(a)
    BY <1>1, <1>7 DEF Answer, RepoTarget
  <2> QED BY <1>2, <1>3, <1>4, <1>7, <2>1
<1>8. CASE arm.way = "index"
  <2>1. s = IF F = NoFile THEN Error(a) ELSE InIndex(F, a)
    BY <1>1, <1>8 DEF Answer, IndexTarget
  <2>2. O = F /\ s.kind # "dir"
    BY <1>2, <1>3, <2>1
  <2> QED BY <1>4, <1>8, <2>2
<1>9. CASE arm.way \in {"dir", "whole_dir"}
  <2>1. s = Error(a) \/ \E d, x : s = InDir(d, x)
    BY <1>9 DEF Answer, DirTarget
  <2> QED BY <1>2, <1>3, <1>4, <1>9, <2>1
<1>10. ASSUME s = AutoTarget(a, Known)
       PROVE  \/ /\ s.kind = "dir"
                 /\ a.dir # None \/ \E d \in {D, W} \ {None} : r \in roots[d]
              \/ /\ s.kind # "dir" /\ a.dir = None /\ \A d \in {D, W} \ {None} : r \notin roots[d]
                 /\ \/ \E x : s = InIndex(F, x)
                    \/ F = NoFile /\ \E x, y : s = Live(x, y)
  <2>1. \A d : MatchesScope(d, a) <=> r \in roots[d]
    <3>1. /\ ScopedForQuery(a).filter = r /\ ScopedForQuery(a).repo = None
          /\ ScopedForQuery(a).inQuery = None
      BY <1>1 DEF ScopedForQuery, Scoped, ArgTypes
    <3>2. Scope(ScopedForQuery(a)) = r
      BY <3>1 DEF Scope
    <3> QED BY <1>1, <3>1, <3>2 DEF MatchesScope
  <2>2. CASE a.dir # None
    BY <1>1, <1>2, <1>10, <2>2 DEF AutoTarget
  <2>3. CASE a.dir = None
    <3>1. s = IF D # None /\ r \in roots[D] THEN InDir(D, ScopedForQuery(a))
              ELSE IF W # None /\ r \in roots[W] THEN InDir(W, ScopedForQuery(a))
              ELSE IF F # NoFile THEN InIndex(F, ScopedForQuery(a))
              ELSE Live(LiveRepo(a), ScopedForQuery(a))
      BY <1>1, <1>10, <2>1, <2>3 DEF AutoTarget
    <3> QED BY <1>2, <2>3, <3>1
  <2> QED BY <2>2, <2>3
<1>11. CASE arm.way = "auto"
  <2>1. s = AutoTarget(a, Known)
    BY <1>11 DEF Answer
  <2>2. s.kind # "dir" => O = F
    BY <1>3, <1>10, <1>11, <2>1
  <2> QED BY <1>4, <1>10, <1>11, <2>1, <2>2
<1>12. CASE arm.way = "auto_batch"
  <2>1. s = AutoBatchTarget(a, Known)
    BY <1>12 DEF Answer
  <2>2. CASE a.dir # None \/ {D, W} \ {None} # {}
    <3>1. BatchRefreshTarget(a, Known) # None
      BY <1>1, <2>2 DEF BatchRefreshTarget
    <3>2. \E d, x : s = InDir(d, x)
      BY <1>1, <2>1, <3>1 DEF AutoBatchTarget
    <3> QED BY <1>2, <1>4, <1>12, <2>2, <3>2
  <2>3. CASE a.dir = None /\ {D, W} \ {None} = {}
    <3>1. s = AutoTarget(a, Known)
      BY <1>1, <2>1, <2>3 DEF AutoBatchTarget, BatchRefreshTarget
    <3>2. s.kind # "dir" /\ O = F
      BY <1>3, <1>10, <1>12, <2>3, <3>1
    <3> QED BY <1>4, <1>12, <2>3, <3>2
  <2> QED BY <2>2, <2>3
<1> QED BY <1>5, <1>6, <1>7, <1>8, <1>9, <1>11, <1>12, RefreshingTools

LEMMA RefreshIsScoped == ASSUME Types PROVE RefreshStaysScoped
<1> SUFFICES ASSUME NEW r \in Repos, NEW q \in CwdDefaults(r) \cup CheckoutRequests(r)
             PROVE  RefreshedRoots(q, Answer(q, Known), Known) \subseteq {r} <=> ~RefreshesForeign(q, r)
  BY DEF RefreshStaysScoped
<1> DEFINE s == Answer(q, Known)
           F == SingleIndex(Known)
<1>1. /\ q.tool \in Tools /\ q.args \in ArgTypes /\ q.args.cwd = r /\ q.args.refresh
      /\ q.args.index = NoFile
      /\ q.args.repo = None /\ q.args.filter = None /\ q.args.inQuery = None
  <2>1. CASE q \in CwdDefaults(r)
    <3>1. NoArgs \in ArgTypes
      BY DEF NoArgs, ArgTypes
    <3>2. CwdArgs(r) \in ArgTypes /\ CwdArgs(r).cwd = r /\ CwdArgs(r).refresh
      BY <3>1 DEF CwdArgs, ArgTypes
    <3>3. /\ CwdArgs(r).repo = None /\ CwdArgs(r).filter = None /\ CwdArgs(r).inQuery = None
          /\ CwdArgs(r).index = NoFile
      BY DEF CwdArgs, NoArgs
    <3>4. q.args = CwdArgs(r) /\ q.tool \in {"repo_map", "search_auto", "search_auto_batch", "search_plan"}
      BY <2>1 DEF CwdDefaults, Request
    <3> QED BY <3>2, <3>3, <3>4, ToolNames DEF ScopedTools
  <2>2. CASE q \in CheckoutRequests(r)
    BY <2>2, RoutingAssumption DEF CheckoutRequests, Requests, ArgTypes
  <2> QED BY <2>1, <2>2
<1>2. F # NoFile => RootOf(F) \in Repos /\ RootOf(F) # None
  <2>1. F \in Files \cup {NoFile}
    BY KnownHolds, Singles
  <2>2. \A f \in Files : RootOf(f) \in Repos
    BY DEF Files, RootOf
  <2> QED BY <2>1, <2>2, Names
<1>3. RootOf(NoFile) = None
  BY DEF NoFile, RootOf
<1>4. CASE ~Arms[q.tool].refresh
  BY <1>4 DEF RefreshedRoots, RefreshesForeign
<1>5. CASE Arms[q.tool].refresh /\ s.kind = "dir"
  <2>1. RefreshedShards(q, s) \subseteq {r}
    BY <1>1, <1>5, RefreshOfCheckout
  <2>2. ~RefreshesForeign(q, r)
    BY <1>1, <1>5, OpenedByCheckout
  <2> QED BY <1>5, <2>1, <2>2 DEF RefreshedRoots
<1>6. CASE Arms[q.tool].refresh /\ s.kind # "dir"
  <2>1. RefreshedRoots(q, s, Known) = {RootOf(OpenedIndex(q, s, Known))} \ {None}
    BY <1>1, <1>6 DEF RefreshedRoots
  <2>2. \/ OpenedIndex(q, s, Known) = NoFile /\ ~RefreshesForeign(q, r)
        \/ /\ OpenedIndex(q, s, Known) = F
           /\ RefreshesForeign(q, r) <=> F # NoFile /\ RootOf(F) # r
    BY <1>1, <1>6, OpenedByCheckout
  <2> QED BY <1>2, <1>3, <2>1, <2>2
<1> QED BY <1>4, <1>5, <1>6

-----------------------------------------------------------------------------
(* Where the requests in an answer lead                                    *)

Retries == {"retry", "relaxed"}
DirSteps ==
  ({"read"} \X {"read_range", "read_ranges", "read_shard_range", "read_shard_ranges"})
    \cup ({"related"} \X {"related_files", "related_symbols", "related_shard_files",
                          "related_shard_symbols"})
    \cup ({"plan"} \X {"search_plan", "shard_query_plan"})
    \cup ({"map"} \X {"repo_map", "shard_repo_map"})
    \cup (Retries \X {"search", "search_shards"})
IndexSteps ==
  ({"read"} \X {"read_range", "read_ranges", "read_index_range", "read_index_ranges"})
    \cup ({"related"} \X {"related_files", "related_symbols", "related_index_files",
                          "related_index_symbols"})
    \cup ({"plan"} \X {"search_plan", "indexed_query_plan"})
    \cup ({"map"} \X {"repo_map", "indexed_repo_map"})
    \cup (Retries \X {"search", "indexed_search_code"})
RepoSteps ==
  ({"read"} \X {"read_range", "read_ranges"})
    \cup ({"related"} \X {"related_files", "related_symbols"})
    \cup ({"plan"} \X {"search_plan", "search_query_plan"})
    \cup {<<"map", "repo_map">>}
    \cup (Retries \X {"search", "search_code"})

FromDir == DirSteps \cup {<<"refresh", "search_auto">>}
FromIndex == IndexSteps \cup {<<"refresh", "search_auto">>}
FromRepo == RepoSteps

CarriedBy(arm) ==
  /\ arm.next.dir \subseteq FromDir /\ arm.next.index \subseteq FromIndex
  /\ arm.next.live \subseteq FromRepo /\ arm.next.error = {}

(* The parts that the arms put together.                                   *)
LEMMA CarriedParts ==
  /\ LiveHits \subseteq RepoSteps \cap DirSteps \cap IndexSteps
  /\ IndexHits \subseteq IndexSteps /\ ShardHits \subseteq DirSteps
  /\ Batch \subseteq RepoSteps \cap DirSteps \cap IndexSteps
  /\ Symbols \subseteq RepoSteps \cap DirSteps \cap IndexSteps
  /\ IndexSymbols \subseteq IndexSteps /\ ShardSymbols \subseteq DirSteps
  /\ Read("read_ranges") \subseteq RepoSteps \cap DirSteps \cap IndexSteps
  /\ Read("read_index_ranges") \subseteq IndexSteps /\ Read("read_shard_ranges") \subseteq DirSteps
  /\ Retry("search") \subseteq RepoSteps \cap DirSteps \cap IndexSteps
  /\ Retry("search_code") \subseteq RepoSteps
  /\ Retry("indexed_search_code") \subseteq IndexSteps
  /\ Retry("search_shards") \subseteq DirSteps
  /\ Plan("search_query_plan") \subseteq RepoSteps
  /\ Plan("indexed_query_plan") \subseteq IndexSteps /\ Plan("shard_query_plan") \subseteq DirSteps
  /\ Map("repo_map") \subseteq RepoSteps \cap DirSteps \cap IndexSteps
  /\ Map("indexed_repo_map") \subseteq IndexSteps /\ Map("shard_repo_map") \subseteq DirSteps
<1>1. /\ LiveHits \subseteq RepoSteps /\ Batch \subseteq RepoSteps /\ Symbols \subseteq RepoSteps
      /\ Read("read_ranges") \subseteq RepoSteps /\ Retry("search") \subseteq RepoSteps
      /\ Retry("search_code") \subseteq RepoSteps /\ Plan("search_query_plan") \subseteq RepoSteps
      /\ Map("repo_map") \subseteq RepoSteps
  BY DEF LiveHits, Batch, Symbols, Hits, Read, Plan, Map, Retry, RepoSteps, Retries
<1>2. /\ LiveHits \subseteq DirSteps /\ Batch \subseteq DirSteps /\ Symbols \subseteq DirSteps
      /\ ShardHits \subseteq DirSteps /\ ShardSymbols \subseteq DirSteps
      /\ Read("read_ranges") \subseteq DirSteps /\ Read("read_shard_ranges") \subseteq DirSteps
      /\ Retry("search") \subseteq DirSteps /\ Retry("search_shards") \subseteq DirSteps
      /\ Plan("shard_query_plan") \subseteq DirSteps
      /\ Map("repo_map") \subseteq DirSteps /\ Map("shard_repo_map") \subseteq DirSteps
  BY DEF LiveHits, ShardHits, Batch, Symbols, ShardSymbols, Hits, Read, Plan, Map, Retry, DirSteps, Retries
<1>3. /\ LiveHits \subseteq IndexSteps /\ Batch \subseteq IndexSteps /\ Symbols \subseteq IndexSteps
      /\ IndexHits \subseteq IndexSteps /\ IndexSymbols \subseteq IndexSteps
      /\ Read("read_ranges") \subseteq IndexSteps /\ Read("read_index_ranges") \subseteq IndexSteps
      /\ Retry("search") \subseteq IndexSteps /\ Retry("indexed_search_code") \subseteq IndexSteps
      /\ Plan("indexed_query_plan") \subseteq IndexSteps
      /\ Map("repo_map") \subseteq IndexSteps /\ Map("indexed_repo_map") \subseteq IndexSteps
  BY DEF LiveHits, IndexHits, Batch, Symbols, IndexSymbols, Hits, Read, Plan, Map, Retry, IndexSteps, Retries
<1> QED BY <1>1, <1>2, <1>3

LEMMA Carried == \A t \in Tools : CarriedBy(Arms[t])
<1>a. \A way, query, refresh, dir, index, live :
         dir \subseteq FromDir /\ index \subseteq FromIndex /\ live \subseteq FromRepo
           => CarriedBy(Arm(way, query, refresh, dir, index, live))
  BY DEF CarriedBy, Arm
<1> HIDE DEF CarriedBy
<1>b. \A way, query, refresh, dir, index, live :
         dir \subseteq DirSteps /\ index \subseteq IndexSteps /\ live \subseteq RepoSteps
           => CarriedBy(Arm(way, query, refresh, dir, index, live))
  BY <1>a DEF FromDir, FromIndex, FromRepo
<1>1. \A t \in ScopedTools : CarriedBy(Arms[t])
  <2>1. CarriedBy(Search)
    <3>1. SearchGiven.dir \subseteq DirSteps /\ SearchGiven.index \subseteq IndexSteps
      BY CarriedParts DEF SearchGiven
    <3> QED BY <1>b, <3>1, CarriedParts DEF Search
  <2>2. CarriedBy(SearchBatch)
    <3>1. /\ SearchBatchGiven.dir \subseteq DirSteps /\ SearchBatchGiven.index \subseteq IndexSteps
          /\ LiveHits \cup Batch \subseteq RepoSteps
      BY CarriedParts DEF SearchBatchGiven
    <3> QED BY <1>b, <3>1 DEF SearchBatch
  <2>3. CarriedBy(RepoMap) /\ CarriedBy(SearchPlan) /\ CarriedBy(SearchPlanBatch)
    BY <1>b, CarriedParts DEF RepoMap, SearchPlan, SearchPlanBatch
  <2>4. CarriedBy(FindSymbol) /\ CarriedBy(FindSymbolBatch)
    BY <1>b, CarriedParts DEF FindSymbol, FindSymbolBatch
  <2> QED BY <2>1, <2>2, <2>3, <2>4, ArmOfTool DEF ScopedTools
<1>2. \A t \in PathTools : CarriedBy(Arms[t])
  BY <1>b, ArmOfTool, CarriedParts DEF PathTools, ReadRange, ReadRanges, RelatedFiles, RelatedSymbols
<1>3. \A t \in RepoTools : CarriedBy(Arms[t])
  BY <1>b, ArmOfTool, CarriedParts DEF RepoTools, OfRepo, RepoBrief, WarmthPlan, SearchCode,
     SearchQueryPlan, SearchQueryPlanBatch
<1>4. \A t \in IndexTools : CarriedBy(Arms[t])
  <2>1. \A query, refresh, next : next \subseteq IndexSteps => CarriedBy(OfIndex(query, refresh, next))
    BY <1>b DEF OfIndex
  <2>2. CarriedBy(IndexedSearchCode) /\ CarriedBy(IndexedSearchBatch)
    BY <2>1, CarriedParts DEF IndexedSearchCode, IndexedSearchBatch
  <2>3. CarriedBy(IndexedRepoMap) /\ CarriedBy(IndexedQueryPlan) /\ CarriedBy(IndexedQueryPlanBatch)
    BY <2>1, CarriedParts DEF IndexedRepoMap, IndexedQueryPlan, IndexedQueryPlanBatch
  <2>4. CarriedBy(IndexStatus) /\ CarriedBy(ReadIndexRange) /\ CarriedBy(ReadIndexRanges)
    BY <2>1 DEF IndexStatus, ReadIndexRange, ReadIndexRanges
  <2>5. /\ CarriedBy(FindIndexSymbol) /\ CarriedBy(FindIndexSymbolBatch)
        /\ CarriedBy(RelatedIndexFiles) /\ CarriedBy(RelatedIndexSymbols)
    BY <2>1, CarriedParts DEF FindIndexSymbol, FindIndexSymbolBatch, RelatedIndexFiles,
       RelatedIndexSymbols
  <2> QED BY <2>2, <2>3, <2>4, <2>5, ArmOfTool DEF IndexTools
<1>5. \A t \in DirTools : CarriedBy(Arms[t])
  <2>1. \A query, refresh, next : next \subseteq DirSteps => CarriedBy(OfDir(query, refresh, next))
    BY <1>b DEF OfDir
  <2>2. CarriedBy(ShardStatus) /\ CarriedBy(SearchShards) /\ CarriedBy(SearchShardsBatch)
    BY <2>1, CarriedParts DEF ShardStatus, SearchShards, SearchShardsBatch
  <2>3. CarriedBy(ShardPlan) /\ CarriedBy(ShardPlanBatch) /\ CarriedBy(ShardRepoMap)
    BY <2>1, CarriedParts DEF ShardPlan, ShardPlanBatch, ShardRepoMap
  <2> QED BY <2>2, <2>3, ArmOfTool DEF DirTools
<1>6. \A t \in WholeDirTools : CarriedBy(Arms[t])
  BY <1>b, ArmOfTool, CarriedParts DEF WholeDirTools, OfWholeDir, ReadShardRange, ReadShardRanges,
     FindShardSymbol, FindShardSymbolBatch, RelatedShardFiles, RelatedShardSymbols
<1>7. AutoShards \subseteq FromDir /\ AutoIndex \subseteq FromIndex /\ AutoLive \subseteq FromRepo
  BY CarriedParts DEF FromDir, FromIndex, FromRepo, AutoShards, AutoIndex, AutoLive, AutoNext
<1>8. CarriedBy(Arms.search_auto) /\ CarriedBy(Arms.search_auto_batch)
  BY <1>a, <1>7, ArmOfTool DEF SearchAuto, SearchAutoBatch
<1> QED BY <1>1, <1>2, <1>3, <1>4, <1>5, <1>6, <1>8, ToolNames

(* The tools that an answer leads to can answer from its source.           *)
LEMMA CarriedWays ==
  /\ \A n \in FromDir : Arms[n[2]].way \in DirWays
  /\ \A n \in FromIndex : Arms[n[2]].way \in IndexWays
  /\ \A n \in FromRepo : Arms[n[2]].way \in RepoWays
  /\ \A n \in FromDir \cup FromIndex : n[1] = "refresh" => Arms[n[2]].way = "auto"
  /\ \A n \in FromRepo : n[1] # "refresh"
<1>1. \A n \in FromDir : Arms[n[2]].way \in DirWays /\ (n[1] = "refresh" => Arms[n[2]].way = "auto")
  BY Ways DEF FromDir, DirSteps, Retries, DirWays, ScopedTools, PathTools, DirTools, WholeDirTools
<1>2. \A n \in FromIndex : Arms[n[2]].way \in IndexWays /\ (n[1] = "refresh" => Arms[n[2]].way = "auto")
  BY Ways DEF FromIndex, IndexSteps, Retries, IndexWays, ScopedTools, PathTools, IndexTools
<1>3. \A n \in FromRepo : Arms[n[2]].way \in RepoWays /\ n[1] # "refresh"
  BY Ways DEF FromRepo, RepoSteps, Retries, RepoWays, ScopedTools, PathTools, RepoTools
<1> QED BY <1>1, <1>2, <1>3

(* A tool of repositories leads only to tools of repositories, or gives    *)
(* up every argument but the repository.                                   *)
LEMMA CarriedByRepoTools ==
  \A t \in RepoTools : \A n \in Arms[t].next.live :
    n[1] \in {"plan", "retry"} => Arms[n[2]].way = "repo"
BY ArmOfTool, Ways DEF RepoTools, OfRepo, Arm, RepoBrief, WarmthPlan, SearchCode, SearchQueryPlan,
   SearchQueryPlanBatch, LiveHits, Hits, Retry

Kinds == {"read", "related", "plan", "map", "retry", "relaxed", "refresh"}

LEMMA CarriedKinds ==
  \A n \in FromDir \cup FromIndex \cup FromRepo : n[1] \in Kinds
BY DEF FromDir, FromIndex, FromRepo, DirSteps, IndexSteps, RepoSteps, Retries, Kinds

SentArgs ==
  [dir : Dirs \cup {None}, index : Files \cup {NoFile}, repo : Repos \cup {None, Outside},
   cwd : Repos \cup {None, Outside}, filter : Repos \cup {None}, inQuery : Repos \cup {None},
   refresh : BOOLEAN]

LEMMA PlanArgsTypes ==
  ASSUME NEW s, SourceTypes(s), s.kind # "error" PROVE PlanArgs(s) \in SentArgs
BY DEF SourceTypes, PlanArgs, Target, ArgTypes, SentArgs

(* What the arguments of a follow-up keep of an answer from a directory,   *)
(* from an index and from a repository.                                    *)
LEMMA DirArgs ==
  ASSUME NEW s, SourceTypes(s), s.kind = "dir", NEW kind \in Kinds, NEW x \in ArgsOf(kind, s)
  PROVE  /\ x.dir = s.at /\ x.index = NoFile
         /\ kind # "refresh" => x.cwd = None
         /\ kind \in {"plan", "map", "retry", "refresh"} => Scope(x) = s.scope
<1>0. /\ s.args \in ArgTypes /\ s.scope = Scope(s.args)
  BY DEF SourceTypes
<1>1. CASE kind = "read"
  BY <1>1 DEF ArgsOf, Target, NoArgs
<1>2. CASE kind = "related"
  BY <1>2 DEF ArgsOf, RelatedArgs, Target, NoArgs
<1>3. CASE kind = "plan"
  BY <1>0, <1>3 DEF ArgsOf, PlanArgs, Target, Scope, ArgTypes
<1>4. CASE kind = "map"
  BY <1>0, <1>4 DEF ArgsOf, MapArgs, Target, NoArgs, Scope
<1>5. CASE kind = "retry"
  <2> DEFINE p == PlanArgs(s)
  <2>1. p \in SentArgs /\ p.dir = s.at /\ p.index = NoFile /\ p.cwd = None /\ Scope(p) = s.scope
    BY <1>0, PlanArgsTypes DEF PlanArgs, Target, Scope, ArgTypes
  <2>2. x \in RetryArgs(s)
    BY <1>5 DEF ArgsOf
  <2> HIDE DEF p
  <2>3. /\ x \in SentArgs /\ x.dir = p.dir /\ x.index = p.index /\ x.cwd = p.cwd
        /\ x.inQuery \in {None, p.inQuery} /\ x.filter = p.filter
        /\ x.repo = IF s.scope = None THEN p.repo ELSE s.scope
    <3>1. s.scope \in Repos \cup {None}
      BY <1>0 DEF Scope, ArgTypes
    <3> DEFINE kept == IF s.scope = None THEN p ELSE [p EXCEPT !.repo = s.scope]
    <3>2. /\ kept \in SentArgs /\ kept.dir = p.dir /\ kept.index = p.index /\ kept.cwd = p.cwd
          /\ kept.inQuery = p.inQuery /\ kept.filter = p.filter
          /\ kept.repo = IF s.scope = None THEN p.repo ELSE s.scope
      BY <2>1, <3>1 DEF SentArgs
    <3>3. x \in {kept, [kept EXCEPT !.inQuery = None]}
      BY <2>2 DEF RetryArgs, p
    <3> HIDE DEF kept
    <3> QED BY <3>2, <3>3 DEF SentArgs
  <2>4. Scope(x) = s.scope
    BY <2>1, <2>3 DEF Scope
  <2> QED BY <1>5, <2>1, <2>3, <2>4
<1>6. CASE kind = "relaxed"
  BY <1>6 DEF ArgsOf, RelaxedArgs, Target, NoArgs
<1>7. CASE kind = "refresh"
  BY <1>0, <1>7 DEF ArgsOf, RefreshArgs, Target, Scope, ArgTypes
<1> QED BY <1>1, <1>2, <1>3, <1>4, <1>5, <1>6, <1>7 DEF Kinds

LEMMA IndexArgs ==
  ASSUME NEW s, SourceTypes(s), s.kind = "index", NEW kind \in Kinds, NEW x \in ArgsOf(kind, s)
  PROVE  x.index = s.at /\ x.dir = None
<1>0. s.args \in ArgTypes
  BY DEF SourceTypes
<1>1. CASE kind = "read"
  BY <1>1 DEF ArgsOf, Target, NoArgs
<1>2. CASE kind = "related"
  BY <1>2 DEF ArgsOf, RelatedArgs, Target, NoArgs
<1>3. CASE kind = "plan"
  BY <1>0, <1>3 DEF ArgsOf, PlanArgs, Target, ArgTypes
<1>4. CASE kind = "map"
  BY <1>0, <1>4 DEF ArgsOf, MapArgs, Target, NoArgs
<1>5. CASE kind = "retry"
  <2> DEFINE p == PlanArgs(s)
  <2>1. p \in SentArgs /\ p.index = s.at /\ p.dir = None
    BY <1>0, PlanArgsTypes DEF PlanArgs, Target, ArgTypes
  <2>2. x \in RetryArgs(s)
    BY <1>5 DEF ArgsOf
  <2> HIDE DEF p
  <2> QED BY <2>1, <2>2 DEF RetryArgs, p, SentArgs
<1>6. CASE kind = "relaxed"
  BY <1>6 DEF ArgsOf, RelaxedArgs, Target, NoArgs
<1>7. CASE kind = "refresh"
  BY <1>0, <1>7 DEF ArgsOf, RefreshArgs, Target, ArgTypes
<1> QED BY <1>1, <1>2, <1>3, <1>4, <1>5, <1>6, <1>7 DEF Kinds

LEMMA RepoArgs ==
  ASSUME NEW s, SourceTypes(s), s.kind = "live", NEW kind \in Kinds, kind # "refresh",
         NEW x \in ArgsOf(kind, s)
  PROVE  /\ x.repo = s.at /\ x.cwd = None
         /\ \/ x.dir = None /\ x.index = NoFile
            \/ kind \in {"plan", "retry"} /\ x.dir = s.args.dir /\ x.index = s.args.index
<1>0. s.args \in ArgTypes
  BY DEF SourceTypes
<1>1. CASE kind = "read"
  BY <1>1 DEF ArgsOf, Target, NoArgs
<1>2. CASE kind = "related"
  BY <1>2 DEF ArgsOf, RelatedArgs, Target, NoArgs
<1>3. CASE kind = "plan"
  BY <1>0, <1>3 DEF ArgsOf, PlanArgs, Target, ArgTypes
<1>4. CASE kind = "map"
  BY <1>0, <1>4 DEF ArgsOf, MapArgs, Target, NoArgs
<1>5. CASE kind = "retry"
  <2> DEFINE p == PlanArgs(s)
  <2>1. /\ p \in SentArgs /\ p.repo = s.at /\ p.cwd = None
        /\ p.dir = s.args.dir /\ p.index = s.args.index
    BY <1>0, PlanArgsTypes DEF PlanArgs, Target, ArgTypes
  <2>2. x \in RetryArgs(s)
    BY <1>5 DEF ArgsOf
  <2> HIDE DEF p
  <2> QED BY <1>5, <2>1, <2>2 DEF RetryArgs, p, SentArgs
<1>6. CASE kind = "relaxed"
  BY <1>6 DEF ArgsOf, RelaxedArgs, Target, NoArgs
<1> QED BY <1>1, <1>2, <1>3, <1>4, <1>5, <1>6 DEF Kinds

(* A tool that is not one of repositories answers from a repository only   *)
(* when the request names neither a directory nor an index.                *)
LEMMA AnsweredLive ==
  ASSUME NEW q, q.args \in ArgTypes, q.tool \in Tools, NEW known,
         Answer(q, known).kind = "live"
  PROVE  \/ Arms[q.tool].way = "repo"
         \/ Answer(q, known).args.dir = None /\ Answer(q, known).args.index = NoFile
<1> DEFINE a == q.args
           arm == Arms[q.tool]
           Good(s) == s.kind = "live" => s.args.dir = None /\ s.args.index = NoFile
<1>0. /\ \A x \in {a, Scoped(a), ScopedForQuery(a)} : x.dir = a.dir /\ x.index = a.index
      /\ \A r, x : x.dir = None /\ x.index = NoFile => Good(Live(r, x))
      /\ \A d, x : Good(InDir(d, x)) /\ Good(InIndex(d, x)) /\ Good(Error(x))
  BY ScopedTypes DEF InDir, InIndex, Live, Error, Source
<1> HIDE DEF Good
<1>1. Good(AnyTarget(arm, a, known))
  BY <1>0 DEF AnyTarget
<1>2. Good(IndexTarget(a, known)) /\ Good(DirTarget(arm, a, known))
  BY <1>0 DEF IndexTarget, DirTarget
<1>3. Good(AutoTarget(a, known))
  BY <1>0 DEF AutoTarget
<1>4. Good(AutoBatchTarget(a, known))
  BY <1>0, <1>3 DEF AutoBatchTarget
<1>5. arm.way # "repo" => Good(Answer(q, known))
  BY <1>1, <1>2, <1>3, <1>4 DEF Answer
<1> QED BY <1>5 DEF Good

(* A follow-up is a request for a tool that its answer leads to.           *)
LEMMA FollowUpOf ==
  ASSUME NEW q, q.tool \in Tools, NEW s, s.kind \in {"dir", "index", "live", "error"},
         NEW f \in FollowUps(q, s)
  PROVE  \E n \in Arms[q.tool].next[s.kind] :
           /\ f.kind = n[1] /\ f.kind \in Kinds /\ f.request.tool = n[2]
           /\ f.request.args \in ArgsOf(n[1], s)
           /\ f.request = Request(n[2], f.request.args)
           /\ s.kind # "error"
           /\ s.kind = "dir" => n \in FromDir
           /\ s.kind = "index" => n \in FromIndex
           /\ s.kind = "live" => n \in FromRepo
<1>1. PICK n \in Arms[q.tool].next[s.kind] :
        f \in {[kind |-> n[1], request |-> Request(n[2], a)] : a \in ArgsOf(n[1], s)}
  BY DEF FollowUps
<1>2. CarriedBy(Arms[q.tool])
  BY Carried
<1>3. /\ s.kind # "error"
      /\ s.kind = "dir" => n \in FromDir
      /\ s.kind = "index" => n \in FromIndex
      /\ s.kind = "live" => n \in FromRepo
  BY <1>1, <1>2 DEF CarriedBy
<1>4. f.kind = n[1] /\ f.kind \in Kinds
  BY <1>1, <1>3, CarriedKinds
<1>5. /\ f.request.tool = n[2] /\ f.request.args \in ArgsOf(n[1], s)
      /\ f.request = Request(n[2], f.request.args)
  BY <1>1 DEF Request
<1> QED BY <1>3, <1>4, <1>5

(* A follow-up comes back to the source of its answer, whatever the daemon *)
(* knows when it comes.                                                    *)
LEMMA FollowUpReturns ==
  ASSUME NEW q, q.args \in ArgTypes, q.tool \in Tools, NEW before,
         SourceTypes(Answer(q, before)), NEW f \in FollowUps(q, Answer(q, before))
  PROVE  /\ \A known : SameSource(f, Answer(q, before), known)
         /\ HasTarget(f.request.args)
<1> DEFINE s == Answer(q, before)
           x == f.request.args
           t == f.request.tool
<1>1. PICK n \in Arms[q.tool].next[s.kind] :
        /\ f.kind = n[1] /\ f.kind \in Kinds /\ t = n[2]
        /\ x \in ArgsOf(n[1], s) /\ f.request = Request(n[2], x)
        /\ s.kind # "error"
        /\ s.kind = "dir" => n \in FromDir
        /\ s.kind = "index" => n \in FromIndex
        /\ s.kind = "live" => n \in FromRepo
  BY FollowUpOf DEF SourceTypes
<1>2. CASE s.kind = "dir"
  <2>1. /\ Arms[t].way \in DirWays /\ (f.kind = "refresh" => Arms[t].way = "auto")
        /\ s.at \in Dirs
    BY <1>1, <1>2, CarriedWays DEF SourceTypes
  <2>2. /\ x.dir = s.at /\ x.dir # None /\ x.index = NoFile
        /\ f.kind # "refresh" => x.cwd = None
        /\ f.kind \in {"plan", "map", "retry", "refresh"} => Scope(x) = s.scope
    BY <1>1, <1>2, <2>1, DirArgs, Names
  <2>3. ASSUME NEW known PROVE SameSource(f, s, known)
    <3> DEFINE r == Answer(Request(t, x), known)
    <3>1. /\ r.kind = "dir" /\ r.at = x.dir
          /\ x.cwd = None \/ Arms[t].way \in {"auto", "auto_batch"} => r.scope = Scope(x)
      BY <2>1, <2>2, NamedDir
    <3> QED BY <1>1, <1>2, <2>1, <2>2, <3>1 DEF SameSource
  <2>4. HasTarget(x)
    BY <2>2 DEF HasTarget
  <2> QED BY <2>3, <2>4
<1>3. CASE s.kind = "index"
  <2>1. Arms[t].way \in IndexWays /\ s.at \in Files
    BY <1>1, <1>3, CarriedWays DEF SourceTypes
  <2>2. x.index = s.at /\ x.index # NoFile /\ x.dir = None
    BY <1>1, <1>3, <2>1, IndexArgs, Names
  <2>3. ASSUME NEW known PROVE SameSource(f, s, known)
    <3>1. LET r == Answer(Request(t, x), known) IN r.kind = "index" /\ r.at = x.index
      BY <2>1, <2>2, NamedIndex
    <3> QED BY <1>1, <1>3, <2>2, <3>1 DEF SameSource
  <2>4. HasTarget(x)
    BY <2>2 DEF HasTarget
  <2> QED BY <2>3, <2>4
<1>4. CASE s.kind = "live"
  <2>1. /\ Arms[t].way \in RepoWays /\ f.kind # "refresh"
        /\ s.at \in Repos \cup {Outside}
    BY <1>1, <1>4, CarriedWays DEF SourceTypes
  <2>2. x.repo = s.at /\ x.repo # None /\ x.cwd = None
    BY <1>1, <1>4, <2>1, RepoArgs, Names
  <2>3. Arms[t].way = "repo" \/ (x.dir = None /\ x.index = NoFile)
    <3>1. CASE Arms[q.tool].way = "repo"
      <4>1. q.tool \in RepoTools
        BY <3>1, Ways, ToolNames
      <4>2. n \in Arms[q.tool].next.live
        BY <1>1, <1>4
      <4>3. f.kind \in {"plan", "retry"} => Arms[t].way = "repo"
        BY <1>1, <4>1, <4>2, CarriedByRepoTools
      <4> QED BY <1>1, <1>4, <2>1, <4>3, RepoArgs
    <3>2. CASE Arms[q.tool].way # "repo"
      BY <1>1, <1>4, <2>1, <3>2, AnsweredLive, RepoArgs
    <3> QED BY <3>1, <3>2
  <2>4. ASSUME NEW known PROVE SameSource(f, s, known)
    <3>1. LET r == Answer(Request(t, x), known) IN r.kind = "live" /\ r.at = x.repo
      BY <2>1, <2>2, <2>3, NamedRepo
    <3> QED BY <1>1, <1>4, <2>2, <3>1 DEF SameSource
  <2>5. HasTarget(x)
    BY <2>2 DEF HasTarget
  <2> QED BY <2>4, <2>5
<1> QED BY <1>1, <1>2, <1>3, <1>4 DEF SourceTypes

(* FollowUpsStay: also when the client adds its working directory, which   *)
(* it does only to a request without target.                               *)
LEMMA FollowUpsAreStable == ASSUME Types PROVE FollowUpsStay
<1> SUFFICES ASSUME NEW q \in Requests, NEW f \in FollowUps(q, Answer(q, Known)),
                    NEW cwd \in Repos \cup {None}, NEW known \in {Known, Forgotten}
             PROVE  SameSource(IF cwd = None THEN f ELSE [f EXCEPT !.request = WithCwd(@, cwd)],
                               Answer(q, Known), known)
  BY DEF FollowUpsStay
<1>1. q.args \in ArgTypes /\ q.tool \in Tools
  BY RoutingAssumption DEF Requests, ArgTypes
<1>2. SourceTypes(Answer(q, Known))
  BY <1>1, KnownHolds, AnswerTypes
<1>3. SameSource(f, Answer(q, Known), known) /\ HasTarget(f.request.args)
  BY <1>1, <1>2, FollowUpReturns
<1>4. WithCwd(f.request, cwd) = f.request
  BY <1>3 DEF WithCwd
<1>5. SameSource([f EXCEPT !.request = f.request], Answer(q, Known), known)
  <2>1. [f EXCEPT !.request = f.request].kind = f.kind /\ [f EXCEPT !.request = f.request].request = f.request
    <3>1. \E n \in Arms[q.tool].next[Answer(q, Known).kind] :
            \E a : f = [kind |-> n[1], request |-> Request(n[2], a)]
      BY DEF FollowUps
    <3> QED BY <3>1
  <2> QED BY <1>3, <2>1 DEF SameSource
<1> QED BY <1>3, <1>4, <1>5

-----------------------------------------------------------------------------
(* The commands                                                            *)

AnyCmds ==
  {"repo_map", "search_plan", "search_plan_batch", "read_range", "read_ranges", "search",
   "symbol", "symbol_batch", "related", "related_symbols", "search_batch"}
IndexCmds ==
  {"index_map", "index_plan", "index_plan_batch", "indexed_search", "indexed_search_batch",
   "read_index_range", "read_index_ranges", "index_symbol", "index_symbol_batch",
   "related_index", "related_index_symbols", "index_status"}
DirCmds ==
  {"shard_status", "search_shards", "search_shards_batch", "shard_plan", "shard_plan_batch",
   "read_shard_range", "read_shard_ranges", "shard_symbol", "shard_symbol_batch", "shard_map",
   "related_shard", "related_shard_symbols"}
AutoCmds == {"search_auto", "search_auto_batch"}

LEMMA CmdNames ==
  DOMAIN Cmds = AnyCmds \cup IndexCmds \cup DirCmds \cup AutoCmds \cup {"brief"}
<1>1. DOMAIN Cmds =
       {"brief", "repo_map", "index_map", "shard_map", "read_range", "read_ranges",
        "read_index_range", "read_index_ranges", "read_shard_range", "read_shard_ranges",
        "index_plan", "index_plan_batch", "search_plan", "search_plan_batch",
        "shard_plan", "shard_plan_batch", "search", "search_batch",
        "search_auto", "search_auto_batch", "indexed_search", "indexed_search_batch",
        "search_shards", "search_shards_batch", "symbol", "symbol_batch",
        "index_symbol", "index_symbol_batch", "shard_symbol", "shard_symbol_batch",
        "related", "related_symbols", "related_index", "related_index_symbols",
        "related_shard", "related_shard_symbols", "index_status", "shard_status"}
  BY DEF Cmds
<1> QED BY <1>1 DEF AnyCmds, IndexCmds, DirCmds, AutoCmds

LEMMA ArmOfCmd ==
  /\ Cmds.brief = CmdBrief /\ Cmds.repo_map = CmdRepoMap
  /\ Cmds.search_plan = CmdSearchPlan /\ Cmds.search_plan_batch = CmdSearchPlanBatch
  /\ Cmds.read_range = CmdReadRange /\ Cmds.read_ranges = CmdReadRanges
  /\ Cmds.search = CmdSearch /\ Cmds.search_batch = CmdSearchBatch
  /\ Cmds.symbol = CmdSymbol /\ Cmds.symbol_batch = CmdSymbolBatch
  /\ Cmds.related = CmdRelated /\ Cmds.related_symbols = CmdRelatedSymbols
  /\ Cmds.index_map = CmdIndexMap
  /\ Cmds.index_plan = CmdIndexPlan /\ Cmds.index_plan_batch = CmdIndexPlanBatch
  /\ Cmds.indexed_search = CmdIndexedSearch
  /\ Cmds.indexed_search_batch = CmdIndexedSearchBatch
  /\ Cmds.read_index_range = CmdReadIndexRange /\ Cmds.read_index_ranges = CmdReadIndexRanges
  /\ Cmds.index_symbol = CmdIndexSymbol /\ Cmds.index_symbol_batch = CmdIndexSymbolBatch
  /\ Cmds.related_index = CmdRelatedIndex
  /\ Cmds.related_index_symbols = CmdRelatedIndexSymbols
  /\ Cmds.index_status = CmdIndexStatus /\ Cmds.shard_status = CmdShardStatus
  /\ Cmds.search_shards = CmdSearchShards /\ Cmds.search_shards_batch = CmdSearchShardsBatch
  /\ Cmds.shard_plan = CmdShardPlan /\ Cmds.shard_plan_batch = CmdShardPlanBatch
  /\ Cmds.read_shard_range = CmdReadShardRange /\ Cmds.read_shard_ranges = CmdReadShardRanges
  /\ Cmds.shard_symbol = CmdShardSymbol /\ Cmds.shard_symbol_batch = CmdShardSymbolBatch
  /\ Cmds.shard_map = CmdShardMap
  /\ Cmds.related_shard = CmdRelatedShard
  /\ Cmds.related_shard_symbols = CmdRelatedShardSymbols
  /\ Cmds.search_auto = CmdSearchAuto /\ Cmds.search_auto_batch = CmdSearchAutoBatch
BY DEF Cmds

LEMMA CmdWays ==
  /\ \A c \in AnyCmds : Cmds[c].way = "any"
  /\ \A c \in IndexCmds : Cmds[c].way = "index"
  /\ \A c \in DirCmds : Cmds[c].way = "dir"
  /\ \A c \in AutoCmds : Cmds[c].way = "auto"
  /\ Cmds.brief.way = "live"
  /\ Cmds.search.query /\ Cmds.search_plan.query /\ ~Cmds.repo_map.query
<1>1. \A c \in AnyCmds : Cmds[c].way = "any"
  BY ArmOfCmd DEF AnyCmds, Arm, CmdRepoMap, CmdSearchPlan, CmdSearchPlanBatch, CmdReadRange,
     CmdReadRanges, CmdSearch, CmdSearchBatch, CmdSymbol, CmdSymbolBatch, CmdRelated,
     CmdRelatedSymbols
<1>2. \A c \in IndexCmds : Cmds[c].way = "index"
  BY ArmOfCmd DEF IndexCmds, OfIndex, Arm, CmdIndexMap, CmdIndexPlan, CmdIndexPlanBatch,
     CmdIndexedSearch, CmdIndexedSearchBatch, CmdReadIndexRange, CmdReadIndexRanges,
     CmdIndexSymbol, CmdIndexSymbolBatch, CmdRelatedIndex, CmdRelatedIndexSymbols, CmdIndexStatus
<1>3. \A c \in DirCmds : Cmds[c].way = "dir"
  BY ArmOfCmd DEF DirCmds, CmdOfDir, Arm, CmdShardStatus, CmdSearchShards, CmdSearchShardsBatch,
     CmdShardPlan, CmdShardPlanBatch, CmdReadShardRange, CmdReadShardRanges, CmdShardSymbol,
     CmdShardSymbolBatch, CmdShardMap, CmdRelatedShard, CmdRelatedShardSymbols
<1>4. \A c \in AutoCmds : Cmds[c].way = "auto"
  BY ArmOfCmd DEF AutoCmds, Arm, CmdSearchAuto, CmdSearchAutoBatch
<1>5. /\ Cmds.brief.way = "live"
      /\ Cmds.search.query /\ Cmds.search_plan.query /\ ~Cmds.repo_map.query
  BY ArmOfCmd DEF Arm, CmdBrief, CmdSearch, CmdSearchPlan, CmdRepoMap
<1> QED BY <1>1, <1>2, <1>3, <1>4, <1>5

(* What the answer of a command leads to.  A bare plan is of the kind of   *)
(* source the answer comes from.                                           *)
CmdDirSteps == DirSteps \cup {<<"bare_plan", "shard_query_plan">>}
CmdIndexSteps == IndexSteps \cup {<<"bare_plan", "indexed_query_plan">>}
CmdRepoSteps == RepoSteps \cup {<<"bare_plan", "search_query_plan">>}

CmdCarriedBy(arm) ==
  /\ arm.next.dir \subseteq CmdDirSteps /\ arm.next.index \subseteq CmdIndexSteps
  /\ arm.next.live \subseteq CmdRepoSteps /\ arm.next.error = {}

LEMMA CmdCarried == \A c \in DOMAIN Cmds : CmdCarriedBy(Cmds[c])
<1>a. \A way, query, refresh, dir, index, live :
         dir \subseteq CmdDirSteps /\ index \subseteq CmdIndexSteps /\ live \subseteq CmdRepoSteps
           => CmdCarriedBy(Arm(way, query, refresh, dir, index, live))
  BY DEF CmdCarriedBy, Arm
<1> HIDE DEF CmdCarriedBy
<1>b. \A way, query, refresh, dir, index, live :
         dir \subseteq DirSteps /\ index \subseteq IndexSteps /\ live \subseteq RepoSteps
           => CmdCarriedBy(Arm(way, query, refresh, dir, index, live))
  BY <1>a DEF CmdDirSteps, CmdIndexSteps, CmdRepoSteps
<1>1. \A c \in AnyCmds : CmdCarriedBy(Cmds[c])
  <2>1. CmdCarriedBy(CmdSearch)
    <3>1. IndexHits \cup Retry("indexed_search_code") \subseteq IndexSteps
      BY CarriedParts
    <3> QED BY <1>b, <3>1, CarriedParts DEF CmdSearch
  <2>2. CmdCarriedBy(CmdSearchBatch)
    <3>1. /\ BatchOfDir \subseteq DirSteps /\ BatchOfIndex \subseteq IndexSteps
          /\ LiveHits \cup Batch \subseteq RepoSteps
      BY CarriedParts DEF BatchOfDir, BatchOfIndex
    <3> QED BY <1>b, <3>1 DEF CmdSearchBatch
  <2>3. CmdCarriedBy(CmdRepoMap) /\ CmdCarriedBy(CmdSearchPlan) /\ CmdCarriedBy(CmdSearchPlanBatch)
    BY <1>b, CarriedParts DEF CmdRepoMap, CmdSearchPlan, CmdSearchPlanBatch
  <2>4. CmdCarriedBy(CmdReadRange) /\ CmdCarriedBy(CmdReadRanges)
    BY <1>b DEF CmdReadRange, CmdReadRanges
  <2>5. /\ CmdCarriedBy(CmdSymbol) /\ CmdCarriedBy(CmdSymbolBatch)
        /\ CmdCarriedBy(CmdRelated) /\ CmdCarriedBy(CmdRelatedSymbols)
    BY <1>b, CarriedParts DEF CmdSymbol, CmdSymbolBatch, CmdRelated, CmdRelatedSymbols
  <2> QED BY <2>1, <2>2, <2>3, <2>4, <2>5, ArmOfCmd DEF AnyCmds
<1>2. \A c \in IndexCmds : CmdCarriedBy(Cmds[c])
  <2>1. \A query, refresh, next : next \subseteq IndexSteps => CmdCarriedBy(OfIndex(query, refresh, next))
    BY <1>b DEF OfIndex
  <2>2. CmdCarriedBy(CmdIndexedSearch) /\ CmdCarriedBy(CmdIndexedSearchBatch)
    BY <2>1, CarriedParts DEF CmdIndexedSearch, CmdIndexedSearchBatch
  <2>3. CmdCarriedBy(CmdIndexMap) /\ CmdCarriedBy(CmdIndexPlan) /\ CmdCarriedBy(CmdIndexPlanBatch)
    BY <2>1, CarriedParts DEF CmdIndexMap, CmdIndexPlan, CmdIndexPlanBatch
  <2>4. CmdCarriedBy(CmdReadIndexRange) /\ CmdCarriedBy(CmdReadIndexRanges) /\ CmdCarriedBy(CmdIndexStatus)
    BY <2>1 DEF CmdReadIndexRange, CmdReadIndexRanges, CmdIndexStatus
  <2>5. /\ CmdCarriedBy(CmdIndexSymbol) /\ CmdCarriedBy(CmdIndexSymbolBatch)
        /\ CmdCarriedBy(CmdRelatedIndex) /\ CmdCarriedBy(CmdRelatedIndexSymbols)
    BY <2>1, CarriedParts DEF CmdIndexSymbol, CmdIndexSymbolBatch, CmdRelatedIndex, CmdRelatedIndexSymbols
  <2> QED BY <2>2, <2>3, <2>4, <2>5, ArmOfCmd DEF IndexCmds
<1>3. \A c \in DirCmds : CmdCarriedBy(Cmds[c])
  <2>1. \A query, refresh, next : next \subseteq DirSteps => CmdCarriedBy(CmdOfDir(query, refresh, next))
    BY <1>b DEF CmdOfDir
  <2>2. CmdCarriedBy(CmdSearchShards) /\ CmdCarriedBy(CmdSearchShardsBatch)
    BY <2>1, CarriedParts DEF CmdSearchShards, CmdSearchShardsBatch
  <2>3. CmdCarriedBy(CmdShardMap) /\ CmdCarriedBy(CmdShardPlan) /\ CmdCarriedBy(CmdShardPlanBatch)
    BY <2>1, CarriedParts DEF CmdShardMap, CmdShardPlan, CmdShardPlanBatch
  <2>4. CmdCarriedBy(CmdReadShardRange) /\ CmdCarriedBy(CmdReadShardRanges) /\ CmdCarriedBy(CmdShardStatus)
    BY <2>1 DEF CmdReadShardRange, CmdReadShardRanges, CmdShardStatus
  <2>5. CmdCarriedBy(CmdShardSymbol)
    <3>1. Read("read_shard_range") \subseteq DirSteps
      BY CarriedParts DEF ShardSymbols
    <3> QED BY <2>1, <3>1 DEF CmdShardSymbol
  <2>6. /\ CmdCarriedBy(CmdShardSymbolBatch)
        /\ CmdCarriedBy(CmdRelatedShard) /\ CmdCarriedBy(CmdRelatedShardSymbols)
    BY <2>1, CarriedParts DEF CmdShardSymbolBatch, CmdRelatedShard, CmdRelatedShardSymbols
  <2> QED BY <2>2, <2>3, <2>4, <2>5, <2>6, ArmOfCmd DEF DirCmds
<1>4. \A c \in AutoCmds : CmdCarriedBy(Cmds[c])
  <2>1. AutoOfDir \subseteq CmdDirSteps
    BY CarriedParts DEF AutoOfDir, BarePlan, CmdDirSteps
  <2>2. AutoOfIndex \subseteq CmdIndexSteps
    BY CarriedParts DEF AutoOfIndex, BarePlan, CmdIndexSteps
  <2>3. AutoOfRepo \subseteq CmdRepoSteps
    BY CarriedParts DEF AutoOfRepo, BarePlan, CmdRepoSteps
  <2> QED BY <1>a, <2>1, <2>2, <2>3, ArmOfCmd DEF AutoCmds, CmdSearchAuto, CmdSearchAutoBatch,
             AutoBatchOfDir, AutoBatchOfIndex, AutoBatchOfRepo
<1>5. CmdCarriedBy(Cmds.brief)
  BY <1>b, ArmOfCmd DEF CmdBrief
<1> QED BY <1>1, <1>2, <1>3, <1>4, <1>5, CmdNames

(* How the command of a request finds its target.                          *)
LEMMA CommandForms ==
  /\ \A t \in Reads : CommandOf(t) = t
  /\ \A t \in Maps : CommandOf(t) = "repo_map"
  /\ \A t \in Plans : CommandOf(t) = "search_plan"
  /\ \A t \in DOMAIN Relations : CommandOf(t) = Relations[t]
  /\ \A t \in {"search", "search_code", "search_shards", "indexed_search_code"} :
       CommandOf(t) = "search"
<1>1. DOMAIN Relations = {"related_files", "related_symbols", "related_index_files",
                          "related_index_symbols", "related_shard_files", "related_shard_symbols"}
  BY DEF Relations
<1> QED BY <1>1 DEF CommandOf, Reads, Maps, Plans

LEMMA FormWays ==
  /\ \A n \in CmdDirSteps : Cmds[CommandOf(n[2])].way \in {"any", "dir"}
  /\ \A n \in CmdIndexSteps : Cmds[CommandOf(n[2])].way \in {"any", "index"}
  /\ \A n \in CmdRepoSteps : Cmds[CommandOf(n[2])].way = "any"
<1>1. /\ \A n \in {"read_range", "read_ranges"} : Cmds[CommandOf(n)].way = "any"
      /\ \A n \in {"read_index_range", "read_index_ranges"} : Cmds[CommandOf(n)].way = "index"
      /\ \A n \in {"read_shard_range", "read_shard_ranges"} : Cmds[CommandOf(n)].way = "dir"
  BY CommandForms, CmdWays DEF Reads, AnyCmds, IndexCmds, DirCmds
<1>2. /\ \A n \in {"related_files", "related_symbols"} : Cmds[CommandOf(n)].way = "any"
      /\ \A n \in {"related_index_files", "related_index_symbols"} : Cmds[CommandOf(n)].way = "index"
      /\ \A n \in {"related_shard_files", "related_shard_symbols"} : Cmds[CommandOf(n)].way = "dir"
  BY CommandForms, CmdWays DEF Relations, AnyCmds, IndexCmds, DirCmds
<1>3. \A n \in Maps \cup Plans \cup {"search", "search_code", "search_shards", "indexed_search_code"} :
        Cmds[CommandOf(n)].way = "any"
  BY CommandForms, CmdWays DEF AnyCmds
<1>4. \A n \in CmdDirSteps : Cmds[CommandOf(n[2])].way \in {"any", "dir"}
  BY <1>1, <1>2, <1>3 DEF CmdDirSteps, DirSteps, Retries, Maps, Plans
<1>5. \A n \in CmdIndexSteps : Cmds[CommandOf(n[2])].way \in {"any", "index"}
  BY <1>1, <1>2, <1>3 DEF CmdIndexSteps, IndexSteps, Retries, Maps, Plans
<1>6. \A n \in CmdRepoSteps : Cmds[CommandOf(n[2])].way = "any"
  BY <1>1, <1>2, <1>3 DEF CmdRepoSteps, RepoSteps, Retries, Maps, Plans
<1> QED BY <1>4, <1>5, <1>6

(* What the command of a plan, a retry or a map keeps of the request.      *)
LEMMA FormFlags ==
  ASSUME NEW n \in CmdDirSteps, NEW a, a.dir # None
  PROVE  LET w == Written(Request(n[2], a), TRUE)
             v == Written(Request(n[2], a), FALSE)
         IN  /\ n[1] \in {"plan", "retry", "map"} => w.args.filter = RepoFilterFlag(a)
             /\ n[1] \in {"plan", "retry"} => v.args.filter = RepoFilterFlag(a)
             /\ n[1] \in {"plan", "retry"} => w.args.inQuery = a.inQuery /\ v.args.inQuery = a.inQuery
             /\ n[1] = "map" => w.args.inQuery = None
<1>1. n[1] \in {"plan", "retry", "map"} => n[2] \notin Reads
  BY DEF CmdDirSteps, DirSteps, Retries, Reads
<1>2. n[1] \in {"plan", "retry"} =>
        n[2] \notin Maps /\ CommandOf(n[2]) \in {"search", "search_plan"}
  <2>1. n[1] \in {"plan", "retry"} => n[2] \in {"search_plan", "shard_query_plan", "search", "search_shards"}
    BY DEF CmdDirSteps, DirSteps, Retries
  <2> QED BY <2>1, CommandForms DEF Maps, Plans
<1>3. n[1] = "map" => CommandOf(n[2]) = "repo_map"
  <2>1. n[1] = "map" => n[2] \in Maps
    BY DEF CmdDirSteps, DirSteps, Retries, Maps
  <2> QED BY <2>1, CommandForms
<1>4. \A byRepo :
        LET w == Written(Request(n[2], a), byRepo)
        IN  /\ w.args.filter = FilterFlag(Request(n[2], a), byRepo)
            /\ w.args.inQuery = IF Cmds[CommandOf(n[2])].query THEN a.inQuery ELSE None
  BY DEF Written, Request, NoArgs
<1> QED BY <1>1, <1>2, <1>3, <1>4, CmdWays DEF FilterFlag, Request

(* A command with a target is answered from there.                         *)
LEMMA WrittenTarget ==
  ASSUME NEW t, NEW a, NEW byRepo
  PROVE  LET w == Written(Request(t, a), byRepo).args
         IN  /\ a.dir # None => w.dir = a.dir /\ w.index = NoFile
             /\ a.dir = None /\ a.index # NoFile => w.dir = None /\ w.index = a.index
             /\ a.dir = None /\ a.index = NoFile => w.dir = None /\ w.index = NoFile /\ w.repo = a.repo
             /\ Written(Request(t, a), byRepo).name = CommandOf(t)
<1>1. /\ a.dir # None => TargetFlags(a).dir = a.dir /\ TargetFlags(a).index = NoFile
      /\ a.dir = None /\ a.index # NoFile => TargetFlags(a).dir = None /\ TargetFlags(a).index = a.index
      /\ a.dir = None /\ a.index = NoFile =>
           TargetFlags(a).dir = None /\ TargetFlags(a).index = NoFile /\ TargetFlags(a).repo = a.repo
  BY DEF TargetFlags
<1>2. LET w == Written(Request(t, a), byRepo)
          to == TargetFlags(a)
      IN  w.name = CommandOf(t) /\ w.args.dir = to.dir /\ w.args.index = to.index /\ w.args.repo = to.repo
  BY DEF Written, Request, NoArgs
<1> QED BY <1>1, <1>2

LEMMA CmdAnswerOf ==
  ASSUME NEW c, NEW a, NEW cwd
  PROVE  LET s == CmdAnswer(c, a, cwd)
         IN  /\ Cmds[c].way \in {"any", "dir", "auto"} /\ a.dir # None /\ a.index = NoFile =>
                  s.kind = "dir" /\ s.at = a.dir /\ s.scope = CmdScope(a)
             /\ Cmds[c].way \in {"any", "index", "auto"} /\ a.dir = None /\ a.index # NoFile =>
                  s.kind = "index" /\ s.at = a.index
             /\ Cmds[c].way \in {"any", "auto"} /\ a.dir = None /\ a.index = NoFile =>
                  s.kind = "live" /\ s.at = IF a.repo \in {None, Dot} THEN cwd ELSE a.repo
BY DEF CmdAnswer, Source, Live

LEMMA CmdAnswerTypes ==
  ASSUME NEW c \in DOMAIN Cmds, NEW a \in ArgTypes, NEW cwd \in Repos \cup {Outside}
  PROVE  LET s == CmdAnswer(c, a, cwd)
         IN  /\ s.kind \in {"dir", "index", "live", "error"} /\ s.args = a
             /\ s.scope \in Repos \cup {None}
             /\ s.kind = "dir" => s.at \in Dirs /\ s.at = a.dir /\ s.scope = CmdScope(a)
             /\ s.kind = "index" => s.at \in Files /\ s.at = a.index
             /\ s.kind = "live" => s.at \in Repos \cup {Outside}
                                   /\ s.at = IF a.repo \in {None, Dot} THEN cwd ELSE a.repo
<1>1. /\ a.dir \in Dirs \cup {None} /\ a.index \in Files \cup {NoFile} /\ a.repo \in Repos \cup {None}
      /\ CmdScope(a) \in Repos \cup {None}
      /\ Cmds[c].way \in {"any", "index", "dir", "auto", "live"}
  BY CmdNames, CmdWays DEF ArgTypes, CmdScope
<1> QED BY <1>1 DEF CmdAnswer, Source, Live, Error

CmdKinds == {"read", "related", "plan", "bare_plan", "map", "retry", "relaxed"}

LEMMA CmdFollowUpOf ==
  ASSUME NEW c \in DOMAIN Cmds, NEW s, s.kind \in {"dir", "index", "live", "error"},
         NEW f \in CmdFollowUps(c, s)
  PROVE  \E n \in Cmds[c].next[s.kind] :
           /\ f.kind = n[1] /\ f.kind \in CmdKinds
           /\ f.request.args \in CmdArgsOf(n[1], c, s)
           /\ f.request = Request(n[2], f.request.args)
           /\ f = [kind |-> f.kind, request |-> f.request]
           /\ s.kind # "error"
           /\ s.kind = "dir" => n \in CmdDirSteps
           /\ s.kind = "index" => n \in CmdIndexSteps
           /\ s.kind = "live" => n \in CmdRepoSteps
<1>1. PICK n \in Cmds[c].next[s.kind] :
        f \in {[kind |-> n[1], request |-> Request(n[2], a)] : a \in CmdArgsOf(n[1], c, s)}
  BY DEF CmdFollowUps
<1>2. CmdCarriedBy(Cmds[c])
  BY CmdCarried
<1>3. /\ s.kind # "error"
      /\ s.kind = "dir" => n \in CmdDirSteps
      /\ s.kind = "index" => n \in CmdIndexSteps
      /\ s.kind = "live" => n \in CmdRepoSteps
  BY <1>1, <1>2 DEF CmdCarriedBy
<1>4. n[1] \in CmdKinds
  BY <1>1, <1>3 DEF CmdKinds, CmdDirSteps, CmdIndexSteps, CmdRepoSteps, DirSteps, IndexSteps,
     RepoSteps, Retries
<1>5. /\ f.kind = n[1] /\ f.request.args \in CmdArgsOf(n[1], c, s)
      /\ f.request = Request(n[2], f.request.args)
      /\ f = [kind |-> f.kind, request |-> f.request]
  BY <1>1 DEF Request
<1> QED BY <1>3, <1>4, <1>5

(* What the arguments of a follow-up keep of the answer of a command.      *)
LEMMA CmdArgs ==
  ASSUME NEW c, NEW s, s.kind \in {"dir", "index", "live"}, s.args \in ArgTypes,
         s.scope \in Repos \cup {None}, NEW kind \in CmdKinds, NEW x \in CmdArgsOf(kind, c, s)
  PROVE  /\ DOMAIN x = DOMAIN NoArgs /\ x.cwd = None
         /\ s.kind = "dir" => x.dir = s.at /\ x.index = NoFile /\ x.repo \in Repos \cup {None}
         /\ s.kind = "index" => x.index = s.at /\ x.dir = None /\ x.repo \in Repos \cup {None}
         /\ s.kind = "live" =>
              /\ x.dir = None /\ x.index = NoFile
              /\ x.repo = IF c \in {"search_plan", "search_plan_batch"} THEN s.at
                          ELSE IF s.args.repo = None THEN Dot ELSE s.args.repo
         /\ s.kind = "dir" /\ kind \in {"plan", "retry", "map"} => x.filter = None /\ x.repo = s.scope
         /\ kind = "plan" => x.inQuery = s.args.inQuery
         /\ kind = "retry" => x.inQuery \in {None, s.args.inQuery}
         /\ kind = "map" => x.inQuery = None
<1> DEFINE Base == {NoArgs, [NoArgs EXCEPT !.filter = s.args.filter],
                    [NoArgs EXCEPT !.inQuery = s.args.inQuery,
                                   !.repo = IF s.kind = "dir" THEN s.scope ELSE s.args.filter],
                    [NoArgs EXCEPT !.inQuery = s.args.inQuery],
                    [NoArgs EXCEPT !.repo = IF s.kind = "dir" THEN s.scope ELSE None],
                    [NoArgs EXCEPT !.repo = s.scope, !.inQuery = None],
                    [NoArgs EXCEPT !.repo = s.scope, !.inQuery = s.args.inQuery]}
           Place(x0) == /\ DOMAIN x = DOMAIN NoArgs /\ x.cwd = x0.cwd /\ x.inQuery = x0.inQuery /\ x.filter = x0.filter
                        /\ s.kind = "dir" => x.dir = s.at /\ x.index = x0.index /\ x.repo = x0.repo
                        /\ s.kind = "index" => x.index = s.at /\ x.dir = x0.dir /\ x.repo = x0.repo
                        /\ s.kind = "live" =>
                             /\ x.dir = x0.dir /\ x.index = x0.index
                             /\ x.repo = IF c \in {"search_plan", "search_plan_batch"} THEN s.at
                                         ELSE IF s.args.repo = None THEN Dot ELSE s.args.repo
<1>1. s.args.filter \in Repos \cup {None}
  BY DEF ArgTypes
<1>2. ASSUME NEW x0 \in Base, x = CmdTarget(c, s, x0) PROVE Place(x0)
  <2>1. DOMAIN x0 = DOMAIN NoArgs
    BY <1>2 DEF NoArgs
  <2>2. DOMAIN NoArgs = {"dir", "index", "repo", "cwd", "filter", "inQuery", "refresh"}
    BY DEF NoArgs
  <2> HIDE DEF Base
  <2> QED BY <1>2, <2>1, <2>2 DEF CmdTarget
<1>3. CASE kind = "read"
  <2>1. x = CmdTarget(c, s, NoArgs)
    BY <1>3 DEF CmdArgsOf
  <2> QED BY <1>2, <1>3, <2>1 DEF NoArgs
<1>4. CASE kind = "related"
  <2>1. x = CmdTarget(c, s, [NoArgs EXCEPT !.filter = s.args.filter])
    BY <1>4 DEF CmdArgsOf, CmdRelatedArgs
  <2> QED BY <1>2, <1>4, <2>1 DEF NoArgs
<1>5. CASE kind = "plan"
  <2> DEFINE b == [NoArgs EXCEPT !.inQuery = s.args.inQuery,
                                 !.repo = IF s.kind = "dir" THEN s.scope ELSE s.args.filter]
  <2>1. x = CmdTarget(c, s, b)
    BY <1>5 DEF CmdArgsOf, CmdPlanArgs
  <2>2. Place(b)
    BY <1>2, <2>1
  <2> QED BY <1>1, <1>5, <2>2 DEF NoArgs
<1>6. CASE kind = "bare_plan"
  <2>1. x = CmdTarget(c, s, [NoArgs EXCEPT !.inQuery = s.args.inQuery])
    BY <1>6 DEF CmdArgsOf, CmdBarePlanArgs
  <2> QED BY <1>2, <1>6, <2>1 DEF NoArgs
<1>7. CASE kind = "map"
  <2> DEFINE b == [NoArgs EXCEPT !.repo = IF s.kind = "dir" THEN s.scope ELSE None]
  <2>1. x = CmdTarget(c, s, b)
    BY <1>7 DEF CmdArgsOf, CmdMapArgs
  <2>2. Place(b)
    BY <1>2, <2>1
  <2> QED BY <1>7, <2>2 DEF NoArgs
<1>8. CASE kind = "retry"
  <2>1. PICK inq \in {None, s.args.inQuery} :
          x = CmdTarget(c, s, [NoArgs EXCEPT !.repo = s.scope, !.inQuery = inq])
    BY <1>8 DEF CmdArgsOf, CmdRetryArgs
  <2> DEFINE b == [NoArgs EXCEPT !.repo = s.scope, !.inQuery = inq]
  <2>2. Place(b)
    BY <1>2, <2>1
  <2> QED BY <1>8, <2>2 DEF NoArgs
<1>9. CASE kind = "relaxed"
  <2>1. x = CmdTarget(c, s, NoArgs)
    BY <1>9 DEF CmdArgsOf, CmdRelaxedArgs
  <2> QED BY <1>2, <1>9, <2>1 DEF NoArgs
<1> QED BY <1>3, <1>4, <1>5, <1>6, <1>7, <1>8, <1>9 DEF CmdKinds

(* The scope of the command of a request for a directory.                  *)
LEMMA FormScope ==
  ASSUME NEW n \in CmdDirSteps, NEW a, a.dir # None, NEW byRepo \in BOOLEAN,
         n[1] \in {"plan", "retry"} \/ (n[1] = "map" /\ byRepo),
         n[1] = "map" => a.inQuery = None
  PROVE  CmdScope(Written(Request(n[2], a), byRepo).args)
           = IF a.inQuery # None THEN a.inQuery ELSE RepoFilterFlag(a)
<1> DEFINE w == Written(Request(n[2], a), byRepo).args
<1>1. w.filter = RepoFilterFlag(a)
  BY FormFlags
<1>2. w.inQuery = a.inQuery
  BY FormFlags
<1> QED BY <1>1, <1>2 DEF CmdScope

(* The command of a request that names its target reaches the target.      *)
LEMMA FormReaches ==
  ASSUME NEW n, NEW x, NEW f, f.kind = n[1], f.request = Request(n[2], x), NEW s,
         s.kind \in {"dir", "index", "live"}, NEW byRepo \in BOOLEAN, NEW cwd,
         s.kind = "dir" => /\ n \in CmdDirSteps /\ s.at # None /\ x.dir = s.at
                           /\ n[1] = "map" => x.inQuery = None
                           /\ n[1] \in {"plan", "retry", "map"} =>
                                s.scope = IF x.inQuery # None THEN x.inQuery ELSE RepoFilterFlag(x),
         s.kind = "index" => n \in CmdIndexSteps /\ s.at # NoFile /\ x.index = s.at /\ x.dir = None,
         s.kind = "live" => /\ n \in CmdRepoSteps /\ x.dir = None /\ x.index = NoFile
                            /\ s.at = IF x.repo \in {None, Dot} THEN cwd ELSE x.repo
  PROVE  CmdSameSource(f, s, cwd, byRepo)
<1> DEFINE w == Written(f.request, byRepo)
           c == CommandOf(n[2])
           r == CmdAnswer(w.name, w.args, cwd)
<1>1. /\ x.dir # None => w.args.dir = x.dir /\ w.args.index = NoFile
      /\ x.dir = None /\ x.index # NoFile => w.args.dir = None /\ w.args.index = x.index
      /\ x.dir = None /\ x.index = NoFile =>
           w.args.dir = None /\ w.args.index = NoFile /\ w.args.repo = x.repo
      /\ w.name = c
  BY WrittenTarget
<1>2. CASE s.kind = "dir"
  <2>1. Cmds[c].way \in {"any", "dir"}
    BY <1>2, FormWays
  <2>2. r.kind = "dir" /\ r.at = s.at /\ r.scope = CmdScope(w.args)
    BY <1>1, <1>2, <2>1, CmdAnswerOf
  <2>3. n[1] \in {"plan", "retry"} \/ (n[1] = "map" /\ byRepo) => r.scope = s.scope
    BY <1>2, <2>2, FormScope
  <2> HIDE DEF w, r
  <2> QED BY <1>2, <2>2, <2>3 DEF CmdSameSource, w, r
<1>3. CASE s.kind = "index"
  <2>1. Cmds[c].way \in {"any", "index"}
    BY <1>3, FormWays
  <2>2. r.kind = "index" /\ r.at = s.at
    BY <1>1, <1>3, <2>1, CmdAnswerOf
  <2> QED BY <1>3, <2>2 DEF CmdSameSource
<1>4. CASE s.kind = "live"
  <2>1. Cmds[c].way = "any"
    BY <1>4, FormWays
  <2>2. r.kind = "live" /\ r.at = s.at
    BY <1>1, <1>4, <2>1, CmdAnswerOf
  <2> QED BY <1>4, <2>2 DEF CmdSameSource
<1> QED BY <1>2, <1>3, <1>4

(* The tools of a command's follow-ups can answer from its source.         *)
LEMMA CmdCarriedWays ==
  /\ \A n \in CmdDirSteps : Arms[n[2]].way \in DirWays
  /\ \A n \in CmdIndexSteps : Arms[n[2]].way \in IndexWays
  /\ \A n \in CmdRepoSteps : Arms[n[2]].way \in RepoWays
<1>1. /\ \A n \in DirSteps : Arms[n[2]].way \in DirWays
      /\ \A n \in IndexSteps : Arms[n[2]].way \in IndexWays
      /\ \A n \in RepoSteps : Arms[n[2]].way \in RepoWays
  BY CarriedWays DEF FromDir, FromIndex, FromRepo
<1>2. /\ Arms["shard_query_plan"].way = "dir" /\ Arms["indexed_query_plan"].way = "index"
      /\ Arms["search_query_plan"].way = "repo"
  BY Ways DEF DirTools, IndexTools, RepoTools
<1> QED BY <1>1, <1>2 DEF CmdDirSteps, CmdIndexSteps, CmdRepoSteps, DirWays, IndexWays, RepoWays

LEMMA CmdFollowUpsReturn == CmdFollowUpsStay
<1> SUFFICES ASSUME NEW c \in DOMAIN Cmds, NEW a \in Args, NEW cwd \in Repos \cup {Outside},
                    NEW f \in CmdFollowUps(c, CmdAnswer(c, a, cwd))
             PROVE  LET s == CmdAnswer(c, a, cwd)
                    IN  /\ \A byRepo \in BOOLEAN : CmdSameSource(f, s, cwd, byRepo)
                        /\ SameSource([f EXCEPT !.request = ReadIn(@, Process)], s, Known)
                             <=> ~LostByDaemon(f, s)
  BY DEF CmdFollowUpsStay
<1> DEFINE s == CmdAnswer(c, a, cwd)
           x == f.request.args
           g == [f EXCEPT !.request = ReadIn(@, Process)]
           y == g.request.args
<1>1. a \in ArgTypes
  BY RoutingAssumption DEF ArgTypes
<1>2. /\ s.kind \in {"dir", "index", "live", "error"} /\ s.args = a
      /\ s.scope \in Repos \cup {None}
      /\ s.kind = "dir" => s.at \in Dirs /\ s.at = a.dir /\ s.scope = CmdScope(a)
      /\ s.kind = "index" => s.at \in Files /\ s.at = a.index
      /\ s.kind = "live" => s.at \in Repos \cup {Outside}
                            /\ s.at = IF a.repo \in {None, Dot} THEN cwd ELSE a.repo
  BY <1>1, CmdAnswerTypes
<1>3. PICK n \in Cmds[c].next[s.kind] :
        /\ f.kind = n[1] /\ f.kind \in CmdKinds
        /\ x \in CmdArgsOf(n[1], c, s) /\ f.request = Request(n[2], x)
        /\ f = [kind |-> f.kind, request |-> f.request]
        /\ s.kind # "error"
        /\ s.kind = "dir" => n \in CmdDirSteps
        /\ s.kind = "index" => n \in CmdIndexSteps
        /\ s.kind = "live" => n \in CmdRepoSteps
  BY <1>2, CmdFollowUpOf
<1>4. /\ DOMAIN x = DOMAIN NoArgs /\ x.cwd = None
      /\ s.kind = "dir" => x.dir = s.at /\ x.index = NoFile /\ x.repo \in Repos \cup {None}
      /\ s.kind = "index" => x.index = s.at /\ x.dir = None /\ x.repo \in Repos \cup {None}
      /\ s.kind = "live" =>
           /\ x.dir = None /\ x.index = NoFile
           /\ x.repo = IF c \in {"search_plan", "search_plan_batch"} THEN s.at
                       ELSE IF a.repo = None THEN Dot ELSE a.repo
      /\ s.kind = "dir" /\ n[1] \in {"plan", "retry", "map"} => x.filter = None /\ x.repo = s.scope
      /\ n[1] = "plan" => x.inQuery = a.inQuery
      /\ n[1] = "retry" => x.inQuery \in {None, a.inQuery}
      /\ n[1] = "map" => x.inQuery = None
  BY <1>1, <1>2, <1>3, CmdArgs
<1>5. /\ Dot # None /\ Dot # Outside /\ Dot \notin Repos /\ Dot \notin Dirs
      /\ None \notin Repos /\ None \notin Dirs /\ NoFile \notin Files
      /\ a.repo \in Repos \cup {None}
      /\ Process # None
  BY <1>1, Names, CommandAssumption, RoutingAssumption DEF ArgTypes, Dot, None, Outside
<1>6. s.kind = "dir" /\ n[1] \in {"plan", "retry", "map"} =>
        s.scope = IF x.inQuery # None THEN x.inQuery ELSE x.repo
  BY <1>2, <1>4 DEF CmdScope
<1>7. ASSUME NEW byRepo \in BOOLEAN PROVE CmdSameSource(f, s, cwd, byRepo)
  <2>1. s.kind = "dir" /\ n[1] \in {"plan", "retry", "map"} => RepoFilterFlag(x) = x.repo
    BY <1>2, <1>4, <1>5 DEF RepoFilterFlag
  <2>2. s.kind = "live" => s.at = IF x.repo \in {None, Dot} THEN cwd ELSE x.repo
    BY <1>2, <1>4, <1>5
  <2> HIDE DEF s, x
  <2> QED BY <1>2, <1>3, <1>4, <1>5, <1>6, <2>1, <2>2, FormReaches DEF s
<1>8. /\ g.kind = f.kind /\ g.request = Request(n[2], y)
      /\ y.dir = x.dir /\ y.index = x.index /\ y.cwd = x.cwd /\ y.inQuery = x.inQuery
      /\ y.filter = x.filter /\ y.repo = IF x.repo = Dot THEN Process ELSE x.repo
  <2> DEFINE z == [x EXCEPT !.repo = IF @ = Dot THEN Process ELSE @]
  <2>1. ReadIn(f.request, Process) = Request(n[2], z)
    BY <1>3 DEF ReadIn, Request
  <2>2. g.kind = f.kind /\ g.request = ReadIn(f.request, Process)
    BY <1>3
  <2>3. y = z
    BY <2>1, <2>2 DEF Request
  <2>4. /\ z.dir = x.dir /\ z.index = x.index /\ z.cwd = x.cwd /\ z.inQuery = x.inQuery
        /\ z.filter = x.filter /\ z.repo = IF x.repo = Dot THEN Process ELSE x.repo
    BY <1>4 DEF NoArgs
  <2> QED BY <2>1, <2>2, <2>3, <2>4
<1>9. SameSource(g, s, Known) <=> ~LostByDaemon(f, s)
  <2> DEFINE r == Answer(g.request, Known)
  <2> HIDE DEF g, x, s
  <2>1. SameSource(g, s, Known) <=>
          /\ r.kind = s.kind /\ r.at = s.at
          /\ n[1] \in {"plan", "map", "retry", "refresh"} /\ s.kind = "dir" => r.scope = s.scope
    BY <1>3, <1>8 DEF SameSource
  <2>2. LostByDaemon(f, s) <=> x.repo = Dot /\ s.at # Process
    BY DEF LostByDaemon, x
  <2>3. CASE s.kind = "dir"
    <3>1. Arms[n[2]].way \in DirWays
      BY <1>3, <2>3, CmdCarriedWays
    <3>2. y.dir # None /\ y.index = NoFile /\ y.cwd = None /\ y.dir = s.at
      BY <1>2, <1>4, <1>5, <1>8, <2>3
    <3>3. r.kind = "dir" /\ r.at = s.at /\ r.scope = Scope(y)
      BY <1>8, <3>1, <3>2, NamedDir
    <3>4. x.repo # Dot /\ y.repo = x.repo
      BY <1>4, <1>5, <1>8, <2>3
    <3>5. n[1] \in {"plan", "map", "retry"} => Scope(y) = s.scope
      BY <1>4, <1>6, <1>8, <2>3, <3>4 DEF Scope
    <3>6. n[1] # "refresh"
      BY <1>3 DEF CmdKinds
    <3> QED BY <2>1, <2>2, <2>3, <3>3, <3>4, <3>5, <3>6
  <2>4. CASE s.kind = "index"
    <3>1. Arms[n[2]].way \in IndexWays
      BY <1>3, <2>4, CmdCarriedWays
    <3>2. y.index # NoFile /\ y.dir = None /\ y.index = s.at
      BY <1>2, <1>4, <1>5, <1>8, <2>4
    <3>3. r.kind = "index" /\ r.at = s.at
      BY <1>8, <3>1, <3>2, NamedIndex
    <3>4. x.repo # Dot
      BY <1>4, <1>5, <2>4
    <3> QED BY <2>1, <2>2, <2>4, <3>3, <3>4
  <2>5. CASE s.kind = "live"
    <3>1. Arms[n[2]].way \in RepoWays
      BY <1>3, <2>5, CmdCarriedWays
    <3>2. /\ y.dir = None /\ y.index = NoFile /\ y.cwd = None /\ y.repo # None
          /\ x.repo = Dot => y.repo = Process
          /\ x.repo # Dot => y.repo = s.at
      <4>1. s.at # None /\ s.at # Dot
        <5>1. s.at \in Repos \cup {Outside}
          BY <1>2, <2>5
        <5> QED BY <1>5, <5>1, Names
      <4>2. a.repo # None => s.at = a.repo
        BY <1>2, <1>5, <2>5
      <4>3. x.repo = s.at \/ (a.repo = None /\ x.repo = Dot) \/ (a.repo # None /\ x.repo = a.repo)
        BY <1>4, <2>5
      <4>4. x.repo # None /\ (x.repo # Dot => x.repo = s.at)
        BY <1>5, <4>1, <4>2, <4>3
      <4> QED BY <1>4, <1>5, <1>8, <2>5, <4>4
    <3>3. r.kind = "live" /\ r.at = y.repo
      BY <1>8, <3>1, <3>2, NamedRepo
    <3> QED BY <2>1, <2>2, <2>5, <3>2, <3>3
  <2> QED BY <1>2, <1>3, <2>3, <2>4, <2>5
<1> QED BY <1>7, <1>9

LEMMA CommandFormsReturn == ASSUME Types PROVE CommandFormsStay
<1> SUFFICES ASSUME NEW q \in Requests, NEW f \in FollowUps(q, Answer(q, Known)),
                    f.kind # "refresh", ~IgnoresTarget(q, Answer(q, Known)),
                    ~TwoScopes(f.request.args)
             PROVE  CmdSameSource(f, Answer(q, Known), Outside, TRUE)
  BY DEF CommandFormsStay
<1> DEFINE s == Answer(q, Known)
           x == f.request.args
<1>1. q.args \in ArgTypes /\ q.tool \in Tools
  BY RoutingAssumption DEF Requests, ArgTypes
<1>2. SourceTypes(s)
  BY <1>1, KnownHolds, AnswerTypes
<1>3. PICK n \in Arms[q.tool].next[s.kind] :
        /\ f.kind = n[1] /\ f.kind \in Kinds
        /\ x \in ArgsOf(n[1], s) /\ f.request = Request(n[2], x)
        /\ s.kind # "error"
        /\ s.kind = "dir" => n \in FromDir
        /\ s.kind = "index" => n \in FromIndex
        /\ s.kind = "live" => n \in FromRepo
  BY <1>1, <1>2, FollowUpOf DEF SourceTypes
<1>4. /\ s.kind = "dir" => n \in CmdDirSteps /\ s.at \in Dirs
      /\ s.kind = "index" => n \in CmdIndexSteps /\ s.at \in Files
      /\ s.kind = "live" => n \in CmdRepoSteps /\ s.at \in Repos \cup {Outside}
  BY <1>2, <1>3 DEF FromDir, FromIndex, FromRepo, CmdDirSteps, CmdIndexSteps, CmdRepoSteps, SourceTypes
<1>5. CASE s.kind = "dir"
  <2>1. /\ x.dir = s.at /\ x.dir # None
        /\ n[1] \in {"plan", "map", "retry"} => Scope(x) = s.scope
    BY <1>2, <1>3, <1>4, <1>5, DirArgs, Names
  <2>2. n[1] = "map" => x.inQuery = None
    BY <1>3, <1>5 DEF ArgsOf, MapArgs, Target, NoArgs
  <2>3. n[1] \in {"plan", "map", "retry"} =>
          s.scope = IF x.inQuery # None THEN x.inQuery ELSE RepoFilterFlag(x)
    BY <2>1 DEF TwoScopes, Scope, RepoFilterFlag
  <2> HIDE DEF s, x
  <2>4. \A byRepo \in BOOLEAN : CmdSameSource(f, s, Outside, byRepo)
    BY <1>3, <1>4, <1>5, <2>1, <2>2, <2>3, Names, FormReaches
  <2> QED BY <2>4 DEF s
<1>6. CASE s.kind = "index"
  <2>1. x.index = s.at /\ x.index # NoFile /\ x.dir = None
    BY <1>2, <1>3, <1>4, <1>6, IndexArgs, Names
  <2> HIDE DEF s, x
  <2>2. \A byRepo \in BOOLEAN : CmdSameSource(f, s, Outside, byRepo)
    BY <1>3, <1>4, <1>6, <2>1, FormReaches
  <2> QED BY <2>2 DEF s
<1>7. CASE s.kind = "live"
  <2>1. x.repo = s.at /\ ((x.dir = None /\ x.index = NoFile)
                             \/ (x.dir = s.args.dir /\ x.index = s.args.index))
    BY <1>2, <1>3, <1>7, RepoArgs
  <2>2. s.args.dir = None /\ s.args.index = NoFile
    <3>1. CASE Arms[q.tool].way = "repo"
      <4>1. s = RepoTarget(q.args)
        BY <3>1, AnswerOf DEF Answer
      <4>2. s.args = q.args
        BY <4>1 DEF RepoTarget, Live, Error, Source
      <4> QED BY <1>7, <4>2 DEF IgnoresTarget
    <3>2. CASE Arms[q.tool].way # "repo"
      BY <1>1, <1>7, <3>2, AnsweredLive
    <3> QED BY <3>1, <3>2
  <2>3. x.repo \notin {None, Dot}
    BY <1>4, <1>7, <2>1, Names, CommandAssumption DEF Dot, None, Outside
  <2> HIDE DEF s, x
  <2>4. \A byRepo \in BOOLEAN : CmdSameSource(f, s, Outside, byRepo)
    BY <1>3, <1>4, <1>7, <2>1, <2>2, <2>3, FormReaches
  <2> QED BY <2>4 DEF s
<1> QED BY <1>2, <1>3, <1>5, <1>6, <1>7 DEF SourceTypes

LEMMA SearchAutoFindsCheckout == ASSUME Types PROVE SearchAutoFinds
<1> SUFFICES ASSUME NEW r \in Repos
             PROVE  /\ AutoCovers(SearchAutoAnswer(NoArgs, r, "answering", Known), r)
                         <=> Covers([DefaultStatus(Known) EXCEPT !.scope = r], r)
                    /\ AutoCovers(SearchAutoAnswer(NoArgs, r, "unreachable", Known), r)
                    /\ ~AutoCovers(SearchAutoAnswer(NoArgs, r, "failing", Known), r)
  BY DEF SearchAutoFinds
<1> DEFINE a == DaemonArgs(NoArgs, r)
           D == SingleDir(Known)
           W == TheOnly(UnregisteredWarmed(Known), None)
           F == SingleIndex(Known)
<1>1. /\ NoArgs.dir = None /\ NoArgs.repo = None /\ NoArgs.index = NoFile /\ NoArgs.cwd = None
      /\ r # None
  BY Names DEF NoArgs
<1>2. /\ a.dir = None /\ a.repo = None /\ a.index = NoFile /\ a.cwd = None
      /\ a.inQuery = None /\ a.filter = r
  BY DEF DaemonArgs, NoArgs
<1> HIDE DEF a
<1>3. ScopedForQuery(a) = a /\ Scope(a) = r /\ LiveRepo(a) = Process /\ (\A d : MatchesScope(d, a))
  BY <1>1, <1>2 DEF ScopedForQuery, Scoped, Scope, LiveRepo, MatchesScope
<1>4. SearchAutoAnswer(NoArgs, r, "answering", Known) = AutoTarget(a, Known)
  BY <1>1, Ways, AnswerOf DEF SearchAutoAnswer, a
<1>5. AutoTarget(a, Known) = IF D # None THEN InDir(D, a) ELSE IF W # None THEN InDir(W, a)
                             ELSE IF F # NoFile THEN InIndex(F, a) ELSE Live(Process, a)
  BY <1>2, <1>3 DEF AutoTarget
<1>6. /\ \A d : AutoCovers(InDir(d, a), r) <=> r \in roots[d]
      /\ \A f : AutoCovers(InIndex(f, a), r) <=> RootOf(f) = r
      /\ AutoCovers(Live(Process, a), r) <=> Process = r
  BY <1>3 DEF AutoCovers, Covers, InDir, InIndex, Live, Source
<1>7. /\ \A d : Covers([InDir(d, NoArgs) EXCEPT !.scope = r], r) <=> r \in roots[d]
      /\ \A f : Covers([InIndex(f, NoArgs) EXCEPT !.scope = r], r) <=> RootOf(f) = r
      /\ Covers([Live(Process, NoArgs) EXCEPT !.scope = r], r) <=> Process = r
  BY DEF Covers, InDir, InIndex, Live, Source
<1>8. AutoCovers(SearchAutoAnswer(NoArgs, r, "answering", Known), r)
        <=> Covers([DefaultStatus(Known) EXCEPT !.scope = r], r)
  BY <1>4, <1>5, <1>6, <1>7 DEF DefaultStatus
<1>9. AutoCovers(SearchAutoAnswer(NoArgs, r, "unreachable", Known), r)
  <2>1. Cmds.search_auto.way = "auto"
    BY CmdWays DEF AutoCmds
  <2>2. CmdAnswer("search_auto", NoArgs, r) = Live(r, NoArgs)
    BY <1>1, <2>1 DEF CmdAnswer
  <2> QED BY <2>2 DEF SearchAutoAnswer, AutoCovers, Covers, Live, Source
<1>10. ~AutoCovers(SearchAutoAnswer(NoArgs, r, "failing", Known), r)
  BY <1>1 DEF SearchAutoAnswer, AutoCovers, Error, Source
<1> QED BY <1>8, <1>9, <1>10

-----------------------------------------------------------------------------
(* The properties, in every state of every behaviour                       *)

(* A request that an answer of the daemon carries is answered from the     *)
(* source of the answer and in its scope, for all arguments, repositories  *)
(* and directories, after the daemon forgot everything too, and when the   *)
(* client adds its working directory (server.rs 3308-3403, 4184-4261).     *)
THEOREM FollowUpsReachTheirSource == Spec => []FollowUpsStay
<1>1. Types => FollowUpsStay
  BY FollowUpsAreStable
<1> QED BY <1>1, TypesKept, PTL

(* What daemon_status promises of a search_auto, a map and a plan without  *)
(* target is what answers them (server.rs 6872-6907, 11400-11455).         *)
THEOREM StatusIsKept == Spec => []StatusTellsRoute
<1>1. Types => StatusTellsRoute
  BY StatusTells
<1> QED BY <1>1, TypesKept, PTL

(* A request with a checkout for its working directory reaches its         *)
(* repository but in the two situations of LacksCheckout, and in those it  *)
(* never does (server.rs 3308-3403, 4184-4261).                            *)
THEOREM CheckoutIsAlwaysReached == Spec => []CheckoutReached
BY CheckoutIsReached, PTL

(* A refresh that selects by the working directory alone touches nothing   *)
(* of another repository but in the situations of RefreshesForeign, and in *)
(* those it always does: the one ready index is refreshed before anyone    *)
(* looks whose it is (server.rs 3497-3582, 7609-7665, 4579-4583, 7413).    *)
THEOREM RefreshesStayScoped == Spec => []RefreshStaysScoped
<1>1. Types => RefreshStaysScoped
  BY RefreshIsScoped
<1> QED BY <1>1, TypesKept, PTL

(* A request in a command's answer, run as a command or given to a daemon, *)
(* comes back to the command's source, but for "." read elsewhere          *)
(* (main.rs 2742-2746, repo_index.rs 7552-7812).                           *)
THEOREM CommandsReachTheirSource == Spec => []CmdFollowUpsStay
BY CmdFollowUpsReturn, PTL

(* A request in an answer of the daemon, written as a command, reaches the *)
(* source of the answer (repo_index.rs 7552-7812), up to the two cases     *)
(* that CommandFormsStay names.                                            *)
THEOREM CommandFormsReachTheirSource == Spec => []CommandFormsStay
<1>1. Types => CommandFormsStay
  BY CommandFormsReturn
<1> QED BY <1>1, TypesKept, PTL

(* search-auto in a checkout covers it exactly when what daemon_status     *)
(* tells does, always without a daemon, and never when the daemon fails    *)
(* (main.rs 4807-4826).                                                    *)
THEOREM SearchAutoCovers == Spec => []SearchAutoFinds
<1>1. Types => SearchAutoFinds
  BY SearchAutoFindsCheckout
<1> QED BY <1>1, TypesKept, PTL
=============================================================================
