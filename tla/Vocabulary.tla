------------------------------ MODULE Vocabulary -----------------------------
(***************************************************************************)
(* The names of arguments and flags (server.rs, main.rs, repo_index.rs).   *)
(* A tool's arguments are written down four times: in its manifest, in the *)
(* handler that reads them, in the requests that carry them on, and as the *)
(* flags of the command that does the same.                                *)
(*                                                                         *)
(* A name with "_" also stands for its kebab-case form, which the schema   *)
(* and argument_value have wherever they have the name.  Where requests    *)
(* are made from requests the two differ: see Snake.                       *)
(***************************************************************************)
EXTENDS CommandLine
LOCAL INSTANCE TLC

-----------------------------------------------------------------------------
(* The lists of optional arguments                                         *)

FilterArgs ==
  {"language", "lang", "extension", "ext", "symbol", "symbol_kind", "kind", "type",
   "dependency", "dep", "deps", "import", "imports", "module", "modules", "use", "uses",
   "file", "repo_filter", "branch", "origin", "test", "generated", "code"}
ExcludeArgs ==
  {"exclude_file", "exclude_language", "exclude_lang", "exclude_extension", "exclude_ext",
   "exclude_symbol", "exclude_symbol_kind", "exclude_kind", "exclude_type", "exclude_repo",
   "exclude_branch", "exclude_origin", "exclude_dependency", "exclude_dep", "exclude_deps",
   "exclude_import", "exclude_imports", "exclude_module", "exclude_modules", "exclude_use",
   "exclude_uses", "exclude_content", "exclude_text", "exclude_term"}
CommonArgs == FilterArgs \cup ExcludeArgs
PathArgs == {"path", "dir", "exclude_path"}
LineArgs == {"line", "target_line"}
TargetArgs == {"repo", "index", "index_dir", "cwd"}
TermArgs == {"require_all", "any_terms"}
WindowArgs == {"start", "start_line", "lines", "line_count", "end_line", "end"} \cup LineArgs

SearchOptionalArgs ==
  CommonArgs \cup PathArgs \cup LineArgs \cup TermArgs
    \cup {"limit", "snippet", "snippet_mode", "explain", "context_lines"}
SearchTargetOptionalArgs == SearchOptionalArgs \cup TargetArgs \cup {"refresh_if_stale"}
ReadTargetOptionalArgs == TargetArgs \cup WindowArgs \cup {"path", "range", "scope"}
ReadBatchTargetOptionalArgs == TargetArgs \cup {"scope", "include_summary"}
ReadBatchIndexOptionalArgs == {"scope", "include_summary"}
ReadWindowOptionalArgs == WindowArgs \cup {"path", "range", "scope"}
RepoMapTargetOptionalArgs ==
  TargetArgs \cup {"symbols", "tests", "detail", "read_limit", "repo_filter", "branch", "origin",
                   "refresh_if_stale"}
RelatedFilesTargetOptionalArgs ==
  CommonArgs \cup TargetArgs \cup {"limit", "include_read_batch", "exclude_path", "exclude_folder"}
RelatedIndexFilesOptionalArgs ==
  CommonArgs \cup {"repo", "limit", "include_read_batch", "exclude_path", "exclude_folder"}
RelatedShardFilesOptionalArgs == RelatedIndexFilesOptionalArgs
RelatedSymbolsTargetOptionalArgs ==
  CommonArgs \cup TargetArgs \cup LineArgs \cup {"path", "query", "limit", "include_read_batch"}
RelatedIndexSymbolsOptionalArgs ==
  CommonArgs \cup LineArgs \cup {"repo", "path", "query", "limit", "include_read_batch"}
RelatedShardSymbolsOptionalArgs ==
  CommonArgs \cup LineArgs \cup {"repo", "query", "limit", "include_read_batch"}
SymbolTargetOptionalArgs ==
  CommonArgs \cup PathArgs \cup LineArgs \cup TargetArgs \cup {"limit", "include_read_batch"}
SymbolIndexOptionalArgs == CommonArgs \cup PathArgs \cup {"repo", "limit", "include_read_batch"}
SearchAutoOptionalArgs ==
  SearchTargetOptionalArgs \cup {"diagnose", "retry_if_empty", "summary"}
SearchIndexOptionalArgs == SearchOptionalArgs \cup {"repo", "refresh_if_stale"}
PlanOptionalArgs ==
  CommonArgs \cup PathArgs \cup LineArgs \cup TermArgs \cup {"summary", "advice"}
PlanTargetOptionalArgs ==
  (PlanOptionalArgs \ LineArgs) \cup TargetArgs \cup {"refresh_if_stale"}
PlanIndexOptionalArgs == (PlanOptionalArgs \ LineArgs) \cup {"repo", "refresh_if_stale"}
ShardBuildOptionalArgs ==
  {"repos", "root", "discover_root", "discover_roots", "max_depth", "limit", "discover_limit",
   "family_limit", "nested_manifests"}
IndexShardBuildOptionalArgs == ShardBuildOptionalArgs \cup {"force"}

-----------------------------------------------------------------------------
(* The manifest                                                            *)

Entry(required, optional) == [required |-> required, optional |-> optional]
NoArguments == Entry({}, {})
GuideArgs == {"repo", "index", "index_dir", "addr", "socket", "profile"}

ServerTools == [
  list_tools |-> NoArguments, tool_manifest |-> NoArguments, mcp_manifest |-> NoArguments,
  agent_guide |-> Entry({}, GuideArgs), agent_instructions |-> Entry({}, GuideArgs),
  daemon_status |-> Entry({}, {"cwd", "details"}),
  warm_index |-> Entry({"index"}, {}),
  ensure_index |-> Entry({"repo", "index"}, {}), refresh_index |-> Entry({"repo", "index"}, {}),
  index_status |-> Entry({"index"}, {}),
  register_shards |-> Entry({"index_dir"}, {}), warm_shards |-> Entry({"index_dir"}, {}) ]

RepoTools == [
  discover_repos |-> Entry({"root"}, {"max_depth", "limit", "family_limit", "git_metadata",
                                      "tracked_files", "nested_manifests"}),
  repo_brief |-> Entry({"repo"}, {"detail"}),
  warmth_plan |-> Entry({"repo"}, {"index_dir", "query", "max_paths", "max_bytes",
                                   "required_revision", "heat"}),
  repo_map |-> Entry({}, RepoMapTargetOptionalArgs),
  indexed_repo_map |-> Entry({"index"}, {"symbols", "tests", "detail", "read_limit"}),
  read_range |-> Entry({}, ReadTargetOptionalArgs),
  open_range |-> Entry({}, ReadTargetOptionalArgs),
  read_ranges |-> Entry({"ranges"}, ReadBatchTargetOptionalArgs),
  open_ranges |-> Entry({"ranges"}, ReadBatchTargetOptionalArgs) ]

SearchTools == [
  search_code |-> Entry({"repo", "query"}, SearchOptionalArgs),
  search |-> Entry({"query"}, SearchTargetOptionalArgs),
  search_auto |-> Entry({"query"}, SearchAutoOptionalArgs),
  search_auto_batch |-> Entry({"queries"}, SearchAutoOptionalArgs),
  search_batch |-> Entry({"queries"}, SearchTargetOptionalArgs),
  search_query_plan |-> Entry({"repo", "query"}, PlanOptionalArgs),
  search_plan |-> Entry({"query"}, PlanTargetOptionalArgs),
  search_query_plan_batch |-> Entry({"repo", "queries"}, PlanOptionalArgs),
  search_plan_batch |-> Entry({"queries"}, PlanTargetOptionalArgs),
  indexed_search_code |-> Entry({"index", "query"}, SearchIndexOptionalArgs),
  indexed_search |-> Entry({"index", "query"}, SearchIndexOptionalArgs),
  indexed_search_batch |-> Entry({"index", "queries"}, SearchIndexOptionalArgs),
  indexed_query_plan |-> Entry({"index", "query"}, PlanIndexOptionalArgs),
  index_plan |-> Entry({"index", "query"}, PlanIndexOptionalArgs),
  indexed_query_plan_batch |-> Entry({"index", "queries"}, PlanIndexOptionalArgs) ]

ReadTools == [
  read_index_range |-> Entry({"index"}, ReadWindowOptionalArgs),
  open_index_range |-> Entry({"index"}, ReadWindowOptionalArgs),
  read_index_ranges |-> Entry({"index", "ranges"}, ReadBatchIndexOptionalArgs),
  open_index_ranges |-> Entry({"index", "ranges"}, ReadBatchIndexOptionalArgs),
  index_shards |-> Entry({"output_dir"}, IndexShardBuildOptionalArgs),
  ensure_shards |-> Entry({"output_dir"}, ShardBuildOptionalArgs),
  refresh_shards |-> Entry({"index_dir"}, {}),
  shard_status |-> Entry({"index_dir"}, {"cwd", "repo_filter"}),
  search_shards |-> Entry({"index_dir", "query"}, SearchIndexOptionalArgs),
  search_shards_batch |-> Entry({"index_dir", "queries"}, SearchIndexOptionalArgs),
  shard_query_plan |-> Entry({"index_dir", "query"}, PlanIndexOptionalArgs),
  shard_plan |-> Entry({"index_dir", "query"}, PlanIndexOptionalArgs),
  shard_query_plan_batch |-> Entry({"index_dir", "queries"}, PlanIndexOptionalArgs),
  read_shard_range |-> Entry({"index_dir"}, ReadWindowOptionalArgs),
  open_shard_range |-> Entry({"index_dir"}, ReadWindowOptionalArgs),
  read_shard_ranges |-> Entry({"index_dir", "ranges"}, ReadBatchIndexOptionalArgs),
  open_shard_ranges |-> Entry({"index_dir", "ranges"}, ReadBatchIndexOptionalArgs) ]

SymbolTools == [
  shard_repo_map |-> Entry({"index_dir"}, {"symbols", "tests", "detail", "read_limit", "repo",
                           "repo_filter", "cwd", "branch", "origin", "refresh_if_stale"}),
  find_shard_symbol |-> Entry({"index_dir", "name"}, SymbolIndexOptionalArgs),
  find_shard_symbol_batch |-> Entry({"index_dir", "names"}, SymbolIndexOptionalArgs),
  find_symbol |-> Entry({"name"}, SymbolTargetOptionalArgs),
  find_symbol_batch |-> Entry({"names"}, SymbolTargetOptionalArgs),
  find_index_symbol |-> Entry({"index", "name"}, SymbolIndexOptionalArgs),
  find_index_symbol_batch |-> Entry({"index", "names"}, SymbolIndexOptionalArgs),
  related_files |-> Entry({"path"}, RelatedFilesTargetOptionalArgs),
  related_index_files |-> Entry({"index", "path"}, RelatedIndexFilesOptionalArgs),
  related_shard_files |-> Entry({"index_dir", "path"}, RelatedShardFilesOptionalArgs),
  related_symbols |-> Entry({}, RelatedSymbolsTargetOptionalArgs),
  related_index_symbols |-> Entry({"index"}, RelatedIndexSymbolsOptionalArgs),
  related_shard_symbols |-> Entry({"index_dir", "path"}, RelatedShardSymbolsOptionalArgs) ]

Manifest == ServerTools @@ RepoTools @@ SearchTools @@ ReadTools @@ SymbolTools
AllTools == DOMAIN Manifest
Named(t) == Manifest[t].required \cup Manifest[t].optional

(* The schema of a tool also has the aliases of its arguments.             *)
AliasesOf(n) ==
  CASE n = "path" -> {"dir", "directory", "folder"}
    [] n = "language" -> {"lang"}
    [] n = "extension" -> {"ext"}
    [] n = "file" -> {"filename", "file_name"}
    [] n = "symbol_kind" -> {"kind", "type", "symbol_type"}
    [] n = "dependency" -> {"dep", "deps"}
    [] n = "import" -> {"imports", "module", "modules", "use", "uses"}
    [] n = "branch" -> {"git_branch"}
    [] n = "origin" -> {"remote", "remote_origin"}
    [] n = "end_line" -> {"end"}
    [] n = "exclude_file" -> {"exclude_filename", "exclude_file_name"}
    [] n = "exclude_path" -> {"exclude_dir", "exclude_directory", "exclude_folder"}
    [] n = "exclude_language" -> {"exclude_lang"}
    [] n = "exclude_extension" -> {"exclude_ext"}
    [] n = "exclude_symbol_kind" -> {"exclude_kind", "exclude_type"}
    [] n = "exclude_origin" -> {"exclude_remote", "exclude_remote_origin"}
    [] n = "exclude_dependency" -> {"exclude_dep", "exclude_deps"}
    [] n = "exclude_import" -> {"exclude_imports", "exclude_module", "exclude_modules",
                                "exclude_use", "exclude_uses"}
    [] OTHER -> {}
NoAliases(t) == Named(t)                            \* defect: the schema has the names alone
Schema(t) == Named(t) \cup UNION {AliasesOf(n) : n \in Named(t)}

(* The type of an argument, in the list of arguments and in the schema.    *)
StringLists == ExcludeArgs \cup {"exclude_path", "exclude_git_branch", "exclude_remote",
                                 "exclude_remote_origin"}
IntegerArgs ==
  {"limit", "max_depth", "discover_limit", "family_limit", "symbols", "start", "start_line",
   "end_line", "end", "lines", "line_count", "tests", "context_lines", "read_limit", "line",
   "target_line"}
ArgumentType(n) ==
  CASE n \in IntegerArgs -> "integer"
    [] n \in {"test", "generated", "code", "explain", "require_all", "any_terms", "details",
              "refresh_if_stale", "include_read_batch", "include_summary", "git_metadata",
              "tracked_files", "nested_manifests", "summary", "advice"} -> "boolean"
    [] n \in StringLists -> "list"
    [] n \in {"range", "ranges"} -> n
    [] n \in {"repos", "discover_roots", "queries"} -> "strings"
    [] OTHER -> "string"

NameType(t, n) ==
  CASE t = "warmth_plan" /\ n \in {"max_paths", "max_bytes"} -> "integer"
    [] t = "warmth_plan" /\ n = "heat" -> "observations"
    [] n \in StringLists -> "list"
    [] n \in {"range", "ranges"} -> n
    [] n \in {"queries", "names", "repos", "discover_roots"} -> "strings"
    [] n \in {"test", "generated", "code", "explain", "require_all", "any_terms", "details",
              "refresh_if_stale", "diagnose", "retry_if_empty", "include_read_batch",
              "include_summary", "summary", "advice", "git_metadata", "tracked_files",
              "nested_manifests", "force"} -> "boolean"
    [] n \in IntegerArgs -> "integer"
    [] OTHER -> "string"
SchemaType(t, n) ==
  NameType(t, IF n \in Named(t) THEN n ELSE CHOOSE m \in Named(t) : n \in AliasesOf(m))

(* Which tools the manifest says fall back on the daemon's only index or   *)
(* on its only registered directory.                                       *)
DefaultsToIndex ==
  {"indexed_repo_map", "indexed_search", "indexed_search_code", "indexed_search_batch",
   "index_plan", "indexed_query_plan", "indexed_query_plan_batch", "index_status",
   "read_index_range", "read_index_ranges", "open_index_range", "open_index_ranges",
   "find_index_symbol", "related_index_files", "related_index_symbols"}
DefaultsToDir ==
  {"refresh_shards", "shard_status", "search_shards", "search_shards_batch", "shard_plan",
   "shard_query_plan", "shard_query_plan_batch", "read_shard_range", "read_shard_ranges",
   "open_shard_range", "open_shard_ranges", "shard_repo_map", "find_shard_symbol",
   "related_shard_files", "related_shard_symbols"}

(* The MCP manifest marks the other tools as reading only.                 *)
Mutating ==
  {"warm_index", "register_shards", "ensure_index", "refresh_index", "warm_shards",
   "index_shards", "ensure_shards", "refresh_shards"}

-----------------------------------------------------------------------------
(* What the handlers read                                                  *)

(* Every way to write a filter, the one that wins first.                   *)
Spellings == [
  path |-> <<"path", "dir", "directory", "folder">>, language |-> <<"language", "lang">>,
  extension |-> <<"extension", "ext">>, symbol |-> <<"symbol">>,
  symbol_kind |-> <<"symbol_kind", "kind", "type">>, branch |-> <<"branch", "git_branch">>,
  origin |-> <<"origin", "remote", "remote_origin">>,
  dependency |-> <<"dependency", "dep", "deps">>,
  import |-> <<"import", "imports", "module", "modules", "use", "uses">>,
  file |-> <<"file", "filename", "file_name">>, repo |-> <<"repo_filter">>,
  test |-> <<"test">>, generated |-> <<"generated">>, code |-> <<"code">>,
  line |-> <<"line", "target_line">> ]
ExcludeSpellings == [
  exclude_file |-> <<"exclude_file", "exclude_filename", "exclude_file_name">>,
  exclude_path |-> <<"exclude_path", "exclude_dir", "exclude_directory", "exclude_folder">>,
  exclude_language |-> <<"exclude_language", "exclude_lang">>,
  exclude_extension |-> <<"exclude_extension", "exclude_ext">>,
  exclude_symbol |-> <<"exclude_symbol">>,
  exclude_symbol_kind |-> <<"exclude_symbol_kind", "exclude_kind", "exclude_type">>,
  exclude_repo |-> <<"exclude_repo">>,
  exclude_branch |-> <<"exclude_branch", "exclude_git_branch">>,
  exclude_origin |-> <<"exclude_origin", "exclude_remote", "exclude_remote_origin">>,
  exclude_dependency |-> <<"exclude_dependency", "exclude_dep", "exclude_deps">>,
  exclude_import |-> <<"exclude_import", "exclude_imports", "exclude_module", "exclude_modules",
                       "exclude_use", "exclude_uses">>,
  exclude_content |-> <<"exclude_content", "exclude_text", "exclude_term">> ]
Fields == DOMAIN Spellings \cup DOMAIN ExcludeSpellings
SpelledAs(f) == Range(IF f \in DOMAIN Spellings THEN Spellings[f] ELSE ExcludeSpellings[f])
FilterNames == UNION {SpelledAs(f) : f \in Fields}

(* search_filters of a tool that has a repository of its own, and of one   *)
(* that also takes repo for repo_filter.                                   *)
FilterReads == FilterNames \cup {"snippet", "snippet_mode", "explain", "require_all", "any_terms"}
AliasedReads == FilterReads \cup {"repo"}
RelatedReads == (AliasedReads \ SpelledAs("path")) \cup {"path", "limit", "include_read_batch"}
RangeReads == {"path", "range", "ranges", "start", "start_line", "line", "target_line", "lines",
               "line_count", "end_line", "end", "scope"}
BatchReads == {"ranges", "scope", "include_summary"}
MapReads == {"symbols", "tests", "detail", "read_limit"}
ShardRepoReads == {"repos", "discover_roots", "discover_root", "root", "max_depth",
                   "discover_limit", "limit", "family_limit", "nested_manifests"}

ReadsOf(t) ==
  CASE t \in {"agent_guide", "agent_instructions"} -> GuideArgs
    [] t = "daemon_status" -> {"cwd", "details"}
    [] t \in {"warm_index", "index_status"} -> {"index"}
    [] t \in {"ensure_index", "refresh_index"} -> {"repo", "index"}
    [] t \in {"register_shards", "warm_shards", "refresh_shards"} -> {"index_dir"}
    [] t = "index_shards" -> ShardRepoReads \cup {"output_dir", "force"}
    [] t = "ensure_shards" -> ShardRepoReads \cup {"output_dir"}
    [] t = "shard_status" -> {"index_dir", "cwd", "repo_filter"}
    [] t = "discover_repos" -> {"root", "max_depth", "limit", "family_limit", "git_metadata",
                                "tracked_files", "nested_manifests"}
    [] t = "repo_brief" -> {"repo", "detail"}
    [] t = "warmth_plan" -> {"repo", "index_dir", "query", "max_paths", "max_bytes",
                             "required_revision", "heat"}
    [] t = "repo_map" -> TargetArgs \cup AliasedReads \cup MapReads \cup {"refresh_if_stale"}
    [] t = "indexed_repo_map" -> {"index"} \cup MapReads
    [] t = "shard_repo_map" ->
         {"index_dir", "cwd", "refresh_if_stale"} \cup AliasedReads \cup MapReads
    [] t \in {"read_range", "open_range"} -> TargetArgs \cup RangeReads
    [] t \in {"read_ranges", "open_ranges"} -> TargetArgs \cup BatchReads
    [] t \in {"read_index_range", "open_index_range"} -> {"index"} \cup RangeReads
    [] t \in {"read_index_ranges", "open_index_ranges"} -> {"index"} \cup BatchReads
    [] t \in {"read_shard_range", "open_shard_range"} -> {"index_dir"} \cup RangeReads
    [] t \in {"read_shard_ranges", "open_shard_ranges"} -> {"index_dir"} \cup BatchReads
    [] t = "search_code" -> FilterReads \cup {"repo", "query", "limit", "context_lines"}
    [] t \in {"search", "search_batch"} ->
         TargetArgs \cup AliasedReads \cup {"limit", "context_lines", "refresh_if_stale"}
           \cup {IF t = "search" THEN "query" ELSE "queries"}
    [] t \in {"search_auto", "search_auto_batch"} ->
         TargetArgs \cup AliasedReads
           \cup {"limit", "context_lines", "refresh_if_stale", "diagnose", "retry_if_empty", "summary"}
           \cup {IF t = "search_auto" THEN "query" ELSE "queries"}
    [] t \in {"search_query_plan", "search_query_plan_batch"} ->
         FilterReads \cup {"repo", "summary", "advice"}
           \cup {IF t = "search_query_plan" THEN "query" ELSE "queries"}
    [] t \in {"search_plan", "search_plan_batch"} ->
         TargetArgs \cup AliasedReads \cup {"summary", "advice", "refresh_if_stale"}
           \cup {IF t = "search_plan" THEN "query" ELSE "queries"}
    [] t \in {"indexed_search_code", "indexed_search", "indexed_search_batch"} ->
         AliasedReads \cup {"index", "limit", "context_lines", "refresh_if_stale"}
           \cup {IF t = "indexed_search_batch" THEN "queries" ELSE "query"}
    [] t \in {"indexed_query_plan", "index_plan", "indexed_query_plan_batch"} ->
         AliasedReads \cup {"index", "summary", "advice", "refresh_if_stale"}
           \cup {IF t = "indexed_query_plan_batch" THEN "queries" ELSE "query"}
    [] t \in {"search_shards", "search_shards_batch"} ->
         AliasedReads \cup {"index_dir", "cwd", "limit", "context_lines", "refresh_if_stale"}
           \cup {IF t = "search_shards" THEN "query" ELSE "queries"}
    [] t \in {"shard_query_plan", "shard_plan", "shard_query_plan_batch"} ->
         AliasedReads \cup {"index_dir", "cwd", "summary", "advice", "refresh_if_stale"}
           \cup {IF t = "shard_query_plan_batch" THEN "queries" ELSE "query"}
    [] t = "find_symbol" ->
         TargetArgs \cup AliasedReads \cup {"name", "limit", "include_read_batch"}
    [] t = "find_symbol_batch" -> TargetArgs \cup AliasedReads \cup {"names", "limit"}
    [] t = "find_index_symbol" ->
         AliasedReads \cup {"index", "name", "limit", "include_read_batch"}
    [] t = "find_index_symbol_batch" -> AliasedReads \cup {"index", "names", "limit"}
    [] t = "find_shard_symbol" ->
         AliasedReads \cup {"index_dir", "name", "limit", "include_read_batch"}
    [] t = "find_shard_symbol_batch" -> AliasedReads \cup {"index_dir", "names", "limit"}
    [] t = "related_files" -> TargetArgs \cup RelatedReads
    [] t = "related_index_files" -> {"index"} \cup RelatedReads
    [] t = "related_shard_files" -> {"index_dir"} \cup RelatedReads
    [] t = "related_symbols" -> TargetArgs \cup RelatedReads \cup {"query"}
    [] t = "related_index_symbols" -> {"index", "query"} \cup RelatedReads
    [] t = "related_shard_symbols" -> {"index_dir", "query"} \cup RelatedReads
    [] OTHER -> {}

-----------------------------------------------------------------------------
(* The flags of the commands, aliases included                             *)

CommonSearchFlags ==
  (FilterNames \ {"repo_filter"}) \cup TermArgs
    \cup {"in", "inside", "under", "within", "snippet", "snippet_mode", "explain", "format"}
RelatedFlags == (FilterNames \ SpelledAs("path")) \cup {"format"}

TargetFlagNames == {"repo", "index", "index_dir"}
QueryFlags == CommonSearchFlags \cup {"query", "refresh_if_stale"}
HitFlags == {"limit", "context_lines"}
MapFlags == MapReads \cup {"format"}
BranchFlags == SpelledAs("branch") \cup SpelledAs("origin")
AdviceFlags == {"summary", "advice"}
WindowFlags == (WindowArgs \ {"target_line"}) \cup {"path", "scope", "format"}
WindowsFlags == (WindowFlags \ {"path"}) \cup {"range", "summary"}
RelationFlags == RelatedFlags \cup {"path", "limit", "include_read_batch"}

ShardFlags == [
  search_shards |-> QueryFlags \cup HitFlags \cup {"index_dir", "repo"},
  search_shards_batch |-> (QueryFlags \ {"query"}) \cup HitFlags \cup {"index_dir", "repo"},
  shard_plan |-> QueryFlags \cup {"index_dir", "repo"},
  shard_plan_batch |-> (QueryFlags \ {"query"}) \cup {"index_dir", "repo"},
  read_shard_range |-> {"index_dir", "path", "start", "lines", "scope", "format"},
  read_shard_ranges |-> {"index_dir", "range", "start", "lines", "scope", "summary", "format"},
  shard_symbol |-> CommonSearchFlags \cup {"index_dir", "limit", "repo"},
  shard_symbol_batch |-> CommonSearchFlags \cup {"index_dir", "limit", "repo"},
  shard_map |-> MapFlags \cup BranchFlags \cup {"index_dir", "repo"} ]

PlanFlags == [
  brief |-> {"repo", "detail"},
  repo_map |-> MapFlags \cup BranchFlags \cup TargetFlagNames \cup {"repo_filter"},
  index_map |-> MapFlags \cup {"index"},
  index_plan |-> QueryFlags \cup AdviceFlags \cup {"index", "repo_filter"},
  index_plan_batch |-> (QueryFlags \ {"query"}) \cup AdviceFlags \cup {"index", "repo_filter"},
  search_plan |-> QueryFlags \cup AdviceFlags \cup TargetFlagNames \cup {"repo_filter"},
  search_plan_batch |->
    (QueryFlags \ {"query"}) \cup AdviceFlags \cup TargetFlagNames \cup {"repo_filter"} ]

SearchFlags == [
  search |-> QueryFlags \cup HitFlags \cup TargetFlagNames
               \cup {"repo_filter", "diagnose", "retry_if_empty"},
  search_auto |-> QueryFlags \cup HitFlags \cup TargetFlagNames
               \cup {"repo_filter", "diagnose", "retry_if_empty", "summary", "daemon_addr", "addr",
                     "no_daemon"},
  search_auto_batch |-> (QueryFlags \ {"query"}) \cup HitFlags \cup TargetFlagNames
               \cup {"repo_filter", "diagnose", "retry_if_empty", "summary", "daemon_addr", "addr",
                     "no_daemon"},
  search_batch |-> (QueryFlags \ {"query"}) \cup HitFlags \cup TargetFlagNames \cup {"repo_filter"},
  indexed_search |-> QueryFlags \cup HitFlags \cup {"index", "repo_filter"},
  indexed_search_batch |-> (QueryFlags \ {"query"}) \cup HitFlags \cup {"index", "repo_filter"} ]

ReadFlags == [
  read_range |-> TargetFlagNames \cup WindowFlags,
  read_ranges |-> TargetFlagNames \cup WindowsFlags ]

IndexReadFlags == [
  read_index_range |-> {"index"} \cup WindowFlags,
  read_index_ranges |-> {"index"} \cup WindowsFlags ]

SymbolFlags == [
  symbol |-> CommonSearchFlags \cup TargetFlagNames \cup {"limit", "include_read_batch", "repo_filter"},
  symbol_batch |-> CommonSearchFlags \cup TargetFlagNames \cup {"limit", "repo_filter"},
  index_symbol |-> CommonSearchFlags \cup {"index", "limit", "include_read_batch", "repo"},
  index_symbol_batch |-> CommonSearchFlags \cup {"index", "limit", "repo"} ]

RelationsFlags == [
  related |-> RelationFlags \cup TargetFlagNames,
  related_index |-> RelationFlags \cup {"index"},
  related_shard |-> RelationFlags \cup {"index_dir"},
  related_symbols |-> RelationFlags \cup TargetFlagNames \cup {"query"},
  related_shard_symbols |-> RelationFlags \cup {"index_dir", "query"},
  related_index_symbols |-> RelationFlags \cup {"index", "query"} ]

StatusFlags == [
  index_status |-> {"index", "format"}, shard_status |-> {"index_dir", "summary", "format"} ]

Flags == ShardFlags @@ PlanFlags @@ SearchFlags @@ ReadFlags @@ IndexReadFlags @@ SymbolFlags
           @@ RelationsFlags @@ StatusFlags

(* The tool that does what the command does.                               *)
ToolOf(c) ==
  CASE c = "brief" -> "repo_brief"
    [] c = "index_map" -> "indexed_repo_map"
    [] c = "shard_map" -> "shard_repo_map"
    [] c = "index_plan" -> "indexed_query_plan"
    [] c = "index_plan_batch" -> "indexed_query_plan_batch"
    [] c = "shard_plan" -> "shard_query_plan"
    [] c = "shard_plan_batch" -> "shard_query_plan_batch"
    [] c = "symbol" -> "find_symbol"
    [] c = "symbol_batch" -> "find_symbol_batch"
    [] c = "index_symbol" -> "find_index_symbol"
    [] c = "index_symbol_batch" -> "find_index_symbol_batch"
    [] c = "shard_symbol" -> "find_shard_symbol"
    [] c = "shard_symbol_batch" -> "find_shard_symbol_batch"
    [] c = "related" -> "related_files"
    [] c = "related_index" -> "related_index_files"
    [] c = "related_shard" -> "related_shard_files"
    [] OTHER -> c

-----------------------------------------------------------------------------
(* The arguments of the requests that an answer carries: their names       *)

TargetName == [dir |-> "index_dir", index |-> "index", live |-> "repo"]

(* Kebab-case names of filters.                                            *)
Snake(n) ==
  CASE n = "repo-filter" -> "repo_filter"
    [] n = "symbol-kind" -> "symbol_kind"
    [] n = "file-name" -> "file_name"
    [] n = "git-branch" -> "git_branch"
    [] n = "remote-origin" -> "remote_origin"
    [] OTHER -> n
Kebabs == {"repo-filter", "symbol-kind", "file-name", "git-branch", "remote-origin"}

(* The fields that arguments of these names filter by.                     *)
FieldsOf(names) ==
  {f \in Fields : SpelledAs(f) \cap {Snake(n) : n \in names} # {}}
FieldsGiven(names, target) ==
  FieldsOf(names) \cup (IF target # "repo" /\ "repo" \in names THEN {"repo"} ELSE {})

(* auto_query_plan_passthrough_arg, retry_search_passthrough_arg           *)
PassedAll(given, target) == given \ {target}        \* defect: cwd and limits are passed on too
NotPassed ==
  {"query", "queries", "cwd", "limit", "context_lines", "snippet", "snippet_mode", "explain",
   "diagnose", "retry_if_empty", "summary", "advice"}
Passed(given, target) ==
  given \ (NotPassed \cup {target}
             \cup IF target = "repo" THEN {} ELSE {"index", "index_dir"})

ReadNames(tool, target) ==
  {target} \cup IF tool \in {"read_range", "read_index_range", "read_shard_range"}
                THEN {"range"} ELSE {"ranges", "scope"}
RelatedFilesNames(target, given) ==
  {target, "path", "include_read_batch"}
    \cup {IF f = "repo" THEN "repo_filter" ELSE f :
             f \in FieldsGiven(given, target) \ {"path", "line"}}
RelatedSymbolsNames(target) == {target, "query", "path", "include_read_batch"}
PlanNames(target, given) == Passed(given, target) \cup {target, "query"}
MapNames(target, given) ==
  {target, "detail", "read_limit"}
    \cup IF target # "index_dir" THEN {}
         ELSE FieldsGiven(given, target)
                \cap {"repo", "branch", "origin", "exclude_repo", "exclude_branch", "exclude_origin"}
RefreshNames(target, given) ==
  (given \ {"queries"}) \cup {target, "query", "refresh_if_stale"}
RelaxedNames(target, given) ==
  (given \cap {"refresh_if_stale", "require_all", "any_terms"}) \cup {target, "query", "explain"}

(* retry_source_arg_matches_filter                                         *)
CanonicalOnly(field) == {field}                     \* defect: aliases of the field are kept
Matched(field) ==
  CASE field = "file" -> {"file", "filename", "file_name"}
    [] field = "path" -> {"path", "dir", "directory", "folder"}
    [] field = "language" -> {"language", "lang"}
    [] field = "extension" -> {"extension", "ext"}
    [] field = "test" -> {"test", "tests"}
    [] field = "symbol_kind" -> {"symbol_kind", "kind", "type"}
    [] field = "repo" -> {"repo", "repo_filter"}
    [] field = "branch" -> {"branch", "git_branch"}
    [] field = "origin" -> {"origin", "remote", "remote_origin"}
    [] field = "dependency" -> {"dependency", "dep", "deps"}
    [] field = "import" -> {"import", "module", "use"}
    [] field \in {"symbol", "generated", "code"} -> {field}
    [] OTHER -> {}

(* The filters the plan found active become arguments by their fields.     *)
ActiveNames(given, target) ==
  FieldsGiven(given, target) \ (IF target = "repo" THEN {"repo"} ELSE {})

Relaxable ==
  {"file", "path", "language", "extension", "test", "generated", "code", "symbol_kind", "repo",
   "branch", "origin", "dependency", "import"}
Replaceable == {"file", "path", "symbol", "symbol_kind", "language", "extension"}

RetryNames(target, given, without) ==
  (Passed(given, target) \ Matched(without)) \cup (ActiveNames(given, target) \ {without})
    \cup {target, "query", "explain"}

(* A hint to broaden the query drops the fields of the other hints.        *)
ExcludeOf(field) ==
  CASE field = "file" -> {"exclude_file"}
    [] field = "path" -> {"exclude_path"}
    [] field = "language" -> {"exclude_language"}
    [] field = "extension" -> {"exclude_extension"}
    [] field = "symbol" -> {"exclude_symbol"}
    [] field = "symbol_kind" -> {"exclude_symbol_kind"}
    [] field = "repo" -> {"exclude_repo"}
    [] field = "branch" -> {"exclude_branch"}
    [] field = "origin" -> {"exclude_origin"}
    [] field = "dependency" -> {"exclude_dependency"}
    [] field = "import" -> {"exclude_import"}
    [] OTHER -> {}
BroadenedNames(target, given, fields) ==
  (RetryNames(target, given, None) \ (fields \cup UNION {ExcludeOf(f) : f \in fields}))
    \cup {target, "query", "explain"}

Carried(kind, tool, target, given) ==
  CASE kind = "read" -> ReadNames(tool, target)
    [] kind = "related" ->
         IF tool \in {"related_files", "related_index_files", "related_shard_files"}
           THEN RelatedFilesNames(target, given) ELSE RelatedSymbolsNames(target)
    [] kind = "plan" -> PlanNames(target, given)
    [] kind = "map" -> MapNames(target, given)
    [] kind = "retry" -> RetryNames(target, given, None)
    [] kind = "relaxed" -> RelaxedNames(target, given)
    [] kind = "refresh" -> RefreshNames(target, given)

(* plan_filter_argument_value                                              *)
CarriedType(kind, tool, n) ==
  IF kind = "retry" /\ n = "line" THEN "string" ELSE SchemaType(tool, n)

-----------------------------------------------------------------------------
(* The flags a request is written with as a command                        *)

TargetForm(names) ==
  IF "index_dir" \in names THEN {"index_dir"}
  ELSE IF "index" \in names THEN {"index"} ELSE names \cap {"repo"}
RepoFilterForm(names) ==
  IF "repo_filter" \in names \/ {"index_dir", "repo"} \subseteq names THEN {"repo_filter"} ELSE {}
LineForm(names) == IF names \cap LineArgs # {} THEN {"line"} ELSE {}
RelatedFilterForm(names) ==
  (names \cap (Fields \ {"repo", "path", "line"})) \cup RepoFilterForm(names)
SearchFilterForm(names) ==
  RelatedFilterForm(names) \cup LineForm(names)
    \cup (names \cap {"path", "require_all", "any_terms", "snippet", "explain", "refresh_if_stale"})

ReadForm(names) == TargetForm(names) \cup (names \cap {"scope"})
MapForm(names) == TargetForm(names) \cup RepoFilterForm(names) \cup (names \cap MapReads)
PlanForm(names) == TargetForm(names) \cup SearchFilterForm(names) \cup {"query"}
SearchForm(names) == PlanForm(names) \cup (names \cap {"limit", "context_lines", "diagnose"})
RelatedForm(names) ==
  TargetForm(names) \cup RelatedFilterForm(names)
    \cup (names \cap {"path", "query", "limit", "include_read_batch"})

Form(tool, names) ==
  CASE tool \in Reads -> ReadForm(names)
    [] tool \in Maps -> MapForm(names)
    [] tool \in Plans -> PlanForm(names)
    [] tool \in DOMAIN Relations -> RelatedForm(names)
    [] OTHER -> SearchForm(names)

-----------------------------------------------------------------------------
(* Names do not depend on what a daemon holds: they are compared in one    *)
(* that has just started.                                                  *)

SymbolBatches == {"find_symbol_batch", "find_index_symbol_batch", "find_shard_symbol_batch"}
PathIsFile ==
  {"read_range", "open_range", "read_index_range", "open_index_range", "read_shard_range",
   "open_shard_range"} \cup DOMAIN Relations
Ignored(t) ==
  (IF "symbol_kind" \in Named(t) THEN {"symbol_type"} ELSE {})
    \cup (IF t \in PathIsFile THEN {"dir", "directory", "folder"} ELSE {})
    \cup (IF t \in SymbolBatches THEN {"include_read_batch"} ELSE {})
Mistyped(t) ==
  Named(t) \cap (CASE t = "warmth_plan" -> {"max_paths", "max_bytes", "heat"}
                   [] t \in SymbolBatches -> {"names"}
                   [] OTHER -> {"diagnose", "retry_if_empty", "force"})
LineIgnored ==
  {"search_plan", "search_plan_batch", "index_plan", "index_plan_batch", "shard_plan",
   "shard_plan_batch", "index_symbol", "index_symbol_batch", "shard_symbol", "shard_symbol_batch",
   "related", "related_index", "related_shard"}
CommandOnly(c) ==
  IF c \in LineIgnored THEN {"line"}
  ELSE IF c \in {"related_symbols", "related_index_symbols", "related_shard_symbols"}
    THEN {"exclude_path"} ELSE {}

(* Every argument that a tool's schema declares is read by its handler,    *)
(* with the type that the list of arguments says, and a tool falls back on *)
(* the daemon's only index or directory, and refreshes, exactly if it says *)
(* so; a command and its tool take the same filters.  Ignored, Mistyped    *)
(* and the last two lines are the exceptions the code has: symbol_type is  *)
(* declared and read by nobody (server.rs:2829, 11537), and so on.         *)
SurfacesAgree ==
  JustStarted =>
  /\ \A t \in AllTools :
       /\ Schema(t) \ ReadsOf(t) = Ignored(t)
       /\ {n \in Named(t) : ArgumentType(n) # SchemaType(t, n)} = Mistyped(t)
       /\ t \in Mutating => "refresh_if_stale" \notin Schema(t)
  /\ \A t \in Tools :
       /\ Arms[t].refresh <=> "refresh_if_stale" \in Schema(t)
       /\ Arms[t].way = "index" <=> t \in DefaultsToIndex \cup {"find_index_symbol_batch"}
       /\ Arms[t].way \in {"dir", "whole_dir"}
            <=> t \in DefaultsToDir \cup {"find_shard_symbol_batch"}
  /\ \A c \in DOMAIN Cmds \ Reads :
       /\ (FieldsOf(Flags[c]) \ {"repo"}) \ FieldsOf(Schema(ToolOf(c))) = CommandOnly(c)
       /\ FieldsOf(Schema(ToolOf(c))) \ {"repo"} \subseteq FieldsOf(Flags[c])

(* What requests may come with, and what the code gets wrong about it.     *)
GivenTo(t, kind) ==
  LET names == Schema(t) \ (CASE kind = "live" -> {"index", "index_dir"}
                              [] kind = "index" -> {"index_dir"}
                              [] OTHER -> {})
      required == Manifest[t].required
  IN  {required \cup {n} : n \in names} \cup {required \cup TermArgs}

ScopeExcludes == {"exclude_repo", "exclude_branch", "exclude_origin"}
Undeclared(kind, tool, target, given) ==
  CASE kind = "plan" /\ tool = "search_query_plan" -> given \cap {"refresh_if_stale"}
    [] kind = "plan" -> given \cap LineArgs
    [] kind = "map" /\ target = "index_dir" -> FieldsOf(given) \cap ScopeExcludes
    [] kind \in {"retry", "relaxed"} /\ tool = "search_code" -> given \cap {"refresh_if_stale"}
    [] OTHER -> {}

RepoLost(target, given) ==
  IF target = "index" /\ "repo" \in given /\ "repo_filter" \notin given THEN {"repo"} ELSE {}
LostAsCommand(kind, target, given) ==
  CASE kind = "plan" ->
         (FieldsOf(given) \ (given \cup {"repo", "line"})) \cup RepoLost(target, given)
    [] kind = "retry" -> RepoLost(target, given)
    [] kind = "map" /\ target = "index_dir" ->
         FieldsOf(given) \cap (ScopeExcludes \cup {"branch", "origin"})
    [] OTHER -> {}

AcceptedAsTool(kind, tool, target, given) ==
  LET names == Carried(kind, tool, target, given)
  IN  /\ Manifest[tool].required \subseteq names
      /\ names \ Schema(tool) = Undeclared(kind, tool, target, given)
      /\ (\E n \in names \cap Schema(tool) : CarriedType(kind, tool, n) # SchemaType(tool, n))
           <=> kind = "retry" /\ "line" \in FieldsOf(given)

AcceptedAsCommand(kind, tool, target, given) ==
  LET names == Carried(kind, tool, target, given)
      form == Form(tool, names)
  IN  /\ form \subseteq Flags[CommandOf(tool)]
      /\ FieldsGiven(names, target) \ FieldsOf(form) = LostAsCommand(kind, target, given)
      /\ TermArgs \subseteq form
           <=> TermArgs \subseteq given /\ kind \in {"plan", "retry", "relaxed"}

(* A request that an answer carries has the arguments its tool requires    *)
(* and none that the tool's schema, which is closed (server.rs:2630), does *)
(* not declare; it can be given as a command, with every filter.  Again    *)
(* the exceptions are the code's: a plan for a tool without line or        *)
(* without refresh_if_stale (server.rs 3339-3363), the excluded scopes of  *)
(* a map (3592-3602), a line that became a string (4390-4398) and what a   *)
(* command's flags leave out (repo_index.rs 7611-7825).                    *)
FollowUpsAccepted ==
  JustStarted => \A t \in Tools : \A source \in DOMAIN TargetName : \A n \in Arms[t].next[source] :
    \A given \in GivenTo(t, source) :
      /\ AcceptedAsTool(n[1], n[2], TargetName[source], given)
      /\ n[1] # "refresh" => AcceptedAsCommand(n[1], n[2], TargetName[source], given)

StaysDespite(field) ==
  Kebabs \cup (IF field = "import" THEN {"imports", "modules", "uses"} ELSE {})

(* The retry for a filter that found nothing no longer has that filter, in *)
(* whatever spelling it came, and still has the others (server.rs          *)
(* 4211-4247).  Left in are an import spelled imports, modules or uses,    *)
(* and the kebab-case names; a retry that broadens the query takes out     *)
(* the plain names alone (4377-4388).                                      *)
RetriesRelax ==
  JustStarted => \A target \in {"index_dir", "index", "repo"}, field \in Relaxable \cup Replaceable :
    \A mine \in SpelledAs(field) \cup {k \in Kebabs : Snake(k) \in SpelledAs(field)},
       other \in FilterNames :
      LET given == {mine, other, "query"}
          names == RetryNames(target, given, field)
          also == FieldsOf({other}) \ {field}
      IN  /\ FieldsOf({other}) # {field} =>
               (field \in FieldsGiven(names, target) <=> mine \in StaysDespite(field))
          /\ also \subseteq FieldsGiven(names, target) \cup (IF target = "repo" THEN {"repo"} ELSE {})
          /\ also \subseteq FieldsOf(BroadenedNames(target, given, {field}))
                            \cup ExcludeOf(field) \cup {"repo"}
          /\ other = mine =>
               (field \in FieldsGiven(BroadenedNames(target, given, {field}), target)
                  <=> mine # field)
==============================================================================
