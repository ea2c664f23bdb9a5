---------------------------- MODULE ShardSearch ----------------------------
(***************************************************************************)
(* A search of a shard directory while writers work on it (shards.rs,      *)
(* search_shards; server.rs, search_shards_cached_core without the         *)
(* daemon's caches).  A search takes no lock.  It looks at the fingerprint *)
(* of manifest.json before each derived file it reads, so what it knows of *)
(* the directory may be from three different moments by the time it opens  *)
(* the first index.  Ranking, limits and path filters are left out: a      *)
(* search is for one term and wants every shard that has it.               *)
(***************************************************************************)
EXTENDS ShardStore

VARIABLE search  (* phase; term; stamp: the fingerprint last looked at;    *)
                 (* cands: shards still to open; hits: shards that had the *)
                 (* term; due: the shards it must not miss                 *)

searchVars == <<vars, search>>

NoSearch == [phase |-> "none", term |-> "none", stamp |-> 0,
             due |-> {}, cands |-> {}, hits |-> {}]

SearchInit == Init /\ search = NoSearch

(* The shards a search that started now and was left alone would find t in *)
Findable(t) ==
  {r \in roots \cap files : <<r, t>> \in live \cap postings /\ r \in Candidates(t)}

(* Of those it is owed, the ones that still have the term and are listed;  *)
(* nothing once a writer stopped half-way or an index was replaced.        *)
StillDue ==
  IF clean'
    THEN {r \in search.due \cap roots' \cap json'.shards : <<r, search.term>> \in live'}
    ELSE {}

Step(from, next) ==
  /\ search.phase = from
  /\ search' = next
  /\ UNCHANGED vars
At(phase) == [search EXCEPT !.phase = phase]

(* The query is parsed; shard_prefilter_query_impossible looks at the      *)
(* fingerprint of manifest.json, ...                                       *)
SearchBegin(t) ==
  Step("none", [phase |-> "prefilter", term |-> t, stamp |-> json.stamp,
                due |-> IF clean THEN Findable(t) ELSE {}, cands |-> {}, hits |-> {}])

(* ... then at the prefilter.                                              *)
SearchPrefilter ==
  Step("prefilter", At(IF Impossible(search.term, search.stamp) THEN "done" ELSE "stat"))

(* shard_route_selection: load_manifest_route looks at the fingerprint     *)
(* again, then at the route; Omitted and Corrupt lookups are left out.     *)
SearchStat == Step("stat", [At("route") EXCEPT !.stamp = json.stamp])

SearchRoute ==
  Step("route", IF ValidFor(route, search.stamp)
                  THEN [At("index") EXCEPT !.cands = Routed(search.term)]
                  ELSE At("restat"))

(* load_manifest: the fingerprint, manifest.bin, else manifest.json.       *)
SearchRestat == Step("restat", [At("sidecar") EXCEPT !.stamp = json.stamp])

SearchSidecar ==
  Step("sidecar", IF ValidFor(sidecar, search.stamp)
                    THEN [At("index") EXCEPT !.cands = MayMatch(sidecar, search.term)]
                    ELSE At("json"))

SketchesDropped == {}             \* defect: a shard without a sketch is skipped
Unsketched == json.shards

SearchJson ==
  Step("json", IF json.stamp = 0 THEN At("error")
               ELSE [At("index") EXCEPT !.cands = Unsketched])

(* The shards are opened by several workers, in any order; one that cannot *)
(* be opened fails the whole search.                                       *)
SearchIndex(r) ==
  /\ r \in search.cands
  /\ Step("index", IF r \notin files THEN At("error")
                   ELSE [search EXCEPT !.cands = @ \ {r},
                           !.hits = @ \cup {q \in {r} : <<q, search.term>> \in postings}])

SearchEnd == search.cands = {} /\ Step("index", At("done"))

SearchReturn == search.phase \in {"done", "error"} /\ Step(search.phase, NoSearch)

StoreStep == Next /\ search' = [search EXCEPT !.due = StillDue]

SearchNext ==
  \/ StoreStep
  \/ \E t \in Terms : SearchBegin(t)
  \/ SearchPrefilter \/ SearchStat \/ SearchRoute \/ SearchRestat
  \/ SearchSidecar \/ SearchJson \/ SearchEnd \/ SearchReturn
  \/ \E r \in Repos : SearchIndex(r)

SearchSpec == SearchInit /\ [][SearchNext]_searchVars

-----------------------------------------------------------------------------

(* A search that runs while writers work finds what it would have found    *)
(* had they not, whichever mix of old and new files it read: every hit     *)
(* that was there when it started and that no edit, no lost root and no    *)
(* forced rebuild took away.                                               *)
StableHitsFound == search.phase = "done" => search.due \subseteq search.hits

(* Opening a shard fails only when a writer found its root missing: the    *)
(* shard is being pruned, or is no longer listed by now.  A refresh that   *)
(* goes well never makes a search of the other shards fail.                *)
FailsOnPrunedOnly ==
  [][search.phase = "index" /\ search'.phase = "error" /\ clean =>
       \E r \in search.cands \ files : r \in work.gone \/ r \notin json.shards]_searchVars
=============================================================================
