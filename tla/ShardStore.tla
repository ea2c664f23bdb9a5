----------------------------- MODULE ShardStore -----------------------------
(***************************************************************************)
(* A shard directory on disk: one index file per repository, manifest.json *)
(* with the list of shards, and three files derived from it that a search  *)
(* reads first: manifest.bin (the shards with their query sketches),       *)
(* manifest.prefilter.bin (every term any shard has) and                   *)
(* manifest.route.bin (which shards have a term).                          *)
(*                                                                         *)
(* A writer (build_shards, ensure_shards, refresh_shards and               *)
(* refresh_shards_by_root of shards.rs) holds the directory's lock, which  *)
(* ShardLock models, rewrites the index files one by one and then the four *)
(* manifest files one by one.  Each of these writes is atomic, the         *)
(* sequence is not: it can stop after any of them, and searches, which     *)
(* take no lock, read between them.  The derived files carry the           *)
(* fingerprint (length and mtime) of the manifest.json they were made for  *)
(* and are ignored when it differs.                                        *)
(*                                                                         *)
(* Contents are sets of pairs <<repository, term>>, where a term stands    *)
(* for any word a query asks for, and a sketch has exactly the terms of    *)
(* its index (the bloom filters of the code may have more).                *)
(***************************************************************************)
EXTENDS Naturals

CONSTANTS
  Repos,       (* repository roots                                         *)
  Terms,       (* words that files of a repository contain and queries ask *)
  MaxSaves,    (* bound: how often manifest.json is written                *)
  MaxChanges,  (* bound: how often files or roots change                   *)
  MaxAborts,   (* bound: how many writers stop half-way                    *)
  MaxOutside   (* bound: index files refreshed without the lock            *)

Pairs == Repos \X Terms

VARIABLES
  roots,      (* the repository roots that exist                           *)
  live,       (* what the repositories contain                             *)
  files,      (* the repositories whose index file is in the directory     *)
  postings,   (* what the index files contain                              *)
  json,       (* manifest.json: its fingerprint (0: no file), its shards   *)
  sidecar,    (* manifest.bin: [stamp, shards, sketched, terms]            *)
  prefilter,  (* manifest.prefilter.bin: [stamp, terms]                    *)
  route,      (* manifest.route.bin: [stamp, shards, terms]                *)
  work,       (* the writer that holds the lock                            *)
  clean,      (* history: nothing went wrong since all shards were written *)
  spent       (* how much of the bounds is used up                         *)

disk    == <<files, postings>>
derived == <<sidecar, prefilter, route>>
vars == <<roots, live, disk, json, derived, work, clean, spent>>

(* the content `to`, with what it says of r taken from `from`.             *)
With(to, from, r) == {p \in to : p[1] # r} \cup {p \in from : p[1] = r}
Without(to, r) == {p \in to : p[1] # r}

Idle == [phase |-> "idle", op |-> "none", repos |-> {}, todo |-> {}, gone |-> {},
         full |-> FALSE, shards |-> {}, sketched |-> {}, terms |-> {}]

Init ==
  /\ roots = Repos
  /\ live \in SUBSET Pairs
  /\ files = {} /\ postings = {}
  /\ json = [stamp |-> 0, shards |-> {}]
  /\ sidecar = [stamp |-> 0, shards |-> {}, sketched |-> {}, terms |-> {}]
  /\ prefilter = [stamp |-> 0, terms |-> {}]
  /\ route = [stamp |-> 0, shards |-> {}, terms |-> {}]
  /\ work = Idle
  /\ clean = TRUE
  /\ spent = [changes |-> 0, aborts |-> 0, outside |-> 0]

-----------------------------------------------------------------------------
(* Reading the directory                                                   *)

(* A derived file counts when it names the fingerprint manifest.json had   *)
(* when the reader looked at it.                                           *)
ValidFor(file, stamp) == stamp # 0 /\ file.stamp = stamp

(* load_manifest: manifest.bin, else manifest.json, which has no sketches. *)
Loaded ==
  IF ValidFor(sidecar, json.stamp)
    THEN [shards |-> sidecar.shards, sketched |-> sidecar.sketched, terms |-> sidecar.terms]
    ELSE [shards |-> json.shards, sketched |-> {}, terms |-> {}]

(* shard_sketch_may_match: a shard without a sketch may have any term.     *)
MayMatch(manifest, t) ==
  {r \in manifest.shards : r \in manifest.sketched => <<r, t>> \in manifest.terms}

(* shard_prefilter_query_impossible                                        *)
Impossible(t, stamp) == ValidFor(prefilter, stamp) /\ t \notin prefilter.terms

(* shard_route_candidate_ids                                               *)
Routed(t) == {r \in route.shards : <<r, t>> \in route.terms}

(* The shards a search for t would open if nothing moved meanwhile.        *)
Candidates(t) ==
  IF Impossible(t, json.stamp) THEN {}
  ELSE IF ValidFor(route, json.stamp) THEN Routed(t)
  ELSE MayMatch(Loaded, t)

-----------------------------------------------------------------------------
(* The writers                                                             *)

Start(op, repos, manifest, todo, full) ==
  work' = [phase |-> "shards", op |-> op, repos |-> repos, todo |-> todo, gone |-> {},
           full |-> full, shards |-> manifest.shards,
           sketched |-> manifest.sketched, terms |-> manifest.terms]

Empty == [shards |-> {}, sketched |-> {}, terms |-> {}]

MaySave(times) == json.stamp + times <= MaxSaves

(* refresh_shards (scope is every shard) and refresh_shards_by_root, which *)
(* the daemon calls for shards that it found to be stale.                  *)
BeginRefresh(scope) ==
  /\ work = Idle /\ MaySave(1)
  /\ json.stamp # 0
  /\ scope \subseteq Loaded.shards
  /\ scope # {} \/ Loaded.shards = {}
  /\ Start("refresh", {}, Loaded, scope, scope = Loaded.shards)
  /\ UNCHANGED <<roots, live, disk, json, derived, clean, spent>>

(* guard_rebuild_against_shrink and guard_manifest_write_preserves_-       *)
(* existing_roots: a write that would drop a root is refused.              *)
KeepsRootsReversed(previous, next) == next \subseteq previous   \* defect
KeepsRoots(previous, next) == previous \subseteq next

(* build_shards; forced, it replaces the directory whatever it lists.  No  *)
(* caller asks for no repository at all.                                   *)
BeginBuild(repos, force) ==
  /\ work = Idle /\ MaySave(1)
  /\ repos # {}
  /\ \/ force
     \/ Loaded.shards = {}
     \/ repos \subseteq roots /\ KeepsRoots(Loaded.shards, repos)
  /\ Start(IF force THEN "force" ELSE "build", {}, Empty, repos, TRUE)
  /\ UNCHANGED <<roots, live, disk, json, derived, clean, spent>>

(* ensure_shards: refresh what is there, then add what is missing.  A new  *)
(* directory needs repositories, one that is there does not.               *)
BeginEnsure(repos) ==
  /\ work = Idle /\ MaySave(2)
  /\ json.stamp # 0 \/ repos # {}
  /\ IF json.stamp # 0
       THEN Start("ensure", repos, Loaded, Loaded.shards, TRUE)
       ELSE Start("build", {}, Empty, repos, TRUE)
  /\ UNCHANGED <<roots, live, disk, json, derived, clean, spent>>

(* The index of r is made from the live files and saved, then its sketch   *)
(* goes into the manifest in memory.                                       *)
SketchForgotten(r) == work.terms                    \* defect: sketch kept
Sketch(r) == With(work.terms, live, r)

Indexed(r) ==
  /\ r \in work.todo
  /\ r \in roots
  /\ files' = files \cup {r}
  /\ postings' = With(postings, live, r)
  /\ work' = [work EXCEPT !.todo = @ \ {r}, !.shards = @ \cup {r},
                          !.sketched = @ \cup {r}, !.terms = Sketch(r)]
  /\ UNCHANGED <<roots, live, json, derived, clean, spent>>

RefreshShard(r) == work.op \in {"refresh", "ensure"} /\ Indexed(r)
BuildShard(r) == work.op \in {"add", "build", "force"} /\ Indexed(r)

(* A root that is gone: its index file is removed, which may fail without  *)
(* notice, and its shard is dropped.                                       *)
KeptShards(r) == work.shards                        \* defect: no continue
Remaining(r) == work.shards \ {r}

RemoveMissing(r) ==
  /\ work.op \in {"refresh", "ensure"}
  /\ r \in work.todo
  /\ r \notin roots
  /\ \E removed \in SUBSET {r} :
       /\ files' = files \ removed
       /\ postings' = {p \in postings : p[1] \notin removed}
  /\ work' = [work EXCEPT !.todo = @ \ {r}, !.gone = @ \cup {r},
                          !.shards = Remaining(r), !.sketched = @ \ {r},
                          !.terms = Without(@, r)]
  /\ UNCHANGED <<roots, live, json, derived, clean, spent>>

(* save_manifest_with_mode: the guard and the four files.                  *)
AllowShrink == work.op \in {"refresh", "ensure", "force"}

StampMissed == IF json.stamp = 0 THEN 1 ELSE json.stamp    \* defect: no mtime
NextStamp == json.stamp + 1

SaveJson ==
  /\ work.phase = "shards"
  /\ work.todo = {}
  /\ AllowShrink \/ json.stamp = 0 \/ KeepsRoots(Loaded.shards, work.shards)
  /\ json' = [stamp |-> NextStamp, shards |-> work.shards]
  /\ work' = [work EXCEPT !.phase = "sidecar"]
  /\ UNCHANGED <<roots, live, disk, derived, clean, spent>>

SaveSidecar ==
  /\ work.phase = "sidecar"
  /\ sidecar' = [stamp |-> json.stamp, shards |-> work.shards,
                 sketched |-> work.sketched, terms |-> work.terms]
  /\ work' = [work EXCEPT !.phase = "prefilter"]
  /\ UNCHANGED <<roots, live, disk, json, prefilter, route, clean, spent>>

(* The terms of the shards that have a sketch.                             *)
SketchedTerms == {t \in Terms : \E r \in work.sketched : <<r, t>> \in work.terms}

SavePrefilter ==
  /\ work.phase = "prefilter"
  /\ prefilter' = [stamp |-> json.stamp, terms |-> SketchedTerms]
  /\ work' = [work EXCEPT !.phase = "route"]
  /\ UNCHANGED <<roots, live, disk, json, sidecar, route, clean, spent>>

(* add_missing_shards after the refresh half of ensure_shards.             *)
Missing == work.repos \ Loaded.shards

SaveRoute ==
  /\ work.phase = "route"
  /\ route' = [stamp |-> json.stamp, shards |-> work.shards,
               terms |-> {p \in work.terms : p[1] \in work.sketched}]
  /\ IF work.op = "ensure" /\ Missing # {}
       THEN Start("add", {}, Loaded, Missing, work.full)
       ELSE work' = Idle
  /\ clean' = (clean \/ work.full)
  /\ UNCHANGED <<roots, live, disk, json, sidecar, prefilter, spent>>

(* repo.canonicalize()? of a repository that is to be built and is gone.   *)
RootLost == work.op \in {"add", "build", "force"} /\ ~(work.todo \subseteq roots)

(* An error is returned from any step, or the process is killed.           *)
Abort ==
  /\ work # Idle
  /\ RootLost \/ spent.aborts < MaxAborts
  /\ spent' = IF RootLost THEN spent ELSE [spent EXCEPT !.aborts = @ + 1]
  /\ work' = Idle
  /\ clean' = FALSE
  /\ UNCHANGED <<roots, live, disk, json, derived>>

(* The refresh_index tool pointed at an index file of the directory: it    *)
(* takes no lock and knows of no manifest.                                 *)
RefreshIndexFile(r) ==
  /\ r \in roots \cap files
  /\ spent.outside < MaxOutside
  /\ spent' = [spent EXCEPT !.outside = @ + 1]
  /\ postings' = With(postings, live, r)
  /\ clean' = FALSE
  /\ work' = [work EXCEPT !.full = FALSE]
  /\ UNCHANGED <<roots, live, files, json, derived>>

-----------------------------------------------------------------------------
(* Repositories change under the directory.                                *)

Change == spent.changes < MaxChanges /\ spent' = [spent EXCEPT !.changes = @ + 1]

Edit(p) ==
  /\ Change
  /\ p[1] \in roots
  /\ live' = IF p \in live THEN live \ {p} ELSE live \cup {p}
  /\ UNCHANGED <<roots, disk, json, derived, work, clean>>

(* The root disappears (deleted, renamed, unmounted) or comes back.        *)
RemoveRoot(r) ==
  /\ Change
  /\ r \in roots
  /\ roots' = roots \ {r}
  /\ UNCHANGED <<live, disk, json, derived, work, clean>>

RestoreRoot(r) ==
  /\ Change
  /\ r \in Repos \ roots
  /\ roots' = roots \cup {r}
  /\ UNCHANGED <<live, disk, json, derived, work, clean>>

(* Nobody has to write: only a writer at work may not get stuck.           *)
Rest == work = Idle /\ UNCHANGED vars

Next ==
  \/ Rest
  \/ \E scope \in SUBSET Repos : BeginRefresh(scope)
  \/ \E repos \in SUBSET Repos :
       BeginEnsure(repos) \/ \E force \in BOOLEAN : BeginBuild(repos, force)
  \/ \E r \in Repos : RefreshShard(r) \/ BuildShard(r) \/ RemoveMissing(r)
  \/ SaveJson \/ SaveSidecar \/ SavePrefilter \/ SaveRoute \/ Abort
  \/ \E r \in Repos : RefreshIndexFile(r) \/ RemoveRoot(r) \/ RestoreRoot(r)
  \/ \E p \in Pairs : Edit(p)

Spec == Init /\ [][Next]_vars

-----------------------------------------------------------------------------

(* Each variable has its type; a shard that a refresh counted as removed   *)
(* is not in the manifest it is about to write.                            *)
TypeOK ==
  /\ roots \subseteq Repos /\ live \subseteq Pairs
  /\ files \subseteq Repos /\ postings \subseteq files \X Terms
  /\ json \in [stamp : Nat, shards : SUBSET Repos]
  /\ sidecar \in [stamp : Nat, shards : SUBSET Repos, sketched : SUBSET Repos,
                  terms : SUBSET Pairs]
  /\ prefilter \in [stamp : Nat, terms : SUBSET Terms]
  /\ route \in [stamp : Nat, shards : SUBSET Repos, terms : SUBSET Pairs]
  /\ work \in [phase : {"idle", "shards", "sidecar", "prefilter", "route"},
               op : {"none", "refresh", "ensure", "add", "build", "force"},
               repos : SUBSET Repos, todo : SUBSET Repos, gone : SUBSET Repos,
               full : BOOLEAN, shards : SUBSET Repos, sketched : SUBSET Repos,
               terms : SUBSET Pairs]
  /\ work.gone \cap work.shards = {}
  /\ clean \in BOOLEAN
  /\ spent \in [changes : Nat, aborts : Nat, outside : Nat]

(* A derived file that a reader would trust lists the shards manifest.json *)
(* lists, at every point of a save and after a save that stopped half-way  *)
(* (load_manifest_sidecar, load_manifest_route and their fingerprints).    *)
TrustedFilesAgree ==
  /\ ValidFor(sidecar, json.stamp) => sidecar.shards = json.shards
  /\ ValidFor(route, json.stamp) => route.shards = json.shards

(* After a full refresh or a build that ran to its end, and after the      *)
(* scoped refreshes that followed, whatever was interrupted before: every  *)
(* term an index has leads a search to that shard.                         *)
CleanRecall ==
  clean /\ work = Idle =>
    \A p \in postings : p[1] \in json.shards => p[1] \in Candidates(p[2])

(* ... and every shard listed can be opened.                               *)
CleanOpens == clean /\ work = Idle => json.shards \subseteq files

(* Only a forced rebuild drops a shard whose root is there: the other      *)
(* writers drop those they found missing (guard_rebuild_against_shrink).   *)
OnlyForceDrops ==
  [][\A r \in json.shards \ json'.shards : work.op = "force" \/ r \in work.gone]_vars

(* A shard whose index is up to date is searched: refresh_if_stale asks    *)
(* for nothing more before it trusts the directory.                        *)
FreshIsFound ==
  work = Idle =>
    \A r \in json.shards \cap files \cap roots :
      (\A t \in Terms : <<r, t>> \in live <=> <<r, t>> \in postings) =>
        \A t \in Terms : <<r, t>> \in live => r \in Candidates(t)

(* ensure_shards adds and refreshes shards and never drops one.            *)
EnsureKeepsShards ==
  [][work.op = "ensure" => json.shards \subseteq json'.shards]_vars
=============================================================================
