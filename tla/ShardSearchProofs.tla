------------------------- MODULE ShardSearchProofs --------------------------
(***************************************************************************)
(* The four manifest files of a shard directory never contradict each      *)
(* other in what they list, and no writer but a forced rebuild drops a     *)
(* shard whose root it did not find missing.  A search that runs beside    *)
(* the writers misses no hit that stays there, and fails only on a shard   *)
(* that is being dropped: for every set of repositories and terms, every   *)
(* sequence of writers, interrupted at any point, and however the steps of *)
(* the search, the writers and the edits interleave.                       *)
(***************************************************************************)
EXTENDS ShardSearch, TLAPS

-----------------------------------------------------------------------------
(* The writers of a directory                                              *)

(* What a writer still has to index it has not dropped, and it saves only  *)
(* when nothing is left to index.                                          *)
TodoOpen ==
  /\ work.todo \cap work.gone = {}
  /\ work.phase # "shards" => work.todo = {}

(* No derived file is ahead of manifest.json.                              *)
StampsPast ==
  /\ sidecar.stamp <= json.stamp /\ route.stamp <= json.stamp
  /\ json.stamp = 0 => json.shards = {}

(* While the derived files are written the writer lists what it has put    *)
(* into manifest.json.                                                     *)
SavedIsListed ==
  work.phase \in {"sidecar", "prefilter", "route"} => work.shards = json.shards

(* Each shard listed is kept, still to be indexed, or was found missing.   *)
ShardsAccounted ==
  work.phase = "shards" /\ work.op # "force" =>
    json.shards \subseteq work.shards \cup work.todo \cup work.gone

StoreInv ==
  /\ TypeOK /\ TodoOpen /\ StampsPast /\ SavedIsListed /\ ShardsAccounted
  /\ TrustedFilesAgree

(* What TypeOK, StampsPast and TrustedFilesAgree say of the route.         *)
RouteAgrees ==
  /\ route \in [stamp : Nat, shards : SUBSET Repos, terms : SUBSET Pairs]
  /\ route.stamp <= json.stamp
  /\ ValidFor(route, json.stamp) => route.shards = json.shards

LEMMA InitInv == Init => StoreInv
  BY DEF Init, Idle, StoreInv, TypeOK, TodoOpen, StampsPast, SavedIsListed,
         ShardsAccounted, TrustedFilesAgree, ValidFor, Pairs

(* load_manifest lists what manifest.json lists, whichever file it reads.  *)
LEMMA LoadedIsListed ==
  ASSUME TrustedFilesAgree PROVE Loaded.shards = json.shards
  BY DEF Loaded, TrustedFilesAgree

LEMMA LoadedType ==
  ASSUME TypeOK
  PROVE  /\ Loaded.shards \in SUBSET Repos
         /\ Loaded.sketched \in SUBSET Repos
         /\ Loaded.terms \in SUBSET Pairs
  BY DEF Loaded, TypeOK

(* A step that starts a writer leaves the directory as it is.              *)
LEMMA StartInv ==
  ASSUME StoreInv, NEW op \in {"refresh", "ensure", "add", "build", "force"},
         NEW repos \in SUBSET Repos, NEW todo \in SUBSET Repos, NEW full \in BOOLEAN,
         NEW manifest, manifest.shards \in SUBSET Repos,
         manifest.sketched \in SUBSET Repos, manifest.terms \in SUBSET Pairs,
         Start(op, repos, manifest, todo, full),
         op # "force" => json.shards \subseteq manifest.shards \cup todo,
         clean' \in BOOLEAN,
         UNCHANGED <<roots, live, files, postings, json, sidecar, prefilter, spent>>,
         RouteAgrees'
  PROVE  StoreInv'
<1> USE DEF StoreInv
<1>1. /\ work'.phase = "shards" /\ work'.op = op /\ work'.gone = {}
      /\ work'.todo = todo /\ work'.shards = manifest.shards
  BY DEF Start
<1>2. TypeOK'
  BY DEF Start, TypeOK, RouteAgrees
<1>3. TodoOpen' /\ SavedIsListed' /\ ShardsAccounted'
  BY <1>1 DEF TodoOpen, SavedIsListed, ShardsAccounted
<1>4. StampsPast' /\ TrustedFilesAgree'
  BY DEF StampsPast, TrustedFilesAgree, ValidFor, RouteAgrees
<1> QED BY <1>2, <1>3, <1>4

LEMMA RouteUnchanged ==
  ASSUME StoreInv, UNCHANGED <<route, json>> PROVE RouteAgrees'
  BY DEF StoreInv, RouteAgrees, TypeOK, StampsPast, TrustedFilesAgree, ValidFor

LEMMA BeginInv ==
  ASSUME StoreInv,
         \/ \E scope \in SUBSET Repos : BeginRefresh(scope)
         \/ \E repos \in SUBSET Repos :
              BeginEnsure(repos) \/ \E force \in BOOLEAN : BeginBuild(repos, force)
  PROVE  StoreInv'
<1>0. /\ Loaded.shards = json.shards /\ Loaded.shards \in SUBSET Repos
      /\ Loaded.sketched \in SUBSET Repos /\ Loaded.terms \in SUBSET Pairs
  BY LoadedIsListed, LoadedType DEF StoreInv
<1>1. /\ Empty.shards \in SUBSET Repos /\ Empty.sketched \in SUBSET Repos
      /\ Empty.terms \in SUBSET Pairs
  BY DEF Empty
<1>2. ASSUME NEW scope \in SUBSET Repos, BeginRefresh(scope) PROVE StoreInv'
  <2>1. UNCHANGED <<roots, live, files, postings, json, sidecar, prefilter, route, clean, spent>>
    BY <1>2 DEF BeginRefresh, disk, derived
  <2>2. clean' \in BOOLEAN /\ RouteAgrees'
    BY <2>1, RouteUnchanged DEF StoreInv, TypeOK
  <2>3. Start("refresh", {}, Loaded, scope, scope = Loaded.shards)
    BY <1>2 DEF BeginRefresh
  <2> QED BY <1>0, <2>1, <2>2, <2>3, StartInv
<1>3. ASSUME NEW repos \in SUBSET Repos, BeginEnsure(repos) PROVE StoreInv'
  <2>1. UNCHANGED <<roots, live, files, postings, json, sidecar, prefilter, route, clean, spent>>
    BY <1>3 DEF BeginEnsure, disk, derived
  <2>2. clean' \in BOOLEAN /\ RouteAgrees'
    BY <2>1, RouteUnchanged DEF StoreInv, TypeOK
  <2>3. CASE json.stamp # 0
    <3>1. Start("ensure", repos, Loaded, Loaded.shards, TRUE)
      BY <1>3, <2>3 DEF BeginEnsure
    <3> QED BY <1>0, <2>1, <2>2, <3>1, StartInv
  <2>4. CASE json.stamp = 0
    <3>1. Start("build", {}, Empty, repos, TRUE)
      BY <1>3, <2>4 DEF BeginEnsure
    <3>2. json.shards = {}
      BY <2>4 DEF StoreInv, StampsPast
    <3> QED BY <1>1, <2>1, <2>2, <3>1, <3>2, StartInv
  <2> QED BY <2>3, <2>4
<1>4. ASSUME NEW repos \in SUBSET Repos, NEW force \in BOOLEAN, BeginBuild(repos, force)
      PROVE  StoreInv'
  <2>1. UNCHANGED <<roots, live, files, postings, json, sidecar, prefilter, route, clean, spent>>
    BY <1>4 DEF BeginBuild, disk, derived
  <2>2. clean' \in BOOLEAN /\ RouteAgrees'
    BY <2>1, RouteUnchanged DEF StoreInv, TypeOK
  <2>3. Start(IF force THEN "force" ELSE "build", {}, Empty, repos, TRUE)
    BY <1>4 DEF BeginBuild
  <2>4. ~force => json.shards \subseteq repos
    BY <1>0, <1>4 DEF BeginBuild, KeepsRoots
  <2>5. CASE force
    <3>1. Start("force", {}, Empty, repos, TRUE)
      BY <2>3, <2>5
    <3> QED BY <1>1, <2>1, <2>2, <3>1, StartInv
  <2>6. CASE ~force
    <3>1. Start("build", {}, Empty, repos, TRUE)
      BY <2>3, <2>6
    <3> QED BY <1>1, <2>1, <2>2, <2>4, <2>6, <3>1, StartInv
  <2> QED BY <2>5, <2>6
<1> QED BY <1>2, <1>3, <1>4

(* The shards, one after the other: only index files and the manifest in   *)
(* memory change.                                                          *)
LEMMA ShardInv ==
  ASSUME StoreInv, NEW r \in Repos, Indexed(r) \/ RemoveMissing(r)
  PROVE  StoreInv'
<1> USE DEF StoreInv
<1>1. UNCHANGED <<roots, live, json, sidecar, prefilter, route, clean, spent>>
  BY DEF Indexed, RemoveMissing, derived
<1>2. r \in work.todo /\ work.phase = "shards"
  BY DEF Indexed, RemoveMissing, TodoOpen, TypeOK
<1>3. StampsPast' /\ TrustedFilesAgree'
  BY <1>1 DEF StampsPast, TrustedFilesAgree, ValidFor
<1>4. CASE Indexed(r)
  <2>1. /\ files' = files \cup {r} /\ postings' = With(postings, live, r)
        /\ work' = [work EXCEPT !.todo = @ \ {r}, !.shards = @ \cup {r},
                                !.sketched = @ \cup {r}, !.terms = Sketch(r)]
    BY <1>4 DEF Indexed
  <2>2. postings' \subseteq files' \X Terms
    BY <2>1 DEF With, TypeOK, Pairs
  <2>3. Sketch(r) \in SUBSET Pairs
    BY DEF Sketch, With, TypeOK
  <2>4. TypeOK'
    <3>1. work'.gone \cap work'.shards = {}
      BY <1>2, <2>1 DEF TypeOK, TodoOpen
    <3>2. work' \in [phase : {"idle", "shards", "sidecar", "prefilter", "route"},
                     op : {"none", "refresh", "ensure", "add", "build", "force"},
                     repos : SUBSET Repos, todo : SUBSET Repos, gone : SUBSET Repos,
                     full : BOOLEAN, shards : SUBSET Repos, sketched : SUBSET Repos,
                     terms : SUBSET Pairs]
      BY <2>1, <2>3 DEF TypeOK
    <3>3. files' \subseteq Repos
      BY <2>1 DEF TypeOK
    <3> QED BY <1>1, <2>2, <3>1, <3>2, <3>3 DEF TypeOK
  <2>5. TodoOpen' /\ SavedIsListed' /\ ShardsAccounted'
    BY <1>1, <1>2, <2>1 DEF TodoOpen, SavedIsListed, ShardsAccounted, TypeOK
  <2> QED BY <1>3, <2>4, <2>5
<1>5. CASE RemoveMissing(r)
  <2>1. PICK removed \in SUBSET {r} :
          /\ files' = files \ removed
          /\ postings' = {p \in postings : p[1] \notin removed}
    BY <1>5 DEF RemoveMissing
  <2>2. work' = [work EXCEPT !.todo = @ \ {r}, !.gone = @ \cup {r},
                             !.shards = work.shards \ {r}, !.sketched = @ \ {r},
                             !.terms = Without(@, r)]
    BY <1>5 DEF RemoveMissing, Remaining
  <2>3. postings' \subseteq files' \X Terms /\ files' \subseteq Repos
    BY <2>1 DEF TypeOK
  <2>4. Without(work.terms, r) \in SUBSET Pairs
    BY DEF Without, TypeOK
  <2>5. TypeOK'
    BY <1>1, <1>2, <2>2, <2>3, <2>4 DEF TypeOK
  <2>6. TodoOpen' /\ SavedIsListed' /\ ShardsAccounted'
    BY <1>1, <1>2, <2>2 DEF TodoOpen, SavedIsListed, ShardsAccounted, TypeOK
  <2> QED BY <1>3, <2>5, <2>6
<1> QED BY <1>4, <1>5

(* The four files of a save.                                               *)
LEMMA SaveInv ==
  ASSUME StoreInv, SaveJson \/ SaveSidecar \/ SavePrefilter
  PROVE  StoreInv'
<1> USE DEF StoreInv
<1>1. CASE SaveJson
  <2>1. /\ json' = [stamp |-> json.stamp + 1, shards |-> work.shards]
        /\ work' = [work EXCEPT !.phase = "sidecar"]
        /\ work.todo = {}
        /\ UNCHANGED <<roots, live, files, postings, sidecar, prefilter, route, clean, spent>>
    BY <1>1 DEF SaveJson, NextStamp, disk, derived
  <2>2. TypeOK'
    BY <2>1 DEF TypeOK
  <2>3. TodoOpen' /\ SavedIsListed' /\ ShardsAccounted'
    BY <2>1 DEF TodoOpen, SavedIsListed, ShardsAccounted, TypeOK
  <2>4. StampsPast' /\ TrustedFilesAgree'
    BY <2>1 DEF StampsPast, TrustedFilesAgree, ValidFor, TypeOK
  <2> QED BY <2>2, <2>3, <2>4
<1>2. CASE SaveSidecar
  <2>1. /\ sidecar' = [stamp |-> json.stamp, shards |-> work.shards,
                       sketched |-> work.sketched, terms |-> work.terms]
        /\ work.phase = "sidecar" /\ work' = [work EXCEPT !.phase = "prefilter"]
        /\ UNCHANGED <<roots, live, files, postings, json, prefilter, route, clean, spent>>
    BY <1>2 DEF SaveSidecar, disk
  <2>2. TypeOK'
    BY <2>1 DEF TypeOK
  <2>3. TodoOpen' /\ SavedIsListed' /\ ShardsAccounted'
    BY <2>1 DEF TodoOpen, SavedIsListed, ShardsAccounted, TypeOK
  <2>4. StampsPast' /\ TrustedFilesAgree'
    BY <2>1 DEF StampsPast, TrustedFilesAgree, SavedIsListed, ValidFor, TypeOK
  <2> QED BY <2>2, <2>3, <2>4
<1>3. CASE SavePrefilter
  <2>1. /\ prefilter' = [stamp |-> json.stamp, terms |-> SketchedTerms]
        /\ work.phase = "prefilter" /\ work' = [work EXCEPT !.phase = "route"]
        /\ UNCHANGED <<roots, live, files, postings, json, sidecar, route, clean, spent>>
    BY <1>3 DEF SavePrefilter, disk
  <2>2. SketchedTerms \in SUBSET Terms
    BY DEF SketchedTerms
  <2>3. TypeOK'
    BY <2>1, <2>2 DEF TypeOK
  <2>4. TodoOpen' /\ SavedIsListed' /\ ShardsAccounted'
    BY <2>1 DEF TodoOpen, SavedIsListed, ShardsAccounted, TypeOK
  <2>5. StampsPast' /\ TrustedFilesAgree'
    BY <2>1 DEF StampsPast, TrustedFilesAgree, ValidFor
  <2> QED BY <2>3, <2>4, <2>5
<1> QED BY <1>1, <1>2, <1>3

LEMMA IdleInv ==
  ASSUME StoreInv, work' = Idle, clean' \in BOOLEAN, RouteAgrees',
         spent' \in [changes : Nat, aborts : Nat, outside : Nat],
         UNCHANGED <<roots, live, files, postings, json, sidecar, prefilter>>
  PROVE  StoreInv'
<1> USE DEF StoreInv
<1>1. TypeOK'
  BY DEF TypeOK, Idle, RouteAgrees
<1>2. TodoOpen' /\ SavedIsListed' /\ ShardsAccounted'
  BY DEF TodoOpen, SavedIsListed, ShardsAccounted, Idle
<1>3. StampsPast' /\ TrustedFilesAgree'
  BY DEF StampsPast, TrustedFilesAgree, ValidFor, RouteAgrees
<1> QED BY <1>1, <1>2, <1>3

LEMMA RouteInv ==
  ASSUME StoreInv, SaveRoute PROVE StoreInv'
<1>1. /\ route' = [stamp |-> json.stamp, shards |-> work.shards,
                   terms |-> {p \in work.terms : p[1] \in work.sketched}]
      /\ work.phase = "route" /\ clean' = (clean \/ work.full)
      /\ UNCHANGED <<roots, live, files, postings, json, sidecar, prefilter, spent>>
  BY DEF SaveRoute, disk
<1>2. clean' \in BOOLEAN
  BY <1>1 DEF StoreInv, TypeOK
<1>3. RouteAgrees'
  BY <1>1 DEF RouteAgrees, StoreInv, TypeOK, SavedIsListed
<1>4. CASE work.op = "ensure" /\ Missing # {}
  <2>1. Start("add", {}, Loaded, Missing, work.full)
    BY <1>4 DEF SaveRoute
  <2>2. /\ Loaded.shards = json.shards /\ Loaded.shards \in SUBSET Repos
        /\ Loaded.sketched \in SUBSET Repos /\ Loaded.terms \in SUBSET Pairs
    BY LoadedIsListed, LoadedType DEF StoreInv
  <2>3. Missing \in SUBSET Repos /\ work.full \in BOOLEAN
    BY DEF Missing, StoreInv, TypeOK
  <2> QED BY <1>1, <1>2, <1>3, <2>1, <2>2, <2>3, StartInv
<1>5. CASE ~(work.op = "ensure" /\ Missing # {})
  <2>1. work' = Idle
    BY <1>5 DEF SaveRoute
  <2>2. spent' \in [changes : Nat, aborts : Nat, outside : Nat]
    BY <1>1 DEF StoreInv, TypeOK
  <2> QED BY <1>1, <1>2, <1>3, <2>1, <2>2, IdleInv
<1> QED BY <1>4, <1>5

LEMMA AbortInv ==
  ASSUME StoreInv, Abort PROVE StoreInv'
<1>1. /\ work' = Idle /\ clean' = FALSE
      /\ UNCHANGED <<roots, live, files, postings, json, sidecar, prefilter, route>>
  BY DEF Abort, disk, derived
<1>2. spent' \in [changes : Nat, aborts : Nat, outside : Nat]
  BY DEF Abort, StoreInv, TypeOK
<1> QED BY <1>1, <1>2, RouteUnchanged, IdleInv

(* An index file refreshed on its own, and changes to the repositories.    *)
LEMMA OutsideInv ==
  ASSUME StoreInv,
         \/ \E r \in Repos : RefreshIndexFile(r) \/ RemoveRoot(r) \/ RestoreRoot(r)
         \/ \E p \in Pairs : Edit(p)
         \/ UNCHANGED vars
  PROVE  StoreInv'
<1> USE DEF StoreInv
<1>1. /\ UNCHANGED <<json, sidecar, prefilter, route, files>>
      /\ work' = work \/ work' = [work EXCEPT !.full = FALSE]
  BY DEF RefreshIndexFile, RemoveRoot, RestoreRoot, Edit, derived, disk, vars
<1>2. /\ roots' \subseteq Repos /\ live' \subseteq Pairs /\ clean' \in BOOLEAN
  BY DEF RefreshIndexFile, RemoveRoot, RestoreRoot, Edit, vars, disk, TypeOK
<1>3. postings' \subseteq files \X Terms
  BY DEF RefreshIndexFile, RemoveRoot, RestoreRoot, Edit, vars, disk, With, TypeOK, Pairs
<1>4. spent' \in [changes : Nat, aborts : Nat, outside : Nat]
  BY DEF RefreshIndexFile, RemoveRoot, RestoreRoot, Edit, Change, vars, TypeOK
<1>5. TypeOK'
  BY <1>1, <1>2, <1>3, <1>4 DEF TypeOK
<1>6. TodoOpen' /\ SavedIsListed' /\ ShardsAccounted'
  BY <1>1 DEF TodoOpen, SavedIsListed, ShardsAccounted, TypeOK
<1>7. StampsPast' /\ TrustedFilesAgree'
  BY <1>1 DEF StampsPast, TrustedFilesAgree, ValidFor
<1> QED BY <1>5, <1>6, <1>7

LEMMA NextInv == StoreInv /\ [Next]_vars => StoreInv'
<1> SUFFICES ASSUME StoreInv, [Next]_vars PROVE StoreInv'
  OBVIOUS
<1>1. CASE \/ \E scope \in SUBSET Repos : BeginRefresh(scope)
           \/ \E repos \in SUBSET Repos :
                BeginEnsure(repos) \/ \E force \in BOOLEAN : BeginBuild(repos, force)
  BY <1>1, BeginInv
<1>2. CASE \E r \in Repos : RefreshShard(r) \/ BuildShard(r) \/ RemoveMissing(r)
  BY <1>2, ShardInv DEF RefreshShard, BuildShard
<1>3. CASE SaveJson \/ SaveSidecar \/ SavePrefilter
  BY <1>3, SaveInv
<1>4. CASE SaveRoute
  BY <1>4, RouteInv
<1>5. CASE Abort
  BY <1>5, AbortInv
<1>6. CASE \/ \E r \in Repos : RefreshIndexFile(r) \/ RemoveRoot(r) \/ RestoreRoot(r)
           \/ \E p \in Pairs : Edit(p)
           \/ UNCHANGED vars
  BY <1>6, OutsideInv
<1>7. CASE Rest
  BY <1>7, OutsideInv DEF Rest
<1> QED BY <1>1, <1>2, <1>3, <1>4, <1>5, <1>6, <1>7 DEF Next

(* Type correctness of the shard directory and its writers (shards.rs).    *)
THEOREM Typing == Spec => []TypeOK
<1>1. StoreInv => TypeOK
  BY DEF StoreInv
<1> QED BY <1>1, InitInv, NextInv, PTL DEF Spec

(* A derived file that load_manifest_sidecar or load_manifest_route would  *)
(* accept lists what manifest.json lists, wherever a save was interrupted. *)
THEOREM DerivedAgree == Spec => []TrustedFilesAgree
<1>1. StoreInv => TrustedFilesAgree
  BY DEF StoreInv
<1> QED BY <1>1, InitInv, NextInv, PTL DEF Spec

(* Only build_shards_with_force drops a shard whose root no writer found   *)
(* missing: the two guards and the two refresh loops see to that.          *)
THEOREM NoSilentShrink == Spec => OnlyForceDrops
<1>1. StoreInv /\ [Next]_vars =>
        [\A r \in json.shards \ json'.shards : work.op = "force" \/ r \in work.gone]_vars
  <2> SUFFICES ASSUME StoreInv, Next
               PROVE  \A r \in json.shards \ json'.shards :
                        work.op = "force" \/ r \in work.gone
    OBVIOUS
  <2>1. CASE SaveJson
    <3>1. json'.shards = work.shards /\ work.phase = "shards" /\ work.todo = {}
      BY <2>1 DEF SaveJson
    <3> QED BY <3>1 DEF StoreInv, ShardsAccounted
  <2>2. CASE UNCHANGED json
    BY <2>2
  <2>3. ~SaveJson => UNCHANGED json
    BY DEF Next, Rest, BeginRefresh, BeginEnsure, BeginBuild, RefreshShard, BuildShard,
           Indexed, RemoveMissing, SaveSidecar, SavePrefilter, SaveRoute, Abort,
           RefreshIndexFile, RemoveRoot, RestoreRoot, Edit, vars
  <2> QED BY <2>1, <2>2, <2>3
<1> QED BY <1>1, InitInv, NextInv, PTL DEF Spec, OnlyForceDrops

-----------------------------------------------------------------------------
(* What a clean directory promises of each shard that it lists             *)

(* A writer that keeps the promise has, of the shards that it is done      *)
(* with, the index files, and in memory all their terms.                   *)
Done == work.shards \ work.todo

MemoryClean ==
  work.phase # "idle" /\ (clean \/ work.full) =>
    /\ Done \subseteq files /\ Done \subseteq work.sketched
    /\ \A p \in postings : p[1] \in Done => p \in work.terms

(* The derived files written so far say what the writer has in memory.     *)
FilesWritten ==
  /\ work.phase \in {"sidecar", "prefilter", "route"} => json.stamp # 0
  /\ work.phase \in {"prefilter", "route"} =>
       sidecar = [stamp |-> json.stamp, shards |-> work.shards,
                  sketched |-> work.sketched, terms |-> work.terms]
  /\ work.phase = "route" => prefilter = [stamp |-> json.stamp, terms |-> SketchedTerms]

(* An index file is missing only while its shard is being dropped.         *)
OpenOrGone == clean => json.shards \subseteq files \cup work.gone

(* Between writers, the files a reader would trust have every term that an *)
(* index has, and a refresh of some shards starts from sketches of all.    *)
DiskClean ==
  work.phase = "idle" /\ clean =>
    /\ json.stamp # 0 => sidecar.stamp = json.stamp /\ json.shards \subseteq sidecar.sketched
    /\ \A p \in postings : p[1] \in json.shards =>
         /\ p \in sidecar.terms
         /\ prefilter.stamp = json.stamp => p[2] \in prefilter.terms
         /\ route.stamp = json.stamp => p \in route.terms

CleanInv == MemoryClean /\ FilesWritten /\ OpenOrGone /\ DiskClean

LEMMA InitClean == Init => CleanInv
  BY DEF Init, Idle, CleanInv, MemoryClean, FilesWritten, OpenOrGone, DiskClean

(* A writer that starts is done with no shard, or takes over what a clean  *)
(* directory has of them.                                                  *)
LEMMA StartClean ==
  ASSUME StoreInv, CleanInv, work = Idle,
         NEW op, NEW repos, NEW manifest, NEW todo, NEW full,
         Start(op, repos, manifest, todo, full),
         \/ manifest.shards \subseteq todo
         \/ manifest = Loaded /\ json.stamp # 0 /\ full = FALSE,
         UNCHANGED <<files, postings, json, sidecar, clean>>
  PROVE  CleanInv'
<1>1. /\ work'.phase = "shards" /\ work'.gone = {} /\ work'.todo = todo /\ work'.full = full
      /\ work'.shards = manifest.shards /\ work'.sketched = manifest.sketched
      /\ work'.terms = manifest.terms
  BY DEF Start
<1>2. work.phase = "idle" /\ work.gone = {}
  BY DEF Idle
<1>3. MemoryClean'
  <2>1. CASE manifest.shards \subseteq todo
    BY <1>1, <2>1 DEF MemoryClean, Done
  <2>2. CASE manifest = Loaded /\ json.stamp # 0 /\ full = FALSE /\ clean
    <3>1. /\ sidecar.stamp = json.stamp /\ json.shards \subseteq sidecar.sketched
          /\ \A p \in postings : p[1] \in json.shards => p \in sidecar.terms
      BY <1>2, <2>2 DEF CleanInv, DiskClean
    <3>2. manifest.shards = json.shards
      BY <2>2, LoadedIsListed DEF StoreInv
    <3>3. manifest.sketched = sidecar.sketched /\ manifest.terms = sidecar.terms
      BY <2>2, <3>1 DEF Loaded, ValidFor
    <3>4. json.shards \subseteq files
      BY <1>2, <2>2 DEF CleanInv, OpenOrGone
    <3> QED BY <1>1, <3>1, <3>2, <3>3, <3>4 DEF MemoryClean, Done
  <2>3. CASE full = FALSE /\ ~clean
    BY <1>1, <2>3 DEF MemoryClean
  <2> QED BY <2>1, <2>2, <2>3
<1>4. FilesWritten' /\ OpenOrGone' /\ DiskClean'
  BY <1>1, <1>2 DEF CleanInv, FilesWritten, OpenOrGone, DiskClean
<1> QED BY <1>3, <1>4 DEF CleanInv

LEMMA BeginClean ==
  ASSUME StoreInv, CleanInv,
         \/ \E scope \in SUBSET Repos : BeginRefresh(scope)
         \/ \E repos \in SUBSET Repos :
              BeginEnsure(repos) \/ \E force \in BOOLEAN : BeginBuild(repos, force)
  PROVE  CleanInv'
<1>1. Empty.shards = {}
  BY DEF Empty
<1>2. ASSUME NEW scope \in SUBSET Repos, BeginRefresh(scope) PROVE CleanInv'
  <2>1. /\ work = Idle /\ json.stamp # 0
        /\ Start("refresh", {}, Loaded, scope, scope = Loaded.shards)
        /\ UNCHANGED <<files, postings, json, sidecar, clean>>
    BY <1>2 DEF BeginRefresh, disk, derived
  <2>2. CASE scope = Loaded.shards
    BY <2>1, <2>2, StartClean
  <2>3. CASE scope # Loaded.shards
    <3>1. (scope = Loaded.shards) = FALSE
      BY <2>3
    <3> QED BY <2>1, <3>1, StartClean
  <2> QED BY <2>2, <2>3
<1>3. ASSUME NEW repos \in SUBSET Repos, BeginEnsure(repos) PROVE CleanInv'
  <2>1. /\ work = Idle /\ UNCHANGED <<files, postings, json, sidecar, clean>>
        /\ \/ Start("ensure", repos, Loaded, Loaded.shards, TRUE)
           \/ Start("build", {}, Empty, repos, TRUE)
    BY <1>3 DEF BeginEnsure, disk, derived
  <2> QED BY <1>1, <2>1, StartClean
<1>4. ASSUME NEW repos \in SUBSET Repos, NEW force \in BOOLEAN, BeginBuild(repos, force)
      PROVE  CleanInv'
  <2>1. /\ work = Idle /\ UNCHANGED <<files, postings, json, sidecar, clean>>
        /\ Start(IF force THEN "force" ELSE "build", {}, Empty, repos, TRUE)
    BY <1>4 DEF BeginBuild, disk, derived
  <2> QED BY <1>1, <2>1, StartClean
<1> QED BY <1>2, <1>3, <1>4

LEMMA ShardClean ==
  ASSUME StoreInv, CleanInv, NEW r \in Repos, Indexed(r) \/ RemoveMissing(r)
  PROVE  CleanInv'
<1>1. UNCHANGED <<json, sidecar, clean>>
  BY DEF Indexed, RemoveMissing, derived
<1>2. r \in work.todo /\ work.phase = "shards"
  BY DEF Indexed, RemoveMissing, StoreInv, TodoOpen, TypeOK
<1>3. CASE Indexed(r)
  <2>1. /\ files' = files \cup {r} /\ postings' = With(postings, live, r)
        /\ work' = [work EXCEPT !.todo = @ \ {r}, !.shards = @ \cup {r},
                                !.sketched = @ \cup {r}, !.terms = Sketch(r)]
    BY <1>3 DEF Indexed
  <2>2. /\ work'.phase = "shards" /\ work'.gone = work.gone /\ work'.full = work.full
        /\ work'.todo = work.todo \ {r} /\ work'.shards = work.shards \cup {r}
        /\ work'.sketched = work.sketched \cup {r} /\ work'.terms = With(work.terms, live, r)
    BY <1>2, <2>1 DEF Sketch, StoreInv, TypeOK
  <2>3. ASSUME clean \/ work.full
        PROVE  /\ Done' \subseteq files' /\ Done' \subseteq work'.sketched
               /\ \A p \in postings' : p[1] \in Done' => p \in work'.terms
    <3>1. /\ Done \subseteq files /\ Done \subseteq work.sketched
          /\ \A p \in postings : p[1] \in Done => p \in work.terms
      BY <1>2, <2>3 DEF CleanInv, MemoryClean
    <3>2. Done' \subseteq Done \cup {r}
      BY <2>2 DEF Done
    <3> QED BY <2>1, <2>2, <3>1, <3>2 DEF With
  <2>4. MemoryClean'
    BY <1>1, <2>2, <2>3 DEF MemoryClean
  <2>5. FilesWritten' /\ OpenOrGone' /\ DiskClean'
    BY <1>1, <2>1, <2>2 DEF CleanInv, FilesWritten, OpenOrGone, DiskClean
  <2> QED BY <2>4, <2>5 DEF CleanInv
<1>4. CASE RemoveMissing(r)
  <2>1. PICK removed \in SUBSET {r} :
          /\ files' = files \ removed
          /\ postings' = {p \in postings : p[1] \notin removed}
    BY <1>4 DEF RemoveMissing
  <2>2. work' = [work EXCEPT !.todo = @ \ {r}, !.gone = @ \cup {r},
                             !.shards = work.shards \ {r}, !.sketched = @ \ {r},
                             !.terms = Without(@, r)]
    BY <1>4 DEF RemoveMissing, Remaining
  <2>3. /\ work'.phase = "shards" /\ work'.gone = work.gone \cup {r} /\ work'.full = work.full
        /\ work'.todo = work.todo \ {r} /\ work'.shards = work.shards \ {r}
        /\ work'.sketched = work.sketched \ {r} /\ work'.terms = Without(work.terms, r)
    BY <1>2, <2>2 DEF StoreInv, TypeOK
  <2>4. Done' \subseteq Done \ {r}
    BY <2>3 DEF Done
  <2>5. ASSUME clean \/ work.full
        PROVE  /\ Done' \subseteq files' /\ Done' \subseteq work'.sketched
               /\ \A p \in postings' : p[1] \in Done' => p \in work'.terms
    <3>1. /\ Done \subseteq files /\ Done \subseteq work.sketched
          /\ \A p \in postings : p[1] \in Done => p \in work.terms
      BY <1>2, <2>5 DEF CleanInv, MemoryClean
    <3> QED BY <2>1, <2>3, <2>4, <3>1 DEF Without
  <2>6. MemoryClean'
    BY <1>1, <2>3, <2>5 DEF MemoryClean
  <2>7. FilesWritten' /\ OpenOrGone' /\ DiskClean'
    BY <1>1, <2>1, <2>3 DEF CleanInv, FilesWritten, OpenOrGone, DiskClean
  <2> QED BY <2>6, <2>7 DEF CleanInv
<1> QED BY <1>3, <1>4

(* When nothing is left to index, the writer is done with all it lists.    *)
LEMMA DoneIsListed ==
  ASSUME StoreInv, CleanInv, work.phase \in {"shards", "sidecar", "prefilter", "route"},
         work.todo = {}, clean \/ work.full
  PROVE  /\ work.shards \subseteq files /\ work.shards \subseteq work.sketched
         /\ \A p \in postings : p[1] \in work.shards => p \in work.terms
BY DEF CleanInv, MemoryClean, Done

LEMMA SaveClean ==
  ASSUME StoreInv, CleanInv, SaveJson \/ SaveSidecar \/ SavePrefilter
  PROVE  CleanInv'
<1>0. /\ UNCHANGED <<files, postings, clean>>
      /\ work.phase \in {"shards", "sidecar", "prefilter"} /\ work.todo = {}
  BY DEF SaveJson, SaveSidecar, SavePrefilter, disk, StoreInv, TodoOpen
<1>1. /\ UNCHANGED <<work.todo, work.gone, work.full, work.shards, work.sketched, work.terms>>
      /\ work'.phase \in {"sidecar", "prefilter", "route"}
  BY DEF SaveJson, SaveSidecar, SavePrefilter, StoreInv, TypeOK
<1>2. MemoryClean' /\ DiskClean'
  BY <1>0, <1>1 DEF CleanInv, MemoryClean, Done, DiskClean
<1>3. OpenOrGone'
  <2>1. CASE SaveJson
    <3>1. json'.shards = work.shards
      BY <2>1 DEF SaveJson
    <3>2. clean => work.shards \subseteq files
      BY <1>0, DoneIsListed
    <3> QED BY <1>0, <3>1, <3>2 DEF OpenOrGone
  <2>2. CASE ~SaveJson
    <3>1. UNCHANGED json
      BY <2>2 DEF SaveSidecar, SavePrefilter
    <3> QED BY <1>0, <1>1, <3>1 DEF CleanInv, OpenOrGone
  <2> QED BY <2>1, <2>2
<1>4. FilesWritten'
  <2>1. CASE SaveJson
    <3>1. json'.stamp = json.stamp + 1 /\ work'.phase = "sidecar" /\ json.stamp \in Nat
      BY <2>1 DEF SaveJson, NextStamp, StoreInv, TypeOK
    <3> QED BY <3>1 DEF FilesWritten
  <2>2. CASE SaveSidecar
    <3>1. /\ sidecar' = [stamp |-> json.stamp, shards |-> work.shards,
                         sketched |-> work.sketched, terms |-> work.terms]
          /\ work'.phase = "prefilter" /\ UNCHANGED json /\ work.phase = "sidecar"
      BY <2>2 DEF SaveSidecar, StoreInv, TypeOK
    <3> QED BY <1>1, <3>1 DEF FilesWritten, CleanInv
  <2>3. CASE SavePrefilter
    <3>1. /\ prefilter' = [stamp |-> json.stamp, terms |-> SketchedTerms]
          /\ work'.phase = "route" /\ UNCHANGED <<json, sidecar>> /\ work.phase = "prefilter"
      BY <2>3 DEF SavePrefilter, StoreInv, TypeOK
    <3>2. SketchedTerms' = SketchedTerms
      BY <1>1 DEF SketchedTerms
    <3> QED BY <1>1, <3>1, <3>2 DEF FilesWritten, CleanInv
  <2> QED BY <2>1, <2>2, <2>3
<1> QED BY <1>2, <1>3, <1>4 DEF CleanInv

(* The last file: a writer that wrote all shards makes the promise.        *)
LEMMA RouteClean ==
  ASSUME StoreInv, CleanInv, SaveRoute PROVE CleanInv'
<1>1. /\ route' = [stamp |-> json.stamp, shards |-> work.shards,
                   terms |-> {p \in work.terms : p[1] \in work.sketched}]
      /\ work.phase = "route" /\ clean' = (clean \/ work.full)
      /\ UNCHANGED <<files, postings, json, sidecar, prefilter>>
  BY DEF SaveRoute, disk
<1>2. work.todo = {} /\ work.shards = json.shards /\ json.stamp # 0
  BY <1>1 DEF StoreInv, TodoOpen, SavedIsListed, CleanInv, FilesWritten
<1>3. /\ sidecar.stamp = json.stamp /\ sidecar.shards = work.shards
      /\ sidecar.sketched = work.sketched /\ sidecar.terms = work.terms
      /\ prefilter.terms = SketchedTerms
  BY <1>1 DEF CleanInv, FilesWritten
<1>4. clean \/ work.full =>
        /\ json.shards \subseteq files /\ json.shards \subseteq work.sketched
        /\ \A p \in postings : p[1] \in json.shards => p \in work.terms
  BY <1>1, <1>2, DoneIsListed
<1>5. OpenOrGone'
  BY <1>1, <1>4 DEF OpenOrGone
<1>6. CASE work.op = "ensure" /\ Missing # {}
  <2>1. Start("add", {}, Loaded, Missing, work.full)
    BY <1>6 DEF SaveRoute
  <2>2. /\ Loaded.shards = json.shards /\ Loaded.sketched = work.sketched
        /\ Loaded.terms = work.terms
    BY <1>2, <1>3 DEF Loaded, ValidFor
  <2>3. /\ work'.phase = "shards" /\ work'.full = work.full /\ work'.todo = Missing
        /\ work'.shards = json.shards /\ work'.sketched = work.sketched
        /\ work'.terms = work.terms
    BY <2>1, <2>2 DEF Start
  <2>4. MemoryClean'
    BY <1>1, <1>4, <2>3 DEF MemoryClean, Done
  <2>5. FilesWritten' /\ DiskClean'
    BY <2>3 DEF FilesWritten, DiskClean
  <2> QED BY <1>5, <2>4, <2>5 DEF CleanInv
<1>7. CASE ~(work.op = "ensure" /\ Missing # {})
  <2>1. work'.phase = "idle"
    BY <1>7 DEF SaveRoute, Idle
  <2>2. ASSUME clean \/ work.full, NEW p \in postings, p[1] \in json.shards
        PROVE  p \in sidecar.terms /\ p[2] \in prefilter.terms /\ p \in route'.terms
    <3>1. p \in work.terms /\ p[1] \in work.sketched /\ p = <<p[1], p[2]>> /\ p[2] \in Terms
      BY <1>4, <2>2 DEF StoreInv, TypeOK
    <3> QED BY <1>1, <1>3, <3>1 DEF SketchedTerms
  <2>3. DiskClean'
    BY <1>1, <1>3, <1>4, <2>2 DEF DiskClean
  <2>4. MemoryClean' /\ FilesWritten'
    BY <2>1 DEF MemoryClean, FilesWritten
  <2> QED BY <1>5, <2>3, <2>4 DEF CleanInv
<1> QED BY <1>6, <1>7

(* Nobody promises anything after an abort or an index refreshed outside.  *)
LEMMA OtherClean ==
  ASSUME StoreInv, CleanInv,
         \/ Abort
         \/ \E r \in Repos : RefreshIndexFile(r) \/ RemoveRoot(r) \/ RestoreRoot(r)
         \/ \E p \in Pairs : Edit(p)
         \/ UNCHANGED vars
  PROVE  CleanInv'
<1>1. CASE Abort
  <2>1. work' = Idle /\ clean' = FALSE
    BY <1>1 DEF Abort
  <2> QED BY <2>1 DEF Idle, CleanInv, MemoryClean, FilesWritten, OpenOrGone, DiskClean
<1>2. ASSUME NEW r \in Repos, RefreshIndexFile(r) PROVE CleanInv'
  <2>1. clean' = FALSE /\ UNCHANGED <<json, sidecar, prefilter>>
    BY <1>2 DEF RefreshIndexFile, derived
  <2>2. /\ UNCHANGED <<work.phase, work.shards, work.sketched, work.terms>>
        /\ work'.full = FALSE
    BY <1>2 DEF RefreshIndexFile, StoreInv, TypeOK
  <2>3. SketchedTerms' = SketchedTerms
    BY <2>2 DEF SketchedTerms
  <2> QED BY <2>1, <2>2, <2>3
          DEF CleanInv, MemoryClean, FilesWritten, OpenOrGone, DiskClean
<1>3. CASE \/ \E r \in Repos : RemoveRoot(r) \/ RestoreRoot(r)
           \/ \E p \in Pairs : Edit(p)
           \/ UNCHANGED vars
  <2>1. UNCHANGED <<work, files, postings, json, sidecar, prefilter, route, clean>>
    BY <1>3 DEF RemoveRoot, RestoreRoot, Edit, vars, disk, derived
  <2> QED BY <2>1
          DEF CleanInv, MemoryClean, FilesWritten, OpenOrGone, DiskClean, Done, SketchedTerms
<1> QED BY <1>1, <1>2, <1>3

LEMMA CleanStep == StoreInv /\ CleanInv /\ [Next]_vars => CleanInv'
<1> SUFFICES ASSUME StoreInv, CleanInv, [Next]_vars PROVE CleanInv'
  OBVIOUS
<1>1. CASE \/ \E scope \in SUBSET Repos : BeginRefresh(scope)
           \/ \E repos \in SUBSET Repos :
                BeginEnsure(repos) \/ \E force \in BOOLEAN : BeginBuild(repos, force)
  BY <1>1, BeginClean
<1>2. CASE \E r \in Repos : RefreshShard(r) \/ BuildShard(r) \/ RemoveMissing(r)
  BY <1>2, ShardClean DEF RefreshShard, BuildShard
<1>3. CASE SaveJson \/ SaveSidecar \/ SavePrefilter
  BY <1>3, SaveClean
<1>4. CASE SaveRoute
  BY <1>4, RouteClean
<1>5. CASE \/ Abort
           \/ \E r \in Repos : RefreshIndexFile(r) \/ RemoveRoot(r) \/ RestoreRoot(r)
           \/ \E p \in Pairs : Edit(p)
           \/ UNCHANGED vars
  BY <1>5, OtherClean
<1>6. CASE Rest
  BY <1>6, OtherClean DEF Rest
<1> QED BY <1>1, <1>2, <1>3, <1>4, <1>5, <1>6 DEF Next

(* After a build or a full refresh that ran to its end, and after the      *)
(* scoped refreshes that followed (refresh_shards_by_root), every shard    *)
(* that manifest.json lists has its index file.                            *)
THEOREM Openable == Spec => []CleanOpens
<1>1. StoreInv /\ CleanInv => CleanOpens
  BY DEF CleanInv, OpenOrGone, CleanOpens, Idle
<1> QED BY <1>1, InitInv, NextInv, InitClean, CleanStep, PTL DEF Spec

(* ... and every term an index has leads a search to its shard, whichever  *)
(* of the three derived files the search trusts (load_manifest_route,      *)
(* shard_prefilter_query_impossible, shard_sketch_may_match).              *)
THEOREM Recall == Spec => []CleanRecall
<1>1. StoreInv /\ CleanInv => CleanRecall
  <2> SUFFICES ASSUME StoreInv, CleanInv, clean, work = Idle,
                      NEW p \in postings, p[1] \in json.shards
               PROVE  p[1] \in Candidates(p[2])
    BY DEF CleanRecall
  <2>1. /\ json.stamp # 0 => sidecar.stamp = json.stamp
        /\ p \in sidecar.terms
        /\ prefilter.stamp = json.stamp => p[2] \in prefilter.terms
        /\ route.stamp = json.stamp => p \in route.terms
    BY DEF CleanInv, DiskClean, Idle
  <2>2. p = <<p[1], p[2]>> /\ json.stamp # 0
    BY DEF StoreInv, TypeOK, StampsPast
  <2>3. ~Impossible(p[2], json.stamp)
    BY <2>1 DEF Impossible, ValidFor
  <2>4. ValidFor(route, json.stamp) => p[1] \in Routed(p[2])
    BY <2>1, <2>2 DEF StoreInv, TrustedFilesAgree, ValidFor, Routed
  <2>5. p[1] \in MayMatch(Loaded, p[2])
    <3>1. Loaded.terms = sidecar.terms /\ Loaded.shards = json.shards
      BY <2>1, <2>2, LoadedIsListed DEF Loaded, ValidFor, StoreInv
    <3> QED BY <2>1, <2>2, <3>1 DEF MayMatch
  <2> QED BY <2>3, <2>4, <2>5 DEF Candidates
<1> QED BY <1>1, InitInv, NextInv, InitClean, CleanStep, PTL DEF Spec

-----------------------------------------------------------------------------
(* A search beside them                                                    *)

SearchType ==
  search \in [phase : {"none", "prefilter", "stat", "route", "restat", "sidecar", "json", "index",
                       "done", "error"},
              term : Terms \cup {"none"}, stamp : Nat, due : SUBSET Repos,
              cands : SUBSET Repos, hits : SUBSET Repos]

(* The route is written last, from what the sidecar was written from.      *)
RouteLast ==
  /\ work.phase \in {"sidecar", "prefilter", "route"} => route.stamp # json.stamp
  /\ ValidFor(route, json.stamp) =>
       route.terms = {p \in sidecar.terms : p[1] \in sidecar.sketched}

(* Whichever of the two is taken for a file of this fingerprint, it leads  *)
(* a search for t to r.                                                    *)
Knows(routeFile, sidecarFile, r, t, stamp) ==
  /\ ValidFor(routeFile, stamp) => r \in routeFile.shards /\ <<r, t>> \in routeFile.terms
  /\ ValidFor(sidecarFile, stamp) => r \in MayMatch(sidecarFile, t)

(* A shard the search must not miss still has the term, and no file the    *)
(* search has looked at, or would look at now, hides it.                   *)
Due(r) ==
  /\ clean /\ r \in roots \cap files \cap json.shards
  /\ search.term \in Terms /\ <<r, search.term>> \in live \cap postings
  /\ Knows(route, sidecar, r, search.term, search.stamp)
  /\ Knows(route, sidecar, r, search.term, json.stamp)
  /\ search.phase = "prefilter" => ~Impossible(search.term, search.stamp)
  /\ search.phase = "index" => r \in search.cands \cup search.hits
  /\ search.phase = "done" => r \in search.hits

SearchInv ==
  /\ StoreInv /\ CleanInv /\ SearchType /\ RouteLast
  /\ \A r \in search.due : Due(r)

LEMMA SearchInitInv == SearchInit => SearchInv
<1> SUFFICES ASSUME SearchInit PROVE SearchInv
  OBVIOUS
<1>1. StoreInv /\ CleanInv
  BY InitInv, InitClean DEF SearchInit
<1>2. SearchType /\ search.due = {}
  BY DEF SearchInit, NoSearch, SearchType
<1>3. RouteLast
  BY DEF SearchInit, Init, Idle, RouteLast, ValidFor
<1> QED BY <1>1, <1>2, <1>3 DEF SearchInv

-----------------------------------------------------------------------------
(* Steps of the directory                                                  *)

LEMMA RouteLastStep ==
  ASSUME StoreInv, CleanInv, RouteLast, Next PROVE RouteLast'
<1>1. CASE SaveJson
  <2>1. json'.stamp = json.stamp + 1 /\ UNCHANGED route /\ json.stamp \in Nat
    BY <1>1 DEF SaveJson, NextStamp, derived, StoreInv, TypeOK
  <2>2. route'.stamp # json'.stamp
    BY <2>1 DEF StoreInv, StampsPast, TypeOK
  <2> QED BY <2>2 DEF RouteLast, ValidFor
<1>2. CASE SaveSidecar \/ SavePrefilter
  <2>1. work.phase \in {"sidecar", "prefilter"} /\ UNCHANGED <<json, route>>
    BY <1>2 DEF SaveSidecar, SavePrefilter
  <2> QED BY <2>1 DEF RouteLast, ValidFor
<1>3. CASE SaveRoute
  <2>1. /\ route'.terms = {p \in work.terms : p[1] \in work.sketched}
        /\ work.phase = "route" /\ UNCHANGED <<json, sidecar>>
        /\ work'.phase \in {"idle", "shards"}
    BY <1>3 DEF SaveRoute, Start, Idle
  <2>2. sidecar.sketched = work.sketched /\ sidecar.terms = work.terms
    BY <2>1 DEF CleanInv, FilesWritten
  <2> QED BY <2>1, <2>2 DEF RouteLast
<1>4. CASE ~(SaveJson \/ SaveSidecar \/ SavePrefilter \/ SaveRoute)
  <2>1. UNCHANGED <<json, sidecar, route>>
    BY <1>4 DEF Next, Rest, BeginRefresh, BeginEnsure, BeginBuild, RefreshShard, BuildShard,
           Indexed, RemoveMissing, Abort, RefreshIndexFile, RemoveRoot, RestoreRoot, Edit, vars,
           derived
  <2>2. work'.phase \in {"idle", "shards", work.phase}
    <3>1. ASSUME NEW op, NEW repos, NEW manifest, NEW todo, NEW full,
                 Start(op, repos, manifest, todo, full)
          PROVE  work'.phase = "shards"
      BY <3>1 DEF Start
    <3>2. CASE \/ \E scope \in SUBSET Repos : BeginRefresh(scope)
               \/ \E repos \in SUBSET Repos :
                    BeginEnsure(repos) \/ \E force \in BOOLEAN : BeginBuild(repos, force)
      BY <3>1, <3>2 DEF BeginRefresh, BeginEnsure, BeginBuild
    <3>3. CASE \E r \in Repos : RefreshShard(r) \/ BuildShard(r) \/ RemoveMissing(r)
      BY <3>3 DEF RefreshShard, BuildShard, Indexed, RemoveMissing, StoreInv, TypeOK
    <3>4. CASE Abort
      BY <3>4 DEF Abort, Idle
    <3>5. CASE \/ \E r \in Repos : RefreshIndexFile(r) \/ RemoveRoot(r) \/ RestoreRoot(r)
               \/ \E p \in Pairs : Edit(p)
               \/ Rest
      BY <3>5 DEF RefreshIndexFile, RemoveRoot, RestoreRoot, Edit, Rest, vars, StoreInv, TypeOK
    <3> QED BY <1>4, <3>2, <3>3, <3>4, <3>5 DEF Next
  <2> QED BY <2>1, <2>2 DEF RouteLast, ValidFor
<1> QED BY <1>1, <1>2, <1>3, <1>4

(* A shard that stays clean and keeps its root keeps its index file and    *)
(* what both the index and the repository have.                            *)
LEMMA IndexStays ==
  ASSUME StoreInv, Next, clean', NEW r \in roots \cap files, NEW t \in Terms,
         <<r, t>> \in live, <<r, t>> \in postings
  PROVE  r \in files' /\ <<r, t>> \in postings'
<1>1. ASSUME NEW q \in Repos, Indexed(q) PROVE r \in files' /\ <<r, t>> \in postings'
  BY <1>1 DEF Indexed, With
<1>2. ASSUME NEW q \in Repos, RemoveMissing(q) PROVE r \in files' /\ <<r, t>> \in postings'
  BY <1>2 DEF RemoveMissing
<1>3. CASE \E q \in Repos : RefreshShard(q) \/ BuildShard(q) \/ RemoveMissing(q)
  BY <1>1, <1>2, <1>3 DEF RefreshShard, BuildShard
<1>4. ASSUME NEW q \in Repos PROVE ~RefreshIndexFile(q)
  BY DEF RefreshIndexFile
<1>5. CASE UNCHANGED disk
  BY <1>5 DEF disk
<1>6. \/ UNCHANGED disk
      \/ \E q \in Repos : RefreshShard(q) \/ BuildShard(q) \/ RemoveMissing(q)
  BY <1>4 DEF Next, Rest, BeginRefresh, BeginEnsure, BeginBuild, SaveJson, SaveSidecar,
         SavePrefilter, SaveRoute, Abort, RemoveRoot, RestoreRoot, Edit, vars
<1> QED BY <1>3, <1>5, <1>6

(* Nor does a derived file that is written meanwhile hide it.              *)
LEMMA KnowsStep ==
  ASSUME StoreInv, CleanInv, Next, clean, NEW r \in json.shards, NEW t \in Terms,
         <<r, t>> \in postings, NEW stamp,
         Knows(route, sidecar, r, t, stamp), Knows(route, sidecar, r, t, json.stamp)
  PROVE  /\ Knows(route', sidecar', r, t, stamp) /\ Knows(route', sidecar', r, t, json'.stamp)
         /\ ~Impossible(t, stamp) => ~(ValidFor(prefilter', stamp) /\ t \notin prefilter'.terms)
<1>0. work.phase \in {"sidecar", "prefilter", "route"} =>
        r \in work.shards /\ r \in work.sketched /\ <<r, t>> \in work.terms
  BY DoneIsListed DEF StoreInv, TodoOpen, SavedIsListed
<1>1. CASE SaveJson
  <2>1. /\ json'.stamp = json.stamp + 1 /\ json.stamp \in Nat
        /\ UNCHANGED <<route, sidecar, prefilter>>
    BY <1>1 DEF SaveJson, NextStamp, derived, StoreInv, TypeOK
  <2>2. route.stamp # json'.stamp /\ sidecar.stamp # json'.stamp
    BY <2>1 DEF StoreInv, StampsPast, TypeOK
  <2> QED BY <2>1, <2>2 DEF Knows, ValidFor, Impossible
<1>2. CASE SaveSidecar
  <2>1. /\ sidecar'.shards = work.shards /\ sidecar'.terms = work.terms
        /\ UNCHANGED <<json, route, prefilter>>
        /\ work.phase = "sidecar"
    BY <1>2 DEF SaveSidecar
  <2>2. r \in MayMatch(sidecar', t)
    BY <1>0, <2>1 DEF MayMatch
  <2> QED BY <2>1, <2>2 DEF Knows, Impossible
<1>3. CASE SavePrefilter
  <2>1. /\ prefilter'.terms = SketchedTerms /\ work.phase = "prefilter"
        /\ UNCHANGED <<json, route, sidecar>>
    BY <1>3 DEF SavePrefilter
  <2>2. t \in SketchedTerms
    BY <1>0, <2>1 DEF SketchedTerms
  <2> QED BY <2>1, <2>2
<1>4. CASE SaveRoute
  <2>1. /\ route'.shards = work.shards
        /\ route'.terms = {p \in work.terms : p[1] \in work.sketched}
        /\ work.phase = "route" /\ UNCHANGED <<json, sidecar, prefilter>>
    BY <1>4 DEF SaveRoute
  <2>2. r \in route'.shards /\ <<r, t>> \in route'.terms
    BY <1>0, <2>1
  <2> QED BY <2>1, <2>2 DEF Knows, Impossible
<1>5. CASE UNCHANGED <<json, derived>>
  BY <1>5 DEF derived, Impossible
<1>6. SaveJson \/ SaveSidecar \/ SavePrefilter \/ SaveRoute \/ UNCHANGED <<json, derived>>
  BY DEF Next, Rest, BeginRefresh, BeginEnsure, BeginBuild, RefreshShard, BuildShard,
         Indexed, RemoveMissing, Abort, RefreshIndexFile, RemoveRoot, RestoreRoot, Edit, vars
<1> QED BY <1>1, <1>2, <1>3, <1>4, <1>5, <1>6

LEMMA StoreStepInv ==
  ASSUME SearchInv, StoreStep PROVE SearchInv'
<1>1. StoreInv' /\ CleanInv' /\ RouteLast'
  BY NextInv, CleanStep, RouteLastStep DEF SearchInv, StoreStep
<1>2. StillDue \subseteq search.due
  BY DEF StillDue
<1>3. /\ search'.phase = search.phase /\ search'.term = search.term
      /\ search'.stamp = search.stamp /\ search'.cands = search.cands
      /\ search'.hits = search.hits /\ search'.due = StillDue
  BY DEF StoreStep, SearchInv, SearchType
<1>4. SearchType'
  BY <1>2 DEF StoreStep, SearchInv, SearchType
<1>5. ASSUME NEW r \in search'.due PROVE Due(r)'
  <2>1. /\ clean' /\ r \in search.due /\ r \in roots' /\ r \in json'.shards
        /\ <<r, search.term>> \in live'
    BY <1>3, <1>5 DEF StillDue
  <2>2. Due(r)
    BY <2>1 DEF SearchInv
  <2>3. r \in files' /\ <<r, search.term>> \in postings'
    BY <2>1, <2>2, IndexStays DEF Due, SearchInv, StoreStep
  <2>4. /\ Knows(route', sidecar', r, search.term, search.stamp)
        /\ Knows(route', sidecar', r, search.term, json'.stamp)
        /\ ~Impossible(search.term, search.stamp) =>
             ~(ValidFor(prefilter', search.stamp) /\ search.term \notin prefilter'.terms)
    BY <2>2, KnowsStep DEF Due, SearchInv, StoreStep
  <2> QED BY <1>3, <2>1, <2>2, <2>3, <2>4 DEF Due, Impossible
<1> QED BY <1>1, <1>4, <1>5 DEF SearchInv

-----------------------------------------------------------------------------
(* Steps of the search                                                     *)

LEMMA SameDirectory ==
  ASSUME SearchInv, UNCHANGED vars
  PROVE  /\ StoreInv' /\ CleanInv' /\ RouteLast'
         /\ UNCHANGED <<roots, live, files, postings, json, sidecar, prefilter, route, work, clean>>
<1>1. UNCHANGED <<roots, live, files, postings, json, sidecar, prefilter, route, work, clean>>
  BY DEF vars, disk, derived
<1>2. StoreInv' /\ CleanInv'
  BY NextInv, CleanStep DEF SearchInv
<1> QED BY <1>1, <1>2 DEF SearchInv, RouteLast, ValidFor

(* What a search for t would find, no file hides from it.                  *)
LEMMA FindableIsDue ==
  ASSUME SearchInv, NEW t \in Terms, NEW r \in Findable(t)
  PROVE  /\ r \in json.shards /\ Knows(route, sidecar, r, t, json.stamp)
         /\ ~Impossible(t, json.stamp)
<1>1. r \in Candidates(t) /\ ~Impossible(t, json.stamp)
  BY DEF Findable, Candidates
<1>2. CASE ValidFor(route, json.stamp)
  <2>1. r \in Routed(t)
    BY <1>1, <1>2 DEF Candidates
  <2>2. r \in route.shards /\ <<r, t>> \in route.terms /\ r \in json.shards
    BY <1>2, <2>1 DEF Routed, SearchInv, StoreInv, TrustedFilesAgree
  <2>3. <<r, t>> \in sidecar.terms
    BY <1>2, <2>2 DEF SearchInv, RouteLast
  <2>4. ValidFor(sidecar, json.stamp) => r \in MayMatch(sidecar, t)
    BY <2>2, <2>3 DEF MayMatch, SearchInv, StoreInv, TrustedFilesAgree
  <2> QED BY <1>1, <2>2, <2>4 DEF Knows
<1>3. CASE ~ValidFor(route, json.stamp)
  <2>1. r \in MayMatch(Loaded, t)
    BY <1>1, <1>3 DEF Candidates
  <2>2. r \in json.shards
    BY <2>1, LoadedIsListed DEF MayMatch, SearchInv, StoreInv
  <2>3. ValidFor(sidecar, json.stamp) => r \in MayMatch(sidecar, t)
    BY <2>1 DEF Loaded, MayMatch
  <2> QED BY <1>1, <1>3, <2>2, <2>3 DEF Knows
<1> QED BY <1>2, <1>3

LEMMA BeginSearchInv ==
  ASSUME SearchInv, NEW t \in Terms, SearchBegin(t) PROVE SearchInv'
<1>1. /\ search'.phase = "prefilter" /\ search'.term = t /\ search'.stamp = json.stamp
      /\ search'.due = IF clean THEN Findable(t) ELSE {}
      /\ UNCHANGED vars
  BY DEF SearchBegin, Step
<1>2. SearchType'
  BY DEF SearchBegin, Step, SearchInv, SearchType, StoreInv, TypeOK, Findable
<1>3. ASSUME NEW r \in search'.due PROVE Due(r)'
  <2>1. clean /\ r \in Findable(t)
    BY <1>1, <1>3
  <2>2. /\ r \in json.shards /\ Knows(route, sidecar, r, t, json.stamp)
        /\ ~Impossible(t, json.stamp)
    BY <2>1, FindableIsDue
  <2> QED BY <1>1, <2>1, <2>2, SameDirectory DEF Due, Findable, Impossible
<1> QED BY <1>1, <1>2, <1>3, SameDirectory DEF SearchInv

(* A step that reads on: what it must not miss it keeps among the shards   *)
(* to open, or among the hits.                                             *)
LEMMA ReadInv ==
  ASSUME SearchInv, UNCHANGED vars, SearchType', search'.phase # "prefilter",
         search'.term = search.term, search'.due = search.due,
         search'.stamp = search.stamp \/ search'.stamp = json.stamp,
         \A r \in search.due : Due(r) =>
           /\ search'.phase = "index" => r \in search'.cands \cup search'.hits
           /\ search'.phase = "done" => r \in search'.hits
  PROVE  SearchInv'
<1>1. ASSUME NEW r \in search'.due PROVE Due(r)'
  <2>1. Due(r)
    BY <1>1 DEF SearchInv
  <2> QED BY <1>1, <2>1, SameDirectory DEF Due
<1> QED BY <1>1, SameDirectory DEF SearchInv

LEMMA ReadsInv ==
  ASSUME SearchInv,
         \/ SearchPrefilter \/ SearchStat \/ SearchRoute \/ SearchRestat
         \/ SearchSidecar \/ SearchJson \/ SearchEnd
         \/ \E r \in Repos : SearchIndex(r)
  PROVE  SearchInv'
<1>t. /\ SearchType /\ UNCHANGED vars
      /\ json.stamp \in Nat /\ json.shards \subseteq Repos
  BY DEF SearchInv, StoreInv, TypeOK, SearchPrefilter, SearchStat, SearchRoute, SearchRestat,
         SearchSidecar, SearchJson, SearchEnd, SearchIndex, Step
<1>1. CASE SearchPrefilter
  <2>1. \E phase \in {"done", "stat"} :
          /\ search.phase = "prefilter" /\ search' = At(phase)
          /\ phase = "done" => Impossible(search.term, search.stamp)
    BY <1>1 DEF SearchPrefilter, Step
  <2> QED BY <1>t, <2>1, ReadInv DEF At, SearchType, Due
<1>2. CASE SearchStat
  <2>1. search' = [At("route") EXCEPT !.stamp = json.stamp]
    BY <1>2 DEF SearchStat, Step
  <2> QED BY <1>t, <2>1, ReadInv DEF At, SearchType
<1>3. CASE SearchRoute
  <2>1. CASE ValidFor(route, search.stamp)
    <3>1. search' = [At("index") EXCEPT !.cands = Routed(search.term)]
      BY <1>3, <2>1 DEF SearchRoute, Step
    <3>2. Routed(search.term) \in SUBSET Repos
      BY DEF Routed, SearchInv, StoreInv, TypeOK
    <3>3. \A r \in search.due : Due(r) => r \in Routed(search.term)
      BY <2>1 DEF Due, Knows, Routed
    <3> QED BY <1>t, <3>1, <3>2, <3>3, ReadInv DEF At, SearchType
  <2>2. CASE ~ValidFor(route, search.stamp)
    <3>1. search' = At("restat")
      BY <1>3, <2>2 DEF SearchRoute, Step
    <3> QED BY <1>t, <3>1, ReadInv DEF At, SearchType
  <2> QED BY <2>1, <2>2
<1>4. CASE SearchRestat
  <2>1. search' = [At("sidecar") EXCEPT !.stamp = json.stamp]
    BY <1>4 DEF SearchRestat, Step
  <2> QED BY <1>t, <2>1, ReadInv DEF At, SearchType
<1>5. CASE SearchSidecar
  <2>1. CASE ValidFor(sidecar, search.stamp)
    <3>1. search' = [At("index") EXCEPT !.cands = MayMatch(sidecar, search.term)]
      BY <1>5, <2>1 DEF SearchSidecar, Step
    <3>2. MayMatch(sidecar, search.term) \in SUBSET Repos
      BY DEF MayMatch, SearchInv, StoreInv, TypeOK
    <3>3. \A r \in search.due : Due(r) => r \in MayMatch(sidecar, search.term)
      BY <2>1 DEF Due, Knows
    <3> QED BY <1>t, <3>1, <3>2, <3>3, ReadInv DEF At, SearchType
  <2>2. CASE ~ValidFor(sidecar, search.stamp)
    <3>1. search' = At("json")
      BY <1>5, <2>2 DEF SearchSidecar, Step
    <3> QED BY <1>t, <3>1, ReadInv DEF At, SearchType
  <2> QED BY <2>1, <2>2
<1>6. CASE SearchJson
  <2>1. \/ search' = At("error")
        \/ search' = [At("index") EXCEPT !.cands = json.shards]
    BY <1>6 DEF SearchJson, Step, Unsketched
  <2>2. \A r \in search.due : Due(r) => r \in json.shards
    BY DEF Due
  <2> QED BY <1>t, <2>1, <2>2, ReadInv DEF At, SearchType
<1>7. CASE SearchEnd
  <2>1. search.cands = {} /\ search.phase = "index" /\ search' = At("done")
    BY <1>7 DEF SearchEnd, Step
  <2> QED BY <1>t, <2>1, ReadInv DEF At, SearchType, Due
<1>8. ASSUME NEW q \in Repos, SearchIndex(q) PROVE SearchInv'
  <2>1. search.phase = "index" /\ q \in search.cands
    BY <1>8 DEF SearchIndex, Step
  <2>2. CASE q \notin files
    <3>1. search' = At("error")
      BY <1>8, <2>2 DEF SearchIndex, Step
    <3> QED BY <1>t, <3>1, ReadInv DEF At, SearchType
  <2>3. CASE q \in files
    <3> DEFINE hits == search.hits \cup {p \in {q} : <<p, search.term>> \in postings}
    <3>1. search' = [search EXCEPT !.cands = @ \ {q}, !.hits = hits]
      BY <1>8, <2>3 DEF SearchIndex, Step
    <3>2. hits \in SUBSET Repos
      BY <1>t DEF SearchType
    <3>3. \A r \in search.due : Due(r) => r \in (search.cands \ {q}) \cup hits
      BY <2>1 DEF Due
    <3> HIDE DEF hits
    <3> QED BY <1>t, <2>1, <3>1, <3>2, <3>3, ReadInv DEF SearchType
  <2> QED BY <2>2, <2>3
<1> QED BY <1>1, <1>2, <1>3, <1>4, <1>5, <1>6, <1>7, <1>8

LEMMA ReturnInv ==
  ASSUME SearchInv, SearchReturn \/ UNCHANGED searchVars PROVE SearchInv'
<1>1. UNCHANGED vars /\ (search' = NoSearch \/ search' = search)
  BY DEF SearchReturn, Step, searchVars
<1>2. CASE search' = NoSearch
  <2>1. SearchType' /\ search'.due = {}
    BY <1>2 DEF SearchType, NoSearch
  <2> QED BY <1>1, <2>1, SameDirectory DEF SearchInv
<1>3. CASE search' = search
  <2>1. SearchType'
    BY <1>3 DEF SearchInv, SearchType
  <2>2. ASSUME NEW r \in search'.due PROVE Due(r)'
    <3>1. Due(r)
      BY <1>3, <2>2 DEF SearchInv
    <3> QED BY <1>1, <1>3, <3>1, SameDirectory DEF Due, Impossible
  <2> QED BY <1>1, <2>1, <2>2, SameDirectory DEF SearchInv
<1> QED BY <1>1, <1>2, <1>3

LEMMA SearchStep == SearchInv /\ [SearchNext]_searchVars => SearchInv'
<1> SUFFICES ASSUME SearchInv, [SearchNext]_searchVars PROVE SearchInv'
  OBVIOUS
<1>1. CASE StoreStep
  BY <1>1, StoreStepInv
<1>2. CASE \E t \in Terms : SearchBegin(t)
  BY <1>2, BeginSearchInv
<1>3. CASE \/ SearchPrefilter \/ SearchStat \/ SearchRoute \/ SearchRestat
           \/ SearchSidecar \/ SearchJson \/ SearchEnd
           \/ \E r \in Repos : SearchIndex(r)
  BY <1>3, ReadsInv
<1>4. CASE SearchReturn \/ UNCHANGED searchVars
  BY <1>4, ReturnInv
<1> QED BY <1>1, <1>2, <1>3, <1>4 DEF SearchNext

-----------------------------------------------------------------------------

(* A search that takes no lock and reads prefilter, route, sidecar and     *)
(* index files from different moments (search_shards) finds every hit that *)
(* was there when it started and that no edit, lost root or forced rebuild *)
(* took away, as long as no writer stops half-way.                         *)
THEOREM NoHitMissed == SearchSpec => []StableHitsFound
<1>1. SearchInv => StableHitsFound
  BY DEF SearchInv, Due, StableHitsFound
<1> QED BY <1>1, SearchInitInv, SearchStep, PTL DEF SearchSpec

(* A search fails to open a shard only when a writer found its root        *)
(* missing, or has dropped it from manifest.json by then.                  *)
THEOREM FailsForCause == SearchSpec => FailsOnPrunedOnly
<1>1. SearchInv /\ [SearchNext]_searchVars =>
        [search.phase = "index" /\ search'.phase = "error" /\ clean =>
           \E r \in search.cands \ files : r \in work.gone \/ r \notin json.shards]_searchVars
  <2> SUFFICES ASSUME SearchInv, SearchNext, search.phase = "index", search'.phase = "error", clean
               PROVE  \E r \in search.cands \ files : r \in work.gone \/ r \notin json.shards
    OBVIOUS
  <2>1. PICK q \in Repos : SearchIndex(q)
    <3>1. search \in [phase : {"none", "prefilter", "stat", "route", "restat", "sidecar", "json",
                               "index", "done", "error"},
                      term : Terms \cup {"none"}, stamp : Nat, due : SUBSET Repos,
                      cands : SUBSET Repos, hits : SUBSET Repos]
      BY DEF SearchInv, SearchType
    <3>2. ~StoreStep
      BY <3>1 DEF StoreStep
    <3>3. ~SearchEnd
      BY <3>1 DEF SearchEnd, Step, At
    <3> QED BY <3>2, <3>3
            DEF SearchNext, SearchBegin, SearchPrefilter, SearchStat, SearchRoute, SearchRestat,
                SearchSidecar, SearchJson, SearchReturn, Step
  <2>2. q \in search.cands /\ q \notin files
    <3>1. ASSUME q \in files PROVE FALSE
      <4>1. search'.phase = search.phase
        BY <2>1, <3>1 DEF SearchIndex, Step, SearchInv, SearchType
      <4> QED BY <4>1
    <3> QED BY <2>1, <3>1 DEF SearchIndex
  <2> QED BY <2>2 DEF SearchInv, CleanInv, OpenOrGone
<1> QED BY <1>1, SearchInitInv, SearchStep, PTL DEF SearchSpec, FailsOnPrunedOnly
=============================================================================
