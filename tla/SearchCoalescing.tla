-------------------------- MODULE SearchCoalescing --------------------------
(***************************************************************************)
(* How the daemon answers many equal shard searches with one (server.rs,   *)
(* coalesced_search_shards_cached_core): a request first looks into the    *)
(* cache of completed searches; then it joins a search for the same key    *)
(* that is running, or runs it itself, hands the result to those who       *)
(* joined, stores it, and takes its entry out of the in-flight map.        *)
(*                                                                         *)
(* A refresh changes the directory and then the caches.  refresh_shards    *)
(* clears the completed searches and, last, moves the epoch that is part   *)
(* of every key; refresh_index on one shard only drops the entries that    *)
(* the shard may have contributed to.                                      *)
(*                                                                         *)
(* One query with one set of filters on one directory: the keys differ in  *)
(* the limit and the epoch.  What a search reads of the directory is the   *)
(* version it has at one moment while the search runs.                     *)
(***************************************************************************)
EXTENDS Naturals, FiniteSets

CONSTANTS
  Clients,      (* connection threads that search                          *)
  Refreshers,   (* connection threads that refresh                         *)
  Tools,        (* the refresh tools in use: "refresh_shards", "refresh_index" *)
  Announcing,   (* those whose return promises that the caches are fresh   *)
  Limits,       (* result limits that requests ask for                     *)
  MaxCompleted, (* MAX_COMPLETED_SHARD_WORK_CACHE                          *)
  MaxVersion    (* bound: how many versions the directory has              *)

ASSUME CoalescingAssumption ==
  /\ Limits \subseteq Nat
  /\ Tools \subseteq {"refresh_shards", "refresh_index"}
  /\ Announcing \subseteq Tools
  /\ MaxCompleted \in Nat \ {0}
  /\ MaxVersion \in Nat

VARIABLES
  version,    (* the content of the shard directory                        *)
  promised,   (* the newest version an Announcing refresh returned with    *)
  epoch,      (* completed_shard_cache_epoch                               *)
  completed,  (* completed_shard_searches: [key, version]                  *)
  inflight,   (* inflight_shard_searches: [key, leader, answer]            *)
  pc,         (* what each client does                                     *)
  key,        (* the ShardSearchKey of its request: [limit, epoch]         *)
  answer,     (* what it will answer: [status, version, limit]             *)
  leader,     (* whose search a follower waits for                         *)
  since,      (* promised, when its request came in                        *)
  refresh     (* what each refresher does: [step, wrote]                   *)

client == <<pc, key, answer, leader, since>>
vars == <<version, promised, epoch, completed, inflight, client, refresh>>

Pending == [status |-> "pending", version |-> 0, limit |-> 0]
Failure == [status |-> "error", version |-> 0, limit |-> 0]
Found(v, limit) == [status |-> "ok", version |-> v, limit |-> limit]

Init ==
  /\ version = 1 /\ promised = 1 /\ epoch = 1
  /\ completed = {} /\ inflight = {}
  /\ pc = [c \in Clients |-> "idle"]
  /\ key = [c \in Clients |-> [limit |-> 0, epoch |-> 0]]
  /\ answer = [c \in Clients |-> Pending]
  /\ leader = [c \in Clients |-> c]
  /\ since = [c \in Clients |-> 0]
  /\ refresh = [w \in Refreshers |-> [step |-> "idle", wrote |-> 0]]

Goto(c, from, to) == pc[c] = from /\ pc' = [pc EXCEPT ![c] = to]

-----------------------------------------------------------------------------
(* A search request                                                        *)

Begin(c, limit) ==
  /\ Goto(c, "idle", "lookup")
  /\ key' = [key EXCEPT ![c] = [limit |-> limit, epoch |-> epoch]]
  /\ since' = [since EXCEPT ![c] = promised]
  /\ UNCHANGED <<version, promised, epoch, completed, inflight, answer, leader, refresh>>

(* shard_search_key_can_serve_limit                                        *)
CanServeFewer(have, want) ==                \* defect: the comparison reversed
  have.limit <= want.limit /\ have.epoch = want.epoch
CanServe(have, want) ==
  have.limit >= want.limit /\ have.epoch = want.epoch

Serving(c) == {e \in completed : CanServe(e.key, key[c])}

(* cached_completed_shard_search: the entry of that key, else of the       *)
(* smallest limit that covers it.                                          *)
Hit(c) ==
  \E e \in Serving(c) :
    /\ \A other \in Serving(c) : e.key.limit <= other.key.limit
    /\ Goto(c, "lookup", "answered")
    /\ answer' = [answer EXCEPT ![c] = Found(e.version, e.key.limit)]
    /\ UNCHANGED <<version, promised, epoch, completed, inflight, key, leader, since, refresh>>

Miss(c) ==
  /\ Serving(c) = {}
  /\ Goto(c, "lookup", "join")
  /\ UNCHANGED <<version, promised, epoch, completed, inflight, key, answer, leader, since, refresh>>

NeverRunning(k) == {}                       \* defect: nobody is joined
Running(k) == {e \in inflight : e.key = k}

Follow(c) ==
  \E e \in Running(key[c]) :
    /\ Goto(c, "join", "joined")
    /\ leader' = [leader EXCEPT ![c] = e.leader]
    /\ answer' = [answer EXCEPT ![c] = e.answer]
    /\ UNCHANGED <<version, promised, epoch, completed, inflight, key, since, refresh>>

Lead(c) ==
  /\ Running(key[c]) = {}
  /\ Goto(c, "join", "compute")
  /\ inflight' = inflight \cup {[key |-> key[c], leader |-> c, answer |-> Pending]}
  /\ UNCHANGED <<version, promised, epoch, completed, key, answer, leader, since, refresh>>

(* InFlightWork::wait: returns what is there or sleeps.                    *)
Wait(c) ==
  /\ Goto(c, "joined", IF answer[c] = Pending THEN "asleep" ELSE "answered")
  /\ UNCHANGED <<version, promised, epoch, completed, inflight, key, answer, leader, since, refresh>>

(* search_shards_cached_core                                               *)
Compute(c) ==
  /\ Goto(c, "compute", "finish")
  /\ \E result \in {Found(version, key[c].limit), Failure} :
       answer' = [answer EXCEPT ![c] = result]
  /\ UNCHANGED <<version, promised, epoch, completed, inflight, key, leader, since, refresh>>

(* InFlightWork::finish: the entry is complete for good, so those who hold *)
(* it have their answer; those asleep are notified.                        *)
Followers(c) == {f \in Clients : pc[f] \in {"joined", "asleep"} /\ leader[f] = c
                                   /\ key[f] = key[c]}
NotifiedNobody(c) == {}                     \* defect: no notify_all
Notified(c) == {f \in Followers(c) : pc[f] = "asleep"}

Finish(c) ==
  /\ pc[c] = "finish"
  /\ inflight' = {IF e.leader = c THEN [e EXCEPT !.answer = answer[c]] ELSE e : e \in inflight}
  /\ answer' = [f \in Clients |-> IF f \in Followers(c) /\ answer[f] = Pending
                                    THEN answer[c] ELSE answer[f]]
  /\ pc' = [f \in Clients |->
              IF f = c THEN IF answer[c].status = "ok" THEN "store" ELSE "remove"
              ELSE IF f \in Notified(c) THEN "answered"
              ELSE pc[f]]
  /\ UNCHANGED <<version, promised, epoch, completed, key, leader, since, refresh>>

(* store_completed_shard_search and evict_oldest_completed_work.  Clients  *)
(* take their access number before the lock, so any entry may be oldest.   *)
Unbounded(cache) == {cache}                 \* defect: nothing is evicted
Evicted(cache) ==
  {kept \in SUBSET cache :
     Cardinality(kept) = IF Cardinality(cache) > MaxCompleted THEN MaxCompleted
                                                              ELSE Cardinality(cache)}

Store(c) ==
  /\ Goto(c, "store", "remove")
  /\ completed' \in Evicted({e \in completed : e.key # key[c]}
                              \cup {[key |-> key[c], version |-> answer[c].version]})
  /\ UNCHANGED <<version, promised, epoch, inflight, key, answer, leader, since, refresh>>

RemovedNothing(c) == inflight               \* defect: the entry stays
Removed(c) == {e \in inflight : e.leader # c}

Remove(c) ==
  /\ Goto(c, "remove", "answered")
  /\ inflight' = Removed(c)
  /\ UNCHANGED <<version, promised, epoch, completed, key, answer, leader, since, refresh>>

Return(c) ==
  /\ Goto(c, "answered", "idle")
  /\ answer' = [answer EXCEPT ![c] = Pending]
  /\ leader' = [leader EXCEPT ![c] = c]
  /\ key' = [key EXCEPT ![c] = [limit |-> 0, epoch |-> 0]]
  /\ since' = [since EXCEPT ![c] = 0]
  /\ UNCHANGED <<version, promised, epoch, completed, inflight, refresh>>

-----------------------------------------------------------------------------
(* A refresh request                                                       *)

(* The directory is written before any cache is touched.                   *)
Write(w, tool) ==
  /\ refresh[w].step = "idle"
  /\ version < MaxVersion
  /\ version' = version + 1
  /\ refresh' = [refresh EXCEPT ![w] = [step |-> tool, wrote |-> version + 1]]
  /\ UNCHANGED <<promised, epoch, completed, inflight, client>>

(* invalidate_completed_shard_work_caches, its first locks.                *)
Clear(w) ==
  /\ refresh[w].step = "refresh_shards"
  /\ completed' = {}
  /\ refresh' = [refresh EXCEPT ![w].step = "bump"]
  /\ UNCHANGED <<version, promised, epoch, inflight, client>>

Promised(w, tool) ==
  IF tool \in Announcing /\ refresh[w].wrote > promised THEN refresh[w].wrote ELSE promised

(* ... and its last line; the refresh returns.                             *)
SameEpoch == epoch                          \* defect: no fetch_add
NextEpoch == epoch + 1

Bump(w) ==
  /\ refresh[w].step = "bump"
  /\ epoch' = NextEpoch
  /\ promised' = Promised(w, "refresh_shards")
  /\ refresh' = [refresh EXCEPT ![w] = [step |-> "idle", wrote |-> 0]]
  /\ UNCHANGED <<version, completed, inflight, client>>

(* invalidate_completed_shard_work_for_shard: the entries of that shard    *)
(* are dropped and the refresh returns.                                    *)
Retain(w) ==
  /\ refresh[w].step = "refresh_index"
  /\ completed' = {}
  /\ promised' = Promised(w, "refresh_index")
  /\ refresh' = [refresh EXCEPT ![w] = [step |-> "idle", wrote |-> 0]]
  /\ UNCHANGED <<version, epoch, inflight, client>>

Searching(c) ==
  \/ Hit(c) \/ Miss(c) \/ Follow(c) \/ Lead(c) \/ Wait(c)
  \/ Compute(c) \/ Finish(c) \/ Store(c) \/ Remove(c)

Next ==
  \/ \E c \in Clients :
       \/ \E limit \in Limits : Begin(c, limit)
       \/ Searching(c)
       \/ Return(c)
  \/ \E w \in Refreshers :
       \/ \E tool \in Tools : Write(w, tool)
       \/ Clear(w) \/ Bump(w) \/ Retain(w)

(* A thread that runs keeps running; a search returns or fails.            *)
Fairness == \A c \in Clients : WF_vars(Searching(c))

Spec == Init /\ [][Next]_vars /\ Fairness

-----------------------------------------------------------------------------

Keys == [limit : Nat, epoch : Nat]
Answers == [status : {"pending", "error", "ok"}, version : Nat, limit : Nat]

(* Each variable has its type, and the cache of completed searches is not  *)
(* larger than it may be whenever its lock is free.                        *)
TypeOK ==
  /\ version \in Nat /\ promised \in Nat /\ epoch \in Nat
  /\ completed \subseteq [key : Keys, version : Nat]
  /\ IsFiniteSet(completed) /\ Cardinality(completed) <= MaxCompleted
  /\ inflight \subseteq [key : Keys, leader : Clients, answer : Answers]
  /\ pc \in [Clients -> {"idle", "lookup", "join", "joined", "asleep", "compute",
                         "finish", "store", "remove", "answered"}]
  /\ key \in [Clients -> Keys]
  /\ answer \in [Clients -> Answers]
  /\ leader \in [Clients -> Clients]
  /\ since \in [Clients -> Nat]
  /\ refresh \in [Refreshers -> [step : {"idle", "bump"} \cup Tools, wrote : Nat]]

(* A search that comes in after an announcing refresh returned is answered *)
(* from what that refresh wrote or something newer, whether the cache, a   *)
(* search it joined or its own answers it; also when a search that began   *)
(* before the refresh stores its result after the cache was cleared.       *)
FreshAnswers ==
  \A c \in Clients :
    pc[c] = "answered" /\ answer[c].status = "ok" => answer[c].version >= since[c]

(* The answer has at least as many results as were asked for, even when it *)
(* is the answer to another request.                                       *)
LimitServed ==
  \A c \in Clients :
    pc[c] = "answered" /\ answer[c].status = "ok" => answer[c].limit >= key[c].limit

(* The in-flight map holds one entry per search that runs, under its key,  *)
(* and no two searches run for one key: nobody joins a search whose leader *)
(* is gone, and no entry stays behind that would hang those who join it.   *)
Leading == {c \in Clients : pc[c] \in {"compute", "finish", "store", "remove"}}
InFlightExact ==
  /\ {<<e.key, e.leader>> : e \in inflight} = {<<key[c], c>> : c \in Leading}
  /\ \A c, d \in Leading : key[c] = key[d] => c = d

(* Everyone who joined a search is answered, also when it fails.           *)
FollowersAnswered ==
  \A c \in Clients : (pc[c] \in {"joined", "asleep"}) ~> (pc[c] = "answered")
=============================================================================
