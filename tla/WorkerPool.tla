----------------------------- MODULE WorkerPool -----------------------------
(***************************************************************************)
(* The daemon-wide budget of shard workers (server.rs, ShardWorkerPool).   *)
(*                                                                         *)
(* Every request that fans out over shards takes a permit for some number  *)
(* of workers before it spawns them and gives the permit back when the     *)
(* fan-out is over.  A request that finds no worker free sleeps on a       *)
(* condition variable; a returned permit notifies every sleeper.  A        *)
(* sleeper may also wake up spuriously, as condition variables may.        *)
(***************************************************************************)
EXTENDS Naturals, FiniteSets

CONSTANTS
  Threads,         (* connection threads of the daemon                     *)
  ConfiguredLimit, (* the daemon-wide cap as configured, 0 included         *)
  MaxJobs,         (* bound: the most shard jobs a request fans out over    *)
  Parallelism,     (* available_parallelism() of the machine                *)
  MaxWorkers       (* the per-query cap, configured_max_shard_workers()     *)

ASSUME PoolAssumption ==
  /\ IsFiniteSet(Threads)
  /\ ConfiguredLimit \in Nat
  /\ MaxJobs \in Nat
  /\ Parallelism \in Nat
  /\ MaxWorkers \in Nat

VARIABLES
  available,  (* workers nobody holds                                      *)
  held,       (* held[t]: the count of t's permit, 0 when it has none      *)
  wants,      (* wants[t]: the clamped request t is waiting with           *)
  pc          (* "idle", "entering" (owns or contends for the mutex),      *)
              (* "asleep" (in Condvar::wait), "working" (holds a permit)   *)

vars == <<available, held, wants, pc>>

AtLeastOne(n) == IF n = 0 THEN 1 ELSE n
Smaller(a, b) == IF a <= b THEN a ELSE b

(* ShardWorkerPool::new: a pool never has fewer than one worker.           *)
Limit == AtLeastOne(ConfiguredLimit)

(* bounded_shard_worker_count_for: what a request with that many jobs asks *)
BoundedWorkerCount(jobs) ==
  IF jobs = 0
    THEN 0
    ELSE Smaller(Smaller(jobs, AtLeastOne(Parallelism)), AtLeastOne(MaxWorkers))

(* The first line of ShardWorkerPool::acquire.                             *)
Requested(n) == Smaller(AtLeastOne(n), Limit)

-----------------------------------------------------------------------------

Init ==
  /\ available = Limit
  /\ held  = [t \in Threads |-> 0]
  /\ wants = [t \in Threads |-> 0]
  /\ pc    = [t \in Threads |-> "idle"]

(* A fan-out over no job returns before it asks for a permit.              *)
Enter(t, jobs) ==
  /\ pc[t] = "idle"
  /\ jobs > 0
  /\ wants' = [wants EXCEPT ![t] = Requested(BoundedWorkerCount(jobs))]
  /\ pc' = [pc EXCEPT ![t] = "entering"]
  /\ UNCHANGED <<available, held>>

(* while *available == 0: the check and the wait are one step, the mutex   *)
(* is released by going to sleep.                                          *)
Sleep(t) ==
  /\ pc[t] = "entering"
  /\ available = 0
  /\ pc' = [pc EXCEPT ![t] = "asleep"]
  /\ UNCHANGED <<available, held, wants>>

GrantedUnclamped(t) == wants[t]                            \* defect: no min
Granted(t) == Smaller(wants[t], available)

Grant(t) ==
  /\ pc[t] = "entering"
  /\ available > 0
  /\ available' = available - Granted(t)
  /\ held' = [held EXCEPT ![t] = Granted(t)]
  /\ wants' = [wants EXCEPT ![t] = 0]
  /\ pc' = [pc EXCEPT ![t] = "working"]

SpuriousWake(t) ==
  /\ pc[t] = "asleep"
  /\ pc' = [pc EXCEPT ![t] = "entering"]
  /\ UNCHANGED <<available, held, wants>>

(* Drop for ShardWorkerPermit: the saturating return and notify_all.       *)
ReturnedToFull(t) == Limit                    \* defect: resets the counter
ReturnedNothing(t) == available               \* defect: the permit leaks
Returned(t) == Smaller(available + held[t], Limit)

NotifiedNobody == {}                          \* defect: no notify_all
Notified == {u \in Threads : pc[u] = "asleep"}

Release(t) ==
  /\ pc[t] = "working"
  /\ available' = Returned(t)
  /\ held' = [held EXCEPT ![t] = 0]
  /\ pc' = [u \in Threads |-> IF u = t THEN "idle"
                              ELSE IF u \in Notified THEN "entering"
                              ELSE pc[u]]
  /\ UNCHANGED wants

Next ==
  \E t \in Threads :
    \/ \E jobs \in 1..MaxJobs : Enter(t, jobs)
    \/ Sleep(t)
    \/ Grant(t)
    \/ SpuriousWake(t)
    \/ Release(t)

(* A thread that runs keeps running: it comes back from the fan-out (every *)
(* job batch is a bounded loop) and, woken, it takes the mutex again.  No  *)
(* fairness on Enter (clients may stop) and none on spurious wake-ups.     *)
Fairness ==
  \A t \in Threads : WF_vars(Release(t)) /\ WF_vars(Grant(t)) /\ WF_vars(Sleep(t))

Spec == Init /\ [][Next]_vars /\ Fairness

-----------------------------------------------------------------------------

(* Each variable has its type.                                             *)
TypeOK ==
  /\ available \in 0..Limit
  /\ held  \in [Threads -> 0..Limit]
  /\ wants \in [Threads -> 0..Limit]
  /\ pc    \in [Threads -> {"idle", "entering", "asleep", "working"}]

(* The workers out on permits, one pair per worker.                        *)
Leased == {s \in Threads \X (1..Limit) : s[2] <= held[s[1]]}

(* Workers are neither created nor lost: those on permits and those in the *)
(* pool always add up to the limit, so the saturating return in Drop never *)
(* hides a worker returned twice, and never more than Limit workers run.   *)
Conservation == Cardinality(Leased) + available = Limit

(* No lost wake-up: while a thread sleeps in acquire there is no worker    *)
(* free, however permits of different sizes were returned and split up.    *)
NoLostWakeup == (\E t \in Threads : pc[t] = "asleep") => available = 0

(* Every sleeper is woken in the end: the wait has no timeout, so a permit *)
(* that was not returned, or returned without a notification, would hang   *)
(* the request for good.                                                   *)
SleepersWoken ==
  \A t \in Threads : (pc[t] = "asleep") ~> (pc[t] # "asleep")

(* ... and the free workers are taken up again: when some thread waits for *)
(* a worker, some thread gets one.                                         *)
Waiting == \E t \in Threads : pc[t] \in {"entering", "asleep"}
WaitersServed == Waiting ~> (\E t \in Threads : pc[t] = "working")

=============================================================================
