-------------------------- MODULE WorkerPoolProofs --------------------------
(***************************************************************************)
(* The worker budget is conserved for every number of connections, every   *)
(* configured limit and every mix of request sizes, and no thread sleeps   *)
(* while a worker is free.                                                 *)
(***************************************************************************)
EXTENDS WorkerPool, FiniteSetTheorems, TLAPS

(* The workers one permit of n accounts for.                               *)
Slots(t, n) == {t} \X (1..n)

LEMMA LimitIsPositive == Limit \in Nat /\ Limit >= 1
  BY PoolAssumption DEF Limit, AtLeastOne

(* A permit of n accounts for n workers.                                   *)
LEMMA SlotCount ==
  ASSUME NEW t, NEW n \in Nat
  PROVE  IsFiniteSet(Slots(t, n)) /\ Cardinality(Slots(t, n)) = n
<1>1. IsFiniteSet({t}) /\ Cardinality({t}) = 1
  BY FS_Singleton
<1>2. IsFiniteSet(1..n) /\ Cardinality(1..n) = n
  BY FS_Interval
<1>3. /\ IsFiniteSet({t} \X (1..n))
      /\ Cardinality({t} \X (1..n)) = Cardinality({t}) * Cardinality(1..n)
  BY <1>1, <1>2, FS_Product
<1> QED BY <1>1, <1>2, <1>3 DEF Slots

(* The clamped request is between one worker and the whole pool, whatever  *)
(* number of jobs it comes from.                                           *)
LEMMA RequestInRange ==
  ASSUME NEW jobs \in Nat
  PROVE  Requested(BoundedWorkerCount(jobs)) \in 1..Limit
<1>1. BoundedWorkerCount(jobs) \in Nat
  BY PoolAssumption DEF BoundedWorkerCount, Smaller, AtLeastOne
<1> QED BY <1>1, LimitIsPositive DEF Requested, Smaller, AtLeastOne

(* The set of leased workers is finite.                                    *)
LEMMA LeasedFinite ==
  ASSUME TypeOK PROVE IsFiniteSet(Leased) /\ Cardinality(Leased) \in Nat
<1>1. IsFiniteSet(1..Limit) BY FS_Interval, LimitIsPositive
<1>2. IsFiniteSet(Threads \X (1..Limit)) BY <1>1, FS_Product, PoolAssumption
<1>3. Leased \subseteq Threads \X (1..Limit) BY DEF Leased
<1>4. IsFiniteSet(Leased) BY <1>2, <1>3, FS_Subset
<1> QED BY <1>4, FS_CardinalityType

-----------------------------------------------------------------------------

(* Every variable keeps its type: in particular no step takes more workers *)
(* than are free (grants of server.rs ShardWorkerPool::acquire).           *)
LEMMA TypingStep == TypeOK /\ [Next]_vars => TypeOK'
<1> SUFFICES ASSUME TypeOK, [Next]_vars PROVE TypeOK'
  OBVIOUS
<1> USE LimitIsPositive DEF TypeOK
<1>1. ASSUME NEW t \in Threads, NEW jobs \in 1..MaxJobs, Enter(t, jobs)
      PROVE  TypeOK'
  <2>1. Requested(BoundedWorkerCount(jobs)) \in 0..Limit
    BY RequestInRange, PoolAssumption
  <2> QED BY <1>1, <2>1 DEF Enter
<1>2. ASSUME NEW t \in Threads, Sleep(t) PROVE TypeOK'
  BY <1>2 DEF Sleep
<1>3. ASSUME NEW t \in Threads, Grant(t) PROVE TypeOK'
  <2>1. Granted(t) \in 0..Limit /\ available - Granted(t) \in 0..Limit
    BY DEF Granted, Smaller
  <2> QED BY <1>3, <2>1 DEF Grant
<1>4. ASSUME NEW t \in Threads, SpuriousWake(t) PROVE TypeOK'
  BY <1>4 DEF SpuriousWake
<1>5. ASSUME NEW t \in Threads, Release(t) PROVE TypeOK'
  <2>1. Returned(t) \in 0..Limit
    BY DEF Returned, Smaller
  <2> QED BY <1>5, <2>1 DEF Release
<1>6. CASE UNCHANGED vars
  BY <1>6 DEF vars
<1> QED BY <1>1, <1>2, <1>3, <1>4, <1>5, <1>6 DEF Next

THEOREM Typing == Spec => []TypeOK
<1>1. Init => TypeOK
  BY LimitIsPositive DEF Init, TypeOK
<1> QED BY <1>1, TypingStep, PTL DEF Spec

(* Only a thread that works holds a permit.                                *)
PermitsAtWork == \A t \in Threads : held[t] > 0 => pc[t] = "working"

(* Conservation alone is not inductive: a grant overwrites held[t], so it  *)
(* needs to know that the thread it serves holds nothing yet.              *)
PoolInv == TypeOK /\ PermitsAtWork /\ Conservation

LEMMA PoolInvInit == Init => PoolInv
<1> SUFFICES ASSUME Init PROVE PoolInv
  OBVIOUS
<1>1. TypeOK BY LimitIsPositive DEF Init, TypeOK
<1>2. PermitsAtWork BY DEF Init, PermitsAtWork
<1>3. Leased = {} BY LimitIsPositive DEF Init, Leased
<1>4. Conservation BY <1>3, FS_EmptySet, LimitIsPositive DEF Init, Conservation
<1> QED BY <1>1, <1>2, <1>4 DEF PoolInv

(* Granting n workers to a thread without a permit leases n more.          *)
LEMMA LeaseGrows ==
  ASSUME TypeOK, NEW t \in Threads, NEW n \in 0..Limit, held[t] = 0,
         held' = [held EXCEPT ![t] = n]
  PROVE  Cardinality(Leased') = Cardinality(Leased) + n
<1>1. Leased' = Leased \cup Slots(t, n)
  BY LimitIsPositive DEF Leased, Slots, TypeOK
<1>2. Leased \cap Slots(t, n) = {}
  BY LimitIsPositive DEF Leased, Slots, TypeOK
<1>3. IsFiniteSet(Slots(t, n)) /\ Cardinality(Slots(t, n)) = n
  BY SlotCount, LimitIsPositive
<1>4. IsFiniteSet(Leased) /\ Cardinality(Leased) \in Nat
  BY LeasedFinite
<1>5. Cardinality(Leased \cup Slots(t, n))
        = Cardinality(Leased) + Cardinality(Slots(t, n)) - Cardinality(Leased \cap Slots(t, n))
  BY <1>3, <1>4, FS_Union
<1>6. Cardinality(Leased \cap Slots(t, n)) = 0
  BY <1>2, FS_EmptySet
<1>7. n \in Nat
  BY LimitIsPositive
<1>8. Cardinality(Leased \cup Slots(t, n)) = Cardinality(Leased) + n
  BY <1>3, <1>4, <1>5, <1>6, <1>7
<1> QED BY <1>1, <1>8

(* Dropping a permit returns exactly the workers it leased, and those were *)
(* out: this is why the saturating return in Drop never saturates.         *)
LEMMA LeaseShrinks ==
  ASSUME TypeOK, NEW t \in Threads, held' = [held EXCEPT ![t] = 0]
  PROVE  /\ Cardinality(Leased') = Cardinality(Leased) - held[t]
         /\ held[t] <= Cardinality(Leased)
<1>1. held[t] \in Nat /\ held[t] <= Limit
  BY LimitIsPositive DEF TypeOK
<1>2. Leased' = Leased \ Slots(t, held[t])
  BY LimitIsPositive, <1>1 DEF Leased, Slots, TypeOK
<1>3. Leased \cap Slots(t, held[t]) = Slots(t, held[t])
  BY LimitIsPositive, <1>1 DEF Leased, Slots, TypeOK
<1>4. Cardinality(Slots(t, held[t])) = held[t]
  BY SlotCount, <1>1
<1>5. IsFiniteSet(Leased) BY LeasedFinite
<1>6. Cardinality(Leased \ Slots(t, held[t]))
        = Cardinality(Leased) - Cardinality(Leased \cap Slots(t, held[t]))
  BY <1>5, FS_Difference
<1>7. Cardinality(Slots(t, held[t])) <= Cardinality(Leased)
  BY <1>3, <1>5, FS_Subset
<1> QED BY <1>2, <1>3, <1>4, <1>6, <1>7

LEMMA PoolInvStep == PoolInv /\ [Next]_vars => PoolInv'
<1> SUFFICES ASSUME PoolInv, [Next]_vars PROVE PoolInv'
  OBVIOUS
<1> USE DEF PoolInv
<1>a. TypeOK'
  BY TypingStep
<1>b. Cardinality(Leased) \in Nat
  BY LeasedFinite
<1>1. ASSUME NEW t \in Threads, Grant(t) PROVE PermitsAtWork' /\ Conservation'
  <2>1. held[t] = 0
    BY <1>1 DEF Grant, PermitsAtWork, TypeOK
  <2>2. Granted(t) \in 0..Limit
    BY LimitIsPositive DEF Granted, Smaller, TypeOK
  <2>3. Cardinality(Leased') = Cardinality(Leased) + Granted(t)
    BY <1>1, <2>1, <2>2, LeaseGrows DEF Grant
  <2>4. Conservation'
    BY <1>1, <1>b, <2>2, <2>3, LimitIsPositive DEF Grant, Conservation, TypeOK
  <2>5. PermitsAtWork'
    BY <1>1 DEF Grant, PermitsAtWork, TypeOK
  <2> QED BY <2>4, <2>5
<1>2. ASSUME NEW t \in Threads, Release(t) PROVE PermitsAtWork' /\ Conservation'
  <2>1. Cardinality(Leased') = Cardinality(Leased) - held[t]
    BY <1>2, LeaseShrinks DEF Release
  <2>2. held[t] <= Cardinality(Leased)
    BY <1>2, LeaseShrinks DEF Release
  <2>3. held[t] \in Nat
    BY LimitIsPositive DEF TypeOK
  <2>4. available' = available + held[t]
    BY <1>2, <1>b, <2>2, <2>3, LimitIsPositive
       DEF Release, Returned, Smaller, Conservation, TypeOK
  <2>5. Conservation'
    BY <1>b, <2>1, <2>3, <2>4, LimitIsPositive DEF Conservation, TypeOK
  <2>6. PermitsAtWork'
    BY <1>2 DEF Release, Notified, PermitsAtWork, TypeOK
  <2> QED BY <2>5, <2>6
<1>3. ASSUME UNCHANGED <<available, held>>,
             \A u \in Threads : pc[u] = "working" => pc'[u] = "working"
      PROVE  PermitsAtWork' /\ Conservation'
  <2>1. Leased' = Leased BY <1>3 DEF Leased
  <2> QED BY <1>3, <2>1 DEF PermitsAtWork, Conservation
<1>4. ASSUME NEW t \in Threads,
             (\E jobs \in 1..MaxJobs : Enter(t, jobs)) \/ Sleep(t) \/ SpuriousWake(t)
      PROVE  PermitsAtWork' /\ Conservation'
  BY <1>3, <1>4 DEF Enter, Sleep, SpuriousWake, TypeOK
<1>5. ASSUME UNCHANGED vars PROVE PermitsAtWork' /\ Conservation'
  BY <1>3, <1>5 DEF vars
<1> QED BY <1>a, <1>1, <1>2, <1>4, <1>5 DEF Next

(* The number of workers out and the number of workers free always add up  *)
(* to the limit, so a daemon never runs more shard workers than its cap    *)
(* (ShardWorkerPool, docs/shared-daemon.md: the daemon-wide fanout cap).   *)
THEOREM WorkersConserved == Spec => []Conservation
<1>1. PoolInv => Conservation
  BY DEF PoolInv
<1> QED BY <1>1, PoolInvInit, PoolInvStep, PTL DEF Spec

(* Drop's saturating return never saturates: what a permit gives back      *)
(* always fits under the limit, so min(limit) hides no double return.      *)
ReturnFits == \A t \in Threads : available + held[t] <= Limit

THEOREM ReturnNeverSaturates == Spec => []ReturnFits
<1>1. PoolInv => ReturnFits
  <2> SUFFICES ASSUME PoolInv, NEW t \in Threads PROVE available + held[t] <= Limit
    BY DEF ReturnFits
  <2>1. held[t] \in Nat /\ held[t] <= Limit
    BY LimitIsPositive DEF PoolInv, TypeOK
  <2>2. Slots(t, held[t]) \subseteq Leased
    BY <2>1, LimitIsPositive DEF Slots, Leased
  <2>3. IsFiniteSet(Leased) /\ Cardinality(Leased) \in Nat
    BY LeasedFinite DEF PoolInv
  <2>4. Cardinality(Slots(t, held[t])) <= Cardinality(Leased)
    BY <2>2, <2>3, FS_Subset
  <2>5. Cardinality(Slots(t, held[t])) = held[t]
    BY <2>1, SlotCount
  <2>6. held[t] <= Cardinality(Leased)
    BY <2>4, <2>5
  <2> QED BY <2>1, <2>3, <2>6, LimitIsPositive DEF PoolInv, Conservation, TypeOK
<1> QED BY <1>1, PoolInvInit, PoolInvStep, PTL DEF Spec

-----------------------------------------------------------------------------

(* No thread sleeps while a worker is free: permits of different sizes are *)
(* returned whole, split up among several requests, and no wake-up is lost *)
(* (ShardWorkerPool::acquire and Drop for ShardWorkerPermit).              *)
THEOREM NoWakeupLost == Spec => []NoLostWakeup
<1>1. Init => NoLostWakeup
  BY DEF Init, NoLostWakeup
<1>2. TypeOK /\ NoLostWakeup /\ [Next]_vars => NoLostWakeup'
  <2> SUFFICES ASSUME TypeOK, NoLostWakeup, [Next]_vars PROVE NoLostWakeup'
    OBVIOUS
  <2> USE DEF NoLostWakeup, TypeOK
  <2>1. ASSUME NEW t \in Threads, NEW jobs \in 1..MaxJobs, Enter(t, jobs)
        PROVE  NoLostWakeup'
    BY <2>1 DEF Enter
  <2>2. ASSUME NEW t \in Threads, Sleep(t) PROVE NoLostWakeup'
    BY <2>2 DEF Sleep
  <2>3. ASSUME NEW t \in Threads, Grant(t) PROVE NoLostWakeup'
    BY <2>3 DEF Grant
  <2>4. ASSUME NEW t \in Threads, SpuriousWake(t) PROVE NoLostWakeup'
    BY <2>4 DEF SpuriousWake
  <2>5. ASSUME NEW t \in Threads, Release(t) PROVE NoLostWakeup'
    BY <2>5 DEF Release, Notified
  <2>6. CASE UNCHANGED vars
    BY <2>6 DEF vars
  <2> QED BY <2>1, <2>2, <2>3, <2>4, <2>5, <2>6 DEF Next
<1> QED BY <1>1, <1>2, Typing, PTL DEF Spec
=============================================================================
