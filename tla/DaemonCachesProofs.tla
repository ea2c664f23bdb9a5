------------------------- MODULE DaemonCachesProofs -------------------------
(***************************************************************************)
(* What the requests of a daemon share in memory, for every number of      *)
(* threads and indexes, every limit and every sequence of requests: the    *)
(* order of use lists what is ready, nobody waits for a thread that is     *)
(* gone, and few indexes stay that were not pinned.  Then how new answers  *)
(* are: what is served is as new as its file was, unless it was torn.      *)
(* This goes back to what single steps do to the record of a thread.  And  *)
(* last, by way of the start of the daemon, that warm indexes stay.        *)
(***************************************************************************)
EXTENDS DaemonCaches, FiniteSetTheorems, SequenceTheorems, TLAPS

-----------------------------------------------------------------------------
(* Without, a recursive function: what it leaves of a sequence             *)

(* A set of natural numbers has a least member.                            *)
LEMMA Least ==
  ASSUME NEW A, A \subseteq Nat, A # {}
  PROVE  \E m \in A : \A n \in A : m <= n
<1> DEFINE Up(n) == 1 .. n
           Ups == {Up(n) : n \in A}
<1>1. \A n \in A : IsFiniteSet(Up(n)) /\ Up(n) \subseteq Nat
  BY FS_Interval
<1>2. Ups \subseteq FiniteSubsetsOf(Nat) /\ Ups # {}
  BY <1>1 DEF FiniteSubsetsOf
<1>3. PICK U \in Ups : \A V \in Ups : ~(<<V, U>> \in StrictSubsetOrdering(Nat))
  <2> HIDE DEF Ups
  <2> QED BY <1>2, FS_StrictSubsetOrderingWellFounded, WFMin
<1>4. PICK m \in A : U = Up(m)
  OBVIOUS
<1>5. ASSUME NEW n \in A, n < m PROVE FALSE
  <2>1. Up(n) \subseteq Up(m) /\ m \in Up(m) /\ m \notin Up(n)
    BY <1>5
  <2>2. <<Up(n), Up(m)>> \in StrictSubsetOrdering(Nat)
    BY <2>1, <1>1 DEF StrictSubsetOrdering
  <2> QED BY <2>2, <1>3, <1>4
<1> QED BY <1>5

(* Induction, for a set instead of a predicate.                            *)
LEMMA Induct ==
  ASSUME NEW A, 0 \in A, \A n \in Nat : n \in A => n + 1 \in A
  PROVE  Nat \subseteq A
<1> SUFFICES ASSUME Nat \ A # {} PROVE FALSE
  OBVIOUS
<1>1. PICK m \in Nat \ A : \A n \in Nat \ A : m <= n
  BY Least
<1>2. m # 0 /\ m - 1 \in Nat
  OBVIOUS
<1>3. m - 1 \in A /\ (m - 1) + 1 = m
  BY <1>1, <1>2
<1> QED BY <1>1, <1>2, <1>3

(* kept is the function that Without defines, up to n.                     *)
Shortens(kept, s, gone, n) ==
  kept = [i \in 0 .. n |->
            IF i = 0 THEN << >>
            ELSE IF s[i] \in gone THEN kept[i - 1] ELSE Append(kept[i - 1], s[i])]

LEMMA KeptExists ==
  ASSUME NEW s, NEW gone PROVE \A n \in Nat : \E kept : Shortens(kept, s, gone, n)
<1> DEFINE Defined == {n \in Nat : \E kept : Shortens(kept, s, gone, n)}
<1>1. 0 \in Defined
  <2>1. Shortens([i \in 0 .. 0 |-> << >>], s, gone, 0)
    BY DEF Shortens
  <2> QED BY <2>1
<1>2. ASSUME NEW n \in Nat, n \in Defined PROVE n + 1 \in Defined
  <2>1. PICK kept : Shortens(kept, s, gone, n)
    BY <1>2
  <2> DEFINE last == IF s[n + 1] \in gone THEN kept[n] ELSE Append(kept[n], s[n + 1])
             more == [i \in 0 .. n + 1 |-> IF i = n + 1 THEN last ELSE kept[i]]
  <2>2. \A i \in 0 .. n : more[i] = kept[i]
    OBVIOUS
  <2>3. \A i \in 0 .. n :
          kept[i] = IF i = 0 THEN << >>
                    ELSE IF s[i] \in gone THEN kept[i - 1] ELSE Append(kept[i - 1], s[i])
    BY <2>1 DEF Shortens
  <2>4. more[n + 1] = IF s[n + 1] \in gone THEN more[n] ELSE Append(more[n], s[n + 1])
    BY <2>2
  <2>5. \A i \in 0 .. n + 1 :
          more[i] = IF i = 0 THEN << >>
                    ELSE IF s[i] \in gone THEN more[i - 1] ELSE Append(more[i - 1], s[i])
    <3> HIDE DEF more
    <3>1. ASSUME NEW i \in 0 .. n, i # 0 PROVE i - 1 \in 0 .. n
      BY <3>1
    <3> QED BY <2>2, <2>3, <2>4, <3>1
  <2>6. Shortens(more, s, gone, n + 1)
    BY <2>5 DEF Shortens
  <2> QED BY <2>6
<1>3. Nat \subseteq Defined
  <2> HIDE DEF Defined
  <2> QED BY <1>1, <1>2, Induct
<1> QED BY <1>3

(* s lists the members of S, each once.                                    *)
Lists(s, S) ==
  /\ s \in Seq(Keys)
  /\ {s[i] : i \in 1 .. Len(s)} = S
  /\ \A i, j \in 1 .. Len(s) : s[i] = s[j] => i = j

LEMMA AppendLists ==
  ASSUME NEW s, NEW S, Lists(s, S), NEW k \in Keys, k \notin S
  PROVE  Lists(Append(s, k), S \cup {k})
<1> DEFINE a == Append(s, k)
<1>1. /\ a \in Seq(Keys) /\ Len(a) = Len(s) + 1 /\ Len(s) \in Nat
      /\ \A i \in 1 .. Len(s) : a[i] = s[i]
      /\ a[Len(s) + 1] = k
  BY AppendProperties, LenProperties DEF Lists
<1>2. \A i \in 1 .. Len(s) : s[i] \in S
  BY DEF Lists
<1>3. {a[i] : i \in 1 .. Len(a)} = S \cup {k}
  <2> HIDE DEF a
  <2>1. \A i \in 1 .. Len(a) : a[i] \in S \cup {k}
    BY <1>1, <1>2
  <2>2. \A x \in S : \E i \in 1 .. Len(a) : a[i] = x
    BY <1>1 DEF Lists
  <2>3. \E i \in 1 .. Len(a) : a[i] = k
    BY <1>1
  <2> QED BY <2>1, <2>2, <2>3
<1>4. \A i, j \in 1 .. Len(a) : a[i] = a[j] => i = j
  <2> HIDE DEF a
  <2> QED BY <1>1, <1>2 DEF Lists
<1> QED BY <1>1, <1>3, <1>4 DEF Lists

(* Without takes out what is gone, and nothing else.                       *)
LEMMA WithoutLists ==
  ASSUME NEW s, NEW S, Lists(s, S), NEW gone
  PROVE  Lists(Without(s, gone), S \ gone)
<1>0. s \in Seq(Keys) /\ Len(s) \in Nat /\ \A i \in 1 .. Len(s) : s[i] \in Keys
  BY LenProperties, ElementOfSeq DEF Lists
<1> DEFINE kept == CHOOSE kept : Shortens(kept, s, gone, Len(s))
           Seen(n) == {s[i] : i \in 1 .. n}
           Right == {n \in Nat : n <= Len(s) => Lists(kept[n], Seen(n) \ gone)}
<1>1. Without(s, gone) = kept[Len(s)]
  BY DEF Without, Shortens
<1>2. Shortens(kept, s, gone, Len(s))
  BY <1>0, KeptExists
<1> HIDE DEF kept
<1>3. \A n \in 0 .. Len(s) :
        kept[n] = IF n = 0 THEN << >>
                  ELSE IF s[n] \in gone THEN kept[n - 1] ELSE Append(kept[n - 1], s[n])
  BY <1>2 DEF Shortens
<1>4. 0 \in Right
  <2>1. kept[0] = << >> /\ Seen(0) = {}
    BY <1>0, <1>3
  <2>2. Lists(<< >>, {})
    BY EmptySeq DEF Lists
  <2> QED BY <2>1, <2>2
<1>5. ASSUME NEW n \in Nat, n \in Right PROVE n + 1 \in Right
  <2> SUFFICES ASSUME n + 1 <= Len(s) PROVE Lists(kept[n + 1], Seen(n + 1) \ gone)
    OBVIOUS
  <2>1. n + 1 \in 1 .. Len(s) /\ n <= Len(s) /\ (n + 1) - 1 = n /\ n + 1 # 0
    BY <1>0
  <2>2. Lists(kept[n], Seen(n) \ gone)
    BY <1>5, <2>1
  <2>3. Seen(n + 1) = Seen(n) \cup {s[n + 1]}
    OBVIOUS
  <2>4. s[n + 1] \notin Seen(n)
    BY <2>1 DEF Lists
  <2>5. kept[n + 1] = IF s[n + 1] \in gone THEN kept[n] ELSE Append(kept[n], s[n + 1])
    BY <1>3, <2>1
  <2> HIDE DEF Seen
  <2>6. CASE s[n + 1] \in gone
    <3>1. Seen(n + 1) \ gone = Seen(n) \ gone
      BY <2>3, <2>6
    <3> QED BY <2>2, <2>5, <2>6, <3>1
  <2>7. CASE s[n + 1] \notin gone
    <3>1. Seen(n + 1) \ gone = (Seen(n) \ gone) \cup {s[n + 1]}
      BY <2>3, <2>7
    <3>2. s[n + 1] \in Keys /\ s[n + 1] \notin Seen(n) \ gone
      BY <1>0, <2>1, <2>4
    <3>3. Lists(Append(kept[n], s[n + 1]), (Seen(n) \ gone) \cup {s[n + 1]})
      BY <2>2, <3>2, AppendLists
    <3> QED BY <2>5, <2>7, <3>1, <3>3
  <2> QED BY <2>6, <2>7
<1>6. Len(s) \in Right
  <2> HIDE DEF Right
  <2> QED BY <1>0, <1>4, <1>5, Induct
<1>7. Lists(kept[Len(s)], Seen(Len(s)) \ gone)
  BY <1>0, <1>6
<1> QED BY <1>1, <1>7 DEF Lists

(* A list of each member once is as long as the set is large.              *)
LEMMA LengthIsSize ==
  ASSUME NEW s, NEW S, Lists(s, S)
  PROVE  IsFiniteSet(S) /\ Cardinality(S) = Len(s) /\ Len(s) \in Nat
<1>1. Len(s) \in Nat /\ s \in [1 .. Len(s) -> Keys]
  BY LenProperties DEF Lists
<1>2. s \in Bijection(1 .. Len(s), S)
  BY <1>1 DEF Lists, Bijection, Injection, Surjection, IsInjective
<1>3. ExistsBijection(1 .. Len(s), S)
  BY <1>2 DEF ExistsBijection
<1> QED BY <1>1, <1>3, FS_NatBijection, FS_CountingElements

-----------------------------------------------------------------------------
(* Types.  A thread is a record of 13 fields; those that decide nothing    *)
(* but the control need no type.                                           *)

Fields == {"pc", "request", "todo", "key", "mine", "print", "spared", "manifest", "got",
           "current", "wrote", "since", "manifestSince"}

OnKey == {"look", "lock", "invalidate", "load", "ready", "fail", "unmap", "wait",
          "asleep", "evict", "victims", "build", "save", "replace"}

Typed(r) ==
  /\ DOMAIN r = Fields
  /\ r.pc \in OnKey => r.key \in Keys
  /\ r.todo \subseteq DirKeys /\ r.spared \subseteq Keys
  /\ r.mine \in Entries /\ r.manifest \in Manifests
  /\ r.print \in Versions /\ r.got \in Versions /\ r.wrote \in Versions
  /\ r.since \in Versions /\ r.manifestSince \in Versions

ThreadTypes == DOMAIN t = Threads /\ \A c \in Threads : Typed(t[c])

DiskTypes == source \in Versions /\ file \in [Keys -> Versions] /\ manifest \in Versions

MemoryTypes ==
  /\ indexes \in [Keys -> Entries]
  /\ pinned \subseteq Keys /\ promised \subseteq Keys
  /\ cached \in Manifests /\ completed \in Versions
  /\ refreshing \in Threads \cup {None}

InOrder == Lists(recent, {k \in Keys : IsReady(k)})

Types == ThreadTypes /\ DiskTypes /\ MemoryTypes /\ InOrder

LEMMA SmallerType == \A a, b \in Versions : Smaller(a, b) \in Versions
BY DEF Smaller

LEMMA EntryTypes ==
  /\ 0 \in Versions /\ 1 \in Versions /\ Versions \subseteq Nat
  /\ NoEntry \in Entries /\ NoManifest \in Manifests
  /\ \A c \in Threads : Loading(c) \in Entries /\ Failed(c) \in Entries
  /\ \A i, p \in Versions : Ready(i, p) \in Entries
BY CachesAssumption
   DEF NoEntry, NoManifest, Loading, Failed, Ready, Entry, Entries, Versions, Manifests

LEMMA IdleType == Typed(Idle) /\ Typed(Starting)
<1>1. Typed(Idle)
  BY EntryTypes DEF Idle, Typed, Fields, OnKey
<1> QED BY <1>1 DEF Starting, Typed, Fields, OnKey

(* What the eviction takes is among the keys that are ready, and neither   *)
(* its own nor spared.                                                     *)
LEMMA VictimsType ==
  ASSUME Types, NEW c \in Threads
  PROVE  /\ Victims(c) \subseteq {k \in Keys : IsReady(k)} \ ({t[c].key} \cup t[c].spared)
         /\ Lists(Evictable(c), {k \in Keys : IsReady(k)} \ ({t[c].key} \cup t[c].spared))
<1> DEFINE rest == {k \in Keys : IsReady(k)} \ ({t[c].key} \cup t[c].spared)
<1>1. Lists(Evictable(c), rest)
  BY WithoutLists DEF Evictable, Types, InOrder
<1>2. Len(Evictable(c)) \in Nat /\ Len(recent) \in Nat
  BY <1>1, LengthIsSize DEF Types, InOrder
<1>3. \A i \in 1 .. Len(Evictable(c)) : Evictable(c)[i] \in rest
  BY <1>1 DEF Lists
<1>4. 1 .. Smaller(TooMany, Len(Evictable(c))) \subseteq 1 .. Len(Evictable(c))
  BY <1>2, CachesAssumption DEF TooMany, Smaller
<1>5. Victims(c) \subseteq rest
  BY <1>3, <1>4 DEF Victims
<1> QED BY <1>1, <1>5

-----------------------------------------------------------------------------
(* Each thread keeps its type, whatever is done.                           *)

LEMMA PutType ==
  ASSUME ThreadTypes, NEW c \in Threads, NEW r, t' = [t EXCEPT ![c] = r], Typed(r)
  PROVE  ThreadTypes'
BY DEF ThreadTypes

LEMMA PcType ==
  ASSUME ThreadTypes, NEW c \in Threads, NEW pc, t' = [t EXCEPT ![c].pc = pc],
         pc \in OnKey => t[c].key \in Keys
  PROVE  ThreadTypes'
BY DEF ThreadTypes, Typed, Fields

(* Who loads, waits or refreshes knows its index.                          *)
LEMMA KeyKnown ==
  ASSUME Types, NEW c \in Threads, t[c].pc \in OnKey
  PROVE  t[c].key \in Keys /\ file[t[c].key] \in Versions /\ indexes[t[c].key] \in Entries
BY DEF Types, ThreadTypes, Typed, DiskTypes, MemoryTypes

LEMMA ToldType ==
  ASSUME NEW c, NEW threads, DOMAIN threads = Threads, \A d \in Threads : Typed(threads[d]),
         NEW entry \in Entries, t' = Told(c, entry, threads)
  PROVE  ThreadTypes'
<1> SUFFICES ASSUME NEW d \in Threads PROVE Typed(t'[d])
  BY DEF ThreadTypes, Told, Typed
<1> DEFINE r == threads[d]
           pc == Woken(r.pc)
           told == [r EXCEPT !.mine = entry, !.pc = pc]
<1>1. t'[d] = told \/ t'[d] = r
  BY DEF Told
<1>2. Typed(r) /\ (pc \in OnKey => r.pc \in OnKey)
  BY DEF Woken, OnKey
<1>3. Typed(told)
  <2> HIDE DEF pc
  <2> QED BY <1>2 DEF Typed, Fields
<1> QED BY <1>1, <1>2, <1>3

LEMMA OutsideThreads ==
  ASSUME Types, Edit \/ OtherProcess \/ (\E k \in DeleteKeys : Delete(k)) PROVE ThreadTypes'
<1>1. CASE UNCHANGED t
  BY <1>1 DEF Types, ThreadTypes
<1>2. CASE \E k \in DeleteKeys : Delete(k)
  <2>1. PICK k : t' = Lowered(k, 0)
    BY <1>2 DEF Delete
  <2> QED BY <2>1, EntryTypes, SmallerType DEF Lowered, Types, ThreadTypes, Typed, Fields
<1> QED BY <1>1, <1>2 DEF Edit, OtherProcess

LEMMA BeginThreads ==
  ASSUME Types, NEW c \in Threads, NEW request, NEW pc, Begin(c, request, pc), pc \notin OnKey
  PROVE  ThreadTypes'
<1> DEFINE r == [Idle EXCEPT !.pc = pc, !.request = request,
                             !.since = IF request = "fresh" /\ Dated THEN source ELSE 0]
<1>1. t' = [t EXCEPT ![c] = r]
  BY DEF Begin
<1>2. Typed(r)
  BY EntryTypes DEF Types, DiskTypes, Idle, Typed, Fields
<1> HIDE DEF r
<1> QED BY <1>1, <1>2, PutType DEF Types

LEMMA BeginOnThreads ==
  ASSUME Types, NEW c \in Threads, NEW request, NEW pc, NEW k \in Keys,
         BeginOn(c, request, pc, k)
  PROVE  ThreadTypes'
<1> DEFINE r == [Idle EXCEPT !.pc = pc, !.request = request, !.key = k,
                             !.since = IF request = "read" THEN file[k] ELSE 0]
<1>1. t' = [t EXCEPT ![c] = r]
  BY DEF BeginOn
<1>2. Typed(r)
  BY EntryTypes DEF Types, DiskTypes, Idle, Typed, Fields
<1> HIDE DEF r
<1> QED BY <1>1, <1>2, PutType DEF Types

LEMMA CheckedType ==
  ASSUME NEW c \in Threads, Typed(t[c]), NEW verdict, NEW next, next \notin OnKey
  PROVE  Typed(Checked(c, verdict, next))
BY IdleType DEF Checked, Typed, Fields, OnKey

LEMMA RefreshThreads ==
  ASSUME Types, NEW c \in Threads,
         \/ Return(c) \/ Check(c) \/ Acquire(c) \/ Recheck(c) \/ SaveIndexes(c) \/ SaveManifest(c)
         \/ ClearIndexes(c) \/ ClearPins(c) \/ ClearManifests(c) \/ NextEpochStarts(c)
  PROVE  ThreadTypes'
<1>t. ThreadTypes /\ Typed(t[c])
  BY DEF Types, ThreadTypes
<1>1. CASE Return(c)
  BY <1>1, <1>t, IdleType, PutType DEF Return
<1>2. CASE Check(c)
  <2>1. PICK verdict \in Verdicts : t' = [t EXCEPT ![c] = Checked(c, verdict, "acquire")]
    BY <1>2 DEF Check
  <2>2. Typed(Checked(c, verdict, "acquire"))
    BY <1>t, CheckedType DEF OnKey
  <2> QED BY <1>t, <2>1, <2>2, PutType
<1>3. CASE Acquire(c)
  BY <1>3, <1>t, PcType DEF Acquire, OnKey
<1>4. CASE Recheck(c)
  <2>1. PICK verdict \in Verdicts : t' = [t EXCEPT ![c] = Checked(c, verdict, "save indexes")]
    BY <1>4 DEF Recheck
  <2>2. Typed(Checked(c, verdict, "save indexes"))
    BY <1>t, CheckedType DEF OnKey
  <2> QED BY <1>t, <2>1, <2>2, PutType
<1>5. CASE SaveIndexes(c)
  <2> DEFINE r == [t[c] EXCEPT !.pc = "save manifest", !.wrote = source]
  <2>1. t' = [t EXCEPT ![c] = r]
    BY <1>5, <1>t DEF SaveIndexes, ThreadTypes
  <2>2. source \in Versions
    BY DEF Types, DiskTypes
  <2>3. Typed(r)
    BY <1>t, <2>2 DEF Typed, Fields, OnKey
  <2> HIDE DEF r
  <2> QED BY <1>t, <2>1, <2>3, PutType
<1>6. CASE SaveManifest(c)
  BY <1>6, <1>t, PcType DEF SaveManifest, OnKey
<1>7. CASE ClearIndexes(c)
  BY <1>7, <1>t, PcType DEF ClearIndexes, OnKey
<1>8. CASE ClearPins(c)
  BY <1>8, <1>t, PcType DEF ClearPins, OnKey
<1>9. CASE ClearManifests(c)
  BY <1>9, <1>t, PcType DEF ClearManifests, OnKey
<1>10. CASE NextEpochStarts(c)
  <2>1. t' = [d \in Threads |->
                IF d # c THEN [t[d] EXCEPT !.current = NextEpoch(d)]
                ELSE IF t[c].request = "fresh" THEN [t[c] EXCEPT !.pc = "lookup"] ELSE Idle]
    BY <1>10 DEF NextEpochStarts
  <2>2. \A d \in Threads : Typed([t[d] EXCEPT !.current = NextEpoch(d)])
    BY <1>t DEF ThreadTypes, Typed, Fields
  <2>3. Typed([t[c] EXCEPT !.pc = "lookup"])
    BY <1>t DEF Typed, Fields, OnKey
  <2> QED BY <2>1, <2>2, <2>3, IdleType DEF ThreadTypes
<1> QED BY <1>1, <1>2, <1>3, <1>4, <1>5, <1>6, <1>7, <1>8, <1>9, <1>10

LEMMA SearchThreads ==
  ASSUME Types, NEW c \in Threads,
         \/ Lookup(c) \/ Manifest(c) \/ LoadManifest(c) \/ EvictDirectory(c) \/ UnpinDirectory(c)
         \/ PutManifest(c) \/ (\E k \in DirKeys : Visit(c, k)) \/ Store(c) \/ Warmed(c)
  PROVE  ThreadTypes'
<1>t. ThreadTypes /\ Typed(t[c])
  BY DEF Types, ThreadTypes
<1>1. CASE Lookup(c)
  <2> DEFINE r == IF completed # 0 THEN [t[c] EXCEPT !.pc = "answered", !.got = completed]
                  ELSE IF Routed
                    THEN [t[c] EXCEPT !.pc = "visit", !.todo = DirKeys, !.current = TRUE]
                  ELSE [t[c] EXCEPT !.pc = "manifest", !.todo = DirKeys, !.current = TRUE,
                                    !.manifestSince = manifest]
  <2>1. t' = [t EXCEPT ![c] = r]
    BY <1>1, <1>t DEF Lookup, ThreadTypes
  <2>2. manifest \in Versions /\ completed \in Versions
    BY DEF Types, DiskTypes, MemoryTypes
  <2>3. Typed(r)
    BY <1>t, <2>2 DEF Typed, Fields, OnKey
  <2> HIDE DEF r
  <2> QED BY <1>t, <2>1, <2>3, PutType
<1>2. CASE Manifest(c)
  <2> DEFINE r == IF cached # NoManifest /\ cached.print = manifest
                    THEN [t[c] EXCEPT !.pc = "visit", !.manifest = cached]
                  ELSE IF cached # NoManifest THEN [t[c] EXCEPT !.pc = "reload manifest"]
                  ELSE [t[c] EXCEPT !.pc = "load manifest"]
  <2>1. t' = [t EXCEPT ![c] = r]
    BY <1>2, <1>t DEF Manifest, ThreadTypes
  <2>2. cached \in Manifests
    BY DEF Types, MemoryTypes
  <2>3. Typed(r)
    BY <1>t, <2>2 DEF Typed, Fields, OnKey
  <2> HIDE DEF r
  <2> QED BY <1>t, <2>1, <2>3, PutType
<1>3. CASE LoadManifest(c)
  <2> DEFINE r == [t[c] EXCEPT !.manifest.version = manifest,
                     !.pc = IF At(c, "load manifest") THEN "put manifest" ELSE "evict directory"]
  <2>1. t' = [t EXCEPT ![c] = r]
    BY <1>3, <1>t DEF LoadManifest, ThreadTypes
  <2>2. manifest \in Versions
    BY DEF Types, DiskTypes
  <2>3. Typed(r)
    BY <1>t, <2>2 DEF Typed, Fields, OnKey, Manifests
  <2> HIDE DEF r
  <2> QED BY <1>t, <2>1, <2>3, PutType
<1>4. CASE EvictDirectory(c)
  <2> DEFINE r == [t[c] EXCEPT !.pc = "unpin directory", !.manifest.print = manifest]
  <2>1. t' = [t EXCEPT ![c] = r]
    BY <1>4, <1>t DEF EvictDirectory, ThreadTypes
  <2>2. manifest \in Versions
    BY DEF Types, DiskTypes
  <2>3. Typed(r)
    BY <1>t, <2>2 DEF Typed, Fields, OnKey, Manifests
  <2> HIDE DEF r
  <2> QED BY <1>t, <2>1, <2>3, PutType
<1>5. CASE UnpinDirectory(c)
  BY <1>5, <1>t, PcType DEF UnpinDirectory, OnKey
<1>6. CASE PutManifest(c)
  <2> DEFINE taken == IF t[c].manifest.print = 0 THEN manifest ELSE t[c].manifest.print
             put == [t[c].manifest EXCEPT !.print = taken]
             r == [t[c] EXCEPT !.pc = "visit", !.manifest = put]
  <2>1. t' = [t EXCEPT ![c] = r]
    BY <1>6, <1>t DEF PutManifest, ThreadTypes
  <2>2. t[c].manifest \in Manifests /\ manifest \in Versions
    BY <1>t DEF Typed, Types, DiskTypes
  <2>3. put \in Manifests
    BY <2>2 DEF Manifests
  <2>4. Typed(r)
    <3> HIDE DEF put
    <3> QED BY <1>t, <2>3 DEF Typed, Fields, OnKey
  <2> HIDE DEF r
  <2> QED BY <1>t, <2>1, <2>4, PutType
<1>7. CASE \E k \in DirKeys : Visit(c, k)
  <2>1. PICK k \in DirKeys : Visit(c, k)
    BY <1>7
  <2> DEFINE r == [t[c] EXCEPT !.pc = "look", !.key = k, !.todo = @ \ {k},
                               !.manifest = NoManifest, !.manifestSince = 0]
  <2>2. t' = [t EXCEPT ![c] = r]
    BY <1>t, <2>1 DEF Visit, ThreadTypes
  <2>3. Typed(r)
    BY <1>t, EntryTypes DEF Typed, Fields, Keys
  <2> HIDE DEF r
  <2> QED BY <1>t, <2>2, <2>3, PutType
<1>8. CASE Store(c)
  <2> DEFINE r == [t[c] EXCEPT !.pc = "answered", !.key = None, !.current = FALSE]
  <2>1. t' = [t EXCEPT ![c] = r]
    BY <1>8, <1>t DEF Store, ThreadTypes
  <2>2. Typed(r)
    BY <1>t DEF Typed, Fields, OnKey
  <2> HIDE DEF r
  <2> QED BY <1>t, <2>1, <2>2, PutType
<1>9. CASE Warmed(c)
  BY <1>9, <1>t, IdleType, PutType DEF Warmed
<1> QED BY <1>1, <1>2, <1>3, <1>4, <1>5, <1>6, <1>7, <1>8, <1>9

LEMMA FailingType ==
  ASSUME NEW c \in Threads, Typed(t[c]), t[c].key \in Keys PROVE Typed(Failing(c))
BY IdleType, EntryTypes DEF Failing, Typed, Fields

LEMMA IndexThreads ==
  ASSUME Types, NEW c \in Threads,
         \/ Look(c) \/ Lock(c) \/ Invalidate(c) \/ Load(c) \/ BecomeReady(c) \/ Fail(c)
         \/ Unmap(c) \/ StartAgain(c) \/ Wait(c) \/ Evict(c) \/ EvictVictims(c)
         \/ Build(c) \/ Save(c) \/ Replace(c)
  PROVE  ThreadTypes'
<1>t. ThreadTypes /\ Typed(t[c])
  BY DEF Types, ThreadTypes
<1>1. CASE Look(c)
  <2> DEFINE r == [t[c] EXCEPT !.pc = "lock", !.print = file[t[c].key]]
  <2>1. t' = [t EXCEPT ![c] = r]
    BY <1>1, <1>t DEF Look, ThreadTypes
  <2>2. t[c].key \in Keys /\ file[t[c].key] \in Versions
    BY <1>1, KeyKnown DEF Look, At, OnKey
  <2>3. Typed(r)
    BY <1>t, <2>2 DEF Typed, Fields
  <2> HIDE DEF r
  <2> QED BY <1>t, <2>1, <2>3, PutType
<1>2. CASE Lock(c)
  <2> DEFINE stale == Outdated(indexes[t[c].key], t[c].print)
             r == [t[c] EXCEPT !.pc = IF stale THEN "invalidate" ELSE "load", !.print = 0]
             s == [t[c] EXCEPT !.pc = "wait", !.mine = indexes[t[c].key], !.print = 0]
  <2>1. t' = [t EXCEPT ![c] = r] \/ t' = [t EXCEPT ![c] = s]
    BY <1>2, <1>t DEF Lock, ThreadTypes
  <2>2. t[c].key \in Keys /\ indexes[t[c].key] \in Entries /\ 0 \in Versions
    BY <1>2, KeyKnown, EntryTypes DEF Lock, At, OnKey
  <2>3. Typed(r) /\ Typed(s)
    <3> HIDE DEF stale
    <3> QED BY <1>t, <2>2 DEF Typed, Fields
  <2> HIDE DEF r, s
  <2> QED BY <1>t, <2>1, <2>3, PutType
<1>3. CASE Invalidate(c)
  <2>1. t[c].key \in Keys
    BY <1>3, KeyKnown DEF Invalidate, At, OnKey
  <2> QED BY <1>3, <1>t, <2>1, PcType DEF Invalidate
<1>4. CASE Load(c)
  <2> DEFINE r == [t[c] EXCEPT !.pc = IF file[t[c].key] = 0 THEN "fail" ELSE "ready",
                               !.print = file[t[c].key]]
  <2>1. t' = [t EXCEPT ![c] = r]
    BY <1>4, <1>t DEF Load, ThreadTypes
  <2>2. t[c].key \in Keys /\ file[t[c].key] \in Versions
    BY <1>4, KeyKnown DEF Load, At, OnKey
  <2>3. Typed(r)
    BY <1>t, <2>2 DEF Typed, Fields
  <2> HIDE DEF r
  <2> QED BY <1>t, <2>1, <2>3, PutType
<1>5. CASE BecomeReady(c)
  <2> DEFINE entry == Ready(t[c].print, file[t[c].key])
             r == [Answered(c, entry.index, entry.print) EXCEPT !.pc = "evict"]
             told == [t EXCEPT ![c] = r]
  <2>1. t' = Told(c, entry, told)
    BY <1>5 DEF BecomeReady
  <2>2. /\ t[c].key \in Keys /\ file[t[c].key] \in Versions /\ t[c].print \in Versions
        /\ entry \in Entries
    BY <1>5, <1>t, KeyKnown, EntryTypes DEF BecomeReady, At, OnKey, Typed
  <2>3. entry.index \in Versions /\ entry.print \in Versions
    BY <2>2 DEF Entries
  <2>4. Typed(r)
    <3> HIDE DEF entry
    <3> QED BY <1>t, <2>2, <2>3, EntryTypes, SmallerType DEF Typed, Fields, Answered
  <2>5. DOMAIN told = Threads /\ \A d \in Threads : Typed(told[d])
    <3> HIDE DEF r
    <3> QED BY <1>t, <2>4 DEF ThreadTypes
  <2> HIDE DEF entry, told
  <2> QED BY <2>1, <2>2, <2>5, ToldType
<1>6. CASE Fail(c)
  <2> DEFINE told == [t EXCEPT ![c].pc = "unmap"]
  <2>1. t' = Told(c, Failed(c), told)
    BY <1>6 DEF Fail
  <2>2. t[c].key \in Keys /\ Failed(c) \in Entries
    BY <1>6, KeyKnown, EntryTypes DEF Fail, At, OnKey
  <2>3. DOMAIN told = Threads /\ \A d \in Threads : Typed(told[d])
    BY <1>t, <2>2 DEF ThreadTypes, Typed, Fields
  <2> HIDE DEF told
  <2> QED BY <2>1, <2>2, <2>3, ToldType
<1>7. CASE Unmap(c)
  <2>1. t' = [t EXCEPT ![c] = Failing(c)]
    BY <1>7 DEF Unmap
  <2>2. t[c].key \in Keys
    BY <1>7, KeyKnown DEF Unmap, At, OnKey
  <2> QED BY <1>t, <2>1, <2>2, FailingType, PutType
<1>8. CASE StartAgain(c)
  BY <1>8, <1>t, IdleType, PutType DEF StartAgain
<1>9. CASE Wait(c)
  <2> DEFINE entry == t[c].mine
             r == [Answered(c, entry.index, entry.print) EXCEPT !.pc = AfterIndex(t[c].request)]
             s == [t[c] EXCEPT !.pc = "look", !.mine = NoEntry]
  <2>1. t[c].key \in Keys
    BY <1>9, KeyKnown DEF Wait, At, OnKey
  <2>2. CASE t' = [t EXCEPT ![c].pc = "asleep"]
    BY <1>t, <2>1, <2>2, PcType
  <2>3. CASE t' = [t EXCEPT ![c] = Failing(c)]
    BY <1>t, <2>1, <2>3, FailingType, PutType
  <2>4. CASE t' = [t EXCEPT ![c] = s]
    <3>1. Typed(s)
      BY <1>t, <2>1, EntryTypes DEF Typed, Fields
    <3> HIDE DEF s
    <3> QED BY <1>t, <2>4, <3>1, PutType
  <2>5. CASE t' = [t EXCEPT ![c] = r]
    <3>1. entry.index \in Versions /\ entry.print \in Versions
      BY <1>t DEF Typed, Entries
    <3>2. Typed(r)
      <4> HIDE DEF entry
      <4> QED BY <1>t, <2>1, <3>1, EntryTypes, SmallerType DEF Typed, Fields, Answered, AfterIndex
    <3> HIDE DEF r
    <3> QED BY <1>t, <2>5, <3>2, PutType
  <2>6. t' = [t EXCEPT ![c].pc = "look", ![c].mine = NoEntry] => t' = [t EXCEPT ![c] = s]
    BY <1>t DEF ThreadTypes
  <2> QED BY <1>9, <2>2, <2>3, <2>4, <2>5, <2>6 DEF Wait
<1>10. CASE Evict(c)
  <2> DEFINE r == [t[c] EXCEPT !.pc = "victims", !.spared = pinned]
  <2>1. t' = [t EXCEPT ![c] = r]
    BY <1>10, <1>t DEF Evict, ThreadTypes
  <2>2. t[c].key \in Keys /\ file[t[c].key] \in Versions
    BY <1>10, KeyKnown DEF Evict, At, OnKey
  <2>3. pinned \subseteq Keys
    BY DEF Types, MemoryTypes
  <2>4. Typed(r)
    BY <1>t, <2>2, <2>3 DEF Typed, Fields
  <2> HIDE DEF r
  <2> QED BY <1>t, <2>1, <2>4, PutType
<1>11. CASE EvictVictims(c)
  <2> DEFINE r == [t[c] EXCEPT !.pc = AfterIndex(t[c].request), !.spared = {}]
  <2>1. t' = [t EXCEPT ![c] = Idle] \/ t' = [t EXCEPT ![c] = r]
    BY <1>11, <1>t DEF EvictVictims, ThreadTypes
  <2>2. Typed(r)
    BY <1>t DEF Typed, Fields, AfterIndex, OnKey
  <2> HIDE DEF r
  <2> QED BY <1>t, <2>1, <2>2, IdleType, PutType
<1>12. CASE Build(c)
  <2> DEFINE r == [t[c] EXCEPT !.pc = "save", !.got = source]
  <2>1. t' = [t EXCEPT ![c] = r]
    BY <1>12, <1>t DEF Build, ThreadTypes
  <2>2. t[c].key \in Keys /\ file[t[c].key] \in Versions
    BY <1>12, KeyKnown DEF Build, At, OnKey
  <2>3. source \in Versions
    BY DEF Types, DiskTypes
  <2>4. Typed(r)
    BY <1>t, <2>2, <2>3 DEF Typed, Fields
  <2> HIDE DEF r
  <2> QED BY <1>t, <2>1, <2>4, PutType
<1>13. CASE Save(c)
  <2> DEFINE k == t[c].key
  <2>1. t' = [Lowered(k, t[c].got) EXCEPT ![c].pc = "replace"]
    BY <1>13 DEF Save
  <2>2. k \in Keys /\ t[c].got \in Versions
    BY <1>13, <1>t, KeyKnown DEF Save, At, OnKey, Typed
  <2>3. \A d \in Threads : Typed(Lowered(k, t[c].got)[d])
    BY <1>t, <2>2, SmallerType DEF Lowered, ThreadTypes, Typed, Fields
  <2>4. DOMAIN Lowered(k, t[c].got) = Threads /\ Lowered(k, t[c].got)[c].key = k
    BY <1>t DEF Lowered, Typed, Fields
  <2> QED BY <2>1, <2>2, <2>3, <2>4 DEF ThreadTypes, Typed, Fields
<1>14. CASE Replace(c)
  <2>1. t[c].key \in Keys
    BY <1>14, KeyKnown DEF Replace, At, OnKey
  <2> QED BY <1>14, <1>t, <2>1, PcType DEF Replace
<1> QED BY <1>1, <1>2, <1>3, <1>4, <1>5, <1>6, <1>7, <1>8, <1>9, <1>10, <1>11, <1>12, <1>13, <1>14


-----------------------------------------------------------------------------
(* The steps that reach each part of the state                             *)

(* Something happens outside the daemon.                                   *)
Outside == Edit \/ OtherProcess \/ \E k \in DeleteKeys : Delete(k)

(* A request comes in.                                                     *)
Begins(c) ==
  \/ Begin(c, "fresh", "check") \/ Begin(c, "refresh", "save indexes")
  \/ \E k \in ReadKeys : BeginOn(c, "read", "look", k)
  \/ \E k \in UpdateKeys : BeginOn(c, "update", "build", k)

LEMMA MemoryParts ==
  /\ UNCHANGED memory => UNCHANGED <<entries, pinned, cached, completed>>
  /\ UNCHANGED entries => UNCHANGED <<indexes, recent>>
  /\ UNCHANGED disk => UNCHANGED <<source, file, manifest>>
BY DEF memory, entries, disk

LEMMA OutsideQuiet ==
  ASSUME Outside
  PROVE  UNCHANGED <<indexes, recent, pinned, cached, completed, refreshing, promised>>
BY MemoryParts DEF Outside, Edit, OtherProcess, Delete

LEMMA BeginsQuiet ==
  ASSUME NEW c, Begins(c)
  PROVE  UNCHANGED <<source, file, manifest, indexes, recent, pinned, cached, completed,
                     refreshing, promised>>
BY MemoryParts DEF Begins, Begin, BeginOn

LEMMA StepDisk ==
  ASSUME NEW c, Step(c)
  PROVE  SaveIndexes(c) \/ SaveManifest(c) \/ Save(c) \/ UNCHANGED <<source, file, manifest>>
BY MemoryParts
   DEF Step, Return, Check, Acquire, Recheck, ClearIndexes, ClearPins, ClearManifests,
       NextEpochStarts, Lookup, Manifest, LoadManifest, EvictDirectory, UnpinDirectory,
       PutManifest, Visit, Store, Warmed, Look, Lock, Invalidate, Load, BecomeReady, Fail,
       Unmap, StartAgain, Wait, Evict, EvictVictims, Build, Replace

LEMMA StepEntries ==
  ASSUME NEW c, Step(c)
  PROVE  \/ ClearIndexes(c) \/ EvictDirectory(c) \/ Lock(c) \/ BecomeReady(c) \/ Fail(c)
         \/ Unmap(c) \/ StartAgain(c) \/ Wait(c) \/ EvictVictims(c) \/ Replace(c)
         \/ UNCHANGED <<indexes, recent>>
BY MemoryParts
   DEF Step, Return, Check, Acquire, Recheck, SaveIndexes, SaveManifest, ClearPins, ClearManifests,
       NextEpochStarts, Lookup, Manifest, LoadManifest, UnpinDirectory,
       PutManifest, Visit, Store, Warmed, Look, Invalidate, Load,
       Evict, Build, Save

LEMMA StepPins ==
  ASSUME NEW c, Step(c)
  PROVE  \/ ClearPins(c) \/ UnpinDirectory(c) \/ (\E k \in DirKeys : Visit(c, k)) \/ StartAgain(c)
         \/ pinned' = pinned
BY MemoryParts
   DEF Step, Return, Check, Acquire, Recheck, SaveIndexes, SaveManifest, ClearIndexes,
       ClearManifests,
       NextEpochStarts, Lookup, Manifest, LoadManifest, EvictDirectory,
       PutManifest, Store, Warmed, Look, Lock, Invalidate, Load, BecomeReady, Fail,
       Unmap, Wait, Evict, EvictVictims, Build, Save, Replace

LEMMA StepPromises ==
  ASSUME NEW c, Step(c)
  PROVE  \/ ClearIndexes(c) \/ ClearPins(c) \/ EvictDirectory(c) \/ UnpinDirectory(c) \/ Warmed(c)
         \/ Unmap(c) \/ StartAgain(c)
         \/ promised' = promised
BY DEF Step, Return, Check, Acquire, Recheck, SaveIndexes, SaveManifest, ClearManifests,
       NextEpochStarts, Lookup, Manifest, LoadManifest,
       PutManifest, Visit, Store, Look, Lock, Invalidate, Load, BecomeReady, Fail,
       Wait, Evict, EvictVictims, Build, Save, Replace

LEMMA StepLocks ==
  ASSUME NEW c, Step(c)
  PROVE  Acquire(c) \/ Recheck(c) \/ NextEpochStarts(c) \/ refreshing' = refreshing
BY DEF Step, Return, Check, SaveIndexes, SaveManifest, ClearIndexes, ClearPins, ClearManifests,
       Lookup, Manifest, LoadManifest, EvictDirectory, UnpinDirectory,
       PutManifest, Visit, Store, Warmed, Look, Lock, Invalidate, Load, BecomeReady, Fail,
       Unmap, StartAgain, Wait, Evict, EvictVictims, Build, Save, Replace

LEMMA StepCached ==
  ASSUME NEW c, Step(c)
  PROVE  ClearManifests(c) \/ PutManifest(c) \/ StartAgain(c) \/ cached' = cached
BY MemoryParts
   DEF Step, Return, Check, Acquire, Recheck, SaveIndexes, SaveManifest, ClearIndexes, ClearPins,
       NextEpochStarts, Lookup, Manifest, LoadManifest, EvictDirectory, UnpinDirectory,
       Visit, Store, Warmed, Look, Lock, Invalidate, Load, BecomeReady, Fail,
       Unmap, Wait, Evict, EvictVictims, Build, Save, Replace

LEMMA StepCompleted ==
  ASSUME NEW c, Step(c)
  PROVE  \/ NextEpochStarts(c) \/ UnpinDirectory(c) \/ Store(c) \/ Invalidate(c) \/ EvictVictims(c)
         \/ StartAgain(c)
         \/ completed' = completed
BY MemoryParts
   DEF Step, Return, Check, Acquire, Recheck, SaveIndexes, SaveManifest, ClearIndexes, ClearPins,
       ClearManifests, Lookup, Manifest, LoadManifest, EvictDirectory,
       PutManifest, Visit, Warmed, Look, Lock, Load, BecomeReady, Fail,
       Unmap, Wait, Evict, Build, Save, Replace

-----------------------------------------------------------------------------
(* The files, the memory and the order of use keep their types             *)

LEMMA OutsideTypes ==
  ASSUME Types, Outside PROVE Types'
<1>t. source \in Versions /\ file \in [Keys -> Versions] /\ manifest \in Versions
  BY DEF Types, DiskTypes
<1>1. UNCHANGED <<indexes, recent, pinned, cached, completed, refreshing, promised>>
  BY OutsideQuiet
<1>2. MemoryTypes' /\ InOrder'
  BY <1>1 DEF Types, MemoryTypes, InOrder, IsReady
<1>3. DiskTypes'
  <2>1. CASE Edit
    BY <1>t, <2>1, CachesAssumption DEF Edit, DiskTypes, Versions
  <2>2. CASE OtherProcess
    BY <1>t, <2>2 DEF OtherProcess, DirSavedAs, DiskTypes
  <2>3. CASE \E k \in DeleteKeys : Delete(k)
    BY <1>t, <2>3, EntryTypes DEF Delete, DiskTypes
  <2> QED BY <2>1, <2>2, <2>3 DEF Outside
<1> QED BY <1>2, <1>3, OutsideThreads DEF Types, Outside

LEMMA DiskTypesKept ==
  ASSUME Types, NEW c \in Threads, Begins(c) \/ Step(c)
  PROVE  DiskTypes'
<1>t. /\ source \in Versions /\ file \in [Keys -> Versions] /\ manifest \in Versions
      /\ Typed(t[c])
  BY DEF Types, DiskTypes, ThreadTypes
<1>1. CASE SaveIndexes(c)
  BY <1>t, <1>1 DEF SaveIndexes, DirSavedAs, DiskTypes
<1>2. CASE SaveManifest(c)
  BY <1>t, <1>2 DEF SaveManifest, DiskTypes, Typed
<1>3. CASE Save(c)
  BY <1>t, <1>3 DEF Save, DiskTypes, Typed
<1>4. CASE UNCHANGED <<source, file, manifest>>
  BY <1>t, <1>4 DEF DiskTypes
<1> QED BY <1>1, <1>2, <1>3, <1>4, StepDisk, BeginsQuiet

LEMMA DroppedTypes ==
  ASSUME indexes \in [Keys -> Entries], NEW gone PROVE Dropped(gone) \in [Keys -> Entries]
BY EntryTypes DEF Dropped

LEMMA IndexesTypesKept ==
  ASSUME Types, NEW c \in Threads, Begins(c) \/ Step(c)
  PROVE  indexes' \in [Keys -> Entries]
<1>t. indexes \in [Keys -> Entries] /\ file \in [Keys -> Versions] /\ Typed(t[c])
  BY DEF Types, DiskTypes, MemoryTypes, ThreadTypes
<1>1. CASE ClearIndexes(c) \/ EvictDirectory(c) \/ Unmap(c) \/ StartAgain(c) \/ EvictVictims(c)
  BY <1>t, <1>1, DroppedTypes DEF ClearIndexes, EvictDirectory, Unmap, StartAgain, EvictVictims
<1>2. ASSUME NEW k, NEW entry \in Entries, indexes' = [indexes EXCEPT ![k] = entry]
      PROVE  indexes' \in [Keys -> Entries]
  BY <1>t, <1>2
<1>3. CASE Lock(c) \/ Fail(c)
  <2>1. \/ indexes' = indexes
        \/ \E entry \in Entries : indexes' = [indexes EXCEPT ![t[c].key] = entry]
    <3>1. CASE Lock(c)
      BY <3>1, EntryTypes, MemoryParts DEF Lock
    <3>2. CASE Fail(c)
      BY <1>t, <3>2, EntryTypes DEF Fail
    <3> QED BY <1>3, <3>1, <3>2
  <2> QED BY <1>t, <1>2, <2>1
<1>5. CASE BecomeReady(c) \/ Replace(c)
  <2> DEFINE readies == {Ready(t[c].print, file[t[c].key]), Ready(t[c].got, file[t[c].key])}
  <2>1. t[c].key \in Keys /\ file[t[c].key] \in Versions
    BY <1>5, KeyKnown DEF BecomeReady, Replace, At, OnKey
  <2>2. \A entry \in readies : entry \in Entries
    BY <1>t, <2>1, EntryTypes DEF Typed
  <2>3. \/ indexes' = indexes
        \/ \E entry \in readies : indexes' = [indexes EXCEPT ![t[c].key] = entry]
    <3>1. CASE BecomeReady(c)
      BY <3>1, MemoryParts DEF BecomeReady
    <3>2. CASE Replace(c)
      BY <3>2 DEF Replace
    <3> QED BY <1>5, <3>1, <3>2
  <2> HIDE DEF readies
  <2> QED BY <1>t, <1>2, <2>2, <2>3
<1>4. CASE indexes' = indexes
  BY <1>t, <1>4
<1> QED BY <1>1, <1>3, <1>4, <1>5, StepEntries, BeginsQuiet DEF Wait

LEMMA MemoryTypesKept ==
  ASSUME Types, NEW c \in Threads, Begins(c) \/ Step(c)
  PROVE  MemoryTypes'
<1>t. /\ pinned \subseteq Keys /\ promised \subseteq Keys
      /\ cached \in Manifests /\ completed \in Versions /\ refreshing \in Threads \cup {None}
      /\ manifest \in Versions /\ Typed(t[c]) /\ Typed(t[c])
  BY DEF Types, DiskTypes, MemoryTypes, ThreadTypes
<1>1. pinned' \subseteq Keys
  <2>1. CASE ClearPins(c) \/ UnpinDirectory(c) \/ (\E k \in DirKeys : Visit(c, k)) \/ StartAgain(c)
    BY <1>t, <2>1 DEF ClearPins, UnpinDirectory, Visit, StartAgain, Keys
  <2> QED BY <1>t, <2>1, StepPins, BeginsQuiet
<1>2. promised' \subseteq Keys
  <2>1. CASE ClearIndexes(c) \/ ClearPins(c) \/ EvictDirectory(c) \/ UnpinDirectory(c)
             \/ Warmed(c) \/ Unmap(c) \/ StartAgain(c)
    BY <1>t, <2>1
       DEF ClearIndexes, ClearPins, EvictDirectory, UnpinDirectory, Warmed, Unmap, StartAgain, Keys
  <2> QED BY <1>t, <2>1, StepPromises, BeginsQuiet
<1>3. cached' \in Manifests
  <2>1. CASE ClearManifests(c) \/ StartAgain(c)
    BY <2>1, EntryTypes DEF ClearManifests, StartAgain
  <2>2. CASE PutManifest(c)
    BY <1>t, <2>2 DEF PutManifest, Typed, Manifests
  <2> QED BY <1>t, <2>1, <2>2, StepCached, BeginsQuiet
<1>4. completed' \in Versions
  <2>1. CASE NextEpochStarts(c) \/ UnpinDirectory(c) \/ Store(c) \/ StartAgain(c)
    BY <1>t, <2>1, EntryTypes DEF NextEpochStarts, UnpinDirectory, Store, StartAgain, Typed
  <2>2. CASE Invalidate(c) \/ EvictVictims(c)
    BY <1>t, <2>2, EntryTypes DEF Invalidate, EvictVictims, Invalidated
  <2> QED BY <1>t, <2>1, <2>2, StepCompleted, BeginsQuiet
<1>5. refreshing' \in Threads \cup {None}
  <2>1. CASE Acquire(c) \/ Recheck(c) \/ NextEpochStarts(c)
    BY <1>t, <2>1 DEF Acquire, Recheck, NextEpochStarts
  <2> QED BY <1>t, <2>1, StepLocks, BeginsQuiet
<1> QED BY <1>1, <1>2, <1>3, <1>4, <1>5, IndexesTypesKept DEF MemoryTypes

LEMMA StateOfEntries ==
  /\ NoEntry.state = "none"
  /\ \A c : Loading(c).state = "loading" /\ Failed(c).state = "failed"
  /\ \A i, p : Ready(i, p).state = "ready" /\ Ready(i, p).index = i /\ Ready(i, p).print = p
BY DEF NoEntry, Loading, Failed, Ready, Entry

(* An index becomes ready at the end of the order of use.                  *)
LEMMA UsedLast ==
  ASSUME NEW S, Lists(recent, S), NEW k \in Keys
  PROVE  Lists(Append(Without(recent, {k}), k), S \cup {k})
<1>1. Lists(Without(recent, {k}), S \ {k})
  BY WithoutLists
<1>2. Lists(Append(Without(recent, {k}), k), (S \ {k}) \cup {k})
  BY <1>1, AppendLists
<1>3. (S \ {k}) \cup {k} = S \cup {k}
  OBVIOUS
<1> QED BY <1>2, <1>3

LEMMA InOrderKept ==
  ASSUME Types, NEW c \in Threads, Begins(c) \/ Step(c)
  PROVE  InOrder'
<1> DEFINE S == {k \in Keys : IsReady(k)}
<1>t. indexes \in [Keys -> Entries] /\ Lists(recent, S)
  BY DEF Types, MemoryTypes, InOrder
<1>0. ASSUME NEW T, Lists(recent', T), \A k \in Keys : k \in T <=> indexes'[k].state = "ready"
      PROVE  InOrder'
  <2>1. T \subseteq Keys
    BY <1>0, ElementOfSeq DEF Lists
  <2>2. T = {k \in Keys : IsReady(k)'}
    BY <1>0, <2>1 DEF IsReady
  <2> QED BY <1>0, <2>2 DEF InOrder, Lists, Keys
<1>1. ASSUME NEW gone, indexes' = Dropped(gone), recent' = Without(recent, gone) PROVE InOrder'
  <2>1. Lists(recent', S \ gone)
    BY <1>t, <1>1, WithoutLists
  <2>2. \A k \in Keys : k \in S \ gone <=> indexes'[k].state = "ready"
    BY <1>1, StateOfEntries DEF Dropped, IsReady
  <2> QED BY <1>0, <2>1, <2>2
<1>2. CASE EvictDirectory(c) \/ EvictVictims(c)
  BY <1>1, <1>2 DEF EvictDirectory, EvictVictims
<1>3. CASE ClearIndexes(c) \/ StartAgain(c)
  <2>1. Lists(<< >>, {})
    BY EmptySeq DEF Lists
  <2>2. recent' = << >> /\ \A k \in Keys : indexes'[k].state # "ready"
    BY <1>3, StateOfEntries DEF ClearIndexes, StartAgain, Dropped
  <2>3. Lists(recent', {})
    BY <2>1, <2>2
  <2> QED BY <1>0, <2>2, <2>3
<1>4. CASE Lock(c)
  <2> DEFINE k == t[c].key
  <2>1. CASE UNCHANGED entries
    BY <1>t, <1>0, <2>1, MemoryParts DEF IsReady
  <2>2. CASE indexes' = [indexes EXCEPT ![k] = Loading(c)] /\ recent' = Without(recent, {k})
    <3>1. Lists(recent', S \ {k})
      BY <1>t, <2>2, WithoutLists
    <3>2. \A n \in Keys : n \in S \ {k} <=> indexes'[n].state = "ready"
      BY <1>t, <2>2, StateOfEntries DEF IsReady
    <3> QED BY <1>0, <3>1, <3>2
  <2> QED BY <1>4, <2>1, <2>2 DEF Lock
<1>5. CASE BecomeReady(c)
  <2> DEFINE k == t[c].key
  <2>1. CASE UNCHANGED entries
    BY <1>t, <1>0, <2>1, MemoryParts DEF IsReady
  <2>2. CASE /\ indexes[k] = Loading(c)
             /\ indexes' = [indexes EXCEPT ![k] = Ready(t[c].print, file[k])]
             /\ recent' = Append(recent, k)
    <3>1. k \in Keys
      BY <1>5, KeyKnown DEF BecomeReady, At, OnKey
    <3>2. k \notin S
      BY <2>2, StateOfEntries DEF IsReady
    <3>3. Lists(recent', S \cup {k})
      BY <1>t, <2>2, <3>1, <3>2, AppendLists
    <3>4. \A n \in Keys : n \in S \cup {k} <=> indexes'[n].state = "ready"
      BY <1>t, <2>2, <3>1, StateOfEntries DEF IsReady
    <3> QED BY <1>0, <3>3, <3>4
  <2> QED BY <1>5, <2>1, <2>2 DEF BecomeReady
<1>6. CASE Fail(c) \/ Unmap(c)
  <2>1. \A k \in Keys : k \in S <=> indexes'[k].state = "ready"
    BY <1>t, <1>6, StateOfEntries DEF Fail, Unmap, Dropped, IsReady
  <2> QED BY <1>t, <1>0, <1>6, <2>1 DEF Fail, Unmap
<1>7. CASE Wait(c)
  <2> DEFINE k == t[c].key
  <2>1. CASE recent' = recent
    BY <1>t, <1>0, <1>7, <2>1 DEF IsReady, Wait
  <2>2. CASE indexes[k].state = "ready" /\ recent' = Append(Without(recent, {k}), k)
    <3>1. k \in Keys
      BY <1>7, KeyKnown DEF Wait, At, OnKey
    <3>2. Lists(recent', S \cup {k})
      BY <1>t, <2>2, <3>1, UsedLast
    <3>3. \A n \in Keys : n \in S \cup {k} <=> indexes'[n].state = "ready"
      BY <1>7, <2>2 DEF IsReady, Wait
    <3> QED BY <1>0, <3>2, <3>3
  <2> QED BY <1>7, <2>1, <2>2 DEF Wait
<1>8. CASE Replace(c)
  <2> DEFINE k == t[c].key
  <2>1. k \in Keys
    BY <1>8, KeyKnown DEF Replace, At, OnKey
  <2>2. Lists(recent', S \cup {k})
    BY <1>t, <1>8, <2>1, UsedLast DEF Replace
  <2>3. \A n \in Keys : n \in S \cup {k} <=> indexes'[n].state = "ready"
    BY <1>t, <1>8, <2>1, StateOfEntries DEF IsReady, Replace
  <2> QED BY <1>0, <2>2, <2>3
<1>9. CASE UNCHANGED <<indexes, recent>>
  BY <1>t, <1>0, <1>9 DEF IsReady
<1> QED BY <1>2, <1>3, <1>4, <1>5, <1>6, <1>7, <1>8, <1>9, StepEntries, BeginsQuiet

LEMMA StepGroups ==
  ASSUME NEW c, Step(c)
  PROVE  \/ \/ Return(c) \/ Check(c) \/ Acquire(c) \/ Recheck(c) \/ SaveIndexes(c) \/ SaveManifest(c)
            \/ ClearIndexes(c) \/ ClearPins(c) \/ ClearManifests(c) \/ NextEpochStarts(c)
         \/ \/ Lookup(c) \/ Manifest(c) \/ LoadManifest(c) \/ EvictDirectory(c) \/ UnpinDirectory(c)
            \/ PutManifest(c) \/ (\E k \in DirKeys : Visit(c, k)) \/ Store(c) \/ Warmed(c)
         \/ \/ Look(c) \/ Lock(c) \/ Invalidate(c) \/ Load(c) \/ BecomeReady(c) \/ Fail(c)
            \/ Unmap(c) \/ StartAgain(c) \/ Wait(c) \/ Evict(c) \/ EvictVictims(c)
            \/ Build(c) \/ Save(c) \/ Replace(c)
BY DEF Step

LEMMA ThreadTypesKept ==
  ASSUME Types, NEW c \in Threads, Begins(c) \/ Step(c)
  PROVE  ThreadTypes'
<1>1. CASE Begins(c)
  <2>1. ReadKeys \subseteq Keys /\ UpdateKeys \subseteq Keys
    BY CachesAssumption
  <2>2. \A pc \in {"check", "save indexes"} : pc \notin OnKey
    BY DEF OnKey
  <2>3. CASE \E k \in Keys : BeginOn(c, "read", "look", k) \/ BeginOn(c, "update", "build", k)
    BY <2>3, BeginOnThreads
  <2>4. CASE Begin(c, "fresh", "check") \/ Begin(c, "refresh", "save indexes")
    BY <2>2, <2>4, BeginThreads
  <2> QED BY <1>1, <2>1, <2>3, <2>4 DEF Begins
<1>2. CASE Step(c)
  BY <1>2, StepGroups, RefreshThreads, SearchThreads, IndexThreads
<1> QED BY <1>1, <1>2

LEMMA TypesInit == ASSUME Init PROVE Types
<1>1. ThreadTypes
  BY IdleType DEF Init, ThreadTypes
<1>2. DiskTypes /\ MemoryTypes
  BY EntryTypes DEF Init, DiskTypes, MemoryTypes
<1>3. InOrder
  <2>1. recent = << >> /\ {k \in Keys : IsReady(k)} = {}
    BY StateOfEntries DEF Init, IsReady
  <2> QED BY <2>1, EmptySeq DEF InOrder, Lists
<1> QED BY <1>1, <1>2, <1>3 DEF Types

LEMMA NextSteps ==
  ASSUME Next
  PROVE  Outside \/ \E c \in Threads : Begins(c) \/ Step(c)
BY DEF Next, Outside, Begins

LEMMA TypesStep ==
  ASSUME Types, [Next]_vars PROVE Types'
<1>1. CASE UNCHANGED vars
  BY <1>1, MemoryParts
     DEF vars, disk, Types, ThreadTypes, DiskTypes, MemoryTypes, InOrder, IsReady
<1>2. CASE Outside
  BY <1>2, OutsideTypes
<1>3. ASSUME NEW c \in Threads, Begins(c) \/ Step(c) PROVE Types'
  BY <1>3, ThreadTypesKept, DiskTypesKept, MemoryTypesKept, InOrderKept DEF Types
<1> QED BY <1>1, <1>2, <1>3, NextSteps

(* The state keeps its types, and the order of use is exact: the keys it   *)
(* lists are those that are ready, each once, so that what                 *)
(* evict_cached_indexes_if_needed counts and picks is what is there,       *)
(* whatever loads, replacements, evictions and clearings overlap.          *)
THEOREM Typing == Spec => []TypeOK
<1>1. Init => Types
  BY TypesInit
<1>2. Types /\ [Next]_vars => Types'
  BY TypesStep
<1>3. Types => TypeOK
  <2> SUFFICES ASSUME Types PROVE TypeOK
    OBVIOUS
  <2>1. /\ DOMAIN recent = 1 .. Len(recent)
        /\ {recent[i] : i \in 1 .. Len(recent)} = {k \in Keys : IsReady(k)}
    BY LenProperties DEF Types, InOrder, Lists
  <2>2. Len(recent) = Cardinality({k \in Keys : IsReady(k)})
    BY LengthIsSize DEF Types, InOrder
  <2> QED BY <2>1, <2>2 DEF TypeOK, Types, ThreadTypes, Typed, DiskTypes, MemoryTypes
<1> QED BY <1>1, <1>2, <1>3, PTL DEF Spec

-----------------------------------------------------------------------------
(* Nobody waits for a thread that is gone                                  *)

LEMMA OthersStay ==
  ASSUME ThreadTypes, NEW c \in Threads, Begins(c) \/ Step(c), NEW d \in Threads, d # c
  PROVE  \/ t'[d] = t[d]
         \/ NextEpochStarts(c) \/ Save(c) \/ BecomeReady(c) \/ Fail(c)
<1>1. CASE Begins(c)
  BY <1>1 DEF ThreadTypes, Begins, Begin, BeginOn
<1>2. CASE Return(c) \/ Check(c) \/ Acquire(c) \/ Recheck(c) \/ SaveIndexes(c) \/ SaveManifest(c)
           \/ ClearIndexes(c) \/ ClearPins(c) \/ ClearManifests(c)
  BY <1>2 DEF ThreadTypes, Return, Check, Acquire, Recheck, SaveIndexes, SaveManifest,
              ClearIndexes, ClearPins, ClearManifests
<1>3. CASE Lookup(c) \/ Manifest(c) \/ LoadManifest(c) \/ EvictDirectory(c) \/ UnpinDirectory(c)
           \/ PutManifest(c) \/ (\E k \in DirKeys : Visit(c, k)) \/ Store(c) \/ Warmed(c)
  BY <1>3 DEF ThreadTypes, Lookup, Manifest, LoadManifest, EvictDirectory, UnpinDirectory,
              PutManifest, Visit, Store, Warmed
<1>4. CASE Look(c) \/ Lock(c) \/ Invalidate(c) \/ Load(c) \/ Unmap(c) \/ StartAgain(c) \/ Wait(c)
           \/ Evict(c) \/ EvictVictims(c) \/ Build(c) \/ Replace(c)
  BY <1>4 DEF ThreadTypes, Look, Lock, Invalidate, Load, Unmap, StartAgain, Wait, Evict,
              EvictVictims, Build, Replace
<1> QED BY <1>1, <1>2, <1>3, <1>4 DEF Step

(* What a step of one thread does to another: who holds the entry of an    *)
(* index that became ready, or failed, is told.                            *)
ToldBy(c, d) == (BecomeReady(c) \/ Fail(c)) /\ t[d].mine = Loading(c)

LEMMA Others ==
  ASSUME ThreadTypes, NEW c \in Threads, Begins(c) \/ Step(c), NEW d \in Threads, d # c
  PROVE  /\ t'[d].key = t[d].key /\ t'[d].request = t[d].request /\ t'[d].spared = t[d].spared
         /\ ~ToldBy(c, d) => t'[d].pc = t[d].pc /\ t'[d].mine = t[d].mine
         /\ ToldBy(c, d) => t'[d].pc = Woken(t[d].pc) /\ t'[d].mine.state \in {"ready", "failed"}
<1>t. Typed(t[d])
  BY DEF ThreadTypes
<1>1. CASE NextEpochStarts(c)
  <2>1. ~ToldBy(c, d)
    BY <1>1 DEF NextEpochStarts, BecomeReady, Fail, At, ToldBy
  <2> QED BY <1>t, <1>1, <2>1 DEF NextEpochStarts, Typed, Fields
<1>2. CASE Save(c)
  <2>1. ~ToldBy(c, d)
    BY <1>2 DEF Save, BecomeReady, Fail, At, ToldBy
  <2> QED BY <1>t, <1>2, <2>1 DEF Save, Lowered, Typed, Fields
<1>3. ASSUME NEW entry, entry.state \in {"ready", "failed"}, NEW threads, threads[d] = t[d],
             t' = Told(c, entry, threads), BecomeReady(c) \/ Fail(c)
      PROVE  /\ t'[d].key = t[d].key /\ t'[d].request = t[d].request /\ t'[d].spared = t[d].spared
             /\ ~ToldBy(c, d) => t'[d].pc = t[d].pc /\ t'[d].mine = t[d].mine
             /\ ToldBy(c, d) => t'[d].pc = Woken(t[d].pc) /\ t'[d].mine.state \in {"ready", "failed"}
  <2>1. CASE t[d].mine = Loading(c)
    <3>1. t'[d] = [t[d] EXCEPT !.mine = entry, !.pc = Woken(@)]
      BY <1>3, <2>1 DEF Told
    <3> QED BY <1>t, <1>3, <2>1, <3>1 DEF Typed, Fields, ToldBy
  <2>2. CASE t[d].mine # Loading(c)
    BY <1>3, <2>2 DEF Told, ToldBy
  <2> QED BY <2>1, <2>2
<1>4. CASE BecomeReady(c)
  <2> DEFINE entry == Ready(t[c].print, file[t[c].key])
             told == [t EXCEPT ![c] = [Answered(c, entry.index, entry.print) EXCEPT !.pc = "evict"]]
  <2>1. t' = Told(c, entry, told)
    BY <1>4 DEF BecomeReady
  <2>2. told[d] = t[d] /\ entry.state = "ready"
    BY StateOfEntries DEF ThreadTypes
  <2> HIDE DEF entry, told
  <2> QED BY <1>3, <1>4, <2>1, <2>2
<1>5. CASE Fail(c)
  <2> DEFINE told == [t EXCEPT ![c].pc = "unmap"]
  <2>1. t' = Told(c, Failed(c), told)
    BY <1>5 DEF Fail
  <2>2. told[d] = t[d] /\ Failed(c).state = "failed"
    BY StateOfEntries DEF ThreadTypes
  <2> HIDE DEF told
  <2> QED BY <1>3, <1>5, <2>1, <2>2
<1>6. CASE t'[d] = t[d] /\ ~BecomeReady(c) /\ ~Fail(c)
  BY <1>6 DEF ToldBy
<1> QED BY <1>1, <1>2, <1>4, <1>5, <1>6, OthersStay

AtWork == {"invalidate", "load", "ready", "fail"}
Bound == AtWork \cup Refreshing \cup {"wait", "asleep", "evict", "victims"}

(* What a step of a thread does to its own part of the wait.               *)
Moved(c) ==
  /\ t'[c].pc = "asleep" => Wait(c)
  /\ t'[c].mine.state = "loading" => t'[c].mine = t[c].mine \/ Lock(c)
  /\ t[c].pc \in AtWork => \/ /\ Invalidate(c) \/ Load(c)
                              /\ t'[c].pc \in AtWork /\ t'[c].key = t[c].key
                           \/ BecomeReady(c) \/ Fail(c)
  /\ t[c].pc \in {"wait", "asleep"} => Wait(c)
  /\ t[c].pc = "evict" => Evict(c)
  /\ t[c].pc = "victims" => EvictVictims(c)
  /\ t'[c].pc = "victims" => Evict(c)
  /\ t'[c].spared \subseteq t[c].spared \/ Evict(c)
  /\ t'[c].pc = "recheck" => Acquire(c)
  /\ t[c].pc \in Refreshing => t'[c].pc \in Refreshing \/ Recheck(c) \/ NextEpochStarts(c)

LEMMA IdleMoves ==
  ASSUME NEW c \in Threads, t'[c] = Idle, t[c].pc \notin Bound PROVE Moved(c)
BY StateOfEntries DEF Idle, Moved, Bound

LEMMA RefreshMoves ==
  ASSUME ThreadTypes, NEW c \in Threads,
         \/ Begins(c)
         \/ Return(c) \/ Check(c) \/ Acquire(c) \/ Recheck(c) \/ SaveIndexes(c) \/ SaveManifest(c)
         \/ ClearIndexes(c) \/ ClearPins(c) \/ ClearManifests(c) \/ NextEpochStarts(c)
  PROVE  Moved(c)
<1>t. DOMAIN t = Threads /\ Typed(t[c])
  BY DEF ThreadTypes
<1>1. CASE Begins(c)
  <2>1. t[c].pc = "idle"
    BY <1>1 DEF Begins, Begin, BeginOn, At
  <2>2. ASSUME NEW request, NEW pc, Begin(c, request, pc)
        PROVE  t'[c].mine = NoEntry /\ t'[c].spared = {} /\ t'[c].pc = pc
    BY <1>t, <2>2 DEF Begin, Idle
  <2>3. ASSUME NEW request, NEW pc, NEW k, BeginOn(c, request, pc, k)
        PROVE  t'[c].mine = NoEntry /\ t'[c].spared = {} /\ t'[c].pc = pc
    BY <1>t, <2>3 DEF BeginOn, Idle
  <2>4. /\ t'[c].mine = NoEntry /\ t'[c].spared = {}
        /\ t'[c].pc \in {"check", "save indexes", "look", "build"}
    BY <1>1, <2>2, <2>3 DEF Begins
  <2> QED BY <2>1, <2>4, StateOfEntries DEF Moved, Bound, AtWork, Refreshing
<1>5. CASE Return(c)
  BY <1>t, <1>5, IdleMoves DEF Return, At, Bound, AtWork, Refreshing
<1>6. CASE Check(c) \/ Recheck(c)
  <2>1. t[c].pc \in {"check", "recheck"}
    BY <1>6 DEF Check, Recheck, At
  <2>2. \E verdict : t'[c] \in {Checked(c, verdict, "acquire"), Checked(c, verdict, "save indexes")}
    BY <1>t, <1>6 DEF Check, Recheck
  <2>3. \/ t'[c] = Idle
        \/ \E pc \in {"acquire", "save indexes", "lookup"} : t'[c] = [t[c] EXCEPT !.pc = pc]
    BY <2>2 DEF Checked
  <2>4. /\ t'[c].mine \in {t[c].mine, NoEntry} /\ t'[c].spared \subseteq t[c].spared
        /\ t'[c].pc \in {"acquire", "save indexes", "lookup", "idle"}
    <3>1. CASE t'[c] = Idle
      BY <3>1 DEF Idle
    <3>2. ASSUME NEW pc \in {"acquire", "save indexes", "lookup"}, t'[c] = [t[c] EXCEPT !.pc = pc]
          PROVE  t'[c].mine = t[c].mine /\ t'[c].spared = t[c].spared /\ t'[c].pc = pc
      BY <1>t, <3>2 DEF Typed, Fields
    <3> QED BY <2>3, <3>1, <3>2
  <2> QED BY <1>6, <2>1, <2>4, StateOfEntries DEF Check, At, Moved, Bound, AtWork, Refreshing
<1>2. CASE Acquire(c) \/ SaveIndexes(c) \/ SaveManifest(c)
  BY <1>t, <1>2
     DEF Acquire, SaveIndexes, SaveManifest, Moved, Bound, AtWork, Refreshing, At, Typed, Fields
<1>3. CASE ClearIndexes(c) \/ ClearPins(c) \/ ClearManifests(c)
  BY <1>t, <1>3
     DEF ClearIndexes, ClearPins, ClearManifests, Moved, Bound, AtWork, Refreshing, At, Typed,
         Fields
<1>4. CASE NextEpochStarts(c)
  <2>1. t'[c] = [t[c] EXCEPT !.pc = "lookup"] \/ t'[c] = Idle
    BY <1>4 DEF NextEpochStarts
  <2>2. t[c].pc = "next epoch"
    BY <1>4 DEF NextEpochStarts, At
  <2>3. /\ t'[c].mine \in {t[c].mine, NoEntry} /\ t'[c].pc \in {"lookup", "idle"}
        /\ t'[c].spared \subseteq t[c].spared
    BY <1>t, <2>1 DEF Idle, Typed, Fields
  <2> QED BY <1>4, <2>2, <2>3, StateOfEntries DEF Moved, AtWork
<1> QED BY <1>1, <1>2, <1>3, <1>4, <1>5, <1>6

LEMMA SearchMoves ==
  ASSUME ThreadTypes, NEW c \in Threads,
         \/ Lookup(c) \/ Manifest(c) \/ LoadManifest(c) \/ EvictDirectory(c) \/ UnpinDirectory(c)
         \/ PutManifest(c) \/ (\E k \in DirKeys : Visit(c, k)) \/ Store(c) \/ Warmed(c)
  PROVE  Moved(c)
<1>t. DOMAIN t = Threads /\ Typed(t[c])
  BY DEF ThreadTypes
<1>1. CASE Lookup(c)
  BY <1>t, <1>1 DEF Lookup, Moved, Bound, AtWork, Refreshing, At, Typed, Fields
<1>2. CASE Manifest(c)
  BY <1>t, <1>2 DEF Manifest, Moved, Bound, AtWork, Refreshing, At, Typed, Fields
<1>3. CASE LoadManifest(c)
  <2>1. t[c].pc \notin Bound
    BY <1>3 DEF LoadManifest, At, Bound, AtWork, Refreshing
  <2>2. /\ t'[c].mine = t[c].mine /\ t'[c].spared = t[c].spared
        /\ t'[c].pc \in {"put manifest", "evict directory"}
    BY <1>t, <1>3 DEF LoadManifest, Typed, Fields
  <2> QED BY <2>1, <2>2 DEF Moved, Bound, AtWork, Refreshing
<1>4. CASE EvictDirectory(c)
  <2>1. t'[c].mine = t[c].mine /\ t'[c].spared = t[c].spared /\ t'[c].pc = "unpin directory"
    BY <1>t, <1>4 DEF EvictDirectory, Typed, Fields
  <2> QED BY <1>4, <2>1 DEF EvictDirectory, At, Bound, AtWork, Refreshing, Moved
<1>5. CASE UnpinDirectory(c)
  BY <1>t, <1>5 DEF UnpinDirectory, Moved, Bound, AtWork, Refreshing, At, Typed, Fields
<1>9. CASE Store(c)
  BY <1>t, <1>9 DEF Store, Moved, Bound, AtWork, Refreshing, At, Typed, Fields
<1>6. CASE PutManifest(c)
  <2>1. t'[c].mine = t[c].mine /\ t'[c].spared = t[c].spared /\ t'[c].pc = "visit"
    BY <1>t, <1>6 DEF PutManifest, Typed, Fields
  <2> QED BY <1>6, <2>1 DEF PutManifest, At, Bound, AtWork, Refreshing, Moved
<1>7. CASE \E k \in DirKeys : Visit(c, k)
  <2>1. PICK k \in DirKeys : Visit(c, k)
    BY <1>7
  <2>2. t'[c].mine = t[c].mine /\ t'[c].spared = t[c].spared /\ t'[c].pc = "look"
    BY <1>t, <2>1 DEF Visit, Typed, Fields
  <2> QED BY <2>1, <2>2 DEF Visit, At, Bound, AtWork, Refreshing, Moved
<1>8. CASE Warmed(c)
  BY <1>t, <1>8, IdleMoves DEF Warmed, Bound, AtWork, Refreshing, At
<1> QED BY <1>1, <1>2, <1>3, <1>4, <1>5, <1>6, <1>7, <1>8, <1>9

LEMMA IndexMoves ==
  ASSUME ThreadTypes, NEW c \in Threads,
         \/ Look(c) \/ Lock(c) \/ Invalidate(c) \/ Load(c) \/ BecomeReady(c) \/ Fail(c)
         \/ Unmap(c) \/ StartAgain(c) \/ Wait(c) \/ Evict(c) \/ EvictVictims(c)
         \/ Build(c) \/ Save(c) \/ Replace(c)
  PROVE  Moved(c)
<1>t. DOMAIN t = Threads /\ Typed(t[c])
  BY DEF ThreadTypes
<1>1. CASE Look(c) \/ Invalidate(c) \/ Load(c)
  <2>1. CASE Look(c)
    BY <1>t, <2>1 DEF Look, Moved, Bound, AtWork, Refreshing, At, Typed, Fields
  <2>2. CASE Invalidate(c)
    BY <1>t, <2>2 DEF Invalidate, Moved, Bound, AtWork, Refreshing, At, Typed, Fields
  <2>3. CASE Load(c)
    BY <1>t, <2>3 DEF Load, Moved, Bound, AtWork, Refreshing, At, Typed, Fields
  <2> QED BY <1>1, <2>1, <2>2, <2>3
<1>2. CASE Lock(c)
  BY <1>t, <1>2 DEF Lock, Moved, Bound, AtWork, Refreshing, At, Typed, Fields
<1>10. CASE StartAgain(c)
  <2>1. t[c].pc \notin Bound
    BY <1>10 DEF StartAgain, At, Bound, AtWork, Refreshing
  <2>2. t'[c].pc = "manifest" /\ t'[c].mine = NoEntry /\ t'[c].spared = {}
    BY <1>t, <1>10 DEF StartAgain, Starting, Idle
  <2> QED BY <2>1, <2>2, StateOfEntries DEF Moved, Bound, AtWork, Refreshing
<1>3. CASE Unmap(c)
  <2>1. t[c].pc \notin Bound
    BY <1>3 DEF Unmap, At, Bound, AtWork, Refreshing
  <2>2. t'[c] = Idle \/ t'[c] = [t[c] EXCEPT !.pc = "exit", !.mine = NoEntry]
    BY <1>t, <1>3 DEF Unmap, Failing
  <2> QED BY <1>t, <2>1, <2>2, IdleMoves, StateOfEntries DEF Moved, Bound, Typed, Fields
<1>4. CASE Wait(c)
  <2>1. t[c].pc = "wait"
    BY <1>4 DEF Wait, At
  <2>2. t'[c].mine \in {t[c].mine, NoEntry} /\ t'[c].pc \notin {"recheck", "victims"}
                /\ t'[c].spared \subseteq t[c].spared
    <3>1. CASE t' = [t EXCEPT ![c].pc = "asleep"]
      BY <1>t, <3>1 DEF Typed, Fields
    <3>2. CASE t' = [t EXCEPT ![c] = Failing(c)]
      <4>1. t'[c] = Idle \/ t'[c] = [t[c] EXCEPT !.pc = "exit", !.mine = NoEntry]
        BY <1>t, <3>2 DEF Failing
      <4>2. CASE t'[c] = Idle
        BY <4>2 DEF Idle
      <4>3. CASE t'[c] = [t[c] EXCEPT !.pc = "exit", !.mine = NoEntry]
        BY <1>t, <4>3 DEF Typed, Fields
      <4> QED BY <4>1, <4>2, <4>3
    <3>3. CASE t' = [t EXCEPT ![c].pc = "look", ![c].mine = NoEntry]
      BY <1>t, <3>3 DEF Typed, Fields
    <3>4. ASSUME NEW index, NEW print,
                 t' = [t EXCEPT ![c] = [Answered(c, index, print) EXCEPT !.pc = AfterIndex(t[c].request)]]
          PROVE  t'[c].mine = NoEntry /\ t'[c].pc \notin {"recheck", "victims"}
                /\ t'[c].spared \subseteq t[c].spared
      <4>1. AfterIndex(t[c].request) \notin {"recheck", "victims"}
        BY DEF AfterIndex
      <4> QED BY <1>t, <3>4, <4>1 DEF Answered, Typed, Fields
    <3>6. \/ t' = [t EXCEPT ![c].pc = "asleep"]
          \/ t' = [t EXCEPT ![c] = Failing(c)]
          \/ t' = [t EXCEPT ![c].pc = "look", ![c].mine = NoEntry]
          \/ \E index, print :
               t' = [t EXCEPT ![c] = [Answered(c, index, print) EXCEPT !.pc = AfterIndex(t[c].request)]]
      BY <1>4 DEF Wait
    <3> QED BY <3>1, <3>2, <3>3, <3>4, <3>6
  <2> QED BY <1>4, <2>1, <2>2, StateOfEntries DEF Moved, Bound, AtWork, Refreshing
<1>5. CASE Evict(c) \/ Build(c) \/ Replace(c)
  BY <1>t, <1>5 DEF Evict, Build, Replace, Moved, Bound, AtWork, Refreshing, At, Typed, Fields
<1>6. CASE EvictVictims(c)
  <2>1. t[c].pc = "victims"
    BY <1>6 DEF EvictVictims, At
  <2>2. t'[c] = Idle \/ t'[c] = [t[c] EXCEPT !.pc = AfterIndex(t[c].request), !.spared = {}]
    BY <1>t, <1>6 DEF EvictVictims
  <2>3. ASSUME t'[c] = [t[c] EXCEPT !.pc = AfterIndex(t[c].request), !.spared = {}]
        PROVE  t'[c].mine = t[c].mine /\ t'[c].spared = {} /\ t'[c].pc \in {"answered", "visit"}
    BY <1>t, <2>3 DEF AfterIndex, Typed, Fields
  <2>4. CASE t'[c] = Idle
    BY <1>6, <2>1, <2>4, StateOfEntries DEF Idle, Moved, AtWork, Refreshing
  <2> QED BY <1>6, <2>1, <2>2, <2>3, <2>4 DEF Moved, AtWork, Refreshing
<1>7. CASE Save(c)
  BY <1>t, <1>7 DEF Save, Lowered, Moved, Bound, AtWork, Refreshing, At, Typed, Fields
<1>8. CASE BecomeReady(c)
  <2> DEFINE entry == Ready(t[c].print, file[t[c].key])
             r == [Answered(c, entry.index, entry.print) EXCEPT !.pc = "evict"]
             told == [t EXCEPT ![c] = r]
  <2>1. t' = Told(c, entry, told)
    BY <1>8 DEF BecomeReady
  <2>2. /\ r.mine = NoEntry /\ r.pc = "evict" /\ r.spared = t[c].spared 
        /\ told[c] = r /\ NoEntry # Loading(c)
    BY <1>t, StateOfEntries DEF Answered, Typed, Fields
  <2>3. t'[c] = r
    <3> HIDE DEF entry, r, told
    <3> QED BY <2>1, <2>2 DEF Told
  <2> HIDE DEF entry, r, told
  <2>4. t[c].pc = "ready"
    BY <1>8 DEF BecomeReady, At
  <2> QED BY <1>8, <2>2, <2>3, <2>4, StateOfEntries DEF Moved, Bound, AtWork, Refreshing
<1>9. CASE Fail(c)
  <2> DEFINE told == [t EXCEPT ![c].pc = "unmap"]
  <2>0. t[c].pc = "fail"
    BY <1>9 DEF Fail, At
  <2>1. t' = Told(c, Failed(c), told)
    BY <1>9 DEF Fail
  <2>2. /\ told[c].mine = t[c].mine /\ told[c].spared = t[c].spared
        /\ told[c].pc = "unmap" /\ DOMAIN told[c] = Fields
    BY <1>t DEF Typed, Fields
  <2>3. CASE t[c].mine = Loading(c)
    <3>1. t'[c] = [told[c] EXCEPT !.mine = Failed(c), !.pc = Woken(@)]
      <4> HIDE DEF told
      <4> QED BY <2>1, <2>2, <2>3 DEF Told
    <3>2. t'[c].mine = Failed(c) /\ t'[c].spared = t[c].spared /\ t'[c].pc = "unmap"
      <4> HIDE DEF told
      <4> QED BY <2>2, <3>1 DEF Fields, Woken
    <3> QED BY <1>9, <2>0, <3>2, StateOfEntries DEF Moved, Bound, AtWork, Refreshing
  <2>4. CASE t[c].mine # Loading(c)
    <3> HIDE DEF told
    <3>1. t'[c] = told[c]
      BY <2>1, <2>2, <2>4 DEF Told
    <3> QED BY <1>9, <2>0, <2>2, <3>1 DEF Moved, Bound, AtWork, Refreshing
  <2> QED BY <2>3, <2>4
<1> QED BY <1>1, <1>2, <1>3, <1>4, <1>5, <1>6, <1>7, <1>8, <1>9, <1>10

LEMMA Moves ==
  ASSUME ThreadTypes, NEW c \in Threads, Begins(c) \/ Step(c) PROVE Moved(c)
<1>1. CASE Begins(c)
  BY <1>1, RefreshMoves
<1>2. CASE Step(c)
  BY <1>2, StepGroups, RefreshMoves, SearchMoves, IndexMoves
<1> QED BY <1>1, <1>2

(* Who tells and who is told.                                              *)
Loads(d, k, entry) == entry = Loading(d) /\ t[d].key = k /\ t[d].pc \in AtWork

WaitInv ==
  /\ \A c \in Threads : t[c].mine.state = "loading" =>
        /\ \E d \in Threads : Loads(d, t[c].key, t[c].mine)
        /\ t[c].pc \in {"wait", "asleep"}
  /\ \A c \in Threads : At(c, "asleep") => t[c].mine.state = "loading"
  /\ \A k \in Keys : indexes[k].state = "loading" => \E d \in Threads : Loads(d, k, indexes[k])
  /\ \A c \in Threads : At(c, "recheck") => refreshing = c
  /\ refreshing # None => t[refreshing].pc \in Refreshing

LEMMA OneLoader == \A c, d : Loading(c) = Loading(d) => c = d
BY DEF Loading, Entry

(* A loader stays until it tells what the index became.                    *)
LEMMA LoaderStays ==
  ASSUME Types, WaitInv, NEW c \in Threads, Begins(c) \/ Step(c),
         NEW d \in Threads, NEW k, NEW entry, Loads(d, k, entry)
  PROVE  \/ t'[d].key = k /\ t'[d].pc \in AtWork
         \/ d = c /\ (BecomeReady(c) \/ Fail(c))
<1>1. CASE d = c
  BY <1>1, Moves DEF Moved, Loads, Types
<1>2. CASE d # c
  BY <1>2, Others DEF Loads, Types, AtWork, Woken, ToldBy
<1> QED BY <1>1, <1>2

(* Where an entry is loading after a step, it was, or it has just begun.   *)
LEMMA LoadingEntries ==
  ASSUME Types, NEW c \in Threads, Begins(c) \/ Step(c), NEW k \in Keys,
         indexes'[k].state = "loading"
  PROVE  \/ /\ indexes'[k] = indexes[k]
            /\ (BecomeReady(c) \/ Fail(c)) /\ indexes[k] = Loading(c) => t[c].key # k
         \/ /\ indexes'[k] = Loading(c) /\ t'[c].key = k
            /\ t'[c].pc \in AtWork
<1>t. indexes \in [Keys -> Entries] /\ Typed(t[c]) /\ DOMAIN t = Threads
  BY DEF Types, MemoryTypes, ThreadTypes
<1>0. CASE UNCHANGED <<indexes, recent>> /\ ~(BecomeReady(c) \/ Fail(c))
  BY <1>0
<1>1. CASE ClearIndexes(c) \/ EvictDirectory(c) \/ Unmap(c) \/ StartAgain(c) \/ EvictVictims(c)
  <2>1. PICK gone : indexes' = Dropped(gone)
    BY <1>1 DEF ClearIndexes, EvictDirectory, Unmap, StartAgain, EvictVictims
  <2>2. indexes'[k] = indexes[k]
    BY <2>1, StateOfEntries DEF Dropped
  <2>3. ~(BecomeReady(c) \/ Fail(c))
    BY <1>1
       DEF ClearIndexes, EvictDirectory, Unmap, StartAgain, EvictVictims, BecomeReady, Fail, At
  <2> QED BY <2>2, <2>3
<1>2. CASE Lock(c)
  <2>1. ~(BecomeReady(c) \/ Fail(c))
    BY <1>2 DEF Lock, BecomeReady, Fail, At
  <2>2. CASE UNCHANGED entries
    BY <2>1, <2>2, MemoryParts
  <2>3. CASE indexes' = [indexes EXCEPT ![t[c].key] = Loading(c)] /\ t[c].key # k
    BY <1>t, <2>1, <2>3
  <2>4. CASE ~UNCHANGED entries /\ t[c].key = k
    <3>1. indexes'[k] = Loading(c)
      BY <1>t, <1>2, <2>4 DEF Lock
    <3>2. t'[c].key = k /\ t'[c].pc \in {"invalidate", "load"}
      BY <1>t, <1>2, <2>4 DEF Lock, Typed, Fields
    <3> QED BY <3>1, <3>2 DEF AtWork
  <2> QED BY <1>2, <2>2, <2>3, <2>4 DEF Lock
<1>3. CASE BecomeReady(c)
  BY <1>t, <1>3, StateOfEntries, MemoryParts DEF BecomeReady
<1>4. CASE Fail(c)
  BY <1>t, <1>4, StateOfEntries DEF Fail
<1>5. CASE Wait(c)
  BY <1>5 DEF Wait, BecomeReady, Fail, At
<1>6. CASE Replace(c)
  <2>1. indexes' = [indexes EXCEPT ![t[c].key] = Ready(t[c].got, file[t[c].key])]
    BY <1>6 DEF Replace
  <2>2. indexes'[k] = indexes[k]
    BY <1>t, <2>1, StateOfEntries
  <2>3. ~(BecomeReady(c) \/ Fail(c))
    BY <1>6 DEF Replace, BecomeReady, Fail, At
  <2> QED BY <2>2, <2>3
<1>7. CASE Begins(c)
  <2>1. indexes' = indexes
    BY <1>7, BeginsQuiet
  <2>2. ~(BecomeReady(c) \/ Fail(c))
    BY <1>7 DEF Begins, Begin, BeginOn, BecomeReady, Fail, At
  <2> QED BY <2>1, <2>2
<1> QED BY <1>0, <1>1, <1>2, <1>3, <1>4, <1>5, <1>6, <1>7, StepEntries

(* A sleeper goes on waiting for as long as its index is loading.          *)
LEMMA WaitsOn ==
  ASSUME Types, NEW c \in Threads, Wait(c)
  PROVE  /\ t'[c].pc = "asleep" => t[c].mine.state = "loading" /\ t'[c].mine = t[c].mine
         /\ t[c].mine.state = "loading" =>
              t'[c].pc = "asleep" /\ t'[c].mine = t[c].mine /\ t'[c].key = t[c].key
<1>t. Typed(t[c]) /\ DOMAIN t = Threads
  BY DEF Types, ThreadTypes
<1>1. CASE t[c].mine.state = "loading"
  <2>1. t' = [t EXCEPT ![c].pc = "asleep"]
    BY <1>1 DEF Wait, Outdated
  <2> QED BY <1>t, <1>1, <2>1 DEF Typed, Fields
<1>2. CASE t[c].mine.state # "loading"
  <2>1. CASE t' = [t EXCEPT ![c] = Failing(c)]
    BY <1>t, <1>2, <2>1 DEF Failing, Idle, Typed, Fields
  <2>2. CASE t' = [t EXCEPT ![c].pc = "look", ![c].mine = NoEntry]
    BY <1>t, <1>2, <2>2 DEF Typed, Fields
  <2>3. ASSUME NEW index, NEW print,
               t' = [t EXCEPT ![c] = [Answered(c, index, print) EXCEPT !.pc = AfterIndex(t[c].request)]]
        PROVE  t'[c].pc # "asleep"
    <3>1. t'[c].pc = AfterIndex(t[c].request)
      BY <1>t, <2>3 DEF Answered, Typed, Fields
    <3> QED BY <3>1 DEF AfterIndex
  <2>4. t'[c].pc # "asleep"
    BY <1>2, <2>1, <2>2, <2>3 DEF Wait
  <2> QED BY <1>2, <2>4
<1> QED BY <1>1, <1>2

(* The refresh lock changes hands only when it is free or given back.      *)
LEMMA LockMoves ==
  ASSUME Types, NEW c \in Threads, Begins(c) \/ Step(c)
  PROVE  \/ refreshing' = refreshing /\ ~Acquire(c) /\ ~Recheck(c) /\ ~NextEpochStarts(c)
         \/ Acquire(c) /\ refreshing = None /\ refreshing' = c /\ t'[c].pc = "recheck"
         \/ /\ Recheck(c) /\ t[c].pc = "recheck"
            /\ \/ refreshing' = c /\ t'[c].pc = "save indexes"
               \/ refreshing' = None /\ t'[c].pc \in {"lookup", "idle"}
         \/ /\ NextEpochStarts(c) /\ t[c].pc = "next epoch" /\ t'[c].pc \in {"lookup", "idle"}
            /\ refreshing' = IF refreshing = c THEN None ELSE refreshing
<1>t. Typed(t[c]) /\ DOMAIN t = Threads
  BY DEF Types, ThreadTypes
<1>1. CASE Acquire(c)
  BY <1>t, <1>1 DEF Acquire, Typed, Fields
<1>2. CASE Recheck(c)
  <2>1. PICK verdict \in Verdicts : /\ t'[c] = Checked(c, verdict, "save indexes")
                                   /\ refreshing' = IF verdict = "stale" THEN c ELSE None
    BY <1>t, <1>2 DEF Recheck
  <2>2. CASE verdict = "error"
    <3>1. t'[c] = Idle /\ refreshing' = None
      BY <2>1, <2>2 DEF Checked
    <3>2. t'[c].pc = "idle"
      BY <3>1 DEF Idle
    <3> QED BY <1>2, <3>1, <3>2 DEF Recheck, At
  <2>3. CASE verdict # "error"
    <3>1. t'[c] = [t[c] EXCEPT !.pc = IF verdict = "stale" THEN "save indexes" ELSE "lookup"]
      BY <2>1, <2>3 DEF Checked
    <3>2. t'[c].pc = IF verdict = "stale" THEN "save indexes" ELSE "lookup"
      BY <1>t, <3>1 DEF Typed, Fields
    <3> QED BY <1>2, <2>1, <3>2 DEF Recheck, At
  <2> QED BY <2>2, <2>3
<1>3. CASE NextEpochStarts(c)
  <2>1. t'[c] = [t[c] EXCEPT !.pc = "lookup"] \/ t'[c] = Idle
    BY <1>3 DEF NextEpochStarts
  <2>2. t'[c].pc \in {"lookup", "idle"}
    BY <1>t, <2>1 DEF Idle, Typed, Fields
  <2> QED BY <1>3, <2>2 DEF NextEpochStarts, At
<1> QED BY <1>1, <1>2, <1>3, StepLocks, BeginsQuiet

LEMMA OutsideThread ==
  ASSUME Types, Outside, NEW c \in Threads
  PROVE  /\ t'[c].pc = t[c].pc /\ t'[c].key = t[c].key /\ t'[c].mine = t[c].mine
         /\ t'[c].spared = t[c].spared
<1>1. CASE UNCHANGED t
  BY <1>1
<1>2. CASE \E k \in DeleteKeys : Delete(k)
  <2>1. PICK k : t' = Lowered(k, 0)
    BY <1>2 DEF Delete
  <2> QED BY <2>1 DEF Lowered, Types, ThreadTypes, Typed, Fields
<1> QED BY <1>1, <1>2 DEF Outside, Edit, OtherProcess

LEMMA WaitOutside ==
  ASSUME Types, WaitInv, Outside PROVE WaitInv'
<1>1. UNCHANGED <<indexes, refreshing>>
  BY OutsideQuiet
<1>2. \A c \in Threads : t'[c].pc = t[c].pc /\ t'[c].key = t[c].key /\ t'[c].mine = t[c].mine
  BY OutsideThread
<1>3. refreshing \in Threads \cup {None}
  BY DEF Types, MemoryTypes
<1> QED BY <1>1, <1>2, <1>3 DEF WaitInv, Loads, At

LEMMA WaitStep ==
  ASSUME Types, WaitInv, NEW c \in Threads, Begins(c) \/ Step(c) PROVE WaitInv'
<1>t. ThreadTypes /\ Moved(c) /\ refreshing \in Threads \cup {None} /\ None \notin Threads
  BY Moves, CachesAssumption DEF Types, MemoryTypes
<1>1. ASSUME NEW e \in Threads, t'[e].mine.state = "loading"
      PROVE  /\ \E d \in Threads : Loads(d, t[e].key, t[e].mine)'
             /\ t'[e].pc \in {"wait", "asleep"}
  <2>1. CASE /\ t[e].mine.state = "loading" /\ t'[e].mine = t[e].mine /\ t'[e].key = t[e].key
             /\ t'[e].pc \in {"wait", "asleep"}
             /\ ~ToldBy(c, e)
    <3>1. PICK d \in Threads : Loads(d, t[e].key, t[e].mine)
      BY <2>1 DEF WaitInv
    <3>2. t'[d].key = t[e].key /\ t'[d].pc \in AtWork
      BY <2>1, <3>1, LoaderStays DEF Loads, ToldBy
    <3> QED BY <2>1, <3>1, <3>2 DEF Loads
  <2>2. CASE e # c
    <3>1. /\ t'[e].key = t[e].key /\ t'[e].pc = t[e].pc /\ t'[e].mine = t[e].mine
          /\ ~ToldBy(c, e)
      BY <1>t, <1>1, <2>2, Others, StateOfEntries
    <3> QED BY <1>1, <2>1, <3>1 DEF WaitInv
  <2>3. CASE e = c /\ Lock(c)
    <3>1. t[c].pc = "lock" /\ t[c].key \in Keys /\ DOMAIN t = Threads /\ Typed(t[c])
      BY <2>3, <1>t, KeyKnown DEF Lock, At, OnKey, ThreadTypes
    <3>2. t[c].mine.state # "loading"
      BY <3>1 DEF WaitInv
    <3>3. t'[c].mine = indexes[t[c].key] /\ t'[c].key = t[c].key /\ t'[c].pc = "wait"
      <4>1. \/ \E pc : t' = [t EXCEPT ![c].pc = pc, ![c].print = 0]
            \/ t' = [t EXCEPT ![c].pc = "wait", ![c].mine = indexes[t[c].key], ![c].print = 0]
        BY <2>3 DEF Lock
      <4>2. CASE \E pc : t' = [t EXCEPT ![c].pc = pc, ![c].print = 0]
        BY <1>1, <2>3, <3>1, <3>2, <4>2 DEF Typed, Fields
      <4>3. CASE t' = [t EXCEPT ![c].pc = "wait", ![c].mine = indexes[t[c].key], ![c].print = 0]
        BY <3>1, <4>3 DEF Typed, Fields
      <4> QED BY <4>1, <4>2, <4>3
    <3>4. PICK d \in Threads : Loads(d, t[c].key, indexes[t[c].key])
      BY <1>1, <2>3, <3>1, <3>3 DEF WaitInv
    <3>5. t'[d].key = t[c].key /\ t'[d].pc \in AtWork
      BY <2>3, <3>4, LoaderStays DEF Lock, BecomeReady, Fail, At
    <3> QED BY <2>3, <3>3, <3>4, <3>5 DEF Loads
  <2>4. CASE e = c /\ ~Lock(c)
    <3>1. t'[c].mine = t[c].mine /\ t[c].mine.state = "loading"
      BY <1>t, <1>1, <2>4 DEF Moved
    <3>2. Wait(c)
      BY <1>t, <3>1 DEF WaitInv, Moved
    <3>3. ~(BecomeReady(c) \/ Fail(c))
      BY <3>2 DEF Wait, BecomeReady, Fail, At
    <3> QED BY <2>1, <2>4, <3>1, <3>2, <3>3, WaitsOn DEF ToldBy
  <2> QED BY <2>2, <2>3, <2>4
<1>2. ASSUME NEW e \in Threads, t'[e].pc = "asleep" PROVE t'[e].mine.state = "loading"
  <2>1. CASE e # c
    BY <1>t, <1>2, <2>1, Others DEF WaitInv, At, Woken
  <2>2. CASE e = c
    BY <1>t, <1>2, <2>2, WaitsOn DEF Moved
  <2> QED BY <2>1, <2>2
<1>3. ASSUME NEW k \in Keys, indexes'[k].state = "loading"
      PROVE  \E d \in Threads : Loads(d, k, indexes[k])'
  <2>1. CASE indexes'[k] = Loading(c) /\ t'[c].key = k /\ t'[c].pc \in AtWork
    BY <2>1 DEF Loads
  <2>2. CASE /\ indexes'[k] = indexes[k]
             /\ (BecomeReady(c) \/ Fail(c)) /\ indexes[k] = Loading(c) => t[c].key # k
    <3>1. PICK d \in Threads : Loads(d, k, indexes[k])
      BY <1>3, <2>2 DEF WaitInv
    <3>2. t'[d].key = k /\ t'[d].pc \in AtWork
      BY <2>2, <3>1, LoaderStays DEF Loads
    <3> QED BY <2>2, <3>1, <3>2 DEF Loads
  <2> QED BY <1>3, <2>1, <2>2, LoadingEntries
<1>4. ASSUME NEW e \in Threads, t'[e].pc = "recheck" PROVE refreshing' = e
  <2>1. CASE e # c
    <3>1. t[e].pc = "recheck"
      BY <1>t, <1>4, <2>1, Others DEF Woken
    <3>2. refreshing = e
      BY <3>1 DEF WaitInv, At
    <3>3. Recheck(c) => refreshing = c
      BY DEF WaitInv, Recheck
    <3> QED BY <1>t, <2>1, <3>2, <3>3, LockMoves
  <2>2. CASE e = c
    BY <1>t, <1>4, <2>2, LockMoves DEF Moved
  <2> QED BY <2>1, <2>2
<1>5. ASSUME refreshing' # None PROVE t'[refreshing'].pc \in Refreshing
  <2>1. CASE refreshing' = refreshing /\ refreshing # c
    <3>1. refreshing \in Threads /\ t[refreshing].pc \in Refreshing
      BY <1>t, <1>5, <2>1 DEF WaitInv
    <3>2. t'[refreshing].pc = t[refreshing].pc
      BY <1>t, <2>1, <3>1, Others DEF Woken, Refreshing
    <3> QED BY <2>1, <3>1, <3>2
  <2>2. CASE refreshing' = refreshing /\ refreshing = c /\ ~Recheck(c) /\ ~NextEpochStarts(c)
    BY <1>t, <1>5, <2>2 DEF WaitInv, Moved
  <2>3. CASE refreshing' = c /\ t'[c].pc \in {"recheck", "save indexes"}
    BY <2>3 DEF Refreshing
  <2>4. Recheck(c) => refreshing = c
    BY DEF WaitInv, Recheck
  <2> QED BY <1>5, <2>1, <2>2, <2>3, <2>4, <1>t, LockMoves
<1> QED BY <1>1, <1>2, <1>3, <1>4, <1>5 DEF WaitInv, At

LEMMA WaitAlways ==
  ASSUME Types, WaitInv, [Next]_vars PROVE WaitInv'
<1>1. CASE UNCHANGED vars
  BY <1>1, MemoryParts DEF vars, WaitInv, Loads, At
<1> QED BY <1>1, WaitOutside, WaitStep, NextSteps

LEMMA FirstThreads ==
  ASSUME Init
  PROVE  /\ \A c \in Threads : t[c] = IF c = Starter THEN Starting ELSE Idle
         /\ Idle.pc = "idle" /\ Idle.mine = NoEntry /\ Idle.spared = {}
         /\ Idle.request = None
         /\ Starting.pc = "manifest" /\ Starting.mine = NoEntry /\ Starting.spared = {}
         /\ Starting.todo = DirKeys /\ Starting.request = "warm"
BY DEF Init, Starting, Idle

LEMMA WaitInit == ASSUME Init PROVE WaitInv
<1>1. \A c \in Threads : t[c].mine = NoEntry /\ t[c].pc \in {"idle", "manifest"}
  BY FirstThreads
<1>2. (\A k \in Keys : indexes[k].state = "none") /\ refreshing = None
  BY StateOfEntries DEF Init
<1> QED BY <1>1, <1>2, StateOfEntries DEF WaitInv, At

(* However loads, failures, evictions and clearings overlap, who sleeps on *)
(* an index that another thread loads sleeps on that thread's own entry    *)
(* while it is at work (IndexCacheEntry.wait_ready, notify_all), and the   *)
(* shard refresh lock is held only by a thread on its way to release it.   *)
(* So no two threads wait for each other.                                  *)
THEOREM NobodyIsForgotten == Spec => []WaitsEnd
<1>1. Init => Types /\ WaitInv
  <2> SUFFICES ASSUME Init PROVE Types /\ WaitInv
    OBVIOUS
  <2> QED BY TypesInit, WaitInit
<1>2. Types /\ WaitInv /\ [Next]_vars => (Types /\ WaitInv)'
  BY TypesStep, WaitAlways
<1>3. Types /\ WaitInv => WaitsEnd
  <2> SUFFICES ASSUME Types, WaitInv PROVE WaitsEnd
    OBVIOUS
  <2>1. ASSUME NEW c \in Threads, At(c, "asleep")
        PROVE  \E d \in Threads : /\ t[c].mine = Loading(d) /\ t[d].key = t[c].key
                                  /\ t[d].pc \in {"invalidate", "load", "ready", "fail"}
    BY <2>1 DEF WaitInv, Loads, AtWork
  <2> QED BY <2>1 DEF WaitsEnd, WaitInv
<1> QED BY <1>1, <1>2, <1>3, PTL DEF Spec

-----------------------------------------------------------------------------
(* Few indexes stay that were never pinned                                 *)

Evicting == {c \in Threads : At(c, "evict") \/ At(c, "victims")}
ColdReady == {k \in SoloKeys : IsReady(k)}

ColdInv ==
  /\ pinned \subseteq DirKeys
  /\ \A c \in Threads : t[c].spared \subseteq DirKeys
  /\ Cardinality(ColdReady) <= MaxReady + Cardinality(Evicting)

LEMMA ColdFinite ==
  /\ IsFiniteSet(ColdReady) /\ Cardinality(ColdReady) \in Nat
  /\ IsFiniteSet(Evicting) /\ Cardinality(Evicting) \in Nat
  /\ IsFiniteSet(ColdReady') /\ Cardinality(ColdReady') \in Nat
  /\ IsFiniteSet(Evicting') /\ Cardinality(Evicting') \in Nat
<1>1. \A S : S \subseteq Keys \/ S \subseteq Threads => IsFiniteSet(S)
  BY CachesAssumption, FS_Subset
<1>2. ColdReady \subseteq Keys /\ Evicting \subseteq Threads
      /\ ColdReady' \subseteq Keys /\ Evicting' \subseteq Threads
  BY DEF ColdReady, Evicting, Keys
<1> QED BY <1>1, <1>2, FS_CardinalityType

LEMMA Larger ==
  ASSUME NEW S, NEW T, IsFiniteSet(T), S \subseteq T
  PROVE  Cardinality(S) <= Cardinality(T)
BY FS_Subset

(* The state of the entries decides what is ready.                         *)
LEMMA ReadyMoves ==
  ASSUME Types, NEW c \in Threads, Begins(c) \/ Step(c)
  PROVE  \/ ColdReady' \subseteq ColdReady
         \/ /\ BecomeReady(c) \/ Replace(c)
            /\ ColdReady' \subseteq ColdReady \cup {t[c].key}
<1>t. indexes \in [Keys -> Entries] /\ SoloKeys \subseteq Keys
  BY DEF Types, MemoryTypes, Keys
<1>0. ASSUME NEW gone, indexes' = Dropped(gone) PROVE ColdReady' \subseteq ColdReady
  BY <1>t, <1>0, StateOfEntries DEF ColdReady, IsReady, Dropped
<1>1. CASE ClearIndexes(c) \/ EvictDirectory(c) \/ Unmap(c) \/ StartAgain(c) \/ EvictVictims(c)
  BY <1>0, <1>1 DEF ClearIndexes, EvictDirectory, Unmap, StartAgain, EvictVictims
<1>2. ASSUME NEW k, NEW entry, indexes' = [indexes EXCEPT ![k] = entry]
      PROVE  /\ ColdReady' \subseteq ColdReady \cup {k}
             /\ entry.state # "ready" => ColdReady' \subseteq ColdReady
  BY <1>t, <1>2 DEF ColdReady, IsReady
<1>3. CASE indexes' = indexes
  BY <1>3 DEF ColdReady, IsReady
<1>4. CASE Lock(c)
  <2>1. indexes' = indexes \/ indexes' = [indexes EXCEPT ![t[c].key] = Loading(c)]
    BY <1>4, MemoryParts DEF Lock
  <2>2. Loading(c).state # "ready"
    BY StateOfEntries
  <2> QED BY <1>2, <1>3, <2>1, <2>2
<1>5. CASE BecomeReady(c)
  BY <1>2, <1>3, <1>5, MemoryParts DEF BecomeReady
<1>6. CASE Fail(c)
  <2>1. \A k \in Keys : indexes'[k] \in {indexes[k], Failed(c)}
    BY <1>t, <1>6 DEF Fail
  <2> QED BY <1>t, <2>1, StateOfEntries DEF ColdReady, IsReady
<1>7. CASE Replace(c)
  BY <1>2, <1>7 DEF Replace
<1> QED BY <1>1, <1>3, <1>4, <1>5, <1>6, <1>7, StepEntries, BeginsQuiet DEF Wait

(* Who makes an index ready has yet to evict.                              *)
LEMMA EvictsNext ==
  ASSUME Types, NEW c \in Threads, BecomeReady(c) \/ Replace(c)
  PROVE  t[c].pc \notin {"evict", "victims"} /\ t'[c].pc = "evict"
<1>t. DOMAIN t = Threads /\ Typed(t[c])
  BY DEF Types, ThreadTypes
<1>1. CASE Replace(c)
  BY <1>t, <1>1 DEF Replace, At, Typed, Fields
<1>2. CASE BecomeReady(c)
  <2> DEFINE entry == Ready(t[c].print, file[t[c].key])
             r == [Answered(c, entry.index, entry.print) EXCEPT !.pc = "evict"]
             told == [t EXCEPT ![c] = r]
  <2>1. t' = Told(c, entry, told) /\ t[c].pc = "ready"
    BY <1>2 DEF BecomeReady, At
  <2>2. told[c] = r /\ r.pc = "evict" /\ r.mine # Loading(c)
    BY <1>t, StateOfEntries DEF Answered, Typed, Fields
  <2>3. t'[c] = r
    <3> HIDE DEF entry, r, told
    <3> QED BY <2>1, <2>2 DEF Told
  <2> QED BY <2>1, <2>2, <2>3
<1> QED BY <1>1, <1>2

(* Every other step leaves who evicts as it is, but for the end of one.    *)
LEMMA EvictingMoves ==
  ASSUME Types, NEW c \in Threads, Begins(c) \/ Step(c), ~EvictVictims(c)
  PROVE  Evicting \subseteq Evicting'
<1> SUFFICES ASSUME NEW d \in Evicting PROVE t'[d].pc \in {"evict", "victims"}
  BY DEF Evicting, At
<1>t. /\ ThreadTypes /\ Typed(t[c]) /\ DOMAIN t = Threads /\ Moved(c)
      /\ d \in Threads /\ t[d].pc \in {"evict", "victims"}
  BY Moves DEF Types, ThreadTypes, Evicting, At
<1>1. CASE d # c
  BY <1>t, <1>1, Others DEF Woken
<1>2. CASE d = c
  <2>1. Evict(c)
    BY <1>t, <1>2 DEF Moved
  <2> QED BY <1>t, <1>2, <2>1 DEF Evict, Typed, Fields
<1> QED BY <1>1, <1>2

(* What the eviction leaves: as many as the limit allows, or nothing but   *)
(* its own index and those it has to spare.                                *)
LEMMA FewLeft ==
  ASSUME Types, ColdInv, NEW c \in Threads, EvictVictims(c)
  PROVE  Cardinality(ColdReady') <= MaxReady
<1> DEFINE ready == {k \in Keys : IsReady(k)}
           rest == ready \ ({t[c].key} \cup t[c].spared)
           n == Len(Evictable(c))
<1>t. /\ indexes \in [Keys -> Entries] /\ SoloKeys \subseteq Keys /\ DirKeys \cap SoloKeys = {}
      /\ t[c].spared \subseteq DirKeys /\ MaxReady \in Nat /\ 1 <= MaxReady
  BY CachesAssumption DEF Types, MemoryTypes, Keys, ColdInv
<1>1. /\ IsFiniteSet(ready) /\ Cardinality(ready) = Len(recent) /\ Len(recent) \in Nat
  BY LengthIsSize DEF Types, InOrder
<1>2. /\ Lists(Evictable(c), rest) /\ Victims(c) \subseteq rest
  BY VictimsType
<1>3. n \in Nat
  BY <1>2, LengthIsSize
<1>4. ColdReady' \subseteq (ready \ Victims(c)) \cap SoloKeys
  BY <1>t, StateOfEntries DEF EvictVictims, Dropped, ColdReady, IsReady
<1>5. CASE n <= TooMany
  <2>1. Smaller(TooMany, n) = n
    BY <1>1, <1>3, <1>5, <1>t DEF Smaller, TooMany
  <2>2. Victims(c) = rest
    BY <1>2, <2>1 DEF Victims, Lists
  <2>3. ColdReady' \subseteq {t[c].key}
    BY <1>t, <1>4, <2>2
  <2>4. IsFiniteSet({t[c].key}) /\ Cardinality({t[c].key}) = 1
    BY FS_Singleton
  <2>5. Cardinality(ColdReady') <= 1
    BY <2>3, <2>4, Larger
  <2> QED BY <1>t, <2>5, ColdFinite
<1>6. CASE TooMany < n
  <2> DEFINE count == TooMany
  <2>1. TooMany \in Nat /\ Smaller(TooMany, n) = TooMany
    BY <1>1, <1>3, <1>6, <1>t DEF Smaller, TooMany
  <2>2. Cardinality(Victims(c)) = TooMany /\ IsFiniteSet(Victims(c))
    <3>1. Victims(c) = {Evictable(c)[i] : i \in 1 .. TooMany}
      BY <2>1 DEF Victims
    <3> DEFINE pick == [i \in 1 .. TooMany |-> Evictable(c)[i]]
    <3>2. 1 .. TooMany \subseteq 1 .. n
      BY <1>3, <1>6, <2>1
    <3>3. \A i, j \in 1 .. TooMany : Evictable(c)[i] = Evictable(c)[j] => i = j
      BY <1>2, <3>2 DEF Lists
    <3>4. pick \in Bijection(1 .. TooMany, Victims(c))
      BY <3>1, <3>3 DEF Bijection, Injection, Surjection, IsInjective
    <3>5. ExistsBijection(1 .. TooMany, Victims(c))
      BY <3>4 DEF ExistsBijection
    <3> QED BY <2>1, <3>5, FS_NatBijection, FS_CountingElements
  <2>3. Victims(c) \subseteq ready
    BY <1>2
  <2>4. Cardinality(ready \ Victims(c)) = Cardinality(ready) - TooMany
    <3>1. ready \cap Victims(c) = Victims(c)
      BY <2>3
    <3>2. Cardinality(ready \ Victims(c))
            = Cardinality(ready) - Cardinality(ready \cap Victims(c))
      <4> HIDE DEF ready
      <4> QED BY <1>1, FS_Difference
    <3> QED BY <2>2, <3>1, <3>2
  <2>5. Cardinality(ready) - TooMany <= MaxReady
    BY <1>1, <1>t DEF TooMany
  <2>6. IsFiniteSet(ready \ Victims(c)) /\ ColdReady' \subseteq ready \ Victims(c)
    BY <1>1, <1>4, FS_Difference
  <2>7. Cardinality(ColdReady') <= Cardinality(ready \ Victims(c))
    BY <2>6, Larger
  <2> QED BY <1>1, <1>t, <2>1, <2>4, <2>5, <2>7, ColdFinite
<1> QED BY <1>1, <1>3, <1>t, <1>5, <1>6 DEF TooMany

LEMMA ColdStep ==
  ASSUME Types, ColdInv, NEW c \in Threads, Begins(c) \/ Step(c) PROVE ColdInv'
<1>t. /\ ThreadTypes /\ Typed(t[c]) /\ DOMAIN t = Threads /\ Moved(c)
      /\ MaxReady \in Nat /\ 1 <= MaxReady
  BY Moves, CachesAssumption DEF Types, ThreadTypes
<1>1. pinned' \subseteq DirKeys
  BY StepPins, BeginsQuiet DEF ColdInv, ClearPins, UnpinDirectory, Visit, StartAgain
<1>2. ASSUME NEW d \in Threads PROVE t'[d].spared \subseteq DirKeys
  <2>1. CASE d # c
    BY <1>t, <2>1, Others DEF ColdInv
  <2>2. CASE d = c /\ Evict(c)
    BY <1>t, <2>2 DEF Evict, Typed, Fields, ColdInv
  <2>3. CASE d = c /\ ~Evict(c)
    BY <1>t, <2>3 DEF Moved, ColdInv
  <2> QED BY <2>1, <2>2, <2>3
<1>3. Cardinality(ColdReady') <= MaxReady + Cardinality(Evicting')
  <2>1. CASE EvictVictims(c)
    BY <1>t, <2>1, FewLeft, ColdFinite
  <2>2. CASE ~EvictVictims(c) /\ ColdReady' \subseteq ColdReady
    <3>1. Cardinality(ColdReady') <= Cardinality(ColdReady)
      BY <2>2, ColdFinite, Larger
    <3>2. Cardinality(Evicting) <= Cardinality(Evicting')
      BY <2>2, ColdFinite, Larger, EvictingMoves
    <3> QED BY <1>t, <3>1, <3>2, ColdFinite DEF ColdInv
  <2>3. CASE ~EvictVictims(c) /\ (BecomeReady(c) \/ Replace(c))
             /\ ColdReady' \subseteq ColdReady \cup {t[c].key}
    <3>1. Cardinality(ColdReady') <= Cardinality(ColdReady \cup {t[c].key})
      BY <2>3, ColdFinite, Larger, FS_AddElement
    <3>2. Cardinality(ColdReady \cup {t[c].key}) <= Cardinality(ColdReady) + 1
      <4>1. Cardinality(ColdReady \cup {t[c].key})
              \in {Cardinality(ColdReady), Cardinality(ColdReady) + 1}
        BY ColdFinite, FS_AddElement
      <4> QED BY <4>1, ColdFinite
    <3>3. c \notin Evicting /\ Evicting \cup {c} \subseteq Evicting'
      BY <2>3, EvictsNext, EvictingMoves DEF Evicting, At
    <3>4. Cardinality(Evicting \cup {c}) = Cardinality(Evicting) + 1
      BY <3>3, ColdFinite, FS_AddElement
    <3>5. Cardinality(Evicting \cup {c}) <= Cardinality(Evicting')
      BY <3>3, ColdFinite, Larger
    <3>6. Cardinality(ColdReady \cup {t[c].key}) \in Nat
      BY ColdFinite, FS_AddElement, FS_CardinalityType
    <3> QED BY <1>t, <3>1, <3>2, <3>4, <3>5, <3>6, ColdFinite DEF ColdInv
  <2> QED BY <2>1, <2>2, <2>3, ReadyMoves
<1> QED BY <1>1, <1>2, <1>3 DEF ColdInv

LEMMA ColdAlways ==
  ASSUME Types, ColdInv, [Next]_vars PROVE ColdInv'
<1>1. CASE UNCHANGED vars
  BY <1>1, MemoryParts DEF vars, ColdInv, ColdReady, Evicting, IsReady, At
<1>2. CASE Outside
  <2>1. \A c \in Threads : t'[c].pc = t[c].pc /\ t'[c].spared = t[c].spared
    BY <1>2, OutsideThread
  <2>2. ColdReady' = ColdReady /\ Evicting' = Evicting /\ pinned' = pinned
    BY <1>2, <2>1, OutsideQuiet DEF ColdReady, Evicting, IsReady, At
  <2> QED BY <2>1, <2>2 DEF ColdInv
<1> QED BY <1>1, <1>2, ColdStep, NextSteps

(* evict_cached_indexes_if_needed keeps the cache small: however many      *)
(* threads load and evict at once, the indexes that nothing ever pinned    *)
(* exceed max_ready_indexes by no more than the evictions under way.       *)
THEOREM FewColdIndexes == Spec => []ColdWithinLimit
<1>1. Init => Types /\ ColdInv
  <2> SUFFICES ASSUME Init PROVE Types /\ ColdInv
    OBVIOUS
  <2>1. ColdReady = {}
    BY StateOfEntries DEF Init, ColdReady, IsReady, Keys
  <2>2. Cardinality(ColdReady) = 0
    BY <2>1, FS_EmptySet
  <2>3. \A c \in Threads : t[c].spared = {}
    BY FirstThreads
  <2> QED BY <2>2, <2>3, TypesInit, ColdFinite, CachesAssumption DEF Init, ColdInv
<1>2. Types /\ ColdInv /\ [Next]_vars => (Types /\ ColdInv)'
  BY TypesStep, ColdAlways
<1>3. ColdInv => ColdWithinLimit
  BY DEF ColdInv, ColdWithinLimit, ColdReady, Evicting
<1> QED BY <1>1, <1>2, <1>3, PTL DEF Spec

-----------------------------------------------------------------------------
(* What a step leaves in the record of its thread                          *)

Moves1(c, from, to) == t[c].pc = from /\ \E pc \in to : t'[c] = [t[c] EXCEPT !.pc = pc]

LEMMA PcRow ==
  ASSUME ThreadTypes, NEW c \in Threads, NEW pc, t' = [t EXCEPT ![c].pc = pc]
  PROVE  t'[c] = [t[c] EXCEPT !.pc = pc]
BY DEF ThreadTypes

(* Steps that move on and do nothing else to it.                           *)
LEMMA PcRows ==
  ASSUME ThreadTypes, NEW c \in Threads
  PROVE  /\ Acquire(c) => Moves1(c, "acquire", {"recheck"})
         /\ SaveManifest(c) => Moves1(c, "save manifest", {"clear indexes"})
         /\ ClearIndexes(c) => Moves1(c, "clear indexes", {"clear pins"})
         /\ ClearPins(c) => Moves1(c, "clear pins", {"clear manifests"})
         /\ ClearManifests(c) => Moves1(c, "clear manifests", {"next epoch"})
         /\ UnpinDirectory(c) => Moves1(c, "unpin directory", {"put manifest"})
         /\ Invalidate(c) => Moves1(c, "invalidate", {"load"})
         /\ Replace(c) => Moves1(c, "replace", {"evict"})
<1>2. Acquire(c) => Moves1(c, "acquire", {"recheck"})
  BY PcRow DEF Acquire, At, Moves1
<1>4. SaveManifest(c) => Moves1(c, "save manifest", {"clear indexes"})
  BY PcRow DEF SaveManifest, At, Moves1
<1>5. ClearIndexes(c) => Moves1(c, "clear indexes", {"clear pins"})
  BY PcRow DEF ClearIndexes, At, Moves1
<1>6. ClearPins(c) => Moves1(c, "clear pins", {"clear manifests"})
  BY PcRow DEF ClearPins, At, Moves1
<1>7. ClearManifests(c) => Moves1(c, "clear manifests", {"next epoch"})
  BY PcRow DEF ClearManifests, At, Moves1
<1>8. UnpinDirectory(c) => Moves1(c, "unpin directory", {"put manifest"})
  BY PcRow DEF UnpinDirectory, At, Moves1
<1>9. Invalidate(c) => Moves1(c, "invalidate", {"load"})
  BY PcRow DEF Invalidate, At, Moves1
<1>10. Replace(c) => Moves1(c, "replace", {"evict"})
  BY PcRow DEF Replace, At, Moves1
<1> QED BY <1>2, <1>4, <1>5, <1>6, <1>7, <1>8, <1>9, <1>10

(* The two looks at the directory, which may end in an error.              *)
LEMMA CheckRows ==
  ASSUME ThreadTypes, NEW c \in Threads
  PROVE  /\ Check(c) => t'[c] = Idle \/ Moves1(c, "check", {"acquire", "lookup"})
         /\ Recheck(c) => t'[c] = Idle \/ Moves1(c, "recheck", {"save indexes", "lookup"})
<1>t. DOMAIN t = Threads
  BY DEF ThreadTypes
<1>1. ASSUME NEW verdict, NEW next, t' = [t EXCEPT ![c] = Checked(c, verdict, next)]
      PROVE  t'[c] = Idle \/ \E pc \in {next, "lookup"} : t'[c] = [t[c] EXCEPT !.pc = pc]
  BY <1>t, <1>1 DEF Checked
<1>2. CASE Check(c)
  <2>1. PICK verdict : t' = [t EXCEPT ![c] = Checked(c, verdict, "acquire")]
    BY <1>2 DEF Check
  <2>2. t'[c] = Idle \/ \E pc \in {"acquire", "lookup"} : t'[c] = [t[c] EXCEPT !.pc = pc]
    BY <1>1, <2>1
  <2> QED BY <1>2, <2>2 DEF Check, Recheck, At, Moves1
<1>3. CASE Recheck(c)
  <2>1. PICK verdict : t' = [t EXCEPT ![c] = Checked(c, verdict, "save indexes")]
    BY <1>3 DEF Recheck
  <2>2. t'[c] = Idle \/ \E pc \in {"save indexes", "lookup"} : t'[c] = [t[c] EXCEPT !.pc = pc]
    BY <1>1, <2>1
  <2> QED BY <1>3, <2>2 DEF Check, Recheck, At, Moves1
<1> QED BY <1>2, <1>3

(* The steps of a refresh and of a search over the directory.              *)
LEMMA SearchRows ==
  ASSUME ThreadTypes, NEW c \in Threads
  PROVE  /\ SaveIndexes(c) => t'[c] = [t[c] EXCEPT !.pc = "save manifest", !.wrote = source]
         /\ NextEpochStarts(c) =>
              t'[c] = IF t[c].request = "fresh" THEN [t[c] EXCEPT !.pc = "lookup"] ELSE Idle
         /\ Lookup(c) =>
              \/ completed # 0 /\ t'[c] = [t[c] EXCEPT !.pc = "answered", !.got = completed]
              \/ t'[c] = [t[c] EXCEPT !.pc = "visit", !.todo = DirKeys, !.current = TRUE]
              \/ t'[c] = [t[c] EXCEPT !.pc = "manifest", !.todo = DirKeys, !.current = TRUE,
                                      !.manifestSince = manifest]
         /\ Manifest(c) =>
              \/ cached.print = manifest
                 /\ t'[c] = [t[c] EXCEPT !.pc = "visit", !.manifest = cached]
              \/ \E pc \in {"load manifest", "reload manifest"} : t'[c] = [t[c] EXCEPT !.pc = pc]
         /\ LoadManifest(c) =>
              \E pc \in {"put manifest", "evict directory"} :
                t'[c] = [t[c] EXCEPT !.manifest.version = manifest, !.pc = pc]
         /\ EvictDirectory(c) =>
              t'[c] = [t[c] EXCEPT !.pc = "unpin directory", !.manifest.print = manifest]
         /\ PutManifest(c) =>
              \E print : t'[c] = [t[c] EXCEPT !.pc = "visit",
                                              !.manifest = [t[c].manifest EXCEPT !.print = print]]
         /\ \A k : Visit(c, k) =>
              t'[c] = [t[c] EXCEPT !.pc = "look", !.key = k, !.todo = @ \ {k},
                                   !.manifest = NoManifest, !.manifestSince = 0]
         /\ Store(c) => t'[c] = [t[c] EXCEPT !.pc = "answered", !.key = None, !.current = FALSE]
         /\ Return(c) \/ Warmed(c) => t'[c] = Idle
         /\ StartAgain(c) => t'[c] = Starting
<1>t. DOMAIN t = Threads
  BY DEF ThreadTypes
<1>1. SaveIndexes(c) => t'[c] = [t[c] EXCEPT !.pc = "save manifest", !.wrote = source]
  BY <1>t DEF SaveIndexes
<1>2. NextEpochStarts(c) =>
        t'[c] = IF t[c].request = "fresh" THEN [t[c] EXCEPT !.pc = "lookup"] ELSE Idle
  BY DEF NextEpochStarts
<1>3. Lookup(c) =>
        \/ completed # 0 /\ t'[c] = [t[c] EXCEPT !.pc = "answered", !.got = completed]
        \/ t'[c] = [t[c] EXCEPT !.pc = "visit", !.todo = DirKeys, !.current = TRUE]
        \/ t'[c] = [t[c] EXCEPT !.pc = "manifest", !.todo = DirKeys, !.current = TRUE,
                                !.manifestSince = manifest]
  BY <1>t DEF Lookup
<1>4. Manifest(c) =>
        \/ cached.print = manifest /\ t'[c] = [t[c] EXCEPT !.pc = "visit", !.manifest = cached]
        \/ \E pc \in {"load manifest", "reload manifest"} : t'[c] = [t[c] EXCEPT !.pc = pc]
  BY <1>t DEF Manifest
<1>5. LoadManifest(c) =>
        \E pc \in {"put manifest", "evict directory"} :
          t'[c] = [t[c] EXCEPT !.manifest.version = manifest, !.pc = pc]
  BY <1>t DEF LoadManifest
<1>6. EvictDirectory(c) =>
        t'[c] = [t[c] EXCEPT !.pc = "unpin directory", !.manifest.print = manifest]
  BY <1>t DEF EvictDirectory
<1>7. PutManifest(c) =>
        \E print : t'[c] = [t[c] EXCEPT !.pc = "visit",
                                        !.manifest = [t[c].manifest EXCEPT !.print = print]]
  <2> SUFFICES ASSUME PutManifest(c)
               PROVE  \E print : t'[c] = [t[c] EXCEPT !.pc = "visit",
                                            !.manifest = [t[c].manifest EXCEPT !.print = print]]
    OBVIOUS
  <2> DEFINE taken == IF t[c].manifest.print = 0 THEN manifest ELSE t[c].manifest.print
  <2>1. t'[c] = [t[c] EXCEPT !.pc = "visit",
                             !.manifest = [t[c].manifest EXCEPT !.print = taken]]
    BY <1>t DEF PutManifest
  <2> QED BY <2>1
<1>8. \A k : Visit(c, k) =>
        t'[c] = [t[c] EXCEPT !.pc = "look", !.key = k, !.todo = @ \ {k},
                             !.manifest = NoManifest, !.manifestSince = 0]
  BY <1>t DEF Visit
<1>9. Store(c) => t'[c] = [t[c] EXCEPT !.pc = "answered", !.key = None, !.current = FALSE]
  BY <1>t DEF Store
<1>10. Return(c) \/ Warmed(c) => t'[c] = Idle
  BY <1>t DEF Return, Warmed
<1>11. StartAgain(c) => t'[c] = Starting
  BY <1>t DEF StartAgain
<1> QED BY <1>1, <1>2, <1>3, <1>4, <1>5, <1>6, <1>7, <1>8, <1>9, <1>10, <1>11

(* The answer so far: the oldest index that it was taken from.             *)
Oldest(got, index) == IF got = 0 THEN index ELSE Smaller(got, index)

After(c, index, print, pc) ==
  [t[c] EXCEPT !.pc = pc, !.got = Oldest(@, index), !.mine = NoEntry,
               !.print = IF t[c].request = "read" THEN print ELSE 0]

LEMMA AfterAnswered ==
  ASSUME NEW c \in Threads, Typed(t[c]), NEW index, NEW print, NEW pc
  PROVE  [Answered(c, index, print) EXCEPT !.pc = pc] = After(c, index, print, pc)
BY DEF Answered, After, Oldest, Typed, Fields

LEMMA FailingRow ==
  ASSUME ThreadTypes, NEW c \in Threads, t' = [t EXCEPT ![c] = Failing(c)]
  PROVE  \/ t'[c] = Idle
         \/ t[c].request = "warm" /\ t'[c] = [t[c] EXCEPT !.pc = "exit", !.mine = NoEntry]
BY DEF ThreadTypes, Failing

LEMMA NotItsOwn ==
  ASSUME WaitInv, NEW c \in Threads, t[c].pc \in AtWork PROVE t[c].mine.state # "loading"
BY DEF WaitInv, AtWork

LEMMA LoadRows ==
  ASSUME ThreadTypes, WaitInv, NEW c \in Threads
  PROVE  /\ Load(c) =>
              t'[c] = [t[c] EXCEPT !.pc = IF file[t[c].key] = 0 THEN "fail" ELSE "ready",
                                   !.print = file[t[c].key]]
         /\ BecomeReady(c) => t'[c] = After(c, t[c].print, file[t[c].key], "evict")
         /\ Fail(c) => t'[c] = [t[c] EXCEPT !.pc = "unmap"]
         /\ Unmap(c) =>
              \/ t'[c] = Idle
              \/ t[c].request = "warm" /\ t'[c] = [t[c] EXCEPT !.pc = "exit", !.mine = NoEntry]
<1>t. DOMAIN t = Threads /\ Typed(t[c])
  BY DEF ThreadTypes
<1>1. Load(c) => t'[c] = [t[c] EXCEPT !.pc = IF file[t[c].key] = 0 THEN "fail" ELSE "ready",
                                      !.print = file[t[c].key]]
  BY <1>t DEF Load
<1>2. ASSUME BecomeReady(c) PROVE t'[c] = After(c, t[c].print, file[t[c].key], "evict")
  <2> DEFINE entry == Ready(t[c].print, file[t[c].key])
             r == [Answered(c, entry.index, entry.print) EXCEPT !.pc = "evict"]
             told == [t EXCEPT ![c] = r]
  <2>1. t' = Told(c, entry, told)
    BY <1>2 DEF BecomeReady
  <2>2. entry.index = t[c].print /\ entry.print = file[t[c].key]
    BY StateOfEntries
  <2>3. r = After(c, t[c].print, file[t[c].key], "evict")
    BY <1>t, <2>2, AfterAnswered
  <2>4. After(c, t[c].print, file[t[c].key], "evict").mine = NoEntry
    BY <1>t DEF After, Typed, Fields
  <2>5. r.mine # Loading(c) /\ told[c] = r
    <3> HIDE DEF r
    <3> QED BY <1>t, <2>3, <2>4, StateOfEntries
  <2> HIDE DEF entry, r, told
  <2> QED BY <2>1, <2>3, <2>5 DEF Told
<1>3. ASSUME Fail(c) PROVE t'[c] = [t[c] EXCEPT !.pc = "unmap"]
  <2> DEFINE told == [t EXCEPT ![c].pc = "unmap"]
  <2>1. t' = Told(c, Failed(c), told)
    BY <1>3 DEF Fail
  <2>2. told[c] = [t[c] EXCEPT !.pc = "unmap"] /\ told[c].mine = t[c].mine
    BY <1>t DEF Typed, Fields
  <2>3. t[c].mine # Loading(c)
    BY <1>3, NotItsOwn, StateOfEntries DEF Fail, At, AtWork
  <2> HIDE DEF told
  <2> QED BY <2>1, <2>2, <2>3 DEF Told
<1>4. Unmap(c) => t' = [t EXCEPT ![c] = Failing(c)]
  BY DEF Unmap
<1> QED BY <1>1, <1>2, <1>3, <1>4, FailingRow

LEMMA IndexRows ==
  ASSUME ThreadTypes, NEW c \in Threads
  PROVE  /\ Look(c) => t'[c] = [t[c] EXCEPT !.pc = "lock", !.print = file[t[c].key]]
         /\ Lock(c) =>
              \/ t'[c] = [t[c] EXCEPT !.pc = "wait", !.mine = indexes[t[c].key], !.print = 0]
              \/ \E pc \in {"invalidate", "load"} : t'[c] = [t[c] EXCEPT !.pc = pc, !.print = 0]
         /\ Wait(c) =>
              \/ t'[c] = [t[c] EXCEPT !.pc = "asleep"]
              \/ t'[c] = Idle
              \/ t[c].request = "warm" /\ t'[c] = [t[c] EXCEPT !.pc = "exit", !.mine = NoEntry]
              \/ t'[c] = [t[c] EXCEPT !.pc = "look", !.mine = NoEntry]
              \/ /\ t[c].mine.state = "ready" /\ ~Outdated(t[c].mine, file[t[c].key])
                 /\ t'[c] = After(c, t[c].mine.index, t[c].mine.print, AfterIndex(t[c].request))
         /\ Evict(c) => t'[c] = [t[c] EXCEPT !.pc = "victims", !.spared = pinned]
         /\ EvictVictims(c) =>
              \/ t[c].request = "update" /\ t'[c] = Idle
              \/ /\ t[c].request # "update"
                 /\ t'[c] = [t[c] EXCEPT !.pc = AfterIndex(t[c].request), !.spared = {}]
         /\ Build(c) => t'[c] = [t[c] EXCEPT !.pc = "save", !.got = source]
         /\ Save(c) /\ t[c].request # "read" => t'[c] = [t[c] EXCEPT !.pc = "replace"]
<1>t. DOMAIN t = Threads /\ Typed(t[c])
  BY DEF ThreadTypes
<1>1. Look(c) => t'[c] = [t[c] EXCEPT !.pc = "lock", !.print = file[t[c].key]]
  BY <1>t DEF Look
<1>2. Lock(c) =>
        \/ t'[c] = [t[c] EXCEPT !.pc = "wait", !.mine = indexes[t[c].key], !.print = 0]
        \/ \E pc \in {"invalidate", "load"} : t'[c] = [t[c] EXCEPT !.pc = pc, !.print = 0]
  BY <1>t DEF Lock
<1>3. ASSUME Wait(c)
      PROVE  \/ t'[c] = [t[c] EXCEPT !.pc = "asleep"]
             \/ t'[c] = Idle
             \/ t[c].request = "warm" /\ t'[c] = [t[c] EXCEPT !.pc = "exit", !.mine = NoEntry]
             \/ t'[c] = [t[c] EXCEPT !.pc = "look", !.mine = NoEntry]
             \/ /\ t[c].mine.state = "ready" /\ ~Outdated(t[c].mine, file[t[c].key])
                /\ t'[c] = After(c, t[c].mine.index, t[c].mine.print, AfterIndex(t[c].request))
  <2> DEFINE r == [Answered(c, t[c].mine.index, t[c].mine.print) EXCEPT !.pc = AfterIndex(t[c].request)]
  <2>1. \/ t' = [t EXCEPT ![c].pc = "asleep"]
        \/ t' = [t EXCEPT ![c] = Failing(c)]
        \/ t' = [t EXCEPT ![c].pc = "look", ![c].mine = NoEntry]
        \/ t[c].mine.state = "ready" /\ ~Outdated(t[c].mine, file[t[c].key]) /\ t' = [t EXCEPT ![c] = r]
    BY <1>3 DEF Wait
  <2>2. CASE t' = [t EXCEPT ![c].pc = "asleep"]
    BY <2>2, PcRow
  <2>3. CASE t' = [t EXCEPT ![c] = Failing(c)]
    BY <2>3, FailingRow
  <2>4. CASE t' = [t EXCEPT ![c].pc = "look", ![c].mine = NoEntry]
    BY <1>t, <2>4
  <2>5. CASE t[c].mine.state = "ready" /\ ~Outdated(t[c].mine, file[t[c].key]) /\ t' = [t EXCEPT ![c] = r]
    <3>1. r = After(c, t[c].mine.index, t[c].mine.print, AfterIndex(t[c].request))
      BY <1>t, AfterAnswered
    <3> HIDE DEF r
    <3> QED BY <1>t, <2>5, <3>1
  <2> QED BY <2>1, <2>2, <2>3, <2>4, <2>5
<1>4. Evict(c) => t'[c] = [t[c] EXCEPT !.pc = "victims", !.spared = pinned]
  BY <1>t DEF Evict
<1>5. EvictVictims(c) =>
        \/ t[c].request = "update" /\ t'[c] = Idle
        \/ /\ t[c].request # "update"
           /\ t'[c] = [t[c] EXCEPT !.pc = AfterIndex(t[c].request), !.spared = {}]
  BY <1>t DEF EvictVictims
<1>6. Build(c) => t'[c] = [t[c] EXCEPT !.pc = "save", !.got = source]
  BY <1>t DEF Build
<1>7. Save(c) /\ t[c].request # "read" => t'[c] = [t[c] EXCEPT !.pc = "replace"]
  BY <1>t DEF Save, Lowered
<1> QED BY <1>1, <1>2, <1>3, <1>4, <1>5, <1>6, <1>7

(* What a step leaves in the record of another thread.                     *)
LEMMA OtherRows ==
  ASSUME ThreadTypes, NEW c \in Threads, Begins(c) \/ Step(c), NEW d \in Threads, d # c
  PROVE  \/ t'[d] = t[d]
         \/ NextEpochStarts(c) /\ t'[d] = [t[d] EXCEPT !.current = FALSE]
         \/ /\ Save(c) /\ t[d].request = "read" /\ t[d].key = t[c].key
            /\ t'[d] = [t[d] EXCEPT !.since = Smaller(@, t[c].got)]
         \/ /\ BecomeReady(c) /\ t[d].mine = Loading(c)
            /\ t'[d] = [t[d] EXCEPT !.mine = Ready(t[c].print, file[t[c].key]), !.pc = Woken(@)]
         \/ /\ Fail(c) /\ t[d].mine = Loading(c)
            /\ t'[d] = [t[d] EXCEPT !.mine = Failed(c), !.pc = Woken(@)]
<1>1. CASE NextEpochStarts(c)
  BY <1>1 DEF NextEpochStarts, NextEpoch
<1>2. CASE Save(c)
  BY <1>2 DEF Save, Lowered
<1>3. CASE BecomeReady(c)
  <2> DEFINE entry == Ready(t[c].print, file[t[c].key])
             told == [t EXCEPT ![c] = [Answered(c, entry.index, entry.print) EXCEPT !.pc = "evict"]]
  <2>1. t' = Told(c, entry, told) /\ told[d] = t[d]
    BY <1>3 DEF BecomeReady, ThreadTypes
  <2> HIDE DEF told
  <2> QED BY <1>3, <2>1 DEF Told
<1>4. CASE Fail(c)
  <2> DEFINE told == [t EXCEPT ![c].pc = "unmap"]
  <2>1. t' = Told(c, Failed(c), told) /\ told[d] = t[d]
    BY <1>4 DEF Fail, ThreadTypes
  <2> HIDE DEF told
  <2> QED BY <1>4, <2>1 DEF Told
<1> QED BY <1>1, <1>2, <1>3, <1>4, OthersStay

LEMMA BeginRows ==
  ASSUME ThreadTypes, NEW c \in Threads, Begins(c)
  PROVE  /\ t[c].pc = "idle"
         /\ \/ \E since : t'[c] = [Idle EXCEPT !.pc = "check", !.request = "fresh", !.since = since]
            \/ t'[c] = [Idle EXCEPT !.pc = "save indexes", !.request = "refresh", !.since = 0]
            \/ \E k \in ReadKeys :
                 t'[c] = [Idle EXCEPT !.pc = "look", !.request = "read", !.key = k,
                                      !.since = file[k]]
            \/ \E k \in UpdateKeys :
                 t'[c] = [Idle EXCEPT !.pc = "build", !.request = "update", !.key = k, !.since = 0]
<1>t. DOMAIN t = Threads
  BY DEF ThreadTypes
<1>0. t[c].pc = "idle"
  BY DEF Begins, Begin, BeginOn, At
<1>1. CASE Begin(c, "fresh", "check")
  <2> DEFINE since == IF Dated THEN source ELSE 0
  <2>1. t'[c] = [Idle EXCEPT !.pc = "check", !.request = "fresh", !.since = since]
    BY <1>t, <1>1 DEF Begin
  <2> HIDE DEF since
  <2> QED BY <1>0, <2>1
<1>2. CASE Begin(c, "refresh", "save indexes")
  BY <1>t, <1>0, <1>2 DEF Begin
<1>4. ASSUME NEW k \in ReadKeys, BeginOn(c, "read", "look", k)
      PROVE  t'[c] = [Idle EXCEPT !.pc = "look", !.request = "read", !.key = k, !.since = file[k]]
  BY <1>t, <1>4 DEF BeginOn
<1>5. ASSUME NEW k \in UpdateKeys, BeginOn(c, "update", "build", k)
      PROVE  t'[c] = [Idle EXCEPT !.pc = "build", !.request = "update", !.key = k, !.since = 0]
  BY <1>t, <1>5 DEF BeginOn
<1> QED BY <1>0, <1>1, <1>2, <1>4, <1>5 DEF Begins

-----------------------------------------------------------------------------
(* What is cached is as new as its file, unless it was torn                *)

ManifestPcs == {"manifest", "load manifest", "reload manifest"}
LoadedPcs == {"evict directory", "unpin directory", "put manifest"}
Reading == {"look", "lock", "invalidate", "load", "ready", "fail", "unmap", "wait", "asleep"}

(* The record r of a thread goes with the sources, files and manifest.     *)
Fresh(r, s, f, m) ==
  /\ r.wrote <= s
  /\ r.pc = "save" => r.got <= s
  /\ r.pc = "save manifest" => m <= r.wrote
  /\ r.request = "read" =>
       /\ r.key \in Keys /\ r.since <= f[r.key]
       /\ r.pc \in Reading \cup {"evict", "victims", "answered"}
       /\ r.pc \in Reading => r.got = 0
       /\ r.pc \notin Reading => r.got >= r.since \/ r.got # r.print
  /\ r.pc \in ManifestPcs => r.manifestSince <= m
  /\ r.pc \in LoadedPcs => r.manifest.version >= r.manifestSince
  /\ r.pc = "visit" =>
       r.manifest.version >= r.manifestSince \/ r.manifest.version # r.manifest.print
  /\ r.pc \notin ManifestPcs \cup LoadedPcs \cup {"visit", "answered"} => r.manifestSince = 0

CurrentInv ==
  /\ \A k \in Keys : file[k] <= source
  /\ manifest <= source
  /\ \A c, d \in Threads : At(c, "save manifest") /\ At(d, "save manifest") => c = d
  /\ \A c \in Threads : Fresh(t[c], source, file, manifest)

LEMMA Numbers ==
  ASSUME Types, NEW c \in Threads
  PROVE  /\ source \in Nat /\ manifest \in Nat /\ completed \in Nat /\ \A k \in Keys : file[k] \in Nat
         /\ t[c].wrote \in Nat /\ t[c].got \in Nat /\ t[c].since \in Nat /\ t[c].print \in Nat
         /\ t[c].manifestSince \in Nat
         /\ t[c].manifest.version \in Nat /\ t[c].manifest.print \in Nat
         /\ t[c].mine.index \in Nat /\ t[c].mine.print \in Nat
         /\ cached.version \in Nat /\ cached.print \in Nat
BY EntryTypes DEF Types, ThreadTypes, Typed, DiskTypes, MemoryTypes, Manifests, Entries

LEMMA IdleFresh ==
  ASSUME NEW s \in Nat, NEW f, NEW m \in Nat PROVE Fresh(Idle, s, f, m) /\ Fresh(Starting, s, f, m)
BY DEF Fresh, Idle, Starting, NoManifest, ManifestPcs, LoadedPcs, None

LEMMA BeginsFresh ==
  ASSUME Types, CurrentInv, NEW c \in Threads, Begins(c)
  PROVE  Fresh(t'[c], source, file, manifest)
<1>t. ThreadTypes /\ source \in Nat /\ manifest \in Nat /\ \A k \in Keys : file[k] \in Nat
  BY Numbers DEF Types
<1>1. ASSUME NEW since, t'[c] = [Idle EXCEPT !.pc = "check", !.request = "fresh", !.since = since]
      PROVE  Fresh(t'[c], source, file, manifest)
  BY <1>t, <1>1 DEF Fresh, Idle, NoManifest, ManifestPcs, LoadedPcs
<1>2. CASE t'[c] = [Idle EXCEPT !.pc = "save indexes", !.request = "refresh", !.since = 0]
  BY <1>t, <1>2 DEF Fresh, Idle, NoManifest, ManifestPcs, LoadedPcs
<1>4. ASSUME NEW k \in ReadKeys,
             t'[c] = [Idle EXCEPT !.pc = "look", !.request = "read", !.key = k, !.since = file[k]]
      PROVE  Fresh(t'[c], source, file, manifest)
  <2>1. k \in Keys
    BY CachesAssumption
  <2> QED BY <1>t, <1>4, <2>1 DEF Fresh, Idle, NoManifest, ManifestPcs, LoadedPcs, Reading
<1>5. ASSUME NEW k \in UpdateKeys,
             t'[c] = [Idle EXCEPT !.pc = "build", !.request = "update", !.key = k, !.since = 0]
      PROVE  Fresh(t'[c], source, file, manifest)
  BY <1>t, <1>5 DEF Fresh, Idle, NoManifest, ManifestPcs, LoadedPcs
<1> QED BY <1>t, <1>1, <1>2, <1>4, <1>5, BeginRows

LEMMA RefreshFresh ==
  ASSUME Types, CurrentInv, NEW c \in Threads,
         \/ Return(c) \/ Check(c) \/ Acquire(c) \/ Recheck(c) \/ SaveIndexes(c) \/ SaveManifest(c)
         \/ ClearIndexes(c) \/ ClearPins(c) \/ ClearManifests(c) \/ NextEpochStarts(c)
  PROVE  Fresh(t'[c], source', file', manifest')
<1>t. /\ ThreadTypes /\ DOMAIN t[c] = Fields /\ Fresh(t[c], source, file, manifest)
      /\ source \in Nat /\ manifest \in Nat /\ manifest <= source
  BY Numbers DEF Types, ThreadTypes, Typed, CurrentInv
<1>n. t[c].wrote \in Nat /\ t[c].since \in Nat /\ t[c].manifestSince \in Nat
  BY Numbers
<1>1. CASE Return(c)
  <2>1. t'[c] = Idle /\ UNCHANGED <<source, file, manifest>>
    BY <1>t, <1>1, SearchRows, MemoryParts DEF Return
  <2> QED BY <1>t, <2>1, IdleFresh
<1>2. ASSUME NEW from \in {"check", "acquire", "recheck", "clear indexes", "clear pins",
                           "clear manifests"},
             NEW to \in {"acquire", "lookup", "recheck", "save indexes", "clear pins",
                         "clear manifests", "next epoch"},
             t[c].pc = from, t'[c] = [t[c] EXCEPT !.pc = to], UNCHANGED <<source, file, manifest>>
      PROVE  Fresh(t'[c], source', file', manifest')
  <2>1. t[c].request # "read" /\ t[c].manifestSince = 0 /\ t[c].wrote <= source
    BY <1>t, <1>2 DEF Fresh, ManifestPcs, LoadedPcs, Reading
  <2>2. /\ t'[c].request = t[c].request /\ t'[c].manifestSince = t[c].manifestSince
        /\ t'[c].wrote = t[c].wrote /\ t'[c].pc = to
    BY <1>t, <1>2 DEF Fields
  <2> QED BY <1>t, <1>2, <2>1, <2>2 DEF Fresh, ManifestPcs, LoadedPcs
<1>3. CASE Check(c) \/ Acquire(c) \/ Recheck(c) \/ ClearIndexes(c) \/ ClearPins(c) \/ ClearManifests(c)
  <2>1. UNCHANGED <<source, file, manifest>>
    BY <1>3, MemoryParts DEF Check, Acquire, Recheck, ClearIndexes, ClearPins, ClearManifests
  <2>2. CASE t'[c] = Idle
    BY <1>t, <2>1, <2>2, IdleFresh
  <2>3. CASE \E from \in {"check", "acquire", "recheck", "clear indexes", "clear pins",
                          "clear manifests"},
                to \in {"acquire", "lookup", "recheck", "save indexes", "clear pins",
                        "clear manifests", "next epoch"} :
               t[c].pc = from /\ t'[c] = [t[c] EXCEPT !.pc = to]
    BY <1>2, <2>1, <2>3
  <2> QED BY <1>t, <1>3, <2>2, <2>3, PcRows, CheckRows DEF Moves1
<1>4. CASE SaveIndexes(c)
  <2>1. /\ t[c].pc = "save indexes" /\ source' = source /\ manifest' = manifest
        /\ t'[c] = [t[c] EXCEPT !.pc = "save manifest", !.wrote = source]
    BY <1>t, <1>4, SearchRows DEF SaveIndexes, At
  <2>2. t[c].request # "read" /\ t[c].manifestSince = 0
    BY <1>t, <2>1 DEF Fresh, ManifestPcs, LoadedPcs, Reading
  <2>3. /\ t'[c].request = t[c].request /\ t'[c].manifestSince = t[c].manifestSince
        /\ t'[c].wrote = source /\ t'[c].pc = "save manifest"
    BY <1>t, <2>1 DEF Fields
  <2>4. source <= source /\ source' = source /\ manifest' = manifest /\ t'[c].wrote = source
    <3>1. source <= source
      BY <1>t
    <3> QED BY <2>1, <2>3, <3>1
  <2>5. t'[c].wrote <= source' /\ manifest' <= t'[c].wrote
    BY <1>t, <2>4
  <2> QED BY <2>2, <2>3, <2>5 DEF Fresh, ManifestPcs, LoadedPcs
<1>5. CASE SaveManifest(c)
  <2>1. /\ t[c].pc = "save manifest" /\ source' = source
        /\ t'[c] = [t[c] EXCEPT !.pc = "clear indexes"]
    BY <1>t, <1>5, PcRows DEF SaveManifest, Moves1
  <2>2. t[c].request # "read" /\ t[c].manifestSince = 0 /\ t[c].wrote <= source
    BY <1>t, <2>1 DEF Fresh, ManifestPcs, LoadedPcs, Reading
  <2>3. /\ t'[c].request = t[c].request /\ t'[c].manifestSince = t[c].manifestSince
        /\ t'[c].wrote = t[c].wrote /\ t'[c].pc = "clear indexes"
    BY <1>t, <2>1 DEF Fields
  <2> QED BY <2>1, <2>2, <2>3 DEF Fresh, ManifestPcs, LoadedPcs
<1>6. CASE NextEpochStarts(c)
  <2>1. t[c].pc = "next epoch" /\ UNCHANGED <<source, file, manifest>>
    BY <1>6, MemoryParts DEF NextEpochStarts, At
  <2>2. CASE t'[c] = Idle
    BY <1>t, <2>1, <2>2, IdleFresh
  <2>3. CASE t'[c] = [t[c] EXCEPT !.pc = "lookup"]
    BY <1>t, <2>1, <2>3 DEF Fresh, Fields, ManifestPcs, LoadedPcs, Reading
  <2> QED BY <1>t, <1>6, <2>2, <2>3, SearchRows
<1> QED BY <1>1, <1>3, <1>4, <1>5, <1>6

LEMMA SearchFresh ==
  ASSUME Types, CurrentInv, NEW c \in Threads,
         \/ Lookup(c) \/ Manifest(c) \/ LoadManifest(c) \/ EvictDirectory(c) \/ UnpinDirectory(c)
         \/ PutManifest(c) \/ (\E k \in DirKeys : Visit(c, k)) \/ Store(c) \/ Warmed(c)
  PROVE  Fresh(t'[c], source', file', manifest')
<1>t. /\ ThreadTypes /\ DOMAIN t[c] = Fields /\ Fresh(t[c], source, file, manifest)
      /\ t[c].manifest \in Manifests
  BY DEF Types, ThreadTypes, Typed, CurrentInv
<1>n. /\ source \in Nat /\ manifest \in Nat
      /\ t[c].wrote \in Nat /\ t[c].since \in Nat /\ t[c].manifestSince \in Nat
      /\ t[c].manifest.version \in Nat /\ t[c].manifest.print \in Nat
      /\ cached.version \in Nat /\ cached.print \in Nat
  BY Numbers
<1>d. UNCHANGED <<source, file, manifest>>
  BY MemoryParts DEF Lookup, Manifest, LoadManifest, EvictDirectory, UnpinDirectory, PutManifest,
                     Visit, Store, Warmed
<1> SUFFICES Fresh(t'[c], source, file, manifest)
  BY <1>d
(* None of these steps is of a request that reads an index.                *)
<1>r. /\ t[c].pc \notin Reading \cup {"evict", "victims", "answered"}
      /\ t[c].request # "read" /\ t[c].wrote <= source
  <2>1. t[c].pc \in {"lookup", "visit"} \cup ManifestPcs \cup LoadedPcs
    BY DEF Lookup, Manifest, LoadManifest, EvictDirectory, UnpinDirectory, PutManifest, Visit,
           Store, Warmed, At, ManifestPcs, LoadedPcs
  <2>2. t[c].pc \notin Reading \cup {"evict", "victims", "answered"}
    BY <2>1 DEF ManifestPcs, LoadedPcs, Reading
  <2> QED BY <1>t, <2>2 DEF Fresh
<1>e. ASSUME t'[c].request = t[c].request, t'[c].wrote = t[c].wrote,
             t'[c].pc \in {"answered", "visit", "look"} \cup ManifestPcs \cup LoadedPcs,
             t'[c].pc \in ManifestPcs => t'[c].manifestSince <= manifest,
             t'[c].pc \in LoadedPcs => t'[c].manifest.version >= t'[c].manifestSince,
             t'[c].pc = "visit" => \/ t'[c].manifest.version >= t'[c].manifestSince
                                   \/ t'[c].manifest.version # t'[c].manifest.print,
             t'[c].pc = "look" => t'[c].manifestSince = 0
      PROVE  Fresh(t'[c], source, file, manifest)
  BY <1>r, <1>e DEF Fresh, ManifestPcs, LoadedPcs
<1>1. CASE Lookup(c)
  <2>1. t[c].pc = "lookup" /\ t[c].manifestSince = 0
    BY <1>t, <1>1 DEF Lookup, At, Fresh, ManifestPcs, LoadedPcs
  <2>2. CASE t'[c] = [t[c] EXCEPT !.pc = "answered", !.got = completed]
    BY <1>t, <1>e, <2>2 DEF Fields, ManifestPcs, LoadedPcs
  <2>3. CASE t'[c] = [t[c] EXCEPT !.pc = "visit", !.todo = DirKeys, !.current = TRUE]
    BY <1>t, <1>n, <1>e, <2>1, <2>3 DEF Fields, ManifestPcs, LoadedPcs
  <2>4. CASE t'[c] = [t[c] EXCEPT !.pc = "manifest", !.todo = DirKeys, !.current = TRUE,
                                  !.manifestSince = manifest]
    BY <1>t, <1>n, <1>e, <2>4 DEF Fields, ManifestPcs, LoadedPcs
  <2> QED BY <1>t, <1>1, <2>2, <2>3, <2>4, SearchRows
<1>2. CASE Manifest(c)
  <2>1. t[c].manifestSince <= manifest
    BY <1>t, <1>2 DEF Manifest, At, Fresh, ManifestPcs
  <2>2. CASE cached.print = manifest /\ t'[c] = [t[c] EXCEPT !.pc = "visit", !.manifest = cached]
    <3>1. /\ t'[c].request = t[c].request /\ t'[c].wrote = t[c].wrote /\ t'[c].pc = "visit"
          /\ t'[c].manifest = cached /\ t'[c].manifestSince = t[c].manifestSince
      BY <1>t, <2>2 DEF Fields
    <3> QED BY <1>n, <1>e, <2>1, <2>2, <3>1 DEF ManifestPcs, LoadedPcs
  <2>3. ASSUME NEW pc \in {"load manifest", "reload manifest"}, t'[c] = [t[c] EXCEPT !.pc = pc]
        PROVE  Fresh(t'[c], source, file, manifest)
    BY <1>t, <1>e, <2>1, <2>3 DEF Fields, ManifestPcs, LoadedPcs
  <2> QED BY <1>t, <1>2, <2>2, <2>3, SearchRows
<1>3. CASE LoadManifest(c)
  <2>1. t[c].manifestSince <= manifest
    BY <1>t, <1>3 DEF LoadManifest, At, Fresh, ManifestPcs
  <2>2. PICK pc \in {"put manifest", "evict directory"} :
          t'[c] = [t[c] EXCEPT !.manifest.version = manifest, !.pc = pc]
    BY <1>t, <1>3, SearchRows
  <2>3. /\ t'[c].request = t[c].request /\ t'[c].wrote = t[c].wrote /\ t'[c].pc = pc
        /\ t'[c].manifest.version = manifest /\ t'[c].manifestSince = t[c].manifestSince
    BY <1>t, <2>2 DEF Fields, Manifests
  <2> QED BY <1>n, <1>e, <2>1, <2>3 DEF ManifestPcs, LoadedPcs
<1>4. CASE EvictDirectory(c)
  <2>1. t[c].manifest.version >= t[c].manifestSince
    BY <1>t, <1>4 DEF EvictDirectory, At, Fresh, LoadedPcs
  <2>2. t'[c] = [t[c] EXCEPT !.pc = "unpin directory", !.manifest.print = manifest]
    BY <1>t, <1>4, SearchRows
  <2>3. /\ t'[c].request = t[c].request /\ t'[c].wrote = t[c].wrote /\ t'[c].pc = "unpin directory"
        /\ t'[c].manifest.version = t[c].manifest.version
        /\ t'[c].manifestSince = t[c].manifestSince
    BY <1>t, <2>2 DEF Fields, Manifests
  <2> QED BY <1>n, <1>e, <2>1, <2>3 DEF ManifestPcs, LoadedPcs
<1>5. CASE UnpinDirectory(c)
  <2>1. t[c].manifest.version >= t[c].manifestSince
    BY <1>t, <1>5 DEF UnpinDirectory, At, Fresh, LoadedPcs
  <2>2. t'[c] = [t[c] EXCEPT !.pc = "put manifest"]
    BY <1>t, <1>5, PcRows DEF Moves1
  <2> QED BY <1>t, <1>e, <2>1, <2>2 DEF Fields, ManifestPcs, LoadedPcs
<1>6. CASE PutManifest(c)
  <2>1. t[c].manifest.version >= t[c].manifestSince
    BY <1>t, <1>6 DEF PutManifest, At, Fresh, LoadedPcs
  <2>2. PICK print : t'[c] = [t[c] EXCEPT !.pc = "visit",
                                          !.manifest = [t[c].manifest EXCEPT !.print = print]]
    BY <1>t, <1>6, SearchRows
  <2>3. /\ t'[c].request = t[c].request /\ t'[c].wrote = t[c].wrote /\ t'[c].pc = "visit"
        /\ t'[c].manifest.version = t[c].manifest.version
        /\ t'[c].manifestSince = t[c].manifestSince
    BY <1>t, <2>2 DEF Fields, Manifests
  <2> QED BY <1>n, <1>e, <2>1, <2>3 DEF ManifestPcs, LoadedPcs
<1>7. ASSUME NEW k, Visit(c, k) PROVE Fresh(t'[c], source, file, manifest)
  <2>1. t'[c] = [t[c] EXCEPT !.pc = "look", !.key = k, !.todo = @ \ {k},
                             !.manifest = NoManifest, !.manifestSince = 0]
    BY <1>t, <1>7, SearchRows
  <2>2. /\ t'[c].request = t[c].request /\ t'[c].wrote = t[c].wrote /\ t'[c].pc = "look"
        /\ t'[c].manifestSince = 0
    BY <1>t, <2>1 DEF Fields
  <2> QED BY <1>e, <2>2 DEF ManifestPcs, LoadedPcs
<1>8. CASE Store(c)
  <2>1. t'[c] = [t[c] EXCEPT !.pc = "answered", !.key = None, !.current = FALSE]
    BY <1>t, <1>8, SearchRows
  <2> QED BY <1>t, <1>e, <2>1 DEF Fields, ManifestPcs, LoadedPcs
<1>9. CASE Warmed(c)
  <2>1. t'[c] = Idle
    BY <1>t, <1>9, SearchRows
  <2> QED BY <1>n, <2>1, IdleFresh
<1> QED BY <1>1, <1>2, <1>3, <1>4, <1>5, <1>6, <1>7, <1>8, <1>9

(* Reading an index: what is kept of it is as new as its file was, or torn. *)
LEMMA IndexFresh ==
  ASSUME Types, WaitInv, CurrentInv, NEW c \in Threads,
         \/ Look(c) \/ Lock(c) \/ Invalidate(c) \/ Load(c) \/ BecomeReady(c) \/ Fail(c)
         \/ Unmap(c) \/ StartAgain(c) \/ Wait(c) \/ Evict(c) \/ EvictVictims(c)
         \/ Build(c) \/ Save(c) \/ Replace(c)
  PROVE  Fresh(t'[c], source', file', manifest')
<1>t. /\ ThreadTypes /\ DOMAIN t[c] = Fields /\ Typed(t[c])
      /\ Fresh(t[c], source, file, manifest)
  BY DEF Types, ThreadTypes, Typed, CurrentInv
<1>n. /\ source \in Nat /\ manifest \in Nat /\ \A k \in Keys : file[k] \in Nat
      /\ t[c].wrote \in Nat /\ t[c].got \in Nat /\ t[c].since \in Nat /\ t[c].print \in Nat
      /\ t[c].mine.index \in Nat /\ t[c].mine.print \in Nat
  BY Numbers
<1>p. t[c].pc \in Reading \cup {"exit", "evict", "victims", "build", "save", "replace"}
  BY DEF Look, Lock, Invalidate, Load, BecomeReady, Fail, Unmap, StartAgain, Wait, Evict, EvictVictims,
         Build, Save, Replace, At, Reading
<1>r. t[c].manifestSince = 0 /\ t[c].wrote <= source
  BY <1>t, <1>p DEF Fresh, Reading, ManifestPcs, LoadedPcs
<1>0. CASE t'[c] = Idle /\ UNCHANGED <<source, file, manifest>>
  BY <1>n, <1>0, IdleFresh
(* What remains of Fresh when such a step goes on with its request.        *)
<1> DEFINE Goes == /\ t'[c].request = t[c].request /\ t'[c].wrote = t[c].wrote
                   /\ t'[c].manifestSince = t[c].manifestSince
                   /\ t'[c].manifest = t[c].manifest
                   /\ t'[c].key = t[c].key /\ t'[c].since = t[c].since
<1>v. t'[c].pc = "visit" /\ Goes => t'[c].manifest.version >= t'[c].manifestSince
  BY <1>r, Numbers
<1>e. ASSUME Goes, UNCHANGED <<source, file, manifest>>,
             t'[c].pc \in Reading \cup {"exit", "evict", "victims", "save", "replace", "answered", "visit"},
             t'[c].pc = "save" => t'[c].got <= source,
             t[c].request = "read" =>
               /\ t'[c].pc \in Reading \cup {"evict", "victims", "answered"}
               /\ t'[c].pc \in Reading => t'[c].got = 0
               /\ t'[c].pc \notin Reading => t'[c].got >= t'[c].since \/ t'[c].got # t'[c].print
      PROVE  Fresh(t'[c], source', file', manifest')
  <2>1. Fresh(t'[c], source, file, manifest)
    BY <1>t, <1>r, <1>v, <1>e DEF Fresh, Reading, ManifestPcs, LoadedPcs
  <2> QED BY <1>e, <2>1
<1>d. ~Save(c) => UNCHANGED <<source, file, manifest>>
  BY MemoryParts DEF Look, Lock, Invalidate, Load, BecomeReady, Fail, Unmap, StartAgain, Wait, Evict,
                     EvictVictims, Build, Replace
(* It goes on reading.                                                     *)
<1>1. ASSUME ~Save(c), t[c].pc \in Reading, Goes, t'[c].pc \in Reading, t'[c].got = t[c].got
      PROVE  Fresh(t'[c], source', file', manifest')
  BY <1>t, <1>d, <1>e, <1>1 DEF Fresh, Reading
<1>2. CASE Look(c)
  <2>1. t[c].pc = "look" /\ ~Save(c)
    BY <1>2 DEF Look, Save, At
  <2>2. t'[c] = [t[c] EXCEPT !.pc = "lock", !.print = file[t[c].key]]
    BY <1>t, <1>2, IndexRows
  <2> QED BY <1>t, <1>1, <2>1, <2>2 DEF Fields, Reading
<1>3. CASE Lock(c)
  <2>1. t[c].pc = "lock" /\ ~Save(c)
    BY <1>3 DEF Lock, Save, At
  <2>2. CASE t'[c] = [t[c] EXCEPT !.pc = "wait", !.mine = indexes[t[c].key], !.print = 0]
    BY <1>t, <1>1, <2>1, <2>2 DEF Fields, Reading
  <2>3. ASSUME NEW pc \in {"invalidate", "load"}, t'[c] = [t[c] EXCEPT !.pc = pc, !.print = 0]
        PROVE  Fresh(t'[c], source', file', manifest')
    BY <1>t, <1>1, <2>1, <2>3 DEF Fields, Reading
  <2> QED BY <1>t, <1>3, <2>2, <2>3, IndexRows
<1>4. CASE Invalidate(c)
  <2>1. ~Save(c)
    BY <1>4 DEF Invalidate, Save, At
  <2>2. t[c].pc = "invalidate" /\ t'[c] = [t[c] EXCEPT !.pc = "load"]
    BY <1>t, <1>4, PcRows DEF Moves1
  <2> QED BY <1>t, <1>1, <2>1, <2>2 DEF Fields, Reading
<1>5. CASE Load(c)
  <2>1. t[c].pc = "load" /\ ~Save(c)
    BY <1>5 DEF Load, Save, At
  <2> DEFINE pc == IF file[t[c].key] = 0 THEN "fail" ELSE "ready"
  <2>2. t'[c] = [t[c] EXCEPT !.pc = pc, !.print = file[t[c].key]]
    BY <1>t, <1>5, LoadRows
  <2>3. pc \in Reading
    BY DEF Reading
  <2> HIDE DEF pc
  <2> QED BY <1>t, <1>1, <2>1, <2>2, <2>3 DEF Fields, Reading
<1>6. CASE Fail(c)
  <2>1. t[c].pc = "fail" /\ ~Save(c)
    BY <1>6 DEF Fail, Save, At
  <2>2. t'[c] = [t[c] EXCEPT !.pc = "unmap"]
    BY <1>t, <1>6, LoadRows
  <2> QED BY <1>t, <1>1, <2>1, <2>2 DEF Fields, Reading
(* It gives up.                                                            *)
<1>7. ASSUME ~Save(c), t[c].request = "warm", t'[c] = [t[c] EXCEPT !.pc = "exit", !.mine = NoEntry]
      PROVE  Fresh(t'[c], source', file', manifest')
  BY <1>t, <1>d, <1>e, <1>7 DEF Fields, Reading
<1>8. CASE Unmap(c)
  <2>1. ~Save(c)
    BY <1>8 DEF Unmap, Save, At
  <2> QED BY <1>t, <1>0, <1>7, <1>8, <1>d, <2>1, LoadRows
<1>9. CASE StartAgain(c)
  <2>1. t'[c] = Starting /\ ~Save(c)
    BY <1>t, <1>9, SearchRows DEF StartAgain, Save, At
  <2> QED BY <1>n, <1>d, <2>1, IdleFresh
(* It has what it needed.                                                  *)
<1>10. ASSUME ~Save(c), t[c].pc \in Reading, NEW index \in Nat, NEW print \in Nat,
              NEW pc \in {"evict", "answered", "visit"}, t'[c] = After(c, index, print, pc),
              t[c].request = "read" => /\ pc # "visit"
                                       /\ index >= t[c].since \/ index # print
       PROVE  Fresh(t'[c], source', file', manifest')
  <2>1. /\ Goes /\ t'[c].pc = pc /\ t'[c].got = Oldest(t[c].got, index)
        /\ t'[c].print = IF t[c].request = "read" THEN print ELSE 0
    BY <1>t, <1>10 DEF After, Fields
  <2>2. t[c].request = "read" => t[c].got = 0
    BY <1>t, <1>10 DEF Fresh
  <2>3. t[c].request = "read" => t'[c].got = index /\ t'[c].print = print
    BY <2>1, <2>2 DEF Oldest
  <2>4. pc \notin Reading
    BY DEF Reading
  <2> QED BY <1>d, <1>e, <1>10, <2>1, <2>3, <2>4
<1>11. CASE BecomeReady(c)
  <2>1. t[c].pc = "ready" /\ ~Save(c) /\ t[c].pc \in Reading
    BY <1>11 DEF BecomeReady, Save, At, Reading
  <2>2. t[c].key \in Keys /\ file[t[c].key] \in Nat
    BY <1>n, <2>1, KeyKnown DEF OnKey
  <2>3. t'[c] = After(c, t[c].print, file[t[c].key], "evict")
    BY <1>t, <1>11, LoadRows
  <2>4. t[c].request = "read" => t[c].since <= file[t[c].key]
    BY <1>t DEF Fresh
  <2> QED BY <1>n, <1>10, <2>1, <2>2, <2>3, <2>4
<1>12. CASE Wait(c)
  <2>1. t[c].pc = "wait" /\ ~Save(c) /\ t[c].pc \in Reading
    BY <1>12 DEF Wait, Save, At, Reading
  <2>2. t[c].key \in Keys /\ file[t[c].key] \in Nat
    BY <1>n, <2>1, KeyKnown DEF OnKey
  <2>3. CASE t'[c] = [t[c] EXCEPT !.pc = "asleep"]
    BY <1>t, <1>1, <2>1, <2>3 DEF Fields, Reading
  <2>4. CASE t'[c] = [t[c] EXCEPT !.pc = "look", !.mine = NoEntry]
    BY <1>t, <1>1, <2>1, <2>4 DEF Fields, Reading
  <2>5. CASE /\ t[c].mine.state = "ready" /\ ~Outdated(t[c].mine, file[t[c].key])
             /\ t'[c] = After(c, t[c].mine.index, t[c].mine.print, AfterIndex(t[c].request))
    <3>1. t[c].request = "read" => t[c].since <= file[t[c].key]
      BY <1>t DEF Fresh
    <3>2. file[t[c].key] = 0 \/ t[c].mine.print = file[t[c].key]
      BY <2>5 DEF Outdated
    <3>3. t[c].request = "read" =>
            t[c].mine.index >= t[c].since \/ t[c].mine.index # t[c].mine.print
      BY <1>n, <2>2, <3>1, <3>2
    <3>4. /\ AfterIndex(t[c].request) \in {"answered", "visit"}
          /\ t[c].request = "read" => AfterIndex(t[c].request) = "answered"
      BY DEF AfterIndex
    <3> QED BY <1>n, <1>10, <2>1, <2>5, <3>3, <3>4
  <2> QED BY <1>t, <1>0, <1>7, <1>12, <1>d, <2>1, <2>3, <2>4, <2>5, IndexRows
<1>13. CASE Evict(c)
  <2>1. t[c].pc = "evict" /\ ~Save(c)
    BY <1>13 DEF Evict, Save, At
  <2>2. t'[c] = [t[c] EXCEPT !.pc = "victims", !.spared = pinned]
    BY <1>t, <1>13, IndexRows
  <2>3. Goes /\ t'[c].pc = "victims" /\ t'[c].got = t[c].got /\ t'[c].print = t[c].print
    BY <1>t, <2>2 DEF Fields
  <2> QED BY <1>t, <1>d, <1>e, <2>1, <2>3 DEF Fresh, Reading
<1>14. CASE EvictVictims(c)
  <2>1. t[c].pc = "victims" /\ ~Save(c)
    BY <1>14 DEF EvictVictims, Save, At
  <2>2. CASE t'[c] = [t[c] EXCEPT !.pc = AfterIndex(t[c].request), !.spared = {}]
    <3>1. /\ Goes /\ t'[c].pc = AfterIndex(t[c].request)
          /\ t'[c].got = t[c].got /\ t'[c].print = t[c].print
      BY <1>t, <2>2 DEF Fields
    <3>2. t'[c].pc = IF t[c].request = "read" THEN "answered" ELSE "visit"
      BY <3>1 DEF AfterIndex
    <3> QED BY <1>t, <1>d, <1>e, <2>1, <3>1, <3>2 DEF Fresh, Reading
  <2> QED BY <1>t, <1>0, <1>14, <1>d, <2>1, <2>2, IndexRows
<1>15. CASE Build(c)
  <2>1. t[c].pc = "build" /\ ~Save(c)
    BY <1>15 DEF Build, Save, At
  <2>2. t'[c] = [t[c] EXCEPT !.pc = "save", !.got = source]
    BY <1>t, <1>15, IndexRows
  <2>3. Goes /\ t'[c].pc = "save" /\ t'[c].got = source
    BY <1>t, <2>2 DEF Fields
  <2>4. t[c].request # "read"
    BY <1>t, <2>1 DEF Fresh, Reading
  <2> QED BY <1>n, <1>d, <1>e, <2>1, <2>3, <2>4
<1>16. CASE Replace(c)
  <2>1. ~Save(c)
    BY <1>16 DEF Replace, Save, At
  <2>2. t[c].pc = "replace" /\ t'[c] = [t[c] EXCEPT !.pc = "evict"]
    BY <1>t, <1>16, PcRows DEF Moves1
  <2>3. t[c].request # "read"
    BY <1>t, <2>2 DEF Fresh, Reading
  <2>4. Goes /\ t'[c].pc = "evict"
    BY <1>t, <2>2 DEF Fields
  <2> QED BY <1>d, <1>e, <2>1, <2>3, <2>4
<1>17. CASE Save(c)
  <2>1. t[c].pc = "save" /\ source' = source /\ manifest' = manifest
    BY <1>17 DEF Save, At
  <2>2. t[c].request # "read"
    BY <1>t, <2>1 DEF Fresh, Reading
  <2>3. t'[c] = [t[c] EXCEPT !.pc = "replace"]
    BY <1>t, <1>17, <2>2, IndexRows
  <2>4. /\ t'[c].pc = "replace" /\ t'[c].request = t[c].request /\ t'[c].wrote = t[c].wrote
        /\ t'[c].manifestSince = t[c].manifestSince
    BY <1>t, <2>3 DEF Fields
  <2> QED BY <1>r, <2>1, <2>2, <2>4 DEF Fresh, ManifestPcs, LoadedPcs
<1> QED BY <1>2, <1>3, <1>4, <1>5, <1>6, <1>8, <1>9, <1>11, <1>12, <1>13, <1>14, <1>15, <1>16, <1>17

(* What others do: a thread keeps its place, or is woken.                  *)
Keeps(r, q) ==
  /\ q.request = r.request /\ q.key = r.key /\ q.wrote = r.wrote /\ q.got = r.got
  /\ q.print = r.print /\ q.manifest = r.manifest /\ q.manifestSince = r.manifestSince
  /\ q.pc = r.pc \/ (r.pc = "asleep" /\ q.pc = "wait")

LEMMA AtMost == \A a, b, c \in Nat : a <= b /\ b <= c => a <= c
OBVIOUS

LEMMA KeptFresh ==
  ASSUME Types, NEW d \in Threads, Fresh(t[d], source, file, manifest),
         NEW q, Keeps(t[d], q), q.since \in Nat,
         NEW s \in Nat, NEW f, NEW m \in Nat, source <= s, manifest <= m,
         t[d].pc = "save manifest" => m = manifest,
         q.request = "read" => q.since <= f[q.key] /\ q.since <= t[d].since
  PROVE  Fresh(q, s, f, m)
<1>n. /\ source \in Nat /\ manifest \in Nat
      /\ t[d].wrote \in Nat /\ t[d].got \in Nat /\ t[d].since \in Nat /\ t[d].print \in Nat
      /\ t[d].manifestSince \in Nat /\ t[d].manifest.version \in Nat
  BY Numbers
<1>1. q.pc = t[d].pc \/ (t[d].pc = "asleep" /\ q.pc = "wait")
  BY DEF Keeps
<1>2. q.wrote <= s /\ (q.pc = "save" => q.got <= s)
  <2>1. q.wrote = t[d].wrote /\ q.got = t[d].got /\ (q.pc = "save" => t[d].pc = "save")
    BY <1>1 DEF Keeps
  <2>2. t[d].wrote <= source /\ (t[d].pc = "save" => t[d].got <= source)
    BY DEF Fresh
  <2>3. t[d].wrote <= s /\ (t[d].pc = "save" => t[d].got <= s)
    BY <1>n, <2>2, AtMost
  <2> QED BY <2>1, <2>3
<1>3. q.pc = "save manifest" => m <= q.wrote
  BY <1>1 DEF Keeps, Fresh
<1>4. ASSUME q.request = "read"
      PROVE  /\ q.key \in Keys /\ q.since <= f[q.key]
             /\ q.pc \in Reading \cup {"evict", "victims", "answered"}
             /\ q.pc \in Reading => q.got = 0
             /\ q.pc \notin Reading => q.got >= q.since \/ q.got # q.print
  <2>1. /\ t[d].key \in Keys /\ t[d].pc \in Reading \cup {"evict", "victims", "answered"}
        /\ t[d].pc \in Reading => t[d].got = 0
        /\ t[d].pc \notin Reading => t[d].got >= t[d].since \/ t[d].got # t[d].print
    BY <1>4 DEF Keeps, Fresh
  <2>2. t[d].pc \in Reading <=> q.pc \in Reading
    BY <1>1 DEF Reading
  <2>3. q.key = t[d].key /\ q.got = t[d].got /\ q.print = t[d].print
    BY DEF Keeps
  <2>4. q.pc \in Reading \cup {"evict", "victims", "answered"}
    BY <1>1, <2>1, <2>2
  <2>5. t[d].got >= t[d].since => t[d].got >= q.since
    BY <1>n, <1>4, AtMost
  <2> QED BY <1>4, <2>1, <2>2, <2>3, <2>4, <2>5
<1>5. q.pc \in ManifestPcs => q.manifestSince <= m
  <2>1. q.manifestSince = t[d].manifestSince /\ (q.pc \in ManifestPcs => t[d].pc \in ManifestPcs)
    BY <1>1 DEF Keeps, ManifestPcs
  <2>2. t[d].pc \in ManifestPcs => t[d].manifestSince <= manifest
    BY DEF Fresh
  <2>3. t[d].pc \in ManifestPcs => t[d].manifestSince <= m
    BY <1>n, <2>2, AtMost
  <2> QED BY <2>1, <2>3
<1>6. q.pc \in LoadedPcs => q.manifest.version >= q.manifestSince
  BY <1>1 DEF Keeps, Fresh, LoadedPcs
<1>7. q.pc = "visit" => \/ q.manifest.version >= q.manifestSince
                        \/ q.manifest.version # q.manifest.print
  BY <1>1 DEF Keeps, Fresh
<1>8. q.pc \notin ManifestPcs \cup LoadedPcs \cup {"visit", "answered"} => q.manifestSince = 0
  BY <1>1 DEF Keeps, Fresh, ManifestPcs, LoadedPcs
<1> QED BY <1>2, <1>3, <1>4, <1>5, <1>6, <1>7, <1>8 DEF Fresh

LEMMA OthersKeep ==
  ASSUME Types, NEW c \in Threads, Begins(c) \/ Step(c), NEW d \in Threads, d # c
  PROVE  /\ Keeps(t[d], t'[d]) /\ t'[d].since \in Nat /\ t'[d].since <= t[d].since
         /\ ~Save(c) => t'[d].since = t[d].since
         /\ Save(c) /\ t[d].request = "read" /\ t[d].key = t[c].key => t'[d].since <= t[c].got
<1>t. ThreadTypes /\ DOMAIN t[d] = Fields /\ t[d].since \in Nat /\ t[c].got \in Nat
  BY Numbers DEF Types, ThreadTypes, Typed
<1>s. t[d].since <= t[d].since
  BY <1>t
<1>0. ASSUME ~Save(c) \/ ~(t[d].request = "read" /\ t[d].key = t[c].key),
             Keeps(t[d], t'[d]), t'[d].since = t[d].since
      PROVE  /\ Keeps(t[d], t'[d]) /\ t'[d].since \in Nat /\ t'[d].since <= t[d].since
             /\ ~Save(c) => t'[d].since = t[d].since
             /\ Save(c) /\ t[d].request = "read" /\ t[d].key = t[c].key => t'[d].since <= t[c].got
  BY <1>t, <1>s, <1>0
<1>1. CASE ~Save(c) /\ t'[d] = t[d]
  BY <1>0, <1>1 DEF Keeps
<1>5. ~Save(c) => \/ t'[d] = t[d]
                  \/ t'[d] = [t[d] EXCEPT !.current = FALSE]
                  \/ t'[d] = [t[d] EXCEPT !.mine = Ready(t[c].print, file[t[c].key]), !.pc = Woken(@)]
                  \/ t'[d] = [t[d] EXCEPT !.mine = Failed(c), !.pc = Woken(@)]
  BY <1>t, OtherRows
<1>2. CASE Save(c)
  <2>1. t'[d] = IF t[d].request = "read" /\ t[d].key = t[c].key
                  THEN [t[d] EXCEPT !.since = Smaller(@, t[c].got)] ELSE t[d]
    BY <1>2 DEF Save, Lowered
  <2>2. CASE t[d].request = "read" /\ t[d].key = t[c].key
    <3>1. t'[d] = [t[d] EXCEPT !.since = Smaller(@, t[c].got)]
      BY <2>1, <2>2
    <3>2. Keeps(t[d], t'[d]) /\ t'[d].since = Smaller(t[d].since, t[c].got)
      BY <1>t, <3>1 DEF Keeps, Fields
    <3>3. /\ t'[d].since \in Nat /\ t'[d].since <= t[d].since /\ t'[d].since <= t[c].got
      BY <1>t, <3>2 DEF Smaller
    <3> QED BY <1>2, <3>2, <3>3
  <2>3. CASE ~(t[d].request = "read" /\ t[d].key = t[c].key)
    <3>1. t'[d] = t[d]
      BY <2>1, <2>3
    <3> QED BY <1>0, <2>3, <3>1 DEF Keeps
  <2> QED BY <2>2, <2>3
<1>3. CASE ~Save(c) /\ t'[d] = [t[d] EXCEPT !.current = FALSE]
  <2>1. Keeps(t[d], t'[d]) /\ t'[d].since = t[d].since
    BY <1>t, <1>3 DEF Keeps, Fields
  <2> QED BY <1>0, <1>3, <2>1
<1>4. ASSUME NEW entry, ~Save(c), t'[d] = [t[d] EXCEPT !.mine = entry, !.pc = Woken(@)]
      PROVE  Keeps(t[d], t'[d]) /\ t'[d].since = t[d].since
  <2>1. t'[d].pc = Woken(t[d].pc) /\ t'[d].since = t[d].since
    BY <1>t, <1>4 DEF Fields
  <2>2. /\ t'[d].request = t[d].request /\ t'[d].key = t[d].key /\ t'[d].wrote = t[d].wrote
        /\ t'[d].got = t[d].got /\ t'[d].print = t[d].print /\ t'[d].manifest = t[d].manifest
        /\ t'[d].manifestSince = t[d].manifestSince
    BY <1>t, <1>4 DEF Fields
  <2> QED BY <2>1, <2>2 DEF Keeps, Woken
<1> QED BY <1>0, <1>1, <1>2, <1>3, <1>4, <1>5

(* Only SaveIndexes goes on to write the manifest, and only Load to tell   *)
(* that an index is ready.                                                 *)
LEMMA Enters ==
  ASSUME Types, WaitInv, NEW c \in Threads, Begins(c) \/ Step(c)
  PROVE  /\ ~SaveIndexes(c) => t'[c].pc # "save manifest"
         /\ ~Load(c) => t'[c].pc # "ready"
<1>t. ThreadTypes /\ DOMAIN t[c] = Fields
  BY DEF Types, ThreadTypes, Typed
<1>i. Idle.pc = "idle"
  BY DEF Idle
<1>1. CASE Begins(c)
  <2>1. \/ \E request, pc : pc \notin {"save manifest", "ready"} /\ Begin(c, request, pc)
        \/ \E request, pc, k : pc \notin {"save manifest", "ready"} /\ BeginOn(c, request, pc, k)
    BY <1>1 DEF Begins
  <2>2. ASSUME NEW request, NEW pc, Begin(c, request, pc) PROVE t'[c].pc = pc
    BY <1>t, <2>2 DEF ThreadTypes, Begin, Idle
  <2>3. ASSUME NEW request, NEW pc, NEW k, BeginOn(c, request, pc, k) PROVE t'[c].pc = pc
    BY <1>t, <2>3 DEF ThreadTypes, BeginOn, Idle
  <2> QED BY <2>1, <2>2, <2>3
<1>2. CASE \/ Check(c) \/ Acquire(c) \/ Recheck(c) \/ SaveManifest(c) \/ ClearIndexes(c)
           \/ ClearPins(c) \/ ClearManifests(c) \/ UnpinDirectory(c) \/ Invalidate(c) \/ Replace(c)
  <2>1. \/ t'[c] = Idle
        \/ \E pc : pc \notin {"save manifest", "ready"} /\ t'[c] = [t[c] EXCEPT !.pc = pc]
    BY <1>t, <1>2, PcRows, CheckRows DEF Moves1
  <2> QED BY <1>t, <1>i, <2>1 DEF Fields
<1>3. CASE Return(c) \/ Warmed(c) \/ StartAgain(c)
  <2>1. t'[c] = Idle \/ t'[c] = Starting
    BY <1>t, <1>3, SearchRows
  <2> QED BY <1>i, <2>1 DEF Starting, Idle
<1>4. CASE NextEpochStarts(c) \/ Lookup(c) \/ Manifest(c)
  <2>1. CASE NextEpochStarts(c)
    <3>1. t'[c] = Idle \/ t'[c] = [t[c] EXCEPT !.pc = "lookup"]
      BY <1>t, <2>1, SearchRows
    <3> QED BY <1>t, <1>i, <3>1 DEF Fields
  <2>2. CASE Lookup(c)
    <3>1. \/ t'[c] = [t[c] EXCEPT !.pc = "answered", !.got = completed]
          \/ t'[c] = [t[c] EXCEPT !.pc = "visit", !.todo = DirKeys, !.current = TRUE]
          \/ t'[c] = [t[c] EXCEPT !.pc = "manifest", !.todo = DirKeys, !.current = TRUE,
                                  !.manifestSince = manifest]
      BY <1>t, <2>2, SearchRows
    <3> QED BY <1>t, <3>1 DEF Fields
  <2>3. CASE Manifest(c)
    <3>1. \/ t'[c] = [t[c] EXCEPT !.pc = "visit", !.manifest = cached]
          \/ \E pc \in {"load manifest", "reload manifest"} : t'[c] = [t[c] EXCEPT !.pc = pc]
      BY <1>t, <2>3, SearchRows
    <3> QED BY <1>t, <3>1 DEF Fields
  <2> QED BY <1>4, <2>1, <2>2, <2>3
<1>5. CASE LoadManifest(c) \/ EvictDirectory(c) \/ PutManifest(c)
  <2>1. \/ \E pc \in {"put manifest", "evict directory"} :
             t'[c] = [t[c] EXCEPT !.manifest.version = manifest, !.pc = pc]
        \/ t'[c] = [t[c] EXCEPT !.pc = "unpin directory", !.manifest.print = manifest]
        \/ \E print : t'[c] = [t[c] EXCEPT !.pc = "visit",
                                          !.manifest = [t[c].manifest EXCEPT !.print = print]]
    BY <1>t, <1>5, SearchRows
  <2> QED BY <1>t, <2>1 DEF Fields
<1>6. CASE (\E k \in DirKeys : Visit(c, k)) \/ Store(c)
  <2>1. ASSUME NEW k, Visit(c, k) PROVE t'[c].pc = "look"
    <3>1. t'[c] = [t[c] EXCEPT !.pc = "look", !.key = k, !.todo = @ \ {k},
                               !.manifest = NoManifest, !.manifestSince = 0]
      BY <1>t, <2>1, SearchRows
    <3> QED BY <1>t, <3>1 DEF Fields
  <2>2. CASE Store(c)
    <3>1. t'[c] = [t[c] EXCEPT !.pc = "answered", !.key = None, !.current = FALSE]
      BY <1>t, <2>2, SearchRows
    <3> QED BY <1>t, <3>1 DEF Fields
  <2> QED BY <1>6, <2>1, <2>2
<1>7. CASE Load(c) \/ Fail(c) \/ Unmap(c) \/ Look(c) \/ Lock(c)
  <2>1. CASE Load(c)
    <3>1. t'[c] = [t[c] EXCEPT !.pc = IF file[t[c].key] = 0 THEN "fail" ELSE "ready",
                               !.print = file[t[c].key]]
      BY <1>t, <2>1, LoadRows
    <3> QED BY <1>t, <2>1, <3>1 DEF Fields
  <2>2. CASE Fail(c)
    <3>1. t'[c] = [t[c] EXCEPT !.pc = "unmap"]
      BY <1>t, <2>2, LoadRows
    <3> QED BY <1>t, <3>1 DEF Fields
  <2>3. CASE Unmap(c)
    <3>1. t'[c] = Idle \/ t'[c] = [t[c] EXCEPT !.pc = "exit", !.mine = NoEntry]
      BY <1>t, <2>3, LoadRows
    <3> QED BY <1>t, <1>i, <3>1 DEF Fields
  <2>4. CASE Look(c)
    <3>1. t'[c] = [t[c] EXCEPT !.pc = "lock", !.print = file[t[c].key]]
      BY <1>t, <2>4, IndexRows
    <3> QED BY <1>t, <3>1 DEF Fields
  <2>5. CASE Lock(c)
    <3>1. \/ t'[c] = [t[c] EXCEPT !.pc = "wait", !.mine = indexes[t[c].key], !.print = 0]
          \/ \E pc \in {"invalidate", "load"} : t'[c] = [t[c] EXCEPT !.pc = pc, !.print = 0]
      BY <1>t, <2>5, IndexRows
    <3> QED BY <1>t, <3>1 DEF Fields
  <2> QED BY <1>7, <2>1, <2>2, <2>3, <2>4, <2>5
<1>a. ASSUME NEW index, NEW print, NEW pc, t'[c] = After(c, index, print, pc) PROVE t'[c].pc = pc
  BY <1>t, <1>a DEF After, Fields
<1>8. CASE BecomeReady(c) \/ Wait(c)
  <2>1. CASE BecomeReady(c)
    <3>1. t'[c] = After(c, t[c].print, file[t[c].key], "evict")
      BY <1>t, <2>1, LoadRows
    <3> QED BY <1>a, <3>1
  <2>2. CASE Wait(c)
    <3>1. AfterIndex(t[c].request) \notin {"save manifest", "ready"}
      BY DEF AfterIndex
    <3>2. \/ t'[c] = [t[c] EXCEPT !.pc = "asleep"]
          \/ t'[c] = [t[c] EXCEPT !.pc = "exit", !.mine = NoEntry]
          \/ t'[c] = [t[c] EXCEPT !.pc = "look", !.mine = NoEntry]
          \/ t'[c] = Idle
          \/ t'[c] = After(c, t[c].mine.index, t[c].mine.print, AfterIndex(t[c].request))
      BY <1>t, <2>2, IndexRows
    <3>3. \/ t'[c].pc \in {"asleep", "exit", "look"}
          \/ t'[c] = Idle
          \/ t'[c] = After(c, t[c].mine.index, t[c].mine.print, AfterIndex(t[c].request))
      BY <1>t, <3>2 DEF Fields
    <3> QED BY <1>i, <1>a, <3>1, <3>3
  <2> QED BY <1>8, <2>1, <2>2
<1>9. CASE Evict(c) \/ EvictVictims(c) \/ Build(c)
  <2>1. \/ t'[c] = [t[c] EXCEPT !.pc = "victims", !.spared = pinned]
        \/ t'[c] = Idle
        \/ t'[c] = [t[c] EXCEPT !.pc = AfterIndex(t[c].request), !.spared = {}]
        \/ t'[c] = [t[c] EXCEPT !.pc = "save", !.got = source]
    BY <1>t, <1>9, IndexRows
  <2>2. t'[c].pc \in {"victims", "idle", AfterIndex(t[c].request), "save"}
    BY <1>t, <1>i, <2>1 DEF Fields
  <2> QED BY <2>2 DEF AfterIndex
<1>10. CASE Save(c)
  BY <1>t, <1>10 DEF Save, Lowered, Fields
<1>11. CASE SaveIndexes(c)
  <2>1. t'[c] = [t[c] EXCEPT !.pc = "save manifest", !.wrote = source]
    BY <1>t, <1>11, SearchRows
  <2> QED BY <1>t, <1>11, <2>1 DEF Fields
<1> QED BY <1>1, <1>2, <1>3, <1>4, <1>5, <1>6, <1>7, <1>8, <1>9, <1>10, <1>11 DEF Step

(* Nothing on disk is newer than the sources.                              *)
LEMMA DiskKept ==
  ASSUME Types, CurrentInv, NEW c \in Threads, Begins(c) \/ Step(c)
  PROVE  /\ source' = source /\ manifest <= manifest' /\ manifest' <= source
         /\ \A k \in Keys : file'[k] <= source
         /\ \A k \in Keys : file[k] <= file'[k] \/ (Save(c) /\ k = t[c].key)
         /\ manifest' = manifest \/ SaveManifest(c)
<1>n. /\ source \in Nat /\ manifest \in Nat /\ t[c].wrote \in Nat /\ t[c].got \in Nat
      /\ DOMAIN file = Keys /\ \A k \in Keys : file[k] \in Nat
  BY Numbers DEF Types, DiskTypes
<1>c. manifest <= source /\ \A k \in Keys : file[k] <= source
  BY DEF CurrentInv
<1>r. \A n \in Nat : n <= n
  OBVIOUS
<1>1. CASE UNCHANGED <<source, file, manifest>>
  BY <1>n, <1>c, <1>r, <1>1
<1>2. CASE SaveIndexes(c)
  <2>1. source' = source /\ manifest' = manifest /\ file' = DirSavedAs(source)
    BY <1>2 DEF SaveIndexes
  <2>2. \A k \in Keys : file'[k] = source \/ file'[k] = file[k]
    BY <2>1 DEF DirSavedAs
  <2> QED BY <1>n, <1>c, <1>r, <2>1, <2>2
<1>3. CASE SaveManifest(c)
  <2>1. source' = source /\ manifest' = t[c].wrote /\ file' = file /\ t[c].pc = "save manifest"
    BY <1>3 DEF SaveManifest, At
  <2>2. manifest <= t[c].wrote /\ t[c].wrote <= source
    BY <2>1 DEF CurrentInv, Fresh
  <2> QED BY <1>n, <1>c, <1>r, <1>3, <2>1, <2>2
<1>4. CASE Save(c)
  <2>1. /\ source' = source /\ manifest' = manifest
        /\ file' = [file EXCEPT ![t[c].key] = t[c].got] /\ t[c].pc = "save"
    BY <1>4 DEF Save, At
  <2>2. t[c].got <= source
    BY <2>1 DEF CurrentInv, Fresh
  <2>3. \A k \in Keys : IF k = t[c].key THEN file'[k] = t[c].got ELSE file'[k] = file[k]
    BY <1>n, <2>1
  <2> QED BY <1>n, <1>c, <1>r, <1>4, <2>1, <2>2, <2>3
<1> QED BY <1>1, <1>2, <1>3, <1>4, StepDisk, BeginsQuiet

LEMMA OneWriter ==
  ASSUME Types, WaitInv, CurrentInv, NEW c \in Threads, Begins(c) \/ Step(c)
  PROVE  /\ \A d, e \in Threads :
              t'[d].pc = "save manifest" /\ t'[e].pc = "save manifest" => d = e
         /\ SaveManifest(c) => \A d \in Threads \ {c} : t[d].pc # "save manifest"
<1>1. \A d, e \in Threads : t[d].pc = "save manifest" /\ t[e].pc = "save manifest" => d = e
  BY DEF CurrentInv, At
<1>2. \A d \in Threads \ {c} : t'[d].pc = "save manifest" => t[d].pc = "save manifest"
  BY OthersKeep DEF Keeps
<1>3. t'[c].pc = "save manifest" => \A d \in Threads : t[d].pc # "save manifest"
  <2>1. CASE SaveIndexes(c)
    BY <2>1 DEF SaveIndexes, Unlocked, At
  <2>2. CASE ~SaveIndexes(c)
    BY <2>2, Enters
  <2> QED BY <2>1, <2>2
<1>4. SaveManifest(c) => t[c].pc = "save manifest"
  BY DEF SaveManifest, At
<1> QED BY <1>1, <1>2, <1>3, <1>4

LEMMA FreshKept ==
  ASSUME Types, WaitInv, CurrentInv, NEW c \in Threads, Begins(c) \/ Step(c), NEW d \in Threads
  PROVE  Fresh(t'[d], source', file', manifest')
<1>1. CASE d = c
  <2>1. CASE Begins(c)
    BY <1>1, <2>1, BeginsFresh, BeginsQuiet
  <2>2. CASE Step(c)
    BY <1>1, <2>2, StepGroups, RefreshFresh, SearchFresh, IndexFresh
  <2> QED BY <2>1, <2>2
<1>2. CASE d # c
  <2>1. /\ Keeps(t[d], t'[d]) /\ t'[d].since \in Nat /\ t'[d].since <= t[d].since
        /\ ~Save(c) => t'[d].since = t[d].since
        /\ Save(c) /\ t[d].request = "read" /\ t[d].key = t[c].key => t'[d].since <= t[c].got
    BY <1>2, OthersKeep
  <2>2. /\ source' = source /\ manifest <= manifest'
        /\ \A k \in Keys : file[k] <= file'[k] \/ (Save(c) /\ k = t[c].key)
        /\ manifest' = manifest \/ SaveManifest(c)
    BY DiskKept
  <2>3. t[d].pc = "save manifest" => manifest' = manifest
    BY <1>2, <2>2, OneWriter
  <2>4. /\ source \in Nat /\ manifest \in Nat /\ manifest' \in Nat /\ t[d].since \in Nat
        /\ \A k \in Keys : file[k] \in Nat /\ file'[k] \in Nat
    <3>1. DiskTypes'
      BY DiskTypesKept
    <3> QED BY <3>1, Numbers DEF DiskTypes, Versions
  <2>5. source <= source' /\ source' \in Nat
    <3>1. source <= source
      BY <2>4
    <3> QED BY <2>2, <2>4, <3>1
  <2>6. Fresh(t[d], source, file, manifest)
    BY DEF CurrentInv
  <2>7. ASSUME t'[d].request = "read" PROVE t'[d].since <= file'[t'[d].key]
    <3>1. t[d].request = "read" /\ t'[d].key = t[d].key
      BY <2>1, <2>7 DEF Keeps
    <3>2. t[d].key \in Keys /\ t[d].since <= file[t[d].key]
      BY <2>6, <3>1 DEF Fresh
    <3>3. CASE Save(c) /\ t[d].key = t[c].key
      <4>1. file'[t[d].key] = t[c].got
        BY <3>2, <3>3 DEF Save, Types, DiskTypes
      <4> QED BY <2>1, <3>1, <3>3, <4>1
    <3>4. CASE ~(Save(c) /\ t[d].key = t[c].key)
      <4>1. file[t[d].key] <= file'[t[d].key]
        BY <2>2, <3>2, <3>4
      <4>2. t[d].since <= file'[t[d].key]
        BY <2>4, <3>2, <4>1, AtMost
      <4> QED BY <2>1, <2>4, <3>1, <3>2, <4>2, AtMost
    <3> QED BY <3>3, <3>4
  <2> QED BY <2>1, <2>2, <2>3, <2>4, <2>5, <2>6, <2>7, KeptFresh
<1> QED BY <1>1, <1>2

LEMMA CurrentOutside ==
  ASSUME Types, CurrentInv, Outside PROVE CurrentInv'
<1>t. ThreadTypes /\ \A c \in Threads : DOMAIN t[c] = Fields
  BY DEF Types, ThreadTypes, Typed
<1>n. /\ source \in Nat /\ manifest \in Nat /\ DOMAIN file = Keys /\ \A k \in Keys : file[k] \in Nat
      /\ source' \in Nat /\ manifest' \in Nat
  <2>1. DiskTypes /\ DiskTypes'
    BY OutsideTypes DEF Types
  <2> QED BY <2>1, Numbers DEF DiskTypes, Versions
<1>c. manifest <= source /\ \A k \in Keys : file[k] <= source
  BY DEF CurrentInv
<1>r. \A n \in Nat : n <= n
  OBVIOUS
(* Each leaves the threads as they are, or tells the readers of an index.  *)
<1>e. ASSUME source <= source', manifest <= manifest', manifest' <= source',
             \A k \in Keys : file'[k] <= source',
             manifest' = manifest \/ Unlocked,
             NEW gone, \A k \in Keys : k = gone \/ file[k] <= file'[k],
             \A c \in Threads :
               /\ Keeps(t[c], t'[c]) /\ t'[c].pc = t[c].pc
               /\ t'[c].since \in Nat /\ t'[c].since <= t[c].since
               /\ t[c].request = "read" /\ t[c].key = gone => t'[c].since <= file'[gone]
      PROVE  CurrentInv'
  <2>1. ASSUME NEW c \in Threads PROVE Fresh(t'[c], source', file', manifest')
    <3>1. Fresh(t[c], source, file, manifest)
      BY DEF CurrentInv
    <3>2. ASSUME t'[c].request = "read" PROVE t'[c].since <= file'[t'[c].key]
      <4>1. t[c].request = "read" /\ t'[c].key = t[c].key
        BY <1>e, <3>2 DEF Keeps
      <4>2. t[c].key \in Keys /\ t[c].since <= file[t[c].key]
        BY <3>1, <4>1 DEF Fresh
      <4>3. CASE t[c].key = gone
        BY <1>e, <4>1, <4>3
      <4>4. CASE t[c].key # gone
        <5>1. /\ t'[c].since \in Nat /\ t[c].since \in Nat /\ t'[c].since <= t[c].since
              /\ file[t[c].key] \in Nat /\ file[t[c].key] <= file'[t[c].key]
              /\ file'[t[c].key] \in Nat
          <6>1. DiskTypes'
            BY OutsideTypes DEF Types
          <6> QED BY <1>e, <1>n, <4>2, <4>4, <6>1, Numbers DEF DiskTypes, Versions
        <5>2. t'[c].since <= file[t[c].key]
          BY <4>2, <5>1, AtMost
        <5> QED BY <4>1, <5>1, <5>2, AtMost
      <4> QED BY <4>3, <4>4
    <3>3. t[c].pc = "save manifest" => manifest' = manifest
      BY <1>e DEF Unlocked, At
    <3> QED BY <1>e, <1>n, <3>1, <3>2, <3>3, KeptFresh
  <2>2. \A c, d \in Threads :
          At(c, "save manifest")' /\ At(d, "save manifest")' => c = d
    BY <1>e DEF CurrentInv, At
  <2> QED BY <1>e, <2>1, <2>2 DEF CurrentInv
<1>k. UNCHANGED t => \A c \in Threads :
        /\ Keeps(t[c], t'[c]) /\ t'[c].pc = t[c].pc
        /\ t'[c].since \in Nat /\ t'[c].since <= t[c].since
  <2> SUFFICES ASSUME UNCHANGED t, NEW c \in Threads
               PROVE  /\ Keeps(t[c], t'[c]) /\ t'[c].pc = t[c].pc
                      /\ t'[c].since \in Nat /\ t'[c].since <= t[c].since
    OBVIOUS
  <2>1. t[c].since \in Nat /\ t'[c] = t[c]
    BY Numbers
  <2> QED BY <1>r, <2>1 DEF Keeps
<1>1. CASE Edit
  <2>1. source' = source + 1 /\ UNCHANGED <<file, manifest, t>>
    BY <1>1 DEF Edit
  <2>2. source <= source' /\ \A n \in Nat : n <= source => n <= source'
    BY <1>n, <2>1
  <2>3. \A k \in Keys : k = None \/ file[k] <= file'[k]
    BY <1>n, <1>r, <2>1
  <2>4. \A c \in Threads : t[c].request = "read" /\ t[c].key = None => t'[c].since <= file'[None]
    BY CachesAssumption DEF CurrentInv, Fresh
  <2> QED BY <1>c, <1>e, <1>k, <1>n, <1>r, <2>1, <2>2, <2>3, <2>4
<1>2. CASE OtherProcess
  <2>1. source' = source /\ manifest' = source /\ file' = DirSavedAs(source) /\ UNCHANGED t /\ Unlocked
    BY <1>2 DEF OtherProcess
  <2>2. \A k \in Keys : file'[k] = source \/ file'[k] = file[k]
    BY <2>1 DEF DirSavedAs
  <2>3. \A k \in Keys : (k = None \/ file[k] <= file'[k]) /\ file'[k] <= source'
    BY <1>c, <1>n, <1>r, <2>1, <2>2
  <2>4. \A c \in Threads : t[c].request = "read" /\ t[c].key = None => t'[c].since <= file'[None]
    BY CachesAssumption DEF CurrentInv, Fresh
  <2> QED BY <1>c, <1>e, <1>k, <1>n, <1>r, <2>1, <2>3, <2>4
<1>3. ASSUME NEW k \in DeleteKeys, Delete(k) PROVE CurrentInv'
  <2>1. /\ file' = [file EXCEPT ![k] = 0] /\ UNCHANGED <<source, manifest>> /\ t' = Lowered(k, 0)
        /\ k \in Keys
    BY <1>3, CachesAssumption DEF Delete
  <2>2. \A l \in Keys : IF l = k THEN file'[l] = 0 ELSE file'[l] = file[l]
    BY <1>n, <2>1
  <2>3. \A l \in Keys : (l = k \/ file[l] <= file'[l]) /\ file'[l] <= source'
    BY <1>c, <1>n, <1>r, <2>1, <2>2
  <2>4. ASSUME NEW c \in Threads
        PROVE  /\ Keeps(t[c], t'[c]) /\ t'[c].pc = t[c].pc
               /\ t'[c].since \in Nat /\ t'[c].since <= t[c].since
               /\ t[c].request = "read" /\ t[c].key = k => t'[c].since <= file'[k]
    <3>1. t[c].since \in Nat
      BY Numbers
    <3>2. CASE t[c].request = "read" /\ t[c].key = k
      <4>1. t'[c] = [t[c] EXCEPT !.since = Smaller(@, 0)]
        BY <2>1, <3>2 DEF Lowered
      <4>2. Keeps(t[c], t'[c]) /\ t'[c].pc = t[c].pc /\ t'[c].since = Smaller(t[c].since, 0)
        BY <1>t, <4>1 DEF Keeps, Fields
      <4>3. Smaller(t[c].since, 0) = 0
        BY <3>1 DEF Smaller
      <4> QED BY <1>r, <2>1, <2>2, <3>1, <4>2, <4>3
    <3>3. CASE ~(t[c].request = "read" /\ t[c].key = k)
      <4>1. t'[c] = t[c]
        BY <2>1, <3>3 DEF Lowered
      <4> QED BY <1>r, <3>1, <3>3, <4>1 DEF Keeps
    <3> QED BY <3>2, <3>3
  <2> QED BY <1>c, <1>e, <1>n, <1>r, <2>1, <2>3, <2>4
<1> QED BY <1>1, <1>2, <1>3 DEF Outside

LEMMA CurrentStep ==
  ASSUME Types, WaitInv, CurrentInv, NEW c \in Threads, Begins(c) \/ Step(c) PROVE CurrentInv'
<1>1. \A d \in Threads : Fresh(t'[d], source', file', manifest')
  BY FreshKept
<1>2. manifest' <= source' /\ \A k \in Keys : file'[k] <= source'
  BY DiskKept
<1>3. \A d, e \in Threads : At(d, "save manifest")' /\ At(e, "save manifest")' => d = e
  BY OneWriter DEF At
<1> QED BY <1>1, <1>2, <1>3 DEF CurrentInv

LEMMA CurrentAlways ==
  ASSUME Types, WaitInv, CurrentInv, [Next]_vars PROVE CurrentInv'
<1>1. CASE UNCHANGED vars
  BY <1>1, MemoryParts DEF vars, CurrentInv, At
<1> QED BY <1>1, CurrentOutside, CurrentStep, NextSteps

LEMMA CurrentFirst == ASSUME Init PROVE CurrentInv
<1>1. \A c \in Threads : t[c] = Idle \/ t[c] = Starting
  BY FirstThreads
<1>2. source = 1 /\ manifest = 1 /\ \A k \in Keys : file[k] = 1
  BY DEF Init
<1>3. \A c \in Threads : Fresh(t[c], source, file, manifest)
  BY <1>1, <1>2, IdleFresh
<1>4. \A c \in Threads : ~At(c, "save manifest")
  <2>1. Idle.pc = "idle" /\ Starting.pc = "manifest"
    BY FirstThreads
  <2> QED BY <1>1, <2>1 DEF At
<1>5. manifest <= source /\ \A k \in Keys : file[k] <= source
  BY <1>2
<1> QED BY <1>3, <1>4, <1>5 DEF CurrentInv

(* Whoever reads one index gets a version as new as the file was when the  *)
(* request came in (cached_index_with_key), and whoever reads the manifest *)
(* one as new as it was then (cached_shard_manifest), unless the entry is  *)
(* torn: replaced on disk between the read of its value and the reading of *)
(* its fingerprint.                                                        *)
THEOREM CurrentAnswers == Spec => []CurrentUnlessTorn
<1>1. Init => Types /\ WaitInv /\ CurrentInv
  BY TypesInit, WaitInit, CurrentFirst
<1>2. Types /\ WaitInv /\ CurrentInv /\ [Next]_vars => (Types /\ WaitInv /\ CurrentInv)'
  BY TypesStep, WaitAlways, CurrentAlways
<1>3. Types /\ WaitInv /\ CurrentInv => CurrentUnlessTorn
  <2> SUFFICES ASSUME CurrentInv, NEW c \in Threads
               PROVE  /\ At(c, "answered") /\ t[c].request = "read" =>
                           t[c].got >= t[c].since \/ t[c].got # t[c].print
                      /\ At(c, "visit") =>
                           \/ t[c].manifest.version >= t[c].manifestSince
                           \/ t[c].manifest.version # t[c].manifest.print
    BY DEF CurrentUnlessTorn
  <2>1. Fresh(t[c], source, file, manifest)
    BY DEF CurrentInv
  <2> QED BY <2>1 DEF Fresh, At, Reading
<1> QED BY <1>1, <1>2, <1>3, PTL DEF Spec

-----------------------------------------------------------------------------
(* The indexes that were warmed before the daemon served stay              *)

PromiseInv ==
  /\ promised \subseteq pinned
  /\ \A k \in promised : indexes[k] # NoEntry
  /\ \A c \in Threads : At(c, "victims") => promised \subseteq t[c].spared

(* Only who drops the promise too takes an index out, or its pin.          *)
LEMMA PinsKept ==
  ASSUME Types, PromiseInv, NEW c \in Threads, Begins(c) \/ Step(c), ~Warmed(c)
  PROVE  promised' \subseteq promised /\ promised' \subseteq pinned'
<1>1. promised' \subseteq promised
  BY StepPromises, BeginsQuiet
     DEF ClearIndexes, ClearPins, EvictDirectory, UnpinDirectory, Unmap, StartAgain
<1>2. CASE ClearPins(c) \/ UnpinDirectory(c) \/ StartAgain(c)
  BY <1>2 DEF PromiseInv, ClearPins, UnpinDirectory, StartAgain
<1>3. CASE \E k \in DirKeys : Visit(c, k)
  BY <1>1, <1>3 DEF PromiseInv, Visit
<1> QED BY <1>1, <1>2, <1>3, StepPins, BeginsQuiet DEF PromiseInv

LEMMA DroppedKept ==
  ASSUME NEW gone, NEW k \in Keys, indexes[k] # NoEntry, k \notin gone
  PROVE  Dropped(gone)[k] # NoEntry
BY DEF Dropped

LEMMA EntriesKept ==
  ASSUME Types, PromiseInv, NEW c \in Threads, Begins(c) \/ Step(c), ~Warmed(c),
         NEW k \in promised'
  PROVE  indexes'[k] # NoEntry
<1>t. /\ k \in Keys /\ k \in promised /\ indexes[k] # NoEntry
      /\ indexes \in [Keys -> Entries]
  BY PinsKept DEF PromiseInv, Types, MemoryTypes
<1>1. CASE ClearIndexes(c)
  BY <1>1 DEF ClearIndexes
<1>2. CASE EvictDirectory(c)
  BY <1>t, <1>2, DroppedKept DEF EvictDirectory
<1>3. CASE Unmap(c)
  BY <1>t, <1>3, DroppedKept DEF Unmap
<1>4. CASE EvictVictims(c)
  <2>1. Victims(c) \cap t[c].spared = {}
    BY VictimsType
  <2>2. promised \subseteq t[c].spared
    BY <1>4 DEF PromiseInv, EvictVictims
  <2> QED BY <1>t, <1>4, <2>1, <2>2, DroppedKept DEF EvictVictims
<1>5. ASSUME NEW n, NEW entry, entry # NoEntry, indexes' = [indexes EXCEPT ![n] = entry]
      PROVE  indexes'[k] # NoEntry
  BY <1>t, <1>5
<1>6. CASE Lock(c)
  BY <1>t, <1>5, <1>6, MemoryParts, StateOfEntries DEF Lock
<1>7. CASE BecomeReady(c)
  BY <1>t, <1>5, <1>7, MemoryParts, StateOfEntries DEF BecomeReady
<1>8. CASE Fail(c)
  <2>1. indexes'[k] \in {indexes[k], Failed(c)}
    BY <1>t, <1>8 DEF Fail
  <2> QED BY <1>t, <2>1, StateOfEntries
<1>9. CASE Replace(c)
  <2>1. indexes' = [indexes EXCEPT ![t[c].key] = Ready(t[c].got, file[t[c].key])]
    BY <1>9 DEF Replace
  <2>2. Ready(t[c].got, file[t[c].key]) # NoEntry
    BY StateOfEntries
  <2> QED BY <1>5, <2>1, <2>2
<1>10. CASE indexes' = indexes
  BY <1>t, <1>10
<1>11. CASE StartAgain(c)
  BY <1>11 DEF StartAgain
<1> QED BY <1>1, <1>2, <1>3, <1>4, <1>6, <1>7, <1>8, <1>9, <1>10, <1>11, StepEntries, BeginsQuiet
        DEF Wait

(* While the daemon starts, only its starter is at work.  What it has      *)
(* visited is pinned and in the cache, and what it has yet to visit is     *)
(* not there: it never waits for an index, and its evictions spare what it *)
(* pinned, since nobody else can take the copy of the pins before.         *)
Warms(c) == t[c].request = "warm"

StartPcs == {"manifest", "load manifest", "put manifest", "visit", "look", "lock", "load",
             "ready", "evict", "victims"}
EndPcs == {"fail", "unmap", "exit"}

Kept(c) ==
  {k \in DirKeys \ t[c].todo : t[c].pc \in {"look", "lock", "load", "ready"} => k # t[c].key}

Warming(c) ==
  /\ t[c].pc \in {"manifest", "load manifest", "put manifest"} => t[c].todo = DirKeys
  /\ t[c].pc \in {"manifest", "load manifest"} => cached = NoManifest
  /\ t[c].pc \in OnKey => t[c].key \in DirKeys \ t[c].todo /\ t[c].key \in pinned
  /\ t[c].pc = "victims" => pinned \subseteq t[c].spared
  /\ \A k \in Kept(c) : k \in pinned /\ indexes[k] # NoEntry
  /\ \A k \in t[c].todo : indexes[k] = NoEntry
  /\ t[c].pc \in {"look", "lock"} => indexes[t[c].key] = NoEntry
  /\ t[c].pc \in {"load", "ready"} => indexes[t[c].key] = Loading(c)

Starts(c) ==
  /\ t[c].pc \in StartPcs \cup EndPcs
  /\ \A d \in Threads \ {c} : t[d].pc = "idle"
  /\ t[c].pc \in StartPcs => Warming(c)

StartInv ==
  /\ \A c \in Threads : Warms(c) => Starts(c)
  /\ \A c \in Threads : t[c].pc = "exit" => Warms(c)

LEMMA StartFirst == ASSUME Init PROVE StartInv
<1>1. \A c \in Threads : t[c] = IF c = Starter THEN Starting ELSE Idle
  BY FirstThreads
<1>2. ASSUME NEW c \in Threads, Warms(c) PROVE Starts(c)
  <2>1. c = Starter /\ t[c] = Starting
    BY <1>1, <1>2, FirstThreads DEF Warms, None
  <2>2. t[c].pc = "manifest" /\ t[c].todo = DirKeys
    BY <2>1, FirstThreads
  <2>3. \A d \in Threads \ {c} : t[d].pc = "idle"
    BY <1>1, <2>1, FirstThreads
  <2>4. cached = NoManifest /\ \A k \in DirKeys : indexes[k] = NoEntry
    BY DEF Init, Keys
  <2>5. Kept(c) = {}
    BY <2>2 DEF Kept
  <2>6. Warming(c)
    BY <2>2, <2>4, <2>5 DEF Warming, OnKey
  <2> QED BY <2>2, <2>3, <2>6 DEF Starts, StartPcs
<1>3. \A c \in Threads : t[c].pc # "exit"
  BY <1>1, FirstThreads
<1> QED BY <1>2, <1>3 DEF StartInv

(* A thread warms or leaves only if it did before, but for a new start.    *)
LEMMA SameRequest ==
  ASSUME Types, WaitInv, NEW c \in Threads, Step(c), ~StartAgain(c)
  PROVE  \/ t'[c] = Idle
         \/ /\ t'[c].request = t[c].request
            /\ t'[c].pc = "exit" => t[c].request = "warm"
<1>t. ThreadTypes /\ DOMAIN t[c] = Fields
  BY DEF Types, ThreadTypes, Typed
<1>1. CASE \/ Check(c) \/ Acquire(c) \/ Recheck(c) \/ SaveManifest(c) \/ ClearIndexes(c)
           \/ ClearPins(c) \/ ClearManifests(c) \/ UnpinDirectory(c) \/ Invalidate(c) \/ Replace(c)
  <2>1. t'[c] = Idle \/ \E pc : pc # "exit" /\ t'[c] = [t[c] EXCEPT !.pc = pc]
    BY <1>t, <1>1, PcRows, CheckRows DEF Moves1
  <2> QED BY <1>t, <2>1 DEF Fields
<1>2. CASE Return(c) \/ Warmed(c) \/ NextEpochStarts(c) \/ SaveIndexes(c) \/ Store(c)
  <2>1. \/ t'[c] = Idle
        \/ t'[c] = [t[c] EXCEPT !.pc = "lookup"]
        \/ t'[c] = [t[c] EXCEPT !.pc = "save manifest", !.wrote = source]
        \/ t'[c] = [t[c] EXCEPT !.pc = "answered", !.key = None, !.current = FALSE]
    BY <1>t, <1>2, SearchRows
  <2> QED BY <1>t, <2>1 DEF Fields
<1>3. CASE Lookup(c) \/ Manifest(c)
  <2>1. \/ t'[c] = [t[c] EXCEPT !.pc = "answered", !.got = completed]
        \/ t'[c] = [t[c] EXCEPT !.pc = "visit", !.todo = DirKeys, !.current = TRUE]
        \/ t'[c] = [t[c] EXCEPT !.pc = "manifest", !.todo = DirKeys, !.current = TRUE,
                                !.manifestSince = manifest]
        \/ t'[c] = [t[c] EXCEPT !.pc = "visit", !.manifest = cached]
        \/ \E pc \in {"load manifest", "reload manifest"} : t'[c] = [t[c] EXCEPT !.pc = pc]
    BY <1>t, <1>3, SearchRows
  <2> QED BY <1>t, <2>1 DEF Fields
<1>4. CASE LoadManifest(c) \/ EvictDirectory(c) \/ PutManifest(c)
  <2>1. \/ \E pc \in {"put manifest", "evict directory"} :
             t'[c] = [t[c] EXCEPT !.manifest.version = manifest, !.pc = pc]
        \/ t'[c] = [t[c] EXCEPT !.pc = "unpin directory", !.manifest.print = manifest]
        \/ \E print : t'[c] = [t[c] EXCEPT !.pc = "visit",
                                          !.manifest = [t[c].manifest EXCEPT !.print = print]]
    BY <1>t, <1>4, SearchRows
  <2> QED BY <1>t, <2>1 DEF Fields
<1>5. ASSUME NEW k, Visit(c, k) PROVE t'[c].request = t[c].request /\ t'[c].pc = "look"
  <2>1. t'[c] = [t[c] EXCEPT !.pc = "look", !.key = k, !.todo = @ \ {k},
                             !.manifest = NoManifest, !.manifestSince = 0]
    BY <1>t, <1>5, SearchRows
  <2> QED BY <1>t, <2>1 DEF Fields
<1>6. CASE Load(c) \/ Fail(c) \/ Look(c) \/ Lock(c)
  <2>1. \/ t'[c] = [t[c] EXCEPT !.pc = IF file[t[c].key] = 0 THEN "fail" ELSE "ready",
                                !.print = file[t[c].key]]
        \/ t'[c] = [t[c] EXCEPT !.pc = "unmap"]
        \/ t'[c] = [t[c] EXCEPT !.pc = "lock", !.print = file[t[c].key]]
        \/ t'[c] = [t[c] EXCEPT !.pc = "wait", !.mine = indexes[t[c].key], !.print = 0]
        \/ \E pc \in {"invalidate", "load"} : t'[c] = [t[c] EXCEPT !.pc = pc, !.print = 0]
    BY <1>t, <1>6, LoadRows, IndexRows
  <2> QED BY <1>t, <2>1 DEF Fields
<1>a. ASSUME NEW index, NEW print, NEW pc, t'[c] = After(c, index, print, pc)
      PROVE  t'[c].request = t[c].request /\ t'[c].pc = pc
  BY <1>t, <1>a DEF After, Fields
<1>7. CASE BecomeReady(c)
  <2>1. t'[c] = After(c, t[c].print, file[t[c].key], "evict")
    BY <1>t, <1>7, LoadRows
  <2> QED BY <1>a, <2>1
<1>8. CASE Unmap(c) \/ Wait(c)
  <2>1. \/ t'[c] = Idle
        \/ t[c].request = "warm" /\ t'[c] = [t[c] EXCEPT !.pc = "exit", !.mine = NoEntry]
        \/ t'[c] = [t[c] EXCEPT !.pc = "asleep"]
        \/ t'[c] = [t[c] EXCEPT !.pc = "look", !.mine = NoEntry]
        \/ t'[c] = After(c, t[c].mine.index, t[c].mine.print, AfterIndex(t[c].request))
    BY <1>t, <1>8, LoadRows, IndexRows
  <2>2. AfterIndex(t[c].request) # "exit"
    BY DEF AfterIndex
  <2>3. CASE t'[c] = After(c, t[c].mine.index, t[c].mine.print, AfterIndex(t[c].request))
    BY <1>a, <2>2, <2>3
  <2> QED BY <1>t, <2>1, <2>3 DEF Fields
<1>9. CASE Evict(c) \/ EvictVictims(c) \/ Build(c)
  <2>1. \/ t'[c] = [t[c] EXCEPT !.pc = "victims", !.spared = pinned]
        \/ t'[c] = Idle
        \/ t'[c] = [t[c] EXCEPT !.pc = AfterIndex(t[c].request), !.spared = {}]
        \/ t'[c] = [t[c] EXCEPT !.pc = "save", !.got = source]
    BY <1>t, <1>9, IndexRows
  <2>2. AfterIndex(t[c].request) # "exit"
    BY DEF AfterIndex
  <2> QED BY <1>t, <2>1, <2>2 DEF Fields
<1>10. CASE Save(c)
  BY <1>t, <1>10 DEF Save, Lowered, ThreadTypes, Fields
<1> QED BY <1>1, <1>2, <1>3, <1>4, <1>5, <1>6, <1>7, <1>8, <1>9, <1>10 DEF Step

LEMMA StepMoves == ASSUME NEW c \in Threads, Step(c) PROVE t[c].pc # "idle"
BY DEF Step, Return, Check, Acquire, Recheck, SaveIndexes, SaveManifest, ClearIndexes, ClearPins,
       ClearManifests, NextEpochStarts, Lookup, Manifest, LoadManifest, EvictDirectory,
       UnpinDirectory, PutManifest, Visit, Store, Warmed, Look, Lock, Invalidate, Load,
       BecomeReady, Fail, Unmap, StartAgain, Wait, Evict, EvictVictims, Build, Save, Replace, At

(* What the starter can do next.                                           *)
LEMMA StarterSteps ==
  ASSUME NEW c \in Threads, Warms(c), Starts(c), Step(c)
  PROVE  \/ Manifest(c) /\ t[c].pc = "manifest"
         \/ LoadManifest(c) /\ t[c].pc = "load manifest"
         \/ PutManifest(c) \/ (\E k \in DirKeys : Visit(c, k)) \/ Warmed(c)
         \/ Look(c) \/ Lock(c) \/ Load(c) \/ BecomeReady(c) \/ Fail(c) \/ Unmap(c)
         \/ StartAgain(c) \/ Evict(c) \/ EvictVictims(c)
BY DEF Warms, Starts, StartPcs, EndPcs, Step, Return, Check, Acquire, Recheck, SaveIndexes,
       SaveManifest, ClearIndexes, ClearPins, ClearManifests, NextEpochStarts, Lookup, Manifest,
       LoadManifest, EvictDirectory, UnpinDirectory, PutManifest, Store, Invalidate, Wait, Build,
       Save, Replace, At

(* Each of these steps keeps what has been warmed so far.                  *)
LEMMA StarterManifest ==
  ASSUME Types, NEW c \in Threads, Warming(c),
         \/ Manifest(c) /\ t[c].pc = "manifest"
         \/ LoadManifest(c) /\ t[c].pc = "load manifest"
         \/ PutManifest(c)
  PROVE  t'[c].pc \in StartPcs /\ Warming(c)'
<1>t. DOMAIN t = Threads /\ Typed(t[c]) /\ t[c].todo = DirKeys /\ DOMAIN t[c] = Fields
  BY DEF Types, ThreadTypes, Typed, Warming, PutManifest, At
<1>1. /\ t'[c].todo = t[c].todo
      /\ \/ t'[c].pc \in {"visit", "put manifest"}
         \/ t'[c].pc = "load manifest" /\ cached' = NoManifest
  <2>1. CASE Manifest(c) /\ t[c].pc = "manifest"
    <3>1. cached = NoManifest /\ cached' = cached
      BY <2>1, MemoryParts DEF Warming, Manifest
    <3>2. t'[c] = [t[c] EXCEPT !.pc = "load manifest"]
      BY <1>t, <2>1, <3>1 DEF Manifest
    <3> QED BY <1>t, <3>1, <3>2 DEF Fields
  <2>2. CASE LoadManifest(c) /\ t[c].pc = "load manifest"
    <3>1. t'[c] = [t[c] EXCEPT !.manifest.version = manifest, !.pc = "put manifest"]
      BY <1>t, <2>2 DEF LoadManifest, At
    <3> QED BY <1>t, <3>1 DEF Fields
  <2>3. CASE PutManifest(c)
    <3>1. PICK print : t'[c] = [t[c] EXCEPT !.pc = "visit",
                                            !.manifest = [t[c].manifest EXCEPT !.print = print]]
      BY <2>3, SearchRows DEF Types
    <3> QED BY <1>t, <3>1 DEF Fields
  <2> QED BY <2>1, <2>2, <2>3
<1>2. UNCHANGED <<indexes, pinned>>
  BY MemoryParts DEF Manifest, LoadManifest, PutManifest, entries
<1>3. Kept(c)' = {}
  BY <1>t, <1>1 DEF Kept
<1>4. \A k \in t'[c].todo : indexes'[k] = NoEntry
  BY <1>1, <1>2 DEF Warming
<1> QED BY <1>t, <1>1, <1>3, <1>4 DEF Warming, StartPcs, OnKey

LEMMA StarterVisit ==
  ASSUME Types, NEW c \in Threads, Warms(c), Warming(c), NEW k \in DirKeys, Visit(c, k)
  PROVE  t'[c].pc \in StartPcs /\ Warming(c)'
<1>t. DOMAIN t = Threads /\ Typed(t[c]) /\ DOMAIN t[c] = Fields
  BY DEF Types, ThreadTypes, Typed
<1>1. t'[c] = [t[c] EXCEPT !.pc = "look", !.key = k, !.todo = @ \ {k},
                           !.manifest = NoManifest, !.manifestSince = 0]
  BY SearchRows DEF Types
<1>2. t'[c].pc = "look" /\ t'[c].key = k /\ t'[c].todo = t[c].todo \ {k}
  BY <1>t, <1>1 DEF Fields
<1>3. t[c].pc = "visit" /\ k \in t[c].todo /\ pinned' = pinned \cup {k} /\ indexes' = indexes
  BY MemoryParts DEF Visit, Warms, At
<1>4. Kept(c)' \subseteq Kept(c)
  BY <1>2, <1>3 DEF Kept
<1> QED BY <1>2, <1>3, <1>4 DEF Warming, StartPcs

(* Look and Load change nothing in memory.                                 *)
LEMMA StarterLook ==
  ASSUME Types, WaitInv, NEW c \in Threads, Warming(c), Look(c) \/ Load(c)
  PROVE  t'[c].pc \in StartPcs \cup EndPcs /\ (t'[c].pc \in StartPcs => Warming(c)')
<1>t. ThreadTypes /\ DOMAIN t[c] = Fields
  BY DEF Types, ThreadTypes, Typed
<1>1. UNCHANGED <<indexes, pinned>>
  BY MemoryParts DEF Look, Load
<1>2. CASE Look(c)
  <2>1. t'[c] = [t[c] EXCEPT !.pc = "lock", !.print = file[t[c].key]] /\ t[c].pc = "look"
    BY <1>t, <1>2, IndexRows DEF Look, At
  <2>2. t'[c].pc = "lock" /\ t'[c].key = t[c].key /\ t'[c].todo = t[c].todo
    BY <1>t, <2>1 DEF Fields
  <2>3. Kept(c)' = Kept(c)
    BY <2>1, <2>2 DEF Kept
  <2> QED BY <1>1, <2>1, <2>2, <2>3 DEF Warming, StartPcs, OnKey
<1>3. CASE Load(c)
  <2> DEFINE pc == IF file[t[c].key] = 0 THEN "fail" ELSE "ready"
  <2>1. t'[c] = [t[c] EXCEPT !.pc = pc, !.print = file[t[c].key]] /\ t[c].pc = "load"
    BY <1>t, <1>3, LoadRows DEF Load, At
  <2>2. pc \in {"fail", "ready"}
    OBVIOUS
  <2> HIDE DEF pc
  <2>3. t'[c].pc = pc /\ t'[c].key = t[c].key /\ t'[c].todo = t[c].todo
    BY <1>t, <2>1 DEF Fields
  <2>4. CASE pc = "ready"
    <3>1. Kept(c)' = Kept(c)
      BY <2>1, <2>3, <2>4 DEF Kept
    <3> QED BY <1>1, <2>1, <2>3, <2>4, <3>1 DEF Warming, StartPcs, OnKey
  <2> QED BY <2>2, <2>3, <2>4 DEF StartPcs, EndPcs
<1> QED BY <1>2, <1>3

LEMMA StarterLock ==
  ASSUME Types, NEW c \in Threads, Warming(c), Lock(c)
  PROVE  t'[c].pc \in StartPcs /\ Warming(c)'
<1>t. /\ DOMAIN t = Threads /\ DOMAIN t[c] = Fields /\ t[c].pc = "lock"
      /\ t[c].key \in DirKeys \ t[c].todo /\ indexes[t[c].key] = NoEntry
      /\ indexes \in [Keys -> Entries] /\ t[c].key \in Keys
  BY DEF Types, ThreadTypes, Typed, MemoryTypes, Warming, Lock, At, OnKey, Keys
<1>1. /\ indexes' = [indexes EXCEPT ![t[c].key] = Loading(c)] /\ pinned' = pinned
      /\ t'[c] = [t[c] EXCEPT !.pc = "load", !.print = 0]
  <2>1. ~Outdated(indexes[t[c].key], t[c].print)
    BY <1>t, StateOfEntries DEF Outdated
  <2> QED BY <1>t, <2>1 DEF Lock
<1>2. t'[c].pc = "load" /\ t'[c].key = t[c].key /\ t'[c].todo = t[c].todo
  BY <1>t, <1>1 DEF Fields
<1>3. Kept(c)' = Kept(c) /\ t[c].key \notin Kept(c)
  BY <1>t, <1>2 DEF Kept
<1>4. \A k \in DirKeys : k # t[c].key => indexes'[k] = indexes[k]
  BY <1>t, <1>1 DEF Keys
<1>5. Kept(c) \subseteq DirKeys /\ t[c].todo \subseteq DirKeys
  BY DEF Kept, Types, ThreadTypes, Typed
<1>6. indexes'[t[c].key] = Loading(c)
  BY <1>t, <1>1
<1> QED BY <1>t, <1>1, <1>2, <1>3, <1>4, <1>5, <1>6 DEF Warming, StartPcs, OnKey

LEMMA StarterReady ==
  ASSUME Types, WaitInv, NEW c \in Threads, Warming(c), BecomeReady(c)
  PROVE  t'[c].pc \in StartPcs /\ Warming(c)'
<1>t. /\ ThreadTypes /\ DOMAIN t[c] = Fields /\ t[c].pc = "ready"
      /\ t[c].key \in DirKeys \ t[c].todo /\ indexes[t[c].key] = Loading(c)
      /\ indexes \in [Keys -> Entries] /\ t[c].key \in Keys /\ t[c].key \in pinned
  BY DEF Types, ThreadTypes, Typed, MemoryTypes, Warming, BecomeReady, At, OnKey, Keys
<1>1. /\ indexes' = [indexes EXCEPT ![t[c].key] = Ready(t[c].print, file[t[c].key])]
      /\ pinned' = pinned
  BY <1>t DEF BecomeReady
<1>2. t'[c] = After(c, t[c].print, file[t[c].key], "evict")
  BY <1>t, LoadRows
<1>3. t'[c].pc = "evict" /\ t'[c].key = t[c].key /\ t'[c].todo = t[c].todo
  BY <1>t, <1>2 DEF After, Fields
<1>4. Kept(c)' \subseteq Kept(c) \cup {t[c].key}
  BY <1>t, <1>3 DEF Kept
<1>5. \A k \in DirKeys : k # t[c].key => indexes'[k] = indexes[k]
  BY <1>t, <1>1 DEF Keys
<1>6. Kept(c) \subseteq DirKeys /\ t[c].todo \subseteq DirKeys
  BY DEF Kept, Types, ThreadTypes, Typed
<1>7. indexes'[t[c].key] # NoEntry
  BY <1>t, <1>1, StateOfEntries
<1> QED BY <1>t, <1>1, <1>3, <1>4, <1>5, <1>6, <1>7 DEF Warming, StartPcs, OnKey

LEMMA StarterEvict ==
  ASSUME Types, NEW c \in Threads, Warms(c), Warming(c), Evict(c) \/ EvictVictims(c)
  PROVE  t'[c].pc \in StartPcs /\ Warming(c)'
<1>t. /\ ThreadTypes /\ DOMAIN t[c] = Fields /\ indexes \in [Keys -> Entries]
      /\ t[c].key \in DirKeys \ t[c].todo /\ t[c].key \in pinned
      /\ Kept(c) \subseteq DirKeys /\ t[c].todo \subseteq DirKeys
  BY DEF Types, ThreadTypes, Typed, MemoryTypes, Warming, Evict, EvictVictims, At, OnKey, Kept
<1>1. CASE Evict(c)
  <2>1. t'[c] = [t[c] EXCEPT !.pc = "victims", !.spared = pinned] /\ t[c].pc = "evict"
    BY <1>t, <1>1, IndexRows DEF Evict, At
  <2>2. /\ t'[c].pc = "victims" /\ t'[c].key = t[c].key /\ t'[c].todo = t[c].todo
        /\ t'[c].spared = pinned
    BY <1>t, <2>1 DEF Fields
  <2>3. Kept(c)' = Kept(c) /\ UNCHANGED <<indexes, pinned>>
    BY <1>1, <2>1, <2>2, MemoryParts DEF Kept, Evict
  <2> QED BY <1>t, <2>1, <2>2, <2>3 DEF Warming, StartPcs, OnKey
<1>2. CASE EvictVictims(c)
  <2>1. t'[c] = [t[c] EXCEPT !.pc = "visit", !.spared = {}] /\ t[c].pc = "victims"
    BY <1>t, <1>2, IndexRows DEF EvictVictims, At, Warms, AfterIndex
  <2>2. t'[c].pc = "visit" /\ t'[c].todo = t[c].todo
    BY <1>t, <2>1 DEF Fields
  <2>3. Kept(c)' = Kept(c) /\ indexes' = Dropped(Victims(c)) /\ pinned' = pinned
    BY <1>2, <2>1, <2>2 DEF Kept, EvictVictims
  <2>4. Kept(c) \cap Victims(c) = {}
    <3>1. Kept(c) \subseteq t[c].spared
      BY <2>1 DEF Warming
    <3> QED BY <3>1, VictimsType
  <2>5. \A k \in Keys : indexes'[k] = IF k \in Victims(c) THEN NoEntry ELSE indexes[k]
    BY <2>3 DEF Dropped
  <2> QED BY <1>t, <2>1, <2>2, <2>3, <2>4, <2>5 DEF Warming, StartPcs, OnKey, Keys
<1> QED BY <1>1, <1>2

LEMMA StarterAgain ==
  ASSUME Types, NEW c \in Threads, StartAgain(c)
  PROVE  t'[c].pc \in StartPcs /\ Warming(c)'
<1>1. t'[c].pc = "manifest" /\ t'[c].todo = DirKeys
  <2>1. t'[c] = Starting
    BY SearchRows DEF Types
  <2> QED BY <2>1 DEF Starting, Idle
<1>2. cached' = NoManifest /\ \A k \in DirKeys : indexes'[k] = NoEntry
  BY DEF StartAgain, Dropped, Keys
<1>3. Kept(c)' = {}
  BY <1>1 DEF Kept
<1> QED BY <1>1, <1>2, <1>3 DEF Warming, StartPcs, OnKey

(* Nobody else moves while the daemon starts, and nobody begins.           *)
LEMMA StartStep ==
  ASSUME Types, WaitInv, StartInv, NEW c \in Threads, Begins(c) \/ Step(c) PROVE StartInv'
<1>t. ThreadTypes /\ DOMAIN t[c] = Fields
  BY DEF Types, ThreadTypes, Typed
<1>i. Idle.request = None /\ Idle.pc = "idle" /\ None # "warm"
  BY DEF Idle, None
<1>k. \A d \in Threads \ {c} :
        /\ t'[d].request = t[d].request
        /\ t'[d].pc = t[d].pc \/ (t[d].pc = "asleep" /\ t'[d].pc = "wait")
  BY OthersKeep DEF Keeps
<1>1. CASE Begins(c)
  <2>1. \A d \in Threads : ~Warms(d)
    BY <1>1 DEF Begins, Begin, BeginOn, Serving, Warms
  <2>2. t'[c].request # "warm" /\ t'[c].pc # "exit"
    <3>1. \/ \E request, pc : /\ request \in {"fresh", "refresh"} /\ pc # "exit"
                              /\ Begin(c, request, pc)
          \/ \E request, pc, k : /\ request \in {"read", "update"} /\ pc # "exit"
                                 /\ BeginOn(c, request, pc, k)
      BY <1>1 DEF Begins
    <3>2. ASSUME NEW request, NEW pc, Begin(c, request, pc)
          PROVE  t'[c].request = request /\ t'[c].pc = pc
      BY <1>t, <3>2 DEF ThreadTypes, Begin, Idle
    <3>3. ASSUME NEW request, NEW pc, NEW k, BeginOn(c, request, pc, k)
          PROVE  t'[c].request = request /\ t'[c].pc = pc
      BY <1>t, <3>3 DEF ThreadTypes, BeginOn, Idle
    <3> QED BY <3>1, <3>2, <3>3
  <2>3. \A d \in Threads : t[d].pc # "exit"
    BY <2>1 DEF StartInv
  <2> QED BY <1>k, <2>1, <2>2, <2>3 DEF StartInv, Warms
<1>2. CASE Step(c) /\ ~Warms(c)
  <2>1. ~StartAgain(c)
    BY <1>2 DEF StartInv, StartAgain, At
  <2>2. t'[c].request # "warm" /\ t'[c].pc # "exit"
    BY <1>2, <1>i, <2>1, SameRequest DEF Warms
  <2>3. ASSUME NEW d \in Threads \ {c} PROVE ~Warms(d)
    <3>1. t[c].pc # "idle"
      BY <1>2, StepMoves
    <3> QED BY <3>1 DEF StartInv, Starts
  <2> QED BY <1>k, <2>2, <2>3 DEF StartInv, Warms
<1>3. CASE Step(c) /\ Warms(c)
  <2>1. Starts(c) /\ \A d \in Threads \ {c} : t[d].pc = "idle"
    BY <1>3 DEF StartInv, Starts
  <2>2. \A d \in Threads \ {c} : t'[d].pc = "idle" /\ ~Warms(d) /\ t'[d].request # "warm"
    <3>1. ASSUME NEW d \in Threads \ {c}, Warms(d) PROVE FALSE
      BY <2>1, <3>1 DEF StartInv, Starts, StartPcs, EndPcs
    <3> QED BY <1>k, <2>1, <3>1 DEF Warms
  <2>3. ASSUME t'[c].request = "warm"
        PROVE  t'[c].pc \in StartPcs \cup EndPcs /\ (t'[c].pc \in StartPcs => Warming(c)')
    <3>1. CASE t[c].pc \in StartPcs
      <4>1. Warming(c)
        BY <2>1, <3>1 DEF Starts
      <4>2. ~Warmed(c)
        BY <1>t, <1>i, <2>3, SearchRows
      <4>3. ~Fail(c) /\ ~Unmap(c) /\ ~StartAgain(c)
        BY <3>1 DEF Fail, Unmap, StartAgain, At, StartPcs
      <4> QED BY <1>3, <2>1, <4>1, <4>2, <4>3, StarterSteps, StarterManifest, StarterVisit,
                 StarterLook, StarterLock, StarterReady, StarterEvict
    <3>2. CASE t[c].pc \in EndPcs
      <4>1. Fail(c) \/ Unmap(c) \/ StartAgain(c)
        BY <1>3, <2>1, <3>2, StarterSteps
           DEF EndPcs, PutManifest, Visit, Warmed, Look, Lock, Load, BecomeReady, Evict,
               EvictVictims, At
      <4>2. Fail(c) \/ Unmap(c) => t'[c].pc \in {"unmap", "exit", "idle"}
        <5>1. Fail(c) \/ Unmap(c) =>
                \/ t'[c] = Idle
                \/ t'[c] = [t[c] EXCEPT !.pc = "unmap"]
                \/ t'[c] = [t[c] EXCEPT !.pc = "exit", !.mine = NoEntry]
          BY <1>t, LoadRows
        <5> QED BY <1>t, <1>i, <5>1 DEF Fields
      <4>3. Fail(c) \/ Unmap(c) => t'[c].pc \in EndPcs
        <5>1. Fail(c) \/ Unmap(c) => t'[c] = Idle \/ t'[c].pc # "idle"
          BY <1>t, LoadRows DEF Fields
        <5> QED BY <1>i, <2>3, <4>2, <5>1 DEF EndPcs
      <4> QED BY <4>1, <4>3, StarterAgain DEF StartPcs, EndPcs
    <3> QED BY <2>1, <3>1, <3>2 DEF Starts
  <2>4. t'[c].pc = "exit" => t'[c].request = "warm"
    <3>1. StartAgain(c) => t'[c].pc # "exit"
      BY StarterAgain DEF StartPcs
    <3> QED BY <1>3, <1>i, <3>1, SameRequest DEF Warms
  <2>5. \A d \in Threads : Warms(d)' => Starts(d)'
    BY <2>2, <2>3 DEF Warms, Starts
  <2> QED BY <2>2, <2>4, <2>5 DEF StartInv, Warms
<1> QED BY <1>1, <1>2, <1>3

LEMMA StartAlways ==
  ASSUME Types, WaitInv, StartInv, [Next]_vars PROVE StartInv'
<1>1. ASSUME UNCHANGED <<indexes, pinned, cached>>,
             \A c \in Threads : \/ t'[c] = t[c]
                               \/ /\ t[c].request = "read" /\ t'[c].request = "read"
                                  /\ t'[c].pc = t[c].pc
      PROVE  StartInv'
  <2>1. \A c \in Threads : t'[c].pc = t[c].pc /\ (Warms(c)' => Warms(c) /\ t'[c] = t[c])
    BY <1>1 DEF Warms
  <2>2. ASSUME NEW c \in Threads, t'[c] = t[c], Warming(c)
        PROVE  Warming(c)'
    <3>1. Kept(c)' = Kept(c)
      BY <2>2 DEF Kept
    <3> QED BY <1>1, <2>2, <3>1 DEF Warming
  <2>3. ASSUME NEW c \in Threads, Warms(c)' PROVE Starts(c)'
    BY <2>1, <2>2, <2>3 DEF StartInv, Starts
  <2>4. ASSUME NEW c \in Threads, t'[c].pc = "exit" PROVE Warms(c)'
    BY <1>1, <2>4 DEF StartInv, Warms
  <2> QED BY <2>3, <2>4 DEF StartInv
<1>2. CASE UNCHANGED vars
  BY <1>1, <1>2, MemoryParts DEF vars
<1>3. CASE Outside
  <2>1. CASE UNCHANGED t
    BY <1>1, <1>3, <2>1, OutsideQuiet
  <2>2. CASE \E k \in DeleteKeys : Delete(k)
    <3>1. PICK k : t' = Lowered(k, 0)
      BY <2>2 DEF Delete
    <3>2. \A c \in Threads : DOMAIN t[c] = Fields
      BY DEF Types, ThreadTypes, Typed
    <3> QED BY <1>1, <1>3, <3>1, <3>2, OutsideQuiet DEF Lowered, Fields
  <2> QED BY <1>3, <2>1, <2>2 DEF Outside, Edit, OtherProcess
<1> QED BY <1>2, <1>3, StartStep, NextSteps

LEMMA PromiseStep ==
  ASSUME Types, StartInv, PromiseInv, NEW c \in Threads, Begins(c) \/ Step(c)
  PROVE  PromiseInv'
<1>t. ThreadTypes /\ Typed(t[c]) /\ DOMAIN t = Threads /\ Moved(c)
  BY Moves DEF Types, ThreadTypes
<1>1. CASE Warmed(c)
  <2>1. /\ promised' = DirKeys /\ pinned' = pinned /\ indexes' = indexes
        /\ t' = [t EXCEPT ![c] = Idle]
    BY <1>1, MemoryParts DEF Warmed
  <2>2. t[c].pc = "visit" /\ t[c].todo = {} /\ Warms(c)
    BY <1>1 DEF Warmed, At, Warms
  <2>3. Starts(c) /\ Warming(c) /\ Kept(c) = DirKeys
    BY <2>2 DEF StartInv, Starts, StartPcs, Kept
  <2>4. promised' \subseteq pinned' /\ \A k \in promised' : indexes'[k] # NoEntry
    BY <2>1, <2>3 DEF Warming
  <2>5. \A e \in Threads : t'[e].pc = "idle"
    BY <1>t, <2>1, <2>3 DEF Starts, Idle
  <2> QED BY <2>4, <2>5 DEF PromiseInv, At
<1>2. CASE ~Warmed(c)
  <2>1. promised' \subseteq promised /\ promised' \subseteq pinned'
    BY <1>2, PinsKept
  <2>2. ASSUME NEW e \in Threads, t'[e].pc = "victims" PROVE promised' \subseteq t'[e].spared
    <3>1. CASE e = c
      <4>1. Evict(c)
        BY <1>t, <2>2, <3>1 DEF Moved
      <4>2. t'[c].spared = pinned
        BY <1>t, <4>1 DEF Evict, Typed, Fields
      <4> QED BY <2>1, <3>1, <4>2 DEF PromiseInv
    <3>2. CASE e # c
      <4>1. t[e].pc = "victims" /\ t'[e].spared = t[e].spared
        BY <1>t, <2>2, <3>2, Others DEF Woken
      <4> QED BY <2>1, <4>1 DEF PromiseInv, At
    <3> QED BY <3>1, <3>2
  <2> QED BY <1>2, <2>1, <2>2, EntriesKept DEF PromiseInv, At
<1> QED BY <1>1, <1>2

LEMMA PromiseAlways ==
  ASSUME Types, StartInv, PromiseInv, [Next]_vars PROVE PromiseInv'
<1>1. CASE UNCHANGED vars
  BY <1>1, MemoryParts DEF vars, PromiseInv, At
<1>2. CASE Outside
  BY <1>2, OutsideQuiet, OutsideThread DEF PromiseInv, At
<1> QED BY <1>1, <1>2, PromiseStep, NextSteps

(* A warm index stays: what the daemon warmed before it served is in the   *)
(* cache and pinned, whatever else is loaded, replaced or evicted at the   *)
(* same time, until the directory's manifest changes, the caches are       *)
(* cleared or a load of it fails (warm_shard_roots, warm_pinned_index,     *)
(* evict_cached_indexes_if_needed).                                        *)
THEOREM WarmStays == Spec => []PromisedResident
<1>1. Init => Types /\ WaitInv /\ StartInv /\ PromiseInv
  <2> SUFFICES ASSUME Init PROVE Types /\ WaitInv /\ StartInv /\ PromiseInv
    OBVIOUS
  <2>1. \A c \in Threads : t[c].pc # "victims"
    BY FirstThreads
  <2>2. promised = {}
    BY DEF Init
  <2> QED BY <2>1, <2>2, TypesInit, WaitInit, StartFirst DEF PromiseInv, At
<1>2. Types /\ WaitInv /\ StartInv /\ PromiseInv /\ [Next]_vars
        => (Types /\ WaitInv /\ StartInv /\ PromiseInv)'
  BY TypesStep, WaitAlways, StartAlways, PromiseAlways
<1>3. PromiseInv => PromisedResident
  BY DEF PromiseInv, PromisedResident
<1> QED BY <1>1, <1>2, <1>3, PTL DEF Spec
=============================================================================
