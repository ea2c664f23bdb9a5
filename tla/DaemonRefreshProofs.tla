-------------------------- MODULE DaemonRefreshProofs -----------------------
(***************************************************************************)
(* What a request with refresh_if_stale is answered from, for every number *)
(* of threads and indexes: nothing older than what it wrote itself,        *)
(* whatever the other threads load, save, evict or clear meanwhile.        *)
(***************************************************************************)
EXTENDS DaemonCachesProofs


-----------------------------------------------------------------------------
(* A search that refreshed is answered from what it wrote                  *)

Unwritten == {"check", "acquire", "recheck", "save indexes"}
Ahead == {"check", "acquire", "lookup"} \cup Refreshing

(* What the record of a thread says by itself.                             *)
Own(r) ==
  /\ r.pc \in {"build", "save", "replace"} => r.request = "update"
  /\ r.request = "update" => /\ r.key \in UpdateKeys
                             /\ r.pc \in {"build", "save", "replace", "evict", "victims"}
  /\ r.pc \in OnKey /\ r.request \notin {"read", "update"} => r.key \in DirKeys
  /\ r.pc \in {"save", "replace"} => r.got # 0
  /\ r.pc \in {"check", "acquire", "recheck", "lookup"} => r.request = "fresh"
  /\ r.pc \in Ahead => r.got = 0 /\ r.mine = NoEntry
  /\ r.pc \in Unwritten => r.wrote = 0
  /\ r.pc \in ManifestPcs \cup LoadedPcs => r.todo = DirKeys
  /\ r.current => r.request = "fresh"
  /\ r.pc = "ready" => r.print # 0
  /\ r.mine.state = "ready" => r.mine.index # 0
  /\ r.pc = "visit" => r.todo = DirKeys \/ r.got # 0
  /\ r.pc \in {"evict", "victims", "answered"} /\ r.request # "update" => r.got # 0

OwnInv ==
  /\ source # 0
  /\ \A k \in Keys : IsReady(k) => indexes[k].index # 0
  /\ \A c \in Threads : Own(t[c])

LEMMA IdleOwn == Own(Idle)
<1>1. /\ Idle.pc = "idle" /\ Idle.request = "none" /\ Idle.mine.state = "none"
      /\ Idle.current = FALSE
  BY StateOfEntries DEF Idle, None
<1> QED BY <1>1 DEF Own, Ahead, Refreshing, Unwritten, ManifestPcs, LoadedPcs, OnKey

LEMMA StartingOwn == Own(Starting) /\ Starting.request = "warm" /\ Starting.wrote = 0
<1>1. /\ Starting.pc = "manifest" /\ Starting.request = "warm" /\ Starting.mine.state = "none"
      /\ Starting.current = FALSE /\ Starting.todo = DirKeys /\ Starting.wrote = 0
  BY StateOfEntries DEF Starting, Idle
<1> QED BY <1>1 DEF Own, Ahead, Refreshing, Unwritten, ManifestPcs, LoadedPcs, OnKey

LEMMA BeginsOwn ==
  ASSUME Types, OwnInv, NEW c \in Threads, Begins(c) PROVE Own(t'[c])
<1>e. NoEntry.state = "none"
  BY StateOfEntries
<1>1. ASSUME NEW since, t'[c] = [Idle EXCEPT !.pc = "check", !.request = "fresh", !.since = since]
      PROVE  Own(t'[c])
  BY <1>e, <1>1 DEF Own, Idle, Ahead, Refreshing, Unwritten, ManifestPcs, LoadedPcs, OnKey
<1>2. CASE t'[c] = [Idle EXCEPT !.pc = "save indexes", !.request = "refresh", !.since = 0]
  BY <1>e, <1>2 DEF Own, Idle, Ahead, Refreshing, Unwritten, ManifestPcs, LoadedPcs, OnKey
<1>4. ASSUME NEW k, t'[c] = [Idle EXCEPT !.pc = "look", !.request = "read", !.key = k,
                                         !.since = file[k]]
      PROVE  Own(t'[c])
  BY <1>e, <1>4 DEF Own, Idle, Ahead, Refreshing, Unwritten, ManifestPcs, LoadedPcs, OnKey
<1>5. ASSUME NEW k \in UpdateKeys,
             t'[c] = [Idle EXCEPT !.pc = "build", !.request = "update", !.key = k, !.since = 0]
      PROVE  Own(t'[c])
  BY <1>e, <1>5 DEF Own, Idle, Ahead, Refreshing, Unwritten, ManifestPcs, LoadedPcs, OnKey
<1> QED BY <1>1, <1>2, <1>4, <1>5, BeginRows DEF Types

LEMMA RefreshOwn ==
  ASSUME Types, OwnInv, NEW c \in Threads,
         \/ Return(c) \/ Check(c) \/ Acquire(c) \/ Recheck(c) \/ SaveIndexes(c) \/ SaveManifest(c)
         \/ ClearIndexes(c) \/ ClearPins(c) \/ ClearManifests(c) \/ NextEpochStarts(c)
  PROVE  Own(t'[c])
<1>t. ThreadTypes /\ DOMAIN t[c] = Fields /\ Own(t[c]) /\ NoEntry.state = "none"
  BY StateOfEntries DEF Types, ThreadTypes, Typed, OwnInv
(* All of these stay ahead of the search.                                  *)
<1>e. ASSUME t[c].pc \in Ahead, t'[c].pc \in Ahead,
             t'[c].pc \in Unwritten => t[c].pc \in Unwritten /\ t'[c].wrote = t[c].wrote,
             t'[c].pc \in {"check", "acquire", "recheck", "lookup"} => t[c].request = "fresh",
             t'[c].request = t[c].request, t'[c].key = t[c].key, t'[c].got = t[c].got,
             t'[c].mine = t[c].mine, t'[c].current = t[c].current
      PROVE  Own(t'[c])
  BY <1>t, <1>e DEF Own, Ahead, Refreshing, Unwritten, ManifestPcs, LoadedPcs, OnKey
<1>1. CASE Return(c)
  BY <1>t, <1>1, SearchRows, IdleOwn
<1>2. ASSUME NEW pc \in Ahead, t[c].pc \in Ahead, t'[c] = [t[c] EXCEPT !.pc = pc],
             pc \in Unwritten => t[c].pc \in Unwritten,
             pc \in {"check", "acquire", "recheck", "lookup"} => t[c].request = "fresh"
      PROVE  Own(t'[c])
  <2>1. /\ t'[c].pc = pc /\ t'[c].wrote = t[c].wrote
        /\ t'[c].request = t[c].request /\ t'[c].key = t[c].key /\ t'[c].got = t[c].got
        /\ t'[c].mine = t[c].mine /\ t'[c].current = t[c].current
    BY <1>t, <1>2 DEF Fields
  <2> QED BY <1>e, <1>2, <2>1
<1>3. CASE Check(c) \/ Acquire(c) \/ Recheck(c)
  <2>1. t[c].request = "fresh" /\ t[c].pc \in Ahead /\ t[c].pc \in Unwritten
    BY <1>t, <1>3 DEF Check, Acquire, Recheck, At, Own, Ahead, Refreshing, Unwritten
  <2>2. \/ t'[c] = Idle
        \/ \E pc \in {"acquire", "lookup", "recheck", "save indexes"} :
             t'[c] = [t[c] EXCEPT !.pc = pc]
    BY <1>t, <1>3, PcRows, CheckRows DEF Moves1
  <2>3. \A pc \in {"acquire", "lookup", "recheck", "save indexes"} : pc \in Ahead
    BY DEF Ahead, Refreshing
  <2> QED BY <1>2, <2>1, <2>2, <2>3, IdleOwn
<1>4. CASE SaveManifest(c) \/ ClearIndexes(c) \/ ClearPins(c) \/ ClearManifests(c)
  <2>1. t[c].pc \in Ahead
    BY <1>4 DEF SaveManifest, ClearIndexes, ClearPins, ClearManifests, At, Ahead, Refreshing
  <2>2. \E pc \in {"clear indexes", "clear pins", "clear manifests", "next epoch"} :
          t'[c] = [t[c] EXCEPT !.pc = pc]
    BY <1>t, <1>4, PcRows DEF Moves1
  <2>3. \A pc \in {"clear indexes", "clear pins", "clear manifests", "next epoch"} :
          pc \in Ahead /\ pc \notin Unwritten /\ pc \notin {"check", "acquire", "recheck", "lookup"}
    BY DEF Ahead, Refreshing, Unwritten
  <2> QED BY <1>2, <2>1, <2>2, <2>3
<1>5. CASE SaveIndexes(c)
  <2>1. t[c].pc = "save indexes" /\ t'[c] = [t[c] EXCEPT !.pc = "save manifest", !.wrote = source]
    BY <1>t, <1>5, SearchRows DEF SaveIndexes, At
  <2>2. /\ t'[c].pc = "save manifest"
        /\ t'[c].request = t[c].request /\ t'[c].key = t[c].key /\ t'[c].got = t[c].got
        /\ t'[c].mine = t[c].mine /\ t'[c].current = t[c].current
    BY <1>t, <2>1 DEF Fields
  <2> QED BY <1>e, <2>1, <2>2 DEF Ahead, Refreshing, Unwritten
<1>6. CASE NextEpochStarts(c)
  <2>1. t[c].pc \in Ahead
    BY <1>6 DEF NextEpochStarts, At, Ahead, Refreshing
  <2>2. \/ t'[c] = Idle
        \/ t[c].request = "fresh" /\ t'[c] = [t[c] EXCEPT !.pc = "lookup"]
    BY <1>t, <1>6, SearchRows
  <2> QED BY <1>2, <2>1, <2>2, IdleOwn DEF Ahead, Unwritten
<1> QED BY <1>1, <1>3, <1>4, <1>5, <1>6

LEMMA SearchOwn ==
  ASSUME Types, OwnInv, NEW c \in Threads,
         \/ Lookup(c) \/ Manifest(c) \/ LoadManifest(c) \/ EvictDirectory(c) \/ UnpinDirectory(c)
         \/ PutManifest(c) \/ (\E k \in DirKeys : Visit(c, k)) \/ Store(c) \/ Warmed(c),
         DirKeys # {}
  PROVE  Own(t'[c])
<1>t. ThreadTypes /\ DOMAIN t[c] = Fields /\ Own(t[c]) /\ t[c].manifest \in Manifests
  BY DEF Types, ThreadTypes, Typed, OwnInv
<1>p. t[c].pc \in {"lookup", "visit"} \cup ManifestPcs \cup LoadedPcs
  BY DEF Lookup, Manifest, LoadManifest, EvictDirectory, UnpinDirectory, PutManifest, Visit,
         Store, Warmed, At, ManifestPcs, LoadedPcs
<1>u. t[c].request # "update"
  BY <1>t, <1>p DEF Own, ManifestPcs, LoadedPcs
<1> DEFINE Goes == /\ t'[c].request = t[c].request /\ t'[c].key = t[c].key
                   /\ t'[c].mine = t[c].mine
<1>e. ASSUME Goes, t'[c].pc \in {"answered", "visit"} \cup ManifestPcs \cup LoadedPcs,
             t'[c].current => t[c].current \/ t[c].request = "fresh",
             t'[c].pc # "answered" => t'[c].todo = DirKeys,
             t'[c].pc = "answered" => t'[c].got # 0
      PROVE  Own(t'[c])
  BY <1>t, <1>u, <1>e DEF Own, Ahead, Refreshing, Unwritten, ManifestPcs, LoadedPcs, OnKey
<1>1. CASE Lookup(c)
  <2>1. t[c].request = "fresh"
    BY <1>t, <1>1 DEF Lookup, At, Own
  <2>2. CASE completed # 0 /\ t'[c] = [t[c] EXCEPT !.pc = "answered", !.got = completed]
    BY <1>t, <1>e, <2>1, <2>2 DEF Fields, ManifestPcs, LoadedPcs
  <2>3. CASE t'[c] = [t[c] EXCEPT !.pc = "visit", !.todo = DirKeys, !.current = TRUE]
    BY <1>t, <1>e, <2>1, <2>3 DEF Fields, ManifestPcs, LoadedPcs
  <2>4. CASE t'[c] = [t[c] EXCEPT !.pc = "manifest", !.todo = DirKeys, !.current = TRUE,
                                  !.manifestSince = manifest]
    BY <1>t, <1>e, <2>1, <2>4 DEF Fields, ManifestPcs, LoadedPcs
  <2> QED BY <1>t, <1>1, <2>2, <2>3, <2>4, SearchRows
<1>2. ASSUME t[c].pc \in ManifestPcs \cup LoadedPcs, Goes,
             t'[c].pc \in {"visit"} \cup ManifestPcs \cup LoadedPcs,
             t'[c].todo = t[c].todo, t'[c].current = t[c].current
      PROVE  Own(t'[c])
  <2>1. t[c].todo = DirKeys
    BY <1>t, <1>2 DEF Own
  <2>2. t'[c].pc # "answered"
    BY <1>2 DEF ManifestPcs, LoadedPcs
  <2> QED BY <1>e, <1>2, <2>1, <2>2
<1>3. CASE Manifest(c)
  <2>1. t[c].pc \in ManifestPcs
    BY <1>3 DEF Manifest, At, ManifestPcs
  <2>2. CASE t'[c] = [t[c] EXCEPT !.pc = "visit", !.manifest = cached]
    BY <1>t, <1>2, <2>1, <2>2 DEF Fields
  <2>3. ASSUME NEW pc \in {"load manifest", "reload manifest"}, t'[c] = [t[c] EXCEPT !.pc = pc]
        PROVE  Own(t'[c])
    BY <1>t, <1>2, <2>1, <2>3 DEF Fields, ManifestPcs
  <2> QED BY <1>t, <1>3, <2>2, <2>3, SearchRows
<1>4. CASE LoadManifest(c)
  <2>1. t[c].pc \in ManifestPcs
    BY <1>4 DEF LoadManifest, At, ManifestPcs
  <2>2. PICK pc \in {"put manifest", "evict directory"} :
          t'[c] = [t[c] EXCEPT !.manifest.version = manifest, !.pc = pc]
    BY <1>t, <1>4, SearchRows
  <2>3. Goes /\ t'[c].pc = pc /\ t'[c].todo = t[c].todo /\ t'[c].current = t[c].current
    BY <1>t, <2>2 DEF Fields, Manifests
  <2> QED BY <1>2, <2>1, <2>3 DEF LoadedPcs
<1>5. CASE EvictDirectory(c)
  <2>1. t[c].pc \in LoadedPcs
    BY <1>5 DEF EvictDirectory, At, LoadedPcs
  <2>2. t'[c] = [t[c] EXCEPT !.pc = "unpin directory", !.manifest.print = manifest]
    BY <1>t, <1>5, SearchRows
  <2>3. Goes /\ t'[c].pc = "unpin directory" /\ t'[c].todo = t[c].todo /\ t'[c].current = t[c].current
    BY <1>t, <2>2 DEF Fields, Manifests
  <2> QED BY <1>2, <2>1, <2>3 DEF LoadedPcs
<1>6. CASE UnpinDirectory(c)
  <2>1. t[c].pc = "unpin directory" /\ t'[c] = [t[c] EXCEPT !.pc = "put manifest"]
    BY <1>t, <1>6, PcRows DEF Moves1
  <2> QED BY <1>t, <1>2, <2>1 DEF Fields, LoadedPcs
<1>7. CASE PutManifest(c)
  <2>1. t[c].pc \in LoadedPcs
    BY <1>7 DEF PutManifest, At, LoadedPcs
  <2>2. PICK print : t'[c] = [t[c] EXCEPT !.pc = "visit",
                                          !.manifest = [t[c].manifest EXCEPT !.print = print]]
    BY <1>t, <1>7, SearchRows
  <2>3. Goes /\ t'[c].pc = "visit" /\ t'[c].todo = t[c].todo /\ t'[c].current = t[c].current
    BY <1>t, <2>2 DEF Fields
  <2> QED BY <1>2, <2>1, <2>3
<1>8. ASSUME NEW k \in DirKeys, Visit(c, k) PROVE Own(t'[c])
  <2>1. /\ t[c].pc = "visit"
        /\ t'[c] = [t[c] EXCEPT !.pc = "look", !.key = k, !.todo = @ \ {k},
                                !.manifest = NoManifest, !.manifestSince = 0]
    BY <1>t, <1>8, SearchRows DEF Visit, At
  <2>2. /\ t'[c].request = t[c].request /\ t'[c].key = k /\ t'[c].pc = "look"
        /\ t'[c].mine = t[c].mine /\ t'[c].current = t[c].current
    BY <1>t, <2>1 DEF Fields
  <2> QED BY <1>t, <1>u, <2>2 DEF Own, Ahead, Refreshing, Unwritten, ManifestPcs, LoadedPcs
<1>9. CASE Store(c)
  <2>1. /\ t[c].pc = "visit" /\ t[c].todo = {}
        /\ t'[c] = [t[c] EXCEPT !.pc = "answered", !.key = None, !.current = FALSE]
    BY <1>t, <1>9, SearchRows DEF Store, At
  <2>2. /\ t'[c].request = t[c].request /\ t'[c].pc = "answered" /\ t'[c].got = t[c].got
        /\ t'[c].mine = t[c].mine /\ t'[c].current = FALSE
    BY <1>t, <2>1 DEF Fields
  <2>3. t[c].got # 0 /\ t[c].request = "fresh"
    BY <1>t, <1>9, <2>1 DEF Store, Own
  <2> QED BY <1>t, <1>u, <2>2, <2>3 DEF Own, Ahead, Refreshing, Unwritten, ManifestPcs, LoadedPcs, OnKey
<1>10. CASE Warmed(c)
  BY <1>t, <1>10, SearchRows, IdleOwn
<1> QED BY <1>1, <1>3, <1>4, <1>5, <1>6, <1>7, <1>8, <1>9, <1>10

LEMMA IndexOwn ==
  ASSUME Types, WaitInv, OwnInv, NEW c \in Threads,
         \/ Look(c) \/ Lock(c) \/ Invalidate(c) \/ Load(c) \/ BecomeReady(c) \/ Fail(c)
         \/ Unmap(c) \/ StartAgain(c) \/ Wait(c) \/ Evict(c) \/ EvictVictims(c)
         \/ Build(c) \/ Save(c) \/ Replace(c)
  PROVE  Own(t'[c])
<1>t. /\ ThreadTypes /\ DOMAIN t[c] = Fields /\ Typed(t[c]) /\ Own(t[c])
      /\ NoEntry.state = "none"
  BY StateOfEntries DEF Types, ThreadTypes, Typed, OwnInv
<1>9. CASE StartAgain(c)
  BY <1>t, <1>9, StartingOwn, SearchRows
<1> SUFFICES ASSUME ~StartAgain(c) PROVE Own(t'[c])
  BY <1>9
<1>p. t[c].pc \in OnKey
  BY DEF Look, Lock, Invalidate, Load, BecomeReady, Fail, Unmap, Wait, Evict, EvictVictims,
         Build, Save, Replace, At, OnKey
<1>k. t[c].key \in Keys /\ file[t[c].key] \in Nat
  BY <1>p, KeyKnown, Numbers
<1>0. CASE t'[c] = Idle
  BY <1>0, IdleOwn
<1> DEFINE Goes == /\ t'[c].request = t[c].request /\ t'[c].key = t[c].key
                   /\ t'[c].current = t[c].current
<1>e. ASSUME Goes,
             t'[c].pc \in Reading \cup {"exit", "evict", "victims", "save", "replace", "answered", "visit"},
             IF t[c].request = "update" THEN t'[c].pc \in {"save", "replace", "evict", "victims"}
             ELSE t'[c].pc \notin {"save", "replace"},
             t'[c].pc \in {"save", "replace", "visit"} => t'[c].got # 0,
             t'[c].pc = "ready" => t'[c].print # 0,
             t'[c].mine.state = "ready" => t'[c].mine.index # 0,
             t'[c].pc \in {"evict", "victims", "answered"} /\ t[c].request # "update" => t'[c].got # 0
      PROVE  Own(t'[c])
  BY <1>t, <1>p, <1>e
     DEF Own, Ahead, Refreshing, Unwritten, ManifestPcs, LoadedPcs, OnKey, Reading
(* It goes on reading, with an entry of the map or with what it had.       *)
<1>1. ASSUME t[c].pc \in Reading, Goes, t'[c].pc \in Reading,
             t'[c].pc = "ready" => t'[c].print # 0,
             \/ t'[c].mine = t[c].mine \/ t'[c].mine = NoEntry
             \/ t'[c].mine = indexes[t[c].key]
      PROVE  Own(t'[c])
  <2>1. t[c].request # "update"
    BY <1>t, <1>1 DEF Own, Reading
  <2>2. t[c].mine.state = "ready" => t[c].mine.index # 0
    BY <1>t DEF Own
  <2>3. indexes[t[c].key].state = "ready" => indexes[t[c].key].index # 0
    BY <1>k DEF OwnInv, IsReady
  <2>4. t'[c].pc \notin {"save", "replace", "visit", "evict", "victims", "answered"}
    BY <1>1 DEF Reading
  <2> QED BY <1>t, <1>1, <1>e, <2>1, <2>2, <2>3, <2>4
<1>2. CASE Look(c)
  <2>1. t[c].pc = "look" /\ t'[c] = [t[c] EXCEPT !.pc = "lock", !.print = file[t[c].key]]
    BY <1>t, <1>2, IndexRows DEF Look, At
  <2> QED BY <1>t, <1>1, <2>1 DEF Fields, Reading
<1>3. CASE Lock(c)
  <2>1. t[c].pc = "lock"
    BY <1>3 DEF Lock, At
  <2>2. CASE t'[c] = [t[c] EXCEPT !.pc = "wait", !.mine = indexes[t[c].key], !.print = 0]
    BY <1>t, <1>1, <2>1, <2>2 DEF Fields, Reading
  <2>3. ASSUME NEW pc \in {"invalidate", "load"}, t'[c] = [t[c] EXCEPT !.pc = pc, !.print = 0]
        PROVE  Own(t'[c])
    BY <1>t, <1>1, <2>1, <2>3 DEF Fields, Reading
  <2> QED BY <1>t, <1>3, <2>2, <2>3, IndexRows
<1>4. CASE Invalidate(c)
  <2>1. t[c].pc = "invalidate" /\ t'[c] = [t[c] EXCEPT !.pc = "load"]
    BY <1>t, <1>4, PcRows DEF Moves1
  <2> QED BY <1>t, <1>1, <2>1 DEF Fields, Reading
<1>5. CASE Load(c)
  <2> DEFINE pc == IF file[t[c].key] = 0 THEN "fail" ELSE "ready"
  <2>1. t[c].pc = "load" /\ t'[c] = [t[c] EXCEPT !.pc = pc, !.print = file[t[c].key]]
    BY <1>t, <1>5, LoadRows DEF Load, At
  <2>2. pc \in Reading /\ (pc = "ready" => file[t[c].key] # 0)
    BY DEF Reading
  <2> HIDE DEF pc
  <2>3. /\ t'[c].pc = pc /\ t'[c].print = file[t[c].key] /\ t'[c].mine = t[c].mine /\ Goes
    BY <1>t, <2>1 DEF Fields
  <2> QED BY <1>1, <2>1, <2>2, <2>3 DEF Reading
<1>6. CASE Fail(c)
  <2>1. t[c].pc = "fail" /\ t'[c] = [t[c] EXCEPT !.pc = "unmap"]
    BY <1>t, <1>6, LoadRows DEF Fail, At
  <2> QED BY <1>t, <1>1, <2>1 DEF Fields, Reading
(* It gives up.                                                            *)
<1>7. CASE t[c].request = "warm" /\ t'[c] = [t[c] EXCEPT !.pc = "exit", !.mine = NoEntry]
  BY <1>t, <1>e, <1>7 DEF Fields
<1>8. CASE Unmap(c)
  BY <1>t, <1>0, <1>7, <1>8, LoadRows
(* It has what it needed.                                                  *)
<1>10. ASSUME t[c].pc \in Reading, NEW index \in Nat, index # 0, NEW print,
              NEW pc \in {"evict", "answered", "visit"}, t'[c] = After(c, index, print, pc)
       PROVE  Own(t'[c])
  <2>1. Goes /\ t'[c].pc = pc /\ t'[c].got = Oldest(t[c].got, index) /\ t'[c].mine = NoEntry
    BY <1>t, <1>10 DEF After, Fields
  <2>2. t'[c].got # 0
    BY <1>10, <2>1, Numbers DEF Oldest, Smaller
  <2>3. t[c].request # "update"
    BY <1>t, <1>10 DEF Own, Reading
  <2> QED BY <1>t, <1>e, <1>10, <2>1, <2>2, <2>3
<1>11. CASE BecomeReady(c)
  <2>1. t[c].pc = "ready" /\ t[c].pc \in Reading
    BY <1>11 DEF BecomeReady, At, Reading
  <2>2. t[c].print \in Nat /\ t[c].print # 0
    BY <1>t, <2>1, Numbers DEF Own
  <2>3. t'[c] = After(c, t[c].print, file[t[c].key], "evict")
    BY <1>t, <1>11, LoadRows
  <2> QED BY <1>10, <2>1, <2>2, <2>3
<1>12. CASE Wait(c)
  <2>1. t[c].pc = "wait" /\ t[c].pc \in Reading
    BY <1>12 DEF Wait, At, Reading
  <2>2. CASE t'[c] = [t[c] EXCEPT !.pc = "asleep"]
    BY <1>t, <1>1, <2>1, <2>2 DEF Fields, Reading
  <2>3. CASE t'[c] = [t[c] EXCEPT !.pc = "look", !.mine = NoEntry]
    BY <1>t, <1>1, <2>1, <2>3 DEF Fields, Reading
  <2>4. CASE /\ t[c].mine.state = "ready"
             /\ t'[c] = After(c, t[c].mine.index, t[c].mine.print, AfterIndex(t[c].request))
    <3>1. t[c].mine.index \in Nat /\ t[c].mine.index # 0
      BY <1>t, <2>4, Numbers DEF Own
    <3>2. AfterIndex(t[c].request) \in {"evict", "answered", "visit"}
      BY DEF AfterIndex
    <3> QED BY <1>10, <2>1, <2>4, <3>1, <3>2
  <2> QED BY <1>t, <1>0, <1>7, <1>12, <2>2, <2>3, <2>4, IndexRows
(* The eviction, and the refresh of one index.                             *)
<1>m. t[c].mine.state = "ready" => t[c].mine.index # 0
  BY <1>t DEF Own
<1>13. CASE Evict(c)
  <2>1. t[c].pc = "evict" /\ t'[c] = [t[c] EXCEPT !.pc = "victims", !.spared = pinned]
    BY <1>t, <1>13, IndexRows DEF Evict, At
  <2>2. Goes /\ t'[c].pc = "victims" /\ t'[c].got = t[c].got /\ t'[c].mine = t[c].mine
    BY <1>t, <2>1 DEF Fields
  <2>3. t[c].request # "update" => t[c].got # 0
    BY <1>t, <2>1 DEF Own
  <2> QED BY <1>e, <1>m, <2>2, <2>3
<1>14. CASE EvictVictims(c)
  <2>1. CASE /\ t[c].request # "update"
             /\ t'[c] = [t[c] EXCEPT !.pc = AfterIndex(t[c].request), !.spared = {}]
    <3>1. t[c].pc = "victims" /\ AfterIndex(t[c].request) \in {"answered", "visit"}
      BY <1>14 DEF EvictVictims, At, AfterIndex
    <3>2. /\ Goes /\ t'[c].pc = AfterIndex(t[c].request)
          /\ t'[c].got = t[c].got /\ t'[c].mine = t[c].mine
      BY <1>t, <2>1 DEF Fields
    <3>3. t[c].got # 0
      BY <1>t, <2>1, <3>1 DEF Own
    <3> QED BY <1>e, <1>m, <2>1, <3>1, <3>2, <3>3
  <2> QED BY <1>t, <1>0, <1>14, <2>1, IndexRows
<1>15. CASE Build(c)
  <2>1. t[c].pc = "build" /\ t'[c] = [t[c] EXCEPT !.pc = "save", !.got = source]
    BY <1>t, <1>15, IndexRows DEF Build, At
  <2>2. Goes /\ t'[c].pc = "save" /\ t'[c].got = source /\ t'[c].mine = t[c].mine
    BY <1>t, <2>1 DEF Fields
  <2>3. source # 0 /\ t[c].request = "update"
    BY <1>t, <2>1 DEF OwnInv, Own
  <2> QED BY <1>e, <1>m, <2>2, <2>3
<1>16. CASE Save(c)
  <2>1. t[c].pc = "save"
    BY <1>16 DEF Save, At
  <2>2. t[c].got # 0 /\ t[c].request = "update"
    BY <1>t, <2>1 DEF Own
  <2>3. t'[c] = [t[c] EXCEPT !.pc = "replace"]
    BY <1>t, <1>16, <2>2, IndexRows
  <2>4. Goes /\ t'[c].pc = "replace" /\ t'[c].got = t[c].got /\ t'[c].mine = t[c].mine
    BY <1>t, <2>3 DEF Fields
  <2> QED BY <1>e, <1>m, <2>2, <2>4
<1>17. CASE Replace(c)
  <2>1. t[c].pc = "replace" /\ t'[c] = [t[c] EXCEPT !.pc = "evict"]
    BY <1>t, <1>17, PcRows DEF Moves1
  <2>2. t[c].request = "update"
    BY <1>t, <2>1 DEF Own
  <2>3. Goes /\ t'[c].pc = "evict" /\ t'[c].got = t[c].got /\ t'[c].mine = t[c].mine
    BY <1>t, <2>1 DEF Fields
  <2> QED BY <1>e, <1>m, <2>2, <2>3
<1> QED BY <1>2, <1>3, <1>4, <1>5, <1>6, <1>8, <1>11, <1>12, <1>13, <1>14, <1>15, <1>16, <1>17

LEMMA EntryRows ==
  ASSUME Types, NEW c \in Threads, Begins(c) \/ Step(c), NEW k \in Keys
  PROVE  /\ \/ indexes'[k] = indexes[k] \/ indexes'[k] = NoEntry
            \/ Lock(c) /\ indexes'[k] = Loading(c)
            \/ /\ BecomeReady(c) /\ indexes[k] = Loading(c)
               /\ indexes'[k] = Ready(t[c].print, file[k])
            \/ Fail(c) /\ indexes'[k] = Failed(c)
            \/ Replace(c) /\ k = t[c].key /\ indexes'[k] = Ready(t[c].got, file[k])
         /\ ClearIndexes(c) => indexes'[k] = NoEntry
<1>t. DOMAIN indexes = Keys
  BY DEF Types, MemoryTypes
<1>0. ClearIndexes(c) => indexes'[k] = NoEntry
  BY DEF ClearIndexes, Dropped
<1>1. ASSUME NEW gone, indexes' = Dropped(gone) PROVE indexes'[k] = indexes[k] \/ indexes'[k] = NoEntry
  BY <1>1 DEF Dropped
<1>2. CASE ClearIndexes(c) \/ EvictDirectory(c) \/ EvictVictims(c) \/ Unmap(c) \/ StartAgain(c)
  <2>1. \E gone : indexes' = Dropped(gone)
    BY <1>2 DEF ClearIndexes, EvictDirectory, EvictVictims, Unmap, StartAgain
  <2> QED BY <1>0, <1>1, <2>1
<1>3. CASE Lock(c)
  BY <1>t, <1>0, <1>3, MemoryParts DEF Lock
<1>4. CASE BecomeReady(c)
  <2>1. \/ indexes' = indexes
        \/ /\ indexes[t[c].key] = Loading(c)
           /\ indexes' = [indexes EXCEPT ![t[c].key] = Ready(t[c].print, file[t[c].key])]
    BY <1>4, MemoryParts DEF BecomeReady
  <2> QED BY <1>t, <1>0, <1>4, <2>1
<1>5. CASE Fail(c)
  BY <1>t, <1>0, <1>5 DEF Fail
<1>6. CASE Replace(c)
  BY <1>t, <1>0, <1>6 DEF Replace
<1>7. CASE UNCHANGED indexes
  BY <1>0, <1>7
<1>8. Wait(c) => UNCHANGED indexes
  BY MemoryParts DEF Wait
<1> QED BY <1>2, <1>3, <1>4, <1>5, <1>6, <1>7, <1>8, StepEntries, BeginsQuiet

(* What else of another thread a step leaves alone.                        *)
LEMMA OthersLeave ==
  ASSUME Types, NEW c \in Threads, Begins(c) \/ Step(c), NEW d \in Threads, d # c
  PROVE  /\ t'[d].todo = t[d].todo /\ (t'[d].current => t[d].current)
         /\ NextEpochStarts(c) => ~t'[d].current
         /\ \/ t'[d].mine = t[d].mine
            \/ /\ BecomeReady(c) /\ t[d].mine = Loading(c)
               /\ t'[d].mine = Ready(t[c].print, file[t[c].key])
            \/ Fail(c) /\ t[d].mine = Loading(c) /\ t'[d].mine = Failed(c)
<1>t. ThreadTypes /\ DOMAIN t[d] = Fields
  BY DEF Types, ThreadTypes, Typed
<1>0. NextEpochStarts(c) => t'[d].current = FALSE /\ ~BecomeReady(c) /\ ~Fail(c)
  BY <1>t DEF NextEpochStarts, NextEpoch, BecomeReady, Fail, At, Fields
<1>1. CASE t'[d] = t[d]
  BY <1>0, <1>1
<1>2. CASE t'[d] = [t[d] EXCEPT !.current = FALSE]
  BY <1>t, <1>0, <1>2 DEF Fields
<1>3. CASE t'[d] = [t[d] EXCEPT !.since = Smaller(@, t[c].got)]
  BY <1>t, <1>0, <1>3 DEF Fields
<1>4. CASE /\ BecomeReady(c) /\ t[d].mine = Loading(c)
           /\ t'[d] = [t[d] EXCEPT !.mine = Ready(t[c].print, file[t[c].key]), !.pc = Woken(@)]
  <2>1. /\ t'[d].todo = t[d].todo /\ t'[d].current = t[d].current
        /\ t'[d].mine = Ready(t[c].print, file[t[c].key])
    BY <1>t, <1>4 DEF Fields
  <2> QED BY <1>0, <1>4, <2>1
<1>5. CASE /\ Fail(c) /\ t[d].mine = Loading(c)
           /\ t'[d] = [t[d] EXCEPT !.mine = Failed(c), !.pc = Woken(@)]
  <2>1. t'[d].todo = t[d].todo /\ t'[d].current = t[d].current /\ t'[d].mine = Failed(c)
    BY <1>t, <1>5 DEF Fields
  <2> QED BY <1>0, <1>5, <2>1
<1> QED BY <1>t, <1>1, <1>2, <1>3, <1>4, <1>5, OtherRows

LEMMA OthersOwn ==
  ASSUME Types, OwnInv, NEW c \in Threads, Begins(c) \/ Step(c), NEW d \in Threads, d # c
  PROVE  Own(t'[d])
<1>1. Keeps(t[d], t'[d]) /\ Own(t[d])
  BY OthersKeep DEF OwnInv
<1>2. /\ t'[d].todo = t[d].todo /\ (t'[d].current => t[d].current)
      /\ \/ t'[d].mine = t[d].mine
         \/ /\ t[d].mine # NoEntry
            /\ t'[d].mine.state = "ready" => t'[d].mine.index # 0
  <2>1. BecomeReady(c) => t[c].print # 0
    BY DEF BecomeReady, At, OwnInv, Own
  <2>2. Ready(t[c].print, file[t[c].key]).index = t[c].print /\ Failed(c).state = "failed"
    BY StateOfEntries
  <2>3. Loading(c) # NoEntry
    BY StateOfEntries
  <2> QED BY <2>1, <2>2, <2>3, OthersLeave
<1> QED BY <1>1, <1>2
        DEF Own, Keeps, Ahead, Refreshing, Unwritten, ManifestPcs, LoadedPcs, OnKey

LEMMA OwnStep ==
  ASSUME Types, WaitInv, OwnInv, NEW c \in Threads, Begins(c) \/ Step(c), DirKeys # {}
  PROVE  OwnInv'
<1>1. source' # 0
  BY StepDisk, BeginsQuiet DEF OwnInv, SaveIndexes, SaveManifest, Save
<1>2. ASSUME NEW k \in Keys, indexes'[k].state = "ready" PROVE indexes'[k].index # 0
  <2>1. /\ BecomeReady(c) => t[c].print # 0
        /\ Replace(c) => t[c].got # 0
    BY DEF BecomeReady, Replace, At, OwnInv, Own
  <2>2. /\ Ready(t[c].print, file[k]).index = t[c].print
        /\ Ready(t[c].got, file[k]).index = t[c].got
        /\ Loading(c).state = "loading" /\ Failed(c).state = "failed" /\ NoEntry.state = "none"
    BY StateOfEntries
  <2> QED BY <1>2, <2>1, <2>2, EntryRows DEF OwnInv, IsReady
<1>3. ASSUME NEW d \in Threads PROVE Own(t'[d])
  <2>1. CASE d # c
    BY <2>1, OthersOwn
  <2>2. Begins(c) => Own(t'[c])
    BY BeginsOwn
  <2>3. Step(c) => Own(t'[c])
    BY StepGroups, RefreshOwn, SearchOwn, IndexOwn
  <2> QED BY <2>1, <2>2, <2>3
<1> QED BY <1>1, <1>2, <1>3 DEF OwnInv, IsReady

LEMMA OwnOutside ==
  ASSUME Types, OwnInv, Outside PROVE OwnInv'
<1>t. \A c \in Threads : DOMAIN t[c] = Fields
  BY DEF Types, ThreadTypes, Typed
<1>1. UNCHANGED indexes /\ source' # 0
  <2>1. source \in Nat /\ source # 0 /\ source + 1 # 0
    <3>1. source \in Nat
      BY DEF Types, DiskTypes, Versions
    <3> QED BY <3>1 DEF OwnInv
  <2>2. source' = source \/ source' = source + 1
    BY DEF Outside, Edit, OtherProcess, Delete
  <2> QED BY <2>1, <2>2, OutsideQuiet
<1>2. ASSUME NEW c \in Threads PROVE Own(t'[c])
  <2>1. Own(t[c])
    BY DEF OwnInv
  <2>2. t'[c] = t[c] \/ \E since : t'[c] = [t[c] EXCEPT !.since = since]
    BY DEF Outside, Edit, OtherProcess, Delete, Lowered
  <2>3. /\ t'[c].pc = t[c].pc /\ t'[c].request = t[c].request /\ t'[c].key = t[c].key
        /\ t'[c].got = t[c].got /\ t'[c].mine = t[c].mine /\ t'[c].wrote = t[c].wrote
        /\ t'[c].todo = t[c].todo /\ t'[c].current = t[c].current /\ t'[c].print = t[c].print
    BY <1>t, <2>2 DEF Fields
  <2> QED BY <2>1, <2>3 DEF Own
<1> QED BY <1>1, <1>2 DEF OwnInv, IsReady

(* What refers to others: the answer of a request that refreshed is taken  *)
(* from what it wrote, or what came after.                                 *)
Searching == {"lookup", "answered", "visit", "look", "lock", "invalidate", "load", "ready", "fail",
              "unmap", "wait", "asleep", "evict", "victims"} \cup ManifestPcs \cup LoadedPcs
Cleared == {"clear pins", "clear manifests", "next epoch"} \cup Searching

AsNew(entry, w) ==
  /\ entry.state = "ready" => entry.index >= w
  /\ \A d \in Threads : entry = Loading(d) /\ t[d].pc = "ready" => t[d].print >= w

Holds(d, w) ==
  /\ t[d].got = 0 \/ t[d].got >= w
  /\ t[d].pc = "ready" => t[d].print >= w
  /\ AsNew(t[d].mine, w)

Refreshed(c, w) ==
  /\ \A k \in DirKeys : file[k] = 0 \/ file[k] >= w
  /\ t[c].pc \in Cleared => \A k \in DirKeys : AsNew(indexes[k], w)
  /\ t[c].pc \in Searching => completed = 0 \/ completed >= w
  /\ t[c].pc \in Searching => \A d \in Threads : d = c \/ t[d].current => Holds(d, w)

SelfInv ==
  \A c \in Threads : \A w \in Nat \ {0} :
    t[c].request = "fresh" /\ t[c].wrote = w => Refreshed(c, w)

(* A step goes on with its request, or ends it, or the process starts anew. *)
LEMMA GoesOn ==
  ASSUME Types, WaitInv, NEW c \in Threads, Step(c), ~SaveIndexes(c), ~StartAgain(c), t'[c] # Idle
  PROVE  /\ t'[c].request = t[c].request /\ t'[c].wrote = t[c].wrote
         /\ t'[c].current => t[c].current \/ Lookup(c)
<1>t. ThreadTypes /\ DOMAIN t[c] = Fields
  BY DEF Types, ThreadTypes, Typed
<1>2. CASE \/ Check(c) \/ Acquire(c) \/ Recheck(c) \/ SaveManifest(c) \/ ClearIndexes(c)
           \/ ClearPins(c) \/ ClearManifests(c) \/ UnpinDirectory(c) \/ Invalidate(c) \/ Replace(c)
  <2>1. \E pc : t'[c] = [t[c] EXCEPT !.pc = pc]
    BY <1>t, <1>2, PcRows, CheckRows DEF Moves1
  <2> QED BY <1>t, <2>1 DEF Fields
<1>3. CASE Return(c) \/ Warmed(c)
  BY <1>t, <1>3, SearchRows
<1>4. CASE NextEpochStarts(c)
  <2>1. t'[c] = [t[c] EXCEPT !.pc = "lookup"]
    BY <1>t, <1>4, SearchRows
  <2> QED BY <1>t, <2>1 DEF Fields
<1>5. CASE Lookup(c)
  <2>1. \/ t'[c] = [t[c] EXCEPT !.pc = "answered", !.got = completed]
        \/ t'[c] = [t[c] EXCEPT !.pc = "visit", !.todo = DirKeys, !.current = TRUE]
        \/ t'[c] = [t[c] EXCEPT !.pc = "manifest", !.todo = DirKeys, !.current = TRUE,
                                !.manifestSince = manifest]
    BY <1>t, <1>5, SearchRows
  <2>2. t'[c].request = t[c].request /\ t'[c].wrote = t[c].wrote
    BY <1>t, <2>1 DEF Fields
  <2> QED BY <1>5, <2>2
<1>6. CASE Manifest(c)
  <2>1. \/ t'[c] = [t[c] EXCEPT !.pc = "visit", !.manifest = cached]
        \/ \E pc : t'[c] = [t[c] EXCEPT !.pc = pc]
    BY <1>t, <1>6, SearchRows
  <2> QED BY <1>t, <2>1 DEF Fields
<1>7. CASE LoadManifest(c) \/ EvictDirectory(c) \/ PutManifest(c)
  <2>1. \/ \E pc : t'[c] = [t[c] EXCEPT !.manifest.version = manifest, !.pc = pc]
        \/ t'[c] = [t[c] EXCEPT !.pc = "unpin directory", !.manifest.print = manifest]
        \/ \E print : t'[c] = [t[c] EXCEPT !.pc = "visit",
                                          !.manifest = [t[c].manifest EXCEPT !.print = print]]
    BY <1>t, <1>7, SearchRows
  <2> QED BY <1>t, <2>1 DEF Fields
<1>8. CASE (\E k \in DirKeys : Visit(c, k)) \/ Store(c)
  <2>1. \/ \E k : t'[c] = [t[c] EXCEPT !.pc = "look", !.key = k, !.todo = @ \ {k},
                                        !.manifest = NoManifest, !.manifestSince = 0]
        \/ t'[c] = [t[c] EXCEPT !.pc = "answered", !.key = None, !.current = FALSE]
    BY <1>t, <1>8, SearchRows
  <2> QED BY <1>t, <2>1 DEF Fields
<1>9. CASE Load(c) \/ Fail(c) \/ Unmap(c)
  <2>1. \/ \E pc : t'[c] = [t[c] EXCEPT !.pc = pc, !.print = file[t[c].key]]
        \/ t'[c] = [t[c] EXCEPT !.pc = "unmap"]
        \/ t'[c] = [t[c] EXCEPT !.pc = "exit", !.mine = NoEntry]
    <3> DEFINE pc == IF file[t[c].key] = 0 THEN "fail" ELSE "ready"
    <3>1. \/ t'[c] = [t[c] EXCEPT !.pc = pc, !.print = file[t[c].key]]
          \/ t'[c] = [t[c] EXCEPT !.pc = "unmap"]
          \/ t'[c] = [t[c] EXCEPT !.pc = "exit", !.mine = NoEntry]
      BY <1>t, <1>9, LoadRows
    <3> HIDE DEF pc
    <3> QED BY <3>1
  <2> QED BY <1>t, <2>1 DEF Fields
<1>10. CASE Look(c) \/ Lock(c)
  <2>1. \/ t'[c] = [t[c] EXCEPT !.pc = "lock", !.print = file[t[c].key]]
        \/ t'[c] = [t[c] EXCEPT !.pc = "wait", !.mine = indexes[t[c].key], !.print = 0]
        \/ \E pc : t'[c] = [t[c] EXCEPT !.pc = pc, !.print = 0]
    BY <1>t, <1>10, IndexRows
  <2> QED BY <1>t, <2>1 DEF Fields
<1>a. ASSUME NEW index, NEW print, NEW pc, t'[c] = After(c, index, print, pc)
      PROVE  /\ t'[c].request = t[c].request /\ t'[c].wrote = t[c].wrote
             /\ t'[c].current = t[c].current
  BY <1>t, <1>a DEF After, Fields
<1>11. CASE BecomeReady(c)
  <2>1. t'[c] = After(c, t[c].print, file[t[c].key], "evict")
    BY <1>t, <1>11, LoadRows
  <2> QED BY <1>a, <2>1
<1>12. CASE Wait(c)
  <2>1. \/ t'[c] = [t[c] EXCEPT !.pc = "asleep"]
        \/ t'[c] = [t[c] EXCEPT !.pc = "exit", !.mine = NoEntry]
        \/ t'[c] = [t[c] EXCEPT !.pc = "look", !.mine = NoEntry]
        \/ t'[c] = After(c, t[c].mine.index, t[c].mine.print, AfterIndex(t[c].request))
    BY <1>t, <1>12, IndexRows
  <2>2. \/ /\ t'[c].request = t[c].request /\ t'[c].wrote = t[c].wrote
           /\ t'[c].current = t[c].current
        \/ t'[c] = After(c, t[c].mine.index, t[c].mine.print, AfterIndex(t[c].request))
    BY <1>t, <2>1 DEF Fields
  <2> QED BY <1>a, <2>2
<1>13. CASE Evict(c) \/ EvictVictims(c) \/ Build(c)
  <2>1. \/ t'[c] = [t[c] EXCEPT !.pc = "victims", !.spared = pinned]
        \/ t'[c] = [t[c] EXCEPT !.pc = AfterIndex(t[c].request), !.spared = {}]
        \/ t'[c] = [t[c] EXCEPT !.pc = "save", !.got = source]
    BY <1>t, <1>13, IndexRows
  <2> QED BY <1>t, <2>1 DEF Fields
<1>14. CASE Save(c)
  BY <1>t, <1>14 DEF Save, Lowered, Fields
<1> QED BY <1>2, <1>3, <1>4, <1>5, <1>6, <1>7, <1>8, <1>9, <1>10, <1>11, <1>12, <1>13, <1>14 DEF Step

(* A request that refreshed clears, then starts an epoch, then searches.   *)
LEMMA RefreshedGoes ==
  ASSUME Types, WaitInv, OwnInv, NEW e \in Threads, Begins(e) \/ Step(e),
         NEW c \in Threads, t'[c].request = "fresh", t'[c].wrote # 0,
         ~(e = c /\ SaveIndexes(c))
  PROVE  /\ t[c].request = "fresh" /\ t[c].wrote = t'[c].wrote
         /\ t'[c].pc \in Cleared => t[c].pc \in Cleared \/ (e = c /\ ClearIndexes(c))
         /\ t'[c].pc \in Searching => t[c].pc \in Searching \/ (e = c /\ NextEpochStarts(c))
<1>1. CASE e # c
  BY <1>1, OthersKeep DEF Keeps, Cleared, Searching
<1>2. CASE e = c
  <2>i. Idle.wrote = 0
    BY DEF Idle
  <2>1. ~Begins(c)
    <3>1. \A request, pc : Begin(c, request, pc) => t'[c].wrote = 0
      BY DEF Types, ThreadTypes, Begin, Idle
    <3>2. \A request, pc, k : BeginOn(c, request, pc, k) => t'[c].wrote = 0
      BY DEF Types, ThreadTypes, BeginOn, Idle
    <3> QED BY <3>1, <3>2 DEF Begins
  <2>6. ~StartAgain(c)
    BY SearchRows, StartingOwn DEF Types
  <2>2. t[c].request = "fresh" /\ t[c].wrote = t'[c].wrote
    BY <1>2, <2>i, <2>1, <2>6, GoesOn
  <2>3. t[c].pc \notin Unwritten /\ t[c].pc \notin {"build", "save", "replace"}
    BY <2>2 DEF OwnInv, Own
  <2>4. CASE SaveManifest(c) \/ ClearIndexes(c) \/ ClearPins(c) \/ ClearManifests(c)
    <3>1. ThreadTypes /\ DOMAIN t[c] = Fields
      BY DEF Types, ThreadTypes, Typed
    <3>2. \/ SaveManifest(c) /\ t'[c].pc = "clear indexes"
          \/ ClearIndexes(c) /\ t'[c].pc = "clear pins"
          \/ t[c].pc = "clear pins" /\ t'[c].pc = "clear manifests"
          \/ t[c].pc = "clear manifests" /\ t'[c].pc = "next epoch"
      <4>1. \/ SaveManifest(c) /\ t'[c] = [t[c] EXCEPT !.pc = "clear indexes"]
            \/ ClearIndexes(c) /\ t'[c] = [t[c] EXCEPT !.pc = "clear pins"]
            \/ t[c].pc = "clear pins" /\ t'[c] = [t[c] EXCEPT !.pc = "clear manifests"]
            \/ t[c].pc = "clear manifests" /\ t'[c] = [t[c] EXCEPT !.pc = "next epoch"]
        BY <3>1, <2>4, PcRows DEF Moves1
      <4> QED BY <3>1, <4>1 DEF Fields
    <3> QED BY <1>2, <2>2, <3>2 DEF Cleared, Searching, ManifestPcs, LoadedPcs
  <2>5. CASE NextEpochStarts(c)
    BY <1>2, <2>2, <2>5 DEF NextEpochStarts, At, Cleared
  <2>7. CASE t[c].pc \in Searching
    BY <2>2, <2>7 DEF Cleared
  <2>8. t[c].pc \in Searching \/ SaveManifest(c) \/ ClearIndexes(c) \/ ClearPins(c)
          \/ ClearManifests(c) \/ NextEpochStarts(c)
    BY <1>2, <2>1, <2>3, <2>6
       DEF Step, Searching, ManifestPcs, LoadedPcs, Unwritten, At,
           Return, Check, Acquire, Recheck, SaveIndexes, Lookup, Manifest, LoadManifest,
           EvictDirectory, UnpinDirectory, PutManifest, Visit, Store, Warmed, Look, Lock,
           Invalidate, Load, BecomeReady, Fail, Unmap, Wait, Evict, EvictVictims, Build, Save,
           Replace
  <2> QED BY <1>2, <2>2, <2>4, <2>5, <2>7, <2>8
<1> QED BY <1>1, <1>2

(* Whose index becomes ready just read its file.                           *)
LEMMA ReadyRow ==
  ASSUME Types, WaitInv, NEW e \in Threads, Begins(e) \/ Step(e), NEW d \in Threads,
         t'[d].pc = "ready"
  PROVE  \/ t[d].pc = "ready" /\ t'[d].print = t[d].print
         \/ d = e /\ Load(e) /\ t'[d].print = file[t[d].key] /\ t'[d].print # 0
<1>1. CASE d # e
  BY <1>1, OthersKeep DEF Keeps
<1>2. CASE d = e
  <2>1. Load(e) /\ t[e].key \in Keys
    BY <1>2, Enters, KeyKnown DEF Load, At, OnKey
  <2>2. DOMAIN t[e] = Fields
    BY DEF Types, ThreadTypes, Typed
  <2>3. CASE file[t[e].key] = 0
    <3>1. t'[e] = [t[e] EXCEPT !.pc = "fail", !.print = file[t[e].key]]
      BY <2>1, <2>3, LoadRows DEF Types
    <3> QED BY <1>2, <2>2, <3>1 DEF Fields
  <2>4. CASE file[t[e].key] # 0
    <3>1. t'[e] = [t[e] EXCEPT !.pc = "ready", !.print = file[t[e].key]]
      BY <2>1, <2>4, LoadRows DEF Types
    <3>2. t'[e].print = file[t[e].key]
      BY <2>2, <3>1 DEF Fields
    <3> QED BY <1>2, <2>1, <2>4, <3>2
  <2> QED BY <2>3, <2>4
<1> QED BY <1>1, <1>2

(* An entry stays as new while its loader reads a file that is as new.     *)
LEMMA StaysNew ==
  ASSUME Types, WaitInv, NEW e \in Threads, Begins(e) \/ Step(e), NEW w \in Nat, NEW entry,
         AsNew(entry, w),
         entry = Loading(e) /\ Load(e) => file[t[e].key] = 0 \/ file[t[e].key] >= w
  PROVE  AsNew(entry, w)'
<1>1. ASSUME NEW d \in Threads, entry = Loading(d), t'[d].pc = "ready" PROVE t'[d].print >= w
  <2>1. CASE t[d].pc = "ready" /\ t'[d].print = t[d].print
    BY <1>1, <2>1 DEF AsNew
  <2>2. CASE d = e /\ Load(e) /\ t'[d].print = file[t[d].key] /\ t'[d].print # 0
    BY <1>1, <2>2
  <2> QED BY <1>1, <2>1, <2>2, ReadyRow
<1>2. entry.state = "ready" => entry.index >= w
  BY DEF AsNew
<1> QED BY <1>1, <1>2 DEF AsNew

LEMMA OldKept ==
  ASSUME NEW w, NEW entry, entry.state # "ready", \A d \in Threads : entry # Loading(d)
  PROVE  AsNew(entry, w) /\ AsNew(entry, w)'
BY DEF AsNew

LEMMA NotLoading ==
  /\ \A d \in Threads : NoEntry # Loading(d)
  /\ \A c, d \in Threads : Failed(c) # Loading(d)
  /\ \A i, p : \A d \in Threads : Ready(i, p) # Loading(d)
<1>1. NoEntry.state = "none"
  BY StateOfEntries
<1>2. \A d \in Threads : Loading(d).state = "loading" /\ Failed(d).state = "failed"
  BY StateOfEntries
<1>3. \A i, p : Ready(i, p).state = "ready"
  BY StateOfEntries
<1> QED BY <1>1, <1>2, <1>3

(* Every entry of the directory is as new, and stays so.                   *)
LEMMA EntriesNew ==
  ASSUME Types, WaitInv, OwnInv, UpdateKeys \cap DirKeys = {},
         NEW e \in Threads, Begins(e) \/ Step(e), NEW w \in Nat, NEW k \in DirKeys,
         AsNew(indexes[k], w) \/ ClearIndexes(e), file[k] = 0 \/ file[k] >= w
  PROVE  AsNew(indexes[k], w)'
<1>k. k \in Keys
  BY DEF Keys
<1>n. AsNew(NoEntry, w) /\ AsNew(NoEntry, w)'
  BY OldKept, NotLoading, StateOfEntries
<1>1. CASE indexes'[k] = NoEntry
  BY <1>n, <1>1 DEF AsNew
<1>2. CASE indexes'[k] = indexes[k] /\ ~ClearIndexes(e)
  <2>1. ASSUME indexes[k] = Loading(e), Load(e) PROVE t[e].key = k
    <3>1. PICK d \in Threads : Loads(d, k, indexes[k])
      BY <1>k, <2>1, StateOfEntries DEF WaitInv
    <3> QED BY <2>1, <3>1, OneLoader DEF Loads
  <2>2. AsNew(indexes[k], w)
    BY <1>2
  <2> DEFINE entry == indexes[k]
  <2>3. AsNew(entry, w) /\ (entry = Loading(e) /\ Load(e) => file[t[e].key] = 0 \/ file[t[e].key] >= w)
    BY <2>1, <2>2
  <2> QED BY <1>2, <2>3, StaysNew DEF AsNew
<1>3. CASE Lock(e) /\ indexes'[k] = Loading(e)
  <2>1. t'[e].pc # "ready"
    BY <1>3, Enters DEF Lock, Load, At
  <2>2. \A d \in Threads : Loading(e) = Loading(d) => d = e
    BY OneLoader
  <2>3. Loading(e).state # "ready"
    BY StateOfEntries
  <2> QED BY <1>3, <2>1, <2>2, <2>3 DEF AsNew
<1>4. CASE /\ BecomeReady(e) /\ indexes[k] = Loading(e)
           /\ indexes'[k] = Ready(t[e].print, file[k])
  <2>1. t[e].print >= w
    BY <1>4 DEF BecomeReady, ClearIndexes, At, AsNew
  <2>2. Ready(t[e].print, file[k]).index = t[e].print
    BY StateOfEntries
  <2>3. \A d \in Threads : Ready(t[e].print, file[k]) # Loading(d)
    BY NotLoading
  <2> QED BY <1>4, <2>1, <2>2, <2>3 DEF AsNew
<1>5. CASE Fail(e) /\ indexes'[k] = Failed(e)
  <2>1. Failed(e).state # "ready" /\ \A d \in Threads : Failed(e) # Loading(d)
    BY NotLoading, StateOfEntries
  <2> QED BY <1>5, <2>1 DEF AsNew
<1>6. ~(Replace(e) /\ k = t[e].key)
  BY DEF Replace, At, OwnInv, Own
<1> QED BY <1>k, <1>1, <1>2, <1>3, <1>4, <1>5, <1>6, EntryRows

(* Who reads the directory reads an index of it.                           *)
LEMMA ReadsDirectory ==
  ASSUME OwnInv, NEW d \in Threads, t[d].request = "fresh", t[d].pc \in OnKey
  PROVE  t[d].key \in DirKeys
BY DEF OwnInv, Own

(* What others read for a thread is as new as well.                        *)
LEMMA OthersHold ==
  ASSUME Types, WaitInv, OwnInv, NEW e \in Threads, Begins(e) \/ Step(e), NEW w \in Nat,
         NEW d \in Threads, d # e, t[d].request = "fresh", Holds(d, w),
         \A k \in DirKeys : file[k] = 0 \/ file[k] >= w
  PROVE  Holds(d, w)'
<1>1. /\ t'[d].got = t[d].got /\ t'[d].print = t[d].print
      /\ t'[d].pc = "ready" => t[d].pc = "ready"
  BY OthersKeep DEF Keeps
<1>2. (t'[d].got = 0 \/ t'[d].got >= w) /\ (t'[d].pc = "ready" => t'[d].print >= w)
  BY <1>1 DEF Holds
<1>3. ASSUME t'[d].mine = t[d].mine PROVE AsNew(t[d].mine, w)'
  <2> DEFINE entry == t[d].mine
  <2>1. ASSUME entry = Loading(e), Load(e) PROVE t[e].key \in DirKeys
    <3>1. t[d].mine.state = "loading"
      BY <2>1, StateOfEntries
    <3>2. PICK l \in Threads : Loads(l, t[d].key, t[d].mine)
      BY <3>1 DEF WaitInv
    <3>3. t[d].pc \in OnKey
      BY <3>1 DEF WaitInv, OnKey
    <3>4. l = e /\ t[e].key = t[d].key
      BY <2>1, <3>2, OneLoader DEF Loads
    <3> QED BY <3>3, <3>4, ReadsDirectory
  <2>2. AsNew(entry, w)
    BY DEF Holds
  <2>3. entry = Loading(e) /\ Load(e) => file[t[e].key] = 0 \/ file[t[e].key] >= w
    BY <2>1
  <2> QED BY <1>3, <2>2, <2>3, StaysNew DEF AsNew
<1>4. ASSUME BecomeReady(e), t[d].mine = Loading(e), t'[d].mine = Ready(t[e].print, file[t[e].key])
      PROVE  AsNew(t[d].mine, w)'
  <2>1. t[e].print >= w
    BY <1>4 DEF BecomeReady, At, AsNew, Holds
  <2>2. Ready(t[e].print, file[t[e].key]).index = t[e].print
    BY StateOfEntries
  <2>3. \A l \in Threads : Ready(t[e].print, file[t[e].key]) # Loading(l)
    BY NotLoading
  <2> QED BY <1>4, <2>1, <2>2, <2>3 DEF AsNew
<1>5. ASSUME t'[d].mine = Failed(e) PROVE AsNew(t[d].mine, w)'
  <2>1. Failed(e).state # "ready" /\ \A l \in Threads : Failed(e) # Loading(l)
    BY NotLoading, StateOfEntries
  <2> QED BY <1>5, <2>1 DEF AsNew
<1>6. AsNew(t[d].mine, w)'
  BY <1>3, <1>4, <1>5, OthersLeave
<1> QED BY <1>2, <1>6 DEF Holds

(* What a thread reads for itself is as new.                               *)
LEMMA OwnHolds ==
  ASSUME Types, WaitInv, OwnInv, NEW e \in Threads, Step(e), NEW w \in Nat,
         t[e].request = "fresh",
         \A k \in DirKeys : file[k] = 0 \/ file[k] >= w,
         \A k \in DirKeys : AsNew(indexes[k], w),
         completed = 0 \/ completed >= w,
         Holds(e, w) \/ t[e].pc \in Ahead
  PROVE  Holds(e, w)'
<1>t. ThreadTypes /\ DOMAIN t[e] = Fields /\ Typed(t[e])
  BY DEF Types, ThreadTypes, Typed
<1>n. /\ t[e].got \in Nat /\ t[e].print \in Nat /\ t[e].mine.index \in Nat /\ completed \in Nat
      /\ NoEntry.state = "none" /\ \A d \in Threads : NoEntry # Loading(d)
  BY Numbers, NotLoading, StateOfEntries
(* It has not loaded an index in the same step.                            *)
<1>e. ASSUME t'[e].pc # "ready" \/ t'[e].print >= w, t'[e].got = 0 \/ t'[e].got >= w,
             \/ t'[e].mine = NoEntry
             \/ t'[e].mine = t[e].mine /\ AsNew(t[e].mine, w) /\ ~(t[e].mine = Loading(e) /\ Load(e))
             \/ ~Load(e) /\ \E k \in DirKeys : t'[e].mine = indexes[k]
      PROVE  Holds(e, w)'
  <2>1. CASE t'[e].mine = NoEntry
    BY <1>n, <1>e, <2>1 DEF Holds, AsNew
  <2>2. CASE t'[e].mine = t[e].mine /\ AsNew(t[e].mine, w) /\ ~(t[e].mine = Loading(e) /\ Load(e))
    <3> DEFINE entry == t[e].mine
    <3>1. AsNew(entry, w) /\ (entry = Loading(e) /\ Load(e) => file[t[e].key] = 0 \/ file[t[e].key] >= w)
      BY <2>2
    <3>2. AsNew(t[e].mine, w)'
      BY <2>2, <3>1, StaysNew DEF AsNew
    <3> QED BY <1>e, <3>2 DEF Holds
  <2>3. ASSUME NEW k \in DirKeys, ~Load(e), t'[e].mine = indexes[k] PROVE Holds(e, w)'
    <3> DEFINE entry == indexes[k]
    <3>1. AsNew(entry, w) /\ (entry = Loading(e) /\ Load(e) => file[t[e].key] = 0 \/ file[t[e].key] >= w)
      BY <2>3
    <3>2. AsNew(t[e].mine, w)'
      BY <2>3, <3>1, StaysNew DEF AsNew
    <3> QED BY <1>e, <3>2 DEF Holds
  <2> QED BY <1>e, <2>1, <2>2, <2>3
<1>h. /\ t[e].got = 0 \/ t[e].got >= w
      /\ t[e].pc = "ready" => t[e].print >= w
      /\ AsNew(t[e].mine, w)
  <2>1. CASE t[e].pc \in Ahead
    <3>1. t[e].got = 0 /\ t[e].mine = NoEntry /\ t[e].pc # "ready"
      BY <2>1 DEF OwnInv, Own, Ahead, Refreshing
    <3> QED BY <1>n, <3>1 DEF AsNew
  <2>2. CASE Holds(e, w)
    BY <2>2 DEF Holds
  <2> QED BY <2>1, <2>2
<1>l. Load(e) => t[e].mine # Loading(e)
  BY NotItsOwn, StateOfEntries DEF Load, At, AtWork
<1>s. ASSUME t'[e].mine = t[e].mine \/ t'[e].mine = NoEntry, t'[e].got = t[e].got, t'[e].pc # "ready"
      PROVE  Holds(e, w)'
  BY <1>e, <1>h, <1>l, <1>s
<1>0. CASE t'[e] = Idle
  <2>1. t'[e].mine = NoEntry /\ t'[e].got = 0 /\ t'[e].pc # "ready"
    BY <1>0 DEF Idle
  <2> QED BY <1>e, <2>1
<1>r. ~Load(e) => t'[e].pc # "ready"
  BY Enters
<1>1. CASE \/ Check(e) \/ Acquire(e) \/ Recheck(e) \/ SaveManifest(e) \/ ClearIndexes(e)
           \/ ClearPins(e) \/ ClearManifests(e) \/ UnpinDirectory(e) \/ Invalidate(e) \/ Replace(e)
  <2>1. t'[e] = Idle \/ \E pc : pc # "ready" /\ t'[e] = [t[e] EXCEPT !.pc = pc]
    BY <1>t, <1>1, PcRows, CheckRows DEF Moves1
  <2> QED BY <1>t, <1>0, <1>s, <2>1 DEF Fields
<1>2. CASE SaveIndexes(e)
  <2>1. t'[e] = [t[e] EXCEPT !.pc = "save manifest", !.wrote = source]
    BY <1>t, <1>2, SearchRows
  <2> QED BY <1>t, <1>s, <2>1 DEF Fields
<1>3. CASE NextEpochStarts(e)
  <2>1. t'[e] = Idle \/ t'[e] = [t[e] EXCEPT !.pc = "lookup"]
    BY <1>t, <1>3, SearchRows
  <2> QED BY <1>t, <1>0, <1>s, <2>1 DEF Fields
<1>4. CASE Lookup(e)
  <2>1. CASE t'[e] = [t[e] EXCEPT !.pc = "answered", !.got = completed]
    <3>1. t'[e].pc = "answered" /\ t'[e].got = completed /\ t'[e].mine = t[e].mine
      BY <1>t, <2>1 DEF Fields
    <3>2. ~Load(e)
      BY <1>4 DEF Lookup, Load, At
    <3> QED BY <1>e, <1>h, <3>1, <3>2
  <2>2. CASE t'[e] = [t[e] EXCEPT !.pc = "visit", !.todo = DirKeys, !.current = TRUE]
    BY <1>t, <1>s, <2>2 DEF Fields
  <2>3. CASE t'[e] = [t[e] EXCEPT !.pc = "manifest", !.todo = DirKeys, !.current = TRUE,
                                  !.manifestSince = manifest]
    BY <1>t, <1>s, <2>3 DEF Fields
  <2> QED BY <1>t, <1>4, <2>1, <2>2, <2>3, SearchRows
<1>5. CASE Manifest(e)
  <2>1. \/ t'[e] = [t[e] EXCEPT !.pc = "visit", !.manifest = cached]
        \/ \E pc \in {"load manifest", "reload manifest"} : t'[e] = [t[e] EXCEPT !.pc = pc]
    BY <1>t, <1>5, SearchRows
  <2> QED BY <1>t, <1>s, <2>1 DEF Fields
<1>6. CASE LoadManifest(e)
  <2>1. PICK pc \in {"put manifest", "evict directory"} :
          t'[e] = [t[e] EXCEPT !.manifest.version = manifest, !.pc = pc]
    BY <1>t, <1>6, SearchRows
  <2> QED BY <1>t, <1>s, <2>1 DEF Fields
<1>7. CASE EvictDirectory(e)
  <2>1. t'[e] = [t[e] EXCEPT !.pc = "unpin directory", !.manifest.print = manifest]
    BY <1>t, <1>7, SearchRows
  <2> QED BY <1>t, <1>s, <2>1 DEF Fields
<1>8. CASE PutManifest(e)
  <2>1. PICK print : t'[e] = [t[e] EXCEPT !.pc = "visit",
                                          !.manifest = [t[e].manifest EXCEPT !.print = print]]
    BY <1>t, <1>8, SearchRows
  <2> QED BY <1>t, <1>s, <2>1 DEF Fields
<1>9. ASSUME NEW k, Visit(e, k) PROVE Holds(e, w)'
  <2>1. t'[e] = [t[e] EXCEPT !.pc = "look", !.key = k, !.todo = @ \ {k},
                             !.manifest = NoManifest, !.manifestSince = 0]
    BY <1>t, <1>9, SearchRows
  <2> QED BY <1>t, <1>s, <2>1 DEF Fields
<1>10. CASE Store(e)
  <2>1. t'[e] = [t[e] EXCEPT !.pc = "answered", !.key = None, !.current = FALSE]
    BY <1>t, <1>10, SearchRows
  <2> QED BY <1>t, <1>s, <2>1 DEF Fields
<1>11. CASE Return(e) \/ Warmed(e)
  BY <1>t, <1>0, <1>11, SearchRows
<1>24. CASE StartAgain(e)
  <2>1. t'[e] = Starting
    BY <1>t, <1>24, SearchRows
  <2>2. Starting.mine = NoEntry /\ Starting.got = 0 /\ Starting.pc = "manifest"
    BY DEF Starting, Idle
  <2> QED BY <1>e, <2>1, <2>2
<1>12. CASE Look(e)
  <2>1. t'[e] = [t[e] EXCEPT !.pc = "lock", !.print = file[t[e].key]]
    BY <1>t, <1>12, IndexRows
  <2> QED BY <1>t, <1>s, <2>1 DEF Fields
<1>13. CASE Lock(e)
  <2>1. t[e].key \in DirKeys /\ ~Load(e)
    BY <1>13, ReadsDirectory DEF Lock, Load, At, OnKey
  <2>2. CASE t'[e] = [t[e] EXCEPT !.pc = "wait", !.mine = indexes[t[e].key], !.print = 0]
    <3>1. t'[e].pc = "wait" /\ t'[e].got = t[e].got /\ t'[e].mine = indexes[t[e].key]
      BY <1>t, <2>2 DEF Fields
    <3> QED BY <1>e, <1>h, <2>1, <3>1
  <2>3. ASSUME NEW pc \in {"invalidate", "load"}, t'[e] = [t[e] EXCEPT !.pc = pc, !.print = 0]
        PROVE  Holds(e, w)'
    BY <1>t, <1>s, <2>3 DEF Fields
  <2> QED BY <1>t, <1>13, <2>2, <2>3, IndexRows
<1>14. CASE Load(e)
  <2>1. t[e].key \in DirKeys
    BY <1>14, ReadsDirectory DEF Load, At, OnKey
  <2>2. \E pc : t'[e] = [t[e] EXCEPT !.pc = pc, !.print = file[t[e].key]]
    <3> DEFINE pc == IF file[t[e].key] = 0 THEN "fail" ELSE "ready"
    <3>1. t'[e] = [t[e] EXCEPT !.pc = pc, !.print = file[t[e].key]]
      BY <1>t, <1>14, LoadRows
    <3> HIDE DEF pc
    <3> QED BY <3>1
  <2>3. t'[e].got = t[e].got /\ t'[e].mine = t[e].mine /\ t'[e].print = file[t[e].key]
    BY <1>t, <2>2 DEF Fields
  <2>4. t'[e].pc = "ready" => t'[e].print # 0
    BY <1>14, ReadyRow DEF Load, At
  <2> QED BY <1>e, <1>h, <1>l, <2>1, <2>3, <2>4
<1>15. CASE Fail(e)
  <2>1. t'[e] = [t[e] EXCEPT !.pc = "unmap"]
    BY <1>t, <1>15, LoadRows
  <2> QED BY <1>t, <1>s, <2>1 DEF Fields
<1>16. ASSUME t'[e] = [t[e] EXCEPT !.pc = "exit", !.mine = NoEntry] PROVE Holds(e, w)'
  BY <1>t, <1>s, <1>16 DEF Fields
<1>17. CASE Unmap(e)
  BY <1>t, <1>0, <1>16, <1>17, LoadRows
<1>18. ASSUME NEW index \in Nat, index >= w, NEW print, NEW pc, pc # "ready",
              t'[e] = After(e, index, print, pc)
       PROVE  Holds(e, w)'
  <2>1. t'[e].pc = pc /\ t'[e].got = Oldest(t[e].got, index) /\ t'[e].mine = NoEntry
    BY <1>t, <1>18 DEF After, Fields
  <2>2. t'[e].got >= w
    BY <1>n, <1>h, <1>18, <2>1 DEF Oldest, Smaller
  <2> QED BY <1>e, <1>18, <2>1, <2>2
<1>19. CASE BecomeReady(e)
  <2>1. t'[e] = After(e, t[e].print, file[t[e].key], "evict") /\ t[e].print >= w
    BY <1>t, <1>h, <1>19, LoadRows DEF BecomeReady, At
  <2> QED BY <1>n, <1>18, <2>1
<1>20. CASE Wait(e)
  <2>1. CASE t'[e] = [t[e] EXCEPT !.pc = "asleep"]
    BY <1>t, <1>s, <2>1 DEF Fields
  <2>2. CASE t'[e] = [t[e] EXCEPT !.pc = "look", !.mine = NoEntry]
    BY <1>t, <1>s, <2>2 DEF Fields
  <2>3. CASE /\ t[e].mine.state = "ready"
             /\ t'[e] = After(e, t[e].mine.index, t[e].mine.print, AfterIndex(t[e].request))
    <3>1. t[e].mine.index >= w /\ AfterIndex(t[e].request) # "ready"
      BY <1>h, <2>3 DEF AsNew, AfterIndex
    <3> QED BY <1>n, <1>18, <2>3, <3>1
  <2> QED BY <1>t, <1>0, <1>16, <1>20, <2>1, <2>2, <2>3, IndexRows
<1>21. CASE Evict(e)
  <2>1. t'[e] = [t[e] EXCEPT !.pc = "victims", !.spared = pinned]
    BY <1>t, <1>21, IndexRows
  <2> QED BY <1>t, <1>s, <2>1 DEF Fields
<1>22. CASE EvictVictims(e)
  <2>1. \/ t'[e] = Idle
        \/ t'[e] = [t[e] EXCEPT !.pc = AfterIndex(t[e].request), !.spared = {}]
    BY <1>t, <1>22, IndexRows
  <2>2. CASE t'[e] = [t[e] EXCEPT !.pc = AfterIndex(t[e].request), !.spared = {}]
    <3>1. AfterIndex(t[e].request) # "ready"
      BY DEF AfterIndex
    <3>2. /\ t'[e].got = t[e].got /\ t'[e].mine = t[e].mine
          /\ t'[e].pc = AfterIndex(t[e].request) /\ t'[e].print = t[e].print
      BY <1>t, <2>2 DEF Fields
    <3> QED BY <1>s, <3>1, <3>2
  <2> QED BY <1>0, <2>1, <2>2
<1>23. ~Build(e) /\ ~Save(e)
  BY DEF Build, Save, At, OwnInv, Own
<1> QED BY <1>1, <1>2, <1>3, <1>4, <1>5, <1>6, <1>7, <1>8, <1>9, <1>10, <1>11, <1>12, <1>13, <1>14,
           <1>15, <1>17, <1>19, <1>20, <1>21, <1>22, <1>23, <1>24 DEF Step

LEMMA SelfStep ==
  ASSUME Types, WaitInv, CurrentInv, OwnInv, SelfInv,
         UpdateKeys \cap DirKeys = {}, DirKeys # {},
         NEW e \in Threads, Begins(e) \/ Step(e)
  PROVE  SelfInv'
<1> SUFFICES ASSUME NEW c \in Threads, NEW w \in Nat \ {0}, t'[c].request = "fresh", t'[c].wrote = w
             PROVE  Refreshed(c, w)'
  BY DEF SelfInv
<1>n. source \in Nat /\ DOMAIN file = Keys /\ DirKeys \subseteq Keys
  BY Numbers DEF Types, DiskTypes, Keys
<1>s. ASSUME SaveIndexes(e) PROVE \A k \in DirKeys : file'[k] = source
  BY <1>n, <1>s DEF SaveIndexes, DirSavedAs
<1>1. CASE e = c /\ SaveIndexes(c)
  <2>1. t'[c] = [t[c] EXCEPT !.pc = "save manifest", !.wrote = source] /\ DOMAIN t[c] = Fields
    BY <1>1, SearchRows DEF Types, ThreadTypes, Typed
  <2>2. t'[c].pc = "save manifest" /\ w = source
    BY <2>1 DEF Fields
  <2>3. \A k \in DirKeys : file'[k] = 0 \/ file'[k] >= w
    <3>1. source >= source
      BY <1>n
    <3> QED BY <1>s, <1>1, <2>2, <3>1
  <2>4. t'[c].pc \notin Cleared /\ t'[c].pc \notin Searching
    BY <2>2 DEF Cleared, Searching, ManifestPcs, LoadedPcs
  <2> QED BY <2>3, <2>4 DEF Refreshed
<1>2. CASE ~(e = c /\ SaveIndexes(c))
  <2>1. /\ t[c].request = "fresh" /\ t[c].wrote = w
        /\ t'[c].pc \in Cleared => t[c].pc \in Cleared \/ (e = c /\ ClearIndexes(c))
        /\ t'[c].pc \in Searching => t[c].pc \in Searching \/ (e = c /\ NextEpochStarts(c))
    BY <1>2, RefreshedGoes
  <2>2. Refreshed(c, w)
    BY <2>1 DEF SelfInv
  <2>f. \A k \in DirKeys : file[k] = 0 \/ file[k] >= w
    BY <2>2 DEF Refreshed
  <2>3. ASSUME NEW k \in DirKeys PROVE file'[k] = 0 \/ file'[k] >= w
    <3>1. w <= source
      BY <2>1 DEF CurrentInv, Fresh
    <3>2. CASE SaveIndexes(e)
      BY <1>n, <1>s, <3>1, <3>2
    <3>3. CASE Save(e)
      <4>1. t[e].key \notin DirKeys
        BY <3>3 DEF Save, At, OwnInv, Own
      <4>2. file'[k] = file[k]
        BY <1>n, <3>3, <4>1 DEF Save
      <4> QED BY <2>f, <4>2
    <3>4. CASE SaveManifest(e)
      BY <2>f, <3>4 DEF SaveManifest
    <3>5. CASE UNCHANGED file
      BY <2>f, <3>5
    <3> QED BY <3>2, <3>3, <3>4, <3>5, StepDisk, BeginsQuiet
  <2>4. ASSUME t'[c].pc \in Cleared, NEW k \in DirKeys PROVE AsNew(indexes[k], w)'
    <3>1. AsNew(indexes[k], w) \/ ClearIndexes(e)
      BY <2>1, <2>2, <2>4 DEF Refreshed
    <3> QED BY <2>f, <3>1, EntriesNew
  <2>5. ASSUME t'[c].pc \in Searching PROVE completed' = 0 \/ completed' >= w
    <3>1. CASE NextEpochStarts(e) \/ UnpinDirectory(e) \/ StartAgain(e)
      BY <3>1 DEF NextEpochStarts, UnpinDirectory, StartAgain
    <3>2. CASE ~NextEpochStarts(e)
      <4>1. /\ completed = 0 \/ completed >= w
            /\ \A d \in Threads : d = c \/ t[d].current => Holds(d, w)
        BY <2>1, <2>2, <2>5, <3>2 DEF Refreshed
      <4>2. CASE Store(e)
        BY <4>1, <4>2 DEF Store, Holds
      <4>3. CASE Invalidate(e) \/ EvictVictims(e)
        BY <4>1, <4>3 DEF Invalidate, EvictVictims, Invalidated
      <4> QED BY <3>1, <4>1, <4>2, <4>3, StepCompleted, BeginsQuiet
    <3> QED BY <3>1, <3>2
  <2>6. ASSUME t'[c].pc \in Searching, NEW d \in Threads, d = c \/ t'[d].current
        PROVE  Holds(d, w)'
    <3>b. ASSUME Begins(e) PROVE t'[e].wrote = 0 /\ t'[e].current = FALSE
      <4>1. \A request, pc : Begin(e, request, pc) => t'[e].wrote = 0 /\ t'[e].current = FALSE
        BY DEF Types, ThreadTypes, Begin, Idle
      <4>2. \A request, pc, k : BeginOn(e, request, pc, k) => t'[e].wrote = 0 /\ t'[e].current = FALSE
        BY DEF Types, ThreadTypes, BeginOn, Idle
      <4> QED BY <3>b, <4>1, <4>2 DEF Begins
    <3>1. CASE NextEpochStarts(c) /\ e = c
      <4>1. d = c
        BY <2>6, <3>1, OthersLeave
      <4>2. t'[c].pc = "lookup"
        <5>1. Idle.wrote = 0 /\ DOMAIN t[c] = Fields
          BY DEF Idle, Types, ThreadTypes, Typed
        <5>2. t'[c] = Idle \/ t'[c] = [t[c] EXCEPT !.pc = "lookup"]
          BY <3>1, SearchRows DEF Types
        <5> QED BY <5>1, <5>2 DEF Fields
      <4>3. t'[c].got = 0 /\ t'[c].mine = NoEntry
        <5>1. Own(t'[c])
          BY OwnStep DEF OwnInv
        <5> QED BY <4>2, <5>1 DEF Own, Ahead
      <4>4. NoEntry.state # "ready" /\ \A l \in Threads : NoEntry # Loading(l)
        BY NotLoading, StateOfEntries
      <4> QED BY <4>1, <4>2, <4>3, <4>4 DEF Holds, AsNew
    <3>2. CASE t[c].pc \in Searching
      <4>1. /\ completed = 0 \/ completed >= w
            /\ \A k \in DirKeys : AsNew(indexes[k], w)
            /\ \A l \in Threads : l = c \/ t[l].current => Holds(l, w)
        BY <2>2, <3>2 DEF Refreshed, Cleared
      <4>2. t[d].current => t[d].request = "fresh"
        BY DEF OwnInv, Own
      <4>3. CASE d # e
        <5>1. d = c \/ t[d].current
          BY <2>6, <4>3, OthersLeave
        <5> QED BY <2>1, <2>f, <4>1, <4>2, <4>3, <5>1, OthersHold
      <4>4. CASE d = e
        <5>1. Step(e)
          BY <2>6, <3>b, <4>4
        <5>2. t[e].request = "fresh" /\ (Holds(e, w) \/ t[e].pc \in Ahead)
          <6>1. CASE e = c \/ t[e].current
            BY <2>1, <4>1, <4>2, <4>4, <6>1
          <6>2. CASE Lookup(e)
            BY <6>2 DEF Lookup, At, OwnInv, Own, Ahead
          <6>3. CASE SaveIndexes(e)
            <7>1. t'[e] = [t[e] EXCEPT !.pc = "save manifest", !.wrote = source]
                  /\ DOMAIN t[e] = Fields
              BY <6>3, SearchRows DEF Types, ThreadTypes, Typed
            <7>2. t'[e].current = t[e].current
              BY <7>1 DEF Fields
            <7> QED BY <2>6, <4>4, <6>1, <7>2
          <6>4. CASE t'[e] = Idle
            BY <2>6, <4>4, <6>1, <6>4 DEF Idle
          <6>5. CASE StartAgain(e)
            <7>1. t'[e] = Starting /\ Starting.current = FALSE
              BY <6>5, SearchRows DEF Types, Starting, Idle
            <7>2. e # c
              BY <2>6, <7>1, StartingOwn
            <7> QED BY <2>6, <4>4, <7>1, <7>2
          <6> QED BY <2>6, <4>4, <5>1, <6>1, <6>2, <6>3, <6>4, <6>5, GoesOn
        <5> QED BY <2>f, <4>1, <4>4, <5>1, <5>2, OwnHolds
      <4> QED BY <4>3, <4>4
    <3> QED BY <2>1, <2>6, <3>1, <3>2
  <2> QED BY <2>3, <2>4, <2>5, <2>6 DEF Refreshed
<1> QED BY <1>1, <1>2

LEMMA SelfOutside ==
  ASSUME Types, CurrentInv, SelfInv, Outside PROVE SelfInv'
<1> SUFFICES ASSUME NEW c \in Threads, NEW w \in Nat \ {0}, t'[c].request = "fresh", t'[c].wrote = w
             PROVE  Refreshed(c, w)'
  BY DEF SelfInv
<1>n. source \in Nat /\ DOMAIN file = Keys /\ DirKeys \subseteq Keys
  BY Numbers DEF Types, DiskTypes, Keys
<1>u. UNCHANGED indexes /\ UNCHANGED completed
  BY OutsideQuiet
<1>1. ASSUME NEW d \in Threads
      PROVE  /\ t'[d].pc = t[d].pc /\ t'[d].request = t[d].request /\ t'[d].wrote = t[d].wrote
             /\ t'[d].got = t[d].got /\ t'[d].mine = t[d].mine
             /\ t'[d].current = t[d].current /\ t'[d].print = t[d].print
  <2>1. DOMAIN t[d] = Fields
    BY DEF Types, ThreadTypes, Typed
  <2>2. t'[d] = t[d] \/ \E since : t'[d] = [t[d] EXCEPT !.since = since]
    BY DEF Outside, Edit, OtherProcess, Delete, Lowered
  <2> QED BY <2>1, <2>2 DEF Fields
<1>2. Refreshed(c, w)
  BY <1>1 DEF SelfInv
<1>3. ASSUME NEW k \in DirKeys PROVE file'[k] = 0 \/ file'[k] >= w
  <2>1. w <= source /\ (file[k] = 0 \/ file[k] >= w)
    BY <1>1, <1>2 DEF CurrentInv, Fresh, Refreshed
  <2>2. file'[k] = file[k] \/ file'[k] = source \/ file'[k] = 0
    BY <1>n DEF Outside, Edit, OtherProcess, DirSavedAs, Delete
  <2> QED BY <1>n, <2>1, <2>2
<1>4. ASSUME NEW entry, AsNew(entry, w) PROVE AsNew(entry, w)'
  BY <1>1, <1>4 DEF AsNew
<1>5. ASSUME NEW k \in DirKeys, AsNew(indexes[k], w) PROVE AsNew(indexes[k], w)'
  BY <1>u, <1>4, <1>5 DEF AsNew
<1>6. ASSUME NEW d \in Threads, Holds(d, w) PROVE Holds(d, w)'
  <2>1. AsNew(t[d].mine, w)'
    BY <1>1, <1>4, <1>6 DEF AsNew, Holds
  <2> QED BY <1>1, <1>6, <2>1 DEF Holds
<1> QED BY <1>u, <1>1, <1>2, <1>3, <1>5, <1>6 DEF Refreshed

LEMMA SelfAlways ==
  ASSUME Types, WaitInv, CurrentInv, OwnInv, SelfInv,
         UpdateKeys \cap DirKeys = {}, DirKeys # {}, [Next]_vars
  PROVE  OwnInv' /\ SelfInv'
<1>1. CASE UNCHANGED vars
  <2>1. UNCHANGED <<source, file, indexes, completed, t>>
    BY <1>1, MemoryParts DEF vars
  <2>2. OwnInv'
    BY <2>1 DEF OwnInv, IsReady
  <2>3. SelfInv'
    BY <2>1 DEF SelfInv, Refreshed, AsNew, Holds
  <2> QED BY <2>2, <2>3
<1> QED BY <1>1, OwnStep, OwnOutside, SelfStep, SelfOutside, NextSteps

LEMMA SelfFirst == ASSUME Init PROVE OwnInv /\ SelfInv
<1>1. \A c \in Threads : t[c] = Idle \/ t[c] = Starting
  BY FirstThreads
<1>2. source # 0 /\ \A k \in Keys : ~IsReady(k)
  BY StateOfEntries DEF Init, IsReady
<1>3. Idle.request = "none"
  BY DEF Idle, None
<1> QED BY <1>1, <1>2, <1>3, IdleOwn, StartingOwn DEF OwnInv, SelfInv

(* Where no index of the directory is also refreshed by itself             *)
(* (refresh_index), a request with refresh_if_stale that refreshed the     *)
(* directory is answered from indexes at least as new as those it wrote,   *)
(* however loads, evictions, failures, stored answers and the requests of  *)
(* other threads overlap (refresh_shards_if_stale, clear_runtime_caches,   *)
(* search_shards_cached).                                                  *)
THEOREM RefreshedAnswers ==
  ASSUME UpdateKeys \cap DirKeys = {}, DirKeys # {}
  PROVE  Spec => []SelfRefreshed
<1> DEFINE Inv == Types /\ WaitInv /\ CurrentInv /\ OwnInv /\ SelfInv
<1>1. Init => Inv
  BY TypesInit, WaitInit, CurrentFirst, SelfFirst
<1>2. Inv /\ [Next]_vars => Inv'
  BY TypesStep, WaitAlways, CurrentAlways, SelfAlways
<1>3. Inv => SelfRefreshed
  <2> SUFFICES ASSUME Types, OwnInv, SelfInv, NEW c \in Threads,
                      At(c, "answered"), t[c].request = "fresh"
               PROVE  t[c].got >= t[c].wrote
    BY DEF SelfRefreshed
  <2>1. t[c].got \in Nat /\ t[c].wrote \in Nat /\ t[c].got # 0
    BY Numbers DEF OwnInv, Own, At
  <2>2. CASE t[c].wrote # 0
    <3>1. Refreshed(c, t[c].wrote)
      BY <2>1, <2>2 DEF SelfInv
    <3>2. Holds(c, t[c].wrote)
      BY <3>1 DEF Refreshed, Searching, At
    <3> QED BY <2>1, <3>2 DEF Holds
  <2> QED BY <2>1, <2>2
<1> QED BY <1>1, <1>2, <1>3, PTL DEF Spec
=============================================================================
