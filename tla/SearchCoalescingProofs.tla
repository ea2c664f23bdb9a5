----------------------- MODULE SearchCoalescingProofs -----------------------
(***************************************************************************)
(* Searches and refreshes of a daemon, for every number of clients,        *)
(* refreshes and limits.  How new answers are: whoever asks after a        *)
(* refresh_shards returned is answered from what it wrote, although old    *)
(* searches finish, share and store their results at any moment.  The      *)
(* epoch in the key is what makes it so: a refresh_index, which moves no   *)
(* epoch, may run at any time too, but promises nothing.  Who shares what: *)
(* an entry is in the in-flight map exactly while its search runs, and     *)
(* nobody gets fewer results than asked for.                               *)
(***************************************************************************)
EXTENDS SearchCoalescing, FiniteSetTheorems, TLAPS

Active(c) == pc[c] # "idle"
IsOk(a) == a.status = "ok"

LEMMA TypingStep == TypeOK /\ [Next]_vars => TypeOK'
<1> SUFFICES ASSUME TypeOK, [Next]_vars PROVE TypeOK'
  OBVIOUS
<1> USE CoalescingAssumption DEF TypeOK, Keys, Answers, Pending, Failure, Found, Goto
<1>1. ASSUME NEW c \in Clients, NEW limit \in Limits, Begin(c, limit) PROVE TypeOK'
  BY <1>1 DEF Begin
<1>2. ASSUME NEW c \in Clients, Hit(c) PROVE TypeOK'
  <2>1. PICK e \in Serving(c) :
               /\ Goto(c, "lookup", "answered")
               /\ answer' = [answer EXCEPT ![c] = Found(e.version, e.key.limit)]
               /\ UNCHANGED <<version, promised, epoch, completed, inflight, key,
                              leader, since, refresh>>
    BY <1>2 DEF Hit
  <2>2. e \in [key : Keys, version : Nat]
    BY <2>1 DEF Serving
  <2>3. Found(e.version, e.key.limit) \in Answers
    BY <2>2
  <2> QED BY <2>1, <2>3
<1>3. ASSUME NEW c \in Clients, Miss(c) PROVE TypeOK'
  BY <1>3 DEF Miss
<1>4. ASSUME NEW c \in Clients, Follow(c) PROVE TypeOK'
  <2>1. PICK e \in Running(key[c]) :
               /\ Goto(c, "join", "joined")
               /\ leader' = [leader EXCEPT ![c] = e.leader]
               /\ answer' = [answer EXCEPT ![c] = e.answer]
               /\ UNCHANGED <<version, promised, epoch, completed, inflight, key,
                              since, refresh>>
    BY <1>4 DEF Follow
  <2>2. e \in [key : Keys, leader : Clients, answer : Answers]
    BY <2>1 DEF Running
  <2> QED BY <2>1, <2>2
<1>5. ASSUME NEW c \in Clients, Lead(c) PROVE TypeOK'
  BY <1>5 DEF Lead
<1>6. ASSUME NEW c \in Clients, Wait(c) PROVE TypeOK'
  BY <1>6 DEF Wait
<1>7. ASSUME NEW c \in Clients, Compute(c) PROVE TypeOK'
  BY <1>7 DEF Compute
<1>8. ASSUME NEW c \in Clients, Finish(c) PROVE TypeOK'
  <2>1. ASSUME NEW e \in inflight
        PROVE  [e EXCEPT !.answer = answer[c]]
                 \in [key : Keys, leader : Clients, answer : Answers]
    <3>1. e \in [key : Keys, leader : Clients, answer : Answers]
      OBVIOUS
    <3>2. answer[c] \in Answers
      OBVIOUS
    <3> HIDE DEF TypeOK, Keys, Answers
    <3> QED BY <3>1, <3>2
  <2>2. inflight' \subseteq [key : Keys, leader : Clients, answer : Answers]
    BY <1>8, <2>1 DEF Finish
  <2>3. answer' \in [Clients -> Answers]
    BY <1>8 DEF Finish
  <2>4. pc' \in [Clients -> {"idle", "lookup", "join", "joined", "asleep", "compute",
                             "finish", "store", "remove", "answered"}]
    BY <1>8 DEF Finish
  <2> QED BY <1>8, <2>2, <2>3, <2>4 DEF Finish
<1>9. ASSUME NEW c \in Clients, Store(c) PROVE TypeOK'
  <2> DEFINE new == [key |-> key[c], version |-> answer[c].version]
             cache == {e \in completed : e.key # key[c]} \cup {new}
  <2>1. completed' \in Evicted(cache)
    BY <1>9 DEF Store
  <2>2. IsFiniteSet({e \in completed : e.key # key[c]})
    BY FS_Subset
  <2>3. IsFiniteSet(cache)
    BY <2>2, FS_AddElement
  <2>4. Cardinality(cache) \in Nat
    BY <2>3, FS_CardinalityType
  <2>5. completed' \subseteq cache /\ Cardinality(completed') <= MaxCompleted
    BY <2>1, <2>4 DEF Evicted
  <2>6. IsFiniteSet(completed')
    BY <2>3, <2>5, FS_Subset
  <2>7. cache \subseteq [key : Keys, version : Nat]
    OBVIOUS
  <2> QED BY <1>9, <2>5, <2>6, <2>7 DEF Store
<1>10. ASSUME NEW c \in Clients, Remove(c) PROVE TypeOK'
  BY <1>10 DEF Remove, Removed
<1>11. ASSUME NEW c \in Clients, Return(c) PROVE TypeOK'
  BY <1>11 DEF Return
<1>12. ASSUME NEW w \in Refreshers, NEW tool \in Tools, Write(w, tool) PROVE TypeOK'
  BY <1>12 DEF Write, client
<1>13. ASSUME NEW w \in Refreshers, Clear(w) \/ Retain(w) PROVE TypeOK'
  <2>1. IsFiniteSet({}) /\ Cardinality({}) = 0
    BY FS_EmptySet
  <2>2. completed' = {}
    BY <1>13 DEF Clear, Retain
  <2>3. IsFiniteSet(completed') /\ Cardinality(completed') <= MaxCompleted
    BY <2>1, <2>2
  <2>4. promised' \in Nat
    BY <1>13 DEF Clear, Retain, Promised
  <2>5. refresh' \in [Refreshers -> [step : {"idle", "bump"} \cup Tools, wrote : Nat]]
    <3>1. CASE Clear(w)
      BY <3>1 DEF Clear
    <3>2. CASE Retain(w)
      BY <3>2 DEF Retain
    <3> QED BY <1>13, <3>1, <3>2
  <2>6. UNCHANGED <<version, epoch, inflight, client>>
    BY <1>13 DEF Clear, Retain
  <2> QED BY <2>2, <2>3, <2>4, <2>5, <2>6 DEF client
<1>14. ASSUME NEW w \in Refreshers, Bump(w) PROVE TypeOK'
  BY <1>14 DEF Bump, Promised, NextEpoch, client
<1>15. CASE UNCHANGED vars
  BY <1>15 DEF vars, client
<1> QED BY <1>1, <1>2, <1>3, <1>4, <1>5, <1>6, <1>7, <1>8, <1>9, <1>10, <1>11, <1>12,
           <1>13, <1>14, <1>15 DEF Next, Searching

LEMMA TypingInit == Init => TypeOK
<1> SUFFICES ASSUME Init PROVE TypeOK
  OBVIOUS
<1>1. IsFiniteSet({}) /\ Cardinality({}) = 0
  BY FS_EmptySet
<1>2. IsFiniteSet(completed) /\ Cardinality(completed) <= MaxCompleted
  BY <1>1, CoalescingAssumption DEF Init
<1> QED BY <1>2 DEF Init, TypeOK, Keys, Answers, Pending

(* The cache of completed searches stays within its limit and everything   *)
(* has its type (store_completed_shard_search and its eviction).           *)
THEOREM Typing == Spec => []TypeOK
  BY TypingInit, TypingStep, PTL DEF Spec

-----------------------------------------------------------------------------
(* The invariant behind FreshAnswers.  `promised` only grows when the      *)
(* epoch does, so all requests of one epoch were promised the same, and    *)
(* everything kept under a key is as new as the requests of its epoch ask. *)

VersionsGrow ==
  /\ promised <= version
  /\ \A w \in Refreshers : refresh[w].wrote <= version
  /\ \A c \in Clients : since[c] <= promised

EpochsPast ==
  /\ \A c \in Clients : Active(c) => key[c].epoch <= epoch
  /\ \A e \in completed : e.key.epoch <= epoch
  /\ \A e \in inflight : e.key.epoch <= epoch

(* What v is worth to the requests of an epoch, those to come included.    *)
Covers(v, ep) ==
  /\ ep = epoch => promised <= v
  /\ \A c \in Clients : Active(c) /\ key[c].epoch = ep => since[c] <= v

OneEpochOnePromise ==
  \A c \in Clients : Active(c) =>
    /\ key[c].epoch = epoch => since[c] = promised
    /\ \A d \in Clients : Active(d) /\ key[d].epoch = key[c].epoch => since[d] = since[c]

KeptIsFresh ==
  /\ \A e \in completed : Covers(e.version, e.key.epoch)
  /\ \A e \in inflight : IsOk(e.answer) => Covers(e.answer.version, e.key.epoch)
  /\ \A c \in Clients : Active(c) /\ IsOk(answer[c]) => Covers(answer[c].version, key[c].epoch)

EntriesLed ==
  \A e \in inflight : key[e.leader] = e.key /\ pc[e.leader] \in {"compute", "finish", "store", "remove"}

AnswersInPlace ==
  \A c \in Clients : (pc[c] = "idle" => ~IsOk(answer[c])) /\ (pc[c] = "store" => IsOk(answer[c]))

FreshInv ==
  /\ TypeOK /\ VersionsGrow /\ EpochsPast /\ OneEpochOnePromise
  /\ KeptIsFresh /\ EntriesLed /\ AnswersInPlace

LEMMA FreshInvInit == Init => FreshInv
  BY TypingInit
  DEF Init, FreshInv, VersionsGrow, EpochsPast, OneEpochOnePromise, KeptIsFresh,
      EntriesLed, AnswersInPlace, Active, Covers, IsOk, Pending
(* Steps of a request that is already under way leave every promise alone. *)
SameRequests ==
  /\ UNCHANGED <<version, promised, epoch, key, since, refresh>>
  /\ \A c \in Clients : Active(c)' <=> Active(c)

LEMMA PromisesKept ==
  ASSUME TypeOK, TypeOK', VersionsGrow, OneEpochOnePromise, SameRequests
  PROVE  /\ VersionsGrow' /\ OneEpochOnePromise'
         /\ \A v, ep \in Nat : Covers(v, ep) => Covers(v, ep)'
<1>1. VersionsGrow'
  BY DEF VersionsGrow, SameRequests
<1>2. OneEpochOnePromise'
  BY DEF OneEpochOnePromise, SameRequests
<1>3. \A v, ep \in Nat : Covers(v, ep) => Covers(v, ep)'
  BY DEF Covers, SameRequests
<1> QED BY <1>1, <1>2, <1>3

(* Steps that change what is kept, not who asks.                           *)
LEMMA RequestStep ==
  ASSUME FreshInv, TypeOK', NEW c \in Clients,
         Hit(c) \/ Miss(c) \/ Follow(c) \/ Lead(c) \/ Wait(c)
  PROVE  FreshInv'
<1> USE DEF FreshInv
<1>0. SameRequests
  BY DEF SameRequests, Hit, Miss, Follow, Lead, Wait, Goto, Active, TypeOK
<1>1. /\ VersionsGrow' /\ OneEpochOnePromise'
      /\ \A v, ep \in Nat : Covers(v, ep) => Covers(v, ep)'
  BY <1>0, PromisesKept
<1>2. completed' = completed
  BY DEF Hit, Miss, Follow, Lead, Wait
<1>3. \A e \in inflight' : e \in inflight \/ (e.answer = Pending /\ e.key = key[c])
  BY DEF Hit, Miss, Follow, Lead, Wait
<1>4. pc[c] \in {"lookup", "join", "joined"}
  BY DEF Hit, Miss, Follow, Lead, Wait, Goto
<1>5. EpochsPast'
  BY <1>0, <1>2, <1>3, <1>4 DEF EpochsPast, SameRequests, Active
<1>6. EntriesLed'
  <2>1. CASE Lead(c)
    BY <2>1, <1>4 DEF Lead, Goto, EntriesLed, TypeOK
  <2>2. CASE ~Lead(c)
    <3>1. inflight' = inflight /\ key' = key
      BY <2>2 DEF Hit, Miss, Follow, Wait
    <3>2. \A d \in Clients : d # c => pc'[d] = pc[d]
      BY <2>2 DEF Hit, Miss, Follow, Wait, Goto, TypeOK
    <3> QED BY <3>1, <3>2, <1>4 DEF EntriesLed, TypeOK
  <2> QED BY <2>1, <2>2
<1>7. AnswersInPlace'
  BY <1>4 DEF AnswersInPlace, Hit, Miss, Follow, Lead, Wait, Goto, TypeOK, IsOk, Found, Running
<1>8. KeptIsFresh'
  <2>1. \A e \in completed' : Covers(e.version, e.key.epoch)'
    BY <1>1, <1>2 DEF KeptIsFresh, TypeOK, Keys
  <2>2. \A e \in inflight' : IsOk(e.answer) => Covers(e.answer.version, e.key.epoch)'
    BY <1>1, <1>3 DEF KeptIsFresh, TypeOK, Keys, Answers, IsOk, Pending
  <2>3. ASSUME NEW d \in Clients, Active(d)', IsOk(answer'[d])
        PROVE  Covers(answer'[d].version, key'[d].epoch)
    <3>1. Active(d) /\ key'[d] = key[d]
      BY <1>0, <2>3 DEF SameRequests
    <3>2. CASE answer'[d] = answer[d]
      BY <2>3, <3>1, <3>2 DEF KeptIsFresh
    <3>3. CASE d = c /\ Hit(c)
      <4>1. PICK e \in Serving(c) : answer' = [answer EXCEPT ![c] = Found(e.version, e.key.limit)]
        BY <3>3 DEF Hit
      <4>2. e \in completed /\ e.key.epoch = key[c].epoch
        BY <4>1 DEF Serving, CanServe
      <4>3. answer'[d].version = e.version
        BY <4>1, <3>3 DEF Found, TypeOK
      <4> QED BY <4>2, <4>3, <3>1, <3>3 DEF KeptIsFresh
    <3>4. CASE d = c /\ Follow(c)
      <4>1. PICK e \in Running(key[c]) : answer' = [answer EXCEPT ![c] = e.answer]
        BY <3>4 DEF Follow
      <4>2. e \in inflight /\ e.key = key[c]
        BY <4>1 DEF Running
      <4>3. answer'[d] = e.answer
        BY <4>1, <3>4 DEF TypeOK
      <4> QED BY <2>3, <4>2, <4>3, <3>1, <3>4 DEF KeptIsFresh
    <3>5. answer'[d] = answer[d] \/ (d = c /\ (Hit(c) \/ Follow(c)))
      BY DEF Hit, Miss, Follow, Lead, Wait, TypeOK
    <3> QED BY <3>2, <3>3, <3>4, <3>5
  <2>4. ASSUME NEW d \in Clients, Active(d)', IsOk(answer'[d])
        PROVE  Covers(answer[d].version, key[d].epoch)'
    <3>1. answer'[d].version \in Nat /\ key'[d].epoch \in Nat
      BY DEF TypeOK, Keys, Answers
    <3> QED BY <1>0, <2>3, <2>4, <3>1 DEF Covers, SameRequests
  <2> QED BY <2>1, <2>2, <2>4 DEF KeptIsFresh
<1> QED BY <1>1, <1>5, <1>6, <1>7, <1>8
(* The leader's steps: its result is as new as the moment it read the      *)
(* directory, which is after every promise made to a request of its epoch. *)
LEMMA ComputeStep ==
  ASSUME FreshInv, TypeOK', NEW c \in Clients, Compute(c)
  PROVE  FreshInv'
<1> USE DEF FreshInv
<1>0. SameRequests
  BY DEF SameRequests, Compute, Goto, Active, TypeOK
<1>1. /\ VersionsGrow' /\ OneEpochOnePromise'
      /\ \A v, ep \in Nat : Covers(v, ep) => Covers(v, ep)'
  BY <1>0, PromisesKept
<1>2. completed' = completed /\ inflight' = inflight /\ pc[c] = "compute" /\ pc'[c] = "finish"
  BY DEF Compute, Goto, TypeOK
<1>3. \A d \in Clients : d # c => answer'[d] = answer[d] /\ pc'[d] = pc[d]
  BY DEF Compute, Goto, TypeOK
<1>4. EpochsPast'
  BY <1>0, <1>2 DEF EpochsPast, SameRequests
<1>5. EntriesLed'
  BY <1>0, <1>2, <1>3 DEF EntriesLed, SameRequests, TypeOK
<1>6. AnswersInPlace'
  BY <1>2, <1>3 DEF AnswersInPlace, TypeOK
<1>7. KeptIsFresh'
  <2>1. \A e \in completed' : Covers(e.version, e.key.epoch)'
    BY <1>1, <1>2 DEF KeptIsFresh, TypeOK, Keys
  <2>2. \A e \in inflight' : IsOk(e.answer) => Covers(e.answer.version, e.key.epoch)'
    BY <1>1, <1>2 DEF KeptIsFresh, TypeOK, Keys, Answers
  <2>3. ASSUME NEW d \in Clients, Active(d)', IsOk(answer'[d])
        PROVE  Covers(answer[d].version, key[d].epoch)'
    <3>1. CASE d # c
      BY <1>0, <1>3, <2>3, <3>1 DEF KeptIsFresh, Covers, SameRequests, TypeOK, Keys, Answers
    <3>2. CASE d = c
      <4>1. answer'[c].version = version
        BY <2>3, <3>2 DEF Compute, Found, Failure, IsOk, TypeOK
      <4>2. promised <= version /\ \A x \in Clients : since[x] <= version
        BY DEF VersionsGrow, TypeOK
      <4> QED BY <1>0, <3>2, <4>1, <4>2 DEF Covers, SameRequests
    <3> QED BY <3>1, <3>2
  <2> QED BY <2>1, <2>2, <2>3 DEF KeptIsFresh
<1> QED BY <1>1, <1>4, <1>5, <1>6, <1>7

LEMMA FinishStep ==
  ASSUME FreshInv, TypeOK', NEW c \in Clients, Finish(c)
  PROVE  FreshInv'
<1> USE DEF FreshInv
<1>0. SameRequests
  BY DEF SameRequests, Finish, Active, Notified, TypeOK
<1>1. /\ VersionsGrow' /\ OneEpochOnePromise'
      /\ \A v, ep \in Nat : Covers(v, ep) => Covers(v, ep)'
  BY <1>0, PromisesKept
<1>2. completed' = completed /\ pc[c] = "finish"
  BY DEF Finish
<1>3. ASSUME NEW e \in inflight'
      PROVE  \E old \in inflight :
               /\ e.key = old.key /\ e.leader = old.leader
               /\ e.answer = IF old.leader = c THEN answer[c] ELSE old.answer
  BY DEF Finish, TypeOK
<1>4. EpochsPast'
  BY <1>0, <1>2, <1>3 DEF EpochsPast, SameRequests
<1>5. EntriesLed'
  <2>1. ASSUME NEW d \in Clients, pc[d] \in {"compute", "finish", "store", "remove"}
        PROVE  pc'[d] \in {"compute", "finish", "store", "remove"}
    BY <2>1 DEF Finish, Notified, TypeOK
  <2> QED BY <1>0, <1>3, <2>1 DEF EntriesLed, SameRequests, TypeOK
<1>6. AnswersInPlace'
  <2>1. ASSUME NEW d \in Clients
        PROVE  (pc'[d] = "idle" => ~IsOk(answer'[d])) /\ (pc'[d] = "store" => IsOk(answer'[d]))
    <3>1. CASE d = c
      BY <3>1, <1>2 DEF Finish, Followers, IsOk, TypeOK
    <3>2. CASE d # c /\ d \notin Followers(c)
      <4>1. pc'[d] = pc[d] /\ answer'[d] = answer[d]
        BY <3>2 DEF Finish, Notified, TypeOK
      <4> QED BY <4>1 DEF AnswersInPlace, IsOk
    <3>3. CASE d # c /\ d \in Followers(c)
      <4>1. pc[d] \in {"joined", "asleep"}
        BY <3>3 DEF Followers
      <4>2. pc'[d] = pc[d] \/ pc'[d] = "answered"
        BY <3>3 DEF Finish, TypeOK
      <4> QED BY <4>1, <4>2
    <3> QED BY <3>1, <3>2, <3>3
  <2> QED BY <2>1 DEF AnswersInPlace
<1>7. KeptIsFresh'
  <2>0. IsOk(answer[c]) => Covers(answer[c].version, key[c].epoch)
    BY <1>2 DEF KeptIsFresh, Active
  <2>1. \A e \in completed' : Covers(e.version, e.key.epoch)'
    BY <1>1, <1>2 DEF KeptIsFresh, TypeOK, Keys
  <2>2. ASSUME NEW e \in inflight', IsOk(e.answer)
        PROVE  Covers(e.answer.version, e.key.epoch)
    <3>1. PICK old \in inflight :
             /\ e.key = old.key /\ e.leader = old.leader
             /\ e.answer = IF old.leader = c THEN answer[c] ELSE old.answer
      BY <1>3
    <3>2. old.leader = c => old.key = key[c]
      BY DEF EntriesLed
    <3> QED BY <2>0, <2>2, <3>1, <3>2 DEF KeptIsFresh
  <2>3. \A e \in inflight' : IsOk(e.answer) => Covers(e.answer.version, e.key.epoch)'
    BY <1>1, <2>2 DEF TypeOK, Keys, Answers
  <2>4. ASSUME NEW d \in Clients, Active(d)', IsOk(answer'[d])
        PROVE  Covers(answer[d].version, key[d].epoch)'
    <3>1. answer'[d] = answer[d] \/ (d \in Followers(c) /\ answer'[d] = answer[c])
      BY DEF Finish, TypeOK
    <3>2. Covers(answer'[d].version, key[d].epoch)
      <4>1. CASE answer'[d] = answer[d]
        BY <1>0, <2>4, <4>1 DEF KeptIsFresh, SameRequests
      <4>2. CASE d \in Followers(c) /\ answer'[d] = answer[c]
        BY <2>0, <2>4, <4>2 DEF Followers
      <4> QED BY <3>1, <4>1, <4>2
    <3> QED BY <1>0, <3>2 DEF Covers, SameRequests
  <2> QED BY <2>1, <2>3, <2>4 DEF KeptIsFresh
<1> QED BY <1>1, <1>4, <1>5, <1>6, <1>7

(* A result is stored under the leader's key, whose epoch it is fit for,   *)
(* however late that is: for a past epoch nobody new will ask.             *)
LEMMA StoreStep ==
  ASSUME FreshInv, TypeOK', NEW c \in Clients, Store(c) \/ Remove(c)
  PROVE  FreshInv'
<1> USE DEF FreshInv
<1>0. SameRequests
  BY DEF SameRequests, Store, Remove, Goto, Active, TypeOK
<1>1. /\ VersionsGrow' /\ OneEpochOnePromise'
      /\ \A v, ep \in Nat : Covers(v, ep) => Covers(v, ep)'
  BY <1>0, PromisesKept
<1>2. answer' = answer /\ inflight' \subseteq inflight /\ pc[c] \in {"store", "remove"}
  BY DEF Store, Remove, Removed, Goto
<1>3. \A e \in completed' : \/ e \in completed
                            \/ /\ Store(c)
                               /\ e = [key |-> key[c], version |-> answer[c].version]
  BY DEF Store, Remove, Evicted
<1>4. EpochsPast'
  BY <1>0, <1>2, <1>3 DEF EpochsPast, SameRequests, Active
<1>5. EntriesLed'
  <2>1. CASE Store(c)
    BY <1>0, <2>1 DEF Store, Goto, EntriesLed, SameRequests, TypeOK
  <2>2. CASE Remove(c)
    BY <1>0, <2>2 DEF Remove, Removed, Goto, EntriesLed, SameRequests, TypeOK
  <2> QED BY <2>1, <2>2
<1>6. AnswersInPlace'
  BY <1>2 DEF AnswersInPlace, Store, Remove, Goto, TypeOK
<1>7. KeptIsFresh'
  <2>1. ASSUME NEW e \in completed' PROVE Covers(e.version, e.key.epoch)
    <3>1. CASE e \in completed
      BY <3>1 DEF KeptIsFresh
    <3>2. CASE Store(c) /\ e = [key |-> key[c], version |-> answer[c].version]
      <4>1. pc[c] = "store"
        BY <3>2 DEF Store, Goto
      <4>2. Covers(answer[c].version, key[c].epoch)
        BY <4>1 DEF AnswersInPlace, KeptIsFresh, Active
      <4> QED BY <3>2, <4>2
    <3> QED BY <1>3, <3>1, <3>2
  <2>2. \A e \in completed' : Covers(e.version, e.key.epoch)'
    BY <1>1, <2>1 DEF TypeOK, Keys
  <2>3. \A e \in inflight' : IsOk(e.answer) => Covers(e.answer.version, e.key.epoch)'
    BY <1>1, <1>2 DEF KeptIsFresh, TypeOK, Keys, Answers
  <2>4. ASSUME NEW d \in Clients, Active(d)', IsOk(answer'[d])
        PROVE  Covers(answer[d].version, key[d].epoch)'
    BY <1>0, <1>2, <2>4 DEF KeptIsFresh, Covers, SameRequests, TypeOK, Keys, Answers
  <2> QED BY <2>2, <2>3, <2>4 DEF KeptIsFresh
<1> QED BY <1>1, <1>4, <1>5, <1>6, <1>7
LEMMA BeginStep ==
  ASSUME FreshInv, TypeOK', NEW c \in Clients, NEW limit \in Limits, Begin(c, limit)
  PROVE  FreshInv'
<1> USE DEF FreshInv
<1>1. /\ pc[c] = "idle" /\ pc'[c] = "lookup" /\ since'[c] = promised
      /\ key'[c].epoch = epoch /\ answer'[c] = answer[c]
  BY DEF Begin, Goto, TypeOK
<1>2. \A d \in Clients : d # c => /\ pc'[d] = pc[d] /\ since'[d] = since[d]
                                  /\ key'[d] = key[d] /\ answer'[d] = answer[d]
  BY DEF Begin, Goto, TypeOK
<1>3. UNCHANGED <<version, promised, epoch, completed, inflight, refresh>>
  BY DEF Begin
<1>4. VersionsGrow'
  BY <1>1, <1>2, <1>3 DEF VersionsGrow, TypeOK
<1>5. EpochsPast'
  BY <1>1, <1>2, <1>3 DEF EpochsPast, Active, TypeOK
<1>6. OneEpochOnePromise'
  BY <1>1, <1>2, <1>3 DEF OneEpochOnePromise, Active
<1>7. EntriesLed'
  BY <1>1, <1>2, <1>3 DEF EntriesLed, TypeOK
<1>8. AnswersInPlace'
  BY <1>1, <1>2 DEF AnswersInPlace, IsOk
<1>9. \A v, ep \in Nat : Covers(v, ep) => Covers(v, ep)'
  BY <1>1, <1>2, <1>3 DEF Covers, Active
<1>10. KeptIsFresh'
  <2>1. \A e \in completed' : Covers(e.version, e.key.epoch)'
    BY <1>3, <1>9 DEF KeptIsFresh, TypeOK, Keys
  <2>2. \A e \in inflight' : IsOk(e.answer) => Covers(e.answer.version, e.key.epoch)'
    BY <1>3, <1>9 DEF KeptIsFresh, TypeOK, Keys, Answers
  <2>3. ASSUME NEW d \in Clients, Active(d)', IsOk(answer'[d])
        PROVE  Covers(answer[d].version, key[d].epoch)'
    <3>1. d # c
      BY <1>1, <2>3 DEF AnswersInPlace, IsOk
    <3>2. Active(d) /\ Covers(answer[d].version, key[d].epoch)
      BY <1>2, <2>3, <3>1 DEF KeptIsFresh, Active
    <3>3. answer[d].version \in Nat /\ key[d].epoch \in Nat
      BY DEF TypeOK, Keys, Answers
    <3> QED BY <1>1, <1>2, <1>3, <3>1, <3>2, <3>3 DEF Covers, Active
  <2> QED BY <2>1, <2>2, <2>3 DEF KeptIsFresh
<1> QED BY <1>4, <1>5, <1>6, <1>7, <1>8, <1>10

LEMMA ReturnStep ==
  ASSUME FreshInv, TypeOK', NEW c \in Clients, Return(c)
  PROVE  FreshInv'
<1> USE DEF FreshInv
<1>1. pc[c] = "answered" /\ pc'[c] = "idle" /\ since'[c] = 0 /\ answer'[c] = Pending
  BY DEF Return, Goto, TypeOK
<1>2. \A d \in Clients : d # c => /\ pc'[d] = pc[d] /\ since'[d] = since[d]
                                  /\ key'[d] = key[d] /\ answer'[d] = answer[d]
  BY DEF Return, Goto, TypeOK
<1>3. UNCHANGED <<version, promised, epoch, completed, inflight, refresh>>
  BY DEF Return
<1>4. VersionsGrow'
  BY <1>1, <1>2, <1>3 DEF VersionsGrow, TypeOK
<1>5. EpochsPast'
  BY <1>1, <1>2, <1>3 DEF EpochsPast, Active
<1>6. OneEpochOnePromise'
  BY <1>1, <1>2, <1>3 DEF OneEpochOnePromise, Active
<1>7. EntriesLed'
  BY <1>1, <1>2, <1>3 DEF EntriesLed, TypeOK
<1>8. AnswersInPlace'
  BY <1>1, <1>2 DEF AnswersInPlace, IsOk, Pending
<1>9. \A v, ep \in Nat : Covers(v, ep) => Covers(v, ep)'
  BY <1>1, <1>2, <1>3 DEF Covers, Active
<1>10. KeptIsFresh'
  <2>1. \A e \in completed' : Covers(e.version, e.key.epoch)'
    BY <1>3, <1>9 DEF KeptIsFresh, TypeOK, Keys
  <2>2. \A e \in inflight' : IsOk(e.answer) => Covers(e.answer.version, e.key.epoch)'
    BY <1>3, <1>9 DEF KeptIsFresh, TypeOK, Keys, Answers
  <2>3. ASSUME NEW d \in Clients, Active(d)', IsOk(answer'[d])
        PROVE  Covers(answer[d].version, key[d].epoch)'
    <3>1. d # c
      BY <1>1, <2>3 DEF Active
    <3>2. Active(d) /\ Covers(answer[d].version, key[d].epoch)
      BY <1>2, <2>3, <3>1 DEF KeptIsFresh, Active
    <3> QED BY <1>1, <1>2, <1>3, <3>1, <3>2 DEF Covers, Active
  <2> QED BY <2>1, <2>2, <2>3 DEF KeptIsFresh
<1> QED BY <1>4, <1>5, <1>6, <1>7, <1>8, <1>10

(* Only a refresh of the whole directory promises that no cache is stale.  *)
DirectoriesAnnounce == Announcing \subseteq {"refresh_shards"}

(* The refresh: what it wrote is promised in the step that moves the       *)
(* epoch, and nothing is kept under the new epoch yet.                     *)
LEMMA RefreshStep ==
  ASSUME FreshInv, TypeOK', NEW w \in Refreshers,
         DirectoriesAnnounce,
         (\E tool \in Tools : Write(w, tool)) \/ Clear(w) \/ Bump(w) \/ Retain(w)
  PROVE  FreshInv'
<1> USE DEF FreshInv
<1>1. UNCHANGED <<client, inflight>> /\ completed' \subseteq completed
  BY DEF Write, Clear, Bump, Retain
<1>2. UNCHANGED <<pc, key, answer, leader, since>>
  BY <1>1 DEF client
<1>3. version' >= version /\ promised' >= promised
  BY DEF Write, Clear, Bump, Retain, Promised, TypeOK, VersionsGrow
<1>4. VersionsGrow'
  BY <1>2 DEF Write, Clear, Bump, Retain, Promised, VersionsGrow, TypeOK
<1>5. (epoch' = epoch /\ promised' = promised) \/ epoch' = epoch + 1
  BY DEF Write, Clear, Bump, Retain, Promised, NextEpoch, DirectoriesAnnounce
<1>6. EpochsPast'
  BY <1>1, <1>2, <1>5 DEF EpochsPast, Active, TypeOK, Keys
<1>7. OneEpochOnePromise'
  BY <1>2, <1>5 DEF OneEpochOnePromise, EpochsPast, Active, TypeOK, Keys
<1>8. EntriesLed' /\ AnswersInPlace'
  BY <1>1, <1>2 DEF EntriesLed, AnswersInPlace
<1>9. \A v, ep \in Nat : Covers(v, ep) /\ ep <= epoch => Covers(v, ep)'
  BY <1>2, <1>5 DEF Covers, Active, TypeOK
<1>10. KeptIsFresh'
  <2>1. \A e \in completed' : Covers(e.version, e.key.epoch)'
    BY <1>1, <1>9 DEF KeptIsFresh, EpochsPast, TypeOK, Keys
  <2>2. \A e \in inflight' : IsOk(e.answer) => Covers(e.answer.version, e.key.epoch)'
    BY <1>1, <1>9 DEF KeptIsFresh, EpochsPast, TypeOK, Keys, Answers
  <2>3. ASSUME NEW d \in Clients, Active(d)', IsOk(answer'[d])
        PROVE  Covers(answer[d].version, key[d].epoch)'
    <3>1. Active(d) /\ IsOk(answer[d]) /\ key[d].epoch <= epoch
      BY <1>2, <2>3 DEF Active, EpochsPast
    <3>2. answer[d].version \in Nat /\ key[d].epoch \in Nat
      BY DEF TypeOK, Keys, Answers
    <3>3. Covers(answer[d].version, key[d].epoch)
      BY <3>1 DEF KeptIsFresh
    <3> QED BY <1>2, <1>5, <3>1, <3>2, <3>3 DEF Covers, Active, TypeOK
  <2> QED BY <2>1, <2>2, <2>3 DEF KeptIsFresh
<1> QED BY <1>4, <1>6, <1>7, <1>8, <1>10

LEMMA FreshInvStep ==
  ASSUME DirectoriesAnnounce PROVE FreshInv /\ [Next]_vars => FreshInv'
<1> SUFFICES ASSUME FreshInv, [Next]_vars PROVE FreshInv'
  OBVIOUS
<1>0. TypeOK'
  BY TypingStep DEF FreshInv
<1>1. ASSUME NEW c \in Clients, NEW limit \in Limits, Begin(c, limit) PROVE FreshInv'
  BY <1>0, <1>1, BeginStep
<1>2. ASSUME NEW c \in Clients, Searching(c) PROVE FreshInv'
  BY <1>0, <1>2, RequestStep, ComputeStep, FinishStep, StoreStep DEF Searching
<1>3. ASSUME NEW c \in Clients, Return(c) PROVE FreshInv'
  BY <1>0, <1>3, ReturnStep
<1>4. ASSUME NEW w \in Refreshers,
             (\E tool \in Tools : Write(w, tool)) \/ Clear(w) \/ Bump(w) \/ Retain(w)
      PROVE  FreshInv'
  BY <1>0, <1>4, DirectoriesAnnounce, RefreshStep
<1>5. ASSUME UNCHANGED vars PROVE FreshInv'
  <2> USE DEF FreshInv
  <2>1. UNCHANGED <<version, promised, epoch, completed, inflight, pc, key, answer,
                    leader, since, refresh>>
    BY <1>5 DEF vars, client
  <2>2. VersionsGrow' /\ EpochsPast' /\ OneEpochOnePromise'
    BY <2>1 DEF VersionsGrow, EpochsPast, OneEpochOnePromise, Active
  <2>3. KeptIsFresh' /\ EntriesLed' /\ AnswersInPlace'
    BY <2>1 DEF KeptIsFresh, EntriesLed, AnswersInPlace, Covers, Active
  <2> QED BY <1>0, <2>2, <2>3
<1> QED BY <1>1, <1>2, <1>3, <1>4, <1>5 DEF Next

(* A search that comes in after refresh_shards returned is answered from   *)
(* what it wrote or something newer, for any number of clients, refreshes  *)
(* and limits (coalesced_search_shards_cached_core, clear_runtime_caches). *)
THEOREM FreshAfterRefresh ==
  ASSUME DirectoriesAnnounce PROVE Spec => []FreshAnswers
<1>1. FreshInv => FreshAnswers
  <2> SUFFICES ASSUME FreshInv, NEW c \in Clients,
                      pc[c] = "answered", answer[c].status = "ok"
               PROVE  answer[c].version >= since[c]
    BY DEF FreshAnswers
  <2>1. Covers(answer[c].version, key[c].epoch)
    BY DEF FreshInv, KeptIsFresh, Active, IsOk
  <2>2. since[c] <= answer[c].version
    BY <2>1 DEF Covers, Active
  <2>3. since[c] \in Nat /\ answer[c].version \in Nat
    BY DEF FreshInv, TypeOK, Answers
  <2> QED BY <2>2, <2>3
<1>2. FreshInv /\ [Next]_vars => FreshInv'
  BY FreshInvStep, DirectoriesAnnounce
<1> QED BY <1>1, <1>2, FreshInvInit, PTL DEF Spec

-----------------------------------------------------------------------------
(* Sharing one search among equal requests                                 *)

(* InFlightExact, entry by entry.                                          *)
EntriesRun == \A e \in inflight : e.leader \in Leading /\ e.key = key[e.leader]
RunsEntered == \A c \in Leading : \E e \in inflight : e.leader = c /\ e.key = key[c]
OneRunPerKey == \A c, d \in Leading : key[c] = key[d] => c = d
Exact == EntriesRun /\ RunsEntered /\ OneRunPerKey

(* The three parts together are the invariant the runs check.             *)
LEMMA ExactMeaning == Exact <=> InFlightExact
<1>1. ASSUME Exact PROVE InFlightExact
  <2>1. ASSUME NEW e \in inflight
        PROVE  <<e.key, e.leader>> \in {<<key[c], c>> : c \in Leading}
    BY <1>1 DEF Exact, EntriesRun
  <2>2. ASSUME NEW c \in Leading
        PROVE  <<key[c], c>> \in {<<e.key, e.leader>> : e \in inflight}
    BY <1>1 DEF Exact, RunsEntered
  <2>3. {<<e.key, e.leader>> : e \in inflight} = {<<key[c], c>> : c \in Leading}
    BY <2>1, <2>2
  <2> QED BY <1>1, <2>3 DEF Exact, OneRunPerKey, InFlightExact
<1>2. ASSUME InFlightExact PROVE Exact
  <2>1. ASSUME NEW e \in inflight PROVE e.leader \in Leading /\ e.key = key[e.leader]
    <3>1. <<e.key, e.leader>> \in {<<key[c], c>> : c \in Leading}
      BY <1>2 DEF InFlightExact
    <3> QED BY <3>1
  <2>2. ASSUME NEW c \in Leading PROVE \E e \in inflight : e.leader = c /\ e.key = key[c]
    <3>1. <<key[c], c>> \in {<<e.key, e.leader>> : e \in inflight}
      BY <1>2 DEF InFlightExact
    <3> QED BY <3>1
  <2> QED BY <1>2, <2>1, <2>2 DEF Exact, EntriesRun, RunsEntered, OneRunPerKey, InFlightExact
<1> QED BY <1>1, <1>2

(* Most steps change neither the map nor who leads under which key.        *)
LEMMA LeadersStay ==
  ASSUME Exact, inflight' = inflight, Leading' = Leading, \A c \in Leading : key'[c] = key[c]
  PROVE  Exact'
BY DEF Exact, EntriesRun, RunsEntered, OneRunPerKey

(* Only Lead makes a search run and only Remove ends one; each moves its   *)
(* entry in the same critical section.                                     *)
LEMMA ExactStep == TypeOK /\ Exact /\ [Next]_vars => Exact'
<1> SUFFICES ASSUME TypeOK, Exact, [Next]_vars PROVE Exact'
  OBVIOUS
<1> USE DEF TypeOK, Goto
<1>1. ASSUME NEW c \in Clients, (\E limit \in Limits : Begin(c, limit)) \/ Return(c)
      PROVE  Exact'
  <2>1. Leading' = Leading /\ c \notin Leading /\ inflight' = inflight
    BY <1>1 DEF Begin, Return, Leading
  <2>2. \A d \in Clients : d # c => key'[d] = key[d]
    BY <1>1 DEF Begin, Return
  <2> QED BY <2>1, <2>2, LeadersStay DEF Leading
<1>2. ASSUME NEW c \in Clients,
             Hit(c) \/ Miss(c) \/ Follow(c) \/ Wait(c) \/ Compute(c) \/ Store(c)
      PROVE  Exact'
  <2>1. UNCHANGED <<key, inflight>>
    BY <1>2 DEF Hit, Miss, Follow, Wait, Compute, Store
  <2>2. Leading' = Leading
    BY <1>2 DEF Hit, Miss, Follow, Wait, Compute, Store, Leading
  <2> QED BY <2>1, <2>2, LeadersStay
<1>3. ASSUME NEW c \in Clients, Lead(c) PROVE Exact'
  <2>1. Leading' = Leading \cup {c} /\ key' = key
    BY <1>3 DEF Lead, Leading
  <2>2. inflight' = inflight \cup {[key |-> key[c], leader |-> c, answer |-> Pending]}
    BY <1>3 DEF Lead
  <2>3. \A d \in Leading : key[d] # key[c]
    BY <1>3 DEF Lead, Running, Exact, RunsEntered
  <2>4. EntriesRun'
    BY <2>1, <2>2 DEF Exact, EntriesRun
  <2>5. RunsEntered'
    <3> DEFINE new == [key |-> key[c], leader |-> c, answer |-> Pending]
    <3>1. new \in inflight' /\ new.leader = c /\ new.key = key[c]
      BY <2>2
    <3>2. \A d \in Leading : \E e \in inflight' : e.leader = d /\ e.key = key[d]
      BY <2>2 DEF Exact, RunsEntered
    <3> QED BY <2>1, <3>1, <3>2 DEF RunsEntered
  <2>6. OneRunPerKey'
    BY <2>1, <2>3 DEF Exact, OneRunPerKey
  <2> QED BY <2>4, <2>5, <2>6 DEF Exact
<1>4. ASSUME NEW c \in Clients, Finish(c) PROVE Exact'
  <2>1. Leading' = Leading /\ key' = key
    BY <1>4 DEF Finish, Notified, Followers, Leading
  <2>2. \A e \in inflight' : \E old \in inflight : e.key = old.key /\ e.leader = old.leader
    BY <1>4 DEF Finish
  <2>3. ASSUME NEW old \in inflight
        PROVE  \E e \in inflight' : e.key = old.key /\ e.leader = old.leader
    <3> DEFINE new == IF old.leader = c THEN [old EXCEPT !.answer = answer[c]] ELSE old
    <3>1. new \in inflight'
      BY <1>4 DEF Finish
    <3>2. new.key = old.key /\ new.leader = old.leader
      OBVIOUS
    <3> QED BY <3>1, <3>2
  <2> QED BY <2>1, <2>2, <2>3 DEF Exact, EntriesRun, RunsEntered, OneRunPerKey
<1>5. ASSUME NEW c \in Clients, Remove(c) PROVE Exact'
  <2>1. Leading' = Leading \ {c} /\ key' = key
    BY <1>5 DEF Remove, Leading
  <2>2. inflight' = {e \in inflight : e.leader # c}
    BY <1>5 DEF Remove, Removed
  <2> QED BY <2>1, <2>2 DEF Exact, EntriesRun, RunsEntered, OneRunPerKey
<1>6. ASSUME NEW w \in Refreshers,
             (\E tool \in Tools : Write(w, tool)) \/ Clear(w) \/ Bump(w) \/ Retain(w)
      PROVE  Exact'
  <2>1. UNCHANGED <<key, inflight, pc>>
    BY <1>6 DEF Write, Clear, Bump, Retain, client
  <2> QED BY <2>1, LeadersStay DEF Leading
<1>7. ASSUME UNCHANGED vars PROVE Exact'
  BY <1>7, LeadersStay DEF vars, client, Leading
<1> QED BY <1>1, <1>2, <1>3, <1>4, <1>5, <1>6, <1>7 DEF Next, Searching

(* The in-flight map holds one entry per running search, under its key,    *)
(* and no two searches run for one key (InFlightWork, 8494-8533).          *)
THEOREM EntriesExact == Spec => []InFlightExact
<1>1. Init => Exact
  BY DEF Init, Exact, EntriesRun, RunsEntered, OneRunPerKey, Leading
<1> QED BY <1>1, ExactStep, ExactMeaning, Typing, PTL DEF Spec

-----------------------------------------------------------------------------

(* LimitServed with what is still on its way: in the entries of the map    *)
(* and in the hands of leaders. Followers joined an entry of their own key.*)
Enough(a, k) == IsOk(a) => a.limit >= k.limit

LimitInv ==
  /\ TypeOK /\ Exact
  /\ \A c \in Clients : Enough(answer[c], key[c]) /\ (pc[c] = "idle" => ~IsOk(answer[c]))
  /\ \A e \in inflight : Enough(e.answer, e.key)

(* Results change hands only under one key, or from the cache to a request *)
(* that asks for no more (CanServe).                                       *)
LEMMA LimitStep == LimitInv /\ [Next]_vars => LimitInv'
<1> SUFFICES ASSUME LimitInv, [Next]_vars PROVE LimitInv'
  OBVIOUS
<1>0. TypeOK /\ Exact /\ TypeOK' /\ Exact'
  BY TypingStep, ExactStep DEF LimitInv
<1> DEFINE Answered == \A c \in Clients : Enough(answer[c], key[c]) /\ (pc[c] = "idle" => ~IsOk(answer[c]))
           Entries == \A e \in inflight : Enough(e.answer, e.key)
<1>a. Answered /\ Entries
  BY DEF LimitInv
<1> SUFFICES Answered' /\ Entries'
  BY <1>0 DEF LimitInv
<1> USE <1>0, <1>a DEF TypeOK, Goto, Enough, IsOk, Pending, Failure, Found, Keys, Answers
<1>1. ASSUME NEW c \in Clients, NEW limit \in Limits, Begin(c, limit) PROVE Answered' /\ Entries'
  BY <1>1 DEF Begin
<1>2. ASSUME NEW c \in Clients, Hit(c) PROVE Answered' /\ Entries'
  <2>1. PICK e \in Serving(c) :
               /\ Goto(c, "lookup", "answered")
               /\ answer' = [answer EXCEPT ![c] = Found(e.version, e.key.limit)]
               /\ UNCHANGED <<inflight, key>>
    BY <1>2 DEF Hit
  <2>2. e.key.limit >= key[c].limit
    BY <2>1 DEF Serving, CanServe
  <2> QED BY <2>1, <2>2
<1>3. ASSUME NEW c \in Clients, Follow(c) PROVE Answered' /\ Entries'
  <2>1. PICK e \in Running(key[c]) :
               /\ Goto(c, "join", "joined")
               /\ answer' = [answer EXCEPT ![c] = e.answer]
               /\ UNCHANGED <<inflight, key>>
    BY <1>3 DEF Follow
  <2>2. Enough(e.answer, key[c])
    BY <2>1 DEF Running
  <2> QED BY <2>1, <2>2
<1>4. ASSUME NEW c \in Clients, Miss(c) \/ Wait(c) \/ Store(c) \/ Remove(c) PROVE Answered' /\ Entries'
  <2>1. UNCHANGED <<answer, key>> /\ inflight' \subseteq inflight
    BY <1>4 DEF Miss, Wait, Store, Remove, Removed
  <2>2. \A d \in Clients : pc'[d] = "idle" => pc[d] = "idle"
    BY <1>4 DEF Miss, Wait, Store, Remove
  <2> QED BY <2>1, <2>2
<1>5. ASSUME NEW c \in Clients, Lead(c) PROVE Answered' /\ Entries'
  BY <1>5 DEF Lead
<1>6. ASSUME NEW c \in Clients, Compute(c) PROVE Answered' /\ Entries'
  BY <1>6 DEF Compute
<1>7. ASSUME NEW c \in Clients, Finish(c) PROVE Answered' /\ Entries'
  <2>1. pc[c] = "finish" /\ c \in Leading /\ key' = key
    BY <1>7 DEF Finish, Leading
  <2>2. Answered'
    <3> SUFFICES ASSUME NEW d \in Clients
                 PROVE  Enough(answer'[d], key[d]) /\ (pc'[d] = "idle" => ~IsOk(answer'[d]))
      BY <2>1
    <3>1. answer'[d] = answer[d] \/ (answer'[d] = answer[c] /\ key[d] = key[c] /\ d \in Followers(c))
      BY <1>7 DEF Finish, Followers
    <3>2. pc'[d] = "idle" => pc[d] = "idle"
      BY <1>7 DEF Finish
    <3>3. d \in Followers(c) => pc[d] # "idle"
      BY DEF Followers
    <3> QED BY <3>1, <3>2, <3>3
  <2>3. Entries'
    <3> SUFFICES ASSUME NEW e \in inflight' PROVE Enough(e.answer, e.key)
      BY <2>1
    <3>1. PICK old \in inflight :
             /\ e.key = old.key
             /\ e.answer = IF old.leader = c THEN answer[c] ELSE old.answer
      BY <1>7 DEF Finish
    <3>2. old.leader = c => old.key = key[c]
      BY DEF Exact, EntriesRun
    <3> QED BY <3>1, <3>2
  <2> QED BY <2>2, <2>3
<1>8. ASSUME NEW c \in Clients, Return(c) PROVE Answered' /\ Entries'
  BY <1>8 DEF Return
<1>9. ASSUME NEW w \in Refreshers,
             (\E tool \in Tools : Write(w, tool)) \/ Clear(w) \/ Bump(w) \/ Retain(w)
      PROVE  Answered' /\ Entries'
  BY <1>9 DEF Write, Clear, Bump, Retain, client
<1>10. ASSUME UNCHANGED vars PROVE Answered' /\ Entries'
  BY <1>10 DEF vars, client
<1> QED BY <1>1, <1>2, <1>3, <1>4, <1>5, <1>6, <1>7, <1>8, <1>9, <1>10 DEF Next, Searching

(* Nobody is answered with fewer results than asked for, from the cache or *)
(* by joining (shard_search_key_can_serve_limit, 9316-9325).               *)
THEOREM EnoughServed == Spec => []LimitServed
<1>1. Init => LimitInv
  <2>1. Init => TypeOK /\ Exact
    BY TypingInit DEF Init, Exact, EntriesRun, RunsEntered, OneRunPerKey, Leading
  <2> QED BY <2>1 DEF Init, LimitInv, Enough, IsOk, Pending
<1>2. LimitInv => LimitServed
  BY DEF LimitInv, LimitServed, Enough, IsOk
<1> QED BY <1>1, <1>2, LimitStep, PTL DEF Spec
=============================================================================
