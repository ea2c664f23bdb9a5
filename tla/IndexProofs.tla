---------------------------- MODULE IndexProofs -----------------------------
(***************************************************************************)
(* Search in one index, for every corpus and every query: the three        *)
(* choices of candidates agree, and what has the terms is found.  Then     *)
(* refreshing an index, for every tree and every edit meanwhile: a refresh *)
(* gives what a build gives, and one that is torn is healed by the next.   *)
(***************************************************************************)
EXTENDS IndexRequests, FiniteSetTheorems, SequenceTheorems, WellFoundedInduction, TLAPS

-----------------------------------------------------------------------------
(* Functions defined step by step                                          *)

(* A set of natural numbers has a least member.                            *)
LEMMA Least ==
  ASSUME NEW A, A \subseteq Nat, A # {}
  PROVE  \E m \in A : \A n \in A : m <= n
<1> DEFINE Up(n) == 1 .. n
           Ups == {Up(n) : n \in A}
<1>1. \A n \in A : IsFiniteSet(Up(n)) /\ Up(n) \subseteq Nat
  BY FS_Interval
<1>2. Ups \subseteq FiniteSubsetsOf(Nat) /\ Ups # {}
  BY <1>1 DEF FiniteSubsetsOf
<1>3. PICK U \in Ups : \A V \in Ups : ~(<<V, U>> \in StrictSubsetOrdering(Nat))
  <2> HIDE DEF Ups
  <2> QED BY <1>2, FS_StrictSubsetOrderingWellFounded, WFMin
<1>4. PICK m \in A : U = Up(m)
  OBVIOUS
<1>5. ASSUME NEW n \in A, n < m PROVE FALSE
  <2>1. Up(n) \subseteq Up(m) /\ m \in Up(m) /\ m \notin Up(n)
    BY <1>5
  <2>2. <<Up(n), Up(m)>> \in StrictSubsetOrdering(Nat)
    BY <2>1, <1>1 DEF StrictSubsetOrdering
  <2> QED BY <2>2, <1>3, <1>4
<1> QED BY <1>5

(* Induction, for a set instead of a predicate.                            *)
LEMMA Induct ==
  ASSUME NEW A, 0 \in A, \A n \in Nat : n \in A => n + 1 \in A
  PROVE  Nat \subseteq A
<1> SUFFICES ASSUME Nat \ A # {} PROVE FALSE
  OBVIOUS
<1>1. PICK m \in Nat \ A : \A n \in Nat \ A : m <= n
  BY Least
<1>2. m # 0 /\ m - 1 \in Nat
  OBVIOUS
<1>3. m - 1 \in A /\ (m - 1) + 1 = m
  BY <1>1, <1>2
<1> QED BY <1>1, <1>2, <1>3

-----------------------------------------------------------------------------
(* A file that passes the filters is in all of their posting lists         *)

LEMMA PartIn ==
  ASSUME NEW part \in Seq(Words), NEW name \in Seq(Words), Part(part, name)
  PROVE  ToSet(part) \subseteq ToSet(name)
<1> SUFFICES ASSUME NEW j \in 1 .. Len(part) PROVE part[j] \in ToSet(name)
  BY DEF ToSet
<1>1. PICK i \in 0 .. Len(name) - Len(part) : SubSeq(name, i + 1, i + Len(part)) = part
  BY DEF Part
<1>2. /\ i + j \in 1 .. Len(name) /\ i + 1 \in Int /\ i + Len(part) \in Int
      /\ i + Len(part) <= Len(name) /\ 1 <= i + 1
  OBVIOUS
<1>3. SubSeq(name, i + 1, i + Len(part))[j] = name[i + j]
  BY <1>2
<1> QED BY <1>1, <1>2, <1>3 DEF ToSet

LEMMA HasGrams ==
  ASSUME WordsNest, NEW words, NEW w, Has(words, w)
  PROVE  \E v \in words : Grams[w] \subseteq Grams[v]
BY DEF WordsNest, Has

(* The trigrams of a path filter and of a name filter lie in the path of a *)
(* file that has them.                                                     *)
LEMMA PathFilterGrams ==
  ASSUME WordsNest, NEW f, f.path \in Seq(Words), NEW p, p.words \in Seq(Words), PathHas(f, p),
         NEW w \in ToSet(p.words), NEW g \in Grams[w]
  PROVE  \E v \in PathWords(f) : g \in Grams[v]
<1>1. CASE Len(p.words) = 1
  <2>1. w = p.words[1]
    BY <1>1 DEF ToSet
  <2> QED BY <1>1, <2>1, HasGrams DEF PathHas
<1>2. CASE Len(p.words) # 1
  BY <1>2, PartIn DEF PathHas, PathWords
<1> QED BY <1>1, <1>2

LEMMA NameFilterGrams ==
  ASSUME WordsNest, NEW f, f.path \in Seq(Words), f.path # <<>>, NEW p, p.words \in Seq(Words),
         Len(p.words) \in {0, 1}, NameHas(f, p), NEW w \in ToSet(p.words), NEW g \in Grams[w]
  PROVE  \E v \in PathWords(f) : g \in Grams[v]
<1>1. w = p.words[1]
  BY DEF ToSet
<1>2. Last(f.path) \in PathWords(f)
  BY DEF Last, PathWords, ToSet
<1>3. \E v \in {Last(f.path)} : Grams[w] \subseteq Grams[v]
  BY <1>1, HasGrams DEF NameHas
<1> QED BY <1>2, <1>3

LEMMA InFilterLists ==
  ASSUME WordsNest, NEW c, IsCorpus(c), NEW m, IsFilters(m), NEW i \in DOMAIN c,
         MatchesFilters(c[i], m)
  PROVE  /\ m.kind # "" => i \in KindPosted(c, m.kind)
         /\ \A l \in AttributeLists(c, m) : i \in l
         /\ \A l \in PathLists(c, m) : i \in l
         /\ m.file = Anywhere \/ NameHas(c[i], m.file)
<1> DEFINE f == c[i]
<1>1. m.kind # "" => i \in KindPosted(c, m.kind)
  BY DEF MatchesFilters, KindsMatch, HasKind, KindPosted
<1>2. \A l \in AttributeLists(c, m) : i \in l
  <2>1. \A k \in AttributeKeys(m) : f[k] = m[k]
    BY DEF AttributeKeys, MatchesFilters, PathMatches
  <2> QED BY <2>1 DEF AttributeLists, AttributePosted
<1>3. \A l \in PathLists(c, m) : i \in l
  <2> SUFFICES ASSUME NEW g \in PathKeys(m) PROVE i \in PathGramPosted(c, g)
    BY DEF PathLists
  <2>0. PICK p \in {m.path, m.file} : \E w \in ToSet(p.words) : g \in Grams[w]
    BY DEF PathKeys
  <2>1. PICK w \in ToSet(p.words) : g \in Grams[w]
    BY <2>0
  <2>2. p # Anywhere
    <3>1. ToSet(Anywhere.words) = {}
      BY DEF ToSet, Anywhere
    <3> QED BY <2>1, <3>1
  <2>3. \E v \in PathWords(f) : g \in Grams[v]
    <3>1. CASE p = m.path
      <4>1. PathHas(f, p)
        BY <2>2, <3>1 DEF MatchesFilters, PathMatches
      <4> QED BY <2>1, <3>1, <4>1, PathFilterGrams DEF IsCorpus, IsFilters
    <3>2. CASE p = m.file
      <4>1. NameHas(f, p)
        BY <2>2, <3>2 DEF MatchesFilters, PathMatches
      <4> QED BY <2>1, <3>2, <4>1, NameFilterGrams DEF IsCorpus, IsFilters
    <3> QED BY <2>1, <3>1, <3>2
  <2> QED BY <2>3 DEF PathGramPosted
<1>4. m.file = Anywhere \/ NameHas(f, m.file)
  BY DEF MatchesFilters, PathMatches
<1> QED BY <1>1, <1>2, <1>3, <1>4

(* So the lists drop no candidate that passes the filters.                 *)
LEMMA ListsKeep ==
  ASSUME WordsNest, NEW c, IsCorpus(c), NEW m, IsFilters(m), NEW i \in DOMAIN c,
         MatchesFilters(c[i], m)
  PROVE  /\ \A ids : i \in ids => i \in ByPathGrams(c, ByAttributes(c, ByKind(c, ids, m), m), m)
         /\ m.kind # "" => KindPosted(c, m.kind) # {}
         /\ ~Impossible(AttributeLists(c, m)) /\ ~Impossible(PathLists(c, m))
         /\ i \in FilterOnlyCandidates(c, m)
<1>1. \A ids : i \in ids => i \in ByPathGrams(c, ByAttributes(c, ByKind(c, ids, m), m), m)
  BY InFilterLists DEF ByPathGrams, ByAttributes, ByKind, Common
<1>2. /\ m.kind # "" => KindPosted(c, m.kind) # {}
      /\ ~Impossible(AttributeLists(c, m)) /\ ~Impossible(PathLists(c, m))
  BY InFilterLists DEF Impossible
<1>3. i \in FilterOnlyCandidates(c, m)
  BY <1>1, <1>2, InFilterLists DEF FilterOnlyCandidates
<1> QED BY <1>1, <1>2, <1>3

-----------------------------------------------------------------------------
(* What a search, query_may_match and a plan look up first                 *)

LEMMA FiltersOfTypes ==
  ASSUME NEW q, IsQuery(q)
  PROVE  /\ IsFilters(FiltersOf(q))
         /\ Len(Tokens(q)) > 1 => FiltersOf(q).all \/ FiltersOf(q).any
<1> DEFINE m == Merged(q)
<1>1. DOMAIN NoFilters = {"path", "file", "symbol", "kind", "lang", "test", "import", "repo",
                          "notPath", "notSymbol", "notKind", "notText", "any", "all"}
  BY DEF NoFilters
<1>2. /\ DOMAIN q.args = DOMAIN NoFilters
      /\ DOMAIN m = DOMAIN NoFilters
      /\ \A k \in {"path", "file", "symbol"} : m[k] \in {q.args[k], q.inline[k]}
      /\ m.any = (q.args.any \/ q.inline.any)
      /\ m.all = (~q.args.any /\ ~q.inline.any /\ (q.args.all \/ q.inline.all))
  BY <1>1 DEF IsQuery, IsFilters, Merged, MergeFilters, Lists
<1>3. IsFilters(m)
  BY <1>2 DEF IsQuery, IsFilters
<1>4. FiltersOf(q) = [m EXCEPT !.all = m.all \/ (Len(Tokens(q)) > 1 /\ ~m.any)]
  BY DEF FiltersOf
<1> HIDE DEF m
<1>5. /\ DOMAIN FiltersOf(q) = DOMAIN NoFilters
      /\ \A k \in DOMAIN NoFilters \ {"all"} : FiltersOf(q)[k] = m[k]
      /\ FiltersOf(q).all = (m.all \/ (Len(Tokens(q)) > 1 /\ ~m.any))
  BY <1>1, <1>3, <1>4 DEF IsFilters
<1> QED BY <1>1, <1>3, <1>5 DEF IsFilters

(* What is known of the lists that Lookup gives.                           *)
Looked(c, q, m, l) ==
  /\ l.tokens = Tokens(q)
  /\ l.content = {t \in ToSet(l.tokens) : ContentPosted(c, t) # {}}
  /\ l.path = {t \in ToSet(l.tokens) : PathPosted(c, t) # {}}
  /\ l.pathPlan = IF m.any THEN l.path ELSE l.path \ l.content
  /\ l.missing \subseteq ToSet(l.tokens) \ (l.content \cup l.path)
  /\ l.useGrams <=> /\ QueryGrams(q) # {}
                    /\ \/ Cardinality(l.content) < Len(l.tokens)
                       \/ Len(l.tokens) = 1 /\ l.tokens[1] \in Long
  /\ l.content # {} /\ l.useGrams => l.grams = {g \in QueryGrams(q) : GramPosted(c, g) # {}}
  /\ l.missingGrams = IF l.useGrams THEN QueryGrams(q) \ l.grams ELSE {}

LEMMA LookupGives == ASSUME NEW c, NEW q PROVE Looked(c, q, FiltersOf(q), Lookup(c, q))
BY DEF Looked, Lookup

(* Only a file with every word of the query in its text or path is added   *)
(* to the candidates, so nothing is added when a word is nowhere.          *)
LEMMA FieldsNeedWords ==
  ASSUME NEW c, NEW q, NEW m, NEW l, Looked(c, q, m, l), FieldCandidates(c, l) # {}
  PROVE  ToSet(l.tokens) \subseteq l.content \cup l.path
BY DEF FieldCandidates, Looked

(* What Once keeps: every word, once.                                      *)
(* once is the function that Once defines, up to n.                        *)
Oncely(once, words, n) ==
  once = [i \in 0 .. n |->
            IF i = 0 THEN <<>>
            ELSE IF words[i] \in ToSet(once[i - 1]) THEN once[i - 1]
            ELSE Append(once[i - 1], words[i])]

LEMMA OnceExists ==
  ASSUME NEW words PROVE \A n \in Nat : \E once : Oncely(once, words, n)
<1> DEFINE Defined == {n \in Nat : \E once : Oncely(once, words, n)}
<1>1. 0 \in Defined
  <2>1. Oncely([i \in 0 .. 0 |-> << >>], words, 0)
    BY DEF Oncely
  <2> QED BY <2>1
<1>2. ASSUME NEW n \in Nat, n \in Defined PROVE n + 1 \in Defined
  <2>1. PICK once : Oncely(once, words, n)
    BY <1>2
  <2> DEFINE last == IF words[n + 1] \in ToSet(once[n]) THEN once[n]
                     ELSE Append(once[n], words[n + 1])
             more == [i \in 0 .. n + 1 |-> IF i = n + 1 THEN last ELSE once[i]]
  <2>2. \A i \in 0 .. n : more[i] = once[i]
    OBVIOUS
  <2>3. \A i \in 0 .. n :
          once[i] = IF i = 0 THEN << >>
                    ELSE IF words[i] \in ToSet(once[i - 1]) THEN once[i - 1]
                    ELSE Append(once[i - 1], words[i])
    BY <2>1 DEF Oncely
  <2>4. more[n + 1] = IF words[n + 1] \in ToSet(more[n]) THEN more[n]
                      ELSE Append(more[n], words[n + 1])
    BY <2>2
  <2>5. \A i \in 0 .. n + 1 :
          more[i] = IF i = 0 THEN << >>
                    ELSE IF words[i] \in ToSet(more[i - 1]) THEN more[i - 1]
                    ELSE Append(more[i - 1], words[i])
    <3> HIDE DEF more
    <3>1. ASSUME NEW i \in 0 .. n, i # 0 PROVE i - 1 \in 0 .. n
      BY <3>1
    <3> QED BY <2>2, <2>3, <2>4, <3>1
  <2>6. Oncely(more, words, n + 1)
    BY <2>5 DEF Oncely
  <2> QED BY <2>6
<1>3. Nat \subseteq Defined
  <2> HIDE DEF Defined
  <2> QED BY <1>1, <1>2, Induct
<1> QED BY <1>3

LEMMA SetOfAppend ==
  ASSUME NEW S, NEW v \in Seq(S), NEW w \in S
  PROVE  Append(v, w) \in Seq(S) /\ ToSet(Append(v, w)) = ToSet(v) \cup {w}
<1> DEFINE a == Append(v, w)
<1>1. /\ a \in Seq(S) /\ Len(a) = Len(v) + 1 /\ Len(v) \in Nat
      /\ \A i \in 1 .. Len(v) : a[i] = v[i]
      /\ a[Len(v) + 1] = w
  BY AppendProperties, LenProperties
<1>2. DOMAIN a = 1 .. Len(a) /\ DOMAIN v = 1 .. Len(v)
  BY <1>1, LenProperties
<1> HIDE DEF a
<1>3. ToSet(a) \subseteq ToSet(v) \cup {w}
  BY <1>1, <1>2 DEF ToSet
<1>4. ToSet(v) \subseteq ToSet(a) /\ w \in ToSet(a)
  BY <1>1, <1>2 DEF ToSet
<1> QED BY <1>1, <1>3, <1>4 DEF a

LEMMA OnceKeeps ==
  ASSUME NEW words \in Seq(Words)
  PROVE  Once(words) \in Seq(Words) /\ ToSet(Once(words)) = ToSet(words)
<1>0. Len(words) \in Nat /\ \A i \in 1 .. Len(words) : words[i] \in Words
  BY LenProperties, ElementOfSeq
<1> DEFINE n == Len(words)
           once == CHOOSE once : Oncely(once, words, n)
           Seen(k) == {words[i] : i \in 1 .. k}
           Right == {k \in Nat : k <= n => once[k] \in Seq(Words) /\ ToSet(once[k]) = Seen(k)}
<1>1. Once(words) = once[n]
  BY DEF Once, Oncely
<1>2. Oncely(once, words, n)
  BY <1>0, OnceExists
<1> HIDE DEF once
<1>3. \A i \in 0 .. n :
        once[i] = IF i = 0 THEN << >>
                  ELSE IF words[i] \in ToSet(once[i - 1]) THEN once[i - 1]
                  ELSE Append(once[i - 1], words[i])
  BY <1>2 DEF Oncely
<1>4. 0 \in Right
  <2>1. once[0] = << >> /\ Seen(0) = {}
    BY <1>0, <1>3
  <2>2. << >> \in Seq(Words) /\ ToSet(<< >>) = {}
    BY EmptySeq DEF ToSet
  <2> HIDE DEF Seen
  <2>3. once[0] \in Seq(Words) /\ ToSet(once[0]) = Seen(0)
    BY <2>1, <2>2
  <2> QED BY <2>3
<1>5. ASSUME NEW k \in Nat, k \in Right PROVE k + 1 \in Right
  <2> SUFFICES ASSUME k + 1 <= n
               PROVE  once[k + 1] \in Seq(Words) /\ ToSet(once[k + 1]) = Seen(k + 1)
    OBVIOUS
  <2>1. k + 1 \in 1 .. n /\ k <= n /\ (k + 1) - 1 = k /\ k + 1 # 0
    BY <1>0
  <2>2. once[k] \in Seq(Words) /\ ToSet(once[k]) = Seen(k)
    BY <1>5, <2>1
  <2>3. Seen(k + 1) = Seen(k) \cup {words[k + 1]} /\ words[k + 1] \in Words
    BY <1>0, <2>1
  <2>4. once[k + 1] = IF words[k + 1] \in ToSet(once[k]) THEN once[k]
                      ELSE Append(once[k], words[k + 1])
    BY <1>3, <2>1
  <2>5. Append(once[k], words[k + 1]) \in Seq(Words)
          /\ ToSet(Append(once[k], words[k + 1])) = ToSet(once[k]) \cup {words[k + 1]}
    BY <2>2, <2>3, SetOfAppend
  <2> HIDE DEF Seen
  <2>6. CASE words[k + 1] \in ToSet(once[k])
    BY <2>2, <2>3, <2>4, <2>6
  <2>7. CASE words[k + 1] \notin ToSet(once[k])
    BY <2>2, <2>3, <2>4, <2>5, <2>7
  <2> QED BY <2>6, <2>7
<1>6. n \in Right
  <2> HIDE DEF Right
  <2> QED BY <1>0, <1>4, <1>5, Induct
<1>7. once[n] \in Seq(Words) /\ ToSet(once[n]) = Seen(n)
  BY <1>0, <1>6
<1>8. ToSet(words) = Seen(n)
  BY <1>0, LenProperties DEF ToSet
<1> QED BY <1>1, <1>7, <1>8

(* What FlattenSeq gives: the parts one after the other.                   *)
(* flatten is the function that FlattenSeq defines, up to n.               *)
Flatly(flatten, seqs, n) ==
  flatten = [i \in 1 .. n |-> IF i = 1 THEN seqs[i] ELSE flatten[i - 1] \o seqs[i]]

LEMMA FlatExists ==
  ASSUME NEW seqs PROVE \A n \in Nat : \E flatten : Flatly(flatten, seqs, n)
<1> DEFINE Defined == {n \in Nat : \E flatten : Flatly(flatten, seqs, n)}
<1>1. 0 \in Defined
  <2>1. Flatly([i \in 1 .. 0 |-> << >>], seqs, 0)
    BY DEF Flatly
  <2> QED BY <2>1
<1>2. ASSUME NEW n \in Nat, n \in Defined PROVE n + 1 \in Defined
  <2>1. PICK flatten : Flatly(flatten, seqs, n)
    BY <1>2
  <2> DEFINE last == IF n + 1 = 1 THEN seqs[n + 1] ELSE flatten[n] \o seqs[n + 1]
             more == [i \in 1 .. n + 1 |-> IF i = n + 1 THEN last ELSE flatten[i]]
  <2>2. \A i \in 1 .. n : more[i] = flatten[i]
    OBVIOUS
  <2>3. \A i \in 1 .. n :
          flatten[i] = IF i = 1 THEN seqs[i] ELSE flatten[i - 1] \o seqs[i]
    BY <2>1 DEF Flatly
  <2>4. more[n + 1] = IF n + 1 = 1 THEN seqs[n + 1] ELSE more[n] \o seqs[n + 1]
    BY <2>2
  <2>5. \A i \in 1 .. n + 1 :
          more[i] = IF i = 1 THEN seqs[i] ELSE more[i - 1] \o seqs[i]
    <3> HIDE DEF more
    <3>1. ASSUME NEW i \in 1 .. n, i # 1 PROVE i - 1 \in 1 .. n
      BY <3>1
    <3> QED BY <2>2, <2>3, <2>4, <3>1
  <2>6. Flatly(more, seqs, n + 1)
    BY <2>5 DEF Flatly
  <2> QED BY <2>6
<1>3. Nat \subseteq Defined
  <2> HIDE DEF Defined
  <2> QED BY <1>1, <1>2, Induct
<1> QED BY <1>3

LEMMA SetOfConcat ==
  ASSUME NEW S, NEW u \in Seq(S), NEW v \in Seq(S)
  PROVE  u \o v \in Seq(S) /\ ToSet(u \o v) = ToSet(u) \cup ToSet(v)
<1> DEFINE a == u \o v
<1>1. /\ a \in Seq(S) /\ Len(a) = Len(u) + Len(v) /\ Len(u) \in Nat /\ Len(v) \in Nat
      /\ \A i \in 1 .. Len(u) : a[i] = u[i]
      /\ \A i \in 1 .. Len(v) : a[Len(u) + i] = v[i]
  BY ConcatProperties, LenProperties
<1>2. DOMAIN a = 1 .. Len(a) /\ DOMAIN u = 1 .. Len(u) /\ DOMAIN v = 1 .. Len(v)
  BY <1>1, LenProperties
<1> HIDE DEF a
<1>3. ToSet(a) \subseteq ToSet(u) \cup ToSet(v)
  <2> SUFFICES ASSUME NEW i \in 1 .. Len(a) PROVE a[i] \in ToSet(u) \cup ToSet(v)
    BY <1>2 DEF ToSet
  <2>1. CASE i <= Len(u)
    BY <1>1, <1>2, <2>1 DEF ToSet
  <2>2. CASE i > Len(u)
    <3>1. i - Len(u) \in 1 .. Len(v) /\ Len(u) + (i - Len(u)) = i
      BY <1>1, <2>2
    <3>2. a[i] = v[i - Len(u)]
      BY <1>1, <3>1
    <3> QED BY <1>2, <3>1, <3>2 DEF ToSet
  <2> QED BY <1>1, <2>1, <2>2
<1>4. ToSet(u) \subseteq ToSet(a)
  BY <1>1, <1>2 DEF ToSet
<1>5. ToSet(v) \subseteq ToSet(a)
  <2> SUFFICES ASSUME NEW i \in 1 .. Len(v) PROVE v[i] \in ToSet(a)
    BY <1>2 DEF ToSet
  <2>1. Len(u) + i \in 1 .. Len(a) /\ a[Len(u) + i] = v[i]
    BY <1>1
  <2> QED BY <1>2, <2>1 DEF ToSet
<1> QED BY <1>1, <1>3, <1>4, <1>5 DEF a

LEMMA FlatKeeps ==
  ASSUME NEW seqs \in Seq(Seq(Words))
  PROVE  /\ FlattenSeq(seqs) \in Seq(Words)
         /\ ToSet(FlattenSeq(seqs)) = UNION {ToSet(s) : s \in ToSet(seqs)}
<1>0. Len(seqs) \in Nat /\ \A i \in 1 .. Len(seqs) : seqs[i] \in Seq(Words)
  BY LenProperties, ElementOfSeq
<1> DEFINE n == Len(seqs)
           flatten == CHOOSE flatten : Flatly(flatten, seqs, n)
           Seen(k) == UNION {ToSet(seqs[i]) : i \in 1 .. k}
           Right == {k \in Nat : k + 1 <= n => flatten[k + 1] \in Seq(Words)
                                                 /\ ToSet(flatten[k + 1]) = Seen(k + 1)}
<1>1. ToSet(seqs) = {seqs[i] : i \in 1 .. n}
  BY LenProperties DEF ToSet
<1>2. CASE n = 0
  <2>1. FlattenSeq(seqs) = << >> /\ ToSet(seqs) = {}
    BY <1>1, <1>2, EmptySeq DEF FlattenSeq
  <2>2. << >> \in Seq(Words) /\ ToSet(<< >>) = {}
    BY EmptySeq DEF ToSet
  <2> QED BY <2>1, <2>2
<1>3. CASE n # 0
  <2>1. FlattenSeq(seqs) = flatten[n]
    BY <1>3 DEF FlattenSeq, Flatly
  <2>2. Flatly(flatten, seqs, n)
    BY <1>0, FlatExists
  <2> HIDE DEF flatten
  <2>3. \A i \in 1 .. n : flatten[i] = IF i = 1 THEN seqs[i] ELSE flatten[i - 1] \o seqs[i]
    BY <2>2 DEF Flatly
  <2>4. 0 \in Right
    <3>1. flatten[1] = seqs[1] /\ seqs[1] \in Seq(Words) /\ Seen(1) = ToSet(seqs[1])
      BY <1>0, <1>3, <2>3
    <3> HIDE DEF Seen
    <3>2. flatten[0 + 1] \in Seq(Words) /\ ToSet(flatten[0 + 1]) = Seen(0 + 1)
      BY <3>1
    <3> QED BY <3>2
  <2>5. ASSUME NEW k \in Nat, k \in Right PROVE k + 1 \in Right
    <3> SUFFICES ASSUME (k + 1) + 1 <= n
                 PROVE  flatten[(k + 1) + 1] \in Seq(Words)
                          /\ ToSet(flatten[(k + 1) + 1]) = Seen((k + 1) + 1)
      OBVIOUS
    <3> DEFINE j == (k + 1) + 1
    <3>1. j \in 1 .. n /\ k + 1 <= n /\ j - 1 = k + 1 /\ j # 1
      BY <1>0
    <3>2. flatten[k + 1] \in Seq(Words) /\ ToSet(flatten[k + 1]) = Seen(k + 1)
      BY <2>5, <3>1
    <3>3. Seen(j) = Seen(k + 1) \cup ToSet(seqs[j]) /\ seqs[j] \in Seq(Words)
      <4>1. 1 .. j = (1 .. k + 1) \cup {j}
        OBVIOUS
      <4>2. {ToSet(seqs[i]) : i \in 1 .. j} = {ToSet(seqs[i]) : i \in 1 .. k + 1} \cup {ToSet(seqs[j])}
        BY <4>1
      <4> QED BY <1>0, <3>1, <4>2
    <3>4. flatten[j] = flatten[k + 1] \o seqs[j]
      BY <2>3, <3>1
    <3> HIDE DEF Seen, j
    <3>5. flatten[j] \in Seq(Words) /\ ToSet(flatten[j]) = Seen(j)
      BY <3>2, <3>3, <3>4, SetOfConcat
    <3> QED BY <3>5 DEF j
  <2>6. n - 1 \in Right
    <3> HIDE DEF Right
    <3>1. Nat \subseteq Right
      BY <2>4, <2>5, Induct
    <3> QED BY <1>0, <1>3, <3>1
  <2>7. n - 1 \in Nat /\ (n - 1) + 1 = n
    BY <1>0, <1>3
  <2>8. flatten[n] \in Seq(Words) /\ ToSet(flatten[n]) = Seen(n)
    <3> HIDE DEF Seen
    <3> QED BY <1>0, <2>6, <2>7
  <2>9. Seen(n) = UNION {ToSet(s) : s \in ToSet(seqs)}
    BY <1>1
  <2> QED BY <2>1, <2>8, <2>9
<1> QED BY <1>2, <1>3

(* The tokens of a query are the words of its terms.                       *)
LEMMA TokensAre ==
  ASSUME NEW q, IsQuery(q)
  PROVE  /\ Terms(q) \in Seq(Seq(Words))
         /\ Tokens(q) \in Seq(Words)
         /\ ToSet(Tokens(q)) = UNION {ToSet(s) : s \in ToSet(Terms(q))}
<1>1. Merged(q).symbol \in Seq(Words)
  <2>1. "symbol" \in DOMAIN NoFilters /\ "symbol" \notin Lists
    BY DEF NoFilters, Lists
  <2>2. Merged(q).symbol \in {q.args.symbol, q.inline.symbol}
    BY <2>1 DEF IsQuery, IsFilters, Merged, MergeFilters
  <2> QED BY <2>2 DEF IsQuery, IsFilters
<1>2. Terms(q) \in Seq(Seq(Words))
  BY <1>1, SetOfAppend DEF Terms, IsQuery
<1>3. FlattenSeq(Terms(q)) \in Seq(Words)
        /\ ToSet(FlattenSeq(Terms(q))) = UNION {ToSet(s) : s \in ToSet(Terms(q))}
  BY <1>2, FlatKeeps
<1> QED BY <1>2, <1>3, OnceKeeps DEF Tokens

-----------------------------------------------------------------------------
(* Search, query_may_match and query_plan agree                            *)

LEMMA HasWord ==
  ASSUME NEW q, IsQuery(q), Tokens(q) # << >>
  PROVE  ToSet(Tokens(q)) # {}
<1>1. Tokens(q) \in Seq(Words)
  BY TokensAre
<1>2. Len(Tokens(q)) \in Nat \ {0} /\ DOMAIN Tokens(q) = 1 .. Len(Tokens(q))
  BY <1>1, LenProperties, EmptySeq
<1>3. Tokens(q)[1] \in ToSet(Tokens(q))
  <2>1. 1 \in DOMAIN Tokens(q)
    BY <1>2
  <2> QED BY <2>1 DEF ToSet
<1> QED BY <1>3

(* A file that fails the filters fails one that a plan tests by itself.    *)
LEMMA PlanTestsAll ==
  ASSUME NEW m, NEW f, ~MatchesFilters(f, m)
  PROVE  \E k \in PlanFilters(m) : ~CompiledMatches(f, m, k)
<1> SUFFICES ASSUME \A k \in PlanFilters(m) : CompiledMatches(f, m, k) PROVE FALSE
  OBVIOUS
<1>1. [NoFilters EXCEPT !.import = m.import].import = m.import
  BY DEF NoFilters
<1>2. PathMatches(f, m)
  <2>1. m.file # Anywhere => NameHas(f, m.file)
    BY DEF PlanFilters, CompiledMatches
  <2>2. m.path # Anywhere => PathHas(f, m.path)
    BY DEF PlanFilters, CompiledMatches
  <2>3. m.lang # "" => f.lang = m.lang
    BY DEF PlanFilters, CompiledMatches
  <2>4. m.test # "" => f.test = m.test
    BY DEF PlanFilters, CompiledMatches
  <2>5. m.notPath # {} => \A p \in m.notPath : ~PathHas(f, p)
    BY DEF PlanFilters, CompiledMatches, Lists
  <2> QED BY <2>1, <2>2, <2>3, <2>4, <2>5 DEF PathMatches
<1>3. KindsMatch(f, m)
  <2>1. m.kind # "" => HasKind(f, m.kind)
    BY DEF PlanFilters, CompiledMatches
  <2>2. m.notKind # {} => \A kind \in m.notKind : ~HasKind(f, kind)
    BY DEF PlanFilters, CompiledMatches, Lists
  <2> QED BY <2>1, <2>2 DEF KindsMatch
<1>4. SymbolsMatch(f, m)
  <2>1. m.symbol # << >> => HasSymbol(f, m.symbol)
    BY DEF PlanFilters, CompiledMatches
  <2>2. m.notSymbol # {} => \A name \in m.notSymbol : ~HasSymbol(f, name)
    BY DEF PlanFilters, CompiledMatches, Lists
  <2> QED BY <2>1, <2>2 DEF SymbolsMatch
<1>5. ImportsMatch(f, m)
  <2>1. m.import # "" => ImportsMatch(f, [NoFilters EXCEPT !.import = m.import])
    BY DEF PlanFilters, CompiledMatches
  <2> QED BY <1>1, <2>1 DEF ImportsMatch
<1>6. ContentAllowed(f, m)
  <2>1. m.notText # {} => \A w \in m.notText : ~Has(f.text, w)
    BY DEF PlanFilters, CompiledMatches, Lists
  <2> QED BY <2>1 DEF ContentAllowed
<1> QED BY <1>2, <1>3, <1>4, <1>5, <1>6 DEF MatchesFilters

(* Files from the filters alone: what passes the filters is never behind   *)
(* an impossible list.                                                     *)
LEMMA FilterOnlyAgrees ==
  ASSUME WordsNest, NEW c, IsCorpus(c), NEW m, IsFilters(m)
  PROVE  /\ Impossible(PathLists(c, m)) => PlanFilterOnly(c, m).final = {}
         /\ PlanFilterOnly(c, m).final = SearchFilterOnly(c, m)
         /\ SearchFilterOnly(c, m) # {} =>
              /\ m.kind # "" => KindPosted(c, m.kind) # {}
              /\ ~Impossible(AttributeLists(c, m)) /\ ~Impossible(PathLists(c, m))
              /\ Filtered(c, FilterOnlyCandidates(c, m), m) # {}
<1>1. PlanFilterOnly(c, m).final = SearchFilterOnly(c, m)
  BY DEF PlanFilterOnly, SearchFilterOnly
<1>2. \A i \in SearchFilterOnly(c, m) : i \in DOMAIN c /\ MatchesFilters(c[i], m)
  <2>1. ExactPath(c, m) \subseteq DOMAIN c
    BY DEF ExactPath
  <2>2. FilterOnlyCandidates(c, m) \subseteq DOMAIN c
    BY DEF FilterOnlyCandidates, ByPathGrams, Common
  <2> QED BY <2>1, <2>2 DEF SearchFilterOnly, Filtered
<1>3. ASSUME NEW i \in SearchFilterOnly(c, m)
      PROVE  /\ m.kind # "" => KindPosted(c, m.kind) # {}
             /\ ~Impossible(AttributeLists(c, m)) /\ ~Impossible(PathLists(c, m))
             /\ i \in Filtered(c, FilterOnlyCandidates(c, m), m)
  BY <1>2, ListsKeep DEF Filtered
<1> QED BY <1>1, <1>3

(* Nothing posted, or a word of a conjunction that is nowhere: then no     *)
(* candidates.                                                             *)
LEMMA NothingPlanned ==
  ASSUME NEW c, NEW q, NEW m, NEW l, Looked(c, q, m, l), ToSet(l.tokens) # {},
         NothingPosted(l) \/ (m.all /\ Unsatisfied(l, m))
  PROVE  SearchCandidates(c, m, l) = {}
<1> DEFINE planned == IF m.all /\ Unsatisfied(l, m) THEN {}
                      ELSE IF UnionOfBoth(l) THEN TokenOrGrams(c, l)
                      ELSE IntersectPlanned(PlannedLists(c, l), m.all)
           fields == ExpandFields(c, planned, m.all /\ l.symbol = {}, l)
<1>1. planned = {}
  <2>1. CASE m.all /\ Unsatisfied(l, m)
    BY <2>1
  <2>2. CASE NothingPosted(l)
    <3>1. l.content = {} /\ l.path = {} /\ l.pathPlan = {} /\ l.symbol = {} /\ l.grams = {}
      BY <2>2 DEF NothingPosted, Looked
    <3>2. ~UnionOfBoth(l) /\ PlannedLists(c, l) = {}
      BY <3>1 DEF UnionOfBoth, PlannedLists, TokenLists, GramLists
    <3> QED BY <3>2 DEF IntersectPlanned
  <2> QED BY <2>1, <2>2
<1>2. FieldCandidates(c, l) = {}
  BY FieldsNeedWords DEF NothingPosted, Unsatisfied, Looked
<1>3. fields = {}
  BY <1>1, <1>2 DEF ExpandFields
<1> QED BY <1>3 DEF SearchCandidates, Verified, ByPathGrams, ByAttributes, ByKind

LEMMA SearchAgrees ==
  ASSUME WordsNest, NEW c, IsCorpus(c), NEW q, IsQuery(q)
  PROVE  Agree(c, q)
<1> DEFINE m == FiltersOf(q)
           l == Lookup(c, q)
           cand == SearchCandidates(c, m, l)
           plan == QueryPlan(c, q, m, l)
           found == Found(c, q, m, l)
           may == QueryMayMatch(c, m, l)
<1>1. IsFilters(m) /\ Looked(c, q, m, l)
  BY FiltersOfTypes, LookupGives
<1>2. l.tokens = Tokens(q)
  BY <1>1 DEF Looked
<1> HIDE DEF m, l
<1>3. CASE ~RepoMatches(m)
  <2>1. found = {} /\ plan = PlanRefused
    BY <1>3 DEF Found, QueryPlan
  <2>2. plan.final = {} /\ plan.strategy = "repo_filter_mismatch"
    BY <2>1 DEF PlanRefused, NoPlan
  <2>3. Consistent(found, may, plan)
    <3> HIDE DEF found, may, plan
    <3> QED BY <2>1, <2>2 DEF Consistent
  <2> QED BY <2>3 DEF Agree, AgreeOn, m, l
<1>4. CASE RepoMatches(m) /\ l.tokens = << >> /\ FilterOnlyQuery(m)
  <2>1. plan = PlanFilterOnly(c, m)
    BY <1>4 DEF QueryPlan
  <2>2. plan.strategy = "filter_only"
    BY <2>1 DEF PlanFilterOnly
  <2>3. found = IF Impossible(PathLists(c, m)) THEN {} ELSE SearchFilterOnly(c, m)
    BY <1>4 DEF Found
  <2>4. plan.final = found
    BY <1>1, <2>1, <2>3, FilterOnlyAgrees
  <2>5. found # {} => may
    BY <1>1, <1>4, <2>3, FilterOnlyAgrees DEF QueryMayMatch, MayMatchFilterOnly
  <2>6. Consistent(found, may, plan)
    <3> HIDE DEF found, may, plan
    <3> QED BY <2>2, <2>4, <2>5 DEF Consistent
  <2> QED BY <2>6 DEF Agree, AgreeOn, m, l
<1>5. CASE RepoMatches(m) /\ l.tokens = << >> /\ ~FilterOnlyQuery(m)
  <2>1. found = {} /\ plan = NoPlan
    BY <1>5 DEF Found, QueryPlan
  <2>2. plan.final = {} /\ plan.strategy = "empty_query"
    BY <2>1 DEF NoPlan
  <2>3. Consistent(found, may, plan)
    <3> HIDE DEF found, may, plan
    <3> QED BY <2>1, <2>2 DEF Consistent
  <2> QED BY <2>3 DEF Agree, AgreeOn, m, l
<1>6. CASE RepoMatches(m) /\ l.tokens # << >>
  <2>1. ToSet(l.tokens) # {}
    BY <1>2, <1>6, HasWord
  <2>2. NothingPosted(l) \/ (m.all /\ Unsatisfied(l, m)) => cand = {}
    BY <1>1, <2>1, NothingPlanned
  <2>3. cand = PlanCandidates(c, m, l)
    BY DEF SearchCandidates, PlanCandidates
  <2>4. plan = PlanOf(c, q, m, l, cand)
    BY <1>6, <2>3 DEF QueryPlan
  <2>5. cand \subseteq DOMAIN c
    BY DEF SearchCandidates, Verified, ByPathGrams, Common
  <2>6. ASSUME NEW i \in Filtered(c, cand, m)
        PROVE  /\ m.kind # "" => KindPosted(c, m.kind) # {}
               /\ ~Impossible(AttributeLists(c, m)) /\ ~Impossible(PathLists(c, m))
    <3>1. i \in DOMAIN c /\ MatchesFilters(c[i], m)
      BY <2>5 DEF Filtered
    <3> QED BY <1>1, <3>1, ListsKeep
  <2> HIDE DEF cand
  <2>7. plan.final = {i \in Filtered(c, cand, m) : Kept(c, c[i], q, m, l)}
    BY <2>4 DEF PlanOf
  <2>8. plan.passed = Filtered(c, cand, m) /\ plan.candidates = cand
          /\ plan.rejecting = {k \in PlanFilters(m) : \E i \in cand : ~CompiledMatches(c[i], m, k)}
    BY <2>4 DEF PlanOf
  <2>9. found = IF Impossible(PathLists(c, m)) \/ NothingPosted(l) THEN {} ELSE plan.final
    BY <1>6, <2>7 DEF Found, cand
  <2>10. found = plan.final
    <3>1. CASE Impossible(PathLists(c, m))
      BY <2>6, <2>7, <2>9, <3>1
    <3>2. CASE NothingPosted(l)
      <4>1. Filtered(c, cand, m) = {}
        BY <2>2, <3>2 DEF Filtered
      <4> QED BY <2>7, <2>9, <4>1
    <3> QED BY <2>9, <3>1, <3>2
  <2>11. ASSUME found # {} PROVE may
    <3>1. PICK i \in Filtered(c, cand, m) : TRUE
      BY <2>7, <2>10, <2>11
    <3>2. cand # {}
      BY <3>1 DEF Filtered
    <3>3. ~NothingPosted(l) /\ ~(m.all /\ Unsatisfied(l, m))
      BY <2>2, <3>2
    <3>4. MayMatchCandidates(c, m, l) = cand
      BY <3>3 DEF MayMatchCandidates, SearchCandidates, cand
    <3> QED BY <1>6, <2>6, <3>1, <3>3, <3>4 DEF QueryMayMatch
  <2>12. ASSUME plan.passed = {}, plan.candidates # {} PROVE plan.rejecting # {}
    <3>1. PICK i \in cand : ~MatchesFilters(c[i], m)
      BY <2>8, <2>12 DEF Filtered
    <3> QED BY <2>8, <3>1, PlanTestsAll
  <2>13. Consistent(found, may, plan)
    <3> HIDE DEF found, may, plan
    <3> QED BY <2>10, <2>11, <2>12 DEF Consistent
  <2> QED BY <2>13 DEF Agree, AgreeOn, m, l
<1> QED BY <1>3, <1>4, <1>5, <1>6

(* An index is skipped only when a search in it finds nothing, a plan      *)
(* counts the files that the search finds, and one whose filters drop all  *)
(* of its candidates names a filter that did: for every index, every       *)
(* query and all filters.                                                  *)
THEOREM SearchesConsistent == Spec => []SearchesAgree
<1>1. SearchesAgree
  BY InputsAssumption, SearchAgrees DEF SearchesAgree
<1> QED BY <1>1, PTL

-----------------------------------------------------------------------------
(* What has the terms is found                                             *)

(* When not every term is required and a word of the query is listed with  *)
(* the file, the file is planned.                                          *)
LEMMA ListedIsPlanned ==
  ASSUME NEW c, NEW m, NEW l, ~m.all, NEW i, NEW list \in TokenLists(c, l), i \in list
  PROVE  i \in IF UnionOfBoth(l) THEN TokenOrGrams(c, l)
               ELSE IntersectPlanned(PlannedLists(c, l), m.all)
<1>1. i \in UNION TokenLists(c, l) /\ TokenLists(c, l) # {}
  OBVIOUS
<1>2. i \in TokenOrGrams(c, l)
  BY <1>1 DEF TokenOrGrams, IntersectPlanned
<1>3. i \in IntersectPlanned(PlannedLists(c, l), m.all)
  BY <1>1 DEF PlannedLists, IntersectPlanned
<1> QED BY <1>2, <1>3

(* The trigrams of a query that is one long word, if each of its terms is  *)
(* that word or nothing.                                                   *)
LEMMA GramsOfOneWord ==
  ASSUME NEW q, IsQuery(q), NEW t, ToSet(Tokens(q)) = {t},
         \A term \in ToSet(Terms(q)) : ~(Len(term) > 1)
  PROVE  QueryGrams(q) = Grams[t]
<1>1. /\ Terms(q) \in Seq(Seq(Words))
      /\ UNION {ToSet(s) : s \in ToSet(Terms(q))} = {t}
  BY TokensAre
<1>2. \A term \in ToSet(Terms(q)) : term \in Seq(Words) /\ Len(term) \in Nat
  <2>1. \A j \in 1 .. Len(Terms(q)) : Terms(q)[j] \in Seq(Words)
    BY <1>1, ElementOfSeq
  <2>2. DOMAIN Terms(q) = 1 .. Len(Terms(q))
    BY <1>1, LenProperties
  <2>3. ToSet(Terms(q)) \subseteq Seq(Words)
    BY <2>1, <2>2 DEF ToSet
  <2> QED BY <2>3, LenProperties
<1>3. ASSUME NEW term \in ToSet(Terms(q))
      PROVE  GramsOf(term) = UNION {Grams[w] : w \in ToSet(term)}
  <2> DEFINE n == Len(term)
  <2>0. n \in Nat /\ ~(n > 1)
    BY <1>2
  <2> HIDE DEF n
  <2>1. n \in {0, 1}
    BY <2>0
  <2>2. Joints(term) = {}
    BY <2>1 DEF Joints, n
  <2> QED BY <2>2 DEF GramsOf
<1>4. ASSUME NEW g \in QueryGrams(q) PROVE g \in Grams[t]
  <2>1. PICK term \in ToSet(Terms(q)) : g \in GramsOf(term)
    BY DEF QueryGrams
  <2>2. PICK w \in ToSet(term) : g \in Grams[w]
    BY <1>3, <2>1
  <2>3. w = t
    BY <1>1, <2>1, <2>2
  <2> QED BY <2>2, <2>3
<1>5. ASSUME NEW g \in Grams[t] PROVE g \in QueryGrams(q)
  <2>1. PICK term \in ToSet(Terms(q)) : t \in ToSet(term)
    BY <1>1
  <2>2. g \in GramsOf(term)
    BY <1>3, <2>1
  <2> QED BY <2>1, <2>2 DEF QueryGrams
<1> QED BY <1>4, <1>5

(* A long word that other files have in their text is found in the path of *)
(* this one by its trigrams.                                               *)
LEMMA LongWordIsPlanned ==
  ASSUME WordsNest, NEW c, NEW q, IsQuery(q), NEW m, NEW l, Looked(c, q, m, l),
         NEW i \in DOMAIN c, NEW t, Len(l.tokens) = 1, ToSet(l.tokens) = {t}, l.tokens[1] = t,
         t \in Long, l.content # {}, t \in PathWords(c[i]),
         \A term \in ToSet(Terms(q)) : ~(Len(term) > 1)
  PROVE  UnionOfBoth(l) /\ i \in TokenOrGrams(c, l)
<1>1. QueryGrams(q) = Grams[t] /\ Grams[t] # {}
  BY GramsOfOneWord DEF Looked, WordsNest
<1>2. l.useGrams
  BY <1>1 DEF Looked
<1>3. \A g \in Grams[t] : i \in GramPosted(c, g)
  BY DEF GramPosted, FileGrams
<1>4. l.grams = Grams[t] /\ l.missingGrams = {}
  <2>1. l.grams = {g \in QueryGrams(q) : GramPosted(c, g) # {}}
    BY <1>2 DEF Looked
  <2>2. l.grams = Grams[t]
    BY <1>1, <1>3, <2>1
  <2> QED BY <1>1, <2>2 DEF Looked
<1>5. GramLists(c, l) = {GramPosted(c, g) : g \in Grams[t]}
  BY <1>2, <1>4 DEF GramLists
<1>6. GramLists(c, l) # {} /\ \A list \in GramLists(c, l) : i \in list
  BY <1>1, <1>3, <1>5
<1>7. i \in IntersectPlanned(GramLists(c, l), TRUE)
  BY <1>6 DEF IntersectPlanned
<1> QED BY <1>2, <1>7 DEF UnionOfBoth, TokenOrGrams

(* A file with all words of the query is among the candidates.             *)
LEMMA TermsArePlanned ==
  ASSUME WordsNest, NEW c, NEW q, IsQuery(q), NEW m, NEW l, Looked(c, q, m, l),
         Len(l.tokens) > 1 => m.all \/ m.any,
         NEW i \in DOMAIN c, HasTerms(c[i], l.tokens), l.symbol = {}, ~OnlyInPath(c[i], q, m, l)
  PROVE  i \in ExpandFields(c, IF m.all /\ Unsatisfied(l, m) THEN {}
                               ELSE IF UnionOfBoth(l) THEN TokenOrGrams(c, l)
                               ELSE IntersectPlanned(PlannedLists(c, l), m.all),
                            m.all /\ l.symbol = {}, l)
<1> DEFINE f == c[i]
<1>1. \A t \in ToSet(l.tokens) :
        \/ t \in f.text /\ t \in l.content /\ i \in ContentPosted(c, t)
        \/ t \in PathWords(f) /\ t \in l.path /\ i \in PathPosted(c, t)
  BY DEF HasTerms, Looked, ContentPosted, PathPosted
<1>2. CASE m.all
  <2>1. i \in FieldCandidates(c, l)
    BY <1>1 DEF FieldCandidates
  <2> QED BY <1>2, <2>1 DEF ExpandFields
<1>3. CASE ~m.all
  <2> SUFFICES i \in IF UnionOfBoth(l) THEN TokenOrGrams(c, l)
                     ELSE IntersectPlanned(PlannedLists(c, l), m.all)
    BY <1>3 DEF ExpandFields
  <2>1. /\ l.tokens \in Seq(Words) /\ Len(l.tokens) \in Nat \ {0}
        /\ DOMAIN l.tokens = 1 .. Len(l.tokens)
    <3>1. l.tokens \in Seq(Words) /\ l.tokens # << >>
      BY TokensAre DEF Looked, HasTerms
    <3> QED BY <3>1, LenProperties, EmptySeq
  <2> DEFINE t == l.tokens[1]
  <2>2. t \in ToSet(l.tokens)
    <3>1. 1 \in DOMAIN l.tokens
      BY <2>1
    <3> QED BY <3>1 DEF ToSet
  <2>3. CASE t \in f.text
    <3>1. ContentPosted(c, t) \in TokenLists(c, l) /\ i \in ContentPosted(c, t)
      BY <2>2, <2>3 DEF TokenLists, ContentPosted, Looked
    <3> QED BY <1>3, <3>1, ListedIsPlanned
  <2>4. CASE t \notin f.text
    <3>1. t \in PathWords(f) /\ t \in l.path /\ i \in PathPosted(c, t)
      BY <1>1, <2>2, <2>4
    <3>2. CASE t \in l.pathPlan
      <4>1. PathPosted(c, t) \in TokenLists(c, l)
        BY <3>2 DEF TokenLists
      <4> QED BY <1>3, <3>1, <4>1, ListedIsPlanned
    <3>3. CASE t \notin l.pathPlan
      <4>1. ~m.any /\ t \in l.content
        BY <3>1, <3>3 DEF Looked
      <4>0. ~(Len(l.tokens) > 1)
        BY <1>3, <4>1
      <4>2. Len(l.tokens) = 1
        <5> DEFINE n == Len(l.tokens)
        <5>1. n \in Nat \ {0} /\ ~(n > 1)
          BY <2>1, <4>0
        <5> HIDE DEF n
        <5>2. n = 1
          BY <5>1
        <5> QED BY <5>2 DEF n
      <4>3. ToSet(l.tokens) = {t}
        BY <2>1, <4>2 DEF ToSet
      <4>4. ToSet(l.tokens) \cap f.text = {}
        BY <2>4, <4>3
      <4>5. t \in Long /\ \A term \in ToSet(Terms(q)) : ~(Len(term) > 1)
        BY <1>3, <4>1, <4>2, <4>3, <4>4 DEF OnlyInPath
      <4> HIDE DEF t
      <4>6. l.tokens[1] = t /\ l.content # {}
        BY <4>1 DEF t
      <4>7. UnionOfBoth(l) /\ i \in TokenOrGrams(c, l)
        BY <3>1, <4>2, <4>3, <4>5, <4>6, LongWordIsPlanned
      <4> QED BY <4>7
    <3> QED BY <3>2, <3>3
  <2> QED BY <2>3, <2>4
<1> QED BY <1>2, <1>3

(* A file with all words and phrases of the query, that passes the         *)
(* filters, scores and is kept.                                            *)
LEMMA TermsAreKept ==
  ASSUME NEW c, NEW q, NEW m, NEW l, Looked(c, q, m, l), ToSet(l.tokens) # {},
         NEW i \in DOMAIN c, HasTerms(c[i], l.tokens), PhrasesMatch(c[i], q),
         MatchesFilters(c[i], m)
  PROVE  Kept(c, c[i], q, m, l)
<1> DEFINE f == c[i]
<1>1. ToSet(l.tokens) \subseteq ScoredTokens(c, f, l)
  BY DEF HasTerms, Looked, ScoredTokens, ContentPosted, PathPosted
<1>2. Scores(c, f, q, m, l)
  BY <1>1 DEF Scores
<1>3. \A t \in ToSet(l.tokens) : Has(Shown(c, f, q, m, l), t)
  BY <1>1 DEF Shown, Has
<1>4. SymbolsMatch(f, m)
  BY DEF MatchesFilters
<1>5. m.symbol = << >> \/ \E s \in ScoredSymbols(f, q, m, l) : SymbolNamed(s.name, m.symbol)
  BY <1>4 DEF SymbolsMatch, HasSymbol, ScoredSymbols
<1>6. \A name \in m.notSymbol : \A s \in ScoredSymbols(f, q, m, l) : ~SymbolNamed(s.name, name)
  BY <1>4 DEF SymbolsMatch, HasSymbol, ScoredSymbols
<1> QED BY <1>2, <1>3, <1>5, <1>6 DEF Kept

LEMMA TermsFoundIn ==
  ASSUME WordsNest, NEW c, IsCorpus(c), NEW q, IsQuery(q)
  PROVE  Complete(c, q)
<1> DEFINE m == FiltersOf(q)
           l == Lookup(c, q)
<1>1. IsFilters(m) /\ Looked(c, q, m, l) /\ (Len(Tokens(q)) > 1 => m.all \/ m.any)
  BY FiltersOfTypes, LookupGives
<1>2. l.tokens = Tokens(q)
  BY <1>1 DEF Looked
<1> HIDE DEF m, l
<1> SUFFICES ASSUME NEW i \in DOMAIN c, HasTerms(c[i], l.tokens), PhrasesMatch(c[i], q),
                    RepoMatches(m), MatchesFilters(c[i], m),
                    l.symbol = {}, ~OnlyInPath(c[i], q, m, l)
             PROVE  i \in Found(c, q, m, l)
  BY DEF Complete, CompleteOn, m, l
<1>3. l.tokens # << >> /\ ToSet(l.tokens) # {}
  BY <1>2, HasWord DEF HasTerms
<1>4. ~Impossible(PathLists(c, m))
  BY <1>1, ListsKeep
<1>5. ~NothingPosted(l)
  BY <1>1, <1>3 DEF HasTerms, NothingPosted, Looked, ContentPosted, PathPosted
<1>6. i \in SearchCandidates(c, m, l)
  <2> DEFINE fields == ExpandFields(c, IF m.all /\ Unsatisfied(l, m) THEN {}
                                       ELSE IF UnionOfBoth(l) THEN TokenOrGrams(c, l)
                                       ELSE IntersectPlanned(PlannedLists(c, l), m.all),
                                    m.all /\ l.symbol = {}, l)
  <2>1. i \in fields
    BY <1>1, <1>2, TermsArePlanned
  <2> HIDE DEF fields
  <2>2. i \in ByPathGrams(c, ByAttributes(c, ByKind(c, fields, m), m), m)
    BY <1>1, <2>1, ListsKeep
  <2>3. Len(l.tokens) = 1 => HasToken(c[i], l.tokens[1])
    <3> SUFFICES ASSUME Len(l.tokens) = 1 PROVE HasToken(c[i], l.tokens[1])
      OBVIOUS
    <3>1. l.tokens \in Seq(Words)
      BY <1>2, TokensAre
    <3>2. 1 \in DOMAIN l.tokens
      BY <3>1, LenProperties
    <3>3. l.tokens[1] \in ToSet(l.tokens)
      BY <3>2 DEF ToSet
    <3> QED BY <3>3 DEF HasTerms, HasToken, Has
  <2>4. SearchCandidates(c, m, l)
          = Verified(c, ByPathGrams(c, ByAttributes(c, ByKind(c, fields, m), m), m), l)
    BY DEF SearchCandidates, fields
  <2> QED BY <2>2, <2>3, <2>4 DEF Verified
<1>7. Kept(c, c[i], q, m, l)
  BY <1>1, <1>3, TermsAreKept
<1> QED BY <1>3, <1>4, <1>5, <1>6, <1>7 DEF Found, Filtered

(* A file with every word of the query in its text or its path, and every  *)
(* phrase, that passes the filters, is found, in whichever lists the words *)
(* are posted: for every index, every query and all filters, but for the   *)
(* one word that OnlyInPath describes.                                     *)
THEOREM TermsAreFound == Spec => []TermsFound
<1>1. TermsFound
  BY InputsAssumption, TermsFoundIn DEF TermsFound
<1> QED BY <1>1, PTL

-----------------------------------------------------------------------------
(* A refresh, one path of the walk after the other                         *)

(* out is the function that Refresh defines, up to n.                      *)
Beginning(previous, walk) ==
  [index |-> Empty, gone |-> Missing(previous, walk), reused |-> 0, renamed |-> 0, refreshed |-> 0]
Passes(out, previous, walk, hash, read, n) ==
  out = [i \in 0 .. n |->
           IF i = 0 THEN Beginning(previous, walk)
           ELSE IF Order[i] \in Walked(walk)
             THEN Candidate(previous, walk, hash, read, out[i - 1], Order[i])
           ELSE out[i - 1]]

LEMMA PassesExist ==
  ASSUME NEW previous, NEW walk, NEW hash, NEW read
  PROVE  \A n \in Nat : \E out : Passes(out, previous, walk, hash, read, n)
<1> DEFINE Defined == {n \in Nat : \E out : Passes(out, previous, walk, hash, read, n)}
           Then(entry, p) == IF p \in Walked(walk)
                             THEN Candidate(previous, walk, hash, read, entry, p) ELSE entry
<1>1. 0 \in Defined
  <2>1. Passes([i \in 0 .. 0 |-> Beginning(previous, walk)], previous, walk, hash, read, 0)
    BY DEF Passes
  <2> QED BY <2>1
<1>2. ASSUME NEW n \in Nat, n \in Defined PROVE n + 1 \in Defined
  <2>1. PICK out : Passes(out, previous, walk, hash, read, n)
    BY <1>2
  <2> DEFINE more == [i \in 0 .. n + 1 |->
                        IF i = n + 1 THEN Then(out[n], Order[n + 1]) ELSE out[i]]
  <2> HIDE DEF Then
  <2>2. \A i \in 0 .. n : more[i] = out[i]
    OBVIOUS
  <2>3. \A i \in 0 .. n :
          out[i] = IF i = 0 THEN Beginning(previous, walk) ELSE Then(out[i - 1], Order[i])
    BY <2>1 DEF Passes, Then
  <2>4. more[n + 1] = Then(more[n], Order[n + 1])
    BY <2>2
  <2>5. \A i \in 0 .. n + 1 :
          more[i] = IF i = 0 THEN Beginning(previous, walk) ELSE Then(more[i - 1], Order[i])
    <3> HIDE DEF more
    <3>1. ASSUME NEW i \in 0 .. n, i # 0 PROVE i - 1 \in 0 .. n
      BY <3>1
    <3> QED BY <2>2, <2>3, <2>4, <3>1
  <2>6. Passes(more, previous, walk, hash, read, n + 1)
    BY <2>5 DEF Passes, Then
  <2> QED BY <2>6
<1>3. Nat \subseteq Defined
  <2> HIDE DEF Defined
  <2> QED BY <1>1, <1>2, Induct
<1> QED BY <1>3

(* What is known of a refresh that has been through the paths seen.        *)
Fields == {"index", "gone", "reused", "renamed", "refreshed"}
StatUnchanged(previous, walk, p) == p \in DOMAIN previous /\ SameStat(previous[p], walk[p])
Right(previous, walk, hash, read, out, p) ==
  IF StatUnchanged(previous, walk, p) THEN p \in DOMAIN out.index /\ out.index[p] = previous[p]
  ELSE \/ /\ p \in DOMAIN out.index /\ out.renamed # 0 /\ ~HasNul(TextOf(hash[p]))
          /\ \E q \in Missing(previous, walk) :
               /\ previous[q].text = TextOf(hash[p])
               /\ out.index[p] = Retarget(previous[q], walk[p], TextOf(hash[p]))
       \/ /\ p \in DOMAIN out.index /\ ~HasNul(TextOf(read[p]))
          /\ out.index[p] = FileEntry(p, walk[p], TextOf(read[p]))
       \/ p \notin DOMAIN out.index /\ HasNul(TextOf(read[p]))
Counted(previous, walk, out) ==
  /\ out.reused \in Nat /\ out.renamed \in Nat /\ out.refreshed \in Nat
  /\ IsFiniteSet(DOMAIN out.index) /\ out.reused + out.refreshed = Cardinality(DOMAIN out.index)
  /\ out.gone \subseteq Missing(previous, walk)
  /\ out.renamed + Cardinality(out.gone) = Cardinality(Missing(previous, walk))
Sound(previous, walk, hash, read, out, seen) ==
  /\ DOMAIN out = Fields
  /\ out.index = [p \in DOMAIN out.index |-> out.index[p]]
  /\ DOMAIN out.index \subseteq seen \cap Walked(walk)
  /\ \A p \in seen \cap Walked(walk) : Right(previous, walk, hash, read, out, p)
  /\ Counted(previous, walk, out)
  /\ (\A p \in Walked(walk) : StatUnchanged(previous, walk, p)) => out.refreshed = 0

LEMMA ReusedGives ==
  ASSUME NEW out, DOMAIN out = Fields, NEW p, NEW entry
  PROVE  LET next == Reused(out, p, entry) IN
         /\ DOMAIN next = Fields /\ next.index = With(out.index, p, entry)
         /\ next.reused = out.reused + 1 /\ next.gone = out.gone
         /\ next.renamed = out.renamed /\ next.refreshed = out.refreshed
BY DEF Reused, Fields

LEMMA IndexedGives ==
  ASSUME NEW out, DOMAIN out = Fields, NEW p, NEW entry
  PROVE  LET next == Indexed(out, p, entry) IN
         /\ DOMAIN next = Fields /\ next.index = With(out.index, p, entry)
         /\ next.refreshed = out.refreshed + 1 /\ next.gone = out.gone
         /\ next.renamed = out.renamed /\ next.reused = out.reused
BY DEF Indexed, Fields

(* One more path whose entry goes into the index.                          *)
LEMMA PutIsSound ==
  ASSUME NEW previous, NEW walk, NEW hash, NEW read, NEW out, NEW seen,
         Sound(previous, walk, hash, read, out, seen), IsFiniteSet(Missing(previous, walk)),
         NEW p \in Walked(walk), p \notin seen, NEW entry, NEW next,
         DOMAIN next = Fields, next.index = With(out.index, p, entry),
         \/ next.reused = out.reused + 1 /\ next.refreshed = out.refreshed
         \/ next.reused = out.reused /\ next.refreshed = out.refreshed + 1
              /\ ~StatUnchanged(previous, walk, p),
         \/ next.gone = out.gone /\ next.renamed = out.renamed
         \/ \E q \in out.gone : next.gone = out.gone \ {q} /\ next.renamed = out.renamed + 1,
         Right(previous, walk, hash, read, next, p)
  PROVE  Sound(previous, walk, hash, read, next, seen \cup {p})
<1>1. /\ DOMAIN next.index = {p} \cup DOMAIN out.index
      /\ \A x \in DOMAIN out.index : x # p => next.index[x] = out.index[x]
  BY DEF With
<1>8. next.index = [x \in DOMAIN next.index |-> next.index[x]]
  BY DEF With
<1>2. /\ DOMAIN out.index \subseteq seen \cap Walked(walk)
      /\ \A x \in seen \cap Walked(walk) : Right(previous, walk, hash, read, out, x)
      /\ Counted(previous, walk, out)
      /\ (\A x \in Walked(walk) : StatUnchanged(previous, walk, x)) => out.refreshed = 0
  BY DEF Sound
<1>3. p \notin DOMAIN out.index
  BY <1>2
<1>4. Counted(previous, walk, next)
  <2>1. /\ out.reused \in Nat /\ out.renamed \in Nat /\ out.refreshed \in Nat
        /\ IsFiniteSet(DOMAIN out.index)
        /\ out.reused + out.refreshed = Cardinality(DOMAIN out.index)
        /\ out.gone \subseteq Missing(previous, walk)
        /\ out.renamed + Cardinality(out.gone) = Cardinality(Missing(previous, walk))
    BY <1>2 DEF Counted
  <2>2. /\ IsFiniteSet(DOMAIN next.index)
        /\ Cardinality(DOMAIN next.index) = Cardinality(DOMAIN out.index) + 1
    BY <1>1, <1>3, <2>1, FS_AddElement
  <2>3. /\ next.reused \in Nat /\ next.refreshed \in Nat
        /\ next.reused + next.refreshed = Cardinality(DOMAIN next.index)
    BY <2>1, <2>2
  <2>4. /\ next.renamed \in Nat /\ next.gone \subseteq Missing(previous, walk)
        /\ next.renamed + Cardinality(next.gone) = Cardinality(Missing(previous, walk))
    <3>1. CASE next.gone = out.gone /\ next.renamed = out.renamed
      BY <2>1, <3>1
    <3>2. ASSUME NEW q \in out.gone, next.gone = out.gone \ {q}, next.renamed = out.renamed + 1
          PROVE  /\ next.renamed \in Nat /\ next.gone \subseteq Missing(previous, walk)
                 /\ next.renamed + Cardinality(next.gone) = Cardinality(Missing(previous, walk))
      <4>1. IsFiniteSet(out.gone)
        BY <2>1, FS_Subset
      <4>2. Cardinality(out.gone) \in Nat /\ Cardinality(next.gone) = Cardinality(out.gone) - 1
        BY <3>2, <4>1, FS_CardinalityType, FS_RemoveElement
      <4> QED BY <2>1, <3>2, <4>2
    <3> QED BY <3>1, <3>2
  <2> QED BY <2>2, <2>3, <2>4 DEF Counted
<1>5. \A x \in (seen \cup {p}) \cap Walked(walk) : Right(previous, walk, hash, read, next, x)
  <2> SUFFICES ASSUME NEW x \in seen \cap Walked(walk)
               PROVE  Right(previous, walk, hash, read, next, x)
    OBVIOUS
  <2>1. x # p /\ Right(previous, walk, hash, read, out, x)
    BY <1>2
  <2>2. /\ x \in DOMAIN next.index <=> x \in DOMAIN out.index
        /\ x \in DOMAIN out.index => next.index[x] = out.index[x]
    BY <1>1, <2>1
  <2>3. out.renamed # 0 => next.renamed # 0
    BY <1>2 DEF Counted
  <2> QED BY <2>1, <2>2, <2>3 DEF Right
<1>6. (\A x \in Walked(walk) : StatUnchanged(previous, walk, x)) => next.refreshed = 0
  BY <1>2
<1>7. DOMAIN next.index \subseteq (seen \cup {p}) \cap Walked(walk)
  BY <1>1, <1>2
<1> QED BY <1>4, <1>5, <1>6, <1>7, <1>8 DEF Sound

LEMMA CandidateIsSound ==
  ASSUME NEW previous, NEW walk, NEW hash, NEW read, NEW out, NEW seen,
         Sound(previous, walk, hash, read, out, seen), IsFiniteSet(Missing(previous, walk)),
         NEW p \in Walked(walk), p \notin seen
  PROVE  Sound(previous, walk, hash, read, Candidate(previous, walk, hash, read, out, p), seen \cup {p})
<1> DEFINE version == walk[p]
           text == TextOf(hash[p])
           from == Takeable(previous, out.gone, p, version, text)
           old == CHOOSE q \in from : TRUE
           next == Candidate(previous, walk, hash, read, out, p)
<1>0. /\ DOMAIN out = Fields /\ Counted(previous, walk, out)
      /\ DOMAIN out.index \subseteq seen \cap Walked(walk)
  BY DEF Sound
<1>1. CASE StatUnchanged(previous, walk, p)
  <2>1. next = Reused(out, p, previous[p])
    BY <1>1 DEF Candidate, StatUnchanged
  <2> HIDE DEF next
  <2>2. /\ DOMAIN next = Fields /\ next.index = With(out.index, p, previous[p])
        /\ next.reused = out.reused + 1 /\ next.gone = out.gone
        /\ next.renamed = out.renamed /\ next.refreshed = out.refreshed
    BY <1>0, <2>1, ReusedGives
  <2>3. Right(previous, walk, hash, read, next, p)
    BY <1>1, <2>2 DEF With, Right
  <2>4. Sound(previous, walk, hash, read, next, seen \cup {p})
    BY <2>2, <2>3, PutIsSound
  <2> QED BY <2>4 DEF next
<1>2. CASE ~StatUnchanged(previous, walk, p) /\ ~HasNul(text) /\ from # {}
  <2> DEFINE entry == Retarget(previous[old], version, text)
             half == Reused(out, p, entry)
  <2>1. next = [half EXCEPT !.gone = @ \ {old}, !.renamed = @ + 1]
    BY <1>2 DEF Candidate, StatUnchanged
  <2>2. old \in from
    BY <1>2
  <2>3. old \in out.gone /\ old \in Missing(previous, walk) /\ previous[old].text = text
    BY <1>0, <2>2 DEF Takeable, Counted
  <2> HIDE DEF next, old, entry, from
  <2>4. /\ DOMAIN half = Fields /\ half.index = With(out.index, p, entry)
        /\ half.reused = out.reused + 1 /\ half.gone = out.gone
        /\ half.renamed = out.renamed /\ half.refreshed = out.refreshed
    BY <1>0, ReusedGives
  <2> HIDE DEF half
  <2>5. /\ DOMAIN next = Fields /\ next.index = With(out.index, p, entry)
        /\ next.reused = out.reused + 1 /\ next.gone = out.gone \ {old}
        /\ next.renamed = out.renamed + 1 /\ next.refreshed = out.refreshed
    BY <2>1, <2>4 DEF Fields
  <2>6. Right(previous, walk, hash, read, next, p)
    <3>1. p \in DOMAIN next.index /\ next.index[p] = entry
      BY <2>5 DEF With
    <3>2. next.renamed # 0
      BY <1>0, <2>5 DEF Counted
    <3> QED BY <1>2, <2>3, <3>1, <3>2 DEF Right, entry
  <2>7. Sound(previous, walk, hash, read, next, seen \cup {p})
    BY <2>3, <2>5, <2>6, PutIsSound
  <2> QED BY <2>7 DEF next
<1>3. CASE ~StatUnchanged(previous, walk, p) /\ ~(~HasNul(text) /\ from # {}) /\ HasNul(TextOf(read[p]))
  <2>1. next = out
    BY <1>3 DEF Candidate, StatUnchanged
  <2>2. Right(previous, walk, hash, read, out, p)
    BY <1>0, <1>3 DEF Right
  <2>3. Sound(previous, walk, hash, read, out, seen \cup {p})
    BY <2>2 DEF Sound
  <2> QED BY <2>1, <2>3
<1>4. CASE ~StatUnchanged(previous, walk, p) /\ ~(~HasNul(text) /\ from # {}) /\ ~HasNul(TextOf(read[p]))
  <2> DEFINE entry == FileEntry(p, version, TextOf(read[p]))
  <2>1. next = Indexed(out, p, entry)
    BY <1>4 DEF Candidate, StatUnchanged
  <2> HIDE DEF next, entry
  <2>2. /\ DOMAIN next = Fields /\ next.index = With(out.index, p, entry)
        /\ next.refreshed = out.refreshed + 1 /\ next.gone = out.gone
        /\ next.renamed = out.renamed /\ next.reused = out.reused
    BY <1>0, <2>1, IndexedGives
  <2>3. Right(previous, walk, hash, read, next, p)
    BY <1>4, <2>2 DEF With, Right, entry
  <2>4. Sound(previous, walk, hash, read, next, seen \cup {p})
    BY <1>4, <2>2, <2>3, PutIsSound
  <2> QED BY <2>4 DEF next
<1> QED BY <1>1, <1>2, <1>3, <1>4

LEMMA RefreshIsSound ==
  ASSUME NEW previous, NEW walk, NEW hash, NEW read, IsFiniteSet(Missing(previous, walk))
  PROVE  Sound(previous, walk, hash, read, Refresh(previous, walk, hash, read), ToSet(Order))
<1>0. Order \in Seq(ToSet(Order)) /\ \A i, j \in DOMAIN Order : Order[i] = Order[j] => i = j
  BY TreesAssumption
<1>1. Len(Order) \in Nat /\ DOMAIN Order = 1 .. Len(Order)
  BY <1>0, LenProperties
<1> DEFINE out == CHOOSE out : Passes(out, previous, walk, hash, read, Len(Order))
           Seen(n) == {Order[i] : i \in 1 .. n}
           Good(n) == Sound(previous, walk, hash, read, out[n], Seen(n))
           Goods == {n \in Nat : n <= Len(Order) => Good(n)}
<1>2. Refresh(previous, walk, hash, read) = out[Len(Order)]
  BY DEF Refresh, Passes, Beginning
<1>3. Passes(out, previous, walk, hash, read, Len(Order))
  BY <1>1, PassesExist
<1> HIDE DEF out
<1>4. \A i \in 0 .. Len(Order) :
        out[i] = IF i = 0 THEN Beginning(previous, walk)
                 ELSE IF Order[i] \in Walked(walk)
                   THEN Candidate(previous, walk, hash, read, out[i - 1], Order[i])
                 ELSE out[i - 1]
  BY <1>3 DEF Passes
<1>5. 0 \in Goods
  <2> DEFINE start == Beginning(previous, walk)
  <2>1. out[0] = start /\ Seen(0) = {}
    BY <1>1, <1>4
  <2>2. /\ DOMAIN start = Fields /\ start.index = Empty /\ start.gone = Missing(previous, walk)
        /\ start.reused = 0 /\ start.renamed = 0 /\ start.refreshed = 0
    BY DEF Beginning, Fields
  <2>3. DOMAIN Empty = {} /\ Empty = [p \in DOMAIN Empty |-> Empty[p]]
    BY DEF Empty
  <2> HIDE DEF start
  <2>4. Counted(previous, walk, start)
    <3>1. Cardinality(Missing(previous, walk)) \in Nat
      BY FS_CardinalityType
    <3> QED BY <2>2, <2>3, <3>1, FS_EmptySet DEF Counted
  <2>5. Sound(previous, walk, hash, read, start, {})
    BY <2>2, <2>3, <2>4 DEF Sound
  <2>6. Good(0)
    BY <2>1, <2>5
  <2> QED BY <2>6
<1>6. ASSUME NEW n \in Nat, n \in Goods PROVE n + 1 \in Goods
  <2> SUFFICES ASSUME n + 1 <= Len(Order) PROVE Good(n + 1)
    OBVIOUS
  <2>1. n + 1 \in DOMAIN Order /\ n <= Len(Order) /\ (n + 1) - 1 = n /\ n + 1 # 0
    BY <1>1
  <2> DEFINE p == Order[n + 1]
  <2>2. Sound(previous, walk, hash, read, out[n], Seen(n))
    BY <1>6, <2>1
  <2>3. Seen(n + 1) = Seen(n) \cup {p} /\ p \notin Seen(n)
    <3>1. 1 .. n + 1 = (1 .. n) \cup {n + 1}
      OBVIOUS
    <3>2. \A i \in 1 .. n : i \in DOMAIN Order /\ i # n + 1
      BY <1>1, <2>1
    <3> QED BY <1>0, <2>1, <3>1, <3>2
  <2>4. out[n + 1] = IF p \in Walked(walk) THEN Candidate(previous, walk, hash, read, out[n], p)
                     ELSE out[n]
    BY <1>1, <1>4, <2>1
  <2> HIDE DEF Seen, p
  <2>5. CASE p \in Walked(walk)
    <3>1. out[n + 1] = Candidate(previous, walk, hash, read, out[n], p)
      BY <2>4, <2>5
    <3>2. Sound(previous, walk, hash, read, Candidate(previous, walk, hash, read, out[n], p),
                Seen(n) \cup {p})
      BY <2>2, <2>3, <2>5, CandidateIsSound
    <3> QED BY <2>3, <3>1, <3>2
  <2>6. CASE p \notin Walked(walk)
    <3>1. out[n + 1] = out[n] /\ Seen(n + 1) \cap Walked(walk) = Seen(n) \cap Walked(walk)
      BY <2>3, <2>4, <2>6
    <3>2. Sound(previous, walk, hash, read, out[n], Seen(n + 1))
      BY <2>2, <3>1 DEF Sound
    <3> QED BY <3>1, <3>2
  <2> QED BY <2>5, <2>6
<1>7. Good(Len(Order))
  <2>1. Nat \subseteq Goods
    <3> HIDE DEF Goods
    <3> QED BY <1>5, <1>6, Induct
  <2> HIDE DEF Good
  <2> QED BY <1>1, <2>1
<1>8. Seen(Len(Order)) = ToSet(Order)
  BY <1>1 DEF ToSet
<1> QED BY <1>2, <1>7, <1>8

(* What an index has always been: of paths of the walk, with the terms of  *)
(* its texts, and none of a text with a NUL.                               *)
IsIndex(index) ==
  /\ index = [p \in DOMAIN index |-> index[p]]
  /\ DOMAIN index \subseteq ToSet(Order)
  /\ \A p \in DOMAIN index :
       /\ index[p] = [size |-> index[p].size, mtime |-> index[p].mtime, text |-> index[p].text,
                      terms |-> index[p].text, by |-> index[p].by]
       /\ ~HasNul(index[p].text)

LEMMA WalkIsFinite == IsFiniteSet(ToSet(Order))
<1>1. Order \in Seq(ToSet(Order))
  BY TreesAssumption
<1>2. Len(Order) \in Nat /\ DOMAIN Order = 1 .. Len(Order)
  BY <1>1, LenProperties
<1>3. IsFiniteSet(1 .. Len(Order))
  BY <1>2, FS_Interval
<1>4. Order \in Surjection(1 .. Len(Order), ToSet(Order))
  <2>1. Order \in [1 .. Len(Order) -> ToSet(Order)]
    BY <1>1, <1>2
  <2> QED BY <1>2, <2>1 DEF Surjection, ToSet
<1> QED BY <1>3, <1>4, FS_Surjection

LEMMA MissingIsFinite ==
  ASSUME NEW index, IsIndex(index), NEW tree PROVE IsFiniteSet(Missing(index, tree))
BY WalkIsFinite, FS_Subset DEF IsIndex, Missing

LEMMA RetargetGives ==
  ASSUME NEW entry, NEW version, NEW size, NEW mtime, NEW text, NEW by,
         entry = [size |-> size, mtime |-> mtime, text |-> text, terms |-> text, by |-> by]
  PROVE  Retarget(entry, version, text)
           = [size |-> version.size, mtime |-> version.mtime, text |-> text, terms |-> text,
              by |-> by]
<1> DEFINE new == Retarget(entry, version, text)
<1>1. DOMAIN entry = {"size", "mtime", "text", "terms", "by"}
  OBVIOUS
<1>2. /\ entry.terms = text /\ entry.by = by
  OBVIOUS
<1>3. new = [x \in {"size", "mtime", "text", "terms", "by"} |-> new[x]]
  BY <1>1 DEF Retarget
<1>4. /\ new.size = version.size /\ new.mtime = version.mtime /\ new.text = text
      /\ new.terms = text /\ new.by = by
  BY <1>1, <1>2 DEF Retarget
<1> HIDE DEF new
<1>5. new = [size |-> version.size, mtime |-> version.mtime, text |-> text, terms |-> text,
             by |-> by]
  BY <1>3, <1>4
<1> QED BY <1>5 DEF new

(* A refreshed index, path by path: its stat is that of the walk, its text *)
(* one that was there at some time of the refresh.                         *)
LEMMA RefreshedEntry ==
  ASSUME NEW previous, IsIndex(previous), NEW walk, NEW hash, NEW read, NEW p \in Walked(walk)
  PROVE  LET new == Refresh(previous, walk, hash, read).index IN
         \/ /\ StatUnchanged(previous, walk, p) /\ p \in DOMAIN new /\ new[p] = previous[p]
         \/ \E text \in {TextOf(hash[p]), TextOf(read[p])}, by \in {new[p].by} :
              /\ ~StatUnchanged(previous, walk, p) /\ ~HasNul(text) /\ p \in DOMAIN new
              /\ new[p] = [size |-> walk[p].size, mtime |-> walk[p].mtime, text |-> text,
                           terms |-> text, by |-> by]
         \/ ~StatUnchanged(previous, walk, p) /\ p \notin DOMAIN new /\ HasNul(TextOf(read[p]))
<1> DEFINE out == Refresh(previous, walk, hash, read)
           new == out.index
<1>1. Right(previous, walk, hash, read, out, p)
  <2>1. p \in ToSet(Order)
    BY DEF Walked
  <2>2. Sound(previous, walk, hash, read, out, ToSet(Order))
    BY MissingIsFinite, RefreshIsSound
  <2> HIDE DEF out
  <2> QED BY <2>1, <2>2 DEF Sound
<1> HIDE DEF out
<1> SUFFICES \/ StatUnchanged(previous, walk, p) /\ p \in DOMAIN new /\ new[p] = previous[p]
             \/ \E text \in {TextOf(hash[p]), TextOf(read[p])}, by \in {new[p].by} :
                  /\ ~StatUnchanged(previous, walk, p) /\ ~HasNul(text) /\ p \in DOMAIN new
                  /\ new[p] = [size |-> walk[p].size, mtime |-> walk[p].mtime, text |-> text,
                               terms |-> text, by |-> by]
             \/ ~StatUnchanged(previous, walk, p) /\ p \notin DOMAIN new /\ HasNul(TextOf(read[p]))
  BY DEF out
<1>2. CASE StatUnchanged(previous, walk, p)
  BY <1>1, <1>2 DEF Right
<1>3. CASE ~StatUnchanged(previous, walk, p)
  <2>1. ASSUME p \in DOMAIN new, ~HasNul(TextOf(hash[p])), NEW q \in Missing(previous, walk),
               previous[q].text = TextOf(hash[p]),
               new[p] = Retarget(previous[q], walk[p], TextOf(hash[p]))
        PROVE  \E by \in {new[p].by} :
                 new[p] = [size |-> walk[p].size, mtime |-> walk[p].mtime,
                           text |-> TextOf(hash[p]), terms |-> TextOf(hash[p]), by |-> by]
    <3>1. previous[q] = [size |-> previous[q].size, mtime |-> previous[q].mtime,
                         text |-> TextOf(hash[p]), terms |-> TextOf(hash[p]),
                         by |-> previous[q].by]
      BY <2>1 DEF IsIndex, Missing
    <3>2. Retarget(previous[q], walk[p], TextOf(hash[p]))
            = [size |-> walk[p].size, mtime |-> walk[p].mtime, text |-> TextOf(hash[p]),
               terms |-> TextOf(hash[p]), by |-> previous[q].by]
      BY <3>1, RetargetGives
    <3>3. new[p] = [size |-> walk[p].size, mtime |-> walk[p].mtime, text |-> TextOf(hash[p]),
                    terms |-> TextOf(hash[p]), by |-> previous[q].by]
      BY <2>1, <3>2
    <3> HIDE DEF new
    <3>4. new[p].by = previous[q].by
      BY <3>3
    <3> QED BY <3>3, <3>4
  <2>2. ASSUME new[p] = FileEntry(p, walk[p], TextOf(read[p]))
        PROVE  \E by \in {new[p].by} :
                 new[p] = [size |-> walk[p].size, mtime |-> walk[p].mtime,
                           text |-> TextOf(read[p]), terms |-> TextOf(read[p]), by |-> by]
    BY <2>2 DEF FileEntry
  <2> HIDE DEF new
  <2>3. \/ /\ p \in DOMAIN new /\ ~HasNul(TextOf(hash[p]))
           /\ \E q \in Missing(previous, walk) :
                /\ previous[q].text = TextOf(hash[p])
                /\ new[p] = Retarget(previous[q], walk[p], TextOf(hash[p]))
        \/ /\ p \in DOMAIN new /\ ~HasNul(TextOf(read[p]))
           /\ new[p] = FileEntry(p, walk[p], TextOf(read[p]))
        \/ p \notin DOMAIN new /\ HasNul(TextOf(read[p]))
    BY <1>1, <1>3 DEF Right, new
  <2> QED BY <1>3, <2>1, <2>2, <2>3
<1> QED BY <1>2, <1>3

LEMMA RefreshedIsIndex ==
  ASSUME NEW previous, IsIndex(previous), NEW walk, NEW hash, NEW read
  PROVE  LET new == Refresh(previous, walk, hash, read).index IN
         IsIndex(new) /\ DOMAIN new \subseteq Walked(walk)
<1> DEFINE out == Refresh(previous, walk, hash, read)
           new == out.index
<1>1. Sound(previous, walk, hash, read, out, ToSet(Order))
  BY MissingIsFinite, RefreshIsSound
<1>2. new = [p \in DOMAIN new |-> new[p]] /\ DOMAIN new \subseteq ToSet(Order) \cap Walked(walk)
  BY <1>1 DEF Sound
<1>3. ASSUME NEW p \in DOMAIN new
      PROVE  /\ new[p] = [size |-> new[p].size, mtime |-> new[p].mtime, text |-> new[p].text,
                          terms |-> new[p].text, by |-> new[p].by]
             /\ ~HasNul(new[p].text)
  <2>1. p \in Walked(walk)
    BY <1>2
  <2>2. \/ /\ StatUnchanged(previous, walk, p) /\ new[p] = previous[p]
        \/ \E text \in {TextOf(hash[p]), TextOf(read[p])}, by \in {new[p].by} :
             /\ ~HasNul(text)
             /\ new[p] = [size |-> walk[p].size, mtime |-> walk[p].mtime, text |-> text,
                          terms |-> text, by |-> by]
    BY <2>1, RefreshedEntry
  <2> HIDE DEF new
  <2>3. CASE StatUnchanged(previous, walk, p) /\ new[p] = previous[p]
    BY <2>3 DEF IsIndex, StatUnchanged
  <2>4. ASSUME NEW text, NEW by, ~HasNul(text),
               new[p] = [size |-> walk[p].size, mtime |-> walk[p].mtime, text |-> text,
                         terms |-> text, by |-> by]
        PROVE  /\ new[p] = [size |-> new[p].size, mtime |-> new[p].mtime, text |-> new[p].text,
                            terms |-> new[p].text, by |-> new[p].by]
               /\ ~HasNul(new[p].text)
    <3>1. /\ new[p].size = walk[p].size /\ new[p].mtime = walk[p].mtime /\ new[p].text = text
          /\ new[p].by = by
      BY <2>4
    <3> QED BY <2>4, <3>1
  <2> QED BY <2>2, <2>3, <2>4
<1> HIDE DEF new
<1>4. IsIndex(new)
  BY <1>2, <1>3 DEF IsIndex
<1> QED BY <1>2, <1>4 DEF new

(* What a build makes of a tree.                                           *)
LEMMA EmptyIsIndex == IsIndex(Empty) /\ DOMAIN Empty = {}
<1>1. DOMAIN Empty = {} /\ Empty = [p \in DOMAIN Empty |-> Empty[p]]
  BY DEF Empty
<1> QED BY <1>1 DEF IsIndex

LEMMA BuildGives ==
  ASSUME NEW tree
  PROVE  /\ IsIndex(Build(tree)) /\ DOMAIN Build(tree) \subseteq Walked(tree)
         /\ \A p \in Walked(tree) :
              /\ p \in DOMAIN Build(tree) <=> ~HasNul(TextOf(tree[p]))
              /\ p \in DOMAIN Build(tree) =>
                   Build(tree)[p] = FileEntry(p, tree[p], TextOf(tree[p]))
<1> DEFINE out == Refresh(Empty, tree, tree, tree)
<1>1. Build(tree) = out.index
  BY DEF Build, Quiet
<1>2. IsIndex(out.index) /\ DOMAIN out.index \subseteq Walked(tree)
  BY EmptyIsIndex, RefreshedIsIndex
<1>3. Sound(Empty, tree, tree, tree, out, ToSet(Order))
  BY EmptyIsIndex, MissingIsFinite, RefreshIsSound
<1> HIDE DEF out
<1>4. ASSUME NEW p \in Walked(tree)
      PROVE  /\ p \in DOMAIN out.index <=> ~HasNul(TextOf(tree[p]))
             /\ p \in DOMAIN out.index =>
                  out.index[p] = FileEntry(p, tree[p], TextOf(tree[p]))
  <2>1. p \in ToSet(Order)
    BY DEF Walked
  <2>2. Right(Empty, tree, tree, tree, out, p)
    BY <1>3, <2>1 DEF Sound
  <2>3. ~StatUnchanged(Empty, tree, p) /\ Missing(Empty, tree) = {}
    BY EmptyIsIndex DEF StatUnchanged, Missing
  <2> QED BY <2>2, <2>3 DEF Right
<1> QED BY <1>1, <1>2, <1>4

LEMMA ByReplaced ==
  ASSUME NEW entry, NEW size, NEW mtime, NEW text, NEW by, NEW other,
         entry = [size |-> size, mtime |-> mtime, text |-> text, terms |-> text, by |-> by]
  PROVE  [entry EXCEPT !.by = other]
           = [size |-> size, mtime |-> mtime, text |-> text, terms |-> text, by |-> other]
<1> DEFINE new == [entry EXCEPT !.by = other]
<1>1. DOMAIN entry = {"size", "mtime", "text", "terms", "by"}
  OBVIOUS
<1>2. entry.size = size /\ entry.mtime = mtime /\ entry.text = text /\ entry.terms = text
  OBVIOUS
<1>3. new = [x \in {"size", "mtime", "text", "terms", "by"} |-> new[x]]
  BY <1>1
<1>4. /\ new.size = size /\ new.mtime = mtime /\ new.text = text
      /\ new.terms = text /\ new.by = other
  BY <1>1, <1>2
<1> HIDE DEF new
<1>5. new = [size |-> size, mtime |-> mtime, text |-> text, terms |-> text, by |-> other]
  BY <1>3, <1>4
<1> QED BY <1>5 DEF new

(* A refresh without edits makes of an index what a build makes, its       *)
(* counters add up, and it leaves alone what is fresh.                     *)
LEMMA QuietConverges ==
  ASSUME NEW index, IsIndex(index), NEW tree
  PROVE  Converges(index, tree)
<1> DEFINE out == Quiet(index, tree)
           new == out.index
           rightly == {p \in DOMAIN new : new[p].by = ExtractorOf[p]}
<1>1. out = Refresh(index, tree, tree, tree)
  BY DEF Quiet
<1>2. Sound(index, tree, tree, tree, out, ToSet(Order)) /\ IsFiniteSet(Missing(index, tree))
  BY <1>1, MissingIsFinite, RefreshIsSound
<1>3. IsIndex(new) /\ DOMAIN new \subseteq Walked(tree)
  BY <1>1, RefreshedIsIndex
<1>4. \A p \in Walked(tree) :
        \/ /\ StatUnchanged(index, tree, p) /\ p \in DOMAIN new /\ new[p] = index[p]
        \/ /\ ~StatUnchanged(index, tree, p) /\ ~HasNul(TextOf(tree[p])) /\ p \in DOMAIN new
           /\ \E by \in {new[p].by} :
                new[p] = [size |-> tree[p].size, mtime |-> tree[p].mtime,
                          text |-> TextOf(tree[p]), terms |-> TextOf(tree[p]), by |-> by]
        \/ ~StatUnchanged(index, tree, p) /\ p \notin DOMAIN new /\ HasNul(TextOf(tree[p]))
  BY <1>1, RefreshedEntry
<1> HIDE DEF out
<1>5. ASSUME NEW p \in Walked(tree), ~Disguised(index, tree, p)
      PROVE  LikeBuilt(new, tree, p)
  <2>0. /\ p \in DOMAIN Build(tree) <=> ~HasNul(TextOf(tree[p]))
        /\ p \in DOMAIN Build(tree) =>
             Build(tree)[p] = [size |-> tree[p].size, mtime |-> tree[p].mtime,
                               text |-> TextOf(tree[p]), terms |-> TextOf(tree[p]),
                               by |-> ExtractorOf[p]]
    BY BuildGives DEF FileEntry
  <2>1. ASSUME NEW by, ~HasNul(TextOf(tree[p])), p \in DOMAIN new,
               new[p] = [size |-> tree[p].size, mtime |-> tree[p].mtime,
                         text |-> TextOf(tree[p]), terms |-> TextOf(tree[p]), by |-> by]
        PROVE  LikeBuilt(new, tree, p)
    <3>1. [new[p] EXCEPT !.by = ExtractorOf[p]]
            = [size |-> tree[p].size, mtime |-> tree[p].mtime, text |-> TextOf(tree[p]),
               terms |-> TextOf(tree[p]), by |-> ExtractorOf[p]]
      BY <2>1, ByReplaced
    <3> QED BY <2>0, <2>1, <3>1 DEF LikeBuilt
  <2>2. CASE StatUnchanged(index, tree, p) /\ p \in DOMAIN new /\ new[p] = index[p]
    <3>1. /\ index[p].size = tree[p].size /\ index[p].mtime = tree[p].mtime
          /\ index[p].text = TextOf(tree[p]) /\ p \in DOMAIN index
      BY <1>5, <2>2 DEF StatUnchanged, Disguised, SameStat
    <3>2. /\ index[p] = [size |-> tree[p].size, mtime |-> tree[p].mtime,
                         text |-> TextOf(tree[p]), terms |-> TextOf(tree[p]),
                         by |-> index[p].by]
          /\ ~HasNul(TextOf(tree[p]))
      BY <3>1 DEF IsIndex
    <3> HIDE DEF new
    <3> QED BY <2>1, <2>2, <3>2
  <2>3. CASE p \notin DOMAIN new /\ HasNul(TextOf(tree[p]))
    BY <2>0, <2>3 DEF LikeBuilt
  <2> QED BY <1>4, <2>1, <2>2, <2>3
<1>6. ASSUME out.renamed = 0, \A p \in DOMAIN index : index[p].by = ExtractorOf[p]
      PROVE  rightly = DOMAIN new
  <2> SUFFICES ASSUME NEW p \in DOMAIN new PROVE new[p].by = ExtractorOf[p]
    OBVIOUS
  <2>1. p \in ToSet(Order) \cap Walked(tree)
    BY <1>3 DEF Walked
  <2>2. Right(index, tree, tree, tree, out, p)
    BY <1>2, <2>1 DEF Sound
  <2>3. \/ StatUnchanged(index, tree, p) /\ new[p] = index[p]
        \/ new[p] = FileEntry(p, tree[p], TextOf(tree[p]))
    BY <1>6, <2>2 DEF Right
  <2> QED BY <1>6, <2>3 DEF StatUnchanged, FileEntry
<1>7. /\ out.reused + out.refreshed = Cardinality(DOMAIN new)
      /\ Deleted(index, tree, out) + out.renamed = Cardinality(Missing(index, tree))
  <2>1. /\ out.reused + out.refreshed = Cardinality(DOMAIN new) /\ out.renamed \in Nat
        /\ out.gone \subseteq Missing(index, tree)
        /\ out.renamed + Cardinality(out.gone) = Cardinality(Missing(index, tree))
    BY <1>2 DEF Sound, Counted
  <2>2. Cardinality(out.gone) \in Nat /\ Cardinality(Missing(index, tree)) \in Nat
    BY <1>2, <2>1, FS_Subset, FS_CardinalityType
  <2> QED BY <2>1, <2>2 DEF Deleted
<1>8. ASSUME ~Stale(index, tree) PROVE new = index /\ out.refreshed = 0
  <2>1. \A p \in Walked(tree) : StatUnchanged(index, tree, p)
    BY <1>8 DEF Stale, StatUnchanged
  <2>2. DOMAIN index \subseteq Walked(tree)
    BY <1>8 DEF Stale, Missing
  <2>3. DOMAIN new = DOMAIN index /\ \A p \in DOMAIN index : new[p] = index[p]
    BY <1>3, <1>4, <2>1, <2>2 DEF StatUnchanged
  <2>4. out.refreshed = 0
    BY <1>2, <2>1 DEF Sound
  <2>5. new = [p \in DOMAIN new |-> new[p]] /\ index = [p \in DOMAIN index |-> index[p]]
    BY <1>3 DEF IsIndex
  <2> HIDE DEF new
  <2> QED BY <2>3, <2>4, <2>5
<1>9. Stale(new, tree) <=> \E p \in Walked(tree) : HasNul(TextOf(tree[p])) /\ p \notin DOMAIN new
  <2>1. Missing(new, tree) = {}
    BY <1>3 DEF Missing
  <2>2. \A p \in Walked(tree) : p \in DOMAIN new => SameStat(new[p], tree[p])
    <3> SUFFICES ASSUME NEW p \in Walked(tree), p \in DOMAIN new PROVE SameStat(new[p], tree[p])
      OBVIOUS
    <3>1. CASE StatUnchanged(index, tree, p) /\ new[p] = index[p]
      BY <3>1 DEF StatUnchanged
    <3>2. ASSUME NEW by,
                 new[p] = [size |-> tree[p].size, mtime |-> tree[p].mtime,
                           text |-> TextOf(tree[p]), terms |-> TextOf(tree[p]), by |-> by]
          PROVE  SameStat(new[p], tree[p])
      <4> HIDE DEF new
      <4>1. new[p].size = tree[p].size /\ new[p].mtime = tree[p].mtime
        BY <3>2
      <4> QED BY <4>1 DEF SameStat
    <3> QED BY <1>4, <3>1, <3>2
  <2>3. \A p \in Walked(tree) : p \notin DOMAIN new => HasNul(TextOf(tree[p]))
    BY <1>4
  <2> QED BY <2>1, <2>2, <2>3 DEF Stale
<1> QED BY <1>3, <1>5, <1>6, <1>7, <1>8, <1>9 DEF Converges, out

(* An edit during a refresh is put right by the next.                      *)
LEMMA EditsHeal ==
  ASSUME NEW index, IsIndex(index), NEW walk, IsTree(walk), NEW hash, NEW read,
         NEW after, IsTree(after)
  PROVE  Healed(index, walk, hash, read, after)
<1> DEFINE torn == Refresh(index, walk, hash, read).index
<1>1. IsIndex(torn) /\ DOMAIN torn \subseteq Walked(walk)
  BY RefreshedIsIndex
<1>2. \A p \in Walked(walk) :
        \/ StatUnchanged(index, walk, p) /\ p \in DOMAIN torn /\ torn[p] = index[p]
        \/ \E text \in {TextOf(hash[p]), TextOf(read[p])}, by \in {torn[p].by} :
             torn[p] = [size |-> walk[p].size, mtime |-> walk[p].mtime, text |-> text,
                        terms |-> text, by |-> by]
        \/ p \notin DOMAIN torn
  BY RefreshedEntry
<1> HIDE DEF torn
<1>3. ASSUME NEW p \in Walked(after), Ordered(walk, hash, read, after, p),
             ~Disguised(index, walk, p), Disguised(torn, after, p)
      PROVE  FALSE
  <2>1. p \in DOMAIN torn /\ p \in Walked(walk) /\ p \in ToSet(Order)
    BY <1>1, <1>3 DEF Disguised, Walked
  <2>2. torn[p].mtime = after[p].mtime /\ torn[p].text # TextOf(after[p])
    BY <1>3 DEF Disguised, SameStat
  <2>3. /\ torn[p].mtime = walk[p].mtime
        /\ torn[p].text \in {TextOf(hash[p]), TextOf(read[p]), TextOf(walk[p])}
    <3>1. CASE StatUnchanged(index, walk, p) /\ torn[p] = index[p]
      BY <1>3, <3>1 DEF StatUnchanged, SameStat, Disguised
    <3>2. ASSUME NEW text \in {TextOf(hash[p]), TextOf(read[p])}, NEW by,
                 torn[p] = [size |-> walk[p].size, mtime |-> walk[p].mtime, text |-> text,
                            terms |-> text, by |-> by]
          PROVE  /\ torn[p].mtime = walk[p].mtime
                 /\ torn[p].text \in {TextOf(hash[p]), TextOf(read[p]), TextOf(walk[p])}
      BY <3>2
    <3> QED BY <1>2, <2>1, <3>1, <3>2
  <2>4. walk[p].mtime \in Nat /\ after[p].mtime \in Nat
    BY <2>1 DEF IsTree
  <2>5. ~(after[p].mtime > walk[p].mtime)
    BY <2>2, <2>3, <2>4
  <2>6. after[p] # Absent
    BY DEF Walked
  <2>7. after[p] = walk[p] /\ {hash[p], read[p]} \subseteq {walk[p]}
    BY <1>3, <2>5, <2>6 DEF Ordered
  <2> QED BY <2>2, <2>3, <2>7
<1>4. Converges(torn, after)
  BY <1>1, QuietConverges
<1>5. \A p \in Walked(after) : Disguised(torn, after, p) \/ LikeBuilt(Quiet(torn, after).index, after, p)
  BY <1>4 DEF Converges
<1> QED BY <1>3, <1>5 DEF Healed, torn

(* A refresh of an index that was just built converges, and so does the    *)
(* one after a refresh that an edit overtook.                              *)
LEMMA BuiltConverges ==
  ASSUME NEW before \in Trees
  PROVE  ConvergesFrom(before)
<1>1. IsIndex(Build(before))
  BY BuildGives
<1>2. \A tree \in Trees : Converges(Build(before), tree)
  BY <1>1, QuietConverges
<1>3. ASSUME NEW edit \in Edits
      PROVE  /\ Healed(Build(before), edit[1], edit[2], edit[2], edit[2])
             /\ Healed(Build(before), edit[1], edit[1], edit[2], edit[2])
             /\ Converges(Refresh(Build(before), edit[1], edit[1], edit[2]).index, edit[2])
  <2>1. IsTree(edit[1]) /\ IsTree(edit[2])
    BY TreesAssumption
  <2>2. IsIndex(Refresh(Build(before), edit[1], edit[1], edit[2]).index)
    BY <1>1, RefreshedIsIndex
  <2> QED BY <1>1, <2>1, <2>2, EditsHeal, QuietConverges
<1> QED BY <1>2, <1>3 DEF ConvergesFrom

(* Whatever was indexed before, a refresh gives what a build gives, and    *)
(* one that an edit overtakes is put right by the next, unless the edit    *)
(* left the stat that the walk saw.                                        *)
THEOREM RefreshesConverge == Spec => []RefreshConverges
<1>1. RefreshConverges
  BY BuiltConverges DEF RefreshConverges
<1> QED BY <1>1, PTL
=============================================================================
