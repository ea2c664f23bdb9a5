----------------------------- MODULE IndexSearch -----------------------------
(***************************************************************************)
(* Search in one index (fast_index.rs).  An index is a sequence of files;  *)
(* a posting list is the set of the files that have a word, a trigram, a   *)
(* symbol, a kind or an attribute.  Three functions choose candidates from *)
(* the lists, each with a text of its own: search, query_may_match, by     *)
(* which callers skip an index, and query_plan, which tells why a search   *)
(* finds nothing.                                                          *)
(*                                                                         *)
(* Words are opaque: Grams gives the trigrams of one, Within says which    *)
(* word lies inside another, Long holds those of five letters and more.    *)
(* A name is a sequence of words.  Scores are left out but for being zero, *)
(* and so are the cap on candidates (never below 1024) and the limit.  So  *)
(* are the caps on trigram lists, the same in all three: several words are *)
(* looked for by the first eight lists and scored by the first sixteen.    *)
(***************************************************************************)
EXTENDS Naturals, SequencesExt

CONSTANTS
  Grams,      \* the trigrams of each word
  Within,     \* pairs of a word and a longer word it lies in
  Long,       \* words long enough for the trigram lookup
  NoSymbols,  \* languages of which no symbols are extracted
  Corpora,    \* the indexes searched
  Queries     \* what is asked of them

-----------------------------------------------------------------------------
(* Words and names                                                         *)

Has(words, w) == \E v \in words : v = w \/ <<w, v>> \in Within
Joints(name) == {<<name[i], name[i + 1]>> : i \in 1 .. Len(name) - 1}
GramsOf(name) == UNION {Grams[w] : w \in ToSet(name)} \cup Joints(name)
Part(part, name) == \E i \in 0 .. Len(name) - Len(part) : SubSeq(name, i + 1, i + Len(part)) = part
Once(words) ==
  LET once[i \in 0 .. Len(words)] ==
        IF i = 0 THEN <<>>
        ELSE IF words[i] \in ToSet(once[i - 1]) THEN once[i - 1]
        ELSE Append(once[i - 1], words[i])
  IN once[Len(words)]

\* how a symbol's name answers to words asked for: normalized equality, containment of the
\* words as one name, or overlap
SymbolExact(name, words) == name = words
SymbolContains(name, words) == Len(words) > 1 /\ Part(words, name)
SymbolOverlap(name, words) ==
  Cardinality(ToSet(name) \cap ToSet(words)) >= (IF Len(words) > 1 THEN 2 ELSE 1)
SymbolNamed(name, wanted) == SymbolExact(name, wanted) \/ SymbolContains(name, wanted)

-----------------------------------------------------------------------------
(* Filters and queries.  generated and code are filters like test, and     *)
(* extension is one like language.                                         *)

Anywhere == [words |-> <<>>, wild |-> FALSE]
NoFilters ==
  [path |-> Anywhere, file |-> Anywhere, symbol |-> <<>>, kind |-> "", lang |-> "", test |-> "",
   import |-> "", repo |-> "", notPath |-> {}, notSymbol |-> {}, notKind |-> {}, notText |-> {},
   any |-> FALSE, all |-> FALSE]

Lists == {"notPath", "notSymbol", "notKind", "notText"}
MergeFilters(base, parsed) ==
  [k \in DOMAIN base |->
     IF k \in Lists THEN base[k] \cup parsed[k]
     ELSE IF k = "any" THEN base.any \/ parsed.any
     ELSE IF k = "all" THEN ~base.any /\ ~parsed.any /\ (base.all \/ parsed.all)
     ELSE IF parsed[k] = NoFilters[k] THEN base[k] ELSE parsed[k]]

Merged(q) == MergeFilters(q.args, q.inline)
Terms(q) == IF Merged(q).symbol = <<>> THEN q.terms ELSE Append(q.terms, Merged(q).symbol)
Tokens(q) == Once(FlattenSeq(Terms(q)))
QueryGrams(q) == UNION {GramsOf(term) : term \in ToSet(Terms(q))}
FiltersOf(q) ==
  LET m == Merged(q) IN [m EXCEPT !.all = @ \/ (Len(Tokens(q)) > 1 /\ ~m.any)]

FilterOnlyQuery(m) ==
  m.path # Anywhere \/ m.file # Anywhere \/ \E k \in {"kind", "lang", "test", "import", "repo"} : m[k] # ""

\* A single term in the form of an identifier asks for the symbol of that name, unless it was
\* given as content or the filters could leave the symbol out.
ScopeAllowsSymbol(m) ==
  m.test = "" /\ m.lang \notin NoSymbols /\ \A k \in Lists : m[k] = {}
PlannedSymbol(q) ==
  LET m == Merged(q) IN
  IF m.symbol # <<>> THEN m.symbol
  ELSE IF q.content \/ ~ScopeAllowsSymbol(m) \/ Len(q.terms) # 1 THEN <<>>
  ELSE IF Len(q.terms[1]) > 1 THEN q.terms[1] ELSE <<>>

-----------------------------------------------------------------------------
(* What the inputs are.  A word inside another has its trigrams only, one  *)
(* for the trigram lookup has some, and a name filter is one word.         *)

Words == DOMAIN Grams
WordsNest ==
  /\ \A p \in Within : Grams[p[1]] \subseteq Grams[p[2]]
  /\ \A w \in Long : Grams[w] # {}
IsCorpus(c) == \A i \in DOMAIN c : c[i].path \in Seq(Words) /\ c[i].path # <<>>
IsFilters(m) ==
  /\ DOMAIN m = DOMAIN NoFilters /\ m.symbol \in Seq(Words)
  /\ m.path.words \in Seq(Words) /\ m.file.words \in Seq(Words) /\ Len(m.file.words) \in {0, 1}
  /\ m.file.words = <<>> => m.file = Anywhere
  /\ m.any \in BOOLEAN /\ m.all \in BOOLEAN
IsQuery(q) == q.terms \in Seq(Seq(Words)) /\ IsFilters(q.args) /\ IsFilters(q.inline)

ASSUME InputsAssumption ==
  /\ WordsNest
  /\ \A c \in Corpora : IsCorpus(c)
  /\ \A q \in Queries : IsQuery(q)

-----------------------------------------------------------------------------
(* Posting lists                                                           *)

PathWords(f) == ToSet(f.path)
FileGrams(f) == UNION {Grams[w] : w \in PathWords(f) \cup f.text} \cup UNION {Joints(s.name) : s \in f.syms}
ContentPosted(c, w) == {i \in DOMAIN c : w \in c[i].text}
PathPosted(c, w) == {i \in DOMAIN c : w \in PathWords(c[i])}
GramPosted(c, g) == {i \in DOMAIN c : g \in FileGrams(c[i])}
PathGramPosted(c, g) == {i \in DOMAIN c : \E w \in PathWords(c[i]) : g \in Grams[w]}
SymbolPosted(c, name) == {i \in DOMAIN c : \E s \in c[i].syms : s.name = name}
KindPosted(c, kind) == {i \in DOMAIN c : \E s \in c[i].syms : s.kind = kind}
AttributePosted(c, field, v) == {i \in DOMAIN c : c[i][field] = v}

AttributeKeys(m) == {k \in {"lang", "test"} : m[k] # ""}
AttributeLists(c, m) == {AttributePosted(c, k, m[k]) : k \in AttributeKeys(m)}
PathKeys(m) ==
  UNION {UNION {Grams[w] : w \in ToSet(p.words)} : p \in {r \in {m.path, m.file} : ~r.wild}}
PathLists(c, m) == {PathGramPosted(c, g) : g \in PathKeys(m)}
Impossible(lists) == {} \in lists

Common(c, lists) == {i \in DOMAIN c : \A l \in lists : i \in l}
IntersectPlanned(lists, all) ==
  IF lists = {} THEN {}
  ELSE IF all THEN {i \in UNION lists : \A l \in lists : i \in l} ELSE UNION lists

\* what all three look up first
Lookup(c, q) ==
  LET m == FiltersOf(q)
      tokens == Tokens(q)
      content == {t \in ToSet(tokens) : ContentPosted(c, t) # {}}
      path == {t \in ToSet(tokens) : PathPosted(c, t) # {}}
      name == PlannedSymbol(q)
      symbol == IF name = <<>> THEN {} ELSE SymbolPosted(c, name)
      named == IF symbol # {} /\ Len(name) = 1 THEN ToSet(name) ELSE {}
      useGrams == /\ QueryGrams(q) # {}
                  /\ \/ Cardinality(content) < Len(tokens)
                     \/ Len(tokens) = 1 /\ tokens[1] \in Long
      suppress == /\ m.kind # ""
                  /\ Len(tokens) = 1
                  /\ content = {} /\ symbol = {} /\ path = {}
      grams == IF useGrams /\ ~suppress THEN {g \in QueryGrams(q) : GramPosted(c, g) # {}} ELSE {}
  IN [tokens |-> tokens, content |-> content, path |-> path, symbol |-> symbol,
      useGrams |-> useGrams, grams |-> grams,
      pathPlan |-> IF m.any THEN path ELSE path \ content,
      missing |-> ToSet(tokens) \ (content \cup path \cup named),
      missingGrams |-> IF useGrams THEN QueryGrams(q) \ grams ELSE {}]

NothingPosted(l) == l.content = {} /\ l.symbol = {} /\ l.path = {} /\ l.grams = {}
\* the missing word is excused when it is the symbol asked for
Unsatisfied(l, m) == \E t \in l.missing : m.symbol # <<t>>

TokenLists(c, l) ==
  {ContentPosted(c, t) : t \in l.content} \cup {PathPosted(c, t) : t \in l.pathPlan}
GramLists(c, l) ==
  IF ~l.useGrams \/ (Len(l.tokens) = 1 /\ l.missingGrams # {}) THEN {}
  ELSE {GramPosted(c, g) : g \in l.grams}
PlannedLists(c, l) ==
  TokenLists(c, l) \cup (IF l.symbol = {} THEN {} ELSE {l.symbol}) \cup GramLists(c, l)
UnionOfBoth(l) == l.useGrams /\ (l.content # {} \/ l.path # {}) /\ Len(l.tokens) = 1
TokenOrGrams(c, l) ==
  IntersectPlanned(TokenLists(c, l), FALSE) \cup IntersectPlanned(GramLists(c, l), TRUE)

\* defect: path lists are left out
FieldCandidatesInText(c, l) == {i \in DOMAIN c : \A t \in ToSet(l.tokens) : i \in ContentPosted(c, t)}
\* a file with every word in its text or its path, wherever each of them is
FieldCandidates(c, l) ==
  {i \in DOMAIN c : \A t \in ToSet(l.tokens) : i \in ContentPosted(c, t) \cup PathPosted(c, t)}
ExpandFields(c, ids, all, l) == IF all THEN ids \cup FieldCandidates(c, l) ELSE ids

ByKind(c, ids, m) == IF m.kind = "" THEN ids ELSE ids \cap KindPosted(c, m.kind)
ByAttributes(c, ids, m) == ids \cap Common(c, AttributeLists(c, m))
ByPathGrams(c, ids, m) == ids \cap Common(c, PathLists(c, m))
HasToken(f, t) == Has(PathWords(f) \cup f.text, t)
Verified(c, ids, l) ==
  IF l.useGrams /\ Len(l.tokens) = 1 THEN {i \in ids : HasToken(c[i], l.tokens[1])} ELSE ids

-----------------------------------------------------------------------------
(* Does a file pass the filters                                            *)

PathHas(f, p) == IF Len(p.words) = 1 THEN Has(PathWords(f), p.words[1]) ELSE Part(p.words, f.path)
NameHas(f, p) == Has({Last(f.path)}, p.words[1])
PathMatches(f, m) ==
  /\ m.file = Anywhere \/ NameHas(f, m.file)
  /\ m.path = Anywhere \/ PathHas(f, m.path)
  /\ m.lang \in {"", f.lang}
  /\ m.test \in {"", f.test}
  /\ \A p \in m.notPath : ~PathHas(f, p)
HasKind(f, kind) == \E s \in f.syms : s.kind = kind
HasSymbol(f, wanted) == \E s \in f.syms : SymbolNamed(s.name, wanted)
KindsMatch(f, m) ==
  (m.kind = "" \/ HasKind(f, m.kind)) /\ \A kind \in m.notKind : ~HasKind(f, kind)
SymbolsMatch(f, m) ==
  (m.symbol = <<>> \/ HasSymbol(f, m.symbol)) /\ \A name \in m.notSymbol : ~HasSymbol(f, name)
ImportsMatch(f, m) == m.import = "" \/ Has(f.imports, m.import)
ContentAllowed(f, m) == \A w \in m.notText : ~Has(f.text, w)
MatchesFilters(f, m) ==
  PathMatches(f, m) /\ KindsMatch(f, m) /\ SymbolsMatch(f, m) /\ ImportsMatch(f, m) /\ ContentAllowed(f, m)
Filtered(c, ids, m) == {i \in ids : MatchesFilters(c[i], m)}
\* a repo, branch, origin or dependency filter that this index cannot meet
RepoMatches(m) == m.repo # "elsewhere"

\* A phrase is a sequence of words that the path or the content must have side by side.
PhrasesMatch(f, q) == \A p \in q.phrases : Part(p, f.path) \/ p \in f.phrases

-----------------------------------------------------------------------------
(* Scoring: what scores, what the result says of it, and what is kept.     *)

ScoredTokens(c, f, l) ==
  {t \in l.content : t \in f.text \/ Has(PathWords(f), t)} \cup {t \in l.path : t \in PathWords(f)}
SymbolScores(s, m, l) ==
  /\ m.kind \in {"", s.kind}
  /\ SymbolExact(s.name, l.tokens) \/ SymbolContains(s.name, l.tokens) \/ SymbolOverlap(s.name, l.tokens)
ScoredSymbols(f, q, m, l) ==
  (IF q.content /\ m.symbol = <<>> THEN {} ELSE {s \in f.syms : SymbolScores(s, m, l)})
    \cup {s \in f.syms : m.symbol # <<>> /\ SymbolNamed(s.name, m.symbol)}
Scores(c, f, q, m, l) ==
  /\ PhrasesMatch(f, q)
  /\ \/ ScoredTokens(c, f, l) # {}
     \/ \E g \in l.grams : g \in FileGrams(f)
     \/ ScoredSymbols(f, q, m, l) # {}
     \/ q.phrases # {}

\* the words that path, reason and snippet of a result show
Shown(c, f, q, m, l) ==
  PathWords(f) \cup f.shown \cup ScoredTokens(c, f, l)
    \cup UNION {ToSet(s.name) : s \in ScoredSymbols(f, q, m, l)}
Kept(c, f, q, m, l) ==
  /\ Scores(c, f, q, m, l)
  /\ m.all => \A t \in ToSet(l.tokens) : Has(Shown(c, f, q, m, l), t)
  /\ m.symbol = <<>> \/ \E s \in ScoredSymbols(f, q, m, l) : SymbolNamed(s.name, m.symbol)
  /\ \A name \in m.notSymbol : \A s \in ScoredSymbols(f, q, m, l) : ~SymbolNamed(s.name, name)

-----------------------------------------------------------------------------
(* Queries of filters only                                                 *)

\* the file that lies exactly at the path asked for: the first, when case tells them apart
ExactPath(c, m) ==
  IF m.path.wild THEN {}
  ELSE {i \in DOMAIN c : c[i].path = m.path.words /\ \A j \in 1 .. i - 1 : c[j].path # m.path.words}
FilterOnlyCandidates(c, m) ==
  IF \/ m.kind # "" /\ KindPosted(c, m.kind) = {}
     \/ Impossible(AttributeLists(c, m)) \/ Impossible(PathLists(c, m))
  THEN {}
  ELSE {i \in ByPathGrams(c, ByAttributes(c, ByKind(c, DOMAIN c, m), m), m) :
          m.file = Anywhere \/ NameHas(c[i], m.file)}
SearchFilterOnly(c, m) ==
  LET exact == ExactPath(c, m) IN
  Filtered(c, IF exact # {} THEN exact ELSE FilterOnlyCandidates(c, m), m)
MayMatchFilterOnly(c, m) == FilterOnlyQuery(m) /\ Filtered(c, FilterOnlyCandidates(c, m), m) # {}

-----------------------------------------------------------------------------
(* The three functions                                                     *)

SearchCandidates(c, m, l) ==
  LET planned == IF m.all /\ Unsatisfied(l, m) THEN {}
                 ELSE IF UnionOfBoth(l) THEN TokenOrGrams(c, l)
                 ELSE IntersectPlanned(PlannedLists(c, l), m.all)
      fields == ExpandFields(c, planned, m.all /\ l.symbol = {}, l)
  IN Verified(c, ByPathGrams(c, ByAttributes(c, ByKind(c, fields, m), m), m), l)

\* m are the filters of q and l is what was looked up
Found(c, q, m, l) ==
  IF ~RepoMatches(m) \/ Impossible(PathLists(c, m)) THEN {}
  ELSE IF l.tokens = <<>> THEN IF FilterOnlyQuery(m) THEN SearchFilterOnly(c, m) ELSE {}
  ELSE IF NothingPosted(l) THEN {}
  ELSE {i \in Filtered(c, SearchCandidates(c, m, l), m) : Kept(c, c[i], q, m, l)}

\* defect: the field candidates are not added
MayMatchPlanned(c, m, l) ==
  LET planned == IF UnionOfBoth(l) THEN TokenOrGrams(c, l)
                 ELSE IntersectPlanned(PlannedLists(c, l), m.all)
  IN Verified(c, ByPathGrams(c, ByAttributes(c, ByKind(c, planned, m), m), m), l)
MayMatchCandidates(c, m, l) ==
  LET planned == IF UnionOfBoth(l) THEN TokenOrGrams(c, l)
                 ELSE IntersectPlanned(PlannedLists(c, l), m.all)
      fields == ExpandFields(c, planned, m.all /\ l.symbol = {}, l)
  IN Verified(c, ByPathGrams(c, ByAttributes(c, ByKind(c, fields, m), m), m), l)

QueryMayMatch(c, m, l) ==
  /\ RepoMatches(m)
  /\ m.kind # "" => KindPosted(c, m.kind) # {}
  /\ ~Impossible(AttributeLists(c, m)) /\ ~Impossible(PathLists(c, m))
  /\ IF l.tokens = <<>> THEN MayMatchFilterOnly(c, m)
     ELSE /\ ~NothingPosted(l)
          /\ ~(m.all /\ Unsatisfied(l, m))
          /\ Filtered(c, MayMatchCandidates(c, m, l), m) # {}

\* filters of a plan, each tested by itself on the candidates
PlanFilters(m) ==
  {k \in {"file", "path"} : m[k] # Anywhere} \cup {k \in {"lang", "kind", "import", "test"} : m[k] # ""}
    \cup {k \in Lists : m[k] # {}} \cup (IF m.symbol = <<>> THEN {} ELSE {"symbol"})
CompiledMatches(f, m, k) ==
  CASE k = "file" -> NameHas(f, m.file)
    [] k = "path" -> PathHas(f, m.path)
    [] k = "lang" -> f.lang = m.lang
    [] k = "test" -> f.test = m.test
    [] k = "kind" -> HasKind(f, m.kind)
    [] k = "import" -> ImportsMatch(f, [NoFilters EXCEPT !.import = m.import])
    [] k = "symbol" -> HasSymbol(f, m.symbol)
    [] k = "notPath" -> \A p \in m.notPath : ~PathHas(f, p)
    [] k = "notSymbol" -> \A name \in m.notSymbol : ~HasSymbol(f, name)
    [] k = "notKind" -> \A kind \in m.notKind : ~HasKind(f, kind)
    [] k = "notText" -> \A w \in m.notText : ~Has(f.text, w)

NoPlan == [strategy |-> "empty_query", candidates |-> {}, passed |-> {}, final |-> {}, rejecting |-> {}]
PlanRefused == [NoPlan EXCEPT !.strategy = "repo_filter_mismatch"]
PlanFilterOnly(c, m) ==
  LET exact == ExactPath(c, m)
      ids == IF exact # {} THEN exact ELSE FilterOnlyCandidates(c, m)
      final == Filtered(c, ids, m)
  IN [strategy |-> "filter_only", candidates |-> ids, passed |-> final, final |-> final, rejecting |-> {}]
PlanCandidates(c, m, l) ==
  LET planned == IF m.all /\ Unsatisfied(l, m) THEN {}
                 ELSE IF UnionOfBoth(l) THEN TokenOrGrams(c, l)
                 ELSE IntersectPlanned(PlannedLists(c, l), m.all)
      fields == ExpandFields(c, planned, m.all /\ l.symbol = {}, l)
  IN Verified(c, ByPathGrams(c, ByAttributes(c, ByKind(c, fields, m), m), m), l)
PlanOf(c, q, m, l, ids) ==
  [strategy |-> IF UnionOfBoth(l) THEN "union" ELSE "postings",
   candidates |-> ids, passed |-> Filtered(c, ids, m),
   final |-> {i \in Filtered(c, ids, m) : Kept(c, c[i], q, m, l)},
   rejecting |-> {k \in PlanFilters(m) : \E i \in ids : ~CompiledMatches(c[i], m, k)}]
QueryPlan(c, q, m, l) ==
  IF ~RepoMatches(m) THEN PlanRefused
  ELSE IF l.tokens = <<>> THEN IF FilterOnlyQuery(m) THEN PlanFilterOnly(c, m) ELSE NoPlan
  ELSE PlanOf(c, q, m, l, PlanCandidates(c, m, l))

-----------------------------------------------------------------------------
(* Three texts of one choice of candidates (1381, 1660, 1857 of            *)
(* fast_index.rs): an index is skipped only when a search in it would find *)
(* nothing, and the plan counts the files that the search finds.  When     *)
(* filters drop every candidate of a plan, it names one that did, for that *)
(* is what its hints and retries relax.                                    *)
Consistent(found, may, plan) ==
  /\ found # {} => may
  /\ plan.final = found
  /\ plan.strategy \in {"union", "postings"} /\ plan.passed = {} /\ plan.candidates # {}
     => plan.rejecting # {}
AgreeOn(c, q, m, l) ==
  Consistent(Found(c, q, m, l), QueryMayMatch(c, m, l), QueryPlan(c, q, m, l))
Agree(c, q) == AgreeOn(c, q, FiltersOf(q), Lookup(c, q))

(* A file that has every word of the query in its text or its path, and    *)
(* every phrase, and passes the filters, is found, in whichever lists the  *)
(* words are posted.  A query for one symbol that exists asks for less.    *)
(* OnlyInPath is what the code misses: one word, if it is short or said    *)
(* twice in one term, is not looked for in paths when some file's text has *)
(* it, unless require_all or any_terms asks for that.                      *)
HasTerms(f, tokens) == tokens # <<>> /\ ToSet(tokens) \subseteq f.text \cup PathWords(f)
OnlyInPath(f, q, m, l) ==
  /\ Len(l.tokens) = 1 /\ ToSet(l.tokens) \cap f.text = {}
  /\ l.content # {} /\ ~m.all /\ ~m.any
  /\ ToSet(l.tokens) \cap Long = {} \/ \E term \in ToSet(Terms(q)) : Len(term) > 1
CompleteOn(c, q, m, l) ==
  \A i \in DOMAIN c :
    /\ HasTerms(c[i], l.tokens) /\ PhrasesMatch(c[i], q)
    /\ RepoMatches(m) /\ MatchesFilters(c[i], m)
    /\ l.symbol = {} /\ ~OnlyInPath(c[i], q, m, l)
    => i \in Found(c, q, m, l)
Complete(c, q) == CompleteOn(c, q, FiltersOf(q), Lookup(c, q))
=============================================================================
