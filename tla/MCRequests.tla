----------------------------- MODULE MCRequests ------------------------------
EXTENDS Vocabulary, IndexRequests

MCRepos == {"r1", "r2"}
MCDirs == {"d1", "d2"}
MCRootChoices ==
  {f \in [MCDirs -> SUBSET MCRepos] : f["d1"] \in {{"r1"}, {"r1", "r2"}} /\ f["d2"] = {"r2"}}

WithTarget == {[NoArgs EXCEPT !.dir = "d1"], [NoArgs EXCEPT !.index = <<"d1", "r1">>],
          [NoArgs EXCEPT !.repo = "r1"], [NoArgs EXCEPT !.dir = "d1", !.repo = "r2"]}
Here == {[NoArgs EXCEPT !.cwd = c] : c \in {"none", "r1", "r2", "outside"}}
MCArgs ==
  UNION {{a, [a EXCEPT !.refresh = TRUE], [a EXCEPT !.filter = "r2"], [a EXCEPT !.inQuery = "r2"]} :
           a \in WithTarget \cup Here}
  \cup {[NoArgs EXCEPT !.dir = "d1", !.index = <<"d1", "r1">>],
        [NoArgs EXCEPT !.dir = "d1", !.cwd = "r1", !.refresh = TRUE],
        [NoArgs EXCEPT !.index = <<"d1", "r1">>, !.cwd = "r2"],
        [NoArgs EXCEPT !.repo = "r1", !.cwd = "r2"],
        [NoArgs EXCEPT !.cwd = "r1", !.filter = "r2", !.refresh = TRUE],
        [NoArgs EXCEPT !.cwd = "r1", !.inQuery = "r2", !.refresh = TRUE]}

NoFlags == [indexes |-> {}, dirs |-> {}, warm |-> {}, ensured |-> {}, repos |-> {}, limit |-> 0]
MCStarts ==
  {[NoFlags EXCEPT !.limit = 2], [NoFlags EXCEPT !.warm = {"d1"}, !.repos = {"r2"}],
   [NoFlags EXCEPT !.ensured = {"d1"}, !.indexes = {<<"solo", "r1">>}, !.limit = 2],
   [NoFlags EXCEPT !.dirs = {"d1", "d2"}, !.repos = {"r1"}, !.limit = 2]}

-----------------------------------------------------------------------------
(* Search in one index: three files of six, one of which shows less of its *)
(* text than it has, and queries of up to three terms with one filter.     *)
MCGrams ==
  [w \in {"auth", "author", "file", "find", "op", "open", "src", "test", "doc", "uth"} |->
     CASE w = "auth" -> {<<"aut">>, <<"uth">>}
       [] w = "author" -> {<<"aut">>, <<"uth">>, <<"tho">>, <<"hor">>}
       [] w = "file" -> {<<"fil">>, <<"ile">>}
       [] w = "find" -> {<<"fin">>, <<"ind">>}
       [] w = "op" -> {}
       [] w = "open" -> {<<"ope">>, <<"pen">>}
       [] OTHER -> {<<w>>}]
MCWithin == {<<"auth", "author">>, <<"uth", "auth">>, <<"uth", "author">>, <<"op", "open">>}
MCLong == {"author"}
MCNoSymbols == {"md"}

TextFile(path, text, phrases, syms, lang, test) ==
  [path |-> path, text |-> text, shown |-> text \ {"author"}, phrases |-> phrases, syms |-> syms,
   lang |-> lang, test |-> test, imports |-> text \cap {"open"}]
Symbol(name, kind) == [name |-> name, kind |-> kind]
Pool == <<
  TextFile(<<"src", "auth">>, {"open", "file"}, {<<"open", "file">>},
           {Symbol(<<"open", "file">>, "function")}, "rust", "no"),
  TextFile(<<"src", "open">>, {"auth", "author"}, {<<"auth", "author">>},
           {Symbol(<<"auth">>, "struct")}, "rust", "no"),
  TextFile(<<"test", "file">>, {"open", "auth"}, {<<"auth", "open">>},
           {Symbol(<<"auth", "open">>, "function")}, "rust", "yes"),
  TextFile(<<"doc", "author">>, {"file"}, {}, {}, "md", "no"),
  TextFile(<<"auth">>, {}, {}, {}, "md", "no"),
  TextFile(<<"src", "find">>, {"auth", "file", "open"}, {<<"auth", "file">>, <<"file", "open">>},
           {Symbol(<<"file">>, "struct")}, "rust", "no")>>
MCCorpora ==
  {<<Pool[i[1]], Pool[i[2]], Pool[i[3]]>> : i \in {j \in (1 .. 6) \X (1 .. 6) \X (1 .. 6) : j[1] < j[2] /\ j[2] < j[3]}}
    \cup {<<Pool[1], [Pool[2] EXCEPT !.path = Pool[1].path]>>}

In(words) == [words |-> words, wild |-> FALSE]
FilterChoices == {NoFilters} \cup
  {[NoFilters EXCEPT !.path = p] : p \in {In(<<"auth">>), In(<<"src", "auth">>), [In(<<"find">>) EXCEPT !.wild = TRUE]}} \cup
  {[NoFilters EXCEPT !.file = p] : p \in {In(<<"op">>), [In(<<"file">>) EXCEPT !.wild = TRUE]}} \cup
  {[NoFilters EXCEPT !.kind = k] : k \in {"struct", "enum"}} \cup
  {[NoFilters EXCEPT !.symbol = s] : s \in {<<"auth">>, <<"open", "file">>}} \cup
  {[NoFilters EXCEPT !.lang = "md"], [NoFilters EXCEPT !.test = "yes"], [NoFilters EXCEPT !.import = "open"],
   [NoFilters EXCEPT !.repo = "here"], [NoFilters EXCEPT !.repo = "elsewhere"],
   [NoFilters EXCEPT !.notText = {"open"}], [NoFilters EXCEPT !.notSymbol = {<<"auth">>}],
   [NoFilters EXCEPT !.notPath = {In(<<"src">>)}], [NoFilters EXCEPT !.notKind = {"function"}],
   [NoFilters EXCEPT !.any = TRUE], [NoFilters EXCEPT !.all = TRUE]}
Query(terms, filters) ==
  [terms |-> terms, phrases |-> {}, content |-> FALSE, args |-> NoFilters, inline |-> filters]
TermChoices ==
  {<<>>, <<<<"auth">>>>, <<<<"author">>>>, <<<<"uth">>>>, <<<<"op">>>>, <<<<"open", "file">>>>,
   <<<<"auth">>, <<"open">>>>, <<<<"author">>, <<"file">>>>, <<<<"author", "author">>>>, <<<<"find">>, <<"auth">>, <<"open">>>>}
MCQueries ==
  {Query(terms, filters) : terms \in TermChoices, filters \in FilterChoices}
    \cup {[Query(terms, [NoFilters EXCEPT !.any = TRUE]) EXCEPT !.args = [NoFilters EXCEPT !.path = In(<<"src">>), !.all = TRUE]] :
             terms \in TermChoices}
    \cup {[Query(<<<<"auth", "file">>>>, filters) EXCEPT !.content = TRUE, !.phrases = {<<"auth", "file">>}] :
             filters \in FilterChoices}

-----------------------------------------------------------------------------
(* Refreshing an index: two Rust files, a JSON file with and one without a *)
(* manifest's name, at sizes and times such that edits can hide.           *)
MCOrder == <<"a", "b", "list", "package">>
MCLangOf == [p \in ToSet(MCOrder) |-> IF p \in {"a", "b"} THEN "rust" ELSE "json"]
MCExtractorOf == [p \in ToSet(MCOrder) |-> IF p = "package" THEN "manifest" ELSE "plain"]
Version(size, mtime, content) == [size |-> size, mtime |-> mtime, content |-> content]
Sources == {Absent, Version(1, 1, "x"), Version(1, 1, "y"), Version(1, 2, "y"), Version(1, 3, "x"),
            Version(1, 2, "nul"), Version(1, 2, "binary"), Version(3, 2, "x")}
Tree(a, b, list, package) ==
  [p \in ToSet(MCOrder) |->
     CASE p = "a" -> a [] p = "b" -> b [] p = "list" -> list [] p = "package" -> package]
Texts == {Absent, Version(1, 1, "x"), Version(1, 1, "y"), Version(1, 2, "y")}
RustTrees == {Tree(a, b, Absent, Absent) : a \in Sources, b \in Texts}
Moved == {Tree(a, Absent, l, k) : a, l, k \in {Absent, Version(1, 1, "x"), Version(1, 2, "y")}}
MCTrees == RustTrees \cup Moved
\* the edits of one path during a refresh
MCEdits ==
  UNION {{<<walk, [walk EXCEPT ![p] = v]>> : p \in {"a", "b"}, v \in Sources} : walk \in RustTrees}
==============================================================================
