--------------------------- MODULE FastIndexRefresh ---------------------------
(***************************************************************************)
(* Building and refreshing an index, and its freshness verdict             *)
(* (fast_index.rs).  A refresh walks the tree and takes the size and the   *)
(* mtime of each file; it then reads the files one by one.  Nothing stops  *)
(* an editor in between, so a refresh sees three trees: at the walk, when  *)
(* a file is hashed to recognise a rename, and when it is read again to be *)
(* indexed.                                                                *)
(*                                                                         *)
(* A tree gives each path a version [size, mtime, content] or Absent.  An  *)
(* index gives its paths an entry [size, mtime, text, terms, by]: terms is *)
(* the text its terms, line starts and symbols were made from, by the      *)
(* extractor of the symbols.  The posting lists follow from these and are  *)
(* IndexSearch's concern.                                                  *)
(***************************************************************************)
EXTENDS Naturals, SequencesExt

CONSTANTS
  Order,       \* the paths, in the order of the walk
  LangOf,      \* the language of each path, "none" where unknown
  ExtractorOf, \* the symbol extractor that extract_symbols picks for a path
  MaxBytes,    \* larger files are not indexed
  Trees,       \* what a repository may be when it is indexed and refreshed
  Edits        \* pairs of trees: at the walk of a refresh and after an edit during it

Absent == [size |-> 0, mtime |-> 0, content |-> "absent"]
Empty == [p \in {} |-> Absent]

\* read_to_string(..).unwrap_or_default(): unreadable and non-UTF-8 files have no text
TextOf(version) == IF version.content \in {"absent", "binary"} THEN "" ELSE version.content
HasNul(text) == text = "nul"

IsTree(tree) == \A p \in ToSet(Order) : tree[p].mtime \in Nat
ASSUME TreesAssumption ==
  /\ \A i, j \in DOMAIN Order : Order[i] = Order[j] => i = j
  /\ Order \in Seq(ToSet(Order))
  /\ \A tree \in Trees : IsTree(tree)
  /\ \A edit \in Edits : IsTree(edit[1]) /\ IsTree(edit[2])

Walked(tree) ==
  {p \in ToSet(Order) : tree[p] # Absent /\ tree[p].size <= MaxBytes /\ LangOf[p] # "none"}

SameStat(entry, version) == entry.size = version.size /\ entry.mtime = version.mtime

FileEntry(p, version, text) ==
  [size |-> version.size, mtime |-> version.mtime, text |-> text, terms |-> text,
   by |-> ExtractorOf[p]]

-----------------------------------------------------------------------------
(* refresh                                                                 *)

\* defect: a rename is recognised by language and size alone
TakeableBySize(index, gone, p, version, text) ==
  {q \in gone : LangOf[q] = LangOf[p] /\ index[q].size = version.size}
\* the entries of files that are gone which a file at p with this text may take over
Takeable(index, gone, p, version, text) ==
  {q \in gone : /\ LangOf[q] = LangOf[p]
                /\ index[q].size = version.size
                /\ index[q].text = text}

\* retarget_indexed_file: terms, line starts and symbols are kept, the rest is made anew
Retarget(previous, version, text) ==
  [previous EXCEPT !.size = version.size, !.mtime = version.mtime, !.text = text]

With(index, p, entry) == [q \in DOMAIN index \cup {p} |-> IF q = p THEN entry ELSE index[q]]
Reused(out, p, entry) == [out EXCEPT !.index = With(@, p, entry), !.reused = @ + 1]
Indexed(out, p, entry) == [out EXCEPT !.index = With(@, p, entry), !.refreshed = @ + 1]

\* one candidate of the walk: kept, taken over from a gone file, read anew, or left out
Candidate(previous, walk, hash, read, out, p) ==
  LET version == walk[p]
      text == TextOf(hash[p])
      from == Takeable(previous, out.gone, p, version, text)
      old == CHOOSE q \in from : TRUE
  IN IF p \in DOMAIN previous /\ SameStat(previous[p], version)
       THEN Reused(out, p, previous[p])
     ELSE IF ~HasNul(text) /\ from # {}
       THEN [Reused(out, p, Retarget(previous[old], version, text))
               EXCEPT !.gone = @ \ {old}, !.renamed = @ + 1]
     ELSE IF HasNul(TextOf(read[p])) THEN out
     ELSE Indexed(out, p, FileEntry(p, version, TextOf(read[p])))

Missing(index, tree) == DOMAIN index \ Walked(tree)

Refresh(previous, walk, hash, read) ==
  LET out[i \in 0 .. Len(Order)] ==
        IF i = 0 THEN [index |-> Empty, gone |-> Missing(previous, walk),
                       reused |-> 0, renamed |-> 0, refreshed |-> 0]
        ELSE IF Order[i] \in Walked(walk)
          THEN Candidate(previous, walk, hash, read, out[i - 1], Order[i])
        ELSE out[i - 1]
  IN out[Len(Order)]

\* saturating_sub: never below zero
Deleted(previous, walk, out) ==
  LET missing == Cardinality(Missing(previous, walk))
  IN IF missing < out.renamed THEN 0 ELSE missing - out.renamed

\* nobody edits during the refresh
Quiet(previous, tree) == Refresh(previous, tree, tree, tree)
Build(tree) == Quiet(Empty, tree).index

-----------------------------------------------------------------------------
(* freshness: a root that is gone has an empty tree                        *)

Stale(index, tree) ==
  \/ \E p \in Walked(tree) : p \in DOMAIN index => ~SameStat(index[p], tree[p])
  \/ Missing(index, tree) # {}

-----------------------------------------------------------------------------
(* What can be relied on                                                   *)

\* a file whose size and mtime are those of the index and whose text is another
Disguised(index, tree, p) ==
  p \in DOMAIN index /\ SameStat(index[p], tree[p]) /\ index[p].text # TextOf(tree[p])

\* at p the index is what a build gives, but for the extractor of the symbols
LikeBuilt(index, tree, p) ==
  LET built == Build(tree)
  IN /\ p \in DOMAIN index <=> p \in DOMAIN built
     /\ p \in DOMAIN index => [index[p] EXCEPT !.by = ExtractorOf[p]] = built[p]

(* What a refresh makes of an index is what a build makes of the tree: in  *)
(* each path that no disguised edit hides, up to the symbols of a renamed  *)
(* file, which stay those its old name gave it (refresh 390-402,           *)
(* retarget_indexed_file).  Its counters add up, and an index that         *)
(* freshness finds fresh is not changed by it.  A file with a NUL is       *)
(* walked but never indexed, so freshness calls an index of a tree with    *)
(* one stale right after it was refreshed.                                 *)
Converges(index, tree) ==
  LET out == Quiet(index, tree)
      rightly == {p \in DOMAIN out.index : out.index[p].by = ExtractorOf[p]}
  IN /\ \A p \in Walked(tree) : Disguised(index, tree, p) \/ LikeBuilt(out.index, tree, p)
     /\ DOMAIN out.index \subseteq Walked(tree)
     /\ out.renamed = 0 /\ (\A p \in DOMAIN index : index[p].by = ExtractorOf[p])
          => rightly = DOMAIN out.index
     /\ out.reused + out.refreshed = Cardinality(DOMAIN out.index)
     /\ Deleted(index, tree, out) + out.renamed = Cardinality(Missing(index, tree))
     /\ ~Stale(index, tree) => out.index = index /\ out.refreshed = 0
     /\ Stale(out.index, tree) <=>
          \E p \in Walked(tree) : HasNul(TextOf(tree[p])) /\ p \notin DOMAIN out.index

\* p has the version of the walk or a later one, with a later mtime, and what was read is
\* one of the two
Ordered(walk, hash, read, after, p) ==
  /\ after[p] = walk[p] \/ after[p] = Absent \/ after[p].mtime > walk[p].mtime
  /\ {hash[p], read[p]} \subseteq {walk[p], after[p]}

(* A refresh that edits overtake is put right by the next one, unless an   *)
(* edit left a file the mtime it had at the walk: refresh takes size and   *)
(* mtime before the text (327-356, 390, 5407), so a text too new comes     *)
(* with a stat that is too old.                                            *)
Healed(index, walk, hash, read, after) ==
  LET torn == Refresh(index, walk, hash, read).index
      next == Quiet(torn, after).index
  IN \A p \in Walked(after) :
       /\ Ordered(walk, hash, read, after, p)
       /\ ~Disguised(index, walk, p)
       => LikeBuilt(next, after, p)

(* The index of a tree is refreshed when nobody edits and when somebody    *)
(* does, before a file is hashed or before it is read to be indexed.       *)
ConvergesFrom(before) ==
  /\ \A tree \in Trees : Converges(Build(before), tree)
  /\ \A edit \in Edits :
       LET walk == edit[1]  after == edit[2] IN
       /\ Healed(Build(before), walk, after, after, after)
       /\ Healed(Build(before), walk, walk, after, after)
       /\ Converges(Refresh(Build(before), walk, walk, after).index, after)
=============================================================================
