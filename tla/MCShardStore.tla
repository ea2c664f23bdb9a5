---------------------------- MODULE MCShardStore ----------------------------
(* Two repositories and one term: what a search for one term finds depends *)
(* on no other term.  Four saves are, for example, a build, the two saves  *)
(* of ensure_shards and a scoped refresh.                                  *)
EXTENDS ShardStore, TLC

CONSTANTS orient, tools

MCRepos == {orient, tools}
MCTerms == {"needle"}
MCSymmetry == Permutations(MCRepos)
=============================================================================
