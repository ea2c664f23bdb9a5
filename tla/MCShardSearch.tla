--------------------------- MODULE MCShardSearch ---------------------------
(* Two repositories, one term, one search after the other, and two writers *)
(* after each other: the build and a refresh of all or one of the shards.  *)
EXTENDS ShardSearch, TLC

CONSTANTS orient, tools

MCRepos == {orient, tools}
MCTerms == {"needle"}
MCSymmetry == Permutations(MCRepos)
=============================================================================
