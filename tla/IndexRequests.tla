--------------------------- MODULE IndexRequests -----------------------------
(***************************************************************************)
(* A daemon that searches and refreshes indexes: what IndexSearch and      *)
(* FastIndexRefresh promise does not depend on which indexes it holds.     *)
(***************************************************************************)
EXTENDS CommandLine, IndexSearch, FastIndexRefresh

(* The three texts that choose candidates (1381, 1660 and 1857 of          *)
(* fast_index.rs) agree: an index that may not match has no hit, and a     *)
(* plan counts the files that a search finds.                              *)
SearchesAgree == JustStarted => \A c \in Corpora, q \in Queries : Agree(c, q)

(* A file with all the words of a query is found, in whichever posting     *)
(* lists they are, but for the one word that OnlyInPath describes.         *)
TermsFound == JustStarted => \A c \in Corpora, q \in Queries : Complete(c, q)

(* Whatever was indexed before, a refresh (fast_index.rs, refresh) gives   *)
(* what a build gives, and one that an edit overtakes is put right by the  *)
(* next, unless the edit left the stat that the walk saw.                  *)
RefreshConverges == JustStarted => \A before \in Trees : ConvergesFrom(before)
=============================================================================
