--------------------------- MODULE MCDaemonCaches ---------------------------
(* A shard directory of one index, two indexes outside it and room for one *)
(* ready index: the pinned one, one that is read and one that is refreshed *)
(* compete for it.  One thread answers; the other has started the daemon   *)
(* and changes what is answered from; both may find the directory stale.   *)
(* One edit, and the index of the directory may vanish in its last         *)
(* version, at any time.                                                   *)
EXTENDS DaemonCaches

MCThreads == {"c1", "c2"}
MCDir == {"a"}
MCSolo == {"s", "u"}
MCAsks == [c1 |-> {"fresh", "read"}, c2 |-> {"fresh", "refresh", "update"}]
MCOne == {"c1"}
MCReader == [c1 |-> {"fresh"}]
MCUpdate == {"s"}
MCDelete == {"a"}
=============================================================================
