------------------------ MODULE MCSearchCoalescing ------------------------
(* Two clients with two limits: one leads, the other joins it, or is       *)
(* served from a larger request, or comes after a refresh; two refreshes   *)
(* that overlap; a cache of one entry, so that it is evicted from.         *)
EXTENDS SearchCoalescing

MCClients == {"c1", "c2"}
MCRefreshers == {"w1", "w2"}
MCLimits == {10, 20}
MCShards == {"refresh_shards"}
MCTools == {"refresh_shards", "refresh_index"}
=============================================================================
