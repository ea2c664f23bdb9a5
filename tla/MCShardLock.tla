---------------------------- MODULE MCShardLock ----------------------------
(* Three writers: one that holds the lock (or held it and was killed) and  *)
(* two that find the file and race for it.                                 *)
EXTENDS ShardLock

MCWriters == {"cli", "daemon1", "daemon2"}
=============================================================================
