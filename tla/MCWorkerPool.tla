---------------------------- MODULE MCWorkerPool ----------------------------
(* Four connections over a pool of three workers, four cores and a        *)
(* per-query cap of two: one request cannot drain the pool, two can, and   *)
(* the others then sleep or are given the one worker that is left.     *)
EXTENDS WorkerPool

MCThreads == {"t1", "t2", "t3", "t4"}
=============================================================================
