---------------------------- MODULE WriterMutex ----------------------------
(***************************************************************************)
(* What the writers of a shard directory want from its lock file: at most  *)
(* one of them writes at a time.  The promise is void once the lock is     *)
(* broken, which is what happens when a lock file outlives the stale age.  *)
(***************************************************************************)
CONSTANT Writers

VARIABLES
  holders,  (* the writers that may write to the directory                 *)
  intact    (* FALSE once a lock file has been old enough to be broken     *)

Init == holders = {} /\ intact = TRUE

Enter(w) ==
  /\ w \notin holders
  /\ intact => holders = {}
  /\ holders' = holders \cup {w}
  /\ UNCHANGED intact

Leave(w) ==
  /\ w \in holders
  /\ holders' = holders \ {w}
  /\ UNCHANGED intact

Break ==
  /\ intact
  /\ intact' = FALSE
  /\ UNCHANGED holders

Next == Break \/ \E w \in Writers : Enter(w) \/ Leave(w)

Spec == Init /\ [][Next]_<<holders, intact>>
=============================================================================
