----------------------------- MODULE ShardLock -----------------------------
(***************************************************************************)
(* The lock file of a shard directory (shards.rs, ShardWriteLock).         *)
(*                                                                         *)
(* build_shards, ensure_shards, refresh_shards and refresh_shards_by_root  *)
(* all start with ShardWriteLock::acquire, in the CLI as in the daemon, so *)
(* a writer is a thread of any process on the machine.  The lock is a file *)
(* created with create_new; a file that is older than 30 minutes counts as *)
(* left behind and is removed by whoever finds it; dropping the lock       *)
(* removes the file.  Creating, looking at the age, and removing are       *)
(* separate system calls.                                                  *)
(***************************************************************************)
EXTENDS Naturals

CONSTANTS
  Writers,      (* threads that write to the directory                     *)
  SlowHolders,  (* may a holder work for longer than the stale age?        *)
  MaxAges       (* bound: how many lock files ever reach the stale age     *)

ASSUME LockAssumption ==
  /\ SlowHolders \in BOOLEAN
  /\ MaxAges \in Nat

NoOne == "no one"
ASSUME NoOneIsNoWriter == NoOne \notin Writers

VARIABLES
  present,  (* does the lock file exist?                                   *)
  owner,    (* who created the file that exists, while it still runs       *)
  old,      (* has that file reached SHARD_WRITE_LOCK_STALE_AFTER?         *)
  ages,     (* how many files have                                         *)
  late,     (* late[w]: has w waited for SHARD_WRITE_LOCK_TIMEOUT?         *)
  pc        (* "idle", "create", "judge", "unlink", "held"                 *)

file == <<present, owner, old>>
vars == <<present, owner, old, ages, late, pc>>

Init ==
  /\ present = FALSE
  /\ owner = NoOne
  /\ old = FALSE
  /\ ages = 0
  /\ late = [w \in Writers |-> FALSE]
  /\ pc = [w \in Writers |-> "idle"]

Goto(w, from, to) ==
  /\ pc[w] = from
  /\ pc' = [pc EXCEPT ![w] = to]

Created(w) == present' = TRUE /\ owner' = w /\ old' = FALSE
Removed    == present' = FALSE /\ owner' = NoOne /\ old' = FALSE

-----------------------------------------------------------------------------
(* ShardWriteLock::acquire                                                 *)

Start(w) ==
  /\ Goto(w, "idle", "create")
  /\ late' = [late EXCEPT ![w] = FALSE]
  /\ UNCHANGED <<file, ages>>

(* create_new succeeds, and so do the two writes and the sync.             *)
CreateOverwrites(w) ==                     \* defect: create instead of create_new
  /\ Goto(w, "create", "held")
  /\ Created(w)
  /\ UNCHANGED <<ages, late>>

Create(w) ==
  /\ ~present
  /\ Goto(w, "create", "held")
  /\ Created(w)
  /\ UNCHANGED <<ages, late>>

(* create_new succeeds and a write or the sync fails: acquire returns the  *)
(* error before there is a ShardWriteLock to drop, so the file stays.      *)
CreateThenFail(w) ==
  /\ ~present
  /\ Goto(w, "create", "idle")
  /\ present' = TRUE /\ owner' = NoOne /\ old' = FALSE
  /\ UNCHANGED <<ages, late>>

(* create_new fails for another reason than AlreadyExists.                 *)
CreateError(w) ==
  /\ Goto(w, "create", "idle")
  /\ UNCHANGED <<file, ages, late>>

Exists(w) ==
  /\ present
  /\ Goto(w, "create", "judge")
  /\ UNCHANGED <<file, ages, late>>

(* shard_lock_is_stale; a file that is gone meanwhile is not stale.        *)
AnyFile == present                         \* defect: the age is not compared
StaleFile == present /\ old

JudgeStale(w) ==
  /\ StaleFile
  /\ Goto(w, "judge", "unlink")
  /\ UNCHANGED <<file, ages, late>>

NoTimeout(w) == FALSE                      \* defect: the wait has no limit
TimeoutDue(w) == late[w]

JudgeRetry(w) ==
  /\ ~StaleFile /\ ~TimeoutDue(w)
  /\ Goto(w, "judge", "create")
  /\ UNCHANGED <<file, ages, late>>

JudgeTimeout(w) ==
  /\ ~StaleFile /\ TimeoutDue(w)
  /\ Goto(w, "judge", "idle")
  /\ UNCHANGED <<file, ages, late>>

(* let _ = fs::remove_file(&path): whatever file is there by now.          *)
Unlink(w) ==
  /\ Goto(w, "unlink", "create")
  /\ Removed
  /\ UNCHANGED <<ages, late>>

(* The removal fails, the error is dropped and the loop goes on.           *)
UnlinkFails(w) ==
  /\ present
  /\ Goto(w, "unlink", "create")
  /\ UNCHANGED <<file, ages, late>>

ReleaseUndropped(w) ==                     \* defect: no Drop
  /\ Goto(w, "held", "idle")
  /\ UNCHANGED <<file, ages, late>>

(* Drop for ShardWriteLock: removes the path, whoever made the file.       *)
Release(w) ==
  /\ Goto(w, "held", "idle")
  /\ Removed
  /\ UNCHANGED <<ages, late>>

-----------------------------------------------------------------------------
(* The environment                                                         *)

(* The process of w is killed: nothing is dropped, the file stays.         *)
Crash(w) ==
  /\ pc[w] # "idle"
  /\ pc' = [pc EXCEPT ![w] = "idle"]
  /\ owner' = IF owner = w THEN NoOne ELSE owner
  /\ UNCHANGED <<present, old, ages, late>>

(* Thirty minutes pass for the file that is there.                         *)
Age ==
  /\ present /\ ~old
  /\ ages < MaxAges
  /\ SlowHolders \/ owner = NoOne
  /\ old' = TRUE
  /\ ages' = ages + 1
  /\ UNCHANGED <<present, owner, late, pc>>

(* Two minutes pass for a writer that waits.                               *)
Elapse(w) ==
  /\ pc[w] \in {"create", "judge", "unlink"}
  /\ ~late[w]
  /\ late' = [late EXCEPT ![w] = TRUE]
  /\ UNCHANGED <<file, ages, pc>>

Next ==
  \/ Age
  \/ \E w \in Writers :
       \/ Start(w) \/ Create(w) \/ CreateThenFail(w) \/ CreateError(w)
       \/ Exists(w) \/ JudgeStale(w) \/ JudgeRetry(w) \/ JudgeTimeout(w)
       \/ Unlink(w) \/ UnlinkFails(w)
       \/ Release(w) \/ Crash(w) \/ Elapse(w)

(* A waiting writer keeps looping and time passes for it.  Holders need   *)
(* not finish, and no removal of a file need ever succeed.                 *)
Looping(w) ==
  \/ Create(w) \/ Exists(w) \/ JudgeStale(w) \/ JudgeRetry(w)
  \/ JudgeTimeout(w) \/ Unlink(w) \/ UnlinkFails(w)

Fairness ==
  \A w \in Writers : WF_vars(Looping(w)) /\ WF_vars(Elapse(w))

Spec == Init /\ [][Next]_vars /\ Fairness

-----------------------------------------------------------------------------

(* Each variable has its type; a file with an owner exists, and its owner  *)
(* is at work: no writer that is done leaves its lock file behind.         *)
TypeOK ==
  /\ present \in BOOLEAN
  /\ owner \in Writers \cup {NoOne}
  /\ owner # NoOne => present /\ pc[owner] = "held"
  /\ old \in BOOLEAN
  /\ ages \in Nat
  /\ late \in [Writers -> BOOLEAN]
  /\ pc \in [Writers -> {"idle", "create", "judge", "unlink", "held"}]

(* As long as no lock file was ever old enough to be broken, whoever holds *)
(* the lock is the one who made the file that is there: neither a waiter,  *)
(* nor a holder that lets go, nor a writer whose acquire failed takes the  *)
(* file away from under a writer (ShardWriteLock::acquire and drop).       *)
HolderOwnsFile ==
  ages = 0 => \A w \in Writers : pc[w] = "held" => present /\ owner = w

(* The writers of a directory exclude each other until a lock file reaches *)
(* the stale age: acquire and drop implement the mutex.                    *)
Mutex == INSTANCE WriterMutex
           WITH holders <- {w \in Writers : pc[w] = "held"}, intact <- ages = 0
ImplementsMutex == Mutex!Spec

(* Every writer that waits gets the lock, an error or the timeout, also    *)
(* when holders never finish or crash and leave their file behind.  The    *)
(* exception of the code: the loop drops the error of a removal and goes   *)
(* round without looking at the time limit, so a waiter may spin while a   *)
(* stale file is there that nobody gets removed.                           *)
WaitersAnswered ==
  \A w \in Writers : []<>(pc[w] \in {"held", "idle"}) \/ <>[](present /\ old)

(* What acquire is for: two threads never write to one shard directory.    *)
MutualExclusion ==
  \A v, w \in Writers : pc[v] = "held" /\ pc[w] = "held" => v = w
=============================================================================
