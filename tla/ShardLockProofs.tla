-------------------------- MODULE ShardLockProofs --------------------------
(***************************************************************************)
(* The lock file implements a mutex, for any number of writers, as long as *)
(* no lock file reaches the stale age; and what it costs when one does is  *)
(* only that promise: every step is still one the abstract mutex allows.   *)
(***************************************************************************)
EXTENDS ShardLock, TLAPS

Holders == {w \in Writers : pc[w] = "held"}

(* Exclusion is not inductive: it needs to know that the holder's file is  *)
(* still there, and that nobody is about to remove it, which in turn takes *)
(* that no file has been old.                                              *)
NobodyBreaks ==
  ages = 0 => ~old /\ \A w \in Writers : pc[w] # "unlink"

LockInv == TypeOK /\ NobodyBreaks /\ HolderOwnsFile

LEMMA LockInvInit == Init => LockInv
<1> SUFFICES ASSUME Init PROVE LockInv
  OBVIOUS
<1>1. TypeOK
  BY DEF Init, TypeOK
<1>2. NobodyBreaks
  BY DEF Init, NobodyBreaks
<1>3. HolderOwnsFile
  BY DEF Init, HolderOwnsFile
<1> QED BY <1>1, <1>2, <1>3 DEF LockInv

LEMMA TypingStep == TypeOK /\ [Next]_vars => TypeOK'
<1> SUFFICES ASSUME TypeOK, [Next]_vars PROVE TypeOK'
  OBVIOUS
<1> USE NoOneIsNoWriter, LockAssumption DEF TypeOK, Goto, file
<1>1. ASSUME NEW w \in Writers, Start(w) PROVE TypeOK'
  BY <1>1 DEF Start
<1>2. ASSUME NEW w \in Writers, Create(w) \/ CreateThenFail(w) PROVE TypeOK'
  BY <1>2 DEF Create, CreateThenFail, Created
<1>3. ASSUME NEW w \in Writers, CreateError(w) \/ Exists(w) PROVE TypeOK'
  BY <1>3 DEF CreateError, Exists
<1>4. ASSUME NEW w \in Writers, JudgeStale(w) \/ JudgeRetry(w) \/ JudgeTimeout(w)
      PROVE  TypeOK'
  BY <1>4 DEF JudgeStale, JudgeRetry, JudgeTimeout
<1>5. ASSUME NEW w \in Writers, Unlink(w) \/ UnlinkFails(w) \/ Release(w)
      PROVE  TypeOK'
  BY <1>5 DEF Unlink, UnlinkFails, Release, Removed
<1>6. ASSUME NEW w \in Writers, Crash(w) PROVE TypeOK'
  BY <1>6 DEF Crash
<1>7. ASSUME NEW w \in Writers, Elapse(w) PROVE TypeOK'
  BY <1>7 DEF Elapse
<1>8. CASE Age
  BY <1>8 DEF Age
<1>9. CASE UNCHANGED vars
  BY <1>9 DEF vars
<1> QED BY <1>1, <1>2, <1>3, <1>4, <1>5, <1>6, <1>7, <1>8, <1>9 DEF Next

LEMMA LockInvStep == LockInv /\ [Next]_vars => LockInv'
<1> SUFFICES ASSUME LockInv, [Next]_vars PROVE LockInv'
  OBVIOUS
<1>0. TypeOK'
  BY TypingStep DEF LockInv
<1> SUFFICES NobodyBreaks' /\ HolderOwnsFile'
  BY <1>0 DEF LockInv
<1> USE NoOneIsNoWriter DEF LockInv, TypeOK, NobodyBreaks, HolderOwnsFile, Goto, file
<1>1. ASSUME NEW w \in Writers, Create(w) \/ CreateThenFail(w)
      PROVE  NobodyBreaks' /\ HolderOwnsFile'
  BY <1>1 DEF Create, CreateThenFail, Created
<1>2. ASSUME NEW w \in Writers, Unlink(w) \/ UnlinkFails(w)
      PROVE  NobodyBreaks' /\ HolderOwnsFile'
  BY <1>2 DEF Unlink, UnlinkFails, Removed
<1>3. ASSUME NEW w \in Writers, Release(w)
      PROVE  NobodyBreaks' /\ HolderOwnsFile'
  BY <1>3 DEF Release, Removed
<1>4. ASSUME NEW w \in Writers, JudgeStale(w)
      PROVE  NobodyBreaks' /\ HolderOwnsFile'
  BY <1>4 DEF JudgeStale, StaleFile
<1>5. ASSUME NEW w \in Writers,
             \/ Start(w) \/ CreateError(w) \/ Exists(w)
             \/ JudgeRetry(w) \/ JudgeTimeout(w)
      PROVE  NobodyBreaks' /\ HolderOwnsFile'
  BY <1>5 DEF Start, CreateError, Exists, JudgeRetry, JudgeTimeout
<1>6. ASSUME NEW w \in Writers, Crash(w)
      PROVE  NobodyBreaks' /\ HolderOwnsFile'
  BY <1>6 DEF Crash
<1>7. ASSUME NEW w \in Writers, Elapse(w)
      PROVE  NobodyBreaks' /\ HolderOwnsFile'
  BY <1>7 DEF Elapse
<1>8. CASE Age
  BY <1>8 DEF Age
<1>9. CASE UNCHANGED vars
  BY <1>9 DEF vars
<1> QED BY <1>1, <1>2, <1>3, <1>4, <1>5, <1>6, <1>7, <1>8, <1>9 DEF Next

(* The types, and that a writer that is done leaves no lock file behind    *)
(* under its name (ShardWriteLock, acquire and drop).                      *)
THEOREM Typing == Spec => []TypeOK
<1>1. Init => TypeOK
  BY LockInvInit DEF LockInv
<1> QED BY <1>1, TypingStep, PTL DEF Spec

(* Until a lock file reaches the stale age, the file that is there is the  *)
(* holder's: nobody takes it away from under a writer.                     *)
THEOREM FreshLockKept == Spec => []HolderOwnsFile
<1>1. LockInv => HolderOwnsFile
  BY DEF LockInv
<1> QED BY <1>1, LockInvInit, LockInvStep, PTL DEF Spec

-----------------------------------------------------------------------------
(* Every step of the lock is a step of the mutex or leaves it as it is.    *)

LEMMA StepRefines == LockInv /\ [Next]_vars => [Mutex!Next]_<<Holders, ages = 0>>
<1> SUFFICES ASSUME LockInv, [Next]_vars
             PROVE  Mutex!Next \/ (Holders' = Holders /\ (ages = 0)' = (ages = 0))
  BY DEF Holders
<1> USE DEF LockInv, TypeOK, Goto, Holders
<1>1. ASSUME NEW w \in Writers, Create(w) PROVE Mutex!Enter(w)
  <2>1. ages = 0 => Holders = {}
    BY <1>1 DEF Create, HolderOwnsFile
  <2>2. w \notin Holders /\ Holders' = Holders \cup {w}
    BY <1>1 DEF Create
  <2>3. (ages = 0)' = (ages = 0)
    BY <1>1 DEF Create
  <2> QED BY <2>1, <2>2, <2>3 DEF Mutex!Enter
<1>2. ASSUME NEW w \in Writers, Release(w) PROVE Mutex!Leave(w)
  <2>1. w \in Holders /\ Holders' = Holders \ {w}
    BY <1>2 DEF Release
  <2>2. (ages = 0)' = (ages = 0)
    BY <1>2 DEF Release
  <2> QED BY <2>1, <2>2 DEF Mutex!Leave
<1>3. ASSUME NEW w \in Writers, Crash(w)
      PROVE  Mutex!Leave(w) \/ (Holders' = Holders /\ (ages = 0)' = (ages = 0))
  <2>1. (ages = 0)' = (ages = 0)
    BY <1>3 DEF Crash
  <2>2. CASE pc[w] = "held"
    <3>1. w \in Holders /\ Holders' = Holders \ {w}
      BY <1>3, <2>2 DEF Crash
    <3> QED BY <2>1, <3>1 DEF Mutex!Leave
  <2>3. CASE pc[w] # "held"
    <3>1. Holders' = Holders
      BY <1>3, <2>3 DEF Crash
    <3> QED BY <2>1, <3>1
  <2> QED BY <2>2, <2>3
<1>4. ASSUME Age
      PROVE  Mutex!Break \/ (Holders' = Holders /\ (ages = 0)' = (ages = 0))
  <2>1. Holders' = Holders
    BY <1>4 DEF Age
  <2>2. CASE ages = 0
    <3>1. ~(ages = 0)'
      BY <1>4, <2>2 DEF Age
    <3> QED BY <2>1, <2>2, <3>1 DEF Mutex!Break
  <2>3. CASE ages # 0
    <3>1. ~(ages = 0)'
      BY <1>4, <2>3 DEF Age
    <3> QED BY <2>1, <2>3, <3>1
  <2> QED BY <2>2, <2>3
<1>5. ASSUME NEW w \in Writers,
             \/ Start(w) \/ CreateThenFail(w) \/ CreateError(w) \/ Exists(w)
             \/ JudgeStale(w) \/ JudgeRetry(w) \/ JudgeTimeout(w)
             \/ Unlink(w) \/ UnlinkFails(w) \/ Elapse(w)
      PROVE  Holders' = Holders /\ (ages = 0)' = (ages = 0)
  BY <1>5 DEF Start, CreateThenFail, CreateError, Exists, JudgeStale, JudgeRetry,
              JudgeTimeout, Unlink, UnlinkFails, Elapse
<1>6. CASE UNCHANGED vars
  BY <1>6 DEF vars
<1> QED BY <1>1, <1>2, <1>3, <1>4, <1>5, <1>6 DEF Next, Mutex!Next

(* ShardWriteLock implements the mutex over the writers of a directory.    *)
THEOREM LockIsMutex == Spec => ImplementsMutex
<1>1. Init => Mutex!Init
  BY DEF Init, Mutex!Init
<1> QED BY <1>1, LockInvInit, LockInvStep, StepRefines, PTL
        DEF Spec, ImplementsMutex, Mutex!Spec, Holders
=============================================================================
