-------------------------- MODULE LedgerLockProofs --------------------------
(***************************************************************************)
(* Proofs about CrossProcessLedgerLock, for any set of acquirers, any      *)
(* distribution of them over kernels, and any timeout_sec and stale_sec.   *)
(***************************************************************************)
EXTENDS LedgerLock, TLAPS

\* Every variable of the lock keeps the range its code gives it.
THEOREM LockTypeCorrect == Spec => []TypeOK
<1> USE LockAssumption
<1>1. Init => TypeOK
  BY DEF Init, TypeOK, PC
<1>2. TypeOK /\ [Next]_vars => TypeOK'
  <2> SUFFICES ASSUME TypeOK, [Next]_vars
               PROVE  TypeOK'
    OBVIOUS
  <2>1. ASSUME NEW p \in Proc, Acquire(p)
        PROVE  TypeOK'
    <3>1. CASE Start(p)
      BY <3>1 DEF Start, Goto, TypeOK, PC
    <3>2. CASE MkdirOk(p)
      BY <3>2 DEF MkdirOk, Goto, TypeOK, PC
    <3>3. CASE MkdirExists(p)
      BY <3>3 DEF MkdirExists, Goto, TypeOK, PC
    <3>4. CASE StatDir(p)
      BY <3>4 DEF StatDir, Goto, TypeOK, PC
    <3>5. CASE BreakStale(p)
      BY <3>5 DEF BreakStale, RemoveDir, Goto, TypeOK, PC
    <3>6. CASE TryAgain(p)
      BY <3>6 DEF TryAgain, Goto, TypeOK, PC
    <3>7. CASE GiveUp(p)
      BY <3>7 DEF GiveUp, Goto, TypeOK, PC
    <3>8. CASE Flock(p)
      BY <3>8 DEF Flock, Goto, TypeOK, PC
    <3>9. CASE FlockFails(p)
      BY <3>9 DEF FlockFails, Goto, TypeOK, PC
    <3>10. QED
      BY <2>1, <3>1, <3>2, <3>3, <3>4, <3>5, <3>6, <3>7, <3>8, <3>9 DEF Acquire
  <2>2. ASSUME NEW p \in Proc, Unlock(p)
        PROVE  TypeOK'
    BY <2>2 DEF Unlock, DropFlock, Goto, TypeOK, PC
  <2>3. ASSUME NEW p \in Proc, RmdirOwn(p)
        PROVE  TypeOK'
    BY <2>3 DEF RmdirOwn, RemoveDir, Goto, TypeOK, PC
  <2>4. ASSUME NEW p \in Proc, Crash(p)
        PROVE  TypeOK'
    BY <2>4 DEF Crash, DropFlock, Goto, TypeOK, PC
  <2>5. CASE Tick
    BY <2>5 DEF Tick, TypeOK
  <2>6. CASE UNCHANGED vars
    BY <2>6 DEF vars, TypeOK
  <2>7. QED
    BY <2>1, <2>2, <2>3, <2>4, <2>5, <2>6 DEF Next, Release
<1>3. QED
  BY <1>1, <1>2, PTL DEF Spec

-----------------------------------------------------------------------------
(* The flock half *)

\* The steps that touch neither the flock table nor who is in the critical
\* section.
LEMMA FlockUntouched ==
  ASSUME TypeOK, FlockHeldByHolder, flock' = flock,
         \A q \in Proc : pc'[q] = "held" <=> pc[q] = "held"
  PROVE  FlockHeldByHolder'
BY LockAssumption DEF TypeOK, FlockHeldByHolder, Holders

LEMMA FlockInduction == TypeOK /\ FlockHeldByHolder /\ [Next]_vars => FlockHeldByHolder'
<1> USE LockAssumption
<1> SUFFICES ASSUME TypeOK, FlockHeldByHolder, [Next]_vars
             PROVE  FlockHeldByHolder'
  OBVIOUS
<1>1. ASSUME NEW p \in Proc,
             Start(p) \/ MkdirOk(p) \/ MkdirExists(p) \/ StatDir(p)
               \/ BreakStale(p) \/ TryAgain(p) \/ GiveUp(p) \/ RmdirOwn(p)
      PROVE  FlockHeldByHolder'
  <2>1. /\ flock' = flock
        /\ \A q \in Proc : pc'[q] = "held" <=> pc[q] = "held"
    BY <1>1 DEF TypeOK, Goto, RemoveDir, Start, MkdirOk, MkdirExists, StatDir,
                BreakStale, TryAgain, GiveUp, RmdirOwn
  <2>2. QED
    BY <2>1, FlockUntouched
<1>2. ASSUME NEW p \in Proc, Flock(p)
      PROVE  FlockHeldByHolder'
  <2>1. \A q \in Proc : pc'[q] = IF q = p THEN "held" ELSE pc[q]
    BY <1>2 DEF TypeOK, Flock, Goto
  <2>2. \A k \in Kernel : flock'[k] = IF k = KernelOf[p] THEN p ELSE flock[k]
    BY <1>2 DEF TypeOK, Flock
  <2>3. flock[KernelOf[p]] = NoProc
    BY <1>2 DEF Flock
  <2>4. ASSUME NEW k \in Kernel, flock'[k] # NoProc
        PROVE  pc'[flock'[k]] = "held" /\ KernelOf[flock'[k]] = k
    BY <2>1, <2>2, <2>4 DEF TypeOK, FlockHeldByHolder
  <2>5. ASSUME NEW q \in Proc, q \in Lockable, pc'[q] = "held"
        PROVE  flock'[KernelOf[q]] = q
    BY <2>1, <2>2, <2>3, <2>5 DEF TypeOK, FlockHeldByHolder, Holders
  <2>6. QED
    BY <2>4, <2>5 DEF FlockHeldByHolder, Holders
<1>3. ASSUME NEW p \in Proc, FlockFails(p)
      PROVE  FlockHeldByHolder'
  BY <1>3 DEF TypeOK, FlockFails, Goto, FlockHeldByHolder, Holders
<1>4. ASSUME NEW p \in Proc, Unlock(p) \/ Crash(p)
      PROVE  FlockHeldByHolder'
  <2>1. \A k \in Kernel : flock'[k] = IF flock[k] = p THEN NoProc ELSE flock[k]
    BY <1>4 DEF Unlock, Crash, DropFlock
  <2>2. /\ \A q \in Proc \ {p} : pc'[q] = pc[q]
        /\ pc'[p] # "held"
    BY <1>4 DEF TypeOK, Unlock, Crash, Goto
  <2>3. ASSUME NEW k \in Kernel, flock'[k] # NoProc
        PROVE  pc'[flock'[k]] = "held" /\ KernelOf[flock'[k]] = k
    BY <2>1, <2>2, <2>3 DEF TypeOK, FlockHeldByHolder
  <2>4. ASSUME NEW q \in Proc, q \in Lockable, pc'[q] = "held"
        PROVE  flock'[KernelOf[q]] = q
    BY <2>1, <2>2, <2>4 DEF TypeOK, FlockHeldByHolder, Holders
  <2>5. QED
    BY <2>3, <2>4 DEF FlockHeldByHolder, Holders
<1>5. CASE Tick
  BY <1>5, FlockUntouched DEF Tick
<1>6. CASE UNCHANGED vars
  BY <1>6, FlockUntouched DEF vars
<1>7. QED
  BY <1>1, <1>2, <1>3, <1>4, <1>5, <1>6 DEF Next, Acquire, Release

LEMMA FlockInvariance == Spec => []FlockHeldByHolder
<1>1. Init => FlockHeldByHolder
  BY LockAssumption DEF Init, FlockHeldByHolder, Holders
<1>2. QED
  BY <1>1, FlockInduction, LockTypeCorrect, PTL DEF Spec

\* Two acquirers of one kernel are never inside the lock together, whatever
\* happens to the lock directory.
THEOREM FlockExcludes == Spec => []SameKernelExclusion
<1>1. TypeOK /\ FlockHeldByHolder => SameKernelExclusion
  BY DEF FlockHeldByHolder, SameKernelExclusion, Holders
<1>2. QED
  BY <1>1, FlockInvariance, LockTypeCorrect, PTL

-----------------------------------------------------------------------------
(* The directory half *)

LEMMA DirInduction == TypeOK /\ DirInv /\ [Next]_vars => DirInv'
<1> USE LockAssumption
<1> SUFFICES ASSUME TypeOK, OwnDirOnDisk, NoDirInLoop, [Next]_vars
             PROVE  OwnDirOnDisk' /\ NoDirInLoop'
  BY DEF DirInv
<1>1. ASSUME NEW p \in Proc, MkdirOk(p)
      PROVE  OwnDirOnDisk' /\ NoDirInLoop'
  <2>1. \A q \in Proc : acquiredDir[q] => q \in robbed
    BY <1>1 DEF MkdirOk, OwnDirOnDisk, TypeOK
  <2>2. ~ acquiredDir[p]
    BY <1>1 DEF MkdirOk, NoDirInLoop
  <2>3. OwnDirOnDisk'
    BY <1>1, <2>1 DEF MkdirOk, OwnDirOnDisk, TypeOK
  <2>4. NoDirInLoop'
    BY <1>1 DEF MkdirOk, Goto, NoDirInLoop, TypeOK
  <2>5. QED
    BY <2>3, <2>4
<1>2. ASSUME NEW p \in Proc, BreakStale(p)
      PROVE  OwnDirOnDisk' /\ NoDirInLoop'
  <2>1. ~ acquiredDir[p]
    BY <1>2 DEF BreakStale, NoDirInLoop
  <2>2. OwnDirOnDisk'
    BY <1>2, <2>1 DEF BreakStale, RemoveDir, OwnDirOnDisk, TypeOK
  <2>3. NoDirInLoop'
    BY <1>2, <2>1 DEF BreakStale, Goto, NoDirInLoop, TypeOK
  <2>4. QED
    BY <2>2, <2>3
<1>3. ASSUME NEW p \in Proc, RmdirOwn(p)
      PROVE  OwnDirOnDisk' /\ NoDirInLoop'
  BY <1>3 DEF RmdirOwn, RemoveDir, Goto, OwnDirOnDisk, NoDirInLoop, TypeOK
<1>4. ASSUME NEW p \in Proc,
             Start(p) \/ MkdirExists(p) \/ StatDir(p) \/ TryAgain(p)
               \/ GiveUp(p) \/ Flock(p) \/ FlockFails(p) \/ Unlock(p)
      PROVE  OwnDirOnDisk' /\ NoDirInLoop'
  BY <1>4 DEF Start, MkdirExists, StatDir, TryAgain, GiveUp, Flock, FlockFails,
              Unlock, Goto, OwnDirOnDisk, NoDirInLoop, TypeOK
<1>5. ASSUME NEW p \in Proc, Crash(p)
      PROVE  OwnDirOnDisk' /\ NoDirInLoop'
  BY <1>5 DEF Crash, Goto, OwnDirOnDisk, NoDirInLoop, TypeOK
<1>6. CASE Tick
  BY <1>6 DEF Tick, OwnDirOnDisk, NoDirInLoop
<1>7. CASE UNCHANGED vars
  BY <1>7 DEF vars, OwnDirOnDisk, NoDirInLoop
<1>8. QED
  BY <1>1, <1>2, <1>3, <1>4, <1>5, <1>6, <1>7 DEF Next, Acquire, Release

LEMMA DirInvariance == Spec => []DirInv
<1>1. Init => DirInv
  BY DEF Init, DirInv, OwnDirOnDisk, NoDirInLoop
<1>2. QED
  BY <1>1, DirInduction, LockTypeCorrect, PTL DEF Spec

\* An acquirer that made the lock directory and was not robbed of it finds its
\* own directory on disk, so two of them never hold one at once.
THEOREM DirectoryExcludes == Spec => [](OwnDirOnDisk /\ DirectoryExclusion)
<1>1. DirInv => OwnDirOnDisk /\ DirectoryExclusion
  BY DEF DirInv, OwnDirOnDisk, DirectoryExclusion
<1>2. QED
  BY <1>1, DirInvariance, PTL

-----------------------------------------------------------------------------
(* Refinement *)

\* For the acquirers that can use the flock file the lock implements the abstract
\* Mutex, one critical section per kernel: entering and leaving it are its two
\* steps, everything else stutters.
THEOREM LockImplementsMutex == Spec => ImplementsMutex
<1> USE LockAssumption DEF Holders
<1>1. Init => KernelLock!Init
  BY DEF Init, KernelLock!Init
<1>2. TypeOK /\ FlockHeldByHolder /\ [Next]_vars
        => [KernelLock!Next]_(Holders \cap Lockable)
  <2> SUFFICES ASSUME TypeOK, FlockHeldByHolder, [Next]_vars
               PROVE  \/ KernelLock!Next
                      \/ (Holders \cap Lockable)' = Holders \cap Lockable
    OBVIOUS
  <2>1. ASSUME NEW p \in Proc, Flock(p)
        PROVE  KernelLock!Next
    <3>1. \A q \in Holders \cap Lockable : KernelOf[q] # KernelOf[p]
      BY <2>1 DEF Flock, FlockHeldByHolder, TypeOK
    <3>2. Holders' \cap Lockable = (Holders \cap Lockable) \cup {p}
      BY <2>1 DEF Flock, Goto, TypeOK
    <3>3. p \in Lockable
      BY <2>1 DEF Flock
    <3>4. QED
      BY <3>1, <3>2, <3>3 DEF KernelLock!Next, KernelLock!Enter
  <2>2. ASSUME NEW p \in Lockable, Unlock(p) \/ Crash(p), pc[p] = "held"
        PROVE  KernelLock!Next
    <3>1. p \in Proc /\ p \in Holders \cap Lockable
      BY <2>2
    <3>2. (Holders \cap Lockable)' = (Holders \cap Lockable) \ {p}
      BY <2>2, <3>1 DEF Unlock, Crash, Goto, TypeOK
    <3>3. QED
      BY <3>1, <3>2 DEF KernelLock!Next, KernelLock!Leave
  <2>3. ASSUME NEW p \in Proc, Crash(p) \/ Unlock(p), p \notin Lockable \/ pc[p] # "held"
        PROVE  (Holders \cap Lockable)' = Holders \cap Lockable
    BY <2>3 DEF Crash, Unlock, Goto, TypeOK
  <2>4. ASSUME NEW p \in Proc,
               Start(p) \/ MkdirOk(p) \/ MkdirExists(p) \/ StatDir(p)
                 \/ BreakStale(p) \/ TryAgain(p) \/ GiveUp(p) \/ RmdirOwn(p)
                 \/ FlockFails(p)
        PROVE  (Holders \cap Lockable)' = Holders \cap Lockable
    BY <2>4 DEF TypeOK, Goto, Start, MkdirOk, MkdirExists, StatDir,
                BreakStale, TryAgain, GiveUp, RmdirOwn, FlockFails
  <2>5. CASE Tick \/ UNCHANGED vars
    BY <2>5 DEF Tick, vars
  <2>6. QED
    BY <2>1, <2>2, <2>3, <2>4, <2>5 DEF Next, Acquire, Release
<1>3. QED
  BY <1>1, <1>2, LockTypeCorrect, FlockInvariance, PTL
     DEF Spec, ImplementsMutex, KernelLock!Spec
=============================================================================
