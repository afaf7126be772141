----------------------------- MODULE LedgerLock -----------------------------
(***************************************************************************)
(* CrossProcessLedgerLock of daemon/ledger.py: an atomic lock directory    *)
(* (<ledger>.lock, made by mkdir) combined with flock() on                 *)
(* <ledger>.flock.                                                         *)
(*                                                                         *)
(* A member of Proc is one acquirer: a thread of the daemon or a hook      *)
(* process that writes the ledger itself.  Threads need no case of their   *)
(* own: every acquire() opens the flock file anew, and flock() excludes    *)
(* separate open file descriptions.  KernelOf says which kernel an         *)
(* acquirer runs on: the directory is shared by a bind mount (macOS host   *)
(* and container), the flock table is not.                                 *)
(*                                                                         *)
(* Time passes in ticks, one per second of the code's timeout_sec and      *)
(* stale_sec.  The 5..50 ms sleep of the loop is below the tick.           *)
(***************************************************************************)
EXTENDS Integers

CONSTANTS
  Proc,          \* the acquirers
  Kernel,        \* the kernels that mount the ledger's directory
  KernelOf,      \* KernelOf[p]: the kernel p runs on
  Lockable,      \* those whose open() and flock() of the .flock file succeed
  TimeoutSec,    \* timeout_sec
  StaleSec,      \* stale_sec
  NoProc         \* nobody

ASSUME LockAssumption ==
  /\ KernelOf \in [Proc -> Kernel]
  /\ Lockable \subseteq Proc
  /\ TimeoutSec \in Nat
  /\ StaleSec \in Nat
  /\ NoProc \notin Proc

VARIABLES
  pc,            \* where each acquirer is in acquire() / release()
  dir,           \* NoProc when the lock directory is absent, else who made it
  dirAge,        \* seconds since its mtime, saturating above StaleSec
  waited,        \* seconds since acquire() began, saturating at TimeoutSec
  acquiredDir,   \* self._acquired_dir
  flock,         \* flock[k]: the holder of the flock of kernel k
  robbed         \* history: acquirers whose directory someone else removed

vars == <<pc, dir, dirAge, waited, acquiredDir, flock, robbed>>

PC == {"idle", "mkdir", "stat", "break", "clock", "flock", "held", "rmdir"}

Holders == {p \in Proc : pc[p] = "held"}

Init ==
  /\ pc = [p \in Proc |-> "idle"]
  /\ dir = NoProc
  /\ dirAge = 0
  /\ waited = [p \in Proc |-> 0]
  /\ acquiredDir = [p \in Proc |-> FALSE]
  /\ flock = [k \in Kernel |-> NoProc]
  /\ robbed = {}

Goto(p, l) == pc' = [pc EXCEPT ![p] = l]

-----------------------------------------------------------------------------
(* acquire() *)

Start(p) ==
  /\ pc[p] = "idle"
  /\ Goto(p, "mkdir")
  /\ waited' = [waited EXCEPT ![p] = 0]
  /\ UNCHANGED <<dir, dirAge, acquiredDir, flock, robbed>>

\* Mutant: makedirs(exist_ok=True) in place of mkdir.
MakedirsOk(p) ==
  /\ pc[p] = "mkdir"
  /\ dir' = p
  /\ dirAge' = 0
  /\ acquiredDir' = [acquiredDir EXCEPT ![p] = TRUE]
  /\ robbed' = robbed \ {p}
  /\ Goto(p, "flock")
  /\ UNCHANGED <<waited, flock>>

\* os.mkdir succeeds: a fresh directory, whose mtime is now.
MkdirOk(p) ==
  /\ pc[p] = "mkdir"
  /\ dir = NoProc
  /\ dir' = p
  /\ dirAge' = 0
  /\ acquiredDir' = [acquiredDir EXCEPT ![p] = TRUE]
  /\ robbed' = robbed \ {p}
  /\ Goto(p, "flock")
  /\ UNCHANGED <<waited, flock>>

MkdirExists(p) ==
  /\ pc[p] = "mkdir"
  /\ dir # NoProc
  /\ Goto(p, "stat")
  /\ UNCHANGED <<dir, dirAge, waited, acquiredDir, flock, robbed>>

\* os.path.getmtime, which raises when the directory has gone meanwhile.
StatDir(p) ==
  /\ pc[p] = "stat"
  /\ Goto(p, IF dir # NoProc /\ dirAge > StaleSec THEN "break" ELSE "clock")
  /\ UNCHANGED <<dir, dirAge, waited, acquiredDir, flock, robbed>>

\* Mutant: a directory that is gone counts as somebody's.
RemoveAnyDir(p) ==
  /\ dir' = NoProc
  /\ dirAge' = 0
  /\ robbed' = robbed \cup {dir}

\* os.rmdir takes away whatever directory is there by now, whoever made it.
RemoveDir(p) ==
  /\ dir' = NoProc
  /\ dirAge' = 0
  /\ robbed' = robbed \cup
       {q \in Proc : q # p /\ dir = q /\ acquiredDir[q]}

BreakStale(p) ==
  /\ pc[p] = "break"
  /\ RemoveDir(p)
  /\ Goto(p, "clock")
  /\ UNCHANGED <<waited, acquiredDir, flock>>

\* Mutant: the loop does not look at the clock.
TryForever(p) ==
  /\ pc[p] = "clock"
  /\ Goto(p, "mkdir")
  /\ UNCHANGED <<dir, dirAge, waited, acquiredDir, flock, robbed>>

\* time.time() - start < timeout_sec: sleep and go round again.
TryAgain(p) ==
  /\ pc[p] = "clock"
  /\ waited[p] < TimeoutSec
  /\ Goto(p, "mkdir")
  /\ UNCHANGED <<dir, dirAge, waited, acquiredDir, flock, robbed>>

\* The timeout: leave the loop without the directory and go on regardless.
GiveUp(p) ==
  /\ pc[p] = "clock"
  /\ waited[p] >= TimeoutSec
  /\ Goto(p, "flock")
  /\ UNCHANGED <<dir, dirAge, waited, acquiredDir, flock, robbed>>

\* Mutant: LOCK_SH.
FlockShared(p) ==
  /\ pc[p] = "flock"
  /\ p \in Lockable
  /\ flock' = [flock EXCEPT ![KernelOf[p]] = p]
  /\ Goto(p, "held")
  /\ UNCHANGED <<dir, dirAge, waited, acquiredDir, robbed>>

\* fcntl.flock(LOCK_EX) blocks until this kernel's lock is free.
Flock(p) ==
  /\ pc[p] = "flock"
  /\ p \in Lockable
  /\ flock[KernelOf[p]] = NoProc
  /\ flock' = [flock EXCEPT ![KernelOf[p]] = p]
  /\ Goto(p, "held")
  /\ UNCHANGED <<dir, dirAge, waited, acquiredDir, robbed>>

\* open() or flock() raises: the exception is swallowed.
FlockFails(p) ==
  /\ pc[p] = "flock"
  /\ p \notin Lockable
  /\ Goto(p, "held")
  /\ UNCHANGED <<dir, dirAge, waited, acquiredDir, flock, robbed>>

-----------------------------------------------------------------------------
(* release(): the flock first, the directory after it *)

DropFlock(p) ==
  flock' = [k \in Kernel |-> IF flock[k] = p THEN NoProc ELSE flock[k]]

Unlock(p) ==
  /\ pc[p] = "held"
  /\ DropFlock(p)
  /\ Goto(p, IF acquiredDir[p] THEN "rmdir" ELSE "idle")
  /\ UNCHANGED <<dir, dirAge, waited, acquiredDir, robbed>>

RmdirOwn(p) ==
  /\ pc[p] = "rmdir"
  /\ RemoveDir(p)
  /\ acquiredDir' = [acquiredDir EXCEPT ![p] = FALSE]
  /\ Goto(p, "idle")
  /\ UNCHANGED <<waited, flock>>

-----------------------------------------------------------------------------
(* The environment *)

\* A killed process: the kernel drops its flock, its directory stays behind.
Crash(p) ==
  /\ pc[p] # "idle"
  /\ Goto(p, "idle")
  /\ DropFlock(p)
  /\ acquiredDir' = [acquiredDir EXCEPT ![p] = FALSE]
  /\ UNCHANGED <<dir, dirAge, waited, robbed>>

Looping == {p \in Proc : pc[p] \in {"mkdir", "stat", "break", "clock"}}

Tick ==
  /\ dirAge' = IF dir # NoProc /\ dirAge <= StaleSec THEN dirAge + 1 ELSE dirAge
  /\ waited' = [p \in Proc |-> IF p \in Looping /\ waited[p] < TimeoutSec
                               THEN waited[p] + 1 ELSE waited[p]]
  /\ UNCHANGED <<pc, dir, acquiredDir, flock, robbed>>

Acquire(p) ==
  \/ Start(p) \/ MkdirOk(p) \/ MkdirExists(p) \/ StatDir(p)
  \/ BreakStale(p) \/ TryAgain(p) \/ GiveUp(p) \/ Flock(p) \/ FlockFails(p)

Release(p) == Unlock(p) \/ RmdirOwn(p)

Next == (\E p \in Proc : Acquire(p) \/ Release(p) \/ Crash(p)) \/ Tick

Spec == Init /\ [][Next]_vars

\* The scheduler runs every process that can run, the clock advances, a
\* critical section ends (LedgerFile has no loop in one), and a kernel hands a
\* flock to its waiters in turn.
Fairness ==
  /\ WF_vars(Tick)
  /\ \A p \in Proc :
       /\ WF_vars(MkdirOk(p) \/ MkdirExists(p))
       /\ WF_vars(StatDir(p) \/ BreakStale(p))
       /\ WF_vars(TryAgain(p) \/ GiveUp(p))
       /\ SF_vars(Flock(p) \/ FlockFails(p))
       /\ WF_vars(Release(p))

FairSpec == Spec /\ Fairness
-----------------------------------------------------------------------------
(* Properties *)

TypeOK ==
  /\ pc \in [Proc -> PC]
  /\ dir \in Proc \cup {NoProc}
  /\ dirAge \in 0 .. StaleSec + 1
  /\ waited \in [Proc -> 0 .. TimeoutSec]
  /\ acquiredDir \in [Proc -> BOOLEAN]
  /\ flock \in [Kernel -> Proc \cup {NoProc}]
  /\ robbed \subseteq Proc

\* Whatever happens to the directory (stale break, timeout, a crash that leaves
\* it behind), the flock alone keeps two acquirers of one kernel from being
\* inside `with CrossProcessLedgerLock(...)` at the same time.
SameKernelExclusion ==
  \A p, q \in Holders \cap Lockable : KernelOf[p] = KernelOf[q] => p = q

\* Two acquirers can both believe that they made the lock directory only when
\* the directory of one of them was taken away under it: by a stale break, or
\* by the release() of somebody who had lost his own before.
DirectoryExclusion ==
  \A p, q \in Proc :
    acquiredDir[p] /\ acquiredDir[q] /\ p # q => p \in robbed \/ q \in robbed

\* The directory an acquirer made and did not lose is the one on disk.
OwnDirOnDisk ==
  \A p \in Proc : acquiredDir[p] /\ p \notin robbed => dir = p

\* A flock is held by a process of that kernel that is in its critical section.
FlockHeldByHolder ==
  /\ \A k \in Kernel : flock[k] # NoProc =>
       /\ pc[flock[k]] = "held"
       /\ KernelOf[flock[k]] = k
  /\ \A p \in Holders \cap Lockable : flock[KernelOf[p]] = p

\* Nobody in the acquire loop owns a directory.
NoDirInLoop ==
  \A p \in Proc : acquiredDir[p] => pc[p] \in {"flock", "held", "rmdir"}

\* What is inductive about the directory.
DirInv == OwnDirOnDisk /\ NoDirInLoop

\* The acquirers whose flock works get one critical section per kernel: the
\* abstract lock, which the ledger file's code relies on.
KernelLock == INSTANCE Mutex WITH
                Proc <- Lockable, ClassOf <- KernelOf, holders <- Holders \cap Lockable

ImplementsMutex == KernelLock!Spec

\* acquire() always comes to an end, whatever directory a crashed process left
\* behind and however often others take the directory first: its caller gets in,
\* or is killed.
AcquireReturns ==
  \A p \in Proc : pc[p] = "mkdir" ~> pc[p] \in {"held", "idle"}
=============================================================================
