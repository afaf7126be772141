SPECIFICATION FairSpec
CONSTANTS
  daemon = daemon
  hook = hook
  guest = guest
  host = host
  container = container
  NoProc = NoProc
  Proc <- MCProc
  Kernel <- MCKernel
  KernelOf <- MCKernelOf
  Lockable <- MCLockable
  TimeoutSec = 1
  StaleSec = 2
INVARIANTS
  TypeOK
  SameKernelExclusion
  DirectoryExclusion
PROPERTIES
  ImplementsMutex
  AcquireReturns
