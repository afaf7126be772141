---------------------------- MODULE MCLedgerLock ----------------------------
(***************************************************************************)
(* Two acquirers on the host (the daemon and a hook) and one in a          *)
(* container that mounts the same ledger directory.                        *)
(***************************************************************************)
EXTENDS LedgerLock

CONSTANTS daemon, hook, guest, host, container

MCProc == {daemon, hook, guest}
MCKernel == {host, container}
MCKernelOf == [p \in MCProc |-> IF p = guest THEN container ELSE host]

\* The container may not open the flock file (it is mode 0600).
MCLockable == {daemon, hook}
=============================================================================
