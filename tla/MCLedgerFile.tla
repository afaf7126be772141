---------------------------- MODULE MCLedgerFile ----------------------------
(***************************************************************************)
(* The daemon and one hook that writes the same ledger file.               *)
(***************************************************************************)
EXTENDS LedgerFile, TLC

CONSTANTS daemon, hook

MCProc == {daemon, hook}

MCSymmetry == Permutations(MCProc)
=============================================================================
