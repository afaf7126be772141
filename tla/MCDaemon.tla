------------------------------ MODULE MCDaemon ------------------------------
(***************************************************************************)
(* Two threads of the pool and two conversations.                          *)
(***************************************************************************)
EXTENDS Daemon, TLC

CONSTANTS t1, t2, c1, c2, s1, s2

MCThread == {t1, t2}
MCOneThread == {t1}
MCConv == {c1, c2}
MCOneConv == {c1}
MCSha == {s1, s2}
MCOneSha == {s1}

MCSymmetry == Permutations(MCThread) \cup Permutations(MCConv) \cup Permutations(MCSha)
=============================================================================
