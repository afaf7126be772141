---------------------------- MODULE MCGateDaemon ----------------------------
(***************************************************************************)
(* Two gate commands, a source file, a new script outside the initial      *)
(* closure that tools write, and a file of a build that no digest covers.  *)
(***************************************************************************)
EXTENDS GateDaemon, TLC

CONSTANTS g1, g2, main, script, built, pass

MCClient == {g1, g2}
MCFile == {main, script, built}
MCSkipped == {built}
MCNamed == {{script}}
MCFree == {main, built}
MCTarget == {script}
MCNewScript == {script}
MCClaim == {pass}
MCAlike == {<<pass, pass>>}

MCSymmetry == Permutations(MCClient)
=============================================================================
