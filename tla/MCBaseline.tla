----------------------------- MODULE MCBaseline -----------------------------
(***************************************************************************)
(* Two linked worktrees of one repository, and two hooks.  Neither worktree*)
(* nor hook is distinguished by the module.                                *)
(***************************************************************************)
EXTENDS Baseline, TLC

MCSymmetry == Permutations(Tree) \union Permutations(Hook)

\* Of a cache file that two hooks crossed no property says anything any more.
View == IF crossed THEN <<"crossed">> ELSE vars
=============================================================================
