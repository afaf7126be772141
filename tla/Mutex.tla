------------------------------- MODULE Mutex -------------------------------
(***************************************************************************)
(* What the ledger code assumes of its lock: of the processes that can see *)
(* one another's lock at most one is in its critical section.              *)
(* CrossProcessLedgerLock is shown to implement it with the kernels as the *)
(* classes (LedgerLock); LedgerFile takes its critical sections from it.   *)
(***************************************************************************)
CONSTANTS
  Proc,
  ClassOf     \* the processes of one class exclude one another

VARIABLE holders    \* the processes inside their critical section

Init == holders = {}

Enter(p) == /\ \A q \in holders : ClassOf[q] # ClassOf[p]
            /\ holders' = holders \cup {p}

Leave(p) == /\ p \in holders
            /\ holders' = holders \ {p}

Next == \E p \in Proc : Enter(p) \/ Leave(p)

Spec == Init /\ [][Next]_holders
=============================================================================
