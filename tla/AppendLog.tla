----------------------------- MODULE AppendLog -----------------------------
(***************************************************************************)
(* What the ledger promises to its readers: a log that only ever grows, one *)
(* fresh entry at a time.  Nothing written is changed, moved or dropped.   *)
(***************************************************************************)
EXTENDS Naturals, Sequences

CONSTANT Entry      \* the identities entries may have

VARIABLE log

Init == log = <<>>

Add(e) == /\ \A i \in DOMAIN log : log[i] # e
          /\ log' = Append(log, e)

Next == \E e \in Entry : Add(e)

Spec == Init /\ [][Next]_log
=============================================================================
