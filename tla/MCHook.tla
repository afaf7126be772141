------------------------------- MODULE MCHook -------------------------------
(***************************************************************************)
(* The same test twice, the first time perhaps in the background.  A       *)
(* result stands one step after its call.                                  *)
(***************************************************************************)
EXTENDS Hook

MCText == <<"pytest", "pytest">>
MCStep == <<1, 3>>
MCResultStep == <<2, 4>>

\* Once every hook has decided nothing reads the transcript.
View ==
  <<harness, real, before, pc, outcome, keyFile, daemon, requests, ledger,
    IF \E c \in Call : pc[c] = "none" THEN transcript ELSE <<>> >>
=============================================================================
