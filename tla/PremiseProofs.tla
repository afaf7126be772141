--------------------------- MODULE PremiseProofs ---------------------------
(***************************************************************************)
(* Proofs about Premise: types, and that the fold over the ledger comes to *)
(* what its definitions without a fold say, for every ledger, every set of *)
(* commands and every order of records and questions.                      *)
(***************************************************************************)
EXTENDS Premise, TLAPS

\* what the fold keeps of record i when it is an open failure
Kept(i) == [cmd |-> recs[i].cmd, cwd |-> recs[i].cwd, at |-> i]

\* The position is in the ledger and the ledger only grows at its end.
LEMMA RecordedSame ==
  ASSUME recs \in Seq(Entry), RecordEntry
  PROVE  /\ Len(recs') = Len(recs) + 1
         /\ recs' \in Seq(Entry)
         /\ \A k \in 1 .. Len(recs) : recs'[k] = recs[k]
  BY DEF RecordEntry

\* Types are kept by every step.
LEMMA TypeStep ==
  ASSUME TypeOK, [Next]_vars
  PROVE  TypeOK'
<1> USE PremiseAssumption
<1>1. CASE RecordEntry
  <2>1. recs' \in Seq(Entry) /\ Len(recs') = Len(recs) + 1
    BY <1>1, RecordedSame DEF TypeOK
  <2>2. Len(recs') <= MaxRecs /\ pos' \in 0 .. Len(recs')
    BY <1>1, <2>1 DEF TypeOK, RecordEntry
  <2> QED BY <1>1, <2>1, <2>2 DEF TypeOK, RecordEntry, folded, Steps
<1>2. CASE AskPremise
  BY <1>2 DEF TypeOK, AskPremise, Reset, Steps
<1>3. CASE FoldNext /\ recs[pos + 1] \in Entry /\ recs[pos + 1].step \in Nat
  <2>1. pos' \in 0 .. Len(recs') /\ recs' = recs /\ mode' = mode
    BY <1>3 DEF FoldNext, TypeOK
  <2>2. CASE FoldFailed
    BY <1>3, <2>1, <2>2 DEF FoldFailed, FoldNext, TypeOK, Steps
  <2>3. CASE FoldClean
    <3>1. lastTest' \in Steps
      BY <1>3, <2>3 DEF FoldClean, TypeOK, Steps, Later
    <3>2. verifs' \in Nat /\ tests' \in Nat /\ tests' <= verifs'
      BY <2>3 DEF FoldClean, TypeOK
    <3>3. \A u \in unresolved' : u.at \in 1 .. pos'
      BY <1>3, <2>3 DEF FoldClean, FoldNext, TypeOK
    <3> QED BY <2>1, <2>3, <3>1, <3>2, <3>3 DEF FoldClean, TypeOK
  <2>4. CASE FoldEdit
    <3>1. lastSource' \in Steps
      BY <1>3, <2>4 DEF FoldEdit, TypeOK, Steps, Later
    <3>2. \A f \in sources' : IsSource(f)
      BY <2>4 DEF FoldEdit, TypeOK
    <3>3. \A u \in unresolved' : u.at \in 1 .. pos'
      BY <1>3, <2>4 DEF FoldEdit, FoldNext, TypeOK
    <3> QED BY <2>1, <2>4, <3>1, <3>2, <3>3 DEF FoldEdit, TypeOK
  <2>5. CASE FoldOther
    BY <1>3, <2>1, <2>5 DEF FoldOther, FoldNext, TypeOK, folded
  <2>6. ~AskPremise /\ ~RecordEntry /\ ~AnswerPremise /\ ~UNCHANGED vars
    BY <1>3 DEF FoldNext, AskPremise, RecordEntry, AnswerPremise, vars, TypeOK
  <2> QED BY <2>2, <2>3, <2>4, <2>5, <2>6 DEF Next
<1>4. CASE AnswerPremise
  BY <1>4 DEF TypeOK, AnswerPremise, folded
<1>5. CASE UNCHANGED vars
  BY <1>5 DEF TypeOK, vars
<1>6. ASSUME FoldNext PROVE recs[pos + 1] \in Entry /\ recs[pos + 1].step \in Nat
  <2>1. pos + 1 \in 1 .. Len(recs)
    BY <1>6 DEF FoldNext, TypeOK
  <2> QED BY <2>1 DEF TypeOK
<1>7. (FoldFailed \/ FoldClean \/ FoldEdit \/ FoldOther) => FoldNext
  BY DEF FoldFailed, FoldClean, FoldEdit, FoldOther
<1> QED BY <1>1, <1>2, <1>3, <1>4, <1>5, <1>6, <1>7 DEF Next

\* Premise's variables keep their types.
THEOREM TypeCorrect == Spec => []TypeOK
<1>1. Init => TypeOK
  <2> SUFFICES ASSUME Init PROVE TypeOK OBVIOUS
  <2>1. recs \in Seq(Entry) /\ Len(recs) = 0
    BY DEF Init
  <2> QED BY <2>1, PremiseAssumption DEF Init, TypeOK, Steps
<1>2. TypeOK /\ [Next]_vars => TypeOK'
  BY TypeStep
<1> QED BY <1>1, <1>2, PTL DEF Spec

-----------------------------------------------------------------------------
(* The unresolved failures *)

\* What one more record does to which failures are open.
LEMMA OpenStep ==
  ASSUME TypeOK, FoldNext
  PROVE  /\ \A k \in 1 .. pos :
              Open(k)' <=> /\ Open(k)
                           /\ FailedRun(recs[pos + 1]) => recs[pos + 1].cmd # recs[k].cmd
                           /\ CleanRun(recs[pos + 1]) => ~Resolves(k, pos + 1)
         /\ \A p : p = pos + 1 => (Open(p)' <=> FailedRun(recs[p]))
<1>1. recs' = recs /\ pos' = pos + 1 /\ pos \in Nat
  BY DEF FoldNext, TypeOK
<1>2. ASSUME NEW k \in 1 .. pos
      PROVE  LastFailure(k)' <=> /\ LastFailure(k)
                                 /\ FailedRun(recs[pos + 1]) => recs[pos + 1].cmd # recs[k].cmd
  <2>1. \A j : j \in (k + 1) .. (pos + 1) <=> (j \in (k + 1) .. pos \/ j = pos + 1)
    BY <1>1
  <2> QED BY <1>1, <2>1 DEF LastFailure
<1>3. ASSUME NEW k \in 1 .. pos
      PROVE  Open(k)' <=> /\ Open(k)
                          /\ FailedRun(recs[pos + 1]) => recs[pos + 1].cmd # recs[k].cmd
                          /\ CleanRun(recs[pos + 1]) => ~Resolves(k, pos + 1)
  <2>1. \A j : j \in (k + 1) .. (pos + 1) <=> (j \in (k + 1) .. pos \/ j = pos + 1)
    BY <1>1
  <2>2. Open(k)' <=> LastFailure(k)' /\ \A j \in (k + 1) .. (pos + 1) : CleanRun(recs[j]) => ~Resolves(k, j)
    BY <1>1 DEF Open, Resolves
  <2> QED BY <1>2, <2>1, <2>2 DEF Open
<1>4. ASSUME NEW p, p = pos + 1
      PROVE  Open(p)' <=> FailedRun(recs[p])
  <2>1. \A j : j \notin (p + 1) .. pos'
    BY <1>1, <1>4
  <2> QED BY <1>1, <1>4, <2>1 DEF Open, LastFailure
<1> QED BY <1>3, <1>4

\* An open failure is one of its own command line, and a failure is not clean.
LEMMA NotBoth == \A e : ~(FailedRun(e) /\ CleanRun(e))
  BY DEF FailedRun, CleanRun, Clean

\* UnresolvedExact, member by member.
LEMMA ExactMembers ==
  UnresolvedExact <=> \A u : u \in unresolved <=> \E k \in 1 .. pos : Open(k) /\ u = Kept(k)
  BY DEF UnresolvedExact, Kept

\* The members of the dictionary stay those of the open failures.
LEMMA ExactStep ==
  ASSUME TypeOK, UnresolvedExact, [Next]_vars
  PROVE  UnresolvedExact'
<1>0. \A u : u \in unresolved <=> \E k \in 1 .. pos : Open(k) /\ u = Kept(k)
  BY ExactMembers
<1>1. SUFFICES \A u : u \in unresolved' <=> \E k \in 1 .. pos' : Open(k)' /\ u = Kept(k)'
  BY DEF UnresolvedExact, Kept
<1>2. CASE RecordEntry
  <2>1. /\ pos' = pos /\ unresolved' = unresolved
        /\ \A k \in 1 .. pos : recs'[k] = recs[k]
    BY <1>2, RecordedSame DEF TypeOK, RecordEntry, folded
  <2>2. ASSUME NEW k \in 1 .. pos PROVE (Open(k)' <=> Open(k)) /\ Kept(k)' = Kept(k)
    <3>1. \A j \in (k + 1) .. pos : recs'[j] = recs[j]
      BY <2>1 DEF TypeOK
    <3>2. LastFailure(k)' <=> LastFailure(k)
      BY <2>1, <3>1 DEF LastFailure
    <3> QED BY <2>1, <3>1, <3>2 DEF Open, Resolves, Kept
  <2> QED BY <1>0, <2>1, <2>2
<1>3. CASE AskPremise
  <2>1. pos' = 0 /\ unresolved' = {}
    BY <1>3 DEF AskPremise, Reset
  <2>2. \A k : k \notin 1 .. pos'
    BY <2>1
  <2> QED BY <2>1, <2>2
<1>4. CASE FoldNext /\ (FoldFailed \/ FoldClean \/ FoldEdit \/ FoldOther)
  <2>1. pos \in Nat /\ pos' = pos + 1 /\ recs' = recs
    BY <1>4 DEF FoldNext, TypeOK
  <2>2. \A k : Kept(k)' = Kept(k)
    BY <2>1 DEF Kept
  <2>3. \A k : k \in 1 .. pos' <=> (k \in 1 .. pos \/ k = pos + 1)
    BY <2>1
  <2>4. /\ \A k \in 1 .. pos :
             Open(k)' <=> /\ Open(k)
                          /\ FailedRun(recs[pos + 1]) => recs[pos + 1].cmd # recs[k].cmd
                          /\ CleanRun(recs[pos + 1]) => ~Resolves(k, pos + 1)
        /\ \A p : p = pos + 1 => (Open(p)' <=> FailedRun(recs[p]))
    BY <1>4, OpenStep
  <2>5. CASE FoldFailed
    <3>1. FailedRun(recs[pos + 1]) /\ ~CleanRun(recs[pos + 1])
      BY <2>5, NotBoth DEF FoldFailed
    <3>2. unresolved' = {u \in unresolved : u.cmd # recs[pos + 1].cmd} \union {Kept(pos + 1)}
      BY <2>5 DEF FoldFailed, Kept
    <3>3. \A k : Kept(k).cmd = recs[k].cmd
      BY DEF Kept
    <3>4. ASSUME NEW u
          PROVE  u \in unresolved' <=> \E k \in 1 .. pos' : Open(k)' /\ u = Kept(k)
      <4>1. u \in unresolved' <=> \/ u \in unresolved /\ u.cmd # recs[pos + 1].cmd
                                  \/ u = Kept(pos + 1)
        BY <3>2
      <4>2. (u \in unresolved /\ u.cmd # recs[pos + 1].cmd)
               <=> \E k \in 1 .. pos : Open(k)' /\ u = Kept(k)
        BY <1>0, <2>4, <3>1, <3>3
      <4> QED BY <2>3, <2>4, <3>1, <4>1, <4>2
    <3> QED BY <2>2, <3>4
  <2>6. CASE FoldClean
    <3>1. ~FailedRun(recs[pos + 1]) /\ CleanRun(recs[pos + 1])
      BY <2>6, NotBoth DEF FoldClean
    <3>2. unresolved' = {u \in unresolved : ~CanResolve(recs[pos + 1].cmd, u.cmd, recs[pos + 1].cwd, u.cwd)}
      BY <2>6 DEF FoldClean
    <3>3. \A k : Kept(k).cmd = recs[k].cmd /\ Kept(k).cwd = recs[k].cwd
      BY DEF Kept
    <3>4. \A k : Resolves(k, pos + 1) <=> CanResolve(recs[pos + 1].cmd, Kept(k).cmd, recs[pos + 1].cwd, Kept(k).cwd)
      BY <3>3 DEF Resolves
    <3>5. ASSUME NEW u
          PROVE  u \in unresolved' <=> \E k \in 1 .. pos' : Open(k)' /\ u = Kept(k)
      <4>1. u \in unresolved' <=> \E k \in 1 .. pos : Open(k) /\ u = Kept(k) /\ ~Resolves(k, pos + 1)
        BY <1>0, <3>2, <3>4
      <4> QED BY <2>3, <2>4, <3>1, <4>1
    <3> QED BY <2>2, <3>5
  <2>7. CASE FoldEdit \/ FoldOther
    <3>1. ~FailedRun(recs[pos + 1]) /\ ~CleanRun(recs[pos + 1]) /\ unresolved' = unresolved
      BY <2>7 DEF FoldEdit, FoldOther, FailedRun, CleanRun, Verification, Edited, folded
    <3> QED BY <1>0, <2>2, <2>3, <2>4, <3>1
  <2> QED BY <1>4, <2>5, <2>6, <2>7
<1>5. CASE AnswerPremise \/ UNCHANGED vars
  <2>1. pos' = pos /\ unresolved' = unresolved /\ recs' = recs
    BY <1>5 DEF AnswerPremise, folded, vars
  <2>2. \A k : (Open(k)' <=> Open(k)) /\ Kept(k)' = Kept(k)
    BY <2>1 DEF Open, LastFailure, Resolves, Kept
  <2> QED BY <1>0, <2>1, <2>2
<1>6. (FoldFailed \/ FoldClean \/ FoldEdit \/ FoldOther) => FoldNext
  BY DEF FoldFailed, FoldClean, FoldEdit, FoldOther
<1> QED BY <1>2, <1>3, <1>4, <1>5, <1>6 DEF Next

\* The premise's unresolved failures are exactly the last failures of their
\* command lines that no later clean run resolves.
THEOREM FoldIsExact == Spec => []UnresolvedExact
<1>1. Init => UnresolvedExact
  <2> SUFFICES ASSUME Init PROVE UnresolvedExact OBVIOUS
  <2>1. pos = 0 /\ unresolved = {}
    BY DEF Init
  <2>2. \A k : k \notin 1 .. pos
    BY <2>1
  <2> QED BY <2>1, <2>2, ExactMembers
<1>2. TypeOK /\ UnresolvedExact /\ [Next]_vars => UnresolvedExact'
  BY ExactStep
<1>3. Spec => []TypeOK
  BY TypeCorrect
<1> QED BY <1>1, <1>2, <1>3, PTL DEF Spec
-----------------------------------------------------------------------------
(* The steps of the last test and of the last source edit *)

\* n is the greatest of the steps S, or -1 if there are none.
Greatest(n, S) ==
  /\ \A x \in S : x <= n
  /\ n # -1 => n \in S

LEMMA OneMoreStep ==
  ASSUME NEW n \in Steps, NEW S \in SUBSET Nat, NEW x \in Nat, Greatest(n, S)
  PROVE  Greatest(Later(n, x), S \union {x})
BY DEF Greatest, Later, Steps

\* The steps of the clean tests, and of the source edits, folded so far.
CleanTests == {k \in 1 .. pos : CleanTest(recs[k])}
SourceEdits == {k \in 1 .. pos : SourceEdit(recs[k])}
TestSteps == {recs[k].step : k \in CleanTests}
SourceSteps == {recs[k].step : k \in SourceEdits}

LEMMA StepsExactSets ==
  StepsExact <=> /\ Greatest(lastTest, TestSteps) /\ Greatest(lastSource, SourceSteps)
                 /\ tests > 0 <=> CleanTests # {}
                 /\ sources # {} <=> SourceEdits # {}
BY DEF StepsExact, Greatest, TestSteps, SourceSteps, CleanTests, SourceEdits

LEMMA StepsAreNat ==
  ASSUME TypeOK
  PROVE  TestSteps \subseteq Nat /\ SourceSteps \subseteq Nat
BY PremiseAssumption DEF TypeOK, TestSteps, SourceSteps, CleanTests, SourceEdits

\* What one more record adds.
LEMMA SetsStep ==
  ASSUME TypeOK, FoldNext, NEW e, e = recs[pos + 1]
  PROVE  /\ CleanTests' = IF CleanTest(e) THEN CleanTests \union {pos + 1} ELSE CleanTests
         /\ SourceEdits' = IF SourceEdit(e) THEN SourceEdits \union {pos + 1} ELSE SourceEdits
         /\ TestSteps' = IF CleanTest(e) THEN TestSteps \union {e.step} ELSE TestSteps
         /\ SourceSteps' = IF SourceEdit(e) THEN SourceSteps \union {e.step} ELSE SourceSteps
<1>1. recs' = recs /\ pos' = pos + 1 /\ pos \in Nat
  BY DEF FoldNext, TypeOK
<1>2. \A k : k \in 1 .. pos' <=> (k \in 1 .. pos \/ k = pos + 1)
  BY <1>1
<1>3. CleanTests' = IF CleanTest(e) THEN CleanTests \union {pos + 1} ELSE CleanTests
  BY <1>1, <1>2 DEF CleanTests
<1>4. SourceEdits' = IF SourceEdit(e) THEN SourceEdits \union {pos + 1} ELSE SourceEdits
  BY <1>1, <1>2 DEF SourceEdits
<1> QED
  BY <1>1, <1>3, <1>4 DEF TestSteps, SourceSteps

\* A record that is none of what the branch of the fold counts.
LEMMA Apart ==
  /\ \A e : FailedRun(e) => ~CleanTest(e) /\ ~SourceEdit(e)
  /\ \A e : CleanRun(e) => ~SourceEdit(e)
  /\ \A e : Edited(e) => ~CleanTest(e)
  /\ \A e : ~CleanRun(e) => ~CleanTest(e)
  /\ \A e : ~Edited(e) => ~SourceEdit(e)
BY DEF FailedRun, CleanRun, CleanTest, SourceEdit, Edited, Verification, Clean

LEMMA StepsStep ==
  ASSUME TypeOK, StepsExact, [Next]_vars
  PROVE  StepsExact'
<1>1. CASE RecordEntry
  <2>1. /\ pos' = pos /\ UNCHANGED folded
        /\ \A k \in 1 .. pos : recs'[k] = recs[k]
    BY <1>1, RecordedSame DEF TypeOK, RecordEntry
  <2> QED
    BY <2>1 DEF StepsExact, folded
<1>2. CASE AskPremise
  <2>1. /\ pos' = 0 /\ lastTest' = -1 /\ lastSource' = -1 /\ tests' = 0 /\ sources' = {}
    BY <1>2 DEF AskPremise, Reset
  <2>2. \A k : k \notin 1 .. pos'
    BY <2>1
  <2> QED
    BY <2>1, <2>2 DEF StepsExact
<1>3. CASE FoldNext /\ (FoldFailed \/ FoldClean \/ FoldEdit \/ FoldOther)
  <2> DEFINE e == recs[pos + 1]
  <2>1. e.step \in Nat
    <3>1. pos + 1 \in 1 .. Len(recs)
      BY <1>3 DEF FoldNext, TypeOK
    <3> QED
      BY <3>1, PremiseAssumption DEF TypeOK
  <2>2. /\ CleanTests' = IF CleanTest(e) THEN CleanTests \union {pos + 1} ELSE CleanTests
        /\ SourceEdits' = IF SourceEdit(e) THEN SourceEdits \union {pos + 1} ELSE SourceEdits
        /\ TestSteps' = IF CleanTest(e) THEN TestSteps \union {e.step} ELSE TestSteps
        /\ SourceSteps' = IF SourceEdit(e) THEN SourceSteps \union {e.step} ELSE SourceSteps
    BY <1>3, SetsStep
  <2>3. /\ Greatest(lastTest, TestSteps) /\ Greatest(lastSource, SourceSteps)
        /\ tests > 0 <=> CleanTests # {}
        /\ sources # {} <=> SourceEdits # {}
    BY StepsExactSets
  <2>4. /\ lastTest' = IF CleanTest(e) THEN Later(lastTest, e.step) ELSE lastTest
        /\ tests' = IF CleanTest(e) THEN tests + 1 ELSE tests
    BY <1>3, Apart DEF FoldFailed, FoldClean, FoldEdit, FoldOther, folded, CleanTest
  <2>5. /\ lastSource' = IF SourceEdit(e) THEN Later(lastSource, e.step) ELSE lastSource
        /\ sources' = IF SourceEdit(e) THEN sources \union {e.file} ELSE sources
    BY <1>3, Apart DEF FoldFailed, FoldClean, FoldEdit, FoldOther, folded, SourceEdit
  <2> HIDE DEF e
  <2>6. Greatest(lastTest', TestSteps') /\ Greatest(lastSource', SourceSteps')
    BY <2>1, <2>2, <2>3, <2>4, <2>5, OneMoreStep, StepsAreNat DEF TypeOK
  <2>7. tests' > 0 <=> CleanTests' # {}
    BY <2>2, <2>3, <2>4 DEF TypeOK
  <2>8. sources' # {} <=> SourceEdits' # {}
    BY <2>2, <2>3, <2>5
  <2>9. StepsExact' <=> /\ Greatest(lastTest', TestSteps') /\ Greatest(lastSource', SourceSteps')
                        /\ tests' > 0 <=> CleanTests' # {}
                        /\ sources' # {} <=> SourceEdits' # {}
    BY DEF StepsExact, Greatest, TestSteps, SourceSteps, CleanTests, SourceEdits
  <2> QED
    BY <2>6, <2>7, <2>8, <2>9
<1>4. CASE AnswerPremise \/ UNCHANGED vars
  <2>1. pos' = pos /\ UNCHANGED folded /\ recs' = recs
    BY <1>4 DEF AnswerPremise, folded, vars
  <2> QED
    BY <2>1 DEF StepsExact, folded
<1>5. (FoldFailed \/ FoldClean \/ FoldEdit \/ FoldOther) => FoldNext
  BY DEF FoldFailed, FoldClean, FoldEdit, FoldOther
<1> QED
  BY <1>1, <1>2, <1>3, <1>4, <1>5 DEF Next

\* The premise's steps, which Rule 1 compares, are the greatest of a clean test
\* and of a source edit.
THEOREM StepsAreExact == Spec => []StepsExact
<1>1. Init => StepsExact
  <2> SUFFICES ASSUME Init PROVE StepsExact OBVIOUS
  <2>1. pos = 0 /\ lastTest = -1 /\ lastSource = -1 /\ tests = 0 /\ sources = {}
    BY DEF Init
  <2>2. \A k : k \notin 1 .. pos
    BY <2>1
  <2> QED BY <2>1, <2>2 DEF StepsExact
<1>2. TypeOK /\ StepsExact /\ [Next]_vars => StepsExact'
  BY StepsStep
<1>3. Spec => []TypeOK
  BY TypeCorrect
<1> QED BY <1>1, <1>2, <1>3, PTL DEF Spec
-----------------------------------------------------------------------------
(* What clears a failure *)

Commands == {e.cmd : e \in Entry}

\* Without its prefix and what is behind the program, a command line has the
\* other parts it had.
LEMMA BaseParts ==
  ASSUME NEW c \in Commands
  PROVE  /\ BaseCommand(c).runner = c.runner /\ BaseCommand(c).path = c.path
         /\ BaseCommand(c).sub = c.sub /\ BaseCommand(c).only = c.only
         /\ BaseCommand(c).words = c.words
BY CommandAssumption DEF Commands, BaseCommand, StripPrefixes

LEMMA PrefixTransitive ==
  ASSUME NEW S, NEW p \in Seq(S), NEW q \in Seq(S), NEW r \in Seq(S),
         IsPrefix(p, q), IsPrefix(q, r)
  PROVE  IsPrefix(p, r)
<1>1. Len(p) <= Len(q) /\ Len(q) <= Len(r)
  BY DEF IsPrefix
<1>2. \A k \in 1 .. Len(p) : p[k] = q[k]
  <2>1. SubSeq(p, 1, Len(p)) = SubSeq(q, 1, Len(p))
    BY DEF IsPrefix
  <2> QED
    BY <1>1, <2>1
<1>3. \A k \in 1 .. Len(q) : q[k] = r[k]
  <2>1. SubSeq(q, 1, Len(q)) = SubSeq(r, 1, Len(q))
    BY DEF IsPrefix
  <2> QED
    BY <1>1, <2>1
<1>4. \A k \in 1 .. Len(p) : p[k] = r[k]
  BY <1>1, <1>2, <1>3
<1>5. SubSeq(p, 1, Len(p)) = SubSeq(r, 1, Len(p))
  BY <1>1, <1>4
<1> QED
  BY <1>1, <1>5 DEF IsPrefix

LEMMA EmptyIsPrefix ==
  ASSUME NEW S, NEW q \in Seq(S)
  PROVE  IsPrefix(<<>>, q)
BY DEF IsPrefix

LEMMA PathIsPrefix ==
  ASSUME NEW S, NEW p \in Seq(S), NEW x \in S
  PROVE  IsPrefix(p, Append(p, x))
BY DEF IsPrefix

\* A command line that runs p, without filters and options, leaves out nothing
\* of one whose only target is below p.
LEMMA TargetAbove ==
  ASSUME NEW c \in Commands, NEW f \in Commands, NEW p \in c.targets,
         c.only = Leaf, c.skips = {}, c.env = {}, f.targets = {Target(f)}, f.behind = {},
         p \in Seq(STRING), Target(f) \in Seq(STRING), IsPrefix(p, Target(f))
  PROVE  TestsRun(f) \subseteq TestsRun(c)
<1> SUFFICES ASSUME NEW l \in TestsRun(f) PROVE l \in TestsRun(c)
  OBVIOUS
<1>1. l \in f.only /\ IsPrefix(Target(f), l)
  BY DEF TestsRun
<1>2. l \in Leaf /\ l \in Seq(STRING)
  BY <1>1, CommandAssumption DEF Commands
<1>3. IsPrefix(p, l)
  BY <1>1, <1>2, PrefixTransitive
<1> QED
  BY <1>2, <1>3 DEF TestsRun

LEMMA Targets ==
  ASSUME NEW c \in Commands
  PROVE  /\ c.path \in Seq(STRING) /\ Target(c) \in Seq(STRING) /\ IsPrefix(c.path, Target(c))
         /\ c.path = <<>> => Target(c) = <<>>
         /\ c.sub = NoSub => Target(c) = c.path
<1>1. /\ c.path \in Seq(STRING)
      /\ c.sub = NoSub \/ (c.sub \in STRING /\ c.path # <<>>)
  BY CommandAssumption DEF Commands
<1>2. CASE c.sub = NoSub
  <2>1. Target(c) = c.path
    BY <1>2 DEF Target
  <2>2. IsPrefix(c.path, c.path)
    BY <1>1 DEF IsPrefix
  <2> QED
    BY <1>1, <2>1, <2>2
<1>3. CASE c.sub # NoSub
  <2>1. Target(c) = Append(c.path, c.sub) /\ c.sub \in STRING /\ c.path # <<>>
    BY <1>1, <1>3 DEF Target
  <2> QED
    BY <1>1, <1>3, <2>1, PathIsPrefix
<1> QED
  BY <1>2, <1>3

\* Outside its blind spots, can_suite_resolve_failure only takes a command line for one
\* that resolves a failure if it runs again what failed.
LEMMA ResolvesSoundly ==
  ASSUME NEW c \in Commands, NEW f \in Commands, NEW d, NEW e, CanResolve(c, f, d, e),
         ~BlindSpot(c, d, f, e)
  PROVE  Encompasses(c, d, f, e)
<1>1. /\ c.prefix = f.prefix /\ d # NoCwd /\ e # NoCwd /\ SameKind(c, f)
      /\ f.targets = {Target(f)} /\ f.behind = {}
      /\ Reach(c) \in c.targets /\ c.skips = {} /\ c.env = {}
  BY DEF BlindSpot
<1>2. SameDirectory(d, e)
  BY DEF CanResolve
<1>3. Where(c, d) = Where(f, e)
  BY <1>1, <1>2 DEF SameDirectory, Where
<1>4. CASE BaseCommand(c) = BaseCommand(f)
  BY <1>1, <1>3, <1>4 DEF Encompasses
<1>5. CASE BaseCommand(c) # BaseCommand(f)
  <2>1. /\ IsTest(BaseCommand(c)) /\ ~HasFilter(BaseCommand(c))
        /\ \/ RunsWholeRoot(BaseCommand(c))
           \/ TargetCovers(BaseCommand(c), BaseCommand(f))
           \/ SuiteCovers(BaseCommand(c), BaseCommand(f))
    BY <1>5 DEF CanResolve
  <2>2. IsTest(c) /\ c.only = Leaf
    BY <2>1, BaseParts DEF HasFilter, IsTest
  <2>3. RunsWholeRoot(BaseCommand(c)) <=> RunsWholeRoot(c)
    BY BaseParts DEF RunsWholeRoot, PytestTarget
  <2>4. Reach(c) \in Seq(STRING) /\ Target(f) \in Seq(STRING)
    <3>1. Target(c) \in Seq(STRING) /\ Target(f) \in Seq(STRING) /\ <<>> \in Seq(STRING)
      BY Targets
    <3> QED
      BY <3>1 DEF Reach
  <2>5. IsPrefix(Reach(c), Target(f))
    <3>1. CASE RunsWholeRoot(c)
      BY <2>4, <3>1, EmptyIsPrefix DEF Reach
    <3>2. CASE ~RunsWholeRoot(c) /\ TargetCovers(BaseCommand(c), BaseCommand(f))
      <4>1. IF c.sub # NoSub THEN c.path = f.path /\ c.sub = f.sub ELSE IsPrefix(c.path, f.path)
        BY <3>2, BaseParts DEF TargetCovers
      <4>2. CASE c.sub # NoSub
        <5>1. Target(c) = Target(f)
          BY <4>1, <4>2 DEF Target
        <5> QED
          BY <2>4, <3>2, <5>1 DEF IsPrefix, Reach
      <4>3. CASE c.sub = NoSub
        <5>1. Target(c) = c.path /\ IsPrefix(c.path, f.path) /\ IsPrefix(f.path, Target(f))
          BY <4>1, <4>3, Targets
        <5>2. IsPrefix(Target(c), Target(f))
          BY <5>1, Targets, PrefixTransitive
        <5> QED
          BY <3>2, <5>2 DEF Reach
      <4> QED
        BY <4>2, <4>3
    <3>3. CASE ~RunsWholeRoot(c) /\ SuiteCovers(BaseCommand(c), BaseCommand(f))
      <4>1. c.path = <<>>
        BY <3>3, BaseParts DEF SuiteCovers
      <4>2. Reach(c) = <<>>
        BY <3>3, <4>1, Targets DEF Reach
      <4> QED
        BY <2>4, <4>2, EmptyIsPrefix
    <3> QED
      BY <2>1, <2>3, <3>1, <3>2, <3>3
  <2>6. TestsRun(f) \subseteq TestsRun(c)
    BY <1>1, <2>2, <2>4, <2>5, TargetAbove
  <2> QED
    BY <1>1, <1>3, <2>2, <2>6 DEF Encompasses
<1> QED
  BY <1>4, <1>5

\* Why a failure may be gone: the ways FailureKept allows.
Excused(i) ==
  \/ RerunClean(i)
  \/ \E j \in (i + 1) .. pos :
       /\ CleanRun(recs[j]) /\ Resolves(i, j)
       /\ BlindSpot(recs[j].cmd, recs[j].cwd, recs[i].cmd, recs[i].cwd)
  \/ \E j \in (i + 1) .. pos :
       /\ FailedRun(recs[j])
       /\ recs[j].cmd = recs[i].cmd /\ recs[j].cwd # recs[i].cwd

LEMMA KeptOrExcused ==
  FailureKept <=> \A i \in 1 .. pos : FailedRun(recs[i]) => Standing(i) \/ Excused(i)
BY DEF FailureKept, Excused

\* More records do not take an excuse away.
LEMMA ExcuseStays ==
  ASSUME TypeOK, NEW i \in 1 .. pos, Excused(i),
         pos' \in {pos, pos + 1}, \A k \in 1 .. pos : recs'[k] = recs[k]
  PROVE  Excused(i)'
<1>1. \A j \in (i + 1) .. pos : j \in 1 .. pos /\ j \in (i + 1) .. pos'
  BY DEF TypeOK
<1> QED
  BY <1>1 DEF Excused, RerunClean, Resolves

\* What takes an open failure from the dictionary excuses every failure it
\* stands for.
LEMMA TakenIsExcused ==
  ASSUME TypeOK, UnresolvedExact, FoldNext, NEW i \in 1 .. pos, FailedRun(recs[i]),
         NEW u \in unresolved, u.cmd = recs[i].cmd,
         CleanRun(recs[pos + 1]),
         CanResolve(recs[pos + 1].cmd, u.cmd, recs[pos + 1].cwd, u.cwd)
  PROVE  Excused(i)'
<1>1. /\ recs' = recs /\ pos' = pos + 1 /\ pos \in Nat /\ i \in Nat
      /\ pos + 1 \in 1 .. Len(recs) /\ i \in 1 .. Len(recs)
  BY DEF FoldNext, TypeOK
<1>2. recs[i].cmd \in Commands /\ recs[pos + 1].cmd \in Commands
  BY <1>1 DEF TypeOK, Commands
<1>3. PICK k \in 1 .. pos : Open(k) /\ u = Kept(k)
  BY ExactMembers
<1>4. LastFailure(k) /\ recs[k].cmd = recs[i].cmd /\ recs[k].cwd = u.cwd
  BY <1>3 DEF Open, Kept
<1>5. k >= i
  <2>1. i \in (k + 1) .. pos => recs[i].cmd # recs[k].cmd
    BY <1>4 DEF LastFailure
  <2> QED
    BY <1>1, <1>4, <2>1
<1>6. FailedRun(recs[k])
  BY <1>4 DEF LastFailure
<1>7. CASE recs[k].cwd # recs[i].cwd
  <2>1. k \in (i + 1) .. pos'
    BY <1>1, <1>5, <1>7
  <2> QED
    BY <1>1, <1>4, <1>6, <1>7, <2>1 DEF Excused
<1>8. CASE recs[k].cwd = recs[i].cwd
  <2>1. CanResolve(recs[pos + 1].cmd, recs[i].cmd, recs[pos + 1].cwd, recs[i].cwd)
    BY <1>4, <1>8
  <2>2. pos + 1 \in (i + 1) .. pos'
    BY <1>1
  <2>3. CASE BlindSpot(recs[pos + 1].cmd, recs[pos + 1].cwd, recs[i].cmd, recs[i].cwd)
    BY <1>1, <2>1, <2>2, <2>3 DEF Excused, Resolves
  <2>4. CASE ~BlindSpot(recs[pos + 1].cmd, recs[pos + 1].cwd, recs[i].cmd, recs[i].cwd)
    <3>1. Encompasses(recs[pos + 1].cmd, recs[pos + 1].cwd, recs[i].cmd, recs[i].cwd)
      BY <1>2, <2>1, <2>4, ResolvesSoundly
    <3> QED
      BY <1>1, <2>2, <3>1 DEF Excused, RerunClean
  <2> QED
    BY <2>3, <2>4
<1> QED
  BY <1>7, <1>8

\* A failure stands when it is folded, and with it all of its command line.
LEMMA FoldedStands ==
  ASSUME FoldFailed, NEW i, recs[i].cmd = recs[pos + 1].cmd
  PROVE  Standing(i)'
<1>1. Kept(pos + 1) \in unresolved' /\ recs' = recs
  BY DEF FoldFailed, FoldNext, Kept
<1>2. Kept(pos + 1).cmd = recs'[i].cmd
  BY <1>1 DEF Kept
<1> QED
  BY <1>1, <1>2 DEF Standing

LEMMA FailureStep ==
  ASSUME TypeOK, UnresolvedExact, FailureKept, [Next]_vars
  PROVE  FailureKept'
<1>0. \A i \in 1 .. pos : FailedRun(recs[i]) => Standing(i) \/ Excused(i)
  BY KeptOrExcused
<1>1. SUFFICES ASSUME NEW i \in 1 .. pos', FailedRun(recs'[i])
               PROVE  Standing(i)' \/ Excused(i)'
  BY DEF FailureKept, Excused
<1>2. CASE RecordEntry \/ AnswerPremise \/ UNCHANGED vars
  <2>1. /\ pos' = pos /\ unresolved' = unresolved
        /\ \A k \in 1 .. pos : recs'[k] = recs[k]
    BY <1>2, RecordedSame DEF TypeOK, RecordEntry, AnswerPremise, folded, vars
  <2>2. Standing(i) \/ Excused(i)
    BY <1>0, <1>1, <2>1
  <2>3. Standing(i) => Standing(i)'
    BY <1>1, <2>1 DEF Standing
  <2> QED
    BY <1>1, <2>1, <2>2, <2>3, ExcuseStays
<1>3. CASE AskPremise
  <2>1. pos' = 0
    BY <1>3 DEF AskPremise
  <2> QED
    BY <1>1, <2>1
<1>4. CASE FoldNext /\ (FoldFailed \/ FoldClean \/ FoldEdit \/ FoldOther)
  <2>1. pos \in Nat /\ pos' = pos + 1 /\ recs' = recs
    BY <1>4 DEF FoldNext, TypeOK
  <2>2. CASE i = pos + 1
    <3>1. FoldFailed
      BY <1>1, <1>4, <2>1, <2>2, NotBoth
         DEF FoldFailed, FoldClean, FoldEdit, FoldOther, Edited, FailedRun, Verification
    <3> QED
      BY <2>2, <3>1, FoldedStands
  <2>3. CASE i \in 1 .. pos /\ Excused(i)
    BY <2>1, <2>3, ExcuseStays
  <2>4. CASE i \in 1 .. pos /\ Standing(i)
    <3>1. PICK u \in unresolved : u.cmd = recs[i].cmd
      BY <2>4 DEF Standing
    <3>2. CASE FoldFailed
      <4>1. CASE recs[pos + 1].cmd = recs[i].cmd
        BY <3>2, <4>1, FoldedStands
      <4>2. CASE recs[pos + 1].cmd # recs[i].cmd
        BY <2>1, <3>1, <3>2, <4>2 DEF FoldFailed, Standing
      <4> QED
        BY <4>1, <4>2
    <3>3. CASE FoldClean
      <4>1. CASE CanResolve(recs[pos + 1].cmd, u.cmd, recs[pos + 1].cwd, u.cwd)
        BY <1>1, <1>4, <2>1, <2>4, <3>1, <3>3, <4>1, TakenIsExcused DEF FoldClean
      <4>2. CASE ~CanResolve(recs[pos + 1].cmd, u.cmd, recs[pos + 1].cwd, u.cwd)
        BY <2>1, <3>1, <3>3, <4>2 DEF FoldClean, Standing
      <4> QED
        BY <4>1, <4>2
    <3>4. CASE FoldEdit \/ FoldOther
      BY <2>1, <3>1, <3>4 DEF FoldEdit, FoldOther, folded, Standing
    <3> QED
      BY <1>4, <3>2, <3>3, <3>4
  <2> QED
    BY <1>0, <1>1, <2>1, <2>2, <2>3, <2>4
<1>5. (FoldFailed \/ FoldClean \/ FoldEdit \/ FoldOther) => FoldNext
  BY DEF FoldFailed, FoldClean, FoldEdit, FoldOther
<1> QED
  BY <1>2, <1>3, <1>4, <1>5 DEF Next

\* A failure leaves the premise only by a clean run that runs again what failed,
\* or through one of the blind spots that BlindSpot names.
THEOREM FailuresAreKept == Spec => []FailureKept
<1>1. Init => FailureKept
  <2> SUFFICES ASSUME Init PROVE FailureKept OBVIOUS
  <2>1. \A k : k \notin 1 .. pos
    BY DEF Init
  <2> QED BY <2>1 DEF FailureKept
<1>2. TypeOK /\ UnresolvedExact /\ FailureKept /\ [Next]_vars => FailureKept'
  BY FailureStep
<1> QED BY <1>1, <1>2, TypeCorrect, FoldIsExact, PTL DEF Spec
=============================================================================
