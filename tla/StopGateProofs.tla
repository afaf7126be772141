--------------------------- MODULE StopGateProofs ---------------------------
(***************************************************************************)
(* What the counter file of the stop gate holds and what the circuit       *)
(* breaker can conclude from it; its types; and what there is when a stop  *)
(* passes all phases: the rules, Tier 2 and the verdict, for every agent   *)
(* and every number of halts.                                              *)
(***************************************************************************)
EXTENDS StopGate, NaturalsInduction, FiniteSetTheorems, TLAPS

\* The history is a sequence, of whatever states there were.
Recorded == \E S : halts \in Seq(S)

CounterInv == Recorded /\ CounterExact

Counted == <<counter, halts>>

\* A halt that is not counted, or a step that is not a halt.
LEMMA CounterUnchanged ==
  ASSUME CounterInv, UNCHANGED Counted
  PROVE  CounterInv'
<1>1. halts' = halts /\ counter' = counter  BY DEF Counted
<1> QED  BY <1>1 DEF CounterInv, Recorded, CounterExact, Same

\* The counter file removed, by the operator or by an allow.
LEMMA CounterRemoved ==
  ASSUME counter' = NoFile, halts' = <<>>
  PROVE  CounterInv'
<1>1. counter'.count = 0  BY DEF NoFile
<1>2. Len(halts') = 0  OBVIOUS
<1>3. halts' \in Seq({})  OBVIOUS
<1> QED  BY <1>1, <1>2, <1>3 DEF CounterInv, Recorded, CounterExact

\* The last k elements of h are equal.
RunOf(h, k) == \A i \in (Len(h) - k + 1) .. Len(h) : h[i] = h[Len(h)]

\* One more of the same makes the run at the end one longer.
LEMMA RunGrows ==
  ASSUME NEW S, NEW h \in Seq(S), NEW s \in S, NEW k \in 1 .. Len(h),
         h[Len(h)] = s, RunOf(h, k), k < Len(h) => ~RunOf(h, k + 1)
  PROVE  /\ RunOf(Append(h, s), k + 1)
         /\ k + 1 < Len(h) + 1 => ~RunOf(Append(h, s), k + 2)
<1> DEFINE n == Len(h)
           g == Append(h, s)
<1>1. /\ n \in Nat /\ Len(g) = n + 1 /\ g[n + 1] = s
      /\ \A i \in 1 .. n : g[i] = h[i]
  OBVIOUS
<1>2. \A i \in (n - k + 1) .. n : h[i] = s  BY DEF RunOf
<1>3. RunOf(g, k + 1) <=> \A i \in (n + 1 - k) .. n + 1 : g[i] = s
  <2>1. Len(g) - (k + 1) + 1 = n + 1 - k  BY <1>1
  <2> HIDE DEF g, n
  <2> QED  BY <2>1, <1>1 DEF RunOf
<1>4. RunOf(g, k + 2) <=> \A i \in (n - k) .. n + 1 : g[i] = s
  <2>1. Len(g) - (k + 2) + 1 = n - k  BY <1>1
  <2> HIDE DEF g, n
  <2> QED  BY <2>1, <1>1 DEF RunOf
<1>5. k < n => \E i \in (n - k) .. n : h[i] # s  BY DEF RunOf
<1> HIDE DEF n, g
<1>6. k \in 1 .. n  BY DEF n
<1>7. RunOf(g, k + 1)
  <2>1. SUFFICES ASSUME NEW i \in (n + 1 - k) .. n + 1  PROVE g[i] = s
    BY <1>3
  <2>2. CASE i = n + 1  BY <2>2, <1>1
  <2>3. CASE i # n + 1
    <3>1. i \in (n - k + 1) .. n /\ i \in 1 .. n  BY <2>3, <1>1, <1>6
    <3> QED  BY <3>1, <1>1, <1>2
  <2> QED  BY <2>2, <2>3
<1>8. ASSUME k + 1 < n + 1  PROVE ~RunOf(g, k + 2)
  <2>1. k < n  BY <1>8, <1>1, <1>6
  <2>2. PICK i \in (n - k) .. n : h[i] # s  BY <2>1, <1>5
  <2>3. i \in 1 .. n /\ i \in (n - k) .. n + 1  BY <2>1, <2>2, <1>1, <1>6
  <2>4. g[i] # s  BY <2>2, <2>3, <1>1
  <2> QED  BY <2>3, <2>4, <1>4
<1> QED  BY <1>7, <1>8 DEF n, g

\* Something else starts a run of one.
LEMMA RunStarts ==
  ASSUME NEW S, NEW h \in Seq(S), NEW s \in S, h = <<>> \/ h[Len(h)] # s
  PROVE  /\ RunOf(Append(h, s), 1)
         /\ 1 < Len(h) + 1 => ~RunOf(Append(h, s), 2)
<1> DEFINE n == Len(h)
           g == Append(h, s)
<1>1. /\ n \in Nat /\ Len(g) = n + 1 /\ g[n + 1] = s
      /\ \A i \in 1 .. n : g[i] = h[i]
  OBVIOUS
<1>2. RunOf(g, 1) <=> \A i \in (n + 1) .. n + 1 : g[i] = s
  BY <1>1 DEF RunOf
<1>3. RunOf(g, 2) <=> \A i \in n .. n + 1 : g[i] = s
  <2>1. Len(g) - 2 + 1 = n  BY <1>1
  <2> HIDE DEF g, n
  <2> QED  BY <2>1, <1>1 DEF RunOf
<1>4. n > 0 => h[n] # s  OBVIOUS
<1> HIDE DEF n, g
<1>5. RunOf(g, 1)  BY <1>1, <1>2
<1>6. ASSUME 1 < n + 1  PROVE ~RunOf(g, 2)
  <2>1. n > 0 /\ n \in n .. n + 1 /\ n \in 1 .. n  BY <1>6, <1>1
  <2>2. g[n] # s  BY <2>1, <1>1, <1>4
  <2> QED  BY <2>1, <2>2, <1>3
<1> QED  BY <1>5, <1>6 DEF n, g

LEMMA SameIsRun ==
  /\ \A k : Same(k) <=> RunOf(halts, k)
  /\ \A k : Same(k)' <=> RunOf(halts', k)
BY DEF Same, RunOf

\* A remediable halt: its state extends the run of equal states at the end, or
\* starts one.
LEMMA CounterHalted ==
  ASSUME CounterInv,
         counter' = [count |-> counter.count + 1, same |-> SameCount, hash |-> seen],
         halts' = Append(halts, seen)
  PROVE  CounterInv'
<1>1. PICK S : halts \in Seq(S)  BY DEF CounterInv, Recorded
<1> DEFINE T == S \union {seen}
<1>2. halts \in Seq(T) /\ seen \in T /\ Len(halts) \in Nat  BY <1>1
<1>3. /\ halts' \in Seq(T) /\ Len(halts') = Len(halts) + 1
      /\ halts'[Len(halts')] = seen /\ halts' # <<>>
  BY <1>2
<1>4. counter.count = Len(halts)  BY DEF CounterInv, CounterExact
<1>5. counter'.count = Len(halts') /\ counter'.same = SameCount /\ counter'.hash = seen
  BY <1>3, <1>4
<1> HIDE DEF T
<1>6. ASSUME SameCount \in 1 .. Len(halts) + 1,
             RunOf(halts', SameCount),
             SameCount < Len(halts) + 1 => ~RunOf(halts', SameCount + 1)
      PROVE  CounterInv'
  <2>1. Recorded'  BY <1>3 DEF Recorded
  <2>2. counter'.same \in 1 .. Len(halts')  BY <1>3, <1>5, <1>6
  <2>3. RunOf(halts', counter'.same)  BY <1>5, <1>6
  <2>4. counter'.same < Len(halts') => ~RunOf(halts', counter'.same + 1)  BY <1>3, <1>5, <1>6
  <2>5. CounterExact'
    BY <2>2, <2>3, <2>4, <1>3, <1>5 DEF CounterExact, Same, RunOf
  <2> QED  BY <2>1, <2>5 DEF CounterInv
<1>7. CASE halts # <<>> /\ halts[Len(halts)] = seen
  <2>1. Len(halts) > 0  BY <1>2, <1>7
  <2>2. /\ counter.hash = seen
        /\ counter.same \in 1 .. Len(halts)
        /\ RunOf(halts, counter.same)
        /\ counter.same < Len(halts) => ~RunOf(halts, counter.same + 1)
    BY <1>7 DEF CounterInv, CounterExact, Same, RunOf
  <2>3. SameCount = counter.same + 1  BY <2>1, <2>2, <1>4 DEF SameCount
  <2>4. /\ RunOf(halts', counter.same + 1)
        /\ counter.same + 1 < Len(halts) + 1 => ~RunOf(halts', counter.same + 2)
    BY <1>2, <1>7, <2>2, RunGrows
  <2>5. counter.same + 2 = SameCount + 1 /\ SameCount \in 1 .. Len(halts) + 1
    BY <1>2, <2>2, <2>3
  <2> QED  BY <1>6, <2>3, <2>4, <2>5
<1>8. CASE ~(halts # <<>> /\ halts[Len(halts)] = seen)
  <2>1. SameCount = 1
    <3>1. CASE halts = <<>>  BY <3>1, <1>4 DEF SameCount
    <3>2. CASE halts # <<>>
      <4>1. counter.hash # seen  BY <3>2, <1>8 DEF CounterInv, CounterExact
      <4> QED  BY <4>1 DEF SameCount
    <3> QED  BY <3>1, <3>2
  <2>2. RunOf(halts', 1) /\ (1 < Len(halts) + 1 => ~RunOf(halts', 2))
    BY <1>2, <1>8, RunStarts
  <2> QED  BY <1>2, <1>6, <2>1, <2>2
<1> QED  BY <1>7, <1>8

LEMMA HaltCounts ==
  ASSUME CounterInv, NEW remediable \in BOOLEAN, Halt(remediable)
  PROVE  CounterInv'
<1>1. CASE remediable  BY <1>1, CounterHalted DEF Halt
<1>2. CASE ~remediable
  <2>1. UNCHANGED Counted  BY <1>2 DEF Halt, Counted
  <2> QED  BY <2>1, CounterUnchanged
<1> QED  BY <1>1, <1>2

LEMMA MovingOn ==
  ASSUME CounterInv, NEW phase, GoTo(phase)
  PROVE  CounterInv'
<1>1. UNCHANGED Counted  BY DEF GoTo, Counted
<1> QED  BY <1>1, CounterUnchanged

\* Every way a phase can end is a halt, the next phase, or a removed counter.
LEMMA PhaseCounts ==
  ASSUME CounterInv, Phase
  PROVE  CounterInv'
<1>1. CASE ReadTranscript  BY <1>1, HaltCounts, MovingOn DEF ReadTranscript
<1>2. CASE FetchPremise  BY <1>2, HaltCounts, MovingOn DEF FetchPremise
<1>3. CASE TrackFiles  BY <1>3, HaltCounts, MovingOn DEF TrackFiles
<1>4. CASE Reconcile  BY <1>4, MovingOn DEF Reconcile
<1>5. CASE CheckLineage  BY <1>5, HaltCounts, MovingOn DEF CheckLineage
<1>6. CASE CheckStubs  BY <1>6, HaltCounts, MovingOn DEF CheckStubs
<1>7. CASE CheckRules  BY <1>7, HaltCounts, MovingOn DEF CheckRules
<1>8. CASE CheckWeakening  BY <1>8, HaltCounts, MovingOn DEF CheckWeakening
<1>9. CASE SkipVerification  BY <1>9, MovingOn DEF SkipVerification
<1>10. CASE Tier2NoTarget  BY <1>10, HaltCounts DEF Tier2NoTarget
<1>11. CASE Tier2Handoff
  <2>1. UNCHANGED Counted  BY <1>11 DEF Tier2Handoff, Counted
  <2> QED  BY <2>1, CounterUnchanged
<1>12. CASE Tier2Answer
  <2>1. PICK found \in {"passed", "nowhere", "failed", "none"} :
          CASE found = "none" -> Halt(FALSE)
            [] found = "nowhere" /\ seen.paths \intersect Outside # {} -> Halt(FALSE)
            [] found = "failed" -> Halt(TRUE)
            [] OTHER -> /\ tier2' = found /\ GoTo("prose") /\ UNCHANGED <<seen, source, said>>
    BY <1>12 DEF Tier2Answer
  <2>2. Halt(FALSE) \/ Halt(TRUE) \/ GoTo("prose")  BY <2>1
  <2> QED  BY <2>2, HaltCounts, MovingOn
<1>13. CASE AllowSilent  BY <1>13, HaltCounts, CounterRemoved DEF AllowSilent
<1>14. CASE CheckClaims  BY <1>14, HaltCounts, MovingOn DEF CheckClaims
<1>15. CASE JudgeClaims  BY <1>15, HaltCounts, MovingOn DEF JudgeClaims
<1>16. CASE Allow  BY <1>16, CounterRemoved DEF Allow
<1>17. CASE Disarm
  <2>1. UNCHANGED Counted  BY <1>17 DEF Disarm, Counted
  <2> QED  BY <2>1, CounterUnchanged
<1> QED  BY <1>1, <1>2, <1>3, <1>4, <1>5, <1>6, <1>7, <1>8, <1>9, <1>10, <1>11, <1>12,
            <1>13, <1>14, <1>15, <1>16, <1>17 DEF Phase

\* What the agent's commands do.
Commands ==
  \/ \E c \in Command : Call(c)
  \/ \E x \in running, clean, ok \in BOOLEAN : Return(x, clean, ok)
  \/ \E x \in running, clean \in BOOLEAN : Detach(x, clean)
  \/ \E x \in running, ok \in BOOLEAN : Notify(x, ok)

LEMMA CommandsIdle ==
  ASSUME Commands
  PROVE  Idle
BY DEF Commands, Call, Work, Return, Detach, Notify

LEMMA CounterInductive == CounterInv /\ [Next]_vars => CounterInv'
<1> SUFFICES ASSUME CounterInv, [Next]_vars  PROVE CounterInv'
  OBVIOUS
<1>1. CASE Agent
  <2>1. CASE OperatorReset  BY <2>1, CounterRemoved DEF OperatorReset
  <2>2. CASE \E f \in File, recorded \in BOOLEAN : Edit(f, recorded)
    <3>1. UNCHANGED Counted  BY <2>2 DEF Edit, Work, Idle, Counted
    <3> QED  BY <3>1, CounterUnchanged
  <2>3. CASE Commands
    <3>1. UNCHANGED Counted  BY <2>3, CommandsIdle DEF Idle, Counted
    <3> QED  BY <3>1, CounterUnchanged
  <2>4. CASE LedgerBroken
    <3>1. UNCHANGED Counted  BY <2>4 DEF LedgerBroken, Work, Idle, Counted
    <3> QED  BY <3>1, CounterUnchanged
  <2> QED  BY <1>1, <2>1, <2>2, <2>3, <2>4 DEF Agent, Commands
<1>2. CASE Phase  BY <1>2, PhaseCounts
<1>3. CASE Stop \/ Finish \/ Alarm \/ InternalError \/ UNCHANGED vars
  <2>1. UNCHANGED Counted
    BY <1>3 DEF Stop, Finish, PostAllow, Answer, Alarm, InternalError, vars, Counted
  <2> QED  BY <2>1, CounterUnchanged
<1> QED  BY <1>1, <1>2, <1>3 DEF Next

LEMMA CounterInitially == Init => CounterInv
<1> SUFFICES ASSUME Init  PROVE CounterInv
  OBVIOUS
<1>1. halts = <<>> /\ counter.count = 0  BY DEF Init, NoFile
<1>2. halts \in Seq({}) /\ Len(halts) = 0  BY <1>1
<1> QED  BY <1>1, <1>2 DEF CounterInv, Recorded, CounterExact

\* The counter file counts the remediable halts since its last removal, and
\* those at the end taken in one state (record_halt), however many there are.
THEOREM CounterCorrect == Spec => []CounterExact
<1>1. Init => CounterInv  BY CounterInitially
<1>2. CounterInv /\ [Next]_vars => CounterInv'  BY CounterInductive
<1>3. CounterInv => CounterExact  BY DEF CounterInv
<1> QED  BY <1>1, <1>2, <1>3, PTL DEF Spec

-----------------------------------------------------------------------------
\* Only fail_halt answers with the breaker.
LEMMA PhaseAnswers ==
  ASSUME Phase
  PROVE  answer' = answer \/ \E remediable \in BOOLEAN : Halt(remediable)
<1>1. CASE \E remediable \in BOOLEAN : Halt(remediable)  BY <1>1
<1>2. CASE \A remediable \in BOOLEAN : ~Halt(remediable)
  <2>1. ~Halt(TRUE) /\ ~Halt(FALSE)  BY <1>2
  <2>2. CASE \E phase : GoTo(phase)  BY <2>2 DEF GoTo
  <2>3. CASE \A phase : ~GoTo(phase)
    <3>1. CASE Tier2Answer
      <4>1. PICK found \in {"passed", "nowhere", "failed", "none"} :
              CASE found = "none" -> Halt(FALSE)
                [] found = "nowhere" /\ seen.paths \intersect Outside # {} -> Halt(FALSE)
                [] found = "failed" -> Halt(TRUE)
                [] OTHER -> /\ tier2' = found /\ GoTo("prose") /\ UNCHANGED <<seen, source, said>>
        BY <3>1 DEF Tier2Answer
      <4>2. Halt(FALSE) \/ Halt(TRUE) \/ GoTo("prose")  BY <4>1
      <4> QED  BY <4>2, <2>1, <2>3
    <3>2. CASE JudgeClaims  BY <3>2, <2>1, <2>3 DEF JudgeClaims
    <3>3. CASE CheckClaims  BY <3>3, <2>1, <2>3 DEF CheckClaims
    <3>4. CASE AllowSilent  BY <3>4, <2>1 DEF AllowSilent
    <3>5. CASE ReadTranscript \/ FetchPremise \/ TrackFiles \/ Reconcile
      BY <3>5, <2>1, <2>3 DEF ReadTranscript, FetchPremise, TrackFiles, Reconcile
    <3>6. CASE CheckLineage \/ CheckStubs \/ CheckRules \/ CheckWeakening
      BY <3>6, <2>1, <2>3 DEF CheckLineage, CheckStubs, CheckRules, CheckWeakening
    <3>7. CASE SkipVerification \/ Tier2NoTarget \/ Tier2Handoff
      BY <3>7, <2>1, <2>3 DEF SkipVerification, Tier2NoTarget, Tier2Handoff
    <3>8. CASE Allow \/ Disarm  BY <3>8 DEF Allow, Disarm
    <3> QED  BY <3>1, <3>2, <3>3, <3>4, <3>5, <3>6, <3>7, <3>8 DEF Phase
  <2> QED  BY <2>2, <2>3
<1> QED  BY <1>1, <1>2

LEMMA BreakerHalts ==
  ASSUME Next, answer' = "breaker", answer # "breaker"
  PROVE  \E remediable \in BOOLEAN : Halt(remediable)
<1>1. ~Agent
  <2>1. ~Commands  BY CommandsIdle DEF Idle
  <2> QED  BY <2>1 DEF Agent, Commands, Edit, LedgerBroken, OperatorReset, Work, Idle
<1>2. ~Stop  BY DEF Stop
<1>3. ~Alarm /\ ~InternalError  BY DEF Alarm, InternalError
<1>4. ~Finish  BY DEF Finish, PostAllow, Answer
<1>5. Phase  BY <1>1, <1>2, <1>3, <1>4 DEF Next
<1> QED  BY <1>5, PhaseAnswers

LEMMA BreakerStep ==
  ASSUME CounterInv, NEW remediable \in BOOLEAN, Halt(remediable), answer' = "breaker"
  PROVE  /\ Claude /\ Len(halts) >= 3
         /\ \A i \in (Len(halts) - 2) .. Len(halts) : halts[i] = seen
<1>1. SameCount > 3 /\ Claude  BY DEF Halt
<1>2. counter.count > 0 /\ counter.hash = seen /\ counter.same + 1 > 3  BY <1>1 DEF SameCount
<1>3. PICK S : halts \in Seq(S)  BY DEF CounterInv, Recorded
<1>4. Len(halts) \in Nat /\ Len(halts) > 0 /\ halts # <<>>
  BY <1>2, <1>3 DEF CounterInv, CounterExact
<1>5. /\ halts[Len(halts)] = seen
      /\ counter.same \in 1 .. Len(halts)
      /\ \A i \in (Len(halts) - counter.same + 1) .. Len(halts) : halts[i] = halts[Len(halts)]
  BY <1>2, <1>4 DEF CounterInv, CounterExact, Same
<1>6. Len(halts) >= 3  BY <1>2, <1>4, <1>5
<1>7. ASSUME NEW i \in (Len(halts) - 2) .. Len(halts)  PROVE halts[i] = seen
  <2>1. i \in (Len(halts) - counter.same + 1) .. Len(halts)  BY <1>2, <1>4, <1>5
  <2> QED  BY <2>1, <1>5
<1> QED  BY <1>1, <1>6, <1>7

\* The circuit breaker (fail_halt) lets a stop through only when three counted
\* halts before it were taken in the very state it is in.
THEOREM BreakerCorrect == Spec => BreakerStuck
<1>1. Init => CounterInv  BY CounterInitially
<1>2. CounterInv /\ [Next]_vars => CounterInv'  BY CounterInductive
<1>3. CounterInv /\ [Next]_vars =>
        [(answer' = "breaker" /\ answer # "breaker") =>
           /\ Claude /\ Len(halts) >= 3
           /\ \A i \in (Len(halts) - 2) .. Len(halts) : halts[i] = seen]_vars
  BY BreakerHalts, BreakerStep
<1> QED  BY <1>1, <1>2, <1>3, PTL DEF Spec, BreakerStuck
-----------------------------------------------------------------------------
(* Types *)

Fields == {"src", "verifs", "tests", "lastTest", "lastSource", "open", "paths", "root"}

PremiseType ==
  [edited : SUBSET File, verifs : Nat, tests : Nat, lastTest : Steps,
   lastSource : Steps, open : SUBSET Command, tampered : BOOLEAN]
TreeType == [changed : SUBSET (File \ Outside), flaw : Flaw]
CallsBefore(n) ==
  [cmd : Command, from : 1 .. n - 1, task : Command \union {NoCommand}, back : BOOLEAN]
LinesBefore(n) == [cmd : Command, from : 1 .. n - 1, line : 1 .. n - 1, ok : BOOLEAN]

\* A stop only begins, and so only goes on, below the bound on the halts.
Bounded ==
  /\ DOMAIN seen = Fields
  /\ pc # "idle" => counter.same < MaxHalts

TypeInv == TypeOK /\ Bounded

LEMMA InitType == Init => TypeInv
<1> SUFFICES ASSUME Init  PROVE TypeInv
  OBVIOUS
<1>1. DOMAIN seen = Fields /\ seen.open = {} /\ seen.paths = {}
  BY DEF Init, Unseen, Fields
<1>2. counter.same = 0 /\ counter.same \in 0 .. MaxHalts
  BY StopGateAssumption DEF Init, NoFile
<1>3. now \in 1 .. MaxWork + 1  BY StopGateAssumption DEF Init
<1>4. premise \in PremiseType  BY DEF Init, NoPremise, PremiseType, Steps
<1>5. TypeOK  BY <1>1, <1>2, <1>3, <1>4 DEF Init, TypeOK, PremiseType, Flaw, Said, Phases
<1>6. Bounded  BY <1>1 DEF Init, Bounded
<1> QED  BY <1>5, <1>6 DEF TypeInv

LEMMA CallsKnown ==
  ASSUME TypeInv
  PROVE  /\ now \in Nat /\ now > 0
         /\ running \subseteq CallsBefore(now)
         /\ transcript \subseteq LinesBefore(now)
         /\ premise \in PremiseType /\ tree \in TreeType
BY StopGateAssumption DEF TypeInv, TypeOK, CallsBefore, LinesBefore, PremiseType, TreeType

\* A step of the agent: the stop is idle and stays so.
LEMMA IdleType ==
  ASSUME TypeInv, Idle, now' = now \/ Work,
         tree' \in TreeType, premise' \in PremiseType,
         running' \subseteq CallsBefore(now'), pending' \in Command \union {NoCommand},
         transcript' \subseteq LinesBefore(now')
  PROVE  TypeInv'
<1>1. now' \in 1 .. MaxWork + 1
  <2>1. CASE now' = now  BY <2>1 DEF TypeInv, TypeOK
  <2>2. CASE Work  BY <2>2, CallsKnown, StopGateAssumption DEF Work
  <2> QED  BY <2>1, <2>2
<1>2. seen' = seen /\ seen.open = {} /\ pc' = "idle" /\ counter' = counter
  BY DEF Idle, TypeInv, TypeOK, Unseen, local
<1>3. TypeOK'
  BY <1>1, <1>2 DEF Idle, TypeInv, TypeOK, local, CallsBefore, LinesBefore, PremiseType, TreeType
<1>4. Bounded'  BY <1>2 DEF TypeInv, Bounded
<1> QED  BY <1>3, <1>4 DEF TypeInv

LEMMA LargerType ==
  ASSUME NEW a \in Steps, NEW b \in Steps
  PROVE  Larger(a, b) \in Steps
BY DEF Larger, Steps

\* Time only adds to what may have been called and written.
LEMMA BeforeGrows ==
  ASSUME TypeInv, Work
  PROVE  /\ CallsBefore(now) \subseteq CallsBefore(now')
         /\ LinesBefore(now) \subseteq LinesBefore(now')
<1>1. now \in Nat /\ now' = now + 1  BY CallsKnown DEF Work
<1>2. 1 .. now - 1 \subseteq 1 .. now' - 1  BY <1>1
<1> QED  BY <1>2 DEF CallsBefore, LinesBefore

LEMMA EditType ==
  ASSUME TypeInv, NEW f \in File, NEW recorded \in BOOLEAN, Edit(f, recorded)
  PROVE  TypeInv'
<1>1. tree' \in TreeType
  <2>1. PICK flaw \in Flaw :
          tree' = IF f \notin Outside THEN [changed |-> tree.changed \union {f}, flaw |-> flaw]
                  ELSE IF {flaw, tree.flaw} \subseteq {"none", "failing"}
                  THEN [tree EXCEPT !.flaw = flaw]
                  ELSE tree
    BY DEF Edit
  <2> QED  BY <2>1, CallsKnown DEF TreeType
<1>2. Larger(premise.lastSource, StepIdx(now)) \in Steps
  <2>1. premise.lastSource \in Steps /\ StepIdx(now) \in Steps
    BY CallsKnown DEF PremiseType, StepIdx, Steps
  <2> QED  BY <2>1, LargerType
<1>3. premise' \in PremiseType
  <2> DEFINE last == Larger(premise.lastSource, StepIdx(now))
  <2>1. premise' = [premise EXCEPT !.edited = @ \union {f}, !.lastSource = last]
        \/ premise' = premise
    BY Zenon DEF Edit
  <2>2. last \in Steps  BY <1>2
  <2> HIDE DEF last
  <2> QED  BY <2>1, <2>2, CallsKnown DEF PremiseType
<1>4. /\ Idle /\ Work /\ running' \subseteq CallsBefore(now')
      /\ pending' \in Command \union {NoCommand} /\ transcript' \subseteq LinesBefore(now')
  BY CallsKnown, BeforeGrows DEF Edit, Work, TypeInv, TypeOK
<1> QED  BY <1>1, <1>3, <1>4, IdleType

\* What the ledger says after a call, field by field.
LEMMA LedgerTakes ==
  ASSUME TypeInv, NEW x \in running, NEW clean \in BOOLEAN
  PROVE  /\ LedgerAfter(x, clean) \in PremiseType
         /\ LedgerAfter(x, clean).lastSource = premise.lastSource
         /\ \/ /\ LedgerAfter(x, clean).tests = premise.tests
               /\ LedgerAfter(x, clean).lastTest = premise.lastTest
            \/ /\ LedgerAfter(x, clean).tests = premise.tests + 1
               /\ LedgerAfter(x, clean).lastTest = Larger(premise.lastTest, StepIdx(x.from))
<1> DEFINE after == LedgerAfter(x, clean)
<1>1. /\ x.cmd \in Command /\ x.from \in 1 .. now - 1 /\ now \in Nat
      /\ premise \in PremiseType
  BY CallsKnown DEF CallsBefore
<1>2. StepIdx(x.from) \in Steps  BY <1>1 DEF StepIdx, Steps
<1>3. CASE ~IsVerification(x.cmd)
  <2>1. after = premise  BY <1>3 DEF LedgerAfter
  <2> QED  BY <1>1, <2>1
<1>4. CASE IsVerification(x.cmd) /\ ~clean
  <2>1. after = [premise EXCEPT !.open = @ \union {x.cmd}]  BY <1>4 DEF LedgerAfter
  <2> HIDE DEF after
  <2>2. after \in PremiseType /\ after.tests = premise.tests
        /\ after.lastTest = premise.lastTest /\ after.lastSource = premise.lastSource
    BY <1>1, <2>1 DEF PremiseType
  <2> QED  BY <2>2 DEF after
<1>5. CASE IsVerification(x.cmd) /\ clean
  <2> DEFINE verifs == premise.verifs + 1
             tests == IF IsTest(x.cmd) THEN premise.tests + 1 ELSE premise.tests
             last == IF IsTest(x.cmd) THEN Larger(premise.lastTest, StepIdx(x.from))
                     ELSE premise.lastTest
             open == {f \in premise.open : ~Clears(x.cmd, f)}
  <2>1. after = [premise EXCEPT !.verifs = verifs, !.tests = tests,
                                !.lastTest = last, !.open = open]
    BY <1>5, Zenon DEF LedgerAfter
  <2>2. premise.lastTest \in Steps /\ premise.tests \in Nat /\ premise.verifs \in Nat
        /\ premise.open \subseteq Command
    BY <1>1 DEF PremiseType
  <2>3. Larger(premise.lastTest, StepIdx(x.from)) \in Steps  BY <1>2, <2>2, LargerType
  <2>4. verifs \in Nat /\ tests \in Nat /\ last \in Steps /\ open \subseteq Command
    BY <2>2, <2>3
  <2>5. \/ tests = premise.tests /\ last = premise.lastTest
        \/ tests = premise.tests + 1 /\ last = Larger(premise.lastTest, StepIdx(x.from))
    OBVIOUS
  <2> HIDE DEF after, verifs, tests, last, open
  <2>6. after \in PremiseType /\ after.tests = tests
        /\ after.lastTest = last /\ after.lastSource = premise.lastSource
    BY <1>1, <2>1, <2>4 DEF PremiseType
  <2> QED  BY <2>5, <2>6 DEF after
<1> QED  BY <1>3, <1>4, <1>5

LEMMA CallType ==
  ASSUME TypeInv, NEW c \in Command, Call(c)
  PROVE  TypeInv'
<1> DEFINE x == [cmd |-> c, from |-> now, task |-> NoCommand, back |-> FALSE]
<1>1. now \in Nat /\ now > 0 /\ now' = now + 1  BY CallsKnown DEF Call, Work
<1>2. now \in 1 .. now' - 1  BY <1>1
<1>3. x \in CallsBefore(now')  BY <1>2 DEF CallsBefore
<1>4. running' = running \union {x}  BY DEF Call
<1> HIDE DEF x
<1>5. running' \subseteq CallsBefore(now') /\ transcript' \subseteq LinesBefore(now')
  BY <1>3, <1>4, CallsKnown, BeforeGrows DEF Call
<1>6. /\ Idle /\ Work /\ tree' \in TreeType /\ premise' \in PremiseType
      /\ pending' \in Command \union {NoCommand}
  BY CallsKnown DEF Call, Work
<1> QED  BY <1>5, <1>6, IdleType

LEMMA ResultType ==
  ASSUME TypeInv, NEW x \in running, NEW c \in Command, NEW ok \in BOOLEAN
  PROVE  Result(c, x, ok) \in LinesBefore(now)
<1>1. x.from \in 1 .. now - 1 /\ now \in Nat  BY CallsKnown DEF CallsBefore
<1>2. now - 1 \in 1 .. now - 1  BY <1>1
<1> QED  BY <1>1, <1>2 DEF Result, LinesBefore

LEMMA ReturnType ==
  ASSUME TypeInv, NEW x \in running, NEW clean \in BOOLEAN, NEW ok \in BOOLEAN,
         Return(x, clean, ok)
  PROVE  TypeInv'
<1>1. /\ Idle /\ now' = now /\ tree' \in TreeType /\ pending' \in Command \union {NoCommand}
      /\ running' \subseteq CallsBefore(now')
  BY CallsKnown DEF Return
<1>2. premise' \in PremiseType  BY LedgerTakes DEF Return
<1>3. transcript' \subseteq LinesBefore(now')
  <2> DEFINE c == IF Claude THEN x.cmd ELSE pending
  <2>1. transcript' = IF c = NoCommand THEN transcript
                      ELSE transcript \union {Result(c, x, ok)}
    BY DEF Return
  <2>2. c = NoCommand \/ c \in Command
    BY CallsKnown DEF CallsBefore, TypeInv, TypeOK
  <2> HIDE DEF c
  <2> QED  BY <1>1, <2>1, <2>2, CallsKnown, ResultType
<1> QED  BY <1>1, <1>2, <1>3, IdleType

LEMMA DetachType ==
  ASSUME TypeInv, NEW x \in running, NEW clean \in BOOLEAN, Detach(x, clean)
  PROVE  TypeInv'
<1>1. /\ Idle /\ now' = now /\ tree' \in TreeType /\ pending' \in Command \union {NoCommand}
      /\ transcript' \subseteq LinesBefore(now')
  BY CallsKnown DEF Detach
<1>2. premise' \in PremiseType  BY LedgerTakes DEF Detach
<1>3. x \in CallsBefore(now) /\ x.cmd \in Command  BY CallsKnown DEF CallsBefore
<1>4. PICK c \in IF Claude THEN {x.cmd}
                 ELSE IF pending # NoCommand THEN {pending} ELSE {x.cmd, NoCommand} :
        running' = (running \ {x}) \union {[x EXCEPT !.task = c, !.back = TRUE]}
  BY DEF Detach
<1>5. c \in Command \union {NoCommand}  BY <1>3, <1>4 DEF TypeInv, TypeOK
<1>6. [x EXCEPT !.task = c, !.back = TRUE] \in CallsBefore(now)
  BY <1>3, <1>5 DEF CallsBefore
<1>7. running' \subseteq CallsBefore(now')  BY <1>1, <1>4, <1>6, CallsKnown
<1> QED  BY <1>1, <1>2, <1>7, IdleType

LEMMA NotifyType ==
  ASSUME TypeInv, NEW x \in running, NEW ok \in BOOLEAN, Notify(x, ok)
  PROVE  TypeInv'
<1>1. /\ Idle /\ now' = now /\ tree' \in TreeType /\ premise' \in PremiseType
      /\ pending' \in Command \union {NoCommand} /\ running' \subseteq CallsBefore(now')
  BY CallsKnown DEF Notify, TypeInv, TypeOK
<1>2. x.task = NoCommand \/ x.task \in Command  BY CallsKnown DEF CallsBefore
<1>3. transcript' \subseteq LinesBefore(now')
  BY <1>1, <1>2, CallsKnown, ResultType DEF Notify
<1> QED  BY <1>1, <1>3, IdleType

LEMMA AgentType ==
  ASSUME TypeInv, Agent
  PROVE  TypeInv'
<1>1. CASE LedgerBroken
  <2>1. premise' \in PremiseType  BY <1>1, CallsKnown DEF LedgerBroken, PremiseType
  <2>2. /\ Idle /\ Work /\ running' \subseteq CallsBefore(now') /\ tree' \in TreeType
        /\ pending' \in Command \union {NoCommand} /\ transcript' \subseteq LinesBefore(now')
    BY <1>1, CallsKnown, BeforeGrows DEF LedgerBroken, Work, TypeInv, TypeOK
  <2> QED  BY <2>1, <2>2, IdleType
<1>2. CASE OperatorReset
  <2>1. counter'.same = 0 /\ counter'.same \in 0 .. MaxHalts
    BY <1>2, StopGateAssumption DEF OperatorReset, NoFile
  <2>2. TypeOK'  BY <1>2, <2>1 DEF OperatorReset, TypeInv, TypeOK, agent, local
  <2>3. Bounded'  BY <1>2 DEF OperatorReset, TypeInv, Bounded, local
  <2> QED  BY <2>2, <2>3 DEF TypeInv
<1>3. CASE Commands
  BY <1>3, CallType, ReturnType, DetachType, NotifyType DEF Commands
<1> QED  BY <1>1, <1>2, <1>3, EditType DEF Agent, Commands

\* The end of a stop forgets its locals.
LEMMA EndType ==
  ASSUME TypeInv, pc # "idle", Forget, pc' = "idle", armed' = FALSE, UNCHANGED agent,
         answer' \in {"none", "halt", "allow", "breaker"},
         verdict' \in {"none", "HALT", "ALLOW", "TIMEOUT_HALT"},
         counter' = counter \/ counter'.same = SameCount
  PROVE  TypeInv'
<1>1. counter.same \in 0 .. MaxHalts /\ counter.same < MaxHalts /\ MaxHalts \in Nat
  BY StopGateAssumption DEF TypeInv, TypeOK, Bounded
<1>2. SameCount \in 0 .. MaxHalts
  <2>1. SameCount = counter.same + 1 \/ SameCount = 1  BY DEF SameCount
  <2> QED  BY <1>1, <2>1
<1>3. counter'.same \in 0 .. MaxHalts  BY <1>1, <1>2
<1>4. DOMAIN seen' = Fields /\ seen'.open = {} /\ seen'.paths = {} /\ seen' = Unseen
      /\ said' = "nothing" /\ tier2' = "unrun" /\ source' = "none"
  BY DEF Forget, Unseen, Fields
<1>5. TypeOK'  BY <1>3, <1>4 DEF TypeInv, TypeOK, agent, Said, Phases
<1>6. Bounded'  BY <1>4 DEF Bounded
<1> QED  BY <1>5, <1>6 DEF TypeInv

LEMMA HaltType ==
  ASSUME TypeInv, pc # "idle", NEW remediable \in BOOLEAN, Halt(remediable)
  PROVE  TypeInv'
<1>1. verdict' \in {"none", "HALT", "ALLOW", "TIMEOUT_HALT"}
  BY DEF Halt, Post, TypeInv, TypeOK
<1>2. counter' = counter \/ counter'.same = SameCount  BY DEF Halt
<1>3. answer' \in {"none", "halt", "allow", "breaker"}  BY DEF Halt
<1> QED  BY <1>1, <1>2, <1>3, EndType DEF Halt

\* The phases in which the alarm is on.
Timed == Phases \ {"idle", "posting", "answering"}

\* The locals of a stop under way.
LocalsType ==
  /\ DOMAIN seen = Fields /\ seen.open \subseteq premise.open /\ seen.paths \subseteq File
  /\ source \in {"none", "ledger", "empty"}
  /\ said \in Said /\ tier2 \in {"unrun", "passed", "nowhere"}

LEMMA LocalsTyped == TypeInv => LocalsType
BY DEF TypeInv, TypeOK, Bounded, LocalsType

\* A phase that goes on to another.
LEMMA GoOnType ==
  ASSUME TypeInv, pc \in Timed, NEW phase \in Timed, pc' = phase,
         UNCHANGED <<agent, armed, verdict, answer>>, counter' = counter \/ counter' = NoFile,
         LocalsType'
  PROVE  TypeInv'
<1>1. counter'.same \in 0 .. MaxHalts /\ counter'.same < MaxHalts
  <2>1. counter.same \in 0 .. MaxHalts /\ counter.same < MaxHalts /\ MaxHalts \in Nat
    BY StopGateAssumption DEF TypeInv, TypeOK, Bounded, Timed
  <2>2. counter' = NoFile => counter'.same = 0  BY DEF NoFile
  <2> QED  BY <2>1, <2>2
<1>2. TypeOK'  BY <1>1 DEF TypeInv, TypeOK, Timed, agent, LocalsType
<1>3. Bounded'  BY <1>1 DEF Bounded, LocalsType
<1> QED  BY <1>2, <1>3 DEF TypeInv

\* A phase that goes on and leaves the locals alone.
LEMMA PassType ==
  ASSUME TypeInv, pc \in Timed, NEW phase \in Timed, GoTo(phase), UNCHANGED local
  PROVE  TypeInv'
<1>1. LocalsType'  BY LocalsTyped DEF LocalsType, local, GoTo, agent
<1> QED  BY <1>1, GoOnType DEF GoTo

LEMMA KnownType ==
  ASSUME TypeInv
  PROVE  /\ Known \in PremiseType /\ Known.open \subseteq premise.open
         /\ source = "ledger" => Known = premise
         /\ source # "ledger" => Known = NoPremise
<1>1. NoPremise \in PremiseType /\ NoPremise.open = {}
  BY DEF NoPremise, PremiseType, Steps
<1> QED  BY <1>1, CallsKnown DEF Known

LEMMA FetchType ==
  ASSUME TypeInv, FetchPremise
  PROVE  TypeInv'
<1>1. CASE Halt(FALSE)  BY <1>1, HaltType DEF FetchPremise
<1>2. CASE ~Halt(FALSE)
  <2>1. /\ GoTo("git") /\ pc = "premise" /\ source' \in {"ledger", "empty"}
        /\ UNCHANGED <<seen, said, tier2>>
    BY <1>2 DEF FetchPremise
  <2>2. LocalsType'  BY <2>1, LocalsTyped DEF LocalsType, GoTo, agent
  <2> QED  BY <2>1, <2>2, GoOnType DEF GoTo, Timed, Phases
<1> QED  BY <1>1, <1>2

LEMMA TrackType ==
  ASSUME TypeInv, TrackFiles
  PROVE  TypeInv'
<1>1. CASE Halt(FALSE)  BY <1>1, HaltType DEF TrackFiles
<1>2. CASE ~Halt(FALSE)
  <2> DEFINE src == Larger(Cardinality(Known.edited), Cardinality(tree.changed))
             verifs == Known.verifs
             tests == Known.tests
             lastTest == Known.lastTest
             lastSource == Known.lastSource
  <2>0. /\ GoTo("reconcile") /\ pc = "git" /\ UNCHANGED <<source, said, tier2>>
        /\ seen' = [src |-> src, verifs |-> verifs, tests |-> tests,
                    lastTest |-> lastTest, lastSource |-> lastSource,
                    open |-> Known.open, paths |-> {}, root |-> "workspace"]
    BY <1>2 DEF TrackFiles
  <2> HIDE DEF src, verifs, tests, lastTest, lastSource
  <2>1. DOMAIN seen' = Fields /\ seen'.open = Known.open /\ seen'.paths = {}
    BY <2>0 DEF Fields
  <2>2. LocalsType'
    BY <2>0, <2>1, KnownType, LocalsTyped DEF LocalsType, GoTo, agent
  <2> QED  BY <2>0, <2>2, GoOnType DEF GoTo, Timed, Phases
<1> QED  BY <1>1, <1>2

LEMMA ReconcileType ==
  ASSUME TypeInv, Reconcile
  PROVE  TypeInv'
<1> DEFINE paths == Known.edited \union tree.changed
<1>1. paths \subseteq File  BY KnownType, CallsKnown DEF PremiseType, TreeType
<1>2. "paths" \in DOMAIN seen /\ "open" \in DOMAIN seen  BY DEF TypeInv, Bounded, Fields
<1>3. /\ GoTo("lineage") /\ pc = "reconcile" /\ UNCHANGED <<source, said, tier2>>
      /\ DOMAIN seen' = Fields /\ seen'.paths = paths
      /\ seen'.open = seen.open \/ seen'.open = seen.open \ Settled
  <2>1. CASE said = "nothing" \/ seen.open = {}
    <3>1. seen' = [seen EXCEPT !.paths = paths]  BY <2>1 DEF Reconcile
    <3> HIDE DEF paths
    <3>2. DOMAIN seen' = Fields /\ seen'.paths = paths /\ seen'.open = seen.open
      BY <1>2, <3>1 DEF TypeInv, Bounded
    <3> QED  BY <3>2 DEF Reconcile
  <2>2. CASE ~(said = "nothing" \/ seen.open = {})
    <3>0. PICK by \in [Settled -> Latest] :
            seen' = [seen EXCEPT
                 !.paths = paths,
                 !.open = @ \ Settled,
                 !.verifs = @ + Cardinality(Settled),
                 !.tests = @ + Cardinality({f \in Settled : IsTest(f)}),
                 !.lastTest = Larger(@, Highest(TestSteps(by), -1))]
      BY <2>2, Zenon DEF Reconcile
    <3> DEFINE verifs == seen.verifs + Cardinality(Settled)
               tests == seen.tests + Cardinality({f \in Settled : IsTest(f)})
               last == Larger(seen.lastTest, Highest(TestSteps(by), -1))
               open == seen.open \ Settled
    <3>1. seen' = [seen EXCEPT !.paths = paths, !.open = open, !.verifs = verifs,
                               !.tests = tests, !.lastTest = last]
      BY <3>0, Zenon
    <3> HIDE DEF paths, open, verifs, tests, last
    <3>2. DOMAIN seen' = Fields /\ seen'.paths = paths /\ seen'.open = open
      BY <1>2, <3>1 DEF TypeInv, Bounded, Fields
    <3> QED  BY <3>2 DEF Reconcile, open
  <2> QED  BY <2>1, <2>2
<1> HIDE DEF paths
<1>4. LocalsType'  BY <1>1, <1>3, LocalsTyped DEF LocalsType, GoTo, agent
<1> QED  BY <1>3, <1>4, GoOnType DEF GoTo, Timed, Phases

LEMMA Tier2Type ==
  ASSUME TypeInv, Tier2Handoff
  PROVE  TypeInv'
<1>1. "root" \in DOMAIN seen  BY DEF TypeInv, Bounded, Fields
<1>2. DOMAIN seen' = Fields /\ seen'.open = seen.open /\ seen'.paths = seen.paths
  BY <1>1 DEF Tier2Handoff, Targeted, TypeInv, Bounded
<1>3. LocalsType'  BY <1>2, LocalsTyped DEF LocalsType, Tier2Handoff, agent
<1> QED  BY <1>3, GoOnType DEF Tier2Handoff, Timed, Phases

\* What Tier 2 answers decides: a halt, or the next phase with what it found.
LEMMA Tier2Outcome ==
  ASSUME Tier2Answer
  PROVE  \/ \E remediable \in BOOLEAN : Halt(remediable)
         \/ /\ tier2' \in {"passed", "nowhere"} /\ GoTo("prose") /\ UNCHANGED <<seen, source, said>>
            /\ tier2' = "passed" => tree.flaw # "failing"
            /\ tier2' = "nowhere" => seen.paths \intersect Outside = {}
<1>1. PICK found \in {"passed", "nowhere", "failed", "none"} :
        /\ found = "passed" => tree.flaw # "failing"
        /\ CASE found = "none" -> Halt(FALSE)
             [] found = "nowhere" /\ seen.paths \intersect Outside # {} -> Halt(FALSE)
             [] found = "failed" -> Halt(TRUE)
             [] OTHER -> /\ tier2' = found /\ GoTo("prose") /\ UNCHANGED <<seen, source, said>>
  BY DEF Tier2Answer
<1>2. CASE Halt(FALSE) \/ Halt(TRUE)  BY <1>2
<1>3. CASE ~(Halt(FALSE) \/ Halt(TRUE))
  <2>1. /\ found \in {"passed", "nowhere"}
        /\ found = "nowhere" => seen.paths \intersect Outside = {}
        /\ tier2' = found /\ GoTo("prose") /\ UNCHANGED <<seen, source, said>>
    BY <1>1, <1>3
  <2> QED  BY <1>1, <2>1
<1> QED  BY <1>2, <1>3

LEMMA PhaseType ==
  ASSUME TypeInv, Phase
  PROVE  TypeInv'
<1> USE DEF Timed, Phases
<1>1. CASE ReadTranscript
  <2>1. CASE Halt(FALSE)  BY <1>1, <2>1, HaltType DEF ReadTranscript
  <2>2. CASE /\ GoTo("premise") /\ said' \in {"nothing", "transcript"}
             /\ UNCHANGED <<seen, source, tier2>>
    <3>1. LocalsType'  BY <2>2, LocalsTyped DEF LocalsType, GoTo, agent, Said
    <3> QED  BY <1>1, <2>2, <3>1, GoOnType DEF ReadTranscript, GoTo
  <2> QED  BY <1>1, <2>1, <2>2 DEF ReadTranscript
<1>2. CASE FetchPremise  BY <1>2, FetchType
<1>3. CASE TrackFiles  BY <1>3, TrackType
<1>4. CASE Reconcile  BY <1>4, ReconcileType
<1>5. CASE CheckLineage  BY <1>5, HaltType, PassType DEF CheckLineage
<1>6. CASE CheckStubs  BY <1>6, HaltType, PassType DEF CheckStubs
<1>7. CASE CheckRules  BY <1>7, HaltType, PassType DEF CheckRules
<1>8. CASE CheckWeakening  BY <1>8, HaltType, PassType DEF CheckWeakening
<1>9. CASE SkipVerification  BY <1>9, PassType DEF SkipVerification
<1>10. CASE Tier2NoTarget  BY <1>10, HaltType DEF Tier2NoTarget
<1>11. CASE Tier2Handoff  BY <1>11, Tier2Type
<1>12. CASE Tier2Answer
  <2>1. CASE \E remediable \in BOOLEAN : Halt(remediable)
    BY <1>12, <2>1, HaltType DEF Tier2Answer
  <2>2. CASE /\ tier2' \in {"passed", "nowhere"} /\ GoTo("prose") /\ UNCHANGED <<seen, source, said>>
    <3>1. LocalsType'  BY <2>2, LocalsTyped DEF LocalsType, GoTo, agent
    <3> QED  BY <1>12, <2>2, <3>1, GoOnType DEF Tier2Answer, GoTo
  <2> QED  BY <1>12, <2>1, <2>2, Tier2Outcome
<1>13. CASE AllowSilent \/ Allow
  <2>1. CASE Halt(FALSE)  BY <1>13, <2>1, HaltType DEF AllowSilent, Allow
  <2>2. CASE ~Halt(FALSE)
    <3>1. /\ pc \in {"prose", "allowing"} /\ pc' = "disarming" /\ counter' = NoFile
          /\ UNCHANGED <<agent, armed, local, verdict, answer>>
      BY <1>13, <2>2 DEF AllowSilent, Allow
    <3>2. LocalsType'  BY <3>1, LocalsTyped DEF LocalsType, local, agent
    <3> QED  BY <3>1, <3>2, GoOnType
  <2> QED  BY <2>1, <2>2
<1>14. CASE CheckClaims
  <2>1. PICK claim \in {"none", "passed", "unwritten", "false"} :
          IF claim = "unwritten" \/ (claim = "passed" /\ (seen.tests = 0 \/ Stale))
          THEN Halt(TRUE)
          ELSE IF claim = "none" THEN GoTo("allowing") /\ UNCHANGED local
          ELSE GoTo("nli") /\ said' = claim /\ UNCHANGED <<seen, source, tier2>>
    BY <1>14 DEF CheckClaims
  <2>2. CASE Halt(TRUE)  BY <1>14, <2>2, HaltType DEF CheckClaims
  <2>3. CASE GoTo("allowing") /\ UNCHANGED local  BY <1>14, <2>3, PassType DEF CheckClaims
  <2>4. CASE /\ claim \in {"passed", "false"} /\ GoTo("nli") /\ said' = claim
             /\ UNCHANGED <<seen, source, tier2>>
    <3>1. LocalsType'  BY <2>4, LocalsTyped DEF LocalsType, GoTo, agent, Said
    <3> QED  BY <1>14, <2>4, <3>1, GoOnType DEF CheckClaims, GoTo
  <2> QED  BY <2>1, <2>2, <2>3, <2>4
<1>15. CASE JudgeClaims  BY <1>15, HaltType, PassType DEF JudgeClaims
<1>16. CASE Disarm
  <2>1. TypeOK'  BY <1>16 DEF Disarm, TypeInv, TypeOK, agent, local
  <2>2. Bounded'  BY <1>16 DEF Disarm, TypeInv, Bounded, local
  <2> QED  BY <2>1, <2>2 DEF TypeInv
<1> QED  BY <1>1, <1>2, <1>3, <1>4, <1>5, <1>6, <1>7, <1>8, <1>9, <1>10, <1>11, <1>12,
            <1>13, <1>14, <1>15, <1>16 DEF Phase

LEMMA TypeInductive == TypeInv /\ [Next]_vars => TypeInv'
<1> SUFFICES ASSUME TypeInv, [Next]_vars  PROVE TypeInv'
  OBVIOUS
<1>1. CASE Agent  BY <1>1, AgentType
<1>2. CASE Stop
  <2>1. TypeOK'  BY <1>2 DEF Stop, TypeInv, TypeOK, Phases, agent, local
  <2>2. Bounded'  BY <1>2 DEF Stop, TypeInv, Bounded, local
  <2> QED  BY <2>1, <2>2 DEF TypeInv
<1>3. CASE Phase  BY <1>3, PhaseType
<1>4. CASE PostAllow
  <2>1. TypeOK'  BY <1>4 DEF PostAllow, Post, TypeInv, TypeOK, Phases, agent, local
  <2>2. Bounded'  BY <1>4 DEF PostAllow, TypeInv, Bounded, local
  <2> QED  BY <2>1, <2>2 DEF TypeInv
<1>5. CASE Answer
  <2>1. armed = FALSE /\ verdict \in {"none", "HALT", "ALLOW", "TIMEOUT_HALT"}
    BY <1>5 DEF Answer, TypeInv, TypeOK
  <2> QED  BY <1>5, <2>1, EndType DEF Answer
<1>6. CASE Alarm
  <2>1. verdict' \in {"none", "HALT", "ALLOW", "TIMEOUT_HALT"}
    BY <1>6 DEF Alarm, Post, TypeInv, TypeOK
  <2> QED  BY <1>6, <2>1, EndType DEF Alarm
<1>7. CASE InternalError
  <2>1. verdict \in {"none", "HALT", "ALLOW", "TIMEOUT_HALT"}
    BY <1>7 DEF TypeInv, TypeOK
  <2> QED  BY <1>7, <2>1, EndType DEF InternalError
<1>8. CASE UNCHANGED vars
  <2>1. TypeOK'  BY <1>8 DEF vars, TypeInv, TypeOK, agent, local
  <2>2. Bounded'  BY <1>8 DEF vars, TypeInv, Bounded, agent, local
  <2> QED  BY <2>1, <2>2 DEF TypeInv
<1> QED  BY <1>1, <1>2, <1>3, <1>4, <1>5, <1>6, <1>7, <1>8 DEF Next, Finish

\* The gate's types, its alarm, and the end of its locals with every stop, for
\* any commands, files and numbers of halts.
THEOREM TypeCorrect == Spec => []TypeOK
<1>1. TypeInv => TypeOK  BY DEF TypeInv
<1> QED  BY <1>1, InitType, TypeInductive, PTL DEF Spec
-----------------------------------------------------------------------------
(* The recorded verdict *)

\* A phase halts, or goes on and leaves the agent and the outcome alone.
LEMMA PhaseOutcome ==
  ASSUME Phase
  PROVE  /\ pc \in Timed
         /\ \/ \E remediable \in BOOLEAN : Halt(remediable)
            \/ UNCHANGED <<agent, verdict, answer>> /\ pc' \in Timed \union {"posting"}
<1> USE DEF Timed, Phases, GoTo
<1>1. CASE ReadTranscript \/ FetchPremise \/ TrackFiles \/ Reconcile
  BY <1>1 DEF ReadTranscript, FetchPremise, TrackFiles, Reconcile
<1>2. CASE CheckLineage \/ CheckStubs \/ CheckRules \/ CheckWeakening
  BY <1>2 DEF CheckLineage, CheckStubs, CheckRules, CheckWeakening
<1>3. CASE SkipVerification \/ Tier2NoTarget \/ Tier2Handoff
  BY <1>3 DEF SkipVerification, Tier2NoTarget, Tier2Handoff
<1>4. CASE Tier2Answer  BY <1>4, Tier2Outcome DEF Tier2Answer
<1>5. CASE CheckClaims \/ JudgeClaims  BY <1>5 DEF CheckClaims, JudgeClaims
<1>6. CASE AllowSilent \/ Allow \/ Disarm  BY <1>6 DEF AllowSilent, Allow, Disarm
<1> QED  BY <1>1, <1>2, <1>3, <1>4, <1>5, <1>6 DEF Phase

\* Until the alarm is off no stop has been recorded as allowed.
VerdictInv ==
  /\ AllowedAnswered
  /\ pc \notin {"idle", "answering"} => verdict # "ALLOW"

LEMMA VerdictInductive == TypeInv /\ VerdictInv /\ [Next]_vars => VerdictInv'
<1> SUFFICES ASSUME TypeInv, VerdictInv, [Next]_vars  PROVE VerdictInv'
  OBVIOUS
<1> USE DEF VerdictInv, AllowedAnswered
<1>1. CASE Agent
  <2>1. CASE Commands  BY <2>1, CommandsIdle DEF Idle
  <2> QED  BY <1>1, <2>1 DEF Agent, Commands, Edit, LedgerBroken, OperatorReset, Work, Idle
<1>2. CASE Stop  BY <1>2 DEF Stop
<1>3. CASE Phase
  <2>1. verdict # "ALLOW"  BY <1>3, PhaseOutcome DEF Timed
  <2>2. CASE \E remediable \in BOOLEAN : Halt(remediable)  BY <2>1, <2>2 DEF Halt, Post
  <2>3. CASE UNCHANGED <<agent, verdict, answer>>  BY <2>1, <2>3
  <2> QED  BY <1>3, <2>2, <2>3, PhaseOutcome
<1>4. CASE Finish  BY <1>4 DEF Finish, PostAllow, Post, Answer
<1>5. CASE Alarm
  <2>1. verdict # "ALLOW"  BY <1>5 DEF Alarm, TypeInv, TypeOK
  <2> QED  BY <1>5, <2>1 DEF Alarm, Post
<1>6. CASE InternalError  BY <1>6 DEF InternalError
<1>7. CASE UNCHANGED vars  BY <1>7 DEF vars
<1> QED  BY <1>1, <1>2, <1>3, <1>4, <1>5, <1>6, <1>7 DEF Next

\* A stop recorded as allowed is answered so: the alarm is off before the
\* verdict goes to the daemon, so no deadline can halt it afterwards.
THEOREM VerdictIsKept == Spec => []AllowedAnswered
<1>1. Init => VerdictInv  BY DEF Init, VerdictInv, AllowedAnswered
<1>2. VerdictInv => AllowedAnswered  BY DEF VerdictInv
<1> QED  BY <1>1, <1>2, InitType, TypeInductive, VerdictInductive, PTL DEF Spec
-----------------------------------------------------------------------------
(* What the phases leave behind them *)

LinesOf == {r.line : r \in transcript}

\* Of any of the transcript's lines one is the last.
LastExists ==
  \A T \in SUBSET LinesOf : T # {} => \E n \in T : \A m \in T : m <= n

\* The ledger's last test has a step exactly if there was a test, and a number
\* where steps are numbered; the changed files can be counted.
PremiseInv ==
  /\ LastExists
  /\ premise.tests = 0 => premise.lastTest = -1
  /\ (premise.tests # 0 /\ ~Claude) => premise.lastTest > 0
  /\ IsFiniteSet(tree.changed)

LEMMA PremiseKept ==
  ASSUME PremiseInv, UNCHANGED <<harness, transcript>>,
         premise'.tests = premise.tests, premise'.lastTest = premise.lastTest,
         IsFiniteSet(tree'.changed)
  PROVE  PremiseInv'
BY DEF PremiseInv, LastExists, LinesOf, Claude

\* A new line is the last of any set it is in, or an old one is.
LEMMA LastGrows ==
  ASSUME TypeInv, LastExists,
         NEW x \in LinesBefore(now), transcript' = transcript \union {x}
  PROVE  LastExists'
<1>1. /\ LinesOf \subseteq 1 .. now - 1 /\ now \in Nat
      /\ x.line \in 1 .. now - 1
  BY CallsKnown DEF LinesOf, LinesBefore
<1>2. LinesOf' = LinesOf \union {x.line}  BY DEF LinesOf
<1> DEFINE l == x.line
<1>0. l \in Nat /\ LinesOf \subseteq Nat  BY <1>1
<1> HIDE DEF l
<1>3. SUFFICES ASSUME NEW T \in SUBSET (LinesOf \union {l}), T # {}
               PROVE  \E n \in T : \A m \in T : m <= n
  BY <1>2 DEF LastExists, l
<1>4. CASE T \subseteq {l}
  <2>1. l \in T /\ \A m \in T : m = l  BY <1>3, <1>4
  <2> QED  BY <1>0, <2>1
<1>5. CASE ~(T \subseteq {l})
  <2>1. T \ {l} \in SUBSET LinesOf /\ T \ {l} # {}  BY <1>5
  <2>2. PICK n \in T \ {l} : \A m \in T \ {l} : m <= n  BY <2>1 DEF LastExists
  <2>3. n \in Nat  BY <1>0, <2>1
  <2>4. CASE l \in T /\ l > n
    <3>1. \A m \in T : m <= l
      <4>1. SUFFICES ASSUME NEW m \in T  PROVE m <= l
        OBVIOUS
      <4>2. m = l \/ (m \in T \ {l} /\ m \in Nat)  BY <1>0
      <4> QED  BY <1>0, <2>2, <2>3, <2>4, <4>2
    <3> QED  BY <2>4, <3>1
  <2>5. CASE ~(l \in T /\ l > n)
    <3>1. \A m \in T : m <= n  BY <1>0, <2>2, <2>3, <2>5
    <3> QED  BY <3>1
  <2> QED  BY <2>4, <2>5
<1> QED  BY <1>4, <1>5

\* What a command does to the ledger and to the transcript.
LEMMA CommandSteps ==
  ASSUME TypeInv, Commands
  PROVE  /\ harness' = harness /\ tree' = tree
         /\ transcript' = transcript \/ \E x \in LinesBefore(now) : transcript' = transcript \union {x}
         /\ premise' = premise \/ \E x \in running, clean \in BOOLEAN : premise' = LedgerAfter(x, clean)
<1>1. harness' = harness /\ tree' = tree
  BY CommandsIdle DEF Idle, Commands, Call, Return, Detach, Notify
<1>2. CASE \E c \in Command : Call(c)  BY <1>1, <1>2 DEF Call
<1>3. CASE \E x \in running, clean, ok \in BOOLEAN : Return(x, clean, ok)
  <2>1. PICK x \in running, clean \in BOOLEAN, ok \in BOOLEAN : Return(x, clean, ok)  BY <1>3
  <2> DEFINE c == IF Claude THEN x.cmd ELSE pending
  <2>2. transcript' = IF c = NoCommand THEN transcript
                      ELSE transcript \union {Result(c, x, ok)}
    BY <2>1 DEF Return
  <2>3. c = NoCommand \/ c \in Command
    BY CallsKnown DEF CallsBefore, TypeInv, TypeOK
  <2> HIDE DEF c
  <2>4. transcript' = transcript \/ \E y \in LinesBefore(now) : transcript' = transcript \union {y}
    BY <2>2, <2>3, ResultType
  <2>5. premise' = LedgerAfter(x, clean)  BY <2>1 DEF Return
  <2> QED  BY <1>1, <2>4, <2>5
<1>4. CASE \E x \in running, clean \in BOOLEAN : Detach(x, clean)
  BY <1>1, <1>4 DEF Detach
<1>5. CASE \E x \in running, ok \in BOOLEAN : Notify(x, ok)
  <2>1. PICK x \in running, ok \in BOOLEAN : Notify(x, ok)  BY <1>5
  <2>2. x.task = NoCommand \/ x.task \in Command  BY CallsKnown DEF CallsBefore
  <2>3. premise' = premise /\ transcript' = IF x.task = NoCommand THEN transcript
                                            ELSE transcript \union {Result(x.task, x, ok)}
    BY <2>1 DEF Notify
  <2>4. transcript' = transcript \/ \E y \in LinesBefore(now) : transcript' = transcript \union {y}
    BY <2>2, <2>3, ResultType
  <2> QED  BY <1>1, <2>3, <2>4
<1> QED  BY <1>2, <1>3, <1>4, <1>5 DEF Commands

LEMMA PremiseOfCommands ==
  ASSUME TypeInv, PremiseInv, Commands
  PROVE  PremiseInv'
<1>1. LastExists'
  <2>1. CASE transcript' = transcript  BY <2>1 DEF PremiseInv, LastExists, LinesOf
  <2>2. CASE \E x \in LinesBefore(now) : transcript' = transcript \union {x}
    BY <2>2, LastGrows DEF PremiseInv
  <2> QED  BY <2>1, <2>2, CommandSteps
<1>2. Claude' = Claude  BY CommandSteps DEF Claude
<1>3. /\ premise'.tests = 0 => premise'.lastTest = -1
      /\ (premise'.tests # 0 /\ ~Claude') => premise'.lastTest > 0
  <2>1. CASE premise' = premise  BY <1>2, <2>1 DEF PremiseInv
  <2>2. CASE \E x \in running, clean \in BOOLEAN : premise' = LedgerAfter(x, clean)
    <3>1. PICK x \in running, clean \in BOOLEAN : premise' = LedgerAfter(x, clean)  BY <2>2
    <3>2. \/ premise'.tests = premise.tests /\ premise'.lastTest = premise.lastTest
          \/ /\ premise'.tests = premise.tests + 1
             /\ premise'.lastTest = Larger(premise.lastTest, StepIdx(x.from))
      BY <3>1, LedgerTakes
    <3>3. /\ premise.tests \in Nat /\ premise.lastTest \in Steps
          /\ x.from \in Nat /\ x.from > 0
      <4>1. x.from \in 1 .. now - 1 /\ now \in Nat  BY CallsKnown DEF CallsBefore
      <4> QED  BY <4>1, CallsKnown DEF PremiseType
    <3>4. CASE premise'.tests = premise.tests /\ premise'.lastTest = premise.lastTest
      BY <1>2, <3>4 DEF PremiseInv
    <3>5. CASE /\ premise'.tests = premise.tests + 1
               /\ premise'.lastTest = Larger(premise.lastTest, StepIdx(x.from))
      <4>1. premise'.tests # 0  BY <3>3, <3>5
      <4>2. ~Claude => StepIdx(x.from) = x.from  BY DEF StepIdx
      <4>3. ~Claude => Larger(premise.lastTest, StepIdx(x.from)) > 0
        BY <3>3, <4>2 DEF Larger, Steps
      <4> QED  BY <1>2, <3>5, <4>1, <4>3
    <3> QED  BY <3>2, <3>4, <3>5
  <2> QED  BY <2>1, <2>2, CommandSteps
<1>4. IsFiniteSet(tree'.changed)  BY CommandSteps DEF PremiseInv
<1> QED  BY <1>1, <1>3, <1>4 DEF PremiseInv

LEMMA PremiseInductive == TypeInv /\ PremiseInv /\ [Next]_vars => PremiseInv'
<1> SUFFICES ASSUME TypeInv, PremiseInv, [Next]_vars  PROVE PremiseInv'
  OBVIOUS
<1>1. CASE UNCHANGED agent  BY <1>1, PremiseKept DEF agent, PremiseInv
<1>2. CASE \E f \in File, recorded \in BOOLEAN : Edit(f, recorded)
  <2>1. PICK f \in File, recorded \in BOOLEAN : Edit(f, recorded)  BY <1>2
  <2>2. premise'.tests = premise.tests /\ premise'.lastTest = premise.lastTest
    BY <2>1, CallsKnown DEF Edit, PremiseType
  <2>3. transcript' = transcript /\ harness' = harness
    BY <2>1 DEF Edit, Work, Idle
  <2>4. tree'.changed = tree.changed \/ tree'.changed = tree.changed \union {f}
    BY <2>1, CallsKnown DEF Edit, TreeType
  <2>5. IsFiniteSet(tree'.changed)  BY <2>4, FS_AddElement DEF PremiseInv
  <2> QED  BY <2>2, <2>3, <2>5, PremiseKept
<1>3. CASE Commands  BY <1>3, PremiseOfCommands
<1>4. CASE LedgerBroken
  <2>1. premise'.tests = premise.tests /\ premise'.lastTest = premise.lastTest
    BY <1>4, CallsKnown DEF LedgerBroken, PremiseType
  <2>2. transcript' = transcript /\ harness' = harness /\ tree' = tree
    BY <1>4 DEF LedgerBroken, Work, Idle
  <2> QED  BY <2>1, <2>2, PremiseKept DEF PremiseInv
<1>5. CASE OperatorReset \/ Stop \/ Finish \/ Alarm \/ InternalError \/ UNCHANGED vars
  BY <1>1, <1>5 DEF OperatorReset, Stop, Finish, PostAllow, Answer, Alarm, InternalError, vars
<1>6. CASE Phase
  <2>1. UNCHANGED agent  BY <1>6, PhaseOutcome DEF Halt
  <2> QED  BY <1>1, <2>1
<1> QED  BY <1>2, <1>3, <1>4, <1>5, <1>6 DEF Next, Agent, Commands

LEMMA PremiseInitially == Init => PremiseInv
<1> SUFFICES ASSUME Init  PROVE PremiseInv
  OBVIOUS
<1>1. LinesOf = {}  BY DEF Init, LinesOf
<1>2. LastExists  BY <1>1 DEF LastExists
<1>3. IsFiniteSet(tree.changed)  BY FS_EmptySet DEF Init
<1> QED  BY <1>2, <1>3 DEF Init, PremiseInv, NoPremise

Reconciled == Phases \ {"idle", "transcript", "premise", "git", "reconcile"}
Ruled == Reconciled \ {"lineage", "stubs", "rules"}
Verified == Ruled \ {"weakening", "tier2", "tier2_answer"}

\* What the gate counts as tests the ledger or some success bears out, at its
\* last step where steps are numbered.
TestsProven ==
  seen.tests # 0 =>
    \/ premise.tests # 0 /\ (~Claude => premise.lastTest = seen.lastTest)
    \/ /\ premise.open # {}
       /\ \E r \in transcript : Proof(r) /\ (~Claude => r.line = seen.lastTest)

SettledOrOpen ==
  \A f \in premise.open : f \in seen.open \/ \E r \in Successes : Reconciles(r.cmd, f)

\* What the gate knows from Phase 4 on, with a premise or without one.
Gathered ==
  \/ /\ source = "ledger" /\ seen.lastSource = premise.lastSource
     /\ seen.lastTest \in Steps /\ TestsProven /\ SettledOrOpen
  \/ /\ source = "empty" /\ seen.tests = 0
     /\ seen.src > 0 \/ tree.changed = {}

\* What Tier 2 has to find where it decides.
Tier2Found ==
  (seen.src > 0 /\ harness # "antigravity" /\ ~SkipTier2) =>
    \/ tier2 = "passed" /\ tree.flaw # "failing"
    \/ tier2 = "nowhere" /\ seen.paths \intersect Outside = {}

\* What Phase 3 leaves to Phase 4.
Tracked ==
  /\ seen.open = Known.open /\ seen.tests = Known.tests
  /\ seen.lastTest = Known.lastTest /\ seen.lastSource = Known.lastSource
  /\ source = "empty" => seen.src > 0 \/ tree.changed = {}

\* What each phase leaves to the next.
SeenInv ==
  /\ pc = "git" => source \in {"ledger", "empty"}
  /\ pc = "reconcile" => source \in {"ledger", "empty"} /\ Tracked
  /\ pc \in Reconciled => Gathered
  /\ pc \in Ruled => /\ seen.open = {}
                     /\ seen.src > 0 => seen.tests # 0 /\ ~Stale
  /\ pc \in Verified => Tier2Found

GateInv == TypeInv /\ PremiseInv /\ SeenInv

\* A stop that ends, or has not come to Phase 3, leaves nothing to any phase.
LEMMA SeenEnded ==
  ASSUME pc' \in {"idle", "transcript", "premise"}
  PROVE  SeenInv'
BY DEF SeenInv, Reconciled, Ruled, Verified

\* What is known does not depend on the paths or the root.
LEMMA GatheredKept ==
  ASSUME Gathered, UNCHANGED <<agent, source>>,
         seen'.src = seen.src, seen'.tests = seen.tests, seen'.open = seen.open,
         seen'.lastTest = seen.lastTest, seen'.lastSource = seen.lastSource
  PROVE  Gathered' /\ (Stale' <=> Stale)
<1>1. /\ Claude' = Claude /\ Successes' = Successes /\ premise' = premise
      /\ transcript' = transcript /\ tree' = tree /\ source' = source
  BY DEF agent, Claude, Successes
<1>2. TestsProven => TestsProven'  BY <1>1 DEF TestsProven, Proof
<1>3. SettledOrOpen => SettledOrOpen'  BY <1>1 DEF SettledOrOpen
<1>4. Stale' <=> Stale  BY DEF Stale
<1> QED  BY <1>1, <1>2, <1>3, <1>4 DEF Gathered

\* A phase that checks nothing the later ones rely on.
LEMMA SeenKept ==
  ASSUME SeenInv, UNCHANGED <<agent, seen, source>>,
         pc' = "git" => pc = "git",
         pc' = "reconcile" => pc = "reconcile",
         pc' \in Reconciled => pc \in Reconciled,
         pc' \in Ruled => pc \in Ruled,
         pc' \in Verified => pc \in Verified /\ tier2' = tier2
  PROVE  SeenInv'
<1>1. seen' = seen /\ tree' = tree /\ premise' = premise /\ source' = source /\ harness' = harness
  BY DEF agent
<1>2. pc' = "git" => source' \in {"ledger", "empty"}  BY <1>1 DEF SeenInv
<1>3. pc' = "reconcile" => source' \in {"ledger", "empty"} /\ Tracked'
  BY <1>1 DEF SeenInv, Tracked, Known
<1>4. pc' \in Reconciled => Gathered'  BY <1>1, GatheredKept DEF SeenInv
<1>5. pc' \in Ruled => /\ seen'.open = {}
                       /\ seen'.src > 0 => seen'.tests # 0 /\ ~Stale'
  BY <1>1 DEF SeenInv, Stale
<1>6. pc' \in Verified => Tier2Found'  BY <1>1 DEF SeenInv, Tier2Found
<1> QED  BY <1>2, <1>3, <1>4, <1>5, <1>6 DEF SeenInv

\* The last of the successes that count as tests is one of them.
LEMMA LastTestLine ==
  ASSUME TypeInv, PremiseInv, NEW by
  PROVE  /\ Highest(TestSteps(by), -1) \in Steps
         /\ TestSteps(by) # {} => Highest(TestSteps(by), -1) \in TestSteps(by)
         /\ TestSteps(by) \subseteq Nat
         /\ \A n \in TestSteps(by) : n > 0
<1>1. TestSteps(by) \in SUBSET LinesOf  BY DEF TestSteps, LinesOf, Latest, Successes
<1>2. LinesOf \subseteq Nat /\ \A n \in LinesOf : n > 0
  BY CallsKnown DEF LinesOf, LinesBefore
<1>3. CASE TestSteps(by) = {}  BY <1>2, <1>3 DEF Highest, Steps
<1>4. CASE TestSteps(by) # {}
  <2>1. \E n \in TestSteps(by) : \A m \in TestSteps(by) : m <= n
    BY <1>1, <1>4 DEF PremiseInv, LastExists
  <2>2. Highest(TestSteps(by), -1) \in TestSteps(by)  BY <1>4, <2>1 DEF Highest
  <2> QED  BY <1>1, <1>2, <2>2 DEF Steps
<1> QED  BY <1>3, <1>4

\* A step of a test is the line of a success that Phase 4 takes for one.
LEMMA TestStepsProve ==
  ASSUME TypeInv, seen.open = premise.open,
         NEW by \in [Settled -> Latest], \A f \in Settled : Reconciles(by[f].cmd, f),
         NEW n \in TestSteps(by)
  PROVE  \E r \in transcript : Proof(r) /\ r.line = n
<1>1. PICK s \in Latest :
        n = s.line /\ (IsTest(s.cmd) \/ \E f \in Settled : IsTest(f) /\ by[f] = s)
  BY DEF TestSteps
<1>2. s \in transcript /\ s.ok  BY DEF Latest, Successes
<1>3. Settled \subseteq premise.open  BY DEF Settled
<1> QED  BY <1>1, <1>2, <1>3 DEF Proof

\* Phase 4: whatever it settles or counts as a test has its success.
LEMMA ReconcileSeen ==
  ASSUME GateInv, Reconcile
  PROVE  SeenInv'
<1>1. /\ GoTo("lineage") /\ pc = "reconcile" /\ source' = source
      /\ UNCHANGED <<harness, premise, transcript, tree>>
      /\ Claude' = Claude /\ Successes' = Successes
  BY DEF Reconcile, GoTo, agent, Claude, Successes
<1>2. source \in {"ledger", "empty"} /\ Tracked  BY <1>1 DEF GateInv, SeenInv
<1>3. {"src", "open", "paths", "verifs", "tests", "lastTest", "lastSource"} \subseteq DOMAIN seen
  BY DEF GateInv, TypeInv, Bounded, Fields
<1>4. /\ premise.tests \in Nat /\ premise.lastTest \in Steps
      /\ premise.tests = 0 => premise.lastTest = -1
  BY CallsKnown DEF GateInv, PremiseType, PremiseInv
<1>5. SUFFICES Gathered'  BY <1>1 DEF SeenInv, GoTo, Reconciled, Ruled, Verified
<1> DEFINE paths == Known.edited \union tree.changed
<1>6. CASE said = "nothing" \/ seen.open = {}
  <2>1. seen' = [seen EXCEPT !.paths = paths]  BY <1>6 DEF Reconcile
  <2> HIDE DEF paths
  <2>2. /\ seen'.lastSource = seen.lastSource /\ seen'.lastTest = seen.lastTest
        /\ seen'.tests = seen.tests /\ seen'.open = seen.open /\ seen'.src = seen.src
    BY <1>3, <2>1
  <2>3. Gathered
    <3>1. CASE source = "ledger"
      <4>1. /\ seen.open = premise.open /\ seen.tests = premise.tests
            /\ seen.lastTest = premise.lastTest /\ seen.lastSource = premise.lastSource
        BY <1>2, <3>1 DEF Tracked, Known
      <4> QED  BY <1>4, <3>1, <4>1 DEF Gathered, TestsProven, SettledOrOpen
    <3>2. CASE source = "empty"
      BY <1>2, <3>2 DEF Gathered, Tracked, Known, NoPremise
    <3> QED  BY <1>2, <3>1, <3>2
  <2>4. UNCHANGED <<agent, source>>  BY <1>1 DEF GoTo
  <2> QED  BY <2>2, <2>3, <2>4, GatheredKept
<1>7. CASE ~(said = "nothing" \/ seen.open = {})
  <2>0. PICK by \in [Settled -> Latest] :
          /\ \A f \in Settled : Reconciles(by[f].cmd, f)
          /\ seen' = [seen EXCEPT
                 !.paths = paths,
                 !.open = @ \ Settled,
                 !.verifs = @ + Cardinality(Settled),
                 !.tests = @ + Cardinality({f \in Settled : IsTest(f)}),
                 !.lastTest = Larger(@, Highest(TestSteps(by), -1))]
    BY <1>7, Zenon DEF Reconcile
  <2> DEFINE verifs == seen.verifs + Cardinality(Settled)
             settled == Cardinality({f \in Settled : IsTest(f)})
             tests == seen.tests + settled
             last == Larger(seen.lastTest, Highest(TestSteps(by), -1))
             open == seen.open \ Settled
  <2>1. seen' = [seen EXCEPT !.paths = paths, !.open = open, !.verifs = verifs,
                             !.tests = tests, !.lastTest = last]
    BY <2>0, Zenon
  <2>2. settled # 0 => \E f \in Settled : IsTest(f)  BY FS_EmptySet
  <2>3. source = "ledger"
    <3>1. source # "ledger" => seen.open = {}  BY <1>2 DEF Tracked, Known, NoPremise
    <3> QED  BY <1>7, <3>1
  <2>4. /\ seen.open = premise.open /\ seen.tests = premise.tests
        /\ seen.lastTest = premise.lastTest /\ seen.lastSource = premise.lastSource
    BY <1>2, <2>3 DEF Tracked, Known
  <2> HIDE DEF paths, verifs, settled, last, open
  <2>5. tests = premise.tests + settled  BY <2>4
  <2> HIDE DEF tests
  <2>6. /\ seen'.lastSource = premise.lastSource /\ seen'.lastTest = last
        /\ seen'.tests = tests /\ seen'.open = open
    BY <1>3, <2>1, <2>4
  <2>7. SettledOrOpen'
    <3>1. \A f \in premise.open : f \in open \/ \E r \in Successes : Reconciles(r.cmd, f)
      BY <2>4 DEF open, Settled, Latest
    <3> QED  BY <1>1, <2>6, <3>1 DEF SettledOrOpen
  <2>8. last = premise.lastTest \/ last = Highest(TestSteps(by), -1)
    BY <2>4 DEF last, Larger
  <2>9. last \in Steps  BY <1>4, <2>8, LastTestLine DEF GateInv
  <2>10. ASSUME tests # 0
         PROVE  \/ premise.tests # 0 /\ (~Claude => premise.lastTest = last)
                \/ /\ premise.open # {}
                   /\ \E r \in transcript : Proof(r) /\ (~Claude => r.line = last)
    <3>1. premise.open # {}  BY <1>7, <2>4
    <3>2. CASE last \in TestSteps(by)
      <4>1. \E r \in transcript : Proof(r) /\ r.line = last
        BY <2>0, <2>4, <3>2, TestStepsProve DEF GateInv
      <4> QED  BY <3>1, <4>1
    <3>3. CASE last \notin TestSteps(by)
      <4>1. last = premise.lastTest
        <5>1. CASE TestSteps(by) # {}
          BY <2>8, <3>3, <5>1, LastTestLine DEF GateInv
        <5>2. CASE TestSteps(by) = {}
          <6>1. Highest(TestSteps(by), -1) = -1  BY <5>2 DEF Highest
          <6> QED  BY <1>4, <2>4, <6>1 DEF last, Larger, Steps
        <5> QED  BY <5>1, <5>2
      <4>2. premise.tests # 0
        <5>1. SUFFICES ASSUME premise.tests = 0  PROVE FALSE
          OBVIOUS
        <5>2. settled # 0  BY <2>5, <2>10, <5>1 DEF settled
        <5>3. PICK f \in Settled : IsTest(f)  BY <2>2, <5>2
        <5>4. by[f] \in Latest /\ by[f].line \in TestSteps(by)  BY <5>3 DEF TestSteps
        <5>5. Highest(TestSteps(by), -1) \in TestSteps(by)
              /\ Highest(TestSteps(by), -1) \in Nat
          BY <5>4, LastTestLine DEF GateInv
        <5>6. last = Highest(TestSteps(by), -1)
          BY <1>4, <2>4, <5>1, <5>5 DEF last, Larger
        <5> QED  BY <3>3, <5>5, <5>6
      <4> QED  BY <4>1, <4>2
    <3> QED  BY <3>2, <3>3
  <2>11. TestsProven'  BY <1>1, <2>6, <2>10 DEF TestsProven, Proof
  <2> QED  BY <1>1, <2>3, <2>6, <2>7, <2>9, <2>11 DEF Gathered
<1> QED  BY <1>6, <1>7

LEMMA HaltSeen ==
  ASSUME NEW remediable \in BOOLEAN, Halt(remediable)
  PROVE  SeenInv'
BY SeenEnded DEF Halt

LEMMA FetchSeen ==
  ASSUME FetchPremise
  PROVE  SeenInv'
<1>1. CASE Halt(FALSE)  BY <1>1, HaltSeen
<1>2. CASE ~Halt(FALSE)
  <2>1. GoTo("git") /\ source' \in {"ledger", "empty"}  BY <1>2 DEF FetchPremise
  <2> QED  BY <2>1 DEF SeenInv, GoTo, Reconciled, Ruled, Verified
<1> QED  BY <1>1, <1>2

LEMMA TrackSeen ==
  ASSUME GateInv, TrackFiles
  PROVE  SeenInv'
<1>1. CASE Halt(FALSE)  BY <1>1, HaltSeen
<1>2. CASE ~Halt(FALSE)
  <2> DEFINE src == Larger(Cardinality(Known.edited), Cardinality(tree.changed))
  <2>1. /\ GoTo("reconcile") /\ source' = source /\ pc = "git"
        /\ seen' = [src |-> src, verifs |-> Known.verifs, tests |-> Known.tests,
                    lastTest |-> Known.lastTest, lastSource |-> Known.lastSource,
                    open |-> Known.open, paths |-> {}, root |-> "workspace"]
    BY <1>2 DEF TrackFiles
  <2>2. source = "empty" => src > 0 \/ tree.changed = {}
    <3>1. SUFFICES ASSUME source = "empty"  PROVE src > 0 \/ tree.changed = {}
      OBVIOUS
    <3>2. Cardinality(Known.edited) = 0  BY <3>1, FS_EmptySet DEF Known, NoPremise
    <3>3. IsFiniteSet(tree.changed)  BY DEF GateInv, PremiseInv
    <3>4. Cardinality(tree.changed) \in Nat  BY <3>3, FS_CardinalityType
    <3>5. Cardinality(tree.changed) = 0 => tree.changed = {}  BY <3>3, FS_EmptySet
    <3> QED  BY <3>2, <3>4, <3>5 DEF Larger
  <2> HIDE DEF src
  <2>3. /\ seen'.open = Known.open /\ seen'.tests = Known.tests /\ seen'.src = src
        /\ seen'.lastTest = Known.lastTest /\ seen'.lastSource = Known.lastSource
    BY <2>1
  <2>4. Known' = Known /\ tree' = tree  BY <2>1 DEF Known, GoTo, agent
  <2>5. Tracked'  BY <2>1, <2>2, <2>3, <2>4 DEF Tracked
  <2>6. source \in {"ledger", "empty"}  BY <2>1 DEF GateInv, SeenInv
  <2> QED  BY <2>1, <2>5, <2>6 DEF SeenInv, GoTo, Reconciled, Ruled, Verified
<1> QED  BY <1>1, <1>2

LEMMA RulesSeen ==
  ASSUME SeenInv, CheckRules
  PROVE  SeenInv'
<1>1. CASE Halt(TRUE)  BY <1>1, HaltSeen
<1>2. CASE ~Halt(TRUE)
  <2>1. /\ ~((seen.src > 0 /\ (seen.tests = 0 \/ Stale)) \/ seen.open # {})
        /\ GoTo("weakening") /\ seen' = seen /\ source' = source /\ pc = "rules"
    BY <1>2 DEF CheckRules, local
  <2>2. Gathered /\ UNCHANGED agent  BY <2>1 DEF SeenInv, Reconciled, Phases, GoTo
  <2>3. Gathered' /\ (Stale' <=> Stale)  BY <2>1, <2>2, GatheredKept
  <2>4. seen'.open = {} /\ (seen'.src > 0 => seen'.tests # 0 /\ ~Stale')
    BY <2>1, <2>3
  <2> QED  BY <2>1, <2>3, <2>4 DEF SeenInv, GoTo, Verified
<1> QED  BY <1>1, <1>2

LEMMA HandoffSeen ==
  ASSUME TypeInv, SeenInv, Tier2Handoff
  PROVE  SeenInv'
<1>1. /\ seen' = Targeted /\ pc = "tier2" /\ pc' = "tier2_answer"
      /\ UNCHANGED <<agent, source>>
  BY DEF Tier2Handoff
<1>2. {"open", "src", "tests", "lastTest", "lastSource", "root"} \subseteq DOMAIN seen
  BY DEF TypeInv, Bounded, Fields
<1>3. /\ seen'.open = seen.open /\ seen'.src = seen.src /\ seen'.tests = seen.tests
      /\ seen'.lastTest = seen.lastTest /\ seen'.lastSource = seen.lastSource
  BY <1>1, <1>2 DEF Targeted
<1>4. /\ Gathered /\ seen.open = {} /\ (seen.src > 0 => seen.tests # 0 /\ ~Stale)
  BY <1>1 DEF SeenInv, Reconciled, Ruled, Phases
<1>5. Gathered' /\ (Stale' <=> Stale)  BY <1>1, <1>3, <1>4, GatheredKept
<1> QED  BY <1>1, <1>3, <1>4, <1>5 DEF SeenInv, Verified

\* Phase 9 is left only with what it needs, or unneeded.
LEMMA Tier2Seen ==
  ASSUME SeenInv, pc \in {"tier2", "tier2_answer"}, GoTo("prose"), UNCHANGED <<seen, source>>,
         Tier2Found'
  PROVE  SeenInv'
<1>1. UNCHANGED <<agent, source>> /\ pc' = "prose" /\ seen' = seen  BY DEF GoTo
<1>2. Gathered /\ seen.open = {} /\ (seen.src > 0 => seen.tests # 0 /\ ~Stale)
  BY DEF SeenInv, Reconciled, Ruled, Phases
<1>3. Gathered' /\ (Stale' <=> Stale)  BY <1>1, <1>2, GatheredKept
<1> QED  BY <1>1, <1>2, <1>3 DEF SeenInv

LEMMA PhaseSeen ==
  ASSUME GateInv, Phase
  PROVE  SeenInv'
<1> USE DEF GateInv, GoTo, Reconciled, Ruled, Verified, Phases
<1>1. CASE \E remediable \in BOOLEAN : Halt(remediable)  BY <1>1, HaltSeen
<1>2. CASE \A remediable \in BOOLEAN : ~Halt(remediable)
  <2>0. ~Halt(TRUE) /\ ~Halt(FALSE)  BY <1>2
  <2>1. CASE ReadTranscript \/ FetchPremise
    BY <2>0, <2>1, SeenEnded, FetchSeen DEF ReadTranscript
  <2>2. CASE TrackFiles  BY <2>2, TrackSeen
  <2>3. CASE Reconcile  BY <2>3, ReconcileSeen
  <2>4. CASE CheckLineage \/ CheckStubs
    <3>1. pc \in {"lineage", "stubs"} /\ pc' \in {"stubs", "rules"} /\ UNCHANGED <<agent, seen, source>>
      BY <2>0, <2>4 DEF CheckLineage, CheckStubs, local
    <3> QED  BY <3>1, SeenKept
  <2>5. CASE CheckRules  BY <2>5, RulesSeen
  <2>6. CASE CheckWeakening
    <3>1. pc = "weakening" /\ pc' = "tier2" /\ UNCHANGED <<agent, seen, source>>
      BY <2>0, <2>6 DEF CheckWeakening, local
    <3> QED  BY <3>1, SeenKept
  <2>7. CASE SkipVerification
    <3>1. Tier2Found'
      BY <2>7 DEF SkipVerification, Tier2Wanted, Tier2Found, agent, local
    <3> QED  BY <2>7, <3>1, Tier2Seen DEF SkipVerification, local
  <2>8. CASE Tier2NoTarget  BY <2>0, <2>8 DEF Tier2NoTarget
  <2>9. CASE Tier2Handoff  BY <2>9, HandoffSeen
  <2>10. CASE Tier2Answer
    <3>1. /\ tier2' \in {"passed", "nowhere"} /\ GoTo("prose") /\ UNCHANGED <<seen, source, said>>
          /\ tier2' = "passed" => tree.flaw # "failing"
          /\ tier2' = "nowhere" => seen.paths \intersect Outside = {}
      BY <1>2, <2>10, Tier2Outcome
    <3>2. Tier2Found'  BY <3>1 DEF Tier2Found, agent
    <3> QED  BY <2>10, <3>1, <3>2, Tier2Seen DEF Tier2Answer
  <2>11. CASE AllowSilent \/ CheckClaims \/ JudgeClaims \/ Allow \/ Disarm
    <3>1. /\ pc \in Verified /\ UNCHANGED <<agent, seen, source>> /\ tier2' = tier2
          /\ pc' \in Verified
      BY <2>0, <2>11 DEF AllowSilent, CheckClaims, JudgeClaims, Allow, Disarm, local
    <3> QED  BY <3>1, SeenKept
  <2> QED  BY <2>1, <2>2, <2>3, <2>4, <2>5, <2>6, <2>7, <2>8, <2>9, <2>10, <2>11 DEF Phase
<1> QED  BY <1>1, <1>2

LEMMA GateInductive == GateInv /\ [Next]_vars => GateInv'
<1> SUFFICES ASSUME GateInv, [Next]_vars  PROVE GateInv'
  OBVIOUS
<1>1. SeenInv'
  <2>1. CASE Agent
    <3>1. pc' = "idle"
      <4>1. Commands => pc' = "idle"  BY CommandsIdle DEF Idle
      <4> QED  BY <2>1, <4>1 DEF Agent, Commands, Edit, LedgerBroken, OperatorReset, Work, Idle
    <3> QED  BY <3>1, SeenEnded
  <2>2. CASE Stop \/ Alarm \/ InternalError \/ Answer
    BY <2>2, SeenEnded DEF Stop, Alarm, InternalError, Answer
  <2>3. CASE Phase  BY <2>3, PhaseSeen
  <2>4. CASE PostAllow \/ UNCHANGED vars
    <3>1. /\ UNCHANGED <<agent, seen, source>> /\ tier2' = tier2
          /\ \/ pc' = pc
             \/ pc = "posting" /\ pc' = "answering"
      BY <2>4 DEF PostAllow, vars, local
    <3>2. SeenInv  BY DEF GateInv
    <3> QED  BY <3>1, <3>2, SeenKept DEF Reconciled, Ruled, Verified, Phases
  <2> QED  BY <2>1, <2>2, <2>3, <2>4 DEF Next, Finish
<1> QED  BY <1>1, TypeInductive, PremiseInductive DEF GateInv

LEMMA GateInitially == Init => GateInv
<1> SUFFICES ASSUME Init  PROVE GateInv
  OBVIOUS
<1>1. SeenInv  BY DEF Init, SeenInv, Reconciled, Ruled, Verified
<1> QED  BY <1>1, InitType, PremiseInitially DEF GateInv

LEMMA PassedIsVerified ==
  ASSUME Passed
  PROVE  pc \in Reconciled /\ pc \in Ruled /\ pc \in Verified
BY DEF Passed, Reconciled, Ruled, Verified, Phases

\* Rule 1, for any agent: changed sources are passed only with a premise, and
\* by a test the ledger took for a pass or, with a failure open, by a success
\* that Phase 4 takes for one; where steps are numbered, the one called, the
\* other written at or after the last recorded edit.
THEOREM RuleOne == Spec => []ProvenAfterEdit
<1>1. GateInv => ProvenAfterEdit
  <2> SUFFICES ASSUME GateInv, Passed, seen.src > 0
               PROVE  /\ source = "ledger"
                      /\ \/ premise.tests > 0 /\ (~Claude => premise.lastTest >= premise.lastSource)
                         \/ /\ premise.open # {}
                            /\ \E r \in transcript :
                                 Proof(r) /\ (~Claude => r.line >= premise.lastSource)
    BY DEF ProvenAfterEdit
  <2>1. Gathered /\ seen.tests # 0 /\ ~Stale
    BY PassedIsVerified DEF GateInv, SeenInv
  <2>2. /\ source = "ledger" /\ seen.lastSource = premise.lastSource
        /\ seen.lastTest \in Steps /\ TestsProven
    BY <2>1 DEF Gathered
  <2>3. premise.tests \in Nat /\ premise.lastTest \in Steps /\ premise.lastSource \in Steps
    BY CallsKnown DEF GateInv, PremiseType
  <2>4. CASE premise.tests # 0 /\ (~Claude => premise.lastTest = seen.lastTest)
    <3>1. premise.tests > 0  BY <2>3, <2>4
    <3>2. ~Claude => premise.lastTest > 0  BY <2>4 DEF GateInv, PremiseInv
    <3>3. ~Claude => premise.lastTest >= premise.lastSource
      BY <2>1, <2>2, <2>3, <2>4, <3>2 DEF Stale, Steps
    <3> QED  BY <2>2, <3>1, <3>3
  <2>5. CASE /\ premise.open # {}
             /\ \E r \in transcript : Proof(r) /\ (~Claude => r.line = seen.lastTest)
    <3>1. PICK r \in transcript : Proof(r) /\ (~Claude => r.line = seen.lastTest)  BY <2>5
    <3>2. r.line \in Nat /\ r.line > 0  BY CallsKnown DEF GateInv, LinesBefore
    <3>3. ~Claude => r.line >= premise.lastSource
      BY <2>1, <2>2, <2>3, <3>1, <3>2 DEF Stale, Steps
    <3> QED  BY <2>2, <2>5, <3>1, <3>3
  <2> QED  BY <2>1, <2>2, <2>4, <2>5 DEF TestsProven
<1> QED  BY <1>1, GateInitially, GateInductive, PTL DEF Spec

\* Rule 2, for any agent: no stop that got the ledger's premise passes the
\* phases with a failure open that no success of the transcript is taken for,
\* and none without a premise where a change is seen in the workspace.
THEOREM RuleTwo == Spec => []FailuresSettled
<1>1. GateInv => FailuresSettled
  <2> SUFFICES ASSUME GateInv, Passed  PROVE FailuresSettled
    BY DEF FailuresSettled
  <2>1. /\ Gathered /\ seen.open = {}
        /\ seen.src > 0 => seen.tests # 0
    BY PassedIsVerified DEF GateInv, SeenInv
  <2>2. CASE source = "ledger"  BY <2>1, <2>2 DEF Gathered, SettledOrOpen, FailuresSettled
  <2>3. CASE source = "empty"  BY <2>1, <2>3 DEF Gathered, FailuresSettled
  <2> QED  BY <2>1, <2>2, <2>3 DEF Gathered
<1> QED  BY <1>1, GateInitially, GateInductive, PTL DEF Spec

\* Phase 9, for any agent and with or without HARDTRUTH_SKIP_TIER2.
THEOREM Tier2Correct == Spec => []Tier2Decides
<1>1. GateInv => Tier2Decides
  BY PassedIsVerified DEF GateInv, SeenInv, Tier2Found, Tier2Decides
<1> QED  BY <1>1, GateInitially, GateInductive, PTL DEF Spec
=============================================================================
