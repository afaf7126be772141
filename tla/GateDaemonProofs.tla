--------------------------- MODULE GateDaemonProofs ---------------------------
(***************************************************************************)
(* Proofs about GateDaemon, for any gate commands, trees, claims, budgets  *)
(* and bounds: types and spend, the breaker's one late write, the plans    *)
(* behind the writes, and the worlds behind the verified claims.           *)
(***************************************************************************)
EXTENDS GateDaemon, SequenceTheorems, TLAPS

-----------------------------------------------------------------------------
(* Types *)

LEMMA Remainder ==
  ASSUME NEW a \in Nat, NEW w \in Nat \ {0}
  PROVE  /\ a % w \in Nat
         /\ a < w => a % w = a
BY SMT

\* What channel A charges stays within the budget, whatever wraps around.
LEMMA ChargeType ==
  ASSUME NEW cost \in Cost, spend \in 0 .. Budget, Charge(cost)
  PROVE  spend' \in 0 .. Budget
<1>1. cost \in Nat /\ spend \in Nat /\ Word \in Nat \ {0} /\ Budget \in Nat
  BY GateAssumption DEF GateAssumption
<1>2. Spent(cost) \in Nat
  BY <1>1, Remainder DEF Spent
<1>3. QED
  BY <1>1, <1>2 DEF Charge, SpendFits

LEMMA ScanType ==
  ASSUME NEW by \in Client \cup {Nobody}, NEW op \in Op, NEW claims \in SUBSET Claim,
         NEW ok \in BOOLEAN, NEW read \in SUBSET Covered, NEW seen \in World,
         NEW start \in [Covered -> Nat]
  PROVE  [by |-> by, op |-> op, claims |-> claims, ok |-> ok, read |-> read,
          seen |-> seen, start |-> start] \in Scan
BY DEF Scan

LEMMA ScanFields ==
  ASSUME NEW s \in Scan
  PROVE  /\ s.by \in Client \cup {Nobody} /\ s.op \in Op /\ s.claims \in SUBSET Claim
         /\ s.ok \in BOOLEAN /\ s.read \in SUBSET Covered
         /\ s.seen \in World /\ s.start \in [Covered -> Nat]
BY DEF Scan

LEMMA NoScanType == NoScan \in Scan /\ NoScan.by = Nobody
<1>1. [f \in Covered |-> [content |-> 0, by |-> 0]] \in World
  BY DEF World, Content
<1>2. NoScan \in Scan
  BY <1>1, ScanType DEF NoScan, Op
<1>3. NoScan.by = Nobody
  BY DEF NoScan
<1>4. QED
  BY <1>2, <1>3

LEMMA ToolType ==
  ASSUME NEW at \in {"idle", "write", "post"}, NEW files \in SUBSET File,
         NEW asked \in BOOLEAN
  PROVE  [at |-> at, files |-> files, asked |-> asked] \in Tool
BY DEF Tool

LEMMA ToolFields ==
  ASSUME NEW t \in Tool
  PROVE  t.at \in {"idle", "write", "post"} /\ t.files \in SUBSET File /\ t.asked \in BOOLEAN
BY DEF Tool

LEMMA NoToolType == NoTool \in Tool /\ NoTool.at = "idle"
<1>1. NoTool \in Tool
  BY ToolType DEF NoTool
<1>2. NoTool.at = "idle"
  BY DEF NoTool
<1>3. QED
  BY <1>1, <1>2

LEMMA ReceiptType ==
  ASSUME NEW claim \in Claim, NEW ok \in BOOLEAN, NEW digest \in Digest,
         NEW left \in [Covered -> Nat]
  PROVE  [claim |-> claim, ok |-> ok, digest |-> digest, left |-> left] \in Receipt
BY DEF Receipt

LEMMA WritesType ==
  ASSUME world \in World
  PROVE  Writes \in [Covered -> Nat]
BY DEF World, Content, Writes

\* What a write does to one file that the digest covers.
LEMMA TouchOne ==
  ASSUME NEW f \in File, world \in World, edits \in Nat, Touch(f)
  PROVE  /\ edits' = edits + 1 /\ world' \in World
         /\ \A g \in Covered :
              \/ world'[g] = world[g]
              \/ world'[g].by = edits + 1 /\ world'[g].content <= edits + 1
<1>1. CASE f \in Skipped
  BY <1>1 DEF Touch
<1>2. CASE f \notin Skipped
  <2>1. PICK content \in {old \in Old : old <= edits} \cup {edits + 1} :
          world' = [world EXCEPT ![f] = [content |-> content, by |-> edits + 1]]
    BY <1>2 DEF Touch
  <2>2. content \in Nat /\ content <= edits + 1
    BY <2>1, GateAssumption DEF GateAssumption
  <2>3. [content |-> content, by |-> edits + 1] \in Content
    BY <2>2 DEF Content
  <2>4. edits' = edits + 1 /\ world' \in World
    BY <2>1, <2>3 DEF Touch, World
  <2>5. ASSUME NEW g \in Covered
        PROVE  \/ world'[g] = world[g]
               \/ world'[g].by = edits + 1 /\ world'[g].content <= edits + 1
    BY <2>1, <2>2 DEF World
  <2>6. QED
    BY <2>4, <2>5
<1>3. QED
  BY <1>1, <1>2

LEMMA TouchType ==
  ASSUME NEW f \in File, world \in World, edits \in Nat, Touch(f)
  PROVE  world' \in World /\ edits' \in Nat
BY TouchOne

LEMMA MutationType ==
  ASSUME NEW files, NEW context, failures \in Nat, tripped \in BOOLEAN,
         EvaluateMutation(files, context)
  PROVE  failures' \in Nat /\ tripped' \in BOOLEAN /\ (tripped => tripped')
<1>1. CASE RecordFailure
  BY <1>1 DEF RecordFailure
<1>2. CASE UNCHANGED <<failures, tripped>>
  BY <1>2
<1>3. QED
  BY <1>1, <1>2 DEF EvaluateMutation

LEMMA TypeInit == Init => TypeOK
<1> SUFFICES ASSUME Init PROVE TypeOK
  OBVIOUS
<1>1. spend \in 0 .. Budget
  BY GateAssumption DEF Init, GateAssumption
<1>2. world \in World
  BY DEF Init, World, Content
<1>3. scan \in Scan
  BY NoScanType DEF Init
<1>4. tool \in [Client -> Tool]
  BY NoToolType DEF Init
<1>5. receipts \in Seq(Receipt)
  BY DEF Init
<1>6. QED
  BY <1>1, <1>2, <1>3, <1>4, <1>5 DEF Init, TypeOK

LEMMA PlanningType ==
  ASSUME TypeOK, NEW c \in Client, Planning(c)
  PROVE  TypeOK'
<1>1. PICK files \in Named, cost \in Cost, clean \in BOOLEAN, tokens \in BOOLEAN :
        \/ PlanGate(c, files, cost, clean, tokens)
        \/ EvaluateIntent(c, files, cost, clean, tokens)
  BY DEF Planning
<1>2. files \in SUBSET File /\ cost \in Nat
  BY GateAssumption DEF GateAssumption
<1>3. CASE PlanGate(c, files, cost, clean, tokens)
  <2>1. Charge(cost)
    BY <1>3 DEF PlanGate, ApprovePlan
  <2>2. spend' \in 0 .. Budget
    BY <2>1, ChargeType DEF TypeOK
  <2>3. accepted' \in Nat /\ closure' \subseteq File /\ approved' \subseteq File
    BY <1>2, <1>3 DEF PlanGate, ApprovePlan, Accept, TypeOK
  <2>4. QED
    BY <1>3, <2>2, <2>3 DEF PlanGate, TypeOK
<1>4. CASE EvaluateIntent(c, files, cost, clean, tokens)
  <2>1. Charge(cost)
    BY <1>4 DEF EvaluateIntent
  <2>2. spend' \in 0 .. Budget
    BY <2>1, ChargeType DEF TypeOK
  <2>3. accepted' \in Nat
    BY <1>2, <1>4 DEF EvaluateIntent, Accept, TypeOK
  <2>4. QED
    BY <1>4, <2>2, <2>3 DEF EvaluateIntent, TypeOK
<1>5. QED
  BY <1>1, <1>3, <1>4

LEMMA WritingType ==
  ASSUME TypeOK, NEW c \in Client, Writing(c)
  PROVE  TypeOK'
<1>1. ASSUME NEW files \in Named, NEW hasTicket \in BOOLEAN,
             NEW context \in {"on", "off", "absent"},
             GateMutation(c, files, hasTicket, context)
      PROVE  TypeOK'
  <2>1. PICK valid : EvaluateMutation(files, valid)
    BY <1>1 DEF GateMutation
  <2>2. failures' \in Nat /\ tripped' \in BOOLEAN
    BY <2>1, MutationType DEF TypeOK
  <2>3. ticket' \in BOOLEAN /\ presented' \in BOOLEAN
    BY <1>1 DEF GateMutation, TypeOK
  <2>4. build' \in BOOLEAN
    BY <1>1 DEF GateMutation, TypeOK
  <2>5. QED
    BY <1>1, <2>2, <2>3, <2>4 DEF GateMutation, TypeOK
<1>2. ASSUME NEW f \in Target, PreTool(c, f)
      PROVE  TypeOK'
  <2>1. failures' \in Nat /\ tripped' \in BOOLEAN
    BY <1>2, MutationType DEF PreTool, TypeOK
  <2>2. tool' \in [Client -> Tool]
    <3>1. [at |-> "write", files |-> {f}, asked |-> TRUE] \in Tool
      BY ToolType, GateAssumption DEF GateAssumption
    <3>2. \/ tool' = [tool EXCEPT ![c] = [at |-> "write", files |-> {f}, asked |-> TRUE]]
          \/ tool' = tool
      BY <1>2 DEF PreTool
    <3>3. QED
      BY <3>1, <3>2 DEF TypeOK
  <2>3. QED
    BY <1>2, <2>1, <2>2 DEF PreTool, TypeOK, history
<1>3. ASSUME NEW f \in Target, PreToolAlone(c, f)
      PROVE  TypeOK'
  <2>1. tool' \in [Client -> Tool]
    BY <1>3, ToolType, GateAssumption DEF PreToolAlone, TypeOK, GateAssumption
  <2>2. QED
    BY <1>3, <2>1 DEF PreToolAlone, TypeOK, memory, history
<1>4. CASE Write(c)
  <2>1. tool[c] \in Tool
    BY DEF TypeOK
  <2>2. tool[c].files \in SUBSET File /\ tool[c].asked \in BOOLEAN
    BY <2>1, ToolFields
  <2>3. world' \in World /\ edits' \in Nat
    BY <1>4, <2>2, TouchType DEF Write, TypeOK
  <2>4. [at |-> "post", files |-> tool[c].files, asked |-> tool[c].asked] \in Tool
    BY <2>2, ToolType
  <2>5. tool' \in [Client -> Tool]
    BY <1>4, <2>4 DEF Write, TypeOK
  <2>6. late' \in [Client -> Nat]
    BY <1>4 DEF Write, TypeOK
  <2>7. QED
    BY <1>4, <2>3, <2>5, <2>6 DEF Write, TypeOK, memory
<1>5. CASE PostTool(c)
  <2>1. failures' \in Nat /\ tripped' \in BOOLEAN
    BY <1>5, MutationType DEF PostTool, TypeOK
  <2>2. tool' \in [Client -> Tool]
    BY <1>5, NoToolType DEF PostTool, TypeOK
  <2>3. QED
    BY <1>5, <2>1, <2>2 DEF PostTool, TypeOK, history
<1>6. CASE PostToolAlone(c)
  <2>1. tool' \in [Client -> Tool]
    BY <1>6, NoToolType DEF PostToolAlone, TypeOK
  <2>2. QED
    BY <1>6, <2>1 DEF PostToolAlone, TypeOK, memory, history
<1>7. QED
  BY <1>1, <1>2, <1>3, <1>4, <1>5, <1>6 DEF Writing

LEMMA AskingType ==
  ASSUME TypeOK, NEW c \in Client, Asking(c)
  PROVE  TypeOK'
<1>1. PICK op \in Op, claims \in SUBSET Claim, ok \in BOOLEAN : BeginScan(c, op, claims, ok)
  BY DEF Asking, AskReceipt, AskClaims, AskCompletion, Op
<1>2. scan' \in Scan
  BY <1>1, ScanType, WritesType DEF BeginScan, NewScan, TypeOK
<1>3. QED
  BY <1>1, <1>2 DEF BeginScan, TypeOK, memory, history

LEMMA ReadFileType ==
  ASSUME TypeOK, NEW f \in File, ReadFile(f)
  PROVE  TypeOK'
<1>1. scan \in Scan
  BY DEF TypeOK
<1>2. world[f] \in Content
  BY DEF TypeOK, World, ReadFile
<1>3. [scan.seen EXCEPT ![f] = world[f]] \in World
  BY <1>1, <1>2, ScanFields DEF World
<1>4. scan.read \cup {f} \in SUBSET Covered
  BY <1>1, ScanFields DEF ReadFile
<1>5. scan' \in Scan
  BY <1>1, <1>3, <1>4, ScanFields, ScanType DEF ReadFile
<1>6. QED
  BY <1>5 DEF ReadFile, TypeOK, memory, history

LEMMA DigestType ==
  ASSUME scan \in Scan, NEW failed \in BOOLEAN
  PROVE  DigestOf(failed) \in Digest
BY ScanFields DEF DigestOf, Digest, World, Content

LEMMA RecordReceiptType ==
  ASSUME TypeOK, NEW failed \in BOOLEAN, RecordReceipt(failed)
  PROVE  TypeOK'
<1>1. scan \in Scan
  BY DEF TypeOK
<1>2. PICK claim \in scan.claims :
        receipts' = Append(receipts, [claim |-> claim, ok |-> scan.ok,
                                      digest |-> DigestOf(failed), left |-> Writes])
  BY DEF RecordReceipt
<1>3. [claim |-> claim, ok |-> scan.ok, digest |-> DigestOf(failed), left |-> Writes] \in Receipt
  BY <1>1, ScanFields, DigestType, ReceiptType, WritesType DEF TypeOK
<1>4. receipts' \in Seq(Receipt)
  BY <1>2, <1>3, AppendProperties DEF TypeOK
<1>5. failures' \in Nat /\ tripped' \in BOOLEAN
  <2>1. RecordSuccess \/ RecordFailure
    BY DEF RecordReceipt
  <2>2. CASE RecordSuccess
    BY <2>2 DEF RecordSuccess, TypeOK
  <2>3. CASE RecordFailure
    BY <2>3 DEF RecordFailure, TypeOK
  <2>4. QED
    BY <2>1, <2>2, <2>3
<1>6. scan' \in Scan
  BY NoScanType DEF RecordReceipt
<1>7. QED
  BY <1>4, <1>5, <1>6 DEF RecordReceipt, TypeOK, history

LEMMA OtherTypes ==
  ASSUME TypeOK
  PROVE  /\ \A c \in Client : ResetBreaker(c) => TypeOK'
         /\ \A f \in File : Edit(f) => TypeOK'
         /\ \A failed \in BOOLEAN : Answer(failed) => TypeOK'
         /\ Stop => TypeOK'
         /\ Start => TypeOK'
         /\ UNCHANGED vars => TypeOK'
<1>1. ASSUME NEW c \in Client, ResetBreaker(c) PROVE TypeOK'
  BY <1>1 DEF ResetBreaker, TypeOK
<1>2. ASSUME NEW f \in File, Edit(f) PROVE TypeOK'
  <2>1. world' \in World /\ edits' \in Nat
    BY <1>2, TouchType DEF Edit, TypeOK
  <2>2. QED
    BY <1>2, <2>1 DEF Edit, TypeOK, memory, history
<1>3. ASSUME NEW failed \in BOOLEAN, Answer(failed) PROVE TypeOK'
  BY <1>3, NoScanType DEF Answer, TypeOK, memory, history
<1>4. ASSUME Stop PROVE TypeOK'
  <2>1. 0 \in 0 .. Budget /\ <<>> \in Seq(Receipt)
    BY GateAssumption DEF GateAssumption
  <2>2. QED
    BY <1>4, <2>1, NoScanType DEF Stop, TypeOK
<1>5. ASSUME Start PROVE TypeOK'
  BY <1>5 DEF Start, TypeOK
<1>6. ASSUME UNCHANGED vars PROVE TypeOK'
  BY <1>6 DEF TypeOK, vars, memory, history
<1>7. QED
  BY <1>1, <1>2, <1>3, <1>4, <1>5, <1>6

LEMMA TypeStep == TypeOK /\ [Next]_vars => TypeOK'
<1> SUFFICES ASSUME TypeOK, [Next]_vars PROVE TypeOK'
  OBVIOUS
<1>1. ASSUME NEW c \in Client, Planning(c) PROVE TypeOK'
  BY <1>1, PlanningType
<1>2. ASSUME NEW c \in Client, Writing(c) PROVE TypeOK'
  BY <1>2, WritingType
<1>3. ASSUME NEW c \in Client, Asking(c) PROVE TypeOK'
  BY <1>3, AskingType
<1>4. ASSUME NEW f \in File, ReadFile(f) PROVE TypeOK'
  BY <1>4, ReadFileType
<1>5. ASSUME NEW failed \in BOOLEAN, RecordReceipt(failed) PROVE TypeOK'
  BY <1>5, RecordReceiptType
<1>6. QED
  BY <1>1, <1>2, <1>3, <1>4, <1>5, OtherTypes DEF Next

\* The daemon's memory and the tools keep their types, and the charged spend its
\* bound (TypeOK).
THEOREM GateDaemonTypeCorrect == Spec => []TypeOK
<1>1. QED
  BY TypeInit, TypeStep, PTL DEF Spec

-----------------------------------------------------------------------------
(* Spend: what is accepted was charged before. *)

BudgetInv == accepted <= spend

\* No cost reaches the end of the word from within the budget.
NoWrap == \A cost \in Cost : Budget + cost < Word

LEMMA ChargeAdds ==
  ASSUME NoWrap, NEW cost \in Cost, spend \in 0 .. Budget, Charge(cost)
  PROVE  /\ spend' >= spend
         /\ SpendFits(cost) => spend' = spend + cost
<1>1. cost \in Nat /\ spend \in Nat /\ Word \in Nat \ {0} /\ Budget \in Nat
  BY GateAssumption DEF GateAssumption
<1>2. spend + cost < Word
  BY <1>1 DEF NoWrap
<1>3. Spent(cost) = spend + cost
  BY <1>1, <1>2, Remainder DEF Spent
<1>4. QED
  BY <1>1, <1>3 DEF Charge, SpendFits

LEMMA BudgetStep == NoWrap /\ TypeOK /\ BudgetInv /\ [Next]_vars => BudgetInv'
<1> SUFFICES ASSUME NoWrap, TypeOK, BudgetInv, [Next]_vars PROVE BudgetInv'
  OBVIOUS
<1>1. ASSUME NEW c \in Client, NEW files \in Named, NEW cost \in Cost,
             NEW clean \in BOOLEAN, NEW tokens \in BOOLEAN,
             \/ PlanGate(c, files, cost, clean, tokens)
             \/ EvaluateIntent(c, files, cost, clean, tokens)
      PROVE  BudgetInv'
  <2>1. Charge(cost) /\ (UNCHANGED accepted \/ (SpendFits(cost) /\ Accept(cost)))
    BY <1>1 DEF PlanGate, ApprovePlan, EvaluateIntent, PlanAllowed
  <2>2. /\ spend \in Nat /\ spend' \in Nat /\ spend' >= spend
        /\ SpendFits(cost) => spend' = spend + cost
    BY <2>1, ChargeType, ChargeAdds, GateAssumption DEF TypeOK, GateAssumption
  <2>3. accepted \in Nat /\ cost \in Nat /\ accepted <= spend
    BY GateAssumption DEF TypeOK, GateAssumption, BudgetInv
  <2>4. CASE UNCHANGED accepted
    BY <2>2, <2>3, <2>4 DEF BudgetInv
  <2>5. CASE SpendFits(cost) /\ Accept(cost)
    BY <2>2, <2>3, <2>5 DEF BudgetInv, Accept
  <2>6. QED
    BY <2>1, <2>4, <2>5
<1>2. CASE Stop
  BY <1>2 DEF Stop, BudgetInv
<1>3. CASE UNCHANGED <<accepted, spend>>
  BY <1>3 DEF BudgetInv
<1>4. ASSUME NEW c \in Client, Planning(c) PROVE BudgetInv'
  BY <1>1, <1>4 DEF Planning
<1>5. ASSUME NEW c \in Client, Writing(c) PROVE UNCHANGED <<accepted, spend>>
  BY <1>5 DEF Writing, GateMutation, PreTool, PreToolAlone, Write, PostTool, PostToolAlone,
              memory, history
<1>6. ASSUME NEW c \in Client, Asking(c) PROVE UNCHANGED <<accepted, spend>>
  BY <1>6 DEF Asking, AskReceipt, AskClaims, AskCompletion, BeginScan, memory, history
<1>7. QED
  BY <1>2, <1>3, <1>4, <1>5, <1>6
     DEF Next, ResetBreaker, ReadFile, Edit, RecordReceipt, Answer, Start, vars, memory, history

\* The plans one daemon accepts stay within its budget together, for any costs that
\* do not wrap around (AcceptedWithinBudget).
THEOREM BudgetKept == NoWrap => (Spec => []AcceptedWithinBudget)
<1> SUFFICES ASSUME NoWrap PROVE Spec => []AcceptedWithinBudget
  OBVIOUS
<1>1. Init => BudgetInv
  BY DEF Init, BudgetInv
<1>2. TypeOK /\ BudgetInv => AcceptedWithinBudget
  BY GateAssumption DEF TypeOK, BudgetInv, AcceptedWithinBudget, GateAssumption
<1>3. TypeOK /\ BudgetInv /\ [Next]_vars => BudgetInv'
  BY BudgetStep
<1>4. QED
  BY <1>1, <1>2, <1>3, GateDaemonTypeCorrect, PTL DEF Spec

-----------------------------------------------------------------------------
(* The breaker: who has written since the trip has nothing left to write. *)

LateInv ==
  \A c \in Client :
    /\ late[c] <= 1
    /\ late[c] > 0 => tripped /\ ~ (tool[c].at = "write" /\ tool[c].asked)

LEMMA LateStep == TypeOK /\ LateInv /\ [Next]_vars => LateInv'
<1> SUFFICES ASSUME TypeOK, LateInv, [Next]_vars, NEW d \in Client
             PROVE  /\ late'[d] <= 1
                    /\ late'[d] > 0 => tripped' /\ ~ (tool'[d].at = "write" /\ tool'[d].asked)
  BY DEF LateInv
<1> DEFINE Kept == /\ late'[d] <= 1
                   /\ late'[d] > 0 =>
                        tripped' /\ ~ (tool'[d].at = "write" /\ tool'[d].asked)
<1>0. /\ late[d] <= 1 /\ late[d] \in Nat
      /\ late[d] > 0 => tripped /\ ~ (tool[d].at = "write" /\ tool[d].asked)
  BY DEF LateInv, TypeOK
<1>1. ASSUME UNCHANGED <<late, tool>>, tripped => tripped' PROVE Kept
  BY <1>0, <1>1
<1>2. ASSUME \A e \in Client : late'[e] = 0 PROVE Kept
  BY <1>2
<1>3. ASSUME NEW c \in Client, Writing(c) PROVE Kept
  <2>1. ASSUME NEW files \in Named, NEW hasTicket \in BOOLEAN,
               NEW context \in {"on", "off", "absent"},
               GateMutation(c, files, hasTicket, context)
        PROVE  Kept
    <3>1. PICK valid : EvaluateMutation(files, valid)
      BY <2>1 DEF GateMutation
    <3>2. tripped => tripped'
      BY <3>1, MutationType DEF TypeOK
    <3>3. QED
      BY <1>1, <2>1, <3>2 DEF GateMutation
  <2>2. ASSUME NEW f \in Target, PreTool(c, f) PROVE Kept
    <3>1. tripped => tripped'
      BY <2>2, MutationType DEF PreTool, TypeOK
    <3>2. late' = late /\ (d # c => tool'[d] = tool[d])
      BY <2>2 DEF PreTool, history, TypeOK
    <3>3. tripped => tool' = tool
      BY <2>2 DEF PreTool, MutationAllowed
    <3>4. QED
      BY <1>0, <3>1, <3>2, <3>3
  <2>3. ASSUME NEW f \in Target, PreToolAlone(c, f) PROVE Kept
    <3>1. late' = late /\ tripped' = tripped
      BY <2>3 DEF PreToolAlone, history, memory
    <3>2. tool'[d] = tool[d] \/ tool'[d].asked = FALSE
      BY <2>3 DEF PreToolAlone, TypeOK
    <3>3. QED
      BY <1>0, <3>1, <3>2
  <2>4. CASE Write(c)
    <3>1. tripped' = tripped
      BY <2>4 DEF Write, memory
    <3>2. d # c => tool'[d] = tool[d] /\ late'[d] = late[d]
      BY <2>4 DEF Write, TypeOK
    <3>3. d = c => tool'[d].at = "post" /\ tool[d].at = "write"
      BY <2>4 DEF Write, TypeOK
    <3>4. late' = IF tripped /\ tool[c].asked THEN [late EXCEPT ![c] = @ + 1] ELSE late
      BY <2>4 DEF Write
    <3>5. CASE d = c /\ tripped /\ tool[c].asked
      <4>1. late[d] = 0
        BY <1>0, <3>3, <3>5
      <4>2. late'[d] = 1
        BY <3>4, <3>5, <4>1 DEF TypeOK
      <4>3. QED
        BY <3>1, <3>3, <3>5, <4>2
    <3>6. CASE d = c /\ ~ (tripped /\ tool[c].asked)
      BY <1>0, <3>1, <3>3, <3>4, <3>6
    <3>7. QED
      BY <1>0, <3>1, <3>2, <3>5, <3>6
  <2>5. ASSUME PostTool(c) \/ PostToolAlone(c) PROVE Kept
    <3>1. late' = late /\ (tool'[d] = tool[d] \/ tool'[d] = NoTool)
      BY <2>5 DEF PostTool, PostToolAlone, TypeOK, history
    <3>2. tripped => tripped'
      BY <2>5, MutationType DEF PostTool, PostToolAlone, TypeOK, memory
    <3>3. QED
      BY <1>0, <3>1, <3>2, NoToolType
  <2>6. QED
    BY <1>3, <2>1, <2>2, <2>3, <2>4, <2>5 DEF Writing
<1>4. ASSUME NEW c \in Client, Planning(c) PROVE Kept
  BY <1>1, <1>4 DEF Planning, PlanGate, EvaluateIntent
<1>5. ASSUME NEW c \in Client, Asking(c) PROVE Kept
  BY <1>1, <1>5 DEF Asking, AskReceipt, AskClaims, AskCompletion, BeginScan, memory, history
<1>6. ASSUME NEW c \in Client, ResetBreaker(c) PROVE Kept
  BY <1>2, <1>6 DEF ResetBreaker
<1>7. ASSUME NEW failed \in BOOLEAN, RecordReceipt(failed) PROVE Kept
  <2>1. tripped => tripped'
    BY <1>7 DEF RecordReceipt, RecordSuccess, RecordFailure
  <2>2. QED
    BY <1>1, <1>7, <2>1 DEF RecordReceipt, history
<1>8. CASE Start
  BY <1>2, <1>8 DEF Start
<1>9. ASSUME \/ \E f \in File : ReadFile(f) \/ Edit(f)
             \/ \E failed \in BOOLEAN : Answer(failed)
             \/ Stop
             \/ UNCHANGED vars
      PROVE  Kept
  BY <1>1, <1>9 DEF ReadFile, Edit, Answer, Stop, vars, memory, history
<1>10. QED
  BY <1>3, <1>4, <1>5, <1>6, <1>7, <1>8, <1>9 DEF Next

\* While a breaker is tripped, and after its daemon has stopped, a write tool writes
\* once at most after an answer (OneLateWrite).
THEOREM BreakerHolds == Spec => []OneLateWrite
<1>1. Init => LateInv
  <2> SUFFICES ASSUME Init, NEW c \in Client
               PROVE  /\ late[c] <= 1
                      /\ late[c] > 0 => tripped /\ ~ (tool[c].at = "write" /\ tool[c].asked)
    BY DEF LateInv
  <2>1. late[c] = 0
    BY DEF Init
  <2>2. QED
    BY <2>1
<1>2. LateInv => OneLateWrite
  BY DEF LateInv, OneLateWrite
<1>3. QED
  BY <1>1, <1>2, LateStep, GateDaemonTypeCorrect, PTL DEF Spec

-----------------------------------------------------------------------------
(* Approval: what G2 lets pass beyond the free files has been in a plan, now or in *)
(* an earlier life of the daemon.                                                  *)

Backed(files) ==
  /\ files \subseteq Free \cup approved
  /\ files \cap NewScript # {} => presented

ApprovalInv ==
  /\ closure \subseteq approved
  /\ Context => presented
  /\ \A c \in Client : tool[c].at # "idle" /\ tool[c].asked => Backed(tool[c].files)

\* Histories only grow, so what was backed stays backed.
LEMMA BackedStays ==
  ASSUME NEW files, Backed(files), approved \subseteq approved', presented => presented'
  PROVE  Backed(files)'
BY DEF Backed

LEMMA ApprovalFrame ==
  ASSUME ApprovalInv, UNCHANGED tool,
         approved \subseteq approved', presented => presented',
         closure' \subseteq approved', Context' => presented'
  PROVE  ApprovalInv'
BY DEF ApprovalInv, Backed

LEMMA ApprovalStep == TypeOK /\ ApprovalInv /\ [Next]_vars => ApprovalInv'
<1> SUFFICES ASSUME TypeOK, ApprovalInv, [Next]_vars PROVE ApprovalInv'
  OBVIOUS
<1>1. ASSUME NEW c \in Client, Planning(c) PROVE ApprovalInv'
  <2>1. PICK files \in Named, cost \in Cost, clean \in BOOLEAN, tokens \in BOOLEAN :
          \/ PlanGate(c, files, cost, clean, tokens)
          \/ EvaluateIntent(c, files, cost, clean, tokens)
    BY <1>1 DEF Planning
  <2>2. CASE PlanGate(c, files, cost, clean, tokens)
    <3>1. \/ closure' = closure \cup files /\ approved' = approved \cup files
          \/ UNCHANGED <<closure, approved>>
      BY <2>2 DEF PlanGate, ApprovePlan
    <3>2. closure' \subseteq approved' /\ approved \subseteq approved'
      BY <3>1 DEF ApprovalInv
    <3>3. QED
      BY <2>2, <3>2, ApprovalFrame DEF PlanGate, ApprovalInv, Context
  <2>3. CASE EvaluateIntent(c, files, cost, clean, tokens)
    BY <2>3, ApprovalFrame DEF EvaluateIntent, ApprovalInv, Context
  <2>4. QED
    BY <2>1, <2>2, <2>3
<1>2. ASSUME NEW c \in Client, Writing(c) PROVE ApprovalInv'
  <2>1. ASSUME NEW files \in Named, NEW hasTicket \in BOOLEAN,
               NEW context \in {"on", "off", "absent"},
               GateMutation(c, files, hasTicket, context)
        PROVE  ApprovalInv'
    <3>1. presented' = (presented \/ hasTicket \/ context = "on")
      BY <2>1 DEF GateMutation
    <3>2. ticket' = (ticket \/ hasTicket)
      BY <2>1 DEF GateMutation
    <3>3. build' => build \/ context = "on"
      BY <2>1 DEF GateMutation
    <3>4. ticket \/ build => presented
      BY DEF ApprovalInv, Context
    <3>5. ticket' \/ build' => presented'
      BY <3>1, <3>2, <3>3, <3>4, Zenon
    <3>6. QED
      BY <2>1, <3>1, <3>5, ApprovalFrame DEF GateMutation, ApprovalInv, Context
  <2>2. ASSUME NEW f \in Target, PreTool(c, f) PROVE ApprovalInv'
    <3>1. UNCHANGED <<approved, presented, closure, ticket, build>>
      BY <2>2 DEF PreTool, history
    <3>2. CASE MutationAllowed({f}, Context)
      <4>1. Backed({f})
        BY <3>2 DEF MutationAllowed, Rule5Allows, ClosureAllows, ApprovalInv, Backed
      <4>2. tool' = [tool EXCEPT ![c] = [at |-> "write", files |-> {f}, asked |-> TRUE]]
        BY <2>2, <3>2 DEF PreTool
      <4>3. ASSUME NEW d \in Client, tool'[d].at # "idle" /\ tool'[d].asked
            PROVE  Backed(tool'[d].files)
        <5>1. CASE d = c
          BY <4>1, <4>2, <5>1 DEF TypeOK
        <5>2. CASE d # c
          BY <4>2, <4>3, <5>2 DEF TypeOK, ApprovalInv
        <5>3. QED
          BY <5>1, <5>2
      <4>4. QED
        BY <3>1, <4>3 DEF ApprovalInv, Backed, Context
    <3>3. CASE ~ MutationAllowed({f}, Context)
      <4>1. tool' = tool
        BY <2>2, <3>3 DEF PreTool
      <4>2. QED
        BY <3>1, <4>1, ApprovalFrame DEF ApprovalInv, Context
    <3>4. QED
      BY <3>2, <3>3
  <2>3. ASSUME NEW f \in Target, PreToolAlone(c, f) PROVE ApprovalInv'
    <3>1. \A d \in Client : tool'[d] = tool[d] \/ ~ tool'[d].asked
      BY <2>3 DEF PreToolAlone, TypeOK
    <3>2. UNCHANGED <<approved, presented, closure, ticket, build>>
      BY <2>3 DEF PreToolAlone, history, memory
    <3>3. QED
      BY <3>1, <3>2 DEF ApprovalInv, Backed, Context
  <2>4. CASE Write(c)
    <3>1. UNCHANGED <<approved, presented, closure, ticket, build>>
      BY <2>4 DEF Write, memory
    <3>2. \A d \in Client :
            tool'[d] = tool[d] \/ (d = c /\ tool'[d].files = tool[d].files
                                        /\ tool'[d].asked = tool[d].asked)
      BY <2>4 DEF Write, TypeOK
    <3>3. tool[c].at # "idle"
      BY <2>4 DEF Write
    <3>4. QED
      BY <3>1, <3>2, <3>3 DEF ApprovalInv, Backed, Context
  <2>5. ASSUME PostTool(c) \/ PostToolAlone(c) PROVE ApprovalInv'
    <3>1. \A d \in Client : tool'[d] = tool[d] \/ tool'[d].at = "idle"
      BY <2>5, NoToolType DEF PostTool, PostToolAlone, TypeOK
    <3>2. UNCHANGED <<approved, presented, closure, ticket, build>>
      BY <2>5 DEF PostTool, PostToolAlone, history, memory
    <3>3. QED
      BY <3>1, <3>2 DEF ApprovalInv, Backed, Context
  <2>6. QED
    BY <1>2, <2>1, <2>2, <2>3, <2>4, <2>5 DEF Writing
<1>3. CASE Stop
  <2>1. closure' = {} /\ ~ ticket' /\ ~ build' /\ UNCHANGED <<approved, presented, tool>>
    BY <1>3 DEF Stop
  <2>2. ~ Context'
    BY <2>1, Zenon DEF Context
  <2>3. closure' \subseteq approved' /\ approved \subseteq approved' /\ (presented => presented')
    BY <2>1
  <2>4. QED
    BY <2>1, <2>2, <2>3, ApprovalFrame, Zenon
<1>4. ASSUME UNCHANGED <<approved, presented, closure, ticket, build, tool>>
      PROVE  ApprovalInv'
  BY <1>4, ApprovalFrame DEF ApprovalInv, Context
<1>5. ASSUME NEW c \in Client, Asking(c) PROVE ApprovalInv'
  BY <1>5, <1>4 DEF Asking, AskReceipt, AskClaims, AskCompletion, BeginScan, memory, history
<1>6. QED
  BY <1>1, <1>2, <1>3, <1>4, <1>5
     DEF Next, ResetBreaker, ReadFile, Edit, RecordReceipt, Answer, Start, vars, memory, history

\* What is written after an answer of the daemon is free or was in an accepted plan,
\* and a new script had a ticket or a build context (WritesApproved).
THEOREM WritesBacked == Spec => []WritesApproved
<1>1. Init => ApprovalInv
  <2> SUFFICES ASSUME Init PROVE ApprovalInv
    OBVIOUS
  <2>1. \A c \in Client : tool[c].at = "idle"
    BY NoToolType DEF Init
  <2>2. QED
    BY <2>1 DEF Init, ApprovalInv, Backed, Context
<1>2. ApprovalInv => WritesApproved
  BY DEF ApprovalInv, Backed, WritesApproved
<1>3. QED
  BY <1>1, <1>2, ApprovalStep, GateDaemonTypeCorrect, PTL DEF Spec

-----------------------------------------------------------------------------
(* Freshness.  Writes are numbered, and a content is numbered no higher than the   *)
(* write that put it there.  So what a receipt's digest holds of a file is         *)
(* numbered no higher than the file's last write when it was signed; that write is *)
(* no newer than the last one when a request begins, which is no newer than the    *)
(* one the request reads.  If the digests are equal and the content that was read  *)
(* has its write's number, it did not come back, and all of these are the same.    *)

WorldNumbered ==
  \A f \in Covered : world[f].content <= world[f].by /\ world[f].by <= edits

ReceiptsOld ==
  \A i \in 1 .. Len(receipts), f \in Covered :
    /\ receipts[i].digest = Empty \/ receipts[i].digest[f] <= receipts[i].left[f]
    /\ receipts[i].left[f] <= world[f].by

ScanBetween ==
  scan.by # Nobody =>
    \A f \in Covered :
      /\ scan.seen[f].content <= scan.seen[f].by
      /\ scan.start[f] <= scan.seen[f].by /\ scan.seen[f].by <= world[f].by
      /\ \A i \in 1 .. Len(receipts) : receipts[i].left[f] <= scan.start[f]

FreshInv == WorldNumbered /\ ReceiptsOld /\ ScanBetween

\* The numbers that are compared are numbers.
LEMMA Numbers ==
  ASSUME TypeOK, NEW f \in Covered
  PROVE  /\ world[f].content \in Nat /\ world[f].by \in Nat
         /\ scan.seen[f].content \in Nat /\ scan.seen[f].by \in Nat
         /\ scan.start[f] \in Nat /\ edits \in Nat
<1>1. scan.seen \in World /\ scan.start \in [Covered -> Nat] /\ world \in World
  BY ScanFields DEF TypeOK
<1>2. scan.seen[f] \in Content /\ world[f] \in Content
  BY <1>1 DEF World
<1>3. QED
  BY <1>1, <1>2 DEF Content, TypeOK

LEMMA ReceiptNumbers ==
  ASSUME TypeOK, NEW i \in 1 .. Len(receipts), NEW f \in Covered
  PROVE  receipts[i].left[f] \in Nat
<1>1. receipts[i] \in Receipt
  BY DEF TypeOK
<1>2. QED
  BY <1>1 DEF Receipt

\* Whoever writes leaves receipts and the running request behind.
LEMMA FreshTouch ==
  ASSUME TypeOK, FreshInv, NEW f \in File, Touch(f), UNCHANGED <<receipts, scan>>
  PROVE  FreshInv'
<1>1. /\ edits' = edits + 1
      /\ \A g \in Covered :
           \/ world'[g] = world[g]
           \/ world'[g].by = edits + 1 /\ world'[g].content <= edits + 1
  BY TouchOne DEF TypeOK
<1>2. ASSUME NEW g \in Covered
      PROVE  /\ world'[g].content <= world'[g].by /\ world'[g].by <= edits'
             /\ world[g].by <= world'[g].by /\ world'[g].by \in Nat
  <2>1. world[g].content <= world[g].by /\ world[g].by <= edits
    BY DEF FreshInv, WorldNumbered
  <2>2. world[g].content \in Nat /\ world[g].by \in Nat /\ edits \in Nat
    BY Numbers
  <2>3. QED
    BY <1>1, <2>1, <2>2
<1>3. WorldNumbered'
  BY <1>2 DEF WorldNumbered
<1>4. ReceiptsOld'
  <2>1. ASSUME NEW i \in 1 .. Len(receipts), NEW g \in Covered
        PROVE  receipts[i].left[g] <= world'[g].by
    <3>1. receipts[i].left[g] <= world[g].by /\ receipts[i].left[g] \in Nat
      BY ReceiptNumbers DEF FreshInv, ReceiptsOld
    <3>2. QED
      BY <1>2, <3>1, Numbers
  <2>2. QED
    BY <2>1 DEF FreshInv, ReceiptsOld
<1>5. ScanBetween'
  <2>1. ASSUME scan.by # Nobody, NEW g \in Covered
        PROVE  scan.seen[g].by <= world'[g].by
    <3>1. scan.seen[g].by <= world[g].by
      BY <2>1 DEF FreshInv, ScanBetween
    <3>2. QED
      BY <1>2, <3>1, Numbers
  <2>2. QED
    BY <2>1 DEF FreshInv, ScanBetween
<1>6. QED
  BY <1>3, <1>4, <1>5 DEF FreshInv

LEMMA FreshFrame ==
  ASSUME FreshInv, UNCHANGED <<receipts, world, edits>>, scan' = scan \/ scan' = NoScan
  PROVE  FreshInv'
<1>1. WorldNumbered' /\ ReceiptsOld'
  BY DEF FreshInv, WorldNumbered, ReceiptsOld
<1>2. ScanBetween'
  <2>1. CASE scan' = scan
    BY <2>1 DEF FreshInv, ScanBetween
  <2>2. CASE scan' = NoScan
    BY <2>2, NoScanType DEF ScanBetween
  <2>3. QED
    BY <2>1, <2>2
<1>3. QED
  BY <1>1, <1>2 DEF FreshInv

LEMMA FreshAsking ==
  ASSUME TypeOK, FreshInv, NEW c \in Client, Asking(c)
  PROVE  FreshInv'
<1>1. PICK op \in Op, claims \in SUBSET Claim, ok \in BOOLEAN : BeginScan(c, op, claims, ok)
  BY DEF Asking, AskReceipt, AskClaims, AskCompletion, Op
<1>2. UNCHANGED <<receipts, world, edits>>
  BY <1>1 DEF BeginScan, memory
<1>3. scan'.start = Writes /\ scan'.seen = world
  BY <1>1 DEF BeginScan, NewScan
<1>4. WorldNumbered' /\ ReceiptsOld'
  BY <1>2 DEF FreshInv, WorldNumbered, ReceiptsOld
<1>5. ASSUME NEW f \in Covered
      PROVE  /\ scan'.seen[f].content <= scan'.seen[f].by
             /\ scan'.start[f] <= scan'.seen[f].by /\ scan'.seen[f].by <= world[f].by
             /\ \A i \in 1 .. Len(receipts) : receipts[i].left[f] <= scan'.start[f]
  <2>1. scan'.start[f] = world[f].by
    BY <1>3 DEF Writes
  <2>2. QED
    BY <1>3, <2>1, Numbers DEF FreshInv, WorldNumbered, ReceiptsOld
<1>6. ScanBetween'
  BY <1>2, <1>5 DEF ScanBetween
<1>7. QED
  BY <1>4, <1>6 DEF FreshInv

LEMMA FreshRead ==
  ASSUME TypeOK, FreshInv, NEW f \in File, ReadFile(f)
  PROVE  FreshInv'
<1>1. UNCHANGED <<receipts, world, edits>> /\ scan.by # Nobody
  BY DEF ReadFile, memory
<1>2. scan'.start = scan.start /\ scan'.seen = [scan.seen EXCEPT ![f] = world[f]]
  BY DEF ReadFile
<1>3. scan.seen \in World
  BY ScanFields DEF TypeOK
<1>4. ASSUME NEW g \in Covered
      PROVE  /\ scan'.seen[g].content <= scan'.seen[g].by
             /\ scan'.start[g] <= scan'.seen[g].by /\ scan'.seen[g].by <= world[g].by
             /\ \A i \in 1 .. Len(receipts) : receipts[i].left[g] <= scan'.start[g]
  <2>1. scan'.seen[g] = scan.seen[g] \/ scan'.seen[g] = world[g]
    BY <1>2, <1>3 DEF World
  <2>2. /\ scan.seen[g].content <= scan.seen[g].by
        /\ scan.start[g] <= scan.seen[g].by /\ scan.seen[g].by <= world[g].by
        /\ \A i \in 1 .. Len(receipts) : receipts[i].left[g] <= scan.start[g]
    BY <1>1 DEF FreshInv, ScanBetween
  <2>3. world[g].content <= world[g].by
    BY DEF FreshInv, WorldNumbered
  <2>4. QED
    BY <1>2, <2>1, <2>2, <2>3, Numbers
<1>5. ScanBetween'
  BY <1>1, <1>4 DEF ScanBetween
<1>6. QED
  BY <1>1, <1>5 DEF FreshInv, WorldNumbered, ReceiptsOld

LEMMA FreshRecord ==
  ASSUME TypeOK, FreshInv, NEW failed \in BOOLEAN, RecordReceipt(failed)
  PROVE  FreshInv'
<1>1. scan.by # Nobody
  BY DEF RecordReceipt, Ready
<1>2. PICK claim \in scan.claims :
        receipts' = Append(receipts, [claim |-> claim, ok |-> scan.ok,
                                      digest |-> DigestOf(failed), left |-> Writes])
  BY DEF RecordReceipt
<1>3. UNCHANGED <<world, edits>> /\ scan' = NoScan
  BY DEF RecordReceipt
<1>4. Len(receipts') = Len(receipts) + 1 /\ Len(receipts) \in Nat
  BY <1>2, AppendProperties, LenProperties DEF TypeOK
<1>5. ASSUME NEW i \in 1 .. Len(receipts'), NEW f \in Covered
      PROVE  /\ receipts'[i].digest = Empty \/ receipts'[i].digest[f] <= receipts'[i].left[f]
             /\ receipts'[i].left[f] <= world[f].by
  <2>1. CASE i \in 1 .. Len(receipts)
    <3>1. receipts'[i] = receipts[i]
      BY <1>2, <2>1 DEF TypeOK
    <3>2. QED
      BY <2>1, <3>1 DEF FreshInv, ReceiptsOld
  <2>2. CASE i = Len(receipts) + 1
    <3>1. receipts'[i].digest = DigestOf(failed) /\ receipts'[i].left = Writes
      BY <1>2, <2>2 DEF TypeOK
    <3>2. Writes[f] = world[f].by
      BY DEF Writes
    <3>3. ~ failed => DigestOf(failed)[f] = scan.seen[f].content
      BY DEF DigestOf
    <3>4. failed => DigestOf(failed) = Empty
      BY DEF DigestOf
    <3>5. scan.seen[f].content <= scan.seen[f].by /\ scan.seen[f].by <= world[f].by
      BY <1>1 DEF FreshInv, ScanBetween
    <3>6. QED
      BY <3>1, <3>2, <3>3, <3>4, <3>5, Numbers
  <2>3. QED
    BY <1>4, <2>1, <2>2
<1>6. ReceiptsOld'
  BY <1>3, <1>5 DEF ReceiptsOld
<1>7. QED
  BY <1>3, <1>6, NoScanType DEF FreshInv, WorldNumbered, ScanBetween

LEMMA FreshStep == TypeOK /\ FreshInv /\ [Next]_vars => FreshInv'
<1> SUFFICES ASSUME TypeOK, FreshInv, [Next]_vars PROVE FreshInv'
  OBVIOUS
<1>1. ASSUME NEW c \in Client, Planning(c) PROVE FreshInv'
  BY <1>1, FreshFrame DEF Planning, PlanGate, EvaluateIntent
<1>2. ASSUME NEW c \in Client, Writing(c) PROVE FreshInv'
  <2>1. CASE Write(c)
    <3>1. tool[c].files \subseteq File
      BY ToolFields DEF TypeOK
    <3>2. QED
      BY <2>1, <3>1, FreshTouch DEF Write, memory
  <2>2. CASE ~ Write(c)
    BY <1>2, <2>2, FreshFrame
       DEF Writing, GateMutation, PreTool, PreToolAlone, PostTool, PostToolAlone, memory
  <2>3. QED
    BY <2>1, <2>2
<1>3. ASSUME NEW f \in File, Edit(f) PROVE FreshInv'
  BY <1>3, FreshTouch DEF Edit, memory
<1>4. CASE Stop
  <2>1. receipts' = <<>> /\ UNCHANGED <<world, edits>> /\ scan' = NoScan
    BY <1>4 DEF Stop
  <2>2. Len(receipts') = 0
    BY <2>1
  <2>3. QED
    BY <2>1, <2>2, NoScanType DEF FreshInv, WorldNumbered, ReceiptsOld, ScanBetween
<1>5. ASSUME NEW failed \in BOOLEAN, Answer(failed) PROVE FreshInv'
  BY <1>5, FreshFrame DEF Answer, memory
<1>6. ASSUME Start \/ UNCHANGED vars \/ (\E c \in Client : ResetBreaker(c)) PROVE FreshInv'
  BY <1>6, FreshFrame DEF Start, ResetBreaker, vars, memory
<1>7. QED
  BY <1>1, <1>2, <1>3, <1>4, <1>5, <1>6, FreshAsking, FreshRead, FreshRecord DEF Next

LEMMA FreshAnswers == ASSUME TypeOK, FreshInv PROVE VerifiedUnchanged
<1> SUFFICES ASSUME NEW failed \in BOOLEAN, Ready(failed), NEW i \in Proofs(failed)
             PROVE  \/ receipts[i].digest = Empty /\ failed
                    \/ \A f \in Covered :
                         \/ receipts[i].left[f] = scan.start[f]
                         \/ scan.seen[f].content # scan.seen[f].by
  BY DEF VerifiedUnchanged
<1>1. i \in 1 .. Len(receipts) /\ receipts[i].digest = DigestOf(failed) /\ scan.by # Nobody
  BY DEF Proofs, Witnesses, Ready
<1>2. CASE failed
  BY <1>1, <1>2 DEF DigestOf
<1>3. CASE ~ failed
  <2>1. DigestOf(failed) = [f \in Covered |-> scan.seen[f].content]
    BY <1>3 DEF DigestOf
  <2>2. DigestOf(failed) \in [Covered -> Nat]
    BY <2>1, Numbers
  <2>3. receipts[i].digest # Empty
    BY <1>1, <2>2, GateAssumption DEF GateAssumption
  <2>4. ASSUME NEW f \in Covered, scan.seen[f].content = scan.seen[f].by
        PROVE  receipts[i].left[f] = scan.start[f]
    <3>1. receipts[i].digest[f] = scan.seen[f].content
      BY <1>1, <2>1
    <3>2. receipts[i].digest[f] <= receipts[i].left[f]
      BY <1>1, <2>3 DEF FreshInv, ReceiptsOld
    <3>3. receipts[i].left[f] <= scan.start[f] /\ scan.start[f] <= scan.seen[f].by
      BY <1>1 DEF FreshInv, ScanBetween
    <3>4. receipts[i].left[f] \in Nat /\ scan.start[f] \in Nat /\ scan.seen[f].by \in Nat
      BY <1>1, Numbers, ReceiptNumbers
    <3>5. QED
      BY <2>4, <3>1, <3>2, <3>3, <3>4
  <2>5. QED
    BY <2>4
<1>4. QED
  BY <1>2, <1>3

\* A claim is Verified only if no file that the digest covers was written between
\* the signing of its receipt and the request, or was found written back, or if the
\* tree could be read for neither, however the reading of the files and the writes
\* interleave (VerifiedUnchanged).
THEOREM FreshnessHolds == Spec => []VerifiedUnchanged
<1>1. Init => FreshInv
  <2> SUFFICES ASSUME Init PROVE FreshInv
    OBVIOUS
  <2>1. Len(receipts) = 0 /\ scan.by = Nobody
    BY NoScanType DEF Init
  <2>2. WorldNumbered
    BY DEF Init, WorldNumbered
  <2>3. QED
    BY <2>1, <2>2 DEF FreshInv, ReceiptsOld, ScanBetween
<1>2. TypeOK /\ FreshInv /\ [Next]_vars => FreshInv'
  BY FreshStep
<1>3. TypeOK /\ FreshInv => VerifiedUnchanged
  BY FreshAnswers
<1>4. QED
  BY <1>1, <1>2, <1>3, GateDaemonTypeCorrect, PTL DEF Spec
=============================================================================
