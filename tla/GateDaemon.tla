----------------------------- MODULE GateDaemon -----------------------------
(***************************************************************************)
(* The resident Rust daemon hardtruthd (src/src/daemon.rs) with its phase  *)
(* gates (critic.rs), intent stack (intent_stack.rs) and receipts          *)
(* (merkle.rs), and the gate commands that ask it (bin/gate.rs) while the  *)
(* files they ask about change.                                            *)
(*                                                                         *)
(* A request holds the daemon's one mutex from its dispatch to its answer. *)
(* One that needs no world digest is therefore one step; one that does     *)
(* reads the tree file by file while everybody else goes on writing.       *)
(* pre_tool and post_tool are separate processes around the harness's own  *)
(* write, and the daemon may be gone at any of them.                       *)
(*                                                                         *)
(* A digest is taken to be what was read, so Blake3 is injective.  There   *)
(* is one tree: world_root and root_dir are the same.  The token bucket,   *)
(* refilled by the clock, has enough tokens or has not.  Requests without  *)
(* effect on what is kept (ping, commands, telemetry, status and its       *)
(* cached digest) are left out.                                            *)
(***************************************************************************)
EXTENDS Integers, Sequences

CONSTANTS
  Client,       \* gate commands that may run at the same time
  Nobody,
  File,         \* the tree
  Target,       \* the files that write tools are run on
  Named,        \* the sets of files that plans and payloads name
  Free,         \* files G2 lets pass: initial closure, exempt or tracked
  NewScript,    \* files Rule 5 is about: untracked scripts without a ticket on disk
  Claim,
  Alike,        \* pairs of claims of which one contains the other
  Cost,         \* costs of plans, in cents
  Budget,       \* spend_budget_cents
  Word,         \* 2^64
  MaxFailures,  \* max_consecutive_failures
  Empty,        \* the digest of a tree that could not be read
  Skipped,      \* files that no digest covers: hidden, linked, built or vendored
  Old,          \* contents that a write may bring back
  MaxEdits,     \* bound on writes to the tree
  MaxReceipts   \* bound on receipts of one daemon

\* What a file holds, and (history) the number of the write that put it there:
\* the same number where the content is new, a greater one where it came back.
Content == [content : Nat, by : Nat]

Covered == File \ Skipped

World == [Covered -> Content]

ASSUME GateAssumption ==
  /\ Nobody \notin Client
  /\ Target \subseteq File /\ Named \subseteq SUBSET File /\ Free \subseteq File /\ NewScript \subseteq File
  /\ Alike \subseteq Claim \X Claim
  /\ Cost \subseteq Nat /\ Budget \in Nat /\ Word \in Nat \ {0}
  /\ MaxFailures \in Nat \ {0}
  /\ Old \subseteq Nat /\ Skipped \subseteq File /\ Empty \notin [Covered -> Nat]
  /\ MaxEdits \in Nat /\ MaxReceipts \in Nat

VARIABLES
  up,           \* does the daemon run?
  failures,     \* consecutive_failures
  tripped,      \* circuit_breaker_tripped
  closure,      \* artifact_closure, what plans have added to it
  spend,        \* spend_cumulative_cents
  ticket,       \* session_ticket is some
  build,        \* vibehard_context
  receipts,     \* the receipts; their seq is the index
  scan,         \* the request that holds the mutex and reads the tree
  tool,         \* tool[c]: where the write tool supervised by c is
  world,        \* the contents of the files that the digest covers
  edits,        \* writes so far
  accepted,     \* history: cents of accepted plans since the daemon started
  approved,     \* history: files of plans ever accepted
  presented,    \* history: was a ticket or a build context ever presented?
  late          \* history: late[c]: writes of c that the daemon had answered, since
                \* it tripped

memory  == <<failures, tripped, closure, spend, ticket, build, receipts>>
history == <<accepted, approved, presented, late>>
vars == <<up, memory, scan, tool, world, edits, history>>

Digest == [Covered -> Nat] \cup {Empty}

Writes == [f \in Covered |-> world[f].by]

\* `left` is a history field: the last writes when the receipt was signed.
Receipt == [claim : Claim, ok : BOOLEAN, digest : Digest, left : [Covered -> Nat]]

Op == {"receipt", "claims", "completion"}

\* What the holder of the mutex was asked, the files it has read, what it read,
\* and (history) the last writes when it began.
Scan == [by : Client \cup {Nobody}, op : Op, claims : SUBSET Claim, ok : BOOLEAN,
         read : SUBSET Covered, seen : World, start : [Covered -> Nat]]

Tool == [at : {"idle", "write", "post"}, files : SUBSET File, asked : BOOLEAN]

NoTool == [at |-> "idle", files |-> {}, asked |-> FALSE]

MutexFree == up /\ scan.by = Nobody

Idle(c) == tool[c].at = "idle" /\ scan.by # c

Context == ticket \/ build

-----------------------------------------------------------------------------
(* The critic *)

RecordFailure ==
  /\ failures' = failures + 1
  /\ tripped' = (tripped \/ failures + 1 >= MaxFailures)

RecordSuccess == failures' = 0 /\ UNCHANGED tripped

\* has_valid_context, or no file that needs it
Rule5Allows(files, context) == context \/ files \cap NewScript = {}

\* The closure is never empty: it begins with the root, Cargo.toml, src and apps.
ClosureAllows(files) == files \subseteq Free \cup closure

\* Mutant: G2 does not look at the breaker.
MutationInMandate(files, context) ==
  Rule5Allows(files, context) /\ ClosureAllows(files)

MutationAllowed(files, context) ==
  /\ ~ tripped
  /\ Rule5Allows(files, context)
  /\ ClosureAllows(files)

\* evaluate_g2_mutation: a pass leaves the counter alone, a tripped breaker too.
EvaluateMutation(files, context) ==
  IF tripped \/ MutationAllowed(files, context)
  THEN UNCHANGED <<failures, tripped>>
  ELSE RecordFailure

-----------------------------------------------------------------------------
(* Plans *)

\* In a release build the sum of two u64 wraps around.
Spent(cost) == (spend + cost) % Word

\* Mutant: only this plan's cost is compared with the budget.
CostFits(cost) == cost <= Budget

SpendFits(cost) == Spent(cost) <= Budget

\* Mutant: charged before it is compared.
ChargeAlways(cost) == spend' = Spent(cost)

\* Channel A charges what fits, whatever the other channels say.
Charge(cost) == spend' = IF SpendFits(cost) THEN Spent(cost) ELSE spend

Accept(cost) == accepted' = accepted + cost

\* `clean`: no reserved port, no protected path; `tokens`: the bucket has them.
PlanAllowed(files, cost, clean, tokens) ==
  clean /\ tokens /\ SpendFits(cost) /\ Rule5Allows(files, Context)

\* Mutant: the files are added before the verdict.
ApproveFirst(files, cost, clean, tokens) ==
  /\ ~ tripped
  /\ Charge(cost)
  /\ closure' = closure \cup files
  /\ IF PlanAllowed(files, cost, clean, tokens)
     THEN approved' = approved \cup files /\ Accept(cost)
     ELSE UNCHANGED <<approved, accepted>>

\* RunGate G1, by a planner that is not refused at once.  A pass adds the files
\* to the closure.
ApprovePlan(files, cost, clean, tokens) ==
  /\ ~ tripped
  /\ Charge(cost)
  /\ IF PlanAllowed(files, cost, clean, tokens)
     THEN /\ closure' = closure \cup files
          /\ approved' = approved \cup files
          /\ Accept(cost)
     ELSE UNCHANGED <<closure, approved, accepted>>

PlanGate(c, files, cost, clean, tokens) ==
  /\ Idle(c) /\ MutexFree
  /\ ApprovePlan(files, cost, clean, tokens)
  /\ UNCHANGED <<up, failures, tripped, ticket, build, receipts, scan, tool, world,
                 edits, presented, late>>

\* EvaluateIntent: all channels, whatever the breaker says; it approves nothing.
EvaluateIntent(c, files, cost, clean, tokens) ==
  /\ Idle(c) /\ MutexFree
  /\ Charge(cost)
  /\ IF PlanAllowed(files, cost, clean, tokens) /\ ClosureAllows(files)
     THEN Accept(cost)
     ELSE UNCHANGED accepted
  /\ UNCHANGED <<up, failures, tripped, closure, ticket, build, receipts, scan, tool,
                 world, edits, approved, presented, late>>

-----------------------------------------------------------------------------
(* The write tools: pre_tool, the write, post_tool *)

\* RunGate G2 from the command line.  Its payload may hold a ticket, which stays,
\* and a build context, which stays until a payload takes it back.
GateMutation(c, files, hasTicket, context) ==
  /\ Idle(c) /\ MutexFree
  /\ ticket' = (ticket \/ hasTicket)
  /\ build' = CASE context = "on" -> TRUE
               [] context = "off" -> FALSE
               [] OTHER -> build
  /\ presented' = (presented \/ hasTicket \/ context = "on")
  /\ EvaluateMutation(files, ticket' \/ build')
  /\ UNCHANGED <<up, closure, spend, receipts, scan, tool, world, edits,
                 accepted, approved, late>>

PreTool(c, f) ==
  /\ Idle(c) /\ MutexFree
  /\ EvaluateMutation({f}, Context)
  /\ IF MutationAllowed({f}, Context)
     THEN tool' = [tool EXCEPT ![c] = [at |-> "write", files |-> {f}, asked |-> TRUE]]
     ELSE UNCHANGED tool
  /\ UNCHANGED <<up, closure, spend, ticket, build, receipts, scan, world, edits, history>>

\* No socket, no connection, or no answer, also of a daemon that runs but has lost
\* its socket to another: pre_tool prints "allow".
PreToolAlone(c, f) ==
  /\ Idle(c)
  /\ tool' = [tool EXCEPT ![c] = [at |-> "write", files |-> {f}, asked |-> FALSE]]
  /\ UNCHANGED <<up, memory, scan, world, edits, history>>

\* A write brings a new content, or an old one back; what no digest covers is not
\* followed.
Touch(f) ==
  /\ edits < MaxEdits
  /\ edits' = edits + 1
  /\ IF f \in Skipped
     THEN UNCHANGED world
     ELSE \E content \in {old \in Old : old <= edits} \cup {edits + 1} :
            world' = [world EXCEPT ![f] = [content |-> content, by |-> edits + 1]]

Write(c) ==
  /\ tool[c].at = "write"
  /\ \E f \in tool[c].files : Touch(f)
  /\ tool' = [tool EXCEPT ![c] = [at |-> "post", files |-> tool[c].files,
                                  asked |-> tool[c].asked]]
  /\ late' = IF tripped /\ tool[c].asked THEN [late EXCEPT ![c] = @ + 1] ELSE late
  /\ UNCHANGED <<up, memory, scan, accepted, approved, presented>>

\* post_tool asks again, and a refusal counts again; the write stands.
PostTool(c) ==
  /\ tool[c].at = "post" /\ MutexFree
  /\ EvaluateMutation(tool[c].files, Context)
  /\ tool' = [tool EXCEPT ![c] = NoTool]
  /\ UNCHANGED <<up, closure, spend, ticket, build, receipts, scan, world, edits, history>>

PostToolAlone(c) ==
  /\ tool[c].at = "post"
  /\ tool' = [tool EXCEPT ![c] = NoTool]
  /\ UNCHANGED <<up, memory, scan, world, edits, history>>

\* Anybody else: an editor, a shell command, a build.
Edit(f) ==
  /\ Touch(f)
  /\ UNCHANGED <<up, memory, scan, tool, history>>

-----------------------------------------------------------------------------
(* The requests that need the digest of the world *)

NewScan(c, op, claims, ok) ==
  [by |-> c, op |-> op, claims |-> claims, ok |-> ok,
   read |-> {}, seen |-> world, start |-> Writes]

NoScan == [by |-> Nobody, op |-> "claims", claims |-> {}, ok |-> FALSE,
           read |-> {}, seen |-> [f \in Covered |-> [content |-> 0, by |-> 0]],
           start |-> [f \in Covered |-> 0]]

BeginScan(c, op, claims, ok) ==
  /\ Idle(c) /\ MutexFree
  /\ scan' = NewScan(c, op, claims, ok)
  /\ UNCHANGED <<up, memory, tool, world, edits, history>>

AskReceipt(c, claim, ok) ==
  /\ Len(receipts) < MaxReceipts
  /\ BeginScan(c, "receipt", {claim}, ok)

\* VerifyClaim and RewriteContext
AskClaims(c, claims) == BeginScan(c, "claims", claims, TRUE)

\* RunGate G4: the claims of the requirements
AskCompletion(c, claims) == BeginScan(c, "completion", claims, TRUE)

\* collect_files reads one file; the order is that of read_dir.
ReadFile(f) ==
  /\ up /\ scan.by # Nobody
  /\ f \in Covered \ scan.read
  /\ scan' = [by |-> scan.by, op |-> scan.op, claims |-> scan.claims, ok |-> scan.ok,
              read |-> scan.read \cup {f},
              seen |-> [scan.seen EXCEPT ![f] = world[f]], start |-> scan.start]
  /\ UNCHANGED <<up, memory, tool, world, edits, history>>

\* The digest of this request: unwrap_or_default of what was read.
DigestOf(failed) ==
  IF failed THEN Empty ELSE [f \in Covered |-> scan.seen[f].content]

\* One file that cannot be read, or is gone when its turn comes, fails it all.
Ready(failed) ==
  /\ up /\ scan.by # Nobody
  /\ failed \/ scan.read = Covered

Matching(claim) == {i \in 1 .. Len(receipts) : <<claim, receipts[i].claim>> \in Alike}

\* latest_receipt_for_claim
IsLatest(claim, i) == i \in Matching(claim) /\ \A j \in Matching(claim) : j <= i

\* Mutant: any successful receipt will do.
WitnessesAnyWorld(claims, digest) ==
  {i \in 1 .. Len(receipts) :
     receipts[i].ok /\ \E claim \in claims : IsLatest(claim, i)}

\* The receipts by which some of the claims are Verified.
Witnesses(claims, digest) ==
  {i \in 1 .. Len(receipts) :
     /\ receipts[i].ok
     /\ receipts[i].digest = digest
     /\ \E claim \in claims : IsLatest(claim, i)}

\* The receipts that an answer names as proof; a tripped breaker keeps G4 from looking.
Proofs(failed) ==
  IF scan.op = "receipt" \/ (scan.op = "completion" /\ tripped)
  THEN {}
  ELSE Witnesses(scan.claims, DigestOf(failed))

RecordReceipt(failed) ==
  /\ scan.op = "receipt"
  /\ Ready(failed)
  /\ scan' = NoScan
  /\ IF scan.ok THEN RecordSuccess ELSE RecordFailure
  /\ \E claim \in scan.claims :
       receipts' = Append(receipts, [claim |-> claim, ok |-> scan.ok,
                                     digest |-> DigestOf(failed), left |-> Writes])
  /\ UNCHANGED <<up, closure, spend, ticket, build, tool, world, edits, history>>

\* The answer to the others is Proofs(failed), and changes nothing.
Answer(failed) ==
  /\ scan.op # "receipt"
  /\ Ready(failed)
  /\ scan' = NoScan
  /\ UNCHANGED <<up, memory, tool, world, edits, history>>

-----------------------------------------------------------------------------
(* The breaker's reset, and the end and the start of the daemon *)

ResetBreaker(c) ==
  /\ Idle(c) /\ MutexFree
  /\ failures' = 0
  /\ tripped' = FALSE
  /\ late' = [d \in Client |-> 0]
  /\ UNCHANGED <<up, closure, spend, ticket, build, receipts, scan, tool, world,
                 edits, accepted, approved, presented>>

\* SIGTERM, SIGINT or worse: whoever waits gets an error.  Nothing is kept on
\* disk; that the breaker was tripped is what `late` is counted by from here.
Stop ==
  /\ up
  /\ up' = FALSE
  /\ failures' = 0
  /\ closure' = {} /\ spend' = 0 /\ ticket' = FALSE /\ build' = FALSE
  /\ receipts' = <<>>
  /\ accepted' = 0
  /\ scan' = NoScan
  /\ UNCHANGED <<tripped, tool, world, edits, approved, presented, late>>

Start ==
  /\ ~ up
  /\ up' = TRUE
  /\ tripped' = FALSE /\ late' = [c \in Client |-> 0]
  /\ UNCHANGED <<failures, closure, spend, ticket, build, receipts, scan, tool, world,
                 edits, accepted, approved, presented>>

-----------------------------------------------------------------------------
Init ==
  /\ up = TRUE
  /\ failures = 0 /\ tripped = FALSE
  /\ closure = {} /\ spend = 0 /\ ticket = FALSE /\ build = FALSE
  /\ receipts = <<>>
  /\ scan = NoScan
  /\ tool = [c \in Client |-> NoTool]
  /\ world = [f \in Covered |-> [content |-> 0, by |-> 0]] /\ edits = 0
  /\ accepted = 0 /\ approved = {} /\ presented = FALSE
  /\ late = [c \in Client |-> 0]

Planning(c) ==
  \E files \in Named, cost \in Cost, clean, tokens \in BOOLEAN :
    \/ PlanGate(c, files, cost, clean, tokens)
    \/ EvaluateIntent(c, files, cost, clean, tokens)

Writing(c) ==
  \/ \E files \in Named, hasTicket \in BOOLEAN, context \in {"on", "off", "absent"} :
        GateMutation(c, files, hasTicket, context)
  \/ \E f \in Target : PreTool(c, f) \/ PreToolAlone(c, f)
  \/ Write(c) \/ PostTool(c) \/ PostToolAlone(c)

Asking(c) ==
  \/ \E claim \in Claim, ok \in BOOLEAN : AskReceipt(c, claim, ok)
  \/ \E claims \in SUBSET Claim \ {{}} : AskClaims(c, claims) \/ AskCompletion(c, claims)

Next ==
  \/ \E c \in Client : Planning(c) \/ Writing(c) \/ Asking(c) \/ ResetBreaker(c)
  \/ \E f \in File : ReadFile(f) \/ Edit(f)
  \/ \E failed \in BOOLEAN : RecordReceipt(failed) \/ Answer(failed)
  \/ Stop
  \/ Start

Spec == Init /\ [][Next]_vars

-----------------------------------------------------------------------------
(* Properties *)

\* The daemon's memory and the tools keep their types; the charged spend is never
\* more than the budget (check_channel_a).
TypeOK ==
  /\ up \in BOOLEAN
  /\ failures \in Nat /\ tripped \in BOOLEAN
  /\ closure \subseteq File /\ spend \in 0 .. Budget
  /\ ticket \in BOOLEAN /\ build \in BOOLEAN
  /\ receipts \in Seq(Receipt)
  /\ scan \in Scan
  /\ tool \in [Client -> Tool]
  /\ world \in World /\ edits \in Nat
  /\ accepted \in Nat /\ approved \subseteq File /\ presented \in BOOLEAN
  /\ late \in [Client -> Nat]

\* A claim is answered with Verified only if no file that the digest covers was
\* written from the signing of its receipt to the beginning of the request, or the
\* request found it written back to an older content, although the tree is read
\* file by file while others write (verify_claim, compute_world_digest).  Unless
\* the tree could be read neither for the receipt nor for the request: then the
\* claim is Verified whatever was written.
VerifiedUnchanged ==
  \A failed \in BOOLEAN : Ready(failed) => \A i \in Proofs(failed) :
    \/ receipts[i].digest = Empty /\ failed
    \/ \A f \in Covered :
         \/ receipts[i].left[f] = scan.start[f]
         \/ scan.seen[f].content # scan.seen[f].by

\* From the trip of the breaker to its reset, or to the start of another daemon, a
\* write tool writes once at most after an answer of the daemon, up or gone: what
\* pre_tool had allowed before (evaluate_g2_mutation and the three processes).
\* What pre_tool allows without an answer is not bounded, and a daemon that starts
\* knows of no trip.
OneLateWrite == \A c \in Client : late[c] <= 1

\* A file written after an answer of the daemon was in the initial closure, exempt
\* or tracked, or else in a plan that G1 accepted; and a new script only after a
\* ticket or a build context, whatever restarts lie between (Channel B, Rule 5).
WritesApproved ==
  \A c \in Client : tool[c].at # "idle" /\ tool[c].asked =>
    /\ tool[c].files \subseteq Free \cup approved
    /\ tool[c].files \cap NewScript # {} => presented

\* The plans one daemon accepts cost no more than the budget together
\* (check_channel_a), whichever of G1 and EvaluateIntent they came by.  It holds for
\* costs that do not wrap around.
AcceptedWithinBudget == accepted <= Budget

=============================================================================
