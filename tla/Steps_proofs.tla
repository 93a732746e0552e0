---------------------------- MODULE Steps_proofs ----------------------------
(***************************************************************************)
(* Proofs about the steps of a deploy, for every set of risk tiers, every  *)
(* policy over them, every width of the connection counts, and every set   *)
(* of release versions.                                                    *)
(***************************************************************************)
EXTENDS Preflight, Releases, Ipc, TLAPS

USE TiersAssumption, MaxU32Assumption

-----------------------------------------------------------------------------
(* The policy gate.                                                        *)

Actions == {"AutoApply", "RequireApproval", "Deny"}

(* worst() is at least as severe as each of the actions.                   *)
LEMMA WorstIsWorst ==
  ASSUME NEW actions \in SUBSET Actions
  PROVE  /\ Worst(actions) \in Actions
         /\ Worst(actions) = "AutoApply" => actions \subseteq {"AutoApply"}
         /\ Worst(actions) = "RequireApproval" => "Deny" \notin actions
<1> DEFINE Top(a) == a \in actions /\ \A b \in actions : Severity(b) <= Severity(a)
<1>0. Severity("AutoApply") = 0 /\ Severity("RequireApproval") = 1 /\ Severity("Deny") = 2
  BY Zenon DEF Severity
<1>1. CASE actions = {}
  BY <1>1, Zenon DEF Worst, Actions
<1>2. CASE actions # {}
  <2>1. \E a \in actions : Top(a)
    <3>1. CASE "Deny" \in actions
      BY <3>1, <1>0 DEF Actions
    <3>2. CASE "Deny" \notin actions /\ "RequireApproval" \in actions
      BY <3>2, <1>0 DEF Actions
    <3>3. CASE actions = {"AutoApply"}
      BY <3>3, <1>0
    <3> QED
      BY <3>1, <3>2, <3>3, <1>2, Zenon DEF Actions
  <2>2. Worst(actions) = CHOOSE a \in actions : \A b \in actions : Severity(b) <= Severity(a)
    BY <1>2, Zenon DEF Worst
  <2>3. Top(Worst(actions))
    BY <2>1, <2>2, Zenon
  <2>4. Worst(actions) \in Actions
    BY <2>3, Zenon
  <2>5. ASSUME NEW b \in actions PROVE b \in Actions /\ Severity(b) <= Severity(Worst(actions))
    BY <2>3, Zenon
  <2>6. ASSUME Worst(actions) = "AutoApply", NEW b \in actions PROVE b = "AutoApply"
    BY <2>5, <2>6, <1>0 DEF Actions
  <2>7. ASSUME Worst(actions) = "RequireApproval" PROVE "Deny" \notin actions
    BY <2>5, <2>7, <1>0
  <2> QED
    BY <2>4, <2>6, <2>7, Zenon
<1> QED
  BY <1>1, <1>2, Zenon

(* assemble() allows only what is all automatic, and asks only where       *)
(* nothing is denied.                                                      *)
LEMMA AssembleDecides ==
  ASSUME NEW actions \in SUBSET Actions, NEW pol
  PROVE  /\ Assemble(pol, actions) = "Allow" => actions \subseteq {"AutoApply"}
         /\ Assemble(pol, actions) = "NeedsApproval" => "Deny" \notin actions
<1>1. CASE Worst(actions) = "AutoApply"
  BY <1>1, WorstIsWorst, Zenon DEF Assemble
<1>2. CASE Worst(actions) = "RequireApproval"
  BY <1>2, WorstIsWorst, Zenon DEF Assemble
<1>3. CASE Worst(actions) = "Deny"
  BY <1>3, WorstIsWorst, Zenon DEF Assemble
<1> QED
  BY <1>1, <1>2, <1>3, WorstIsWorst, Zenon DEF Actions

(* unclassified_change_set() never allows.                                 *)
LEMMA UnclassifiedAsks ==
  ASSUME NEW pol \in Policies
  PROVE  /\ UnclassifiedSet(pol) # "Allow"
         /\ UnclassifiedSet(pol) = "NeedsApproval" => pol.unclassified = "RequireApproval"
<1>1. CASE pol.unclassified = "Deny"
  BY <1>1, Zenon DEF UnclassifiedSet
<1>2. CASE pol.unclassified # "Deny"
  <2>1. pol.unclassified = "RequireApproval"
    BY <1>2, Zenon DEF Policies
  <2>2. UnclassifiedSet(pol) = Assemble(pol, {"RequireApproval"})
    BY <1>2, Zenon DEF UnclassifiedSet
  <2>3. {"RequireApproval"} \in SUBSET Actions
    BY Zenon DEF Actions
  <2> QED
    BY <2>1, <2>2, <2>3, AssembleDecides, Zenon
<1> QED
  BY <1>1, <1>2, Zenon

(* What an action that is not a denial says of the policy.                 *)
LEMMA ActionForMapped ==
  ASSUME NEW pol \in Policies, NEW c \in Changes
  PROVE  /\ ActionFor(pol, c) \in Actions
         /\ ActionFor(pol, c) # "Deny" =>
               ActionFor(pol, c) = IF c \in Tiers THEN pol.actions[c] ELSE pol.unclassified
         /\ ActionFor(pol, c) = "AutoApply" => c \in Tiers
BY Zenon DEF Policies, Changes, ActionFor, Actions

(* evaluate() over a configured policy: Allow only with every change       *)
(* classified and automatic; approval is asked only where nothing is       *)
(* denied.                                                                 *)
LEMMA EvaluateVouches ==
  ASSUME NEW pol \in Policies, NEW b, NEW c \in Capabilities, NEW r \in Reports \cup {NoReport}
  PROVE  LET d == Evaluate(pol, b, c, r)
             classified == c.risk_tier /\ r.present /\ r.set = "usable"
             mapped(x) == IF x \in Tiers THEN pol.actions[x] ELSE pol.unclassified
         IN  /\ d \in {"Allow", "NeedsApproval"} => r.present
             /\ d = "Allow" => classified /\ \A x \in r.changes : x \in Tiers /\ mapped(x) = "AutoApply"
             /\ d = "NeedsApproval" =>
                   /\ r.set # "future" \/ ~c.risk_tier
                   /\ classified => \A x \in r.changes : mapped(x) \in {"AutoApply", "RequireApproval"}
                   /\ ~classified => pol.unclassified = "RequireApproval"
<1> DEFINE d == Evaluate(pol, b, c, r)
           asked == {ActionFor(pol, x) : x \in r.changes}
<1>1. pol.configured /\ r.changes \subseteq Changes /\ r.set \in ChangeSets
  <2>1. CASE r = NoReport
    BY <2>1, Zenon DEF Policies, NoReport, ChangeSets
  <2>2. CASE r \in Reports
    BY <2>2, Zenon DEF Policies, Reports
  <2> QED
    BY <2>1, <2>2, Zenon
<1>2. CASE BaselineRefuses(b, c, r) \/ ~r.present
  BY <1>1, <1>2, Zenon DEF Evaluate
<1>3. CASE ~BaselineRefuses(b, c, r) /\ r.present /\ (~c.risk_tier \/ r.set = "missing")
  BY <1>1, <1>3, UnclassifiedAsks, Zenon DEF Evaluate
<1>4. CASE ~BaselineRefuses(b, c, r) /\ r.present /\ c.risk_tier /\ r.set = "future"
  BY <1>1, <1>4, Zenon DEF Evaluate
<1>5. CASE ~BaselineRefuses(b, c, r) /\ r.present /\ c.risk_tier /\ r.set = "usable"
  <2>1. d = Assemble(pol, asked)
    BY <1>1, <1>5, Zenon DEF Evaluate
  <2>2. asked \in SUBSET Actions
    BY <1>1, ActionForMapped, ZenonT(30)
  <2>3. d = "Allow" => \A x \in r.changes : ActionFor(pol, x) = "AutoApply"
    BY <2>1, <2>2, AssembleDecides, Zenon
  <2>4. d = "NeedsApproval" => \A x \in r.changes : ActionFor(pol, x) \in Actions \ {"Deny"}
    BY <2>1, <2>2, AssembleDecides, Zenon
  <2>5. \A x \in r.changes :
           /\ ActionFor(pol, x) # "Deny" =>
                 ActionFor(pol, x) = IF x \in Tiers THEN pol.actions[x] ELSE pol.unclassified
           /\ ActionFor(pol, x) = "AutoApply" => x \in Tiers
    BY <1>1, ActionForMapped, Zenon
  <2> QED
    BY <1>5, <2>3, <2>4, <2>5, Zenon DEF Actions
<1> QED
  BY <1>1, <1>2, <1>3, <1>4, <1>5, Zenon DEF ChangeSets

-----------------------------------------------------------------------------
(* Preflight.                                                              *)

Ending == {"teardown", "done"}
AfterInspection == {"gate", "lint", "hosts", "budget", "rehearse"}

(* Where the throwaway is, and which database the report is about, at each *)
(* check: a deep preflight has it from the start, a rehearsal of its own   *)
(* makes it, and it is gone or accounted for in the end.                   *)
CopyInv ==
    /\ deep => DeepRehearsal
    /\ stage \in {"readiness", "describe"} => ~deep /\ copy = "none"
    /\ stage = "describe" => DeepRehearsal
    /\ stage = "provision" => deep /\ copy = "none"
    /\ stage \in {"inspect", "gate", "lint", "hosts", "budget"} =>
          copy = IF deep THEN "up" ELSE "none"
    /\ stage = "rehearse" => copy \in {"none", "up"} /\ (deep => copy = "up")
    /\ stage \in {"readiness", "describe", "provision", "inspect"} => seen = "none"
    /\ stage \in AfterInspection =>
          seen = IF flow.mode = "Off" THEN "none" ELSE IF deep THEN "throwaway" ELSE "live"
    /\ stage = "teardown" => copy = "up" /\ (deep \/ seen = "live")
    /\ rehearsed => stage \in Ending /\ (seen = "throwaway") = deep
    /\ ThrowawayAccountedFor

(* What has been decided by the time each check is reached, and by the     *)
(* time the verdict is a pass.                                             *)
CourseInv ==
    /\ verdict = "none" <=> stage \notin Ending
    /\ stage # "readiness" /\ verdict # "refused" => probe \in {"undeclared", "ready"}
    /\ stage \in {"lint", "hosts", "rehearse"} => flow.strategy # "blue-green"
    /\ stage = "budget" => flow.strategy = "blue-green"
    /\ stage \in {"hosts", "rehearse"} => ~report.blocking
    /\ stage = "rehearse" => Rehearses
    /\ stage = "hosts" => ~Rehearses
    /\ verdict = "passed" => /\ Rehearses => rehearsed
                             /\ report.blocking => flow.strategy = "blue-green"

(* What the gate requires of the report it let through.                    *)
Vouched ==
    /\ policy.configured /\ ~flow.rollback =>
          /\ report.present
          /\ \/ Classified /\ \A c \in report.changes : c \in Tiers /\ Mapped(c) = "AutoApply"
             \/ /\ approval = "yes"
                /\ report.set # "future" \/ ~caps.risk_tier
                /\ Classified => \A c \in report.changes : Mapped(c) \in {"AutoApply", "RequireApproval"}
                /\ ~Classified => policy.unclassified = "RequireApproval"
    /\ flow.strategy = "blue-green" =>
          caps.preflight /\ caps.window_safe /\ report.window_safe = "true"

GateInv == stage \in {"lint", "hosts", "budget", "rehearse"} \/ verdict = "passed" => Vouched

BudgetInv == (budget.verdict # "none" => stage \in Ending) /\ BudgetExact

PFInv == PFTypeOK /\ CopyInv /\ CourseInv /\ GateInv /\ BudgetInv

(* Preflight starts with nothing decided. *)
LEMMA PFInitInv == PFInit => PFInv
<1> SUFFICES ASSUME PFInit PROVE PFInv
  BY Zenon
<1> USE DEF PFInit
<1>1. PFTypeOK
  <2>1. NoCaps \in Capabilities
    BY Zenon DEF NoCaps, Capabilities
  <2>2. budget \in [max : Counts, current : Counts, pool : Counts, margin : Counts,
                    verdict : {"none", "Ok", "Warn", "Refuse"}]
    BY DEF NoBudget, Counts
  <2> QED
    BY <2>1, <2>2, Zenon DEF PFTypeOK
<1>2. CopyInv
  BY Zenon DEF CopyInv, Ending, AfterInspection, ThrowawayAccountedFor
<1>3. CourseInv
  BY Zenon DEF CourseInv, Ending
<1>4. GateInv /\ BudgetInv
  BY Zenon DEF GateInv, BudgetInv, BudgetExact, NoBudget
<1> QED
  BY <1>1, <1>2, <1>3, <1>4, Zenon DEF PFInv

(* What the gate required is about facts no later check changes.           *)
LEMMA VouchedStays ==
  ASSUME UNCHANGED <<flow, policy, caps, report, approval>>
  PROVE  Vouched' <=> Vouched
BY Zenon DEF Vouched, Classified, Mapped

(* No check but the last looks at the connections.                         *)
LEMMA BudgetStays ==
  ASSUME BudgetInv, UNCHANGED budget, stage \notin Ending
  PROVE  BudgetInv'
BY Zenon DEF BudgetInv, BudgetExact

(* connection_budget::evaluate() is exact below the largest count.         *)
LEMMA BudgetJudges ==
  ASSUME NEW max \in Counts, NEW current \in Counts, NEW pool \in Counts, NEW margin \in Counts,
         max < MaxU32
  PROVE  LET sum == current + pool
             judged == Budget(max, current, pool, margin)
         IN  /\ (judged = "Refuse") = (sum > max)
             /\ (judged = "Ok") = (sum + margin <= max \/ sum = 0)
BY DEF Budget, SatAdd, SatSub, Counts

(* Readiness keeps the invariant. *)
LEMMA ReadinessKept ==
  ASSUME PFInv, Readiness
  PROVE  PFInv'
<1> PFTypeOK /\ CopyInv /\ CourseInv /\ GateInv /\ BudgetInv
  BY Zenon DEF PFInv
<1> deep \in BOOLEAN /\ rehearsed \in BOOLEAN /\ warned \in BOOLEAN
  BY Zenon DEF PFTypeOK
<1> USE DEF Readiness, setup, facts, Continue, Refuse
<1>1. PFTypeOK'
  BY DEF PFTypeOK
<1>2. CopyInv'
  BY Zenon DEF CopyInv, Ending, AfterInspection, ThrowawayAccountedFor, DeepRehearsal
<1>3. CourseInv'
  BY Zenon DEF CourseInv, Ending, Rehearses
<1>4. GateInv'
  BY VouchedStays, Zenon DEF GateInv
<1>5. BudgetInv'
  BY BudgetStays, Zenon DEF Ending
<1> QED
  BY <1>1, <1>2, <1>3, <1>4, <1>5, Zenon DEF PFInv

(* Describe keeps the invariant. *)
LEMMA DescribeKept ==
  ASSUME PFInv, Describe
  PROVE  PFInv'
<1> PFTypeOK /\ CopyInv /\ CourseInv /\ GateInv /\ BudgetInv
  BY Zenon DEF PFInv
<1> deep \in BOOLEAN /\ rehearsed \in BOOLEAN /\ warned \in BOOLEAN
  BY Zenon DEF PFTypeOK
<1> USE DEF Describe, setup, facts, Continue, Refuse
<1>1. PFTypeOK'
  BY DEF PFTypeOK
<1>2. CopyInv'
  <2> USE DEF CopyInv, Ending, AfterInspection, ThrowawayAccountedFor, DeepRehearsal
  <2>1. /\ copy = "none" /\ DeepRehearsal /\ ~deep
        /\ UNCHANGED <<flow, copy, seen, rehearsed, warned>>
    BY Zenon
  <2>2. CASE deep' = TRUE /\ stage' = "provision"
    BY <2>1, <2>2
  <2>3. CASE deep' = FALSE /\ stage' \in {"inspect", "done"}
    BY <2>1, <2>3
  <2> QED
    BY <2>1, <2>2, <2>3, Zenon
<1>3. CourseInv'
  BY Zenon DEF CourseInv, Ending, Rehearses
<1>4. GateInv'
  <2>1. stage' \in {"provision", "inspect", "done"} /\ verdict' # "passed"
    BY Zenon DEF CopyInv, CourseInv, Ending
  <2> QED
    BY <2>1, Zenon DEF GateInv
<1>5. BudgetInv'
  BY BudgetStays, Zenon DEF Ending
<1> QED
  BY <1>1, <1>2, <1>3, <1>4, <1>5, Zenon DEF PFInv

(* Provision keeps the invariant. *)
LEMMA ProvisionKept ==
  ASSUME PFInv, Provision
  PROVE  PFInv'
<1> PFTypeOK /\ CopyInv /\ CourseInv /\ GateInv /\ BudgetInv
  BY Zenon DEF PFInv
<1> deep \in BOOLEAN /\ rehearsed \in BOOLEAN /\ warned \in BOOLEAN
  BY Zenon DEF PFTypeOK
<1> USE DEF Provision, setup, facts, Fill, Continue, Refuse
<1>1. PFTypeOK'
  BY DEF PFTypeOK
<1>2. CopyInv'
  BY Zenon DEF CopyInv, Ending, AfterInspection, ThrowawayAccountedFor, DeepRehearsal
<1>3. CourseInv'
  BY Zenon DEF CourseInv, Ending, Rehearses
<1>4. GateInv'
  BY VouchedStays, Zenon DEF GateInv
<1>5. BudgetInv'
  BY BudgetStays, Zenon DEF Ending
<1> QED
  BY <1>1, <1>2, <1>3, <1>4, <1>5, Zenon DEF PFInv

(* Inspect keeps the invariant. *)
LEMMA InspectKept ==
  ASSUME PFInv, Inspect
  PROVE  PFInv'
<1> PFTypeOK /\ CopyInv /\ CourseInv /\ GateInv /\ BudgetInv
  BY Zenon DEF PFInv
<1> deep \in BOOLEAN /\ rehearsed \in BOOLEAN /\ warned \in BOOLEAN
  BY Zenon DEF PFTypeOK
<1> USE DEF Inspect, setup, facts, Continue, Refuse
<1>1. PFTypeOK'
  BY DEF PFTypeOK
<1>2. CopyInv'
  <2> USE DEF CopyInv, Ending, AfterInspection, ThrowawayAccountedFor, DeepRehearsal
  <2>1. copy = (IF deep THEN "up" ELSE "none") /\ UNCHANGED <<flow, deep, copy, rehearsed, warned>>
    BY Zenon
  <2>2. ~rehearsed /\ seen = "none"
    BY Zenon
  <2>3. CASE stage' = "gate" /\ seen' = IF flow.mode = "Off" THEN "none" ELSE IF deep THEN "throwaway" ELSE "live"
    BY <2>1, <2>2, <2>3
  <2>4. CASE stage' = (IF copy = "up" THEN "teardown" ELSE "done")
    BY <2>1, <2>2, <2>4
  <2> QED
    BY <2>1, <2>3, <2>4, Zenon
<1>3. CourseInv'
  BY Zenon DEF CourseInv, Ending, Rehearses
<1>4. GateInv'
  <2>1. stage' \in {"gate", "teardown", "done"} /\ verdict' # "passed"
    BY Zenon DEF CopyInv, CourseInv, Ending
  <2> QED
    BY <2>1, Zenon DEF GateInv
<1>5. BudgetInv'
  BY BudgetStays, Zenon DEF Ending
<1> QED
  BY <1>1, <1>2, <1>3, <1>4, <1>5, Zenon DEF PFInv

(* Gate keeps the invariant. *)
LEMMA GateKept ==
  ASSUME PFInv, Gate
  PROVE  PFInv'
<1> PFTypeOK /\ CopyInv /\ CourseInv /\ GateInv /\ BudgetInv
  BY Zenon DEF PFInv
<1> deep \in BOOLEAN /\ rehearsed \in BOOLEAN /\ warned \in BOOLEAN
  BY Zenon DEF PFTypeOK
<1> USE DEF Gate, setup, facts, Continue, Refuse, AfterGate
<1>1. PFTypeOK'
  BY DEF PFTypeOK
<1>2. CopyInv'
  BY Zenon DEF CopyInv, Ending, AfterInspection, ThrowawayAccountedFor, DeepRehearsal
<1>3. CourseInv'
  BY Zenon DEF CourseInv, Ending, Rehearses
<1>4. GateInv'
  <2>1. UNCHANGED <<flow, policy, caps, report>>
    BY Zenon
  <2>2. flow \in Flows /\ caps \in Capabilities /\ report \in Reports \cup {NoReport}
    BY Zenon DEF PFTypeOK
  <2>3. flow.rollback => flow.strategy # "blue-green"
    BY <2>2, Zenon DEF Flows
  <2>4. \/ verdict' = "refused" /\ stage' \in Ending
        \/ flow.rollback \/ Decision = "Allow"
        \/ Decision = "NeedsApproval" /\ approval' = "yes"
    BY Zenon DEF Ending, Request
  <2>5. CASE verdict' = "refused" /\ stage' \in Ending
    BY <2>5, Zenon DEF GateInv, Ending
  <2>6. CASE flow.rollback
    BY <2>1, <2>3, <2>6, Zenon DEF GateInv, Vouched
  <2>7. ASSUME ~flow.rollback, Decision \in {"Allow", "NeedsApproval"},
               Decision = "NeedsApproval" => approval' = "yes"
        PROVE  Vouched'
    <3>1. flow.strategy = "blue-green" =>
             caps.preflight /\ caps.window_safe /\ report.window_safe = "true"
      BY <2>7, Zenon DEF Decision, Baseline, Evaluate, BaselineRefuses
    <3>2. CASE ~policy.configured
      BY <2>1, <3>1, <3>2, Zenon DEF Vouched
    <3>3. CASE policy.configured
      <4>1. policy \in Policies
        BY <3>3 DEF PFTypeOK, NoPolicy
      <4>2. /\ report.present
            /\ Decision = "Allow" => Classified /\ \A c \in report.changes : c \in Tiers /\ Mapped(c) = "AutoApply"
            /\ Decision = "NeedsApproval" =>
                  /\ report.set # "future" \/ ~caps.risk_tier
                  /\ Classified => \A c \in report.changes : Mapped(c) \in {"AutoApply", "RequireApproval"}
                  /\ ~Classified => policy.unclassified = "RequireApproval"
        <5> HIDE DEF Gate, setup, facts, Refuse, Continue
        <5> DEFINE d == Evaluate(policy, Baseline, caps, report)
                   classified == caps.risk_tier /\ report.present /\ report.set = "usable"
                   mapped(x) == IF x \in Tiers THEN policy.actions[x] ELSE policy.unclassified
        <5>1. /\ d \in {"Allow", "NeedsApproval"} => report.present
              /\ d = "Allow" => classified /\ \A x \in report.changes : x \in Tiers /\ mapped(x) = "AutoApply"
              /\ d = "NeedsApproval" =>
                    /\ report.set # "future" \/ ~caps.risk_tier
                    /\ classified => \A x \in report.changes : mapped(x) \in {"AutoApply", "RequireApproval"}
                    /\ ~classified => policy.unclassified = "RequireApproval"
          BY <2>2, <4>1, EvaluateVouches, SMTT(30)
        <5>2. d = Decision /\ classified = Classified /\ \A x : mapped(x) = Mapped(x)
          BY Zenon DEF Decision, Classified, Mapped
        <5> HIDE DEF d, classified, mapped
        <5> QED
          BY <2>7, <5>1, <5>2, Zenon
      <4>3. Classified' = Classified /\ \A c : Mapped(c)' = Mapped(c)
        BY <2>1, Zenon DEF Classified, Mapped
      <4> QED
        BY <2>1, <2>7, <3>1, <4>2, <4>3, Zenon DEF Vouched
    <3> QED
      BY <3>2, <3>3, Zenon
  <2> QED
    BY <2>4, <2>5, <2>6, <2>7, Zenon DEF GateInv
<1>5. BudgetInv'
  BY BudgetStays, Zenon DEF Ending
<1> QED
  BY <1>1, <1>2, <1>3, <1>4, <1>5, Zenon DEF PFInv

(* Lint keeps the invariant. *)
LEMMA LintKept ==
  ASSUME PFInv, Lint
  PROVE  PFInv'
<1> PFTypeOK /\ CopyInv /\ CourseInv /\ GateInv /\ BudgetInv
  BY Zenon DEF PFInv
<1> deep \in BOOLEAN /\ rehearsed \in BOOLEAN /\ warned \in BOOLEAN
  BY Zenon DEF PFTypeOK
<1> USE DEF Lint, setup, facts, Continue, Refuse, Pass
<1>1. PFTypeOK'
  BY DEF PFTypeOK
<1>2. CopyInv'
  BY Zenon DEF CopyInv, Ending, AfterInspection, ThrowawayAccountedFor, DeepRehearsal
<1>3. CourseInv'
  BY Zenon DEF CourseInv, Ending, Rehearses
<1>4. GateInv'
  BY VouchedStays, Zenon DEF GateInv
<1>5. BudgetInv'
  BY BudgetStays, Zenon DEF Ending
<1> QED
  BY <1>1, <1>2, <1>3, <1>4, <1>5, Zenon DEF PFInv

(* ProbeHosts keeps the invariant. *)
LEMMA ProbeHostsKept ==
  ASSUME PFInv, ProbeHosts
  PROVE  PFInv'
<1> PFTypeOK /\ CopyInv /\ CourseInv /\ GateInv /\ BudgetInv
  BY Zenon DEF PFInv
<1> deep \in BOOLEAN /\ rehearsed \in BOOLEAN /\ warned \in BOOLEAN
  BY Zenon DEF PFTypeOK
<1> USE DEF ProbeHosts, setup, facts, Refuse, Pass
<1>1. PFTypeOK'
  BY DEF PFTypeOK
<1>2. CopyInv'
  BY Zenon DEF CopyInv, Ending, AfterInspection, ThrowawayAccountedFor, DeepRehearsal
<1>3. CourseInv'
  BY Zenon DEF CourseInv, Ending, Rehearses
<1>4. GateInv'
  BY VouchedStays, Zenon DEF GateInv
<1>5. BudgetInv'
  BY BudgetStays, Zenon DEF Ending
<1> QED
  BY <1>1, <1>2, <1>3, <1>4, <1>5, Zenon DEF PFInv

(* CheckBudget keeps the invariant. *)
LEMMA CheckBudgetKept ==
  ASSUME PFInv, CheckBudget
  PROVE  PFInv'
<1> PFTypeOK /\ CopyInv /\ CourseInv /\ GateInv /\ BudgetInv
  BY Zenon DEF PFInv
<1> deep \in BOOLEAN /\ rehearsed \in BOOLEAN /\ warned \in BOOLEAN
  BY Zenon DEF PFTypeOK
<1> USE DEF CheckBudget, setup, facts, Refuse, Pass
<1>0. PICK b \in [max : Counts, current : Counts, pool : Counts, margin : Counts,
                  verdict : {"none", "Ok", "Warn", "Refuse"}] :
         /\ budget' = b
         /\ verdict' \in {"passed", "refused"} /\ stage' = IF copy = "up" THEN "teardown" ELSE "done"
         /\ \/ b = budget
            \/ /\ b.verdict = Budget(b.max, b.current, b.pool, b.margin)
               /\ verdict' = IF b.verdict = "Refuse" THEN "refused" ELSE "passed"
  <2>1. CASE UNCHANGED budget
    BY <2>1, Zenon DEF PFTypeOK
  <2>2. ASSUME NEW max \in Counts, NEW current \in Counts, NEW pool \in Counts, NEW margin \in Counts,
               budget' = [max |-> max, current |-> current, pool |-> pool, margin |-> margin,
                          verdict |-> Budget(max, current, pool, margin)],
               IF Budget(max, current, pool, margin) = "Refuse" THEN Refuse ELSE Pass
        PROVE  \E b \in [max : Counts, current : Counts, pool : Counts, margin : Counts,
                  verdict : {"none", "Ok", "Warn", "Refuse"}] :
         /\ budget' = b
         /\ verdict' \in {"passed", "refused"} /\ stage' = IF copy = "up" THEN "teardown" ELSE "done"
         /\ \/ b = budget
            \/ /\ b.verdict = Budget(b.max, b.current, b.pool, b.margin)
               /\ verdict' = IF b.verdict = "Refuse" THEN "refused" ELSE "passed"
    <3>1. Budget(max, current, pool, margin) \in {"none", "Ok", "Warn", "Refuse"}
      BY Zenon DEF Budget
    <3>2. budget' \in [max : Counts, current : Counts, pool : Counts, margin : Counts,
                       verdict : {"none", "Ok", "Warn", "Refuse"}]
      BY <2>2, <3>1, Zenon
    <3> WITNESS budget' \in [max : Counts, current : Counts, pool : Counts, margin : Counts,
                             verdict : {"none", "Ok", "Warn", "Refuse"}]
    <3> QED
      BY <2>2, <3>1, ZenonT(30)
  <2> QED
    BY <2>1, <2>2, Zenon
<1>1. PFTypeOK'
  BY <1>0 DEF PFTypeOK
<1>2. CopyInv'
  BY ZenonT(30) DEF CopyInv, Ending, AfterInspection, ThrowawayAccountedFor, DeepRehearsal
<1>3. CourseInv'
  BY <1>0, Zenon DEF CourseInv, Ending, Rehearses, PFTypeOK, Flows
<1>4. GateInv'
  BY VouchedStays, Zenon DEF GateInv
<1>5. BudgetInv'
  <2>1. stage' \in Ending
    BY <1>0, Zenon DEF Ending
  <2>2. CASE b = budget
    BY <1>0, <2>1, <2>2, Zenon DEF BudgetInv, BudgetExact, Ending
  <2>3. CASE b # budget
    <3>1. /\ b.verdict = Budget(b.max, b.current, b.pool, b.margin)
          /\ verdict' = IF b.verdict = "Refuse" THEN "refused" ELSE "passed"
          /\ b.max \in Counts /\ b.current \in Counts /\ b.pool \in Counts /\ b.margin \in Counts
      BY <1>0, <2>3, Zenon
    <3> QED
      BY <1>0, <2>1, <3>1, BudgetJudges DEF BudgetInv, BudgetExact
  <2> QED
    BY <2>2, <2>3, Zenon
<1> QED
  BY <1>1, <1>2, <1>3, <1>4, <1>5, Zenon DEF PFInv

(* ProvisionToRehearse keeps the invariant. *)
LEMMA ProvisionToRehearseKept ==
  ASSUME PFInv, ProvisionToRehearse
  PROVE  PFInv'
<1> PFTypeOK /\ CopyInv /\ CourseInv /\ GateInv /\ BudgetInv
  BY Zenon DEF PFInv
<1> deep \in BOOLEAN /\ rehearsed \in BOOLEAN /\ warned \in BOOLEAN
  BY Zenon DEF PFTypeOK
<1> USE DEF ProvisionToRehearse, setup, facts, Fill, Continue, Refuse
<1>1. PFTypeOK'
  BY DEF PFTypeOK
<1>2. CopyInv'
  BY Zenon DEF CopyInv, Ending, AfterInspection, ThrowawayAccountedFor, DeepRehearsal
<1>3. CourseInv'
  BY Zenon DEF CourseInv, Ending, Rehearses
<1>4. GateInv'
  BY VouchedStays, Zenon DEF GateInv
<1>5. BudgetInv'
  BY BudgetStays, Zenon DEF Ending
<1> QED
  BY <1>1, <1>2, <1>3, <1>4, <1>5, Zenon DEF PFInv

(* Rehearse keeps the invariant. *)
LEMMA RehearseKept ==
  ASSUME PFInv, Rehearse
  PROVE  PFInv'
<1> PFTypeOK /\ CopyInv /\ CourseInv /\ GateInv /\ BudgetInv
  BY Zenon DEF PFInv
<1> deep \in BOOLEAN /\ rehearsed \in BOOLEAN /\ warned \in BOOLEAN
  BY Zenon DEF PFTypeOK
<1> USE DEF Rehearse, setup, facts, Refuse, Pass
<1>0. rehearsed' \in BOOLEAN
  BY Zenon
<1>1. PFTypeOK'
  <2>1. {deep', rehearsed', warned'} \subseteq BOOLEAN
    BY <1>0, Zenon
  <2>2. /\ stage' \in {"teardown", "done"} /\ copy' \in {"none", "up", "dropped", "leaked", "abandoned"}
        /\ verdict' \in {"none", "passed", "refused"}
    BY Zenon DEF PFTypeOK
  <2> QED
    BY <2>1, <2>2, ZenonT(30) DEF PFTypeOK
<1>2. CopyInv'
  <2>1. seen = IF deep THEN "throwaway" ELSE "live"
    BY Zenon DEF CopyInv, CourseInv, AfterInspection, Rehearses
  <2>2. (deep => DeepRehearsal) /\ UNCHANGED <<flow, copy, deep, seen>>
    BY Zenon DEF CopyInv
  <2>3. (deep \/ seen = "live") /\ (seen = "throwaway") = deep
    BY <2>1, Zenon
  <2>4. stage' = "teardown" /\ copy' = "up"
    BY <2>2, Zenon
  <2> QED
    BY <2>2, <2>3, <2>4, Zenon
    DEF CopyInv, Ending, AfterInspection, ThrowawayAccountedFor, DeepRehearsal
<1>3. CourseInv'
  BY Zenon DEF CourseInv, Ending, Rehearses
<1>4. GateInv'
  BY VouchedStays, Zenon DEF GateInv
<1>5. BudgetInv'
  BY BudgetStays, Zenon DEF Ending
<1> QED
  BY <1>1, <1>2, <1>3, <1>4, <1>5, Zenon DEF PFInv

(* Teardown keeps the invariant. *)
LEMMA TeardownKept ==
  ASSUME PFInv, Teardown
  PROVE  PFInv'
<1> PFTypeOK /\ CopyInv /\ CourseInv /\ GateInv /\ BudgetInv
  BY Zenon DEF PFInv
<1> deep \in BOOLEAN /\ rehearsed \in BOOLEAN /\ warned \in BOOLEAN
  BY Zenon DEF PFTypeOK
<1> USE DEF Teardown, setup, facts
<1>0. warned' \in BOOLEAN
  BY Zenon
<1>1. PFTypeOK'
  <2>1. {deep', rehearsed', warned'} \subseteq BOOLEAN
    BY <1>0, Zenon
  <2>2. /\ stage' \in {"teardown", "done"} /\ copy' \in {"none", "up", "dropped", "leaked", "abandoned"}
        /\ verdict' \in {"none", "passed", "refused"}
    BY Zenon DEF PFTypeOK
  <2> QED
    BY <2>1, <2>2, ZenonT(30) DEF PFTypeOK
<1>2. CopyInv'
  <2>1. /\ (deep => DeepRehearsal) /\ (deep \/ seen = "live")
        /\ rehearsed => (seen = "throwaway") = deep
    BY Zenon DEF CopyInv
  <2>2. stage' = "done" /\ UNCHANGED <<flow, deep, seen, rehearsed, verdict>>
    BY Zenon
  <2>3. verdict \in {"passed", "refused"}
    BY Zenon DEF CourseInv, Ending, PFTypeOK
  <2>4. ThrowawayAccountedFor'
    <3>1. CASE copy' = "dropped"
      BY <3>1, Zenon DEF ThrowawayAccountedFor
    <3>2. CASE copy' = "leaked" /\ warned' = (deep \/ verdict = "passed")
      BY <2>1, <2>2, <2>3, <3>2, Zenon DEF ThrowawayAccountedFor
    <3> QED
      BY <3>1, <3>2, Zenon
  <2>5. (deep' => DeepRehearsal') /\ (rehearsed' => (seen' = "throwaway") = deep')
    BY <2>1, <2>2 DEF DeepRehearsal
  <2> HIDE DEF Teardown, setup, facts
  <2> QED
    BY <2>2, <2>4, <2>5, Zenon DEF CopyInv, Ending, AfterInspection
<1>3. CourseInv'
  BY Zenon DEF CourseInv, Ending, Rehearses
<1>4. GateInv'
  BY VouchedStays, Zenon DEF GateInv
<1>5. BudgetInv'
  BY Zenon DEF BudgetInv, BudgetExact, Ending
<1> QED
  BY <1>1, <1>2, <1>3, <1>4, <1>5, Zenon DEF PFInv

(* Every step of preflight keeps the invariant. *)
LEMMA PFNextInv == PFInv /\ [PFNext]_pfVars => PFInv'
<1> SUFFICES ASSUME PFInv, [PFNext]_pfVars PROVE PFInv'
  BY Zenon
<1>1. CASE PFNext
  BY <1>1, ReadinessKept, DescribeKept, ProvisionKept, InspectKept, GateKept, LintKept,
     ProbeHostsKept,
     CheckBudgetKept, ProvisionToRehearseKept, RehearseKept, TeardownKept, Zenon DEF PFNext
<1>2. CASE UNCHANGED pfVars
  <2>1. /\ UNCHANGED <<flow, policy, wired, stage, caps, deep, report, seen, probe>>
        /\ UNCHANGED <<budget, copy, approval, rehearsed, verdict, warned>>
    BY <1>2, Zenon DEF pfVars, setup, facts
  <2>2. PFTypeOK'
    BY <2>1 DEF PFInv, PFTypeOK
  <2>3. CopyInv' /\ CourseInv'
    BY <2>1 DEF PFInv, CopyInv, CourseInv, ThrowawayAccountedFor, DeepRehearsal, Rehearses
  <2>4. GateInv'
    BY <2>1, Zenon DEF PFInv, GateInv, Vouched, Classified, Mapped
  <2>5. BudgetInv'
    BY <2>1, Zenon DEF PFInv, BudgetInv, BudgetExact
  <2> QED
    BY <2>2, <2>3, <2>4, <2>5, Zenon DEF PFInv
<1> QED
  BY <1>1, <1>2, Zenon

(* What the invariant says once preflight is over. *)
LEMMA PFInvVouches == PFInv => PreflightVouches /\ ThrowawayAccountedFor
<1> SUFFICES ASSUME PFInv PROVE PreflightVouches /\ ThrowawayAccountedFor
  BY Zenon
<1>1. PolicyVouches /\ WindowCertified
  BY Zenon DEF PFInv, GateInv, Vouched, PolicyVouches, WindowCertified, Passed
<1>2. PassedMeansChecked
  <2>1. rehearsed => (seen = "throwaway") = deep
    BY Zenon DEF PFInv, CopyInv
  <2>2. deep = (deep /\ flow.mode = "fresh")
    BY Zenon DEF PFInv, PFTypeOK, CopyInv, DeepRehearsal
  <2>3. Passed => /\ probe \in {"undeclared", "ready"}
                  /\ Rehearses => rehearsed
                  /\ report.blocking => flow.strategy = "blue-green"
    BY Zenon DEF PFInv, CourseInv, Passed
  <2> QED
    BY <2>1, <2>2, <2>3, Zenon DEF PassedMeansChecked
<1> QED
  BY <1>1, <1>2, Zenon DEF PFInv, CopyInv, BudgetInv, PreflightVouches

(* Whatever the adapter, the approver and the databases answer, for every  *)
(* policy and every set of tiers, a preflight (run_policy_gate, the lint,  *)
(* the rehearsal, the connection budget) passes only what it checked: see  *)
(* PreflightVouches.                                                       *)
THEOREM PreflightIsTrusted == PFSpec => []PreflightVouches
<1>1. PFSpec => []PFInv
  BY PFInitInv, PFNextInv, PTL DEF PFSpec
<1> QED
  BY <1>1, PFInvVouches, PTL

(* No preflight that passes ends with its throwaway copy standing and      *)
(* unreported, and none that refuses does but for the two refusals whose   *)
(* own error is reported instead, whatever check refuses and whether or    *)
(* not the drop succeeds.                                                  *)
THEOREM ThrowawayNeverForgotten == PFSpec => []ThrowawayAccountedFor
<1>1. PFSpec => []PFInv
  BY PFInitInv, PFNextInv, PTL DEF PFSpec
<1> QED
  BY <1>1, PFInvVouches, PTL

-----------------------------------------------------------------------------
(* A call to an external adapter.                                          *)

Successes == {"result", "result_no_id"}

(* A success on stdout is that of an adapter which has done its work and   *)
(* does no more, nor does a helper; a call is Ok only over one.  A local   *)
(* child is the adapter itself, and has exited when `call` returns: only a *)
(* helper can act after that.                                              *)
IpcInv ==
    /\ launcher \in {"local", "ssh", "unaddressed"} /\ applied \in BOOLEAN /\ late \in BOOLEAN
    /\ client \in {"idle", "sending", "exchanging", "waiting"} /\ child \in {None, "up", "exited"}
    /\ response # None => adapter \in {"answered", "exited"}
    /\ response \in Successes => applied
    /\ result = "ok" => response \in Successes
    /\ helper = "up" => response \notin Successes /\ adapter # "worked"
    /\ launcher = "local" =>
          /\ helper = None => ~late
          /\ child = "exited" => adapter = "exited"
          /\ child = None => adapter = None
          /\ client = "idle" => child \in {None, "exited"}

(* A call starts from nothing. *)
LEMMA IpcInitInv == IpcInit => IpcInv
BY Zenon DEF IpcInit, IpcInv, Successes, None

(* Every step of the client, of the adapter and of the connection keeps    *)
(* the invariant.                                                          *)
LEMMA IpcNextInv == IpcInv /\ [IpcNext]_ipcVars => IpcInv'
<1> SUFFICES ASSUME IpcInv, [IpcNext]_ipcVars PROVE IpcInv'
  BY Zenon
<1> USE DEF IpcInv, Successes, None
<1>1. ASSUME NEW m, Spawn(m) PROVE IpcInv'
  BY <1>1, Zenon DEF Spawn, Returns, Addressed
<1>2. CASE Send
  BY <1>2, Zenon DEF Send, Returns
<1>3. CASE Exchange
  BY <1>3, Zenon DEF Exchange
<1>4. CASE Timeout
  BY <1>4, Zenon DEF Timeout, Returns
<1>5. CASE Wait
  BY <1>5, Zenon DEF Wait, Returns, Decoded
<1>6. CASE Reads
  BY <1>6, Zenon DEF Reads
<1>7. CASE Works
  BY <1>7, Zenon DEF Works, Act
<1>8. CASE AdapterExits
  BY <1>8, Zenon DEF AdapterExits
<1>9. CASE Lingerer
  BY <1>9, Zenon DEF Lingerer
<1>10. CASE SshDies
  BY <1>10, Zenon DEF SshDies
<1>11. ASSUME NEW r \in Responses, Answers(r) PROVE IpcInv'
  BY <1>11, Zenon DEF Answers, Responses
<1>12. ASSUME NEW o, Closes(o) PROVE IpcInv'
  BY <1>12, Zenon DEF Closes
<1>13. CASE Delegates
  BY <1>13, Zenon DEF Delegates
<1>14. CASE HelperWorks
  BY <1>14, Zenon DEF HelperWorks, Act
<1>15. CASE UNCHANGED ipcVars
  BY <1>15, Zenon DEF ipcVars
<1> HIDE DEF IpcInv
<1> QED
  BY <1>1, <1>2, <1>3, <1>4, <1>5, <1>6, <1>7, <1>8, <1>9, <1>10, <1>11, <1>12, <1>13,
     <1>14, <1>15, Zenon
     DEF IpcNext, IpcClient, IpcAdapter, MigrationCall, ArtifactCall

(* Whatever the adapter prints and in whatever order it answers, closes    *)
(* its outputs and exits, `call` returns Ok only for what the adapter did. *)
THEOREM OkIsEarned == IpcSpec => []OkMeansApplied
<1>1. IpcInv => OkMeansApplied
  BY Zenon DEF IpcInv, OkMeansApplied
<1> QED
  BY <1>1, IpcInitInv, IpcNextInv, PTL DEF IpcSpec

(* A local adapter that does its work itself does nothing after `call`     *)
(* returned, by its answer, a broken pipe or the timeout's kill.           *)
THEOREM LocalCallsEnd == IpcSpec => []FailedCallIsOver
<1>1. IpcInv => FailedCallIsOver
  BY Zenon DEF IpcInv, FailedCallIsOver
<1> QED
  BY <1>1, IpcInitInv, IpcNextInv, PTL DEF IpcSpec

-----------------------------------------------------------------------------
(* The artifact adapters.                                                  *)

StagedAs == {"none", "part", "good", "bad"}
Jobs == [op : {"none", "stage", "activate", "current"}, v : Versions \cup {NoVersion},
         at : {"none", "ln", "mv", "readlink", "curl", "curling", "sha256sum", "fetch", "write",
               "writing", "clone", "cloning", "replace", "rename", "remove", "copy", "copying"},
         got : {"none", "good", "bad"}]
StageSteps(kind) ==
    CASE kind = "pull"    -> {"curl", "curling", "sha256sum"}
      [] kind = "release" -> {"fetch", "write", "writing"}
      [] kind = "git"     -> {"clone", "cloning", "replace", "rename"}
      [] kind = "local"   -> {"remove", "copy", "copying"}

RelTypeOK ==
    /\ source \in Sources /\ staged \in [Versions -> StagedAs] /\ clone \in {"none", "part", "good"}
    /\ tmpLink \in Versions \cup {NoVersion} /\ link \in Versions \cup {NoVersion}
    /\ work \in [Slots -> Jobs] /\ known \subseteq Versions /\ dropped \in BOOLEAN

(* The steps each operation goes through; what runs loose is neither on    *)
(* this host nor a read.                                                   *)
OnCourse(s, j) ==
    \/ j = NoJob
    \/ j.op = "stage" /\ j.v \in Versions /\ j.at \in StageSteps(source.kind)
    \/ j.op = "activate" /\ j.v \in Versions /\ j.at \in {"ln", "mv"}
    \/ s = "job" /\ j.op = "current" /\ j.v = NoVersion /\ j.at = "readlink"
OpsInv ==
    /\ \A s \in Slots : OnCourse(s, work[s])
    /\ ~source.remote => work["loose"] = NoJob

(* A whole release, the verified one when there is a checksum.             *)
Whole(v) == staged[v] \in {"good", "bad"} /\ (source.sum => staged[v] = "good")
Trusted(v) == v \in rewritten \/ Whole(v)

(* What the controller's own operation has in hand at each step.           *)
InHandInv ==
    LET j == work["job"] IN
    /\ \A s \in Slots : work[s].at \in {"write", "writing"} =>
          work[s].got \in {"good", "bad"} /\ (source.sum => work[s].got = "good")
    /\ j.at = "sha256sum" => j.v \in rewritten \/ staged[j.v] \in {"good", "bad"}
    /\ j.at \in {"replace", "rename"} => clone = "good"
    /\ j.op = "activate" => j.v \in known
    /\ j.at = "mv" /\ source.kind = "pull" =>
          /\ tmpLink \in {NoVersion, j.v} \cup rewritten
          /\ ~dropped => tmpLink \in {NoVersion, j.v}

(* Whatever the deploy may activate is sound, but for the release its      *)
(* stage is writing; so is what is live.                                   *)
SoundInv ==
    /\ \A v \in known : Trusted(v) \/ (work["job"].op = "stage" /\ work["job"].v = v)
    /\ LiveIsVerified

(* An operation in progress has not answered; without a lost connection    *)
(* nothing runs beside it.                                                 *)
AnswerInv ==
    /\ work["job"] # NoJob => answer = NoAnswer
    /\ ~dropped => work["loose"] = NoJob \/ (work["job"] = NoJob /\ answer = NoAnswer)
    /\ AnswersHold

RelInv == RelTypeOK /\ OpsInv /\ InHandInv /\ SoundInv /\ AnswerInv

(* Nothing is staged, live or in progress at first. *)
LEMMA RelInitInv == RelInit => RelInv
<1> SUFFICES ASSUME RelInit PROVE RelInv
  BY Zenon
<1>1. RelTypeOK
  BY Zenon DEF RelInit, RelTypeOK, StagedAs, Slots, Jobs, NoJob
<1>2. OpsInv /\ InHandInv
  BY Zenon DEF RelInit, OpsInv, OnCourse, InHandInv, Slots, NoJob
<1>3. SoundInv /\ AnswerInv
  BY Zenon DEF RelInit, SoundInv, LiveIsVerified, AnswerInv, AnswersHold, NoAnswer, Slots
<1> QED
  BY <1>1, <1>2, <1>3, Zenon DEF RelInv

(* A write to a staged path leaves every other release what it was, marks  *)
(* the live one, and whatever a loose step wrote.                          *)
LEMMA WriteMarks ==
  ASSUME RelInv, NEW s \in Slots, NEW what \in StagedAs, work[s].v \in Versions,
         WriteStaged(s, work[s].v, what), UNCHANGED <<source, link>>
  PROVE  /\ staged' \in [Versions -> StagedAs]
         /\ staged'[work[s].v] = what
         /\ \A w \in Versions : w # work[s].v => staged'[w] = staged[w] /\ (w \in rewritten' <=> w \in rewritten)
         /\ s = "loose" => work[s].v \in rewritten' /\ rewritten \subseteq rewritten'
         /\ LiveIsVerified'
<1>1. staged \in [Versions -> StagedAs] /\ link \in Versions \cup {NoVersion}
  BY Zenon DEF RelInv, RelTypeOK
<1>2. staged' = [staged EXCEPT ![work[s].v] = what]
  BY Zenon DEF WriteStaged
<1>3. /\ staged' \in [Versions -> StagedAs] /\ staged'[work[s].v] = what
      /\ \A w \in Versions : w # work[s].v => staged'[w] = staged[w]
  BY <1>1, <1>2, Zenon
<1>4. /\ \A w \in Versions : w # work[s].v => (w \in rewritten' <=> w \in rewritten)
      /\ s = "loose" => work[s].v \in rewritten' /\ rewritten \subseteq rewritten'
      /\ work[s].v = link => link \in rewritten'
  BY Zenon DEF WriteStaged
<1>5. LiveIsVerified'
  <2>1. LiveIsVerified
    BY Zenon DEF RelInv, SoundInv
  <2>2. CASE link = NoVersion \/ link = work[s].v
    BY <1>4, <2>2, Zenon DEF LiveIsVerified
  <2>3. CASE link \in Versions /\ link # work[s].v
    BY <1>3, <1>4, <2>1, <2>3, Zenon DEF LiveIsVerified
  <2> QED
    BY <1>1, <2>2, <2>3, Zenon
<1> QED
  BY <1>3, <1>4, <1>5, Zenon

(* The slot of an operation that goes on, and that of one which is over.   *)
LEMMA SlotMoves ==
  ASSUME RelTypeOK, NEW s \in Slots
  PROVE  /\ \A step : Goto(s, step) =>
               /\ work'[s].at = step /\ work'[s].op = work[s].op /\ work'[s].v = work[s].v
               /\ work'[s].got = work[s].got
               /\ \A t \in Slots : t # s => work'[t] = work[t]
         /\ \A res : Return(s, res) =>
               work'[s] = NoJob /\ \A t \in Slots : t # s => work'[t] = work[t]
<1>1. work \in [Slots -> Jobs]
  BY Zenon DEF RelTypeOK
<1>2. ASSUME NEW step, Goto(s, step)
      PROVE  /\ work'[s].at = step /\ work'[s].op = work[s].op /\ work'[s].v = work[s].v
             /\ work'[s].got = work[s].got
             /\ \A t \in Slots : t # s => work'[t] = work[t]
  BY <1>1, <1>2, Zenon DEF Goto, Jobs
<1>3. ASSUME NEW res, Return(s, res)
      PROVE  work'[s] = NoJob /\ \A t \in Slots : t # s => work'[t] = work[t]
  BY <1>1, <1>3, Zenon DEF Return
<1> QED
  BY <1>2, <1>3, Zenon

(* A stage that writes and goes on keeps the invariant, in the             *)
(* controller's hand and loose.                                            *)
LEMMA StageGoes ==
  ASSUME RelInv, NEW s \in Slots, NEW what \in StagedAs, NEW step \in StageSteps(source.kind),
         work[s].op = "stage", WriteStaged(s, work[s].v, what), Goto(s, step),
         step \notin {"write", "replace"},
         step = "writing" => work[s].at = "write",
         step = "rename" => work[s].at = "replace",
         step = "sha256sum" => what \in {"good", "bad"},
         UNCHANGED <<source, clone, tmpLink, link, known, answer, dropped>>
  PROVE  RelInv'
<1> RelTypeOK /\ OpsInv /\ InHandInv /\ SoundInv /\ AnswerInv
  BY Zenon DEF RelInv
<1>1. /\ work'[s].at = step /\ work'[s].op = "stage" /\ work'[s].v = work[s].v
      /\ work'[s].got = work[s].got
      /\ \A t \in Slots : t # s => work'[t] = work[t]
  BY SlotMoves, Zenon
<1>2. work[s].v \in Versions /\ work[s].at \in StageSteps(source.kind)
  BY DEF OpsInv, OnCourse, NoJob
<1>3. /\ staged' \in [Versions -> StagedAs]
      /\ staged'[work[s].v] = what
      /\ \A w \in Versions : w # work[s].v => staged'[w] = staged[w] /\ (w \in rewritten' <=> w \in rewritten)
      /\ s = "loose" => work[s].v \in rewritten' /\ rewritten \subseteq rewritten'
      /\ LiveIsVerified'
  BY <1>2, WriteMarks, Zenon
<1>4. step \notin {"none", "ln", "mv", "readlink"} /\ StageSteps(source.kind)' = StageSteps(source.kind)
  <2>1. source.kind \in {"pull", "release", "git", "local"}
    BY Zenon DEF RelTypeOK, Sources
  <2>2. step \notin {"none", "ln", "mv", "readlink"}
    BY <2>1, Zenon DEF StageSteps
  <2> QED
    BY <2>2, Zenon
<1>5. "job" \in Slots /\ "loose" \in Slots /\ (s = "job" \/ s = "loose")
  BY Zenon DEF Slots
<1>6. RelTypeOK'
  <2>1. step \in {"curl", "curling", "sha256sum", "fetch", "write", "writing", "clone", "cloning",
                  "replace", "rename", "remove", "copy", "copying"}
    <3>1. source.kind \in {"pull", "release", "git", "local"}
      BY Zenon DEF RelTypeOK, Sources
    <3> QED
      BY <3>1, Zenon DEF StageSteps
  <2>2. work' \in [Slots -> Jobs]
    BY <2>1 DEF RelTypeOK, Goto, Jobs
  <2> QED
    BY <1>3, <2>2, Zenon DEF RelTypeOK
<1>7. OpsInv'
  <2>1. ~source.remote => work'["loose"] = NoJob
    <3>1. ~source.remote => work["loose"] = NoJob /\ s # "loose"
      BY DEF OpsInv, NoJob
    <3> QED
      BY <1>1, <1>5, <3>1, Zenon
  <2>2. \A t \in Slots : OnCourse(t, work'[t])
    <3> TAKE t \in Slots
    <3>1. CASE t = s
      BY <1>1, <1>2, <3>1, Zenon DEF OnCourse
    <3>2. CASE t # s
      <4>1. work'[t] = work[t]
        BY <1>1, <3>2, Zenon
      <4> QED
        BY <4>1, Zenon DEF OpsInv
    <3> QED
      BY <3>1, <3>2, Zenon
  <2> QED
    BY <1>4, <2>1, <2>2, Zenon DEF OpsInv, OnCourse
<1>8. InHandInv'
  <2>1. CASE s = "job"
    BY <1>1, <1>3, <1>4, <1>5, <2>1 DEF InHandInv
  <2>2. CASE s = "loose"
    <3>1. work'["job"] = work["job"]
      BY <1>1, <1>5, <2>2, Zenon
    <3>2. \A t \in Slots : work[t].at \in {"write", "writing"} =>
             work[t].got \in {"good", "bad"} /\ (source.sum => work[t].got = "good")
      BY Zenon DEF InHandInv
    <3>3. \A t \in Slots : work'[t].at \in {"write", "writing"} =>
             work'[t].got \in {"good", "bad"} /\ (source.sum => work'[t].got = "good")
      BY <1>1, <3>2, Zenon
    <3>4. work["job"].at = "sha256sum" => work["job"].v \in Versions
      BY <1>5 DEF OpsInv, OnCourse, NoJob
    <3> QED
      BY <1>3, <2>2, <3>1, <3>3, <3>4, Zenon DEF InHandInv
  <2> QED
    BY <1>5, <2>1, <2>2, ZenonT(30)
<1>9. SoundInv'
  <2>1. known \subseteq Versions
    BY Zenon DEF RelTypeOK
  <2> SUFFICES ASSUME NEW v \in known
               PROVE  Trusted(v)' \/ (work'["job"].op = "stage" /\ work'["job"].v = v)
    BY <1>3, Zenon DEF SoundInv
  <2>2. Trusted(v) \/ (work["job"].op = "stage" /\ work["job"].v = v)
    BY Zenon DEF SoundInv
  <2>3. v \in Versions
    BY <2>1, Zenon
  <2>4. CASE v # work[s].v
    <3>1. Trusted(v) => Trusted(v)'
      BY <1>3, <2>3, <2>4, Zenon DEF Trusted, Whole
    <3>2. work'["job"].op = work["job"].op /\ work'["job"].v = work["job"].v
      BY <1>1, <1>5, Zenon
    <3> QED
      BY <2>2, <3>1, <3>2, Zenon
  <2>5. CASE v = work[s].v
    BY <1>1, <1>3, <1>5, <2>5, Zenon DEF Trusted
  <2> QED
    BY <2>4, <2>5, Zenon
<1>10. AnswerInv'
  <2>1. work[s] # NoJob /\ work'[s] # NoJob
    BY <1>1 DEF NoJob
  <2>2. (work'["job"] # NoJob) = (work["job"] # NoJob) /\ (work'["loose"] # NoJob) = (work["loose"] # NoJob)
    BY <1>1, <1>5, <2>1, Zenon
  <2> QED
    BY <2>2, Zenon DEF AnswerInv, AnswersHold
<1> QED
  BY <1>6, <1>7, <1>8, <1>9, <1>10, Zenon DEF RelInv

(* An operation that returns frees its slot, and what it answered holds.   *)
LEMMA ReturnFrees ==
  ASSUME RelInv, NEW s \in Slots, NEW res, work[s] # NoJob, Return(s, res), UNCHANGED source,
         ~dropped /\ s = "job" /\ work[s].op = "activate" /\ res = "ok" => link' = work[s].v,
         ~dropped /\ s = "job" /\ work[s].op = "current" /\ res = "nothing" => link' = NoVersion,
         s = "job" /\ res # "ok" => UNCHANGED link
  PROVE  /\ work' \in [Slots -> Jobs] /\ known' \subseteq Versions /\ dropped' \in BOOLEAN
         /\ work'[s] = NoJob /\ \A t \in Slots : t # s => work'[t] = work[t]
         /\ OpsInv' /\ AnswerInv'
<1> RelTypeOK /\ OpsInv /\ AnswerInv
  BY Zenon DEF RelInv
<1>1. work'[s] = NoJob /\ \A t \in Slots : t # s => work'[t] = work[t]
  BY SlotMoves, Zenon
<1>2. work' \in [Slots -> Jobs]
  <2>1. NoJob \in Jobs
    BY Zenon DEF NoJob, Jobs
  <2> QED
    BY <2>1, Zenon DEF Return, RelTypeOK
<1>3. known' \subseteq Versions /\ dropped' \in BOOLEAN /\ dropped' = dropped
  <2>1. known \subseteq Versions /\ dropped \in BOOLEAN
    BY Zenon DEF RelTypeOK
  <2>2. OnCourse(s, work[s])
    BY Zenon DEF OpsInv
  <2>3. work[s].op = "stage" => work[s].v \in Versions
    BY <2>2, Zenon DEF OnCourse, NoJob
  <2>4. known' \in {known, {}} \/ (work[s].op = "stage" /\ known' = known \cup {work[s].v})
    BY Zenon DEF Return
  <2>5. dropped' = dropped
    BY Zenon DEF Return
  <2> QED
    BY <2>1, <2>3, <2>4, <2>5, Zenon
<1>4. "job" \in Slots /\ "loose" \in Slots /\ (s = "job" \/ s = "loose")
  BY Zenon DEF Slots
<1>5. OpsInv'
  <2>1. ~source.remote => work'["loose"] = NoJob
    BY <1>1, <1>4, Zenon DEF OpsInv
  <2>2. \A t \in Slots : OnCourse(t, work'[t])
    <3> TAKE t \in Slots
    <3>1. CASE t = s
      BY <1>1, <3>1, Zenon DEF OnCourse
    <3>2. CASE t # s
      <4>1. work'[t] = work[t]
        BY <1>1, <3>2, Zenon
      <4> QED
        BY <4>1, Zenon DEF OpsInv
    <3> QED
      BY <3>1, <3>2, Zenon
  <2> QED
    BY <2>1, <2>2, Zenon DEF OpsInv, OnCourse
<1>6. AnswerInv'
  <2>1. CASE s = "job"
    <3>1. answer' = [op |-> work[s].op, v |-> work[s].v, res |-> res] /\ work'["job"] = NoJob
      BY <1>1, <2>1, Zenon DEF Return
    <3>2. ~dropped => work'["loose"] = NoJob
      BY <1>1, <1>4, <2>1, Zenon DEF AnswerInv
    <3>3. AnswersHold'
      BY <1>3, <2>1, <3>1, Zenon DEF AnswersHold
    <3> QED
      BY <1>3, <3>1, <3>2, <3>3, Zenon DEF AnswerInv
  <2>2. CASE s = "loose"
    <3>1. answer' = answer /\ work'["loose"] = NoJob /\ work'["job"] = work["job"]
      BY <1>1, <1>4, <2>2, Zenon DEF Return
    <3>2. ~dropped => answer = NoAnswer
      BY <2>2, Zenon DEF AnswerInv
    <3>3. AnswersHold'
      BY <1>3, <3>1, <3>2 DEF AnswersHold, NoAnswer
    <3>4. work["job"] # NoJob => answer = NoAnswer
      BY Zenon DEF AnswerInv
    <3> QED
      BY <3>1, <3>3, <3>4, Zenon DEF AnswerInv
  <2> QED
    BY <1>4, <2>1, <2>2, Zenon
<1> QED
  BY <1>1, <1>2, <1>3, <1>5, <1>6, Zenon

(* What the controller's own operation has in hand is out of the reach of  *)
(* one that returns.                                                       *)
LEMMA ReturnLeavesInHand ==
  ASSUME RelInv, NEW s \in Slots, work[s] # NoJob,
         work'[s] = NoJob, \A t \in Slots : t # s => work'[t] = work[t],
         UNCHANGED <<source, dropped>>,
         s = "loose" => /\ UNCHANGED <<known, clone>> /\ rewritten \subseteq rewritten'
                        /\ \A v \in Versions \ rewritten' : staged'[v] = staged[v]
                        /\ tmpLink' \in {tmpLink, NoVersion} \cup rewritten'
  PROVE  InHandInv'
<1> OpsInv /\ InHandInv /\ AnswerInv
  BY Zenon DEF RelInv
<1>1. "job" \in Slots /\ "loose" \in Slots /\ (s = "job" \/ s = "loose")
  BY Zenon DEF Slots
<1>2. \A t \in Slots : work'[t].at \in {"write", "writing"} =>
         work'[t].got \in {"good", "bad"} /\ (source.sum => work'[t].got = "good")
  <2> TAKE t \in Slots
  <2>1. CASE t = s
    BY <2>1 DEF NoJob
  <2>2. CASE t # s
    <3>1. work'[t] = work[t]
      BY <2>2, Zenon
    <3> QED
      BY <3>1, ZenonT(30) DEF InHandInv
  <2> QED
    BY <2>1, <2>2, Zenon
<1>3. CASE s = "job"
  BY <1>2, <1>3 DEF InHandInv, NoJob
<1>4. CASE s = "loose"
  <2>1. work'["job"] = work["job"]
    BY <1>1, <1>4, Zenon
  <2>2. work["job"] # NoJob => dropped
    BY <1>4, Zenon DEF AnswerInv
  <2>3. work["job"].at = "mv" => work["job"] # NoJob
    BY DEF NoJob
  <2>4. work["job"].at = "sha256sum" => work["job"].v \in Versions
    BY <1>1 DEF OpsInv, OnCourse, NoJob
  <2>5. work["job"].at = "sha256sum" => work["job"].v \in rewritten' \/ staged'[work["job"].v] \in {"good", "bad"}
    BY <1>4, <2>4, Zenon DEF InHandInv
  <2>6. work["job"].at = "mv" /\ source.kind = "pull" => tmpLink' \in {NoVersion, work["job"].v} \cup rewritten'
    BY <1>4, Zenon DEF InHandInv
  <2>7. /\ work["job"].at \in {"replace", "rename"} => clone' = "good"
        /\ work["job"].op = "activate" => work["job"].v \in known'
    BY <1>4, Zenon DEF InHandInv
  <2> QED
    BY <1>2, <2>1, <2>2, <2>3, <2>5, <2>6, <2>7, Zenon DEF InHandInv
<1> QED
  BY <1>1, <1>3, <1>4, Zenon

(* A stage that writes the whole release and returns keeps the invariant.  *)
LEMMA StageReturns ==
  ASSUME RelInv, NEW s \in Slots, NEW what \in {"good", "bad"}, NEW res,
         work[s].op = "stage", WriteStaged(s, work[s].v, what), Return(s, res),
         s = "job" => res = "ok" /\ (source.sum => what = "good"),
         clone' \in {"none", clone}, s = "loose" => UNCHANGED clone,
         UNCHANGED <<source, tmpLink, link>>
  PROVE  RelInv'
<1> RelTypeOK /\ OpsInv /\ InHandInv /\ SoundInv /\ AnswerInv
  BY Zenon DEF RelInv
<1>1. work[s] # NoJob /\ work[s].v \in Versions /\ what \in StagedAs
  BY DEF OpsInv, OnCourse, NoJob, StagedAs
<1>2. /\ staged' \in [Versions -> StagedAs]
      /\ staged'[work[s].v] = what
      /\ \A w \in Versions : w # work[s].v => staged'[w] = staged[w] /\ (w \in rewritten' <=> w \in rewritten)
      /\ s = "loose" => work[s].v \in rewritten' /\ rewritten \subseteq rewritten'
      /\ LiveIsVerified'
  BY <1>1, WriteMarks, Zenon
<1>3. /\ work' \in [Slots -> Jobs] /\ known' \subseteq Versions /\ dropped' \in BOOLEAN
      /\ work'[s] = NoJob /\ \A t \in Slots : t # s => work'[t] = work[t]
      /\ OpsInv' /\ AnswerInv'
  BY <1>1, ReturnFrees, Zenon
<1>4. RelTypeOK'
  BY <1>2, <1>3, Zenon DEF RelTypeOK
<1>5. UNCHANGED dropped /\ (s = "loose" => UNCHANGED known) /\ (s = "job" => known' = known \cup {work[s].v})
  BY Zenon DEF Return
<1>6. InHandInv'
  BY <1>1, <1>2, <1>3, <1>5, ReturnLeavesInHand, Zenon
<1>7. SoundInv'
  <2>1. "job" \in Slots /\ "loose" \in Slots /\ (s = "job" \/ s = "loose")
    BY Zenon DEF Slots
  <2> SUFFICES ASSUME NEW v \in known'
               PROVE  Trusted(v)' \/ (work'["job"].op = "stage" /\ work'["job"].v = v)
    BY <1>2, Zenon DEF SoundInv
  <2>2. v \in Versions
    BY <1>3, Zenon
  <2>3. CASE v = work[s].v
    BY <1>2, <2>1, <2>3, Zenon DEF Trusted, Whole
  <2>4. CASE v # work[s].v
    <3>1. v \in known
      BY <1>5, <2>1, <2>4, Zenon
    <3>2. Trusted(v) \/ (work["job"].op = "stage" /\ work["job"].v = v)
      BY <3>1, Zenon DEF SoundInv
    <3>3. Trusted(v) => Trusted(v)'
      BY <1>2, <2>2, <2>4, Zenon DEF Trusted, Whole
    <3>4. s = "loose" => work'["job"] = work["job"]
      BY <1>3, <2>1, Zenon
    <3> QED
      BY <2>1, <2>4, <3>2, <3>3, <3>4, Zenon
  <2> QED
    BY <2>3, <2>4, Zenon
<1> QED
  BY <1>3, <1>4, <1>6, <1>7, Zenon DEF RelInv

(* An operation that returns and leaves the files as they are keeps the    *)
(* invariant: an error, a checksum that agrees, a link read.               *)
LEMMA ReturnKeeps ==
  ASSUME RelInv, NEW s \in Slots, NEW res, work[s] # NoJob, Return(s, res),
         s = "job" /\ res = "ok" => work[s].op = "stage" /\ Trusted(work[s].v),
         s = "job" /\ res = "nothing" => link = NoVersion,
         UNCHANGED <<source, staged, clone, tmpLink, link, rewritten>>
  PROVE  RelInv'
<1> RelTypeOK /\ OpsInv /\ InHandInv /\ SoundInv /\ AnswerInv
  BY Zenon DEF RelInv
<1>1. /\ work' \in [Slots -> Jobs] /\ known' \subseteq Versions /\ dropped' \in BOOLEAN
      /\ work'[s] = NoJob /\ \A t \in Slots : t # s => work'[t] = work[t]
      /\ OpsInv' /\ AnswerInv'
  BY ReturnFrees, Zenon
<1>2. RelTypeOK'
  BY <1>1, Zenon DEF RelTypeOK
<1>3. UNCHANGED dropped /\ (s = "loose" => UNCHANGED known)
  BY Zenon DEF Return
<1>4. InHandInv'
  BY <1>1, <1>3, ReturnLeavesInHand, Zenon
<1>5. SoundInv'
  <2>1. "job" \in Slots /\ "loose" \in Slots /\ (s = "job" \/ s = "loose")
    BY Zenon DEF Slots
  <2>2. LiveIsVerified' /\ \A v : Trusted(v)' = Trusted(v)
    BY Zenon DEF SoundInv, LiveIsVerified, Trusted, Whole
  <2> SUFFICES ASSUME NEW v \in known'
               PROVE  Trusted(v)' \/ (work'["job"].op = "stage" /\ work'["job"].v = v)
    BY <2>2, Zenon DEF SoundInv
  <2>3. CASE s = "loose"
    <3>1. work'["job"] = work["job"] /\ v \in known
      BY <1>1, <1>3, <2>1, <2>3, Zenon
    <3> QED
      BY <2>2, <3>1, Zenon DEF SoundInv
  <2>4. CASE s = "job"
    <3>1. \/ work[s].op # "stage" /\ v \in known
          \/ res = "ok" /\ (v \in known \/ v = work[s].v)
      BY <2>4, Zenon DEF Return
    <3>2. Trusted(v)
      BY <2>4, <3>1, Zenon DEF SoundInv
    <3> QED
      BY <2>2, <3>2, Zenon
  <2> QED
    BY <2>1, <2>3, <2>4, Zenon
<1> QED
  BY <1>1, <1>2, <1>4, <1>5, Zenon DEF RelInv

(* The step an operation is at tells the operation and the kind of source. *)
LEMMA StepTells ==
  ASSUME RelTypeOK, OpsInv, NEW s \in Slots, work[s].at # "none"
  PROVE  /\ work[s] # NoJob /\ source.kind \in {"pull", "release", "git", "local"}
         /\ work[s].at \in {"curl", "curling", "sha256sum"} => source.kind = "pull"
         /\ work[s].at \in {"fetch", "write", "writing"} => source.kind = "release"
         /\ work[s].at \in {"clone", "cloning", "replace", "rename"} => source.kind = "git"
         /\ work[s].at \in {"remove", "copy", "copying"} => source.kind = "local"
         /\ source.kind \in {"git", "local"} => s = "job" /\ ~source.sum
         /\ work[s].at \in {"ln", "mv"} => work[s].op = "activate" /\ work[s].v \in Versions
         /\ work[s].at = "readlink" => work[s].op = "current"
         /\ work[s].at \notin {"ln", "mv", "readlink"} => work[s].op = "stage"
<1>1. work[s] # NoJob
  BY DEF NoJob
<1>2. source.kind \in {"pull", "release", "git", "local"}
  BY Zenon DEF RelTypeOK, Sources
<1>3. OnCourse(s, work[s])
  BY Zenon DEF OpsInv
<1>4. source.kind \in {"git", "local"} => s = "job" /\ ~source.sum
  <2>1. source.kind \in {"git", "local"} => ~source.sum /\ ~source.remote
    BY Zenon DEF RelTypeOK, Sources
  <2> QED
    BY <1>1, <2>1, Zenon DEF OpsInv, Slots
<1>5. CASE work[s].op = "stage" /\ work[s].at \in StageSteps(source.kind)
  BY <1>1, <1>2, <1>4, <1>5, Zenon DEF StageSteps
<1>6. CASE work[s].op = "activate" /\ work[s].v \in Versions /\ work[s].at \in {"ln", "mv"}
  BY <1>1, <1>2, <1>4, <1>6, Zenon
<1>7. CASE work[s].op = "current" /\ work[s].at = "readlink"
  BY <1>1, <1>2, <1>4, <1>7, Zenon
<1> QED
  BY <1>1, <1>3, <1>5, <1>6, <1>7, Zenon DEF OnCourse

(* pull's stage keeps the invariant. *)
LEMMA PullKept ==
  ASSUME RelInv, NEW s \in Slots, CurlOpens(s) \/ CurlFills(s) \/ ChecksumPulled(s)
  PROVE  RelInv'
<1> RelTypeOK /\ OpsInv /\ InHandInv
  BY Zenon DEF RelInv
<1>1. work[s].at \in {"curl", "curling", "sha256sum"}
  BY Zenon DEF CurlOpens, CurlFills, ChecksumPulled, OpAt
<1>2. work[s] # NoJob /\ work[s].op = "stage" /\ source.kind = "pull"
  <2>1. work[s].at # "none" /\ work[s].at \notin {"ln", "mv", "readlink"}
    BY <1>1, Zenon
  <2> QED
    BY <1>1, <2>1, StepTells, Zenon
<1>3. {"curling", "sha256sum"} \subseteq StageSteps(source.kind)
  BY <1>2, Zenon DEF StageSteps
<1>4. CASE CurlOpens(s)
  <2>1. "part" \in StagedAs /\ "curling" \in StageSteps(source.kind)
    BY <1>3, Zenon DEF StagedAs
  <2> QED
    BY <1>2, <1>4, <2>1, StageGoes, Zenon DEF CurlOpens
<1>5. CASE CurlFills(s)
  <2>1. PICK what \in {"good", "bad"} : WriteStaged(s, work[s].v, what)
    BY <1>5, Zenon DEF CurlFills
  <2>2. what \in StagedAs /\ "sha256sum" \in StageSteps(source.kind)
    BY <1>3, Zenon DEF StagedAs
  <2>3. CASE s = "loose"
    BY <1>2, <1>5, <2>1, <2>3, StageReturns, Zenon DEF CurlFills, NextCommand
  <2>4. CASE s # "loose"
    BY <1>2, <1>5, <2>1, <2>2, <2>4, StageGoes, Zenon DEF CurlFills, NextCommand
  <2> QED
    BY <2>3, <2>4, Zenon
<1>6. CASE ChecksumPulled(s)
  <2>1. s = "job" => work[s].v \in rewritten \/ staged[work[s].v] \in {"good", "bad"}
    BY <1>6, Zenon DEF ChecksumPulled, OpAt, InHandInv
  <2>2. PICK res \in {"ok", "err"} :
           Return(s, res) /\ (res = "ok" => (source.sum => staged[work[s].v] = "good"))
    BY <1>6, Zenon DEF ChecksumPulled
  <2>3. s = "job" /\ res = "ok" => work[s].op = "stage" /\ Trusted(work[s].v)
    BY <1>2, <2>1, <2>2, Zenon DEF Trusted, Whole
  <2> QED
    BY <1>2, <1>6, <2>2, <2>3, ReturnKeeps, Zenon DEF ChecksumPulled
<1> QED
  BY <1>4, <1>5, <1>6, Zenon

(* The stages that write last keep the invariant. *)
LEMMA WritersKept ==
  ASSUME RelInv, NEW s \in Slots,
         \/ WriteOpens(s) \/ WriteFills(s) \/ ReplaceTarget(s) \/ RenameClone(s)
         \/ RemoveCopy(s) \/ CopyStarts(s) \/ CopyEnds(s)
  PROVE  RelInv'
<1> RelTypeOK /\ OpsInv /\ InHandInv
  BY Zenon DEF RelInv
<1>1. work[s].at \in {"write", "writing", "replace", "rename", "remove", "copy", "copying"}
  BY Zenon DEF WriteOpens, WriteFills, ReplaceTarget, RenameClone, RemoveCopy, CopyStarts,
     CopyEnds, OpAt
<1>2. /\ work[s] # NoJob /\ work[s].op = "stage"
      /\ work[s].at \in {"write", "writing"} => source.kind = "release"
      /\ work[s].at \in {"replace", "rename"} => source.kind = "git"
      /\ work[s].at \in {"remove", "copy", "copying"} => source.kind = "local"
      /\ source.kind \in {"git", "local"} => s = "job" /\ ~source.sum
  <2>1. work[s].at # "none" /\ work[s].at \notin {"ln", "mv", "readlink"}
    BY <1>1, Zenon
  <2> QED
    BY <2>1, StepTells, Zenon
<1>3. {"none", "part", "good", "bad"} \subseteq StagedAs
  BY Zenon DEF StagedAs
<1>4. CASE WriteOpens(s)
  <2>1. work[s].at = "write" /\ "writing" \in StageSteps(source.kind)
    BY <1>2, <1>4, Zenon DEF WriteOpens, OpAt, StageSteps
  <2> QED
    BY <1>2, <1>3, <1>4, <2>1, StageGoes, Zenon DEF WriteOpens
<1>5. CASE ReplaceTarget(s)
  <2>1. work[s].at = "replace" /\ "rename" \in StageSteps(source.kind)
    BY <1>2, <1>5, Zenon DEF ReplaceTarget, OpAt, StageSteps
  <2> QED
    BY <1>2, <1>3, <1>5, <2>1, StageGoes, Zenon DEF ReplaceTarget
<1>6. CASE RemoveCopy(s)
  <2>1. "copy" \in StageSteps(source.kind)
    BY <1>2, <1>6, Zenon DEF RemoveCopy, OpAt, StageSteps
  <2> QED
    BY <1>2, <1>3, <1>6, <2>1, StageGoes, Zenon DEF RemoveCopy
<1>7. CASE CopyStarts(s)
  <2>1. "copying" \in StageSteps(source.kind)
    BY <1>2, <1>7, Zenon DEF CopyStarts, OpAt, StageSteps
  <2> QED
    BY <1>2, <1>3, <1>7, <2>1, StageGoes, Zenon DEF CopyStarts
<1>8. CASE WriteFills(s)
  <2>1. work[s].got \in {"good", "bad"} /\ (source.sum => work[s].got = "good")
    BY <1>8, Zenon DEF WriteFills, OpAt, InHandInv
  <2> QED
    BY <1>2, <1>8, <2>1, StageReturns, Zenon DEF WriteFills
<1>9. CASE RenameClone(s)
  <2>1. s = "job" /\ ~source.sum /\ clone = "good"
    BY <1>2, <1>9, Zenon DEF RenameClone, OpAt, InHandInv
  <2> QED
    BY <1>2, <1>9, <2>1, StageReturns, Zenon DEF RenameClone
<1>10. CASE CopyEnds(s)
  <2>1. s = "job" /\ ~source.sum
    BY <1>2, <1>10, Zenon DEF CopyEnds, OpAt
  <2> QED
    BY <1>2, <1>10, <2>1, StageReturns, Zenon DEF CopyEnds
<1> QED
  BY <1>4, <1>5, <1>6, <1>7, <1>8, <1>9, <1>10, Zenon

(* An operation that goes on and writes no release keeps the invariant.    *)
LEMMA SlotGoes ==
  ASSUME RelInv, NEW s \in Slots, NEW j \in Jobs, work[s] # NoJob, work' = [work EXCEPT ![s] = j],
         j.op = work[s].op, j.v = work[s].v, j # NoJob, OnCourse(s, j),
         clone' \in {"none", "part", "good"}, tmpLink' \in Versions \cup {NoVersion},
         rewritten \subseteq rewritten', InHandInv',
         UNCHANGED <<source, staged, link, known, answer, dropped>>
  PROVE  RelInv'
<1> RelTypeOK /\ OpsInv /\ SoundInv /\ AnswerInv
  BY Zenon DEF RelInv
<1>1. /\ work' \in [Slots -> Jobs] /\ work'[s] = j
      /\ \A t \in Slots : t # s => work'[t] = work[t]
  BY Zenon DEF RelTypeOK
<1>2. "job" \in Slots /\ "loose" \in Slots /\ (s = "job" \/ s = "loose")
  BY Zenon DEF Slots
<1>3. RelTypeOK'
  BY <1>1, Zenon DEF RelTypeOK
<1>4. OpsInv'
  <2>1. ~source.remote => work'["loose"] = NoJob
    <3>1. ~source.remote => work["loose"] = NoJob /\ s # "loose"
      BY Zenon DEF OpsInv
    <3> QED
      BY <1>1, <1>2, <3>1, Zenon
  <2>2. \A t \in Slots : OnCourse(t, work'[t])
    <3> TAKE t \in Slots
    <3>1. CASE t = s
      BY <1>1, <3>1, Zenon
    <3>2. CASE t # s
      <4>1. work'[t] = work[t]
        BY <1>1, <3>2, Zenon
      <4> QED
        BY <4>1, Zenon DEF OpsInv
    <3> QED
      BY <3>1, <3>2, Zenon
  <2> QED
    BY <2>1, <2>2, Zenon DEF OpsInv, OnCourse
<1>5. SoundInv'
  <2>1. LiveIsVerified' /\ \A v : Trusted(v) => Trusted(v)'
    BY Zenon DEF SoundInv, LiveIsVerified, Trusted, Whole
  <2>2. work'["job"].op = work["job"].op /\ work'["job"].v = work["job"].v
    BY <1>1, <1>2, Zenon
  <2> QED
    BY <2>1, <2>2, Zenon DEF SoundInv
<1>6. AnswerInv'
  <2>1. (work'["job"] # NoJob) = (work["job"] # NoJob) /\ (work'["loose"] # NoJob) = (work["loose"] # NoJob)
    BY <1>1, <1>2, Zenon
  <2> QED
    BY <2>1, Zenon DEF AnswerInv, AnswersHold
<1> QED
  BY <1>3, <1>4, <1>5, <1>6, Zenon DEF RelInv

(* git's clone keeps the invariant. *)
LEMMA CloneKept ==
  ASSUME RelInv, NEW s \in Slots, CloneStarts(s) \/ CloneEnds(s)
  PROVE  RelInv'
<1> RelTypeOK /\ OpsInv /\ InHandInv
  BY Zenon DEF RelInv
<1>1. PICK step \in {"cloning", "replace"} :
         /\ Goto(s, step) /\ clone' = (IF step = "cloning" THEN "part" ELSE "good")
         /\ work[s].at \in {"clone", "cloning"}
         /\ UNCHANGED <<source, staged, tmpLink, link, known, answer, rewritten, dropped>>
  BY Zenon DEF CloneStarts, CloneEnds, OpAt
<1>2. work[s] # NoJob /\ work[s].op = "stage" /\ source.kind = "git" /\ s = "job"
  <2>1. work[s].at # "none" /\ work[s].at \notin {"ln", "mv", "readlink"}
    BY <1>1, Zenon
  <2> QED
    BY <1>1, <2>1, StepTells, Zenon
<1>3. step \in StageSteps(source.kind)
  BY <1>2, Zenon DEF StageSteps
<1>4. work[s] \in Jobs /\ work[s].v \in Versions
  BY <1>2, Zenon DEF RelTypeOK, OpsInv, OnCourse, NoJob
<1> DEFINE j == [work[s] EXCEPT !.at = step]
<1>5. /\ j \in Jobs /\ j.at = step /\ j.op = work[s].op /\ j.v = work[s].v /\ j.got = work[s].got
      /\ j # NoJob
  BY <1>4, Zenon DEF Jobs, NoJob
<1>6. work' = [work EXCEPT ![s] = j]
  BY <1>1, Zenon DEF Goto
<1>7. work'[s] = j /\ \A t \in Slots : t # s => work'[t] = work[t]
  BY <1>6, Zenon DEF RelTypeOK
<1> HIDE DEF j
<1>8. OnCourse(s, j)
  BY <1>2, <1>3, <1>4, <1>5, Zenon DEF OnCourse
<1>9. InHandInv'
  <2>1. \A t \in Slots : work'[t].at \in {"write", "writing"} =>
           work'[t].got \in {"good", "bad"} /\ (source.sum => work'[t].got = "good")
    <3> TAKE t \in Slots
    <3>1. CASE t = s
      BY <1>5, <1>7, <3>1, Zenon
    <3>2. CASE t # s
      <4>1. work'[t] = work[t]
        BY <1>7, <3>2, Zenon
      <4> QED
        BY <4>1, Zenon DEF InHandInv
    <3> QED
      BY <3>1, <3>2, Zenon
  <2>2. work'["job"].at = step /\ work'["job"].op = "stage"
    BY <1>2, <1>5, <1>7, Zenon
  <2> QED
    BY <1>1, <2>1, <2>2, Zenon DEF InHandInv
<1>10. clone' \in {"none", "part", "good"} /\ tmpLink' \in Versions \cup {NoVersion} /\ rewritten \subseteq rewritten'
  BY <1>1, Zenon DEF RelTypeOK
<1> QED
  BY <1>1, <1>2, <1>5, <1>6, <1>8, <1>9, <1>10, SlotGoes, Zenon

(* release's download, verified in memory, keeps the invariant. *)
LEMMA FetchKept ==
  ASSUME RelInv, NEW s \in Slots, Fetch(s)
  PROVE  RelInv'
<1> RelTypeOK /\ OpsInv /\ InHandInv
  BY Zenon DEF RelInv
<1>1. UNCHANGED <<source, staged, clone, tmpLink, link, rewritten>> /\ work[s].at = "fetch"
  BY Zenon DEF Fetch, OpAt
<1>2. work[s] # NoJob /\ work[s].op = "stage" /\ source.kind = "release"
  BY <1>1, StepTells, Zenon
<1>3. CASE Return(s, "err")
  BY <1>1, <1>2, <1>3, ReturnKeeps, Zenon
<1>4. ASSUME NEW got \in {"good", "bad"}, source.sum => got = "good",
             work' = [work EXCEPT ![s].at = "write", ![s].got = got], UNCHANGED <<known, answer, dropped>>
      PROVE  RelInv'
  <2>1. work[s] \in Jobs /\ work[s].v \in Versions
    BY <1>2, Zenon DEF RelTypeOK, OpsInv, OnCourse, NoJob
  <2> DEFINE j == [work[s] EXCEPT !.at = "write", !.got = got]
  <2>2. /\ j \in Jobs /\ j.at = "write" /\ j.op = work[s].op /\ j.v = work[s].v /\ j.got = got
        /\ j # NoJob
    BY <2>1, Zenon DEF Jobs, NoJob
  <2>3. work' = [work EXCEPT ![s] = j]
    BY <1>4, Zenon DEF RelTypeOK
  <2>4. work'[s] = j /\ \A t \in Slots : t # s => work'[t] = work[t]
    BY <2>3, Zenon DEF RelTypeOK
  <2> HIDE DEF j
  <2>5. OnCourse(s, j)
    BY <1>2, <2>1, <2>2, Zenon DEF OnCourse, StageSteps
  <2>6. InHandInv'
    <3>1. \A t \in Slots : work'[t].at \in {"write", "writing"} =>
             work'[t].got \in {"good", "bad"} /\ (source.sum => work'[t].got = "good")
      <4> TAKE t \in Slots
      <4>1. CASE t = s
        BY <1>4, <2>2, <2>4, <4>1, Zenon
      <4>2. CASE t # s
        <5>1. work'[t] = work[t]
          BY <2>4, <4>2, Zenon
        <5> QED
          BY <5>1, Zenon DEF InHandInv
      <4> QED
        BY <4>1, <4>2, Zenon
    <3>2. CASE s = "job"
      BY <1>1, <1>2, <2>2, <2>4, <3>1, <3>2, Zenon DEF InHandInv
    <3>3. CASE s # "job"
      <4>1. work'["job"] = work["job"]
        BY <2>4, <3>3, Zenon DEF Slots
      <4>2. /\ work["job"].at = "sha256sum" =>
                 work["job"].v \in rewritten \/ staged[work["job"].v] \in {"good", "bad"}
            /\ work["job"].at \in {"replace", "rename"} => clone = "good"
            /\ work["job"].op = "activate" => work["job"].v \in known
        BY Zenon DEF InHandInv
      <4>3. work["job"].at = "mv" => source.kind # "pull"
        BY <1>2, Zenon
      <4> QED
        <5>1. source' = source /\ staged' = staged /\ clone' = clone /\ rewritten' = rewritten /\ known' = known
          BY <1>1, <1>4, Zenon
        <5> QED
          BY <3>1, <4>1, <4>2, <4>3, <5>1, Zenon DEF InHandInv
    <3> QED
      BY <3>2, <3>3, Zenon
  <2>7. clone' \in {"none", "part", "good"} /\ tmpLink' \in Versions \cup {NoVersion} /\ rewritten \subseteq rewritten'
    BY <1>1, Zenon DEF RelTypeOK
  <2> QED
    BY <1>1, <1>2, <1>4, <2>2, <2>3, <2>5, <2>6, <2>7, SlotGoes, Zenon
<1> QED
  BY <1>3, <1>4, Zenon DEF Fetch

(* The temporary link keeps the invariant. *)
LEMMA LinkTmpKept ==
  ASSUME RelInv, NEW s \in Slots, LinkTmp(s)
  PROVE  RelInv'
<1> RelTypeOK /\ OpsInv /\ InHandInv /\ SoundInv /\ AnswerInv
  BY Zenon DEF RelInv
<1>1. /\ UNCHANGED <<source, staged, clone, link>> /\ work[s].at = "ln"
      /\ tmpLink' = (IF source.kind = "pull" THEN work[s].v ELSE tmpLink)
      /\ rewritten' = (IF s = "loose" THEN rewritten \cup {work[s].v} ELSE rewritten)
      /\ NextCommand(s, "mv")
  BY Zenon DEF LinkTmp, OpAt
<1>2. work[s] # NoJob /\ work[s].op = "activate" /\ work[s].v \in Versions
  BY <1>1, StepTells, Zenon
<1>3. /\ tmpLink' \in Versions \cup {NoVersion} /\ rewritten \subseteq rewritten'
      /\ s = "loose" => tmpLink' \in {tmpLink, NoVersion} \cup rewritten'
  BY <1>1, <1>2, Zenon DEF RelTypeOK
<1>4. CASE s = "loose" /\ source.kind = "pull"
  <2>1. Return(s, "err")
    BY <1>1, <1>4, Zenon DEF NextCommand
  <2>2. /\ work' \in [Slots -> Jobs] /\ known' \subseteq Versions /\ dropped' \in BOOLEAN
        /\ work'[s] = NoJob /\ \A t \in Slots : t # s => work'[t] = work[t]
        /\ OpsInv' /\ AnswerInv'
    BY <1>1, <1>2, <1>4, <2>1, ReturnFrees, Zenon
  <2>3. UNCHANGED <<known, dropped>> /\ work'["job"] = work["job"]
    BY <1>4, <2>1, <2>2, Zenon DEF Return, Slots
  <2>4. RelTypeOK'
    BY <1>1, <1>3, <2>2, Zenon DEF RelTypeOK
  <2>5. InHandInv'
    BY <1>1, <1>2, <1>3, <1>4, <2>2, <2>3, ReturnLeavesInHand, Zenon
  <2>6. SoundInv'
    <3>1. LiveIsVerified' /\ \A v : Trusted(v) => Trusted(v)'
      BY <1>1, <1>3, Zenon DEF SoundInv, LiveIsVerified, Trusted, Whole
    <3> QED
      BY <2>3, <3>1, Zenon DEF SoundInv
  <2> QED
    BY <2>2, <2>4, <2>5, <2>6, Zenon DEF RelInv
<1>5. CASE ~(s = "loose" /\ source.kind = "pull")
  <2>1. Goto(s, "mv") /\ UNCHANGED <<known, answer, dropped>>
    BY <1>1, <1>5, Zenon DEF NextCommand
  <2>2. work[s] \in Jobs
    BY Zenon DEF RelTypeOK
  <2> DEFINE j == [work[s] EXCEPT !.at = "mv"]
  <2>3. /\ j \in Jobs /\ j.at = "mv" /\ j.op = work[s].op /\ j.v = work[s].v /\ j # NoJob
    BY <2>2, Zenon DEF Jobs, NoJob
  <2>4. work' = [work EXCEPT ![s] = j]
    BY <2>1, Zenon DEF Goto
  <2>5. work'[s] = j /\ \A t \in Slots : t # s => work'[t] = work[t]
    BY <2>4, Zenon DEF RelTypeOK
  <2> HIDE DEF j
  <2>6. OnCourse(s, j)
    BY <1>2, <2>3, Zenon DEF OnCourse
  <2>7. InHandInv'
    <3>1. \A t \in Slots : work'[t].at \in {"write", "writing"} =>
             work'[t].got \in {"good", "bad"} /\ (source.sum => work'[t].got = "good")
      <4> TAKE t \in Slots
      <4>1. CASE t = s
        BY <2>3, <2>5, <4>1, Zenon
      <4>2. CASE t # s
        <5>1. work'[t] = work[t]
          BY <2>5, <4>2, Zenon
        <5> QED
          BY <1>1, <5>1, Zenon DEF InHandInv
      <4> QED
        BY <4>1, <4>2, Zenon
    <3>2. CASE s = "job"
      <4>1. work["job"].v \in known
        BY <1>2, <3>2, Zenon DEF InHandInv
      <4> QED
        BY <1>1, <1>2, <2>1, <2>3, <2>5, <3>1, <3>2, <4>1, Zenon DEF InHandInv
    <3>3. CASE s = "loose"
      <4>1. work'["job"] = work["job"]
        BY <2>5, <3>3, Zenon DEF Slots
      <4>2. source.kind # "pull" /\ UNCHANGED tmpLink
        BY <1>1, <1>5, <3>3, Zenon
      <4>3. work["job"].at # "sha256sum" \/ work["job"].v \in rewritten' \/ staged'[work["job"].v] \in {"good", "bad"}
        BY <1>1, <1>3, Zenon DEF InHandInv
      <4>4. /\ work["job"].at \in {"replace", "rename"} => clone' = "good"
            /\ work["job"].op = "activate" => work["job"].v \in known'
        BY <1>1, <2>1, Zenon DEF InHandInv
      <4> QED
        BY <1>1, <3>1, <4>1, <4>2, <4>3, <4>4, Zenon DEF InHandInv
    <3> QED
      BY <3>2, <3>3, Zenon DEF Slots
  <2>8. clone' \in {"none", "part", "good"}
    BY <1>1, Zenon DEF RelTypeOK
  <2> QED
    BY <1>1, <1>2, <1>3, <2>1, <2>3, <2>4, <2>6, <2>7, <2>8, SlotGoes, Zenon
<1> QED
  BY <1>4, <1>5, Zenon

(* The rename over the active link keeps the invariant. *)
LEMMA SwapLinkKept ==
  ASSUME RelInv, NEW s \in Slots, SwapLink(s)
  PROVE  RelInv'
<1> RelTypeOK /\ OpsInv /\ InHandInv /\ SoundInv /\ AnswerInv
  BY Zenon DEF RelInv
<1> DEFINE named == IF source.kind = "pull" THEN tmpLink ELSE work[s].v
<1>1. /\ UNCHANGED <<source, staged, clone>> /\ work[s].at = "mv"
      /\ tmpLink' = (IF source.kind = "pull" THEN NoVersion ELSE tmpLink)
      /\ rewritten' = (IF s = "loose" THEN rewritten \cup {named} ELSE rewritten)
      /\ \/ named = NoVersion /\ Return(s, "err") /\ UNCHANGED link
         \/ named # NoVersion /\ Return(s, "ok") /\ link' = named
  BY Zenon DEF SwapLink, OpAt
<1>2. work[s] # NoJob /\ work[s].op = "activate" /\ work[s].v \in Versions
  BY <1>1, StepTells, Zenon
<1>3. s = "job" => named \in {NoVersion, work[s].v} \cup rewritten /\ (~dropped => named \in {NoVersion, work[s].v})
  BY <1>1, Zenon DEF InHandInv
<1>4. named \in Versions \cup {NoVersion}
  BY <1>2, Zenon DEF RelTypeOK
<1> HIDE DEF named
<1>5. PICK res \in {"ok", "err"} :
         /\ Return(s, res)
         /\ res = "ok" => named # NoVersion /\ link' = named
         /\ res = "err" => UNCHANGED link
  BY <1>1, Zenon
<1>6. /\ work' \in [Slots -> Jobs] /\ known' \subseteq Versions /\ dropped' \in BOOLEAN
      /\ work'[s] = NoJob /\ \A t \in Slots : t # s => work'[t] = work[t]
      /\ OpsInv' /\ AnswerInv'
  <2>1. ~dropped /\ s = "job" /\ res = "ok" => link' = work[s].v
    BY <1>3, <1>5, Zenon
  <2> QED
    BY <1>1, <1>2, <1>5, <2>1, ReturnFrees, Zenon
<1>7. UNCHANGED <<known, dropped>>
  BY <1>2, <1>5, Zenon DEF Return
<1>8. RelTypeOK'
  <2>1. link' \in Versions \cup {NoVersion} /\ tmpLink' \in Versions \cup {NoVersion}
    BY <1>1, <1>4, <1>5, Zenon DEF RelTypeOK
  <2> QED
    BY <1>1, <1>6, <2>1, Zenon DEF RelTypeOK
<1>9. rewritten \subseteq rewritten' /\ (s = "loose" => named \in rewritten')
  BY <1>1, Zenon
<1>10. InHandInv'
  BY <1>1, <1>2, <1>6, <1>7, <1>9, ReturnLeavesInHand, Zenon
<1>11. SoundInv'
  <2>1. \A v : Trusted(v) => Trusted(v)'
    BY <1>1, <1>9, Zenon DEF Trusted, Whole
  <2>2. work[s].op # "stage" /\ (s = "loose" => work'["job"] = work["job"])
    BY <1>2, <1>6, Zenon DEF Slots
  <2>3. \A v \in known' : Trusted(v)' \/ (work'["job"].op = "stage" /\ work'["job"].v = v)
    BY <1>7, <2>1, <2>2, Zenon DEF SoundInv, Slots
  <2>4. LiveIsVerified'
    <3>1. CASE res = "err"
      BY <1>1, <1>5, <1>9, <3>1, Zenon DEF SoundInv, LiveIsVerified
    <3>2. CASE res = "ok" /\ s = "loose"
      BY <1>5, <1>9, <3>2, Zenon DEF LiveIsVerified
    <3>3. CASE res = "ok" /\ s = "job"
      <4>1. Trusted(named)
        <5>1. named \in rewritten \/ named = work["job"].v
          BY <1>3, <1>5, <3>3, Zenon
        <5>2. work["job"].v \in known /\ work["job"].op # "stage"
          BY <1>2, <3>3, Zenon DEF InHandInv
        <5>3. Trusted(work["job"].v)
          BY <5>2, Zenon DEF SoundInv
        <5> QED
          BY <5>1, <5>3, Zenon DEF Trusted
      <4>2. link' = named /\ rewritten' = rewritten /\ staged' = staged /\ source' = source
        BY <1>1, <1>5, <3>3, Zenon
      <4> QED
        BY <4>1, <4>2, Zenon DEF LiveIsVerified, Trusted, Whole
    <3> QED
      BY <3>1, <3>2, <3>3, Zenon DEF Slots
  <2> QED
    BY <2>3, <2>4, Zenon DEF SoundInv
<1> QED
  BY <1>6, <1>8, <1>10, <1>11, Zenon DEF RelInv

(* The start of an operation keeps the invariant. *)
LEMMA BeginOpKept ==
  ASSUME RelInv, NEW op \in {"stage", "activate", "current"}, NEW v \in Versions \cup {NoVersion},
         BeginOp(op, v)
  PROVE  RelInv'
<1> RelTypeOK /\ OpsInv /\ InHandInv /\ SoundInv /\ AnswerInv
  BY Zenon DEF RelInv
<1>1. "job" \in Slots /\ "loose" \in Slots /\ \A t \in Slots : t = "job" \/ t = "loose"
  BY Zenon DEF Slots
<1>2. source.kind \in {"pull", "release", "git", "local"}
  BY Zenon DEF RelTypeOK, Sources
<1>3. /\ work["job"] = NoJob /\ answer' = NoAnswer /\ dropped' = (work["loose"] # NoJob)
      /\ op = "activate" => v \in known
      /\ op = "current" => v = NoVersion
      /\ op = "stage" => v \in Versions
      /\ known' = (IF op = "stage" THEN {link} \ {NoVersion} ELSE known)
      /\ UNCHANGED <<source, staged, clone, tmpLink, link, rewritten>>
  BY Zenon DEF BeginOp
<1>4. /\ op = "stage" => FirstStep(op) \in StageSteps(source.kind) /\ FirstStep(op) \in {"curl", "fetch", "clone", "remove"}
      /\ op = "activate" => FirstStep(op) = "ln"
      /\ op = "current" => FirstStep(op) = "readlink"
  BY <1>2, Zenon DEF FirstStep, StageSteps
<1> DEFINE j == [NoJob EXCEPT !.op = op, !.v = v, !.at = FirstStep(op)]
<1>5. j \in Jobs /\ j.op = op /\ j.v = v /\ j.at = FirstStep(op) /\ j # NoJob
  <2>1. FirstStep(op) \in {"ln", "readlink", "curl", "fetch", "clone", "remove"}
    BY <1>4, Zenon
  <2> HIDE DEF FirstStep
  <2> QED
    BY <2>1, Zenon DEF NoJob, Jobs
<1>6. work' = [work EXCEPT !["job"] = j]
  BY Zenon DEF BeginOp
<1> HIDE DEF j
<1>7. work' \in [Slots -> Jobs] /\ work'["job"] = j /\ work'["loose"] = work["loose"]
  BY <1>1, <1>5, <1>6, Zenon DEF RelTypeOK
<1>8. RelTypeOK'
  <2>1. known' \subseteq Versions
    BY <1>3, Zenon DEF RelTypeOK
  <2>2. dropped' \in BOOLEAN
    BY <1>3, Zenon
  <2> QED
    BY <1>3, <1>7, <2>1, <2>2, Zenon DEF RelTypeOK
<1>9. OpsInv'
  <2>1. v \in Versions \/ op = "current"
    BY <1>3, Zenon DEF RelTypeOK
  <2>2. OnCourse("job", j)
    BY <1>3, <1>4, <1>5, <2>1, Zenon DEF OnCourse
  <2>3. OnCourse("loose", work["loose"])
    BY <1>1, Zenon DEF OpsInv
  <2>4. \A t \in Slots : OnCourse(t, work'[t])
    BY <1>1, <1>7, <2>2, <2>3, Zenon
  <2> QED
    BY <1>3, <1>7, <2>4, Zenon DEF OpsInv, OnCourse
<1>10. InHandInv'
  <2>1. j.at \in {"ln", "readlink", "curl", "fetch", "clone", "remove"}
    BY <1>4, <1>5, Zenon
  <2>2. \A t \in Slots : work'[t].at \in {"write", "writing"} =>
           work'[t].got \in {"good", "bad"} /\ (source.sum => work'[t].got = "good")
    BY <1>1, <1>7, <2>1, ZenonT(30) DEF InHandInv
  <2>3. j.op = "activate" => j.v \in known'
    BY <1>3, <1>5, Zenon
  <2> QED
    BY <1>3, <1>7, <2>1, <2>2, <2>3, Zenon DEF InHandInv
<1>11. SoundInv'
  <2>1. LiveIsVerified' /\ \A w : Trusted(w)' = Trusted(w)
    BY <1>3, Zenon DEF SoundInv, LiveIsVerified, Trusted, Whole
  <2>2. link # NoVersion => Trusted(link)
    BY Zenon DEF SoundInv, LiveIsVerified, Trusted, Whole
  <2>3. \A w \in known : Trusted(w)
    BY <1>3 DEF SoundInv, NoJob
  <2>4. \A w \in known' : Trusted(w)
    BY <1>3, <2>2, <2>3, Zenon
  <2> QED
    BY <2>1, <2>4, Zenon DEF SoundInv
<1>12. AnswerInv'
  <2>1. AnswersHold'
    BY <1>3, Zenon DEF AnswersHold, NoAnswer
  <2> QED
    BY <1>3, <1>7, <2>1, Zenon DEF AnswerInv
<1> QED
  BY <1>8, <1>9, <1>10, <1>11, <1>12, Zenon DEF RelInv

(* A connection that drops and a controller that dies leave the step to    *)
(* itself, or end it, and keep the invariant.                              *)
LEMMA CutKept ==
  ASSUME RelInv, ConnectionLost \/ ControllerDies
  PROVE  RelInv'
<1> RelTypeOK /\ OpsInv /\ InHandInv /\ SoundInv /\ AnswerInv
  BY Zenon DEF RelInv
<1>1. "job" \in Slots /\ "loose" \in Slots /\ \A t \in Slots : t = "job" \/ t = "loose"
  BY Zenon DEF Slots
<1>2. UNCHANGED <<source, staged, clone, tmpLink, link, rewritten>> /\ work["job"] # NoJob
  BY Zenon DEF ConnectionLost, ControllerDies
<1>3. PICK j \in {NoJob, work["job"], work["loose"]} :
         /\ work' = [work EXCEPT !["job"] = NoJob, !["loose"] = j]
         /\ j \in {NoJob, work["loose"]} \/ (j = work["job"] /\ source.remote /\ j.op # "current")
  <2>1. CASE ConnectionLost
    BY <2>1, <1>2, Zenon DEF ConnectionLost, OverSsh
  <2>2. CASE ControllerDies
    <3> DEFINE k == IF source.remote /\ work["job"].op # "current" /\ work["loose"] = NoJob
                    THEN work["job"] ELSE work["loose"]
    <3>1. work' = [work EXCEPT !["job"] = NoJob, !["loose"] = k]
      BY <2>2, Zenon DEF ControllerDies, OverSsh, RelTypeOK, Slots
    <3>2. k \in {NoJob, work["loose"]} \/ (k = work["job"] /\ source.remote /\ k.op # "current")
      BY Zenon
    <3> QED
      BY <3>1, <3>2, Zenon
  <2> QED
    BY <2>1, <2>2, Zenon
<1>4. NoJob \in Jobs /\ j \in Jobs
  <2>1. NoJob \in Jobs
    BY Zenon DEF NoJob, Jobs
  <2> QED
    BY <1>1, <1>3, <2>1, Zenon DEF RelTypeOK
<1>5. work' \in [Slots -> Jobs] /\ work'["job"] = NoJob /\ work'["loose"] = j
  BY <1>1, <1>3, <1>4, Zenon DEF RelTypeOK
<1>6. known' \in {known, {}} /\ dropped' \in {dropped, TRUE}
  BY Zenon DEF ConnectionLost, ControllerDies
<1>7. RelTypeOK'
  <2>1. known' \subseteq Versions /\ dropped' \in BOOLEAN
    BY <1>6, Zenon DEF RelTypeOK
  <2> QED
    BY <1>2, <1>5, <2>1, Zenon DEF RelTypeOK
<1>8. OpsInv'
  <2>1. OnCourse("job", work["job"]) /\ OnCourse("loose", work["loose"])
    BY <1>1, Zenon DEF OpsInv
  <2>2. OnCourse("loose", j) /\ OnCourse("job", NoJob)
    BY <1>3, <2>1, Zenon DEF OnCourse
  <2>3. \A t \in Slots : OnCourse(t, work'[t])
    BY <1>1, <1>5, <2>2, Zenon
  <2>4. ~source.remote => j = NoJob
    BY <1>3, Zenon DEF OpsInv
  <2> QED
    BY <1>2, <1>5, <2>3, <2>4, Zenon DEF OpsInv, OnCourse
<1>9. InHandInv'
  <2>1. NoJob.at = "none" /\ NoJob.op = "none"
    BY Zenon DEF NoJob
  <2>2. \A t \in Slots : work'[t].at \in {"write", "writing"} =>
           work'[t].got \in {"good", "bad"} /\ (source.sum => work'[t].got = "good")
    BY <1>1, <1>3, <1>5, <2>1, ZenonT(30) DEF InHandInv
  <2> QED
    BY <1>2, <1>5, <2>1, <2>2, Zenon DEF InHandInv
<1>10. SoundInv'
  <2>1. LiveIsVerified' /\ \A w : Trusted(w)' = Trusted(w)
    BY <1>2, Zenon DEF SoundInv, LiveIsVerified, Trusted, Whole
  <2>2. known' = {} \/ (known' = known /\ work["job"].op # "stage")
    BY Zenon DEF ConnectionLost, ControllerDies
  <2>3. \A w \in known' : Trusted(w)
    BY <2>2, Zenon DEF SoundInv
  <2> QED
    BY <2>1, <2>3, Zenon DEF SoundInv
<1>11. AnswerInv'
  <2>1. CASE ConnectionLost
    BY <1>5, <2>1, Zenon DEF ConnectionLost, AnswerInv, AnswersHold
  <2>2. CASE ControllerDies
    <3>1. answer' = NoAnswer
      BY <2>2, Zenon DEF ControllerDies
    <3>2. AnswersHold'
      BY <3>1, Zenon DEF AnswersHold, NoAnswer
    <3> QED
      BY <1>5, <3>1, <3>2, Zenon DEF AnswerInv
  <2> QED
    BY <2>1, <2>2, Zenon
<1> QED
  BY <1>7, <1>8, <1>9, <1>10, <1>11, Zenon DEF RelInv

(* A step that only answers keeps the invariant. *)
LEMMA AnswersKept ==
  ASSUME RelInv, ReadLink("job") \/ JobFails \/ LooseFails
  PROVE  RelInv'
<1> RelTypeOK /\ OpsInv
  BY Zenon DEF RelInv
<1>1. "job" \in Slots /\ "loose" \in Slots
  BY Zenon DEF Slots
<1>2. CASE ReadLink("job")
  <2>1. work["job"] # NoJob
    BY <1>1, <1>2 DEF ReadLink, OpAt, NoJob
  <2>2. PICK res \in {"nothing", "active"} : Return("job", res) /\ (res = "nothing" => link = NoVersion)
    BY <1>2, Zenon DEF ReadLink
  <2> QED
    BY <1>1, <1>2, <2>1, <2>2, ReturnKeeps, Zenon DEF ReadLink
<1>3. CASE JobFails
  BY <1>1, <1>3, ReturnKeeps, Zenon DEF JobFails
<1>4. CASE LooseFails
  BY <1>1, <1>4, ReturnKeeps, Zenon DEF LooseFails
<1> QED
  BY <1>2, <1>3, <1>4, Zenon

(* Every step of an artifact adapter, its faults among them, keeps the     *)
(* invariant.                                                              *)
LEMMA RelNextInv == RelInv /\ [RelNext]_relVars => RelInv'
<1> SUFFICES ASSUME RelInv, [RelNext]_relVars PROVE RelInv'
  BY Zenon
<1>1. ASSUME NEW s \in Slots, StageStep(s) PROVE RelInv'
  BY <1>1, PullKept, WritersKept, CloneKept, FetchKept, Zenon DEF StageStep
<1>2. CASE RelNext
  BY <1>1, <1>2, BeginOpKept, LinkTmpKept, SwapLinkKept, CutKept, AnswersKept, Zenon DEF RelNext
<1>3. CASE UNCHANGED relVars
  <2>1. /\ UNCHANGED <<source, staged, clone, tmpLink, link>>
        /\ UNCHANGED <<work, known, answer, rewritten, dropped>>
    BY <1>3, Zenon DEF relVars
  <2>2. RelTypeOK' /\ OpsInv' /\ InHandInv'
    BY <2>1, ZenonT(30) DEF RelInv, RelTypeOK, OpsInv, OnCourse, InHandInv
  <2>3. SoundInv' /\ AnswerInv'
    BY <2>1, Zenon DEF RelInv, SoundInv, LiveIsVerified, Trusted, Whole, AnswerInv, AnswersHold
  <2> QED
    BY <2>2, <2>3, Zenon DEF RelInv
<1> QED
  BY <1>2, <1>3, Zenon

(* What a deploy made live is whole and verified: for any set of releases, *)
(* every source, and a controller that dies or is cut off between any two  *)
(* steps of stage and activate.                                            *)
THEOREM LiveStaysVerified == RelSpec => []LiveIsVerified
<1>1. RelInv => LiveIsVerified
  BY Zenon DEF RelInv, SoundInv
<1> QED
  BY <1>1, RelInitInv, RelNextInv, PTL DEF RelSpec

(* activate's Ok and current's None mean what they say, unless a           *)
(* connection was lost.                                                    *)
THEOREM AnswersAreTrue == RelSpec => []AnswersHold
<1>1. RelInv => AnswersHold
  BY Zenon DEF RelInv, AnswerInv
<1> QED
  BY <1>1, RelInitInv, RelNextInv, PTL DEF RelSpec

=============================================================================
