------------------------------ MODULE Preflight ------------------------------
(***************************************************************************)
(* The preflight step of the three deploy flows of fraisier-core           *)
(* (single_host.rs, multi_host.rs, blue_green.rs): database readiness, the *)
(* inspection of the migration adapter, the policy gate, the               *)
(* forward-compatibility lint, the restore rehearsal on a throwaway copy   *)
(* of the database, the reachability of the hosts and the connection       *)
(* budget, in each flow's order.                                           *)
(*                                                                         *)
(* The migration adapter, the approver and the databases are external:     *)
(* what they answer is chosen at the step that asks.                       *)
(***************************************************************************)
EXTENDS PolicyGate

VARIABLES flow,      \* the flow and its configuration
          policy,    \* the [policy] section, or NoPolicy
          wired,     \* an approval hook is wired into the gate
          stage,     \* the next check
          caps,      \* what the adapter advertises
          deep,      \* it advertises deep classification
          report,    \* its preflight report
          copy,      \* the throwaway: "none", "up", "dropped", "leaked"
                     \* or "abandoned" while it was filled
          seen,      \* the database the report is about
          probe,     \* what the readiness probe said
          budget,    \* the connection counts the budget judged, and its verdict
          approval,  \* what became of the approval command
          rehearsed, \* the pending migrations applied on the throwaway
          verdict,   \* "none", "passed" or "refused"
          warned     \* a leaked throwaway was reported

setup == <<flow, policy, wired>>
facts == <<caps, deep, report, seen, probe>>
pfVars == <<setup, stage, facts, budget, copy, approval, rehearsed, verdict, warned>>

Counts == 0 .. MaxU32
NoBudget == [max |-> 0, current |-> 0, pool |-> 0, margin |-> 0, verdict |-> "none"]
NoCaps == [preflight |-> FALSE, risk_tier |-> FALSE, window_safe |-> FALSE]

(* PreflightMode, a rehearsal named by where its copy comes from.          *)
PreflightModes == {"Off", "Live", "fresh", "archive"}

(* resolve_preflight(): no rehearsal without the lint.                     *)
Flows == [strategy : {"single"}, rollback : BOOLEAN, mode : PreflightModes]
         \cup [strategy : {"multi"}, rollback : {FALSE}, mode : {"Off", "Live"}]
         \cup [strategy : {"blue-green"}, rollback : {FALSE}, mode : {"Live"}]

PFInit ==
    /\ flow \in Flows
    /\ policy \in Policies \cup {NoPolicy}
    /\ wired \in BOOLEAN /\ (wired => policy.hook)
    /\ stage = "readiness"
    /\ caps = NoCaps /\ deep = FALSE /\ report = NoReport
    /\ copy = "none" /\ seen = "none" /\ probe = "none" /\ budget = NoBudget
    /\ approval = "none" /\ rehearsed = FALSE
    /\ verdict = "none" /\ warned = FALSE

-----------------------------------------------------------------------------
Single == flow.strategy = "single"
Rehearses == flow.mode \in {"fresh", "archive"} /\ ~flow.rollback
DeepRehearsal == flow.mode = "fresh" /\ ~flow.rollback

(* Goes on at the next check, or fails: a throwaway is torn down first.    *)
Continue(next) == stage' = next /\ UNCHANGED verdict
Refuse == /\ verdict' = "refused"
          /\ stage' = IF copy' = "up" THEN "teardown" ELSE "done"
Pass == /\ verdict' = "passed"
        /\ stage' = IF copy' = "up" THEN "teardown" ELSE "done"

(* Mutant: an error of the probe is kept as if it were an answer.          *)
ReadinessKeepsError ==
    /\ stage = "readiness"
    /\ probe' \in {"undeclared", "ready", "unready", "error"}
    /\ UNCHANGED <<setup, budget, caps, deep, report, seen, copy, approval, rehearsed, warned>>
    /\ Continue(IF DeepRehearsal THEN "describe" ELSE "inspect")

(* readiness::check(), unless nothing is declared; a deliberate rollback   *)
(* skips it.  A probe that cannot run refuses.                             *)
Readiness ==
    /\ stage = "readiness"
    /\ probe' \in IF flow.rollback THEN {"undeclared"}
                  ELSE {"undeclared", "ready", "unready", "unknown"}
    /\ UNCHANGED <<setup, budget, caps, deep, report, seen, copy, approval, rehearsed, warned>>
    /\ IF probe' \in {"undeclared", "ready"}
       THEN Continue(IF DeepRehearsal THEN "describe" ELSE "inspect")
       ELSE Refuse

(* The deep preflight: describe, and provision the throwaway first.        *)
Describe ==
    /\ stage = "describe"
    /\ UNCHANGED <<setup, budget, report, seen, probe, copy, approval, rehearsed, warned>>
    /\ \/ /\ caps' \in Capabilities /\ deep' \in BOOLEAN
          /\ Continue(IF deep' THEN "provision" ELSE "inspect")
       \/ UNCHANGED <<caps, deep>> /\ Refuse

(* PgRehearsalDb: room is made sure of before a dump.  A copy that could   *)
(* not be filled is dropped at best: the error of that drop is discarded.  *)
Fill(next) ==
    \/ copy' = "up" /\ Continue(next)
    \/ copy' \in {"none", "dropped", "abandoned"} /\ Refuse

Provision ==
    /\ stage = "provision" /\ Fill("inspect")
    /\ UNCHANGED <<setup, budget, facts, approval, rehearsed, warned>>

(* inspect(): nothing is asked when the lint is off; otherwise preflight   *)
(* runs when it is advertised.  An adapter error refuses.                  *)
Inspect ==
    /\ stage = "inspect"
    /\ UNCHANGED <<setup, budget, deep, probe, copy, approval, rehearsed, warned>>
    /\ \/ /\ flow.mode = "Off"
          /\ UNCHANGED <<caps, report, seen>>
          /\ Continue("gate")
       \/ /\ flow.mode # "Off"
          /\ IF DeepRehearsal THEN UNCHANGED caps ELSE caps' \in Capabilities
          /\ report' \in IF caps'.preflight
                         THEN {r \in Reports : r.set # "usable" => r.changes = {}}
                         ELSE {NoReport}
          /\ seen' = IF copy = "up" THEN "throwaway" ELSE "live"
          /\ Continue("gate")
       \/ /\ flow.mode # "Off"
          /\ UNCHANGED <<caps, report, seen>>
          /\ Refuse

(* ExecApproval: the command exits 0 or not, is silent until its time is   *)
(* over, or never runs.                                                    *)
HookAnswers == {"yes", "no", "silent", "unspawned"}

(* Mutant: silence is consent.                                             *)
RequestOrSilence(answer) == answer \in {"yes", "silent"}

Request(answer) == answer = "yes"

(* run_policy_gate() and admit().  A deliberate rollback is not gated; an  *)
(* approval nobody can give is a refusal.                                  *)
AfterGate == IF flow.strategy = "blue-green" THEN "budget" ELSE "lint"
Baseline == IF flow.strategy = "blue-green" THEN "WindowSafety" ELSE "None"
Decision == Evaluate(policy, Baseline, caps, report)

Gate ==
    /\ stage = "gate"
    /\ UNCHANGED <<setup, budget, facts, copy, rehearsed, warned>>
    /\ \/ /\ flow.rollback \/ Decision = "Allow"
          /\ UNCHANGED approval
          /\ Continue(AfterGate)
       \/ /\ ~flow.rollback /\ (Decision = "Deny" \/ (Decision = "NeedsApproval" /\ ~wired))
          /\ UNCHANGED approval
          /\ Refuse
       \/ /\ ~flow.rollback /\ Decision = "NeedsApproval" /\ wired
          /\ approval' \in HookAnswers
          /\ IF Request(approval') THEN Continue(AfterGate) ELSE Refuse

(* run_forward_compat_lint(): no report, no lint.  Multi-host then probes  *)
(* every host.                                                             *)
Lint ==
    /\ stage = "lint"
    /\ UNCHANGED <<setup, budget, facts, copy, approval, rehearsed, warned>>
    /\ IF report.blocking THEN Refuse
       ELSE IF Rehearses THEN Continue("rehearse")
       ELSE IF Single THEN Pass
       ELSE Continue("hosts")

ProbeHosts ==
    /\ stage = "hosts"
    /\ UNCHANGED <<setup, budget, facts, copy, approval, rehearsed, warned>>
    /\ Pass \/ Refuse

(* The connection budget, when a probe is configured.                      *)
CheckBudget ==
    /\ stage = "budget"
    /\ UNCHANGED <<setup, facts, copy, approval, rehearsed, warned>>
    /\ \/ UNCHANGED budget /\ (Pass \/ Refuse)
       \/ \E max, current, pool, margin \in Counts :
             LET answer == Budget(max, current, pool, margin) IN
             /\ budget' = [max |-> max, current |-> current, pool |-> pool,
                           margin |-> margin, verdict |-> answer]
             /\ IF answer = "Refuse" THEN Refuse ELSE Pass

-----------------------------------------------------------------------------
(* The rehearsal: on the deep preflight's throwaway, or on one of its own. *)
ProvisionToRehearse ==
    /\ stage = "rehearse" /\ copy = "none" /\ Fill("rehearse")
    /\ UNCHANGED <<setup, budget, facts, approval, rehearsed, warned>>

(* Mutant: a failed rehearsal returns before the teardown.                 *)
RehearseReturnsEarly ==
    /\ stage = "rehearse" /\ copy = "up"
    /\ UNCHANGED <<setup, budget, facts, copy, approval, warned>>
    /\ \/ rehearsed' = TRUE /\ Pass
       \/ UNCHANGED rehearsed /\ verdict' = "refused" /\ stage' = "done"

Rehearse ==
    /\ stage = "rehearse" /\ copy = "up"
    /\ UNCHANGED <<setup, budget, facts, copy, approval, warned>>
    /\ \/ rehearsed' = TRUE /\ Pass
       \/ UNCHANGED rehearsed /\ Refuse

(* The throwaway is dropped whatever happened.  A failed drop is a warning *)
(* on the run, except after a rehearsal of its own failed: that error      *)
(* takes precedence.                                                       *)
Teardown ==
    /\ stage = "teardown"
    /\ stage' = "done"
    /\ \/ copy' = "dropped" /\ UNCHANGED warned
       \/ copy' = "leaked" /\ warned' = (deep \/ verdict = "passed")
    /\ UNCHANGED <<setup, budget, facts, approval, rehearsed, verdict>>

PFNext ==
    \/ Readiness \/ Describe \/ Provision \/ Inspect \/ Gate \/ Lint \/ ProbeHosts
    \/ CheckBudget \/ ProvisionToRehearse \/ Rehearse \/ Teardown

PFSpec == PFInit /\ [][PFNext]_pfVars

-----------------------------------------------------------------------------
(* Properties.                                                             *)

(* Every variable has its type. *)
PFTypeOK ==
    /\ flow \in Flows /\ policy \in Policies \cup {NoPolicy} /\ wired \in BOOLEAN
    /\ stage \in {"readiness", "describe", "provision", "inspect", "gate", "lint", "hosts",
                  "budget", "rehearse", "teardown", "done"}
    /\ caps \in Capabilities /\ report \in Reports \cup {NoReport}
    /\ copy \in {"none", "up", "dropped", "leaked", "abandoned"}
    /\ seen \in {"none", "live", "throwaway"}
    /\ probe \in {"none", "undeclared", "ready", "unready", "unknown"}
    /\ budget \in [max : Counts, current : Counts, pool : Counts, margin : Counts,
                   verdict : {"none", "Ok", "Warn", "Refuse"}]
    /\ approval \in {"none"} \cup HookAnswers
    /\ {deep, rehearsed, warned} \subseteq BOOLEAN
    /\ verdict \in {"none", "passed", "refused"}

Passed == stage = "done" /\ verdict = "passed"

Classified == caps.risk_tier /\ report.present /\ report.set = "usable"
Mapped(change) == IF change \in Tiers THEN policy.actions[change] ELSE policy.unclassified

(* "Every way of not knowing resolves to a refusal, because absence is     *)
(* never safety" (evaluate): with a [policy], a forward deploy passes only *)
(* when a report exists, and either every change in it has a tier that the *)
(* policy applies automatically, or an approver said yes to a set in which *)
(* the policy denies nothing.                                              *)
PolicyVouches ==
    Passed /\ policy.configured /\ ~flow.rollback =>
        /\ report.present
        /\ \/ Classified /\ \A c \in report.changes : c \in Tiers /\ Mapped(c) = "AutoApply"
           \/ /\ approval = "yes"
              /\ report.set # "future" \/ ~caps.risk_tier
              /\ Classified => \A c \in report.changes : Mapped(c) \in {"AutoApply", "RequireApproval"}
              /\ ~Classified => policy.unclassified = "RequireApproval"

(* Blue-green moves nothing unless the adapter says it can judge the       *)
(* two-version window and judged it safe, with or without a [policy].      *)
WindowCertified ==
    Passed /\ flow.strategy = "blue-green" =>
        caps.preflight /\ caps.window_safe /\ report.window_safe = "true"

(* Nothing passes unchecked: a declared readiness was confirmed, an asked  *)
(* rehearsal really applied the migrations, where the report was made it   *)
(* has no blocking issue (blue-green leaves those to the window rule), and *)
(* the gate and the rehearsal of a deep preflight were about one database: *)
(* a classification is never made on the live database once a throwaway    *)
(* stands, nor on a throwaway made from an archive.                        *)
PassedMeansChecked ==
    Passed =>
        /\ probe \in {"undeclared", "ready"}
        /\ Rehearses => rehearsed
        /\ report.blocking => flow.strategy = "blue-green"
        /\ rehearsed => (seen = "throwaway") = (deep /\ flow.mode = "fresh")

(* A preflight that is over has torn its throwaway down or tried to, and a *)
(* failed drop is in the run's warnings, with two exceptions.  Both are    *)
(* refusals: the error of a rehearsal on a copy of its own hides the       *)
(* teardown's, and a copy that could not be filled may stay behind with no *)
(* word of it.  So a deploy that goes on never leaves one unreported.      *)
ThrowawayAccountedFor ==
    stage = "done" =>
        /\ copy # "up"
        /\ copy = "leaked" => warned \/ (verdict = "refused" /\ seen = "live")
        /\ copy = "abandoned" => verdict = "refused" /\ ~rehearsed /\ seen # "throwaway"

(* "current + green_pool would exceed max_connections: it hard-refuses      *)
(* before the swap" (connection_budget.rs): below the largest ceiling,     *)
(* saturation never lets a sum through, the deploy is refused exactly when *)
(* the second fleet does not fit, and it is quiet only with the margin to  *)
(* spare (or with no connection at all).                                   *)
BudgetExact ==
    LET sum == budget.current + budget.pool IN
    budget.verdict # "none" /\ budget.max < MaxU32 =>
        /\ (verdict = "refused") = (sum > budget.max)
        /\ (budget.verdict = "Ok") = (sum + budget.margin <= budget.max \/ sum = 0)

(* A preflight that passes vouches for the change, for the window, for     *)
(* what it checked it on, and for the room of the second fleet.            *)
PreflightVouches == PFTypeOK /\ PolicyVouches /\ WindowCertified /\ PassedMeansChecked /\ BudgetExact
=============================================================================
