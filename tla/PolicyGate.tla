----------------------------- MODULE PolicyGate -----------------------------
(***************************************************************************)
(* The schema policy gate of fraisier-core (policy.rs): one decision over  *)
(* what the migration adapter advertises and what its preflight reported.  *)
(* And the connection budget (connection_budget.rs) of a blue-green deploy.*)
(*                                                                         *)
(* A change is its risk tier, or "unclassified" when its tier is one this  *)
(* build does not know.  A change-set is the set of the tiers in it; how   *)
(* many changes have a tier only matters to the wording of a refusal.      *)
(***************************************************************************)
EXTENDS Naturals, FiniteSets

CONSTANT Tiers   \* the risk tiers

ASSUME TiersAssumption == "unclassified" \notin Tiers /\ IsFiniteSet(Tiers)

Changes == Tiers \cup {"unclassified"}

(* PolicyAction, least severe first.                                       *)
Severity(action) ==
    CASE action = "AutoApply" -> 0 [] action = "RequireApproval" -> 1 [] action = "Deny" -> 2

(* Policy: an action for each tier ("absent": the tier is not in the map), *)
(* what to do with the unclassified, and whether an approval hook is       *)
(* declared.  NoPolicy: there is no [policy] section.                      *)
Policies == [configured : {TRUE},
             actions : [Tiers -> {"AutoApply", "RequireApproval", "Deny", "absent"}],
             unclassified : {"RequireApproval", "Deny"},
             hook : BOOLEAN]
NoPolicy == [configured |-> FALSE, actions |-> [t \in Tiers |-> "absent"],
             unclassified |-> "Deny", hook |-> FALSE]

Capabilities == [preflight : BOOLEAN, risk_tier : BOOLEAN, window_safe : BOOLEAN]

(* Whether a change-set came with a report, and one that this build can    *)
(* read ("future": a newer contract version); an unreadable one is none.   *)
ChangeSets == {"usable", "missing", "future"}

(* PreflightReport.                                                        *)
Reports == [present : {TRUE},
            window_safe : {"true", "false", "none"},
            set : ChangeSets,
            changes : SUBSET Changes,
            blocking : BOOLEAN]
NoReport == [present |-> FALSE, window_safe |-> "none", set |-> "missing",
             changes |-> {}, blocking |-> FALSE]

-----------------------------------------------------------------------------
(* Mutant: a tier the policy does not mention is applied.                  *)
ActionForLenient(policy, change) ==
    IF change = "unclassified" THEN policy.unclassified
    ELSE IF policy.actions[change] = "absent" THEN "AutoApply" ELSE policy.actions[change]

(* action_for(): a tier the policy does not mention is denied.             *)
ActionFor(policy, change) ==
    IF change = "unclassified" THEN policy.unclassified
    ELSE IF policy.actions[change] = "absent" THEN "Deny" ELSE policy.actions[change]

(* worst(): AutoApply for no action at all.                                *)
Worst(actions) ==
    IF actions = {} THEN "AutoApply"
    ELSE CHOOSE a \in actions : \A b \in actions : Severity(b) <= Severity(a)

(* assemble(): the decision the worst action stands for.                   *)
Assemble(policy, actions) ==
    LET worst == Worst(actions) IN
    CASE worst = "AutoApply" -> "Allow"
      [] worst = "RequireApproval" -> IF policy.hook THEN "NeedsApproval" ELSE "Deny"
      [] worst = "Deny" -> "Deny"

(* unclassified_change_set().                                              *)
UnclassifiedSet(policy) ==
    IF policy.unclassified = "Deny" THEN "Deny" ELSE Assemble(policy, {"RequireApproval"})

(* baseline_verdict(): blue-green needs the window certified.              *)
BaselineRefuses(baseline, caps, report) ==
    /\ baseline = "WindowSafety"
    /\ ~(caps.preflight /\ caps.window_safe /\ report.present /\ report.window_safe = "true")

(* evaluate().                                                             *)
Evaluate(policy, baseline, caps, report) ==
    IF BaselineRefuses(baseline, caps, report) THEN "Deny"
    ELSE IF ~policy.configured THEN "Allow"
    ELSE IF ~report.present THEN "Deny"
    ELSE IF ~caps.risk_tier \/ report.set = "missing" THEN UnclassifiedSet(policy)
    ELSE IF report.set = "future" THEN "Deny"
    ELSE Assemble(policy, {ActionFor(policy, c) : c \in report.changes})

-----------------------------------------------------------------------------
(* connection_budget::evaluate(), on 32-bit counts that saturate.          *)
CONSTANT MaxU32

ASSUME MaxU32Assumption == MaxU32 \in Nat

SatAdd(a, b) == IF a + b > MaxU32 THEN MaxU32 ELSE a + b
SatSub(a, b) == IF a < b THEN 0 ELSE a - b

(* Mutant: the sum wraps.                                                  *)
BudgetWraps(max, current, pool, margin) ==
    LET projected == (current + pool) % (MaxU32 + 1) IN
    IF projected > max THEN "Refuse"
    ELSE IF projected > SatSub(max, margin) THEN "Warn" ELSE "Ok"

Budget(max, current, pool, margin) ==
    LET projected == SatAdd(current, pool) IN
    IF projected > max THEN "Refuse"
    ELSE IF projected > SatSub(max, margin) THEN "Warn" ELSE "Ok"

=============================================================================
