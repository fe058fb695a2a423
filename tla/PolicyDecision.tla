--------------------------- MODULE PolicyDecision ---------------------------
(***************************************************************************)
(* What the policy engines decide (policy.py): hard budgets first, then    *)
(* the tenant's rules and the wildcard's in file order, then the risk      *)
(* threshold, then the default; and what an operation makes of it          *)
(* (governance.py).                                                        *)
(*                                                                         *)
(* A rule matches on phase and risk; the other fields it can name (action, *)
(* domain, roles, scopes ...) do not change between the requests of one    *)
(* caller on one kind of action.                                           *)
(***************************************************************************)
EXTENDS Integers, Sequences, FiniteSetsExt

Effects == {"allow", "deny", "require_approval"}
Phases == {"execute", "plan", "run", "approve", "retry", "commit"}

RiskOrder == [unknown |-> 0, low |-> 1, medium |-> 2, high |-> 3, critical |-> 4]
DefaultRiskWeights ==
  [unknown |-> 3, low |-> 1, medium |-> 2, high |-> 5, critical |-> 10]
Risks == DOMAIN RiskOrder

Budgets == {"steps", "planned", "risk", "par"}

(* The empty set of phases or risks matches everything.                    *)
Rules == [phases : SUBSET Phases, risks : SUBSET Risks, effect : Effects]

(* One entry of "tenants": what it does not set is "none", or no budget.   *)
IsTenant(t) ==
  /\ DOMAIN t = {"budgets", "rules", "threshold", "default"}
  /\ DOMAIN t.budgets \subseteq Budgets /\ \A b \in DOMAIN t.budgets : t.budgets[b] \in Nat \ {0}
  /\ t.rules \in Seq(Rules)
  /\ t.threshold \in Risks \cup {"none"} /\ t.default \in Effects \cup {"none"}

(* A document that was loaded, with the weights that it sets itself, or an *)
(* engine that is off or out of reach.                                     *)
IsPolicy(p) ==
  /\ DOMAIN p = {"engine", "weights", "tenant", "wildcard", "default"}
  /\ p.engine \in {"none", "json", "unreachable"}
  /\ DOMAIN p.weights \subseteq Risks /\ \A l \in DOMAIN p.weights : p.weights[l] \in Nat
  /\ IsTenant(p.tenant) /\ IsTenant(p.wildcard) /\ p.default \in Effects

(* What is asked: the phase, the risk of the action ("unknown" without     *)
(* one), the prospective use, and whether an approval is given.            *)
Asked(phase, risk, use, granted) ==
  [phase |-> phase, risk |-> risk, use |-> use, granted |-> granted]

NoUse == [steps |-> 0, planned |-> 0, risk |-> 0, par |-> 0]

-----------------------------------------------------------------------------
(* What each risk weighs: the document's word, or the default, which is    *)
(* also what the other engines have.                                       *)
Weights(p) ==
  [l \in Risks |-> IF p.engine = "json" /\ l \in DOMAIN p.weights THEN p.weights[l]
                   ELSE DefaultRiskWeights[l]]

FirstSet(a, b, c) == IF a # "none" THEN a ELSE IF b # "none" THEN b ELSE c

Effective(p) ==
  [budgets |-> [b \in DOMAIN p.tenant.budgets \cup DOMAIN p.wildcard.budgets |->
                  IF b \in DOMAIN p.tenant.budgets THEN p.tenant.budgets[b]
                  ELSE p.wildcard.budgets[b]],
   rules |-> p.tenant.rules \o p.wildcard.rules,
   threshold |-> FirstSet(p.tenant.threshold, p.wildcard.threshold, "none"),
   default |-> FirstSet(p.tenant.default, p.wildcard.default, p.default)]

Matches(rule, ask) ==
  /\ rule.phases # {} => ask.phase \in rule.phases
  /\ rule.risks # {} => ask.risk \in rule.risks

OverBudget(budgets, use) == \E b \in DOMAIN budgets : use[b] > budgets[b]

(* The first rule that matches; an approval turns its demand into consent. *)
RuleEffect(rules, matching, ask) ==
  LET effect == rules[Min(matching)].effect IN
  IF effect = "require_approval" /\ ask.granted THEN "allow" ELSE effect

(* Mutant: rules come before budgets.                                      *)
JsonRulesFirst(e, ask) ==
  LET matching == {i \in DOMAIN e.rules : Matches(e.rules[i], ask)} IN
  IF matching # {} THEN RuleEffect(e.rules, matching, ask)
  ELSE IF OverBudget(e.budgets, ask.use) THEN "deny" ELSE e.default

JsonEffect(e, ask) ==
  LET matching == {i \in DOMAIN e.rules : Matches(e.rules[i], ask)}
      risky == e.threshold # "none" /\ RiskOrder[ask.risk] >= RiskOrder[e.threshold]
  IN
  IF OverBudget(e.budgets, ask.use) THEN "deny"
  ELSE IF matching # {} THEN RuleEffect(e.rules, matching, ask)
  ELSE IF risky /\ ~ask.granted THEN "require_approval" ELSE e.default

(* An evaluation that fails is a denial; without an engine all is allowed. *)
Decide(p, ask) ==
  CASE p.engine = "none" -> "allow"
    [] p.engine = "unreachable" -> "deny"
    [] p.engine = "json" -> JsonEffect(Effective(p), ask)

(* _enforce.                                                               *)
Passes(effect, approvalSupported) ==
  effect = "allow" \/ (effect = "require_approval" /\ approvalSupported)
=============================================================================
