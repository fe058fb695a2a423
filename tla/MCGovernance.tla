----------------------------- MODULE MCGovernance -----------------------------
(* The processes, their symmetry, the policies and the actions of the      *)
(* governed runs.                                                          *)
EXTENDS Governance, TLC

CONSTANTS w1, w2

Processes == Permutations({w1, w2})

Unset == [budgets |-> <<>>, rules |-> <<>>, threshold |-> "none", default |-> "none"]
Rule(phases, effect) == [phases |-> phases, risks |-> {}, effect |-> effect]

(* Within budgets, which the tenant sets lower than the wildcard does,     *)
(* everything is allowed by a rule.                                        *)
Lenient ==
  [engine |-> "json", default |-> "deny", weights |-> <<>>,
   tenant |-> [Unset EXCEPT !.budgets = [steps |-> 1, planned |-> 1, risk |-> 1, par |-> 1],
                            !.rules = <<Rule({}, "allow")>>],
   wildcard |-> [Unset EXCEPT !.budgets = [steps |-> 9, planned |-> 9, risk |-> 9, par |-> 9]]]

(* No rule of the tenant: a threshold that asks for approval of any action *)
(* with a known risk, which weighs more here.  The wildcard denies retries.*)
Careful ==
  [Lenient EXCEPT !.weights = [low |-> 3], !.tenant.budgets.risk = 3,
                  !.tenant.rules = <<>>, !.tenant.threshold = "low",
                  !.tenant.default = "allow", !.wildcard.rules = <<Rule({"retry"}, "deny")>>]

(* The tenant's rule lets commits through before the wildcard stops all,   *)
(* and the engine that cannot be reached.                                  *)
Frozen ==
  [Lenient EXCEPT !.tenant.rules = <<Rule({"commit"}, "allow")>>,
                  !.wildcard.rules = <<Rule({}, "deny")>>]
Unreachable == [Lenient EXCEPT !.engine = "unreachable"]

Changing == {Lenient, Careful, Frozen, Unreachable}

(* Approval is demanded of what is planned, and then of what is run, when  *)
(* nothing can be planned any more.                                        *)
Planning ==
  [Lenient EXCEPT !.tenant.rules = <<Rule({"plan"}, "require_approval"), Rule({}, "allow")>>]
Running ==
  [Lenient EXCEPT !.tenant.rules = <<Rule({"plan"}, "deny"), Rule({"run"}, "require_approval"),
                                     Rule({}, "allow")>>]
NewDemand == {Planning, Running}

(* What actions ask for themselves.                                        *)
Either == [risk : {"low"}, gated : BOOLEAN]
Gated == [risk : {"low"}, gated : {TRUE}]
Ungated == [risk : {"low"}, gated : {FALSE}]

(* A saga of two nodes and one step.                                       *)
Tight == {[Lenient EXCEPT !.tenant.budgets = [steps |-> 1, planned |-> 2, risk |-> 2, par |-> 1]]}
=============================================================================
