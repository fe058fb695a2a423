------------------------------ MODULE Governance ------------------------------
(***************************************************************************)
(* GovernedCoordinator (governance.py) with the JSON policy engine         *)
(* (policy.py) around the coordinator's operations on one saga.            *)
(*                                                                         *)
(* A request asks the policy on a saga that it read without a lease, keeps *)
(* the permit, and only then enters the coordinator.  Between the two the  *)
(* saga may move and the policy may be replaced.  Leases lapse and         *)
(* processes die in the runs of SagaCoordinator: here they do not.         *)
(***************************************************************************)
EXTENDS SagaCoordinator, PolicyDecision

CONSTANTS
  Definitions,     \* the actions in use: risk, and whether they ask for approval
  Wishes,          \* what callers say of approval: nothing, yes or no
  Policies         \* the policies that are deployed one after the other

(* A policy can put a gate before any node.                                *)
ASSUME GovernanceAssumption ==
  /\ Definitions \subseteq [risk : Risks, gated : BOOLEAN] /\ Definitions # {}
  /\ Wishes \subseteq {"none", "yes", "no"} /\ Gates = BOOLEAN
  /\ Policies # {} /\ \A p \in Policies : IsPolicy(p)

VARIABLES
  policy,    \* the policy in force
  permit,    \* what each process may enter the coordinator with
  risk,      \* risk level of the planned nodes and of the rows of execute
  demanded   \* nodes for which approval was demanded at planning (history)

governed == <<policy, permit, risk, demanded>>
gvars == <<vars, governed>>

NoRisk == "none"

ActionRisks == {d.risk : d \in Definitions}

PermitType ==
  [op : Operations \cup {"none", "reject"},
   risk : Risks \cup {NoRisk},      \* of the action to plan or execute
   gated : BOOLEAN,                 \* its definition's approval_required
   wish : {"none", "yes", "no"},    \* the argument approval_required
   demand : BOOLEAN,                \* was approval demanded? (history)
   node : Node \cup {0}, budget : Nat, par : Nat]

NoPermit == [op |-> "none", risk |-> NoRisk, gated |-> FALSE, wish |-> "none",
             demand |-> FALSE, node |-> 0, budget |-> 0, par |-> 1]

GTypeOK ==
  /\ TypeOK
  /\ policy \in Policies
  /\ permit \in [Request -> PermitType]
  /\ risk \in [nodes : [Node -> Risks \cup {NoRisk}], rows : [Row -> Risks \cup {NoRisk}]]
  /\ demanded \in SUBSET Node

GInit ==
  /\ Init
  /\ policy \in Policies
  /\ permit = [w \in Request |-> NoPermit]
  /\ risk = [nodes |-> [n \in Node |-> NoRisk], rows |-> [r \in Row |-> NoRisk]]
  /\ demanded = {}

-----------------------------------------------------------------------------
(* What is put to the policy.                                              *)

Weight(weights, level) == IF level = NoRisk THEN 0 ELSE weights[level]
RiskOf(weights, S, level) == MapThenSumSet(LAMBDA x : Weight(weights, level[x]), S)

RiskOfNodes(weights) == RiskOf(weights, Planned(nodes), risk.nodes)

(* Mutant: steps outside the workflow carry no risk.                       *)
UsageOfNodes ==
  [steps |-> Cardinality(Used), planned |-> Cardinality(Planned(nodes)),
   risk |-> RiskOfNodes(Weights(policy)), par |-> 0]

(* Rows that no node knows yet count by themselves, those being prepared   *)
(* for a node included.  All is weighed as the policy in force has it.     *)
Usage ==
  LET known == {nodes[n].step : n \in Planned(nodes)}
      level == [r \in Row |-> IF steps[r].node = 0 THEN risk.rows[r]
                              ELSE risk.nodes[steps[r].node]]
      weights == Weights(policy)
  IN [steps |-> Cardinality(Used), planned |-> Cardinality(Planned(nodes)),
      risk |-> RiskOfNodes(weights) + RiskOf(weights, Used \ known, level), par |-> 0]

Decision(phase, level, use, granted) == Decide(policy, Asked(phase, level, use, granted))

Permit(w, p) ==
  /\ p.op \in Ops \cup {"reject"}
  /\ permit' = [permit EXCEPT ![w] = p]
  /\ UNCHANGED <<vars, policy, risk, demanded>>

AskExecute(w, level) ==
  LET use == [Usage EXCEPT !.steps = @ + 1, !.risk = @ + Weight(Weights(policy), level)] IN
  /\ Passes(Decision("execute", level, use, FALSE), FALSE)
  /\ Permit(w, [NoPermit EXCEPT !.op = "execute", !.risk = level])

(* Mutant: the policy's demand for approval is not passed on.              *)
PassOnOwn(wish, effect) == wish

(* The policy's demand takes the place of the caller's argument.           *)
PassOn(wish, effect) == IF effect = "require_approval" THEN "yes" ELSE wish

(* The coordinator takes the caller's word for the gate of a node, and the *)
(* definition's without one.                                               *)
Required(gated, wish) == IF wish = "none" THEN gated ELSE wish = "yes"

(* A caller's "no" to a definition that asks for approval: the policy is   *)
(* told that there is a gate, and the coordinator sets none.               *)
Waived(d, wish) == d.gated /\ wish = "no"

(* What the policy hears of a gate is the definition's or the caller's;    *)
(* approval is demanded by them or by a policy that hears of none.         *)
AskPlan(w, d, wish) ==
  LET use == [Usage EXCEPT !.planned = @ + 1, !.risk = @ + Weight(Weights(policy), d.risk)]
      given == d.gated \/ wish = "yes"
      effect == Decision("plan", d.risk, use, given)
  IN
  /\ Passes(effect, TRUE)
  /\ Permit(w, [NoPermit EXCEPT !.op = "plan", !.risk = d.risk, !.gated = d.gated,
                   !.wish = PassOn(wish, effect),
                   !.demand = /\ given \/ Decision("plan", d.risk, use, FALSE) = "require_approval"
                              /\ ~Waived(d, wish)])

(* The nodes that a first wave would take are asked about, after the run   *)
(* itself, which is always taken for approved.                             *)
AskedAbout(budget, par) ==
  IF InStatus(nodes, {"READY"}) = {} THEN {{}}
  ELSE Waves(nodes, IF par < budget THEN par ELSE budget)

AskRun(w, budget, par) ==
  /\ \E wave \in AskedAbout(budget, par) :
       LET use == [Usage EXCEPT !.steps = @ + Cardinality(wave), !.par = par] IN
       /\ Passes(Decision("run", "unknown", use, TRUE), TRUE)
       /\ \A n \in wave :
            Passes(Decision("run", risk.nodes[n], use, Approved(nodes[n])), Approved(nodes[n]))
  /\ Permit(w, [NoPermit EXCEPT !.op = "run", !.budget = budget, !.par = par])

(* Approvals and retries are put to the rules, not to the budgets; a       *)
(* rejection is not put to anybody.                                        *)
AskApprove(w, n) ==
  /\ n \in Planned(nodes)
  /\ Passes(Decision("approve", risk.nodes[n], NoUse, TRUE), TRUE)
  /\ Permit(w, [NoPermit EXCEPT !.op = "approve", !.node = n])

AskReject(w, n) ==
  /\ n \in Planned(nodes) /\ "approve" \in Ops
  /\ Permit(w, [NoPermit EXCEPT !.op = "reject", !.node = n])

AskRetry(w, n) ==
  /\ n \in Planned(nodes)
  /\ LET given == Approved(nodes[n]) IN
     Passes(Decision("retry", risk.nodes[n], NoUse, given), given)
  /\ Permit(w, [NoPermit EXCEPT !.op = "retry", !.node = n])

AskCommit(w) ==
  /\ Passes(Decision("commit", "unknown", Usage, TRUE), TRUE)
  /\ Permit(w, [NoPermit EXCEPT !.op = "commit"])

(* Rollback is the safety path: no policy is asked.                        *)
AskRollback(w) == Permit(w, [NoPermit EXCEPT !.op = "rollback"])

Ask(w) ==
  /\ pc[w] = "idle" /\ permit[w] = NoPermit
  /\ \/ \E level \in ActionRisks : AskExecute(w, level)
     \/ \E d \in Definitions, wish \in Wishes : AskPlan(w, d, wish)
     \/ \E budget, par \in Limits : AskRun(w, budget, par)
     \/ \E n \in Node : AskApprove(w, n) \/ AskReject(w, n) \/ AskRetry(w, n)
     \/ AskCommit(w) \/ AskRollback(w)

-----------------------------------------------------------------------------
(* The coordinator under a permit.                                         *)

Forget(w) == permit' = [permit EXCEPT ![w] = NoPermit]

Argued == {"plan", "execute", "approve", "retry"}

(* The permit is kept as far as it still carries arguments.                *)
Enter(w) ==
  /\ permit[w] # NoPermit
  /\ Begin(w, IF permit[w].op = "reject" THEN "approve" ELSE permit[w].op,
           permit[w].budget, permit[w].par)
  /\ IF pc'[w] \in Argued THEN UNCHANGED permit ELSE Forget(w)
  /\ UNCHANGED <<policy, risk, demanded>>

(* Another request holds the lease.                                        *)
TurnedAway(w) ==
  /\ pc[w] = "idle" /\ permit[w] # NoPermit /\ live
  /\ Forget(w)
  /\ UNCHANGED <<vars, policy, risk, demanded>>

GovernedPlan(w) ==
  /\ PlanStep(w)
  /\ \E n \in Node \ Planned(nodes) :
       /\ n \in Planned(nodes') /\ nodes'[n].gated = Required(permit[w].gated, permit[w].wish)
       /\ risk' = [risk EXCEPT !.nodes[n] = permit[w].risk]
       /\ demanded' = IF permit[w].demand THEN demanded \cup {n} ELSE demanded
  /\ Forget(w)
  /\ UNCHANGED policy

GovernedExecute(w) ==
  /\ \E r \in Row : CreateStep(w, r)
                    /\ risk' = [risk EXCEPT !.rows[r] = permit[w].risk]
  /\ Forget(w)
  /\ UNCHANGED <<policy, demanded>>

GovernedDecision(w) ==
  /\ LET n == permit[w].node IN
     \/ permit[w].op = "approve" /\ ApproveStep(w, n)
     \/ permit[w].op = "reject" /\ RejectStep(w, n)
     \/ permit[w].op = "retry" /\ RetryStep(w, n)
  /\ Forget(w)
  /\ UNCHANGED <<policy, risk, demanded>>

GovernedRefusal(w) ==
  /\ pc[w] \in Argued /\ Refuse(w)
  /\ Forget(w)
  /\ UNCHANGED <<policy, risk, demanded>>

Elsewhere(w) == pc[w] \notin Argued /\ Work(w) /\ UNCHANGED governed

(* A new revision is deployed, or OPA's bundle replaced.                   *)
PolicyChange ==
  /\ \E new \in Policies \ {policy} : policy' = new
  /\ UNCHANGED <<vars, permit, risk, demanded>>

GNext ==
  \/ PolicyChange
  \/ \E w \in Request :
       \/ Ask(w) \/ Enter(w) \/ TurnedAway(w) \/ GovernedPlan(w) \/ GovernedExecute(w)
       \/ GovernedDecision(w) \/ GovernedRefusal(w) \/ Elsewhere(w)

GSpec == GInit /\ [][GNext]_gvars

-----------------------------------------------------------------------------
(* All policies are enforced and set this budget; the largest of theirs,   *)
(* and "over", are not exceeded.                                           *)
Budgeted(b) == \A p \in Policies : p.engine # "none" /\ b \in DOMAIN Effective(p).budgets
Within(use, b, over) == \E p \in Policies : use <= Effective(p).budgets[b] + over

(* How far requests that read before they lease can go past a budget: each *)
(* request but one may spend what another had just spent.                  *)
Late == Cardinality(Request) - 1

(* A saga never has more nodes than its budget and one for every further   *)
(* request that was under way.                                             *)
PlannedBudget ==
  Budgeted("planned") => Within(Cardinality(Planned(nodes)), "planned", Late)

(* The risk of its nodes and of the steps outside its workflow, and the    *)
(* heaviest action, under these weights.                                   *)
TotalRisk(weights) == RiskOfNodes(weights) + RiskOf(weights, Used, risk.rows)
Heaviest(weights) == Max({Weight(weights, level) : level \in ActionRisks})

(* A policy that weighs more than the one before finds more risk in a saga *)
(* than it would let in, so no policy's budget holds for good.  But one of *)
(* them finds the risk, weighed its own way, within its own budget and the *)
(* heaviest action of every further request: the last one that let in some *)
(* had weighed all that was there.                                         *)
RiskBudget ==
  Budgeted("risk") =>
    \E p \in Policies :
      TotalRisk(Weights(p)) <= Effective(p).budgets["risk"] + Late * Heaviest(Weights(p))

(* "governance can add an approval gate but never remove one": a node for  *)
(* which its definition, its planner or the policy of that day demanded    *)
(* approval is ready, executing or completed only once approved, whatever  *)
(* policy replaced it.  Nodes whose planner waived the definition's gate   *)
(* are left out, also where the policy had asked for it: these lose their  *)
(* gate in the code, as the run of NewDemandStops shows.                   *)
DemandedApproval ==
  \A n \in demanded \cap InStatus(nodes, Started) : nodes[n].approval = "APPROVED"

(* "Hard budgets are checked first.  An allow rule cannot exceed a budget":*)
(* a saga has no more steps than its tenant may have in one, requests that *)
(* overlap aside.                                                          *)
StepBudget == Budgeted("steps") => Within(Cardinality(Used), "steps", Late)

(* "a newly required approval stops execution unless the planned node      *)
(* already has a valid approval gate/decision": a run is permitted only if *)
(* each node asked about for which the policy of the day demands approval  *)
(* has been given it.                                                      *)
NewDemandStops ==
  [][\A w \in Request :
       (permit[w].op # "run" /\ permit'[w].op = "run") =>
         \E wave \in AskedAbout(permit'[w].budget, permit'[w].par) : \A n \in wave :
           Decision("run", risk.nodes[n], NoUse, FALSE) = "require_approval" =>
             nodes[n].approval = "APPROVED"]_gvars
=============================================================================
