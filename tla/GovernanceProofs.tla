--------------------------- MODULE GovernanceProofs ---------------------------
(***************************************************************************)
(* For any number of processes, nodes and rows, and any policies that      *)
(* replace each other: a governed saga is a saga, an approval demanded     *)
(* once is demanded for good, and requests that overlap go past the budget *)
(* of nodes by no more than one node each, and past the budget of risk of  *)
(* some policy by no more than the heaviest action each, as it weighs them.*)
(***************************************************************************)
EXTENDS Governance, SagaEligibilityProofs, WellFoundedInduction

USE NoRequestAssumption

(* What a request is permitted to do, it may ask of the coordinator, with  *)
(* these limits.  A process that is about to plan holds a permit to plan.  *)
PermitOK(p) ==
  /\ p.op # "none" => (IF p.op = "reject" THEN "approve" ELSE p.op) \in Ops
  /\ IF p.op = "run" THEN p.budget \in Limits /\ p.par \in Limits
     ELSE p.budget = 0 /\ p.par = 1
  /\ p.op \in {"approve", "reject", "retry"} => p.node \in Node
  /\ p.demand => Required(p.gated, p.wish)

PermitsOK ==
  /\ permit \in [Request -> PermitType]
  /\ \A w \in Request :
       /\ PermitOK(permit[w]) /\ (permit[w].op = "none" => permit[w] = NoPermit)
       /\ pc[w] = "plan" => permit[w].op = "plan"

RisksOK == risk \in [nodes : [Node -> Risks \cup {NoRisk}], rows : [Row -> Risks \cup {NoRisk}]]

GovInv ==
  /\ policy \in Policies
  /\ PermitsOK
  /\ RisksOK
  /\ demanded \in SUBSET Node

LEMMA LimitsAreNumbers == \A x \in Limits : x \in Nat
  BY FiniteNodes DEF Limits

LEMMA NoPermitOK ==
  /\ NoPermit \in PermitType /\ PermitOK(NoPermit)
  /\ NoPermit.op = "none"
BY DEF NoPermit, PermitType, PermitOK, NoRisk, Required

LEMMA KnownRisks == ActionRisks \subseteq Risks /\ ActionRisks # {}
  BY GovernanceAssumption DEF GovernanceAssumption, ActionRisks

-----------------------------------------------------------------------------
(* Where the coordinator's steps take a process.                           *)

LEMMA EndPlace ==
  ASSUME NEW w \in Request, NEW l, End(w, l) PROVE pc' = [pc EXCEPT ![w] = l]
BY DEF End, Goto

LEMMA WorkPlaces ==
  ASSUME pc \in [Request -> Locals], NEW w \in Request, Work(w)
  PROVE  \E l \in Locals : pc' = [pc EXCEPT ![w] = l] /\ (l = pc[w] \/ l \notin Argued)
<1> USE DEF Goto, Finish, Locals, Argued
<1>0. pc = [pc EXCEPT ![w] = pc[w]] /\ pc[w] \in Locals
      OBVIOUS
<1>1. CASE Operate(w)
      BY <1>1, EndPlace DEF Operate, Refuse, PlanStep, SaveEngine, Commit, ApproveStep, RejectStep,
                  RetryStep
<1>2. CASE RunForward(w)
  <2>1. CASE Unresolved(w) \/ Abandon(w)
        BY <2>1, EndPlace DEF Unresolved, Abandon
  <2>2. CASE FormWave(w) \/ NothingReady(w) \/ Spent(w) \/ SaveWave(w) \/ Escalate(w)
        BY <2>2 DEF FormWave, NothingReady, Spent, SaveWave, Escalate
  <2>3. CASE SaveResults(w)
        BY <2>3 DEF SaveResults
  <2>4. ASSUME NEW r \in Row,
               \/ CreateStep(w, r) \/ StartCall(w, r) \/ CallSucceeds(w, r) \/ CallFails(w, r)
               \/ \E n \in Node : PrepareNode(w, n, r)
        PROVE  \E l \in Locals : pc' = [pc EXCEPT ![w] = l] /\ (l = pc[w] \/ l \notin Argued)
        BY <1>0, <2>4 DEF CreateStep, StartCall, CallSucceeds, CallFails, PrepareNode
  <2>5. ASSUME NEW r \in Row, SettleRow(w, r)
        PROVE  \E l \in Locals : pc' = [pc EXCEPT ![w] = l] /\ (l = pc[w] \/ l \notin Argued)
    <3>1. pc' = pc \/ pc' = [pc EXCEPT ![w] = "exit"] \/ pc' = [pc EXCEPT ![w] = "escalate"]
          BY <2>5 DEF SettleRow
    <3>2. QED
          BY <1>0, <3>1
  <2>6. QED
        BY <1>2, <2>1, <2>2, <2>3, <2>4, <2>5 DEF RunForward
<1>3. CASE Unwind(w)
  <2>1. CASE Rejoin(w) \/ Busy(w) \/ MarkRollingBack(w) \/ StartUndo(w) \/ FinishRollback(w)
        BY <2>1 DEF Rejoin, Busy, MarkRollingBack, StartUndo, FinishRollback
  <2>2. ASSUME NEW r \in Row,
               \/ UndoSucceeds(w, r) \/ UndoFails(w, r) \/ UndoLost(w, r)
               \/ RecordUndo(w, r) \/ RecordFailure(w, r) \/ PassOver(w, r)
        PROVE  \E l \in Locals : pc' = [pc EXCEPT ![w] = l] /\ (l = pc[w] \/ l \notin Argued)
        BY <2>2 DEF UndoSucceeds, UndoFails, UndoLost, RecordUndo, RecordFailure, PassOver
  <2>3. QED
        BY <1>3, <2>1, <2>2 DEF Unwind
<1>4. CASE Recover(w)
      BY <1>4, EndPlace DEF Recover, EscalateToOperator, ResumeRollback, StaleClaim
<1>5. CASE Exit(w) \/ CheckFails(w) \/ StaleWrite(w)
      BY <1>5, EndPlace DEF Exit, CheckFails, StaleWrite
<1>6. QED
      BY <1>1, <1>2, <1>3, <1>4, <1>5 DEF Work

-----------------------------------------------------------------------------
(* Every step of a governed saga is one of the coordinator's, or none.     *)

LEMMA EnterBegins ==
  ASSUME GovInv, NEW w \in Request, Enter(w) PROVE Next
<1> DEFINE op == IF permit[w].op = "reject" THEN "approve" ELSE permit[w].op
<1>1. Begin(w, op, permit[w].budget, permit[w].par)
      BY DEF Enter
<1>2. PermitOK(permit[w]) /\ permit[w].op # "none" /\ op \in Ops
      BY DEF Enter, GovInv, PermitsOK, PermitOK
<1>3. CASE op = "run"
  <2>1. permit[w].budget \in Limits /\ permit[w].par \in Limits
        BY <1>2, <1>3 DEF PermitOK
  <2>2. QED
        BY <1>1, <1>2, <1>3, <2>1 DEF Next
<1>4. CASE op # "run"
  <2>1. permit[w].budget = 0 /\ permit[w].par = 1
        BY <1>2, <1>4 DEF PermitOK
  <2>2. QED
        BY <1>1, <1>2, <1>4, <2>1 DEF Next
<1>5. QED
      BY <1>3, <1>4

LEMMA GovernedWorks ==
  ASSUME GovInv, NEW w \in Request,
         \/ GovernedPlan(w) \/ GovernedExecute(w) \/ GovernedDecision(w)
         \/ GovernedRefusal(w) \/ Elsewhere(w)
  PROVE  Work(w)
<1>1. CASE GovernedPlan(w)
      BY <1>1 DEF GovernedPlan, Work, Operate
<1>2. CASE GovernedExecute(w)
      BY <1>2 DEF GovernedExecute, Work, RunForward
<1>3. CASE GovernedDecision(w)
  <2>1. /\ permit[w].op \in {"approve", "reject", "retry"}
        /\ \/ ApproveStep(w, permit[w].node) \/ RejectStep(w, permit[w].node)
           \/ RetryStep(w, permit[w].node)
        BY <1>3 DEF GovernedDecision
  <2>2. permit[w].node \in Node
        BY <2>1 DEF GovInv, PermitsOK, PermitOK
  <2>3. QED
        BY <2>1, <2>2 DEF Work, Operate
<1>4. CASE GovernedRefusal(w)
      BY <1>4 DEF GovernedRefusal, Work, Operate
<1>5. CASE Elsewhere(w)
      BY <1>5 DEF Elsewhere
<1>6. QED
      BY <1>1, <1>2, <1>3, <1>4, <1>5

LEMMA AsksStutter ==
  ASSUME NEW w \in Request, Ask(w) PROVE UNCHANGED <<vars, policy, risk, demanded>>
BY DEF Ask, AskExecute, AskPlan, AskRun, AskApprove, AskReject, AskRetry, AskCommit,
       AskRollback, Permit

LEMMA GovernedStep == ASSUME GovInv, [GNext]_gvars PROVE [Next]_vars
<1>1. CASE PolicyChange \/ UNCHANGED gvars
      BY <1>1 DEF PolicyChange, gvars
<1>2. ASSUME NEW w \in Request, Ask(w) \/ TurnedAway(w) PROVE UNCHANGED vars
      BY <1>2, AsksStutter DEF TurnedAway
<1>3. ASSUME NEW w \in Request, Enter(w) PROVE Next
      BY <1>3, EnterBegins
<1>4. ASSUME NEW w \in Request,
             \/ GovernedPlan(w) \/ GovernedExecute(w) \/ GovernedDecision(w)
             \/ GovernedRefusal(w) \/ Elsewhere(w)
      PROVE  Next
      BY <1>4, GovernedWorks DEF Next
<1>5. QED
      BY <1>1, <1>2, <1>3, <1>4 DEF GNext

-----------------------------------------------------------------------------
(* The invariant of the permits.                                           *)

(* A permit that is asked for.                                             *)
LEMMA AskedPermit ==
  ASSUME NEW w \in Request, Ask(w)
  PROVE  \E p \in PermitType :
           /\ permit' = [permit EXCEPT ![w] = p] /\ PermitOK(p) /\ p.op # "none"
           /\ pc[w] = "idle"
<1> USE DEF Permit, NoPermit, PermitType, PermitOK, Operations, NoRisk
<1>0. pc[w] = "idle" /\ Ops \subseteq Operations
      BY OpsAssumption DEF Ask, OpsAssumption
<1>1. ASSUME NEW level \in ActionRisks, AskExecute(w, level)
      PROVE  \E p \in PermitType : permit' = [permit EXCEPT ![w] = p] /\ PermitOK(p) /\ p.op # "none"
      BY <1>0, <1>1, KnownRisks DEF AskExecute
<1>2. ASSUME NEW d \in Definitions, NEW wish \in Wishes, AskPlan(w, d, wish)
      PROVE  \E p \in PermitType : permit' = [permit EXCEPT ![w] = p] /\ PermitOK(p) /\ p.op # "none"
  <2> DEFINE given == d.gated \/ wish = "yes"
             asked(g) == Decision("plan", d.risk,
               [Usage EXCEPT !.planned = @ + 1, !.risk = @ + Weight(Weights(policy), d.risk)], g)
             demand == (given \/ asked(FALSE) = "require_approval") /\ ~Waived(d, wish)
             passed == PassOn(wish, asked(given))
             p == [NoPermit EXCEPT !.op = "plan", !.risk = d.risk, !.gated = d.gated,
                     !.wish = passed, !.demand = demand]
  <2>1. permit' = [permit EXCEPT ![w] = p] /\ "plan" \in Ops
        BY <1>2 DEF AskPlan
  <2>2. d.gated \in BOOLEAN /\ d.risk \in Risks /\ wish \in {"none", "yes", "no"}
        BY GovernanceAssumption DEF GovernanceAssumption
  <2> HIDE DEF asked
  <2>3. passed \in {"none", "yes", "no"} /\ demand \in BOOLEAN
        BY <2>2 DEF PassOn
  <2>4. demand => Required(d.gated, passed)
    <3> SUFFICES ASSUME demand PROVE Required(d.gated, passed)
        OBVIOUS
    <3>1. CASE d.gated
      <4>1. wish # "no"
            BY <3>1 DEF Waived
      <4>2. QED
            BY <2>2, <3>1, <4>1 DEF PassOn, Required
    <3>2. CASE ~d.gated /\ wish = "yes"
          BY <3>2 DEF PassOn, Required
    <3>3. CASE ~d.gated /\ wish # "yes"
      <4>1. given = FALSE
            BY <3>3
      <4>2. asked(given) = "require_approval"
            BY <4>1
      <4>3. QED
            BY <4>2 DEF PassOn, Required
    <3>4. QED
          BY <3>1, <3>2, <3>3
  <2> HIDE DEF given, demand, passed
  <2>5. p \in PermitType /\ PermitOK(p) /\ p.op # "none"
        BY <1>0, <2>1, <2>2, <2>3, <2>4
  <2>6. QED
        BY <2>1, <2>5
<1>3. ASSUME NEW budget \in Limits, NEW par \in Limits, AskRun(w, budget, par)
      PROVE  \E p \in PermitType : permit' = [permit EXCEPT ![w] = p] /\ PermitOK(p) /\ p.op # "none"
      BY <1>0, <1>3, LimitsAreNumbers DEF AskRun
<1>4. ASSUME NEW n \in Node, AskApprove(w, n) \/ AskReject(w, n) \/ AskRetry(w, n)
      PROVE  \E p \in PermitType : permit' = [permit EXCEPT ![w] = p] /\ PermitOK(p) /\ p.op # "none"
      BY <1>0, <1>4 DEF AskApprove, AskReject, AskRetry
<1>5. CASE AskCommit(w) \/ AskRollback(w)
      BY <1>0, <1>5 DEF AskCommit, AskRollback
<1>6. QED
      BY <1>0, <1>1, <1>2, <1>3, <1>4, <1>5 DEF Ask

(* A step of one process keeps the invariant, if its permit stays in order *)
(* and it is not taken to a place for which it holds none.                 *)
LEMMA PermitStep ==
  ASSUME PermitsOK, NEW w \in Request, NEW p \in PermitType,
         permit' = [permit EXCEPT ![w] = p], PermitOK(p), p.op = "none" => p = NoPermit,
         \A v \in Request \ {w} : pc'[v] = pc[v],
         pc'[w] = "plan" => p.op = "plan"
  PROVE  PermitsOK'
BY DEF PermitsOK, PermitOK

LEMMA GovNext == ASSUME TypeInv, GovInv, [GNext]_gvars PROVE GovInv'
<1> USE DEF Forget
<1>0. /\ pc \in [Request -> Locals] /\ PermitsOK /\ permit \in [Request -> PermitType]
      /\ \A w \in Request : permit[w] \in PermitType /\ PermitOK(permit[w])
      BY DEF TypeInv, JobsOK, GovInv, PermitsOK
<1>1. CASE PolicyChange
      BY <1>1 DEF PolicyChange, GovInv, PermitsOK, RisksOK, vars
<1>2. ASSUME NEW w \in Request, Ask(w) PROVE GovInv'
  <2>1. UNCHANGED <<policy, risk, demanded, pc>>
        BY <1>2, AsksStutter DEF vars
  <2>2. PermitsOK'
        BY <1>0, <1>2, <2>1, AskedPermit, PermitStep
  <2>3. QED
        BY <2>1, <2>2 DEF GovInv, RisksOK
<1>3. ASSUME NEW w \in Request, Forget(w), UNCHANGED policy,
             \A v \in Request \ {w} : pc'[v] = pc[v], pc'[w] # "plan",
             demanded' \in SUBSET Node, RisksOK'
      PROVE  GovInv'
  <2>1. PermitsOK'
        BY <1>0, <1>3, NoPermitOK, PermitStep
  <2>2. QED
        BY <1>3, <2>1 DEF GovInv
<1>4. ASSUME NEW w \in Request, TurnedAway(w) PROVE GovInv'
  <2>1. UNCHANGED <<pc, policy, risk, demanded>> /\ pc[w] = "idle" /\ Forget(w)
        BY <1>4 DEF TurnedAway, vars
  <2>2. QED
        BY <1>3, <2>1 DEF GovInv, RisksOK
<1>5. ASSUME NEW w \in Request, Enter(w) PROVE GovInv'
  <2> DEFINE op == IF permit[w].op = "reject" THEN "approve" ELSE permit[w].op
  <2>1. /\ UNCHANGED <<policy, risk, demanded>>
        /\ pc' = [pc EXCEPT ![w] = IF ~Admitted(op) THEN "exit"
                                   ELSE IF op = "rollback" THEN "mark" ELSE op]
        /\ IF pc'[w] \in Argued THEN permit' = permit ELSE Forget(w)
        BY <1>5 DEF Enter, Begin, Goto
  <2>2. pc'[w] = "plan" => permit[w].op = "plan"
        BY <1>0, <2>1
  <2>3. \A v \in Request \ {w} : pc'[v] = pc[v]
        BY <2>1
  <2>4. CASE permit' = permit
    <3>1. permit' = [permit EXCEPT ![w] = permit[w]]
          BY <1>0, <2>4
    <3>2. PermitsOK'
          BY <1>0, <2>2, <2>3, <3>1, PermitStep DEF PermitsOK
    <3>3. QED
          BY <2>1, <3>2 DEF GovInv, RisksOK
  <2>5. CASE pc'[w] \notin Argued
        BY <1>3, <2>1, <2>3, <2>5 DEF GovInv, RisksOK, Argued
  <2>6. QED
        BY <2>1, <2>4, <2>5
<1>6. ASSUME NEW w \in Request,
             \/ GovernedPlan(w) \/ GovernedExecute(w) \/ GovernedDecision(w) \/ GovernedRefusal(w)
      PROVE  GovInv'
  <2>1. PICK l \in Locals : pc' = [pc EXCEPT ![w] = l] /\ (l = pc[w] \/ l \notin Argued)
        BY <1>0, <1>6, GovernedWorks, WorkPlaces
  <2>2. pc'[w] # "plan"
    <3>1. CASE GovernedPlan(w)
          BY <1>0, <3>1 DEF GovernedPlan, PlanStep, Finish, Goto
    <3>2. CASE GovernedExecute(w)
          BY <1>0, <3>2 DEF GovernedExecute, CreateStep, Goto
    <3>3. CASE GovernedDecision(w)
          BY <1>0, <3>3 DEF GovernedDecision, ApproveStep, RejectStep, RetryStep, Goto
    <3>4. CASE GovernedRefusal(w)
          BY <1>0, <3>4 DEF GovernedRefusal, Refuse, End, Goto
    <3>5. QED
          BY <1>6, <3>1, <3>2, <3>3, <3>4
  <2>3. /\ Forget(w) /\ UNCHANGED policy
        /\ demanded' = demanded \/ \E n \in Node : demanded' = demanded \cup {n}
        /\ \/ risk' = risk
           \/ \E n \in Node : risk' = [risk EXCEPT !.nodes[n] = permit[w].risk]
           \/ \E r \in Row : risk' = [risk EXCEPT !.rows[r] = permit[w].risk]
        BY <1>6 DEF GovernedPlan, GovernedExecute, GovernedDecision, GovernedRefusal
  <2>4. RisksOK'
    <3>1. permit[w].risk \in Risks \cup {NoRisk}
          BY <1>0 DEF PermitType
    <3>2. QED
          BY <2>3, <3>1 DEF GovInv, RisksOK
  <2>5. demanded' \in SUBSET Node
        BY <2>3 DEF GovInv
  <2>6. \A v \in Request \ {w} : pc'[v] = pc[v]
        BY <1>0, <2>1
  <2>7. Forget(w) /\ UNCHANGED policy
        BY <2>3
  <2>8. QED
        BY <1>3, <2>2, <2>4, <2>5, <2>6, <2>7
<1>7. ASSUME NEW w \in Request, Elsewhere(w) PROVE GovInv'
  <2>1. UNCHANGED <<policy, permit, risk, demanded>> /\ Work(w) /\ pc[w] \notin Argued
        BY <1>7 DEF Elsewhere, governed
  <2>2. PICK l \in Locals : pc' = [pc EXCEPT ![w] = l] /\ (l = pc[w] \/ l \notin Argued)
        BY <1>0, <2>1, WorkPlaces
  <2>3. pc'[w] # "plan" /\ \A v \in Request \ {w} : pc'[v] = pc[v]
        BY <1>0, <2>1, <2>2 DEF Argued
  <2>4. PermitsOK'
    <3>1. permit' = permit /\ \A v \in Request : pc'[v] = "plan" => pc[v] = "plan"
          BY <2>1, <2>3
    <3>2. QED
          BY <1>0, <3>1 DEF PermitsOK, PermitOK
  <2>5. QED
        BY <2>1, <2>4 DEF GovInv, RisksOK
<1>8. CASE UNCHANGED gvars
      BY <1>8 DEF gvars, vars, governed, GovInv, PermitsOK, RisksOK
<1>9. QED
      BY <1>1, <1>2, <1>4, <1>5, <1>6, <1>7, <1>8 DEF GNext

LEMMA AlwaysGoverned == GSpec => [](GovInv /\ TypeInv)
<1>1. GInit => Init /\ GovInv
      BY NoPermitOK DEF GInit, Init, GovInv, PermitsOK, RisksOK, NoRisk
<1>2. GovInv /\ TypeInv /\ [GNext]_gvars => GovInv' /\ TypeInv'
      BY GovNext, GovernedStep, TypeStep
<1>3. QED
      BY <1>1, <1>2, InitType, PTL DEF GSpec

(* A governed saga is a saga: whatever the policies permit or refuse, and  *)
(* whenever they change, the coordinator makes no step that it could not   *)
(* have made without them.  All that is proved of a saga holds of it.      *)
THEOREM GovernedIsCoordination == GSpec => Spec
<1>1. GInit => Init
      BY DEF GInit
<1>2. GovInv /\ [GNext]_gvars => [Next]_vars
      BY GovernedStep
<1>3. QED
      BY <1>1, <1>2, AlwaysGoverned, PTL DEF GSpec, Spec

(* Policies, permits and risks keep their types.                           *)
THEOREM GovernedTypes == GSpec => []GTypeOK
<1>1. GovInv /\ TypeOK => GTypeOK
      BY DEF GovInv, PermitsOK, RisksOK, GTypeOK
<1>2. QED
      BY <1>1, AlwaysGoverned, GovernedIsCoordination, CoordinatorTypes, PTL

-----------------------------------------------------------------------------
(* A demand for approval stands.                                           *)

DemandsKept == \A n \in demanded : n \in Planned(nodes) /\ nodes[n].gated

LEMMA DemandStep ==
  ASSUME GovInv, KeepInv, DemandsKept, [GNext]_gvars PROVE DemandsKept'
<1>1. ASSUME NEW n \in demanded PROVE n \in Planned(nodes') /\ nodes'[n].gated
      BY GovernedStep, GateStep DEF DemandsKept
<1>2. CASE demanded' = demanded
      BY <1>1, <1>2 DEF DemandsKept
<1>3. ASSUME NEW w \in Request, GovernedPlan(w) PROVE DemandsKept'
  <2>1. PICK n \in Node \ Planned(nodes) :
          /\ n \in Planned(nodes') /\ nodes'[n].gated = Required(permit[w].gated, permit[w].wish)
          /\ demanded' = IF permit[w].demand THEN demanded \cup {n} ELSE demanded
        BY <1>3 DEF GovernedPlan
  <2>2. permit[w].demand => Required(permit[w].gated, permit[w].wish)
        BY DEF GovInv, PermitsOK, PermitOK
  <2>3. QED
        BY <1>1, <2>1, <2>2 DEF DemandsKept
<1>4. demanded' = demanded \/ \E w \in Request : GovernedPlan(w)
  <2>1. ASSUME NEW w \in Request,
               \/ Ask(w) \/ Enter(w) \/ TurnedAway(w) \/ GovernedExecute(w)
               \/ GovernedDecision(w) \/ GovernedRefusal(w) \/ Elsewhere(w)
        PROVE  demanded' = demanded
        BY <2>1, AsksStutter DEF Enter, TurnedAway, GovernedExecute, GovernedDecision,
                                 GovernedRefusal, Elsewhere, governed
  <2>2. QED
        BY <2>1 DEF GNext, PolicyChange, gvars, governed
<1>5. QED
      BY <1>2, <1>3, <1>4

(* An approval that the definition, the caller or the policy of the day    *)
(* demanded when a node was planned is given before the node starts,       *)
(* whatever policy replaced that one in between, unless the caller waived  *)
(* what the definition demands (DemandedApproval).                         *)
THEOREM DemandStands == GSpec => []DemandedApproval
<1>1. GInit => DemandsKept
      BY DEF GInit, DemandsKept
<1>2. DemandsKept /\ ApprovedFirst => DemandedApproval
      BY DEF DemandsKept, ApprovedFirst, DemandedApproval, Approved
<1>3. QED
      BY <1>1, <1>2, DemandStep, AlwaysGoverned, GovernedIsCoordination, AlwaysKeeps,
         NothingStartsUnapproved, PTL DEF GSpec

-----------------------------------------------------------------------------
(* The budget of planned nodes.                                            *)

(* Requests permitted to plan that have not planned yet.                   *)
Asking == {w \in Request : permit[w].op = "plan"}

(* Each of them may still add a node.                                      *)
PlansInHand ==
  Budgeted("planned") =>
    Within(Cardinality(Planned(nodes)) + Cardinality(Asking), "planned", Late)

LEMMA FinitePlans ==
  ASSUME IsFiniteSet(Request)
  PROVE  /\ IsFiniteSet(Planned(nodes)) /\ Cardinality(Planned(nodes)) \in Nat
         /\ IsFiniteSet(Asking) /\ Cardinality(Asking) \in Nat
         /\ Cardinality(Request) \in Nat /\ Cardinality(Asking) <= Cardinality(Request)
<1>1. Planned(nodes) \subseteq Node /\ Asking \subseteq Request
      BY DEF Planned, Asking
<1>2. IsFiniteSet(Node)
      BY CoordinatorAssumption DEF CoordinatorAssumption
<1>3. QED
      BY <1>1, <1>2, FS_Subset, FS_CardinalityType

LEMMA BudgetIsNumber ==
  ASSUME NEW b, NEW p \in Policies, b \in DOMAIN Effective(p).budgets
  PROVE  Effective(p).budgets[b] \in Nat \ {0}
BY GovernanceAssumption DEF GovernanceAssumption, IsPolicy, IsTenant, Effective

(* What the policy in force lets pass is within its budgets.               *)
LEMMA PassesWithin ==
  ASSUME GovInv, NEW b, Budgeted(b), NEW ask, NEW given, Passes(Decide(policy, ask), given),
         ask.use[b] \in Int
  PROVE  /\ policy \in Policies /\ Effective(policy).budgets[b] \in Nat
         /\ ask.use[b] <= Effective(policy).budgets[b]
<1>1. policy \in Policies /\ policy.engine # "none" /\ policy.engine \in {"none", "json", "unreachable"}
      BY GovernanceAssumption DEF GovInv, Budgeted, GovernanceAssumption, IsPolicy
<1>2. policy.engine = "json" /\ JsonEffect(Effective(policy), ask) # "deny"
      BY <1>1 DEF Decide, Passes
<1>3. ~OverBudget(Effective(policy).budgets, ask.use)
      BY <1>2 DEF JsonEffect
<1>4. b \in DOMAIN Effective(policy).budgets
      BY <1>1 DEF Budgeted
<1>5. ~(ask.use[b] > Effective(policy).budgets[b])
      BY <1>3, <1>4 DEF OverBudget
<1>6. Effective(policy).budgets[b] \in Nat
      BY <1>1, <1>4, BudgetIsNumber
<1>7. QED
      BY <1>1, <1>5, <1>6

(* Only planning adds to the nodes.                                        *)
LEMMA SamePlans ==
  ASSUME KeepInv, [Next]_vars, NEW w \in Request, NEW l,
         pc' = [pc EXCEPT ![w] = l], pc[w] # "plan"
  PROVE  Planned(nodes') = Planned(nodes)
<1>1. ASSUME NEW v \in Request, PlanStep(v) PROVE FALSE
  <2>1. pc \in [Request -> Locals]
        BY DEF KeepInv, WorkInv, LifeInv, RollbackInv, TypeInv, JobsOK
  <2>2. pc[v] = "plan" /\ pc'[v] = "exit"
        BY <1>1, <2>1 DEF PlanStep, Finish, Goto
  <2>3. QED
        BY <2>1, <2>2
<1>2. Follows(nodes, nodes')
      BY <1>1, KeepNext
<1>3. QED
      BY <1>2 DEF Follows, Keeps, Planned

(* What is permitted to be planned is within the budget of that day.       *)
LEMMA AskedPlan ==
  ASSUME GovInv, Budgeted("planned"), NEW w \in Request, Ask(w), permit'[w].op = "plan"
  PROVE  Cardinality(Planned(nodes)) + 1 <= Effective(policy).budgets["planned"]
<1>1. PICK d \in Definitions, wish \in Wishes : AskPlan(w, d, wish)
  <2>1. permit \in [Request -> PermitType]
        BY DEF GovInv, PermitsOK
  <2>2. ~AskCommit(w) /\ ~AskRollback(w)
        BY <2>1 DEF AskCommit, AskRollback, Permit, NoPermit
  <2>3. ASSUME NEW level \in ActionRisks PROVE ~AskExecute(w, level)
        BY <2>1 DEF AskExecute, Permit, NoPermit
  <2>4. ASSUME NEW budget \in Limits, NEW par \in Limits PROVE ~AskRun(w, budget, par)
        BY <2>1 DEF AskRun, Permit, NoPermit
  <2>5. ASSUME NEW n \in Node PROVE ~AskApprove(w, n) /\ ~AskReject(w, n) /\ ~AskRetry(w, n)
        BY <2>1 DEF AskApprove, AskReject, AskRetry, Permit, NoPermit
  <2>6. QED
        BY <2>2, <2>3, <2>4, <2>5 DEF Ask
<1> DEFINE use == [Usage EXCEPT !.planned = @ + 1, !.risk = @ + Weight(Weights(policy), d.risk)]
           ask == Asked("plan", d.risk, use, d.gated \/ wish = "yes")
<1>2. use.planned = Cardinality(Planned(nodes)) + 1
      BY DEF Usage
<1>3. Passes(Decide(policy, ask), TRUE)
      BY <1>1 DEF AskPlan, Decision
<1>4. ask.use["planned"] = Cardinality(Planned(nodes)) + 1
      BY <1>2 DEF Asked
<1>5. Cardinality(Planned(nodes)) \in Nat /\ ask.use["planned"] \in Int
      BY <1>4, FiniteNodes DEF Planned
<1> HIDE DEF use, ask
<1>6. ask.use["planned"] <= Effective(policy).budgets["planned"]
      BY <1>3, <1>5, PassesWithin
<1>7. QED
      BY <1>4, <1>6

LEMMA PlansStep ==
  ASSUME IsFiniteSet(Request), GovInv, KeepInv, PlansInHand, [GNext]_gvars
  PROVE  PlansInHand'
<1> SUFFICES ASSUME Budgeted("planned")
             PROVE  Within(Cardinality(Planned(nodes')) + Cardinality(Asking'), "planned", Late)
    BY DEF PlansInHand, Budgeted, Within, Late
<1> DEFINE before == Cardinality(Planned(nodes)) + Cardinality(Asking)
           after == Cardinality(Planned(nodes')) + Cardinality(Asking')
<1>1. PICK p \in Policies : before <= Effective(p).budgets["planned"] + Late
      BY DEF PlansInHand, Within
<1>2. /\ before \in Nat /\ after \in Nat /\ Late \in Int
      /\ \A q \in Policies : Effective(q).budgets["planned"] \in Nat \ {0}
  <2>1. Cardinality(Planned(nodes')) \in Nat /\ Cardinality(Asking') \in Nat
    <3>1. Planned(nodes') \in SUBSET Node /\ Asking' \subseteq Request
          BY DEF Planned, Asking
    <3>2. QED
          BY <3>1, FiniteNodes, FS_Subset, FS_CardinalityType
  <2>2. QED
        BY <2>1, FinitePlans, BudgetIsNumber DEF Late, Budgeted
<1>3. ASSUME after <= before PROVE Within(after, "planned", Late)
  <2>1. after <= Effective(p).budgets["planned"] + Late
        BY <1>1, <1>2, <1>3
  <2>2. QED
        BY <2>1 DEF Within
<1>4. ASSUME Planned(nodes') = Planned(nodes), Asking' \subseteq Asking
      PROVE  Within(after, "planned", Late)
  <2>1. Cardinality(Asking') <= Cardinality(Asking)
        BY <1>4, FinitePlans, FS_Subset
  <2>2. Cardinality(Asking') \in Nat
        BY <1>4, FinitePlans, FS_Subset, FS_CardinalityType
  <2>3. QED
        BY <1>3, <1>4, <2>1, <2>2, FinitePlans
<1>5. permit \in [Request -> PermitType] /\ pc \in [Request -> Locals]
      BY DEF GovInv, PermitsOK, KeepInv, WorkInv, LifeInv, RollbackInv, TypeInv, JobsOK
<1>6. CASE PolicyChange \/ UNCHANGED gvars
      BY <1>4, <1>6 DEF PolicyChange, gvars, governed, vars, Asking
<1>7. ASSUME NEW w \in Request, Ask(w) PROVE Within(after, "planned", Late)
  <2>1. Planned(nodes') = Planned(nodes) /\ policy \in Policies
        BY <1>7, AsksStutter DEF vars, GovInv
  <2>2. CASE permit'[w].op = "plan"
    <3>1. Cardinality(Planned(nodes)) + 1 <= Effective(policy).budgets["planned"]
          BY <1>7, <2>2, AskedPlan
    <3>2. Cardinality(Asking') <= Cardinality(Request) /\ Cardinality(Asking') \in Nat
          BY FinitePlans, FS_Subset, FS_CardinalityType DEF Asking
    <3>3. after <= Effective(policy).budgets["planned"] + Late
          BY <1>2, <2>1, <3>1, <3>2, FinitePlans DEF Late
    <3>4. QED
          BY <2>1, <3>3 DEF Within
  <2>3. CASE permit'[w].op # "plan"
    <3>1. Asking' \subseteq Asking
          BY <1>5, <1>7, <2>3, AskedPermit DEF Asking
    <3>2. QED
          BY <1>4, <2>1, <3>1
  <2>4. QED
        BY <2>2, <2>3
<1>8. ASSUME NEW w \in Request, Forget(w) \/ UNCHANGED permit
      PROVE  Asking' \subseteq Asking
      BY <1>5, <1>8, NoPermitOK DEF Forget, Asking
<1>9. ASSUME NEW w \in Request, Enter(w) \/ TurnedAway(w) \/ GovernedRefusal(w)
      PROVE  Within(after, "planned", Late)
  <2>1. nodes' = nodes /\ (Forget(w) \/ UNCHANGED permit)
    <3>1. CASE Enter(w)
          BY <3>1 DEF Enter, Begin, Grant, journal
    <3>2. CASE TurnedAway(w)
          BY <3>2 DEF TurnedAway, vars
    <3>3. CASE GovernedRefusal(w)
          BY <3>3 DEF GovernedRefusal, Refuse, End, journal
    <3>4. QED
          BY <1>9, <3>1, <3>2, <3>3
  <2>2. QED
        BY <1>4, <1>8, <2>1
<1>10. ASSUME NEW w \in Request, GovernedExecute(w) \/ GovernedDecision(w) \/ Elsewhere(w)
       PROVE  Within(after, "planned", Late)
  <2>1. Work(w) /\ (Forget(w) \/ UNCHANGED permit)
        BY <1>10, GovernedWorks DEF GovernedExecute, GovernedDecision, Elsewhere, governed
  <2>2. pc[w] # "plan"
        BY <1>10 DEF GovernedExecute, CreateStep, GovernedDecision, ApproveStep, RejectStep,
                     RetryStep, Elsewhere, Argued
  <2>3. PICK l \in Locals : pc' = [pc EXCEPT ![w] = l]
        BY <1>5, <2>1, WorkPlaces
  <2>4. Planned(nodes') = Planned(nodes)
    <3>1. [Next]_vars
          BY <2>1 DEF Next
    <3>2. QED
          BY <2>2, <2>3, <3>1, SamePlans
  <2>5. QED
        BY <1>4, <1>8, <2>1, <2>4
<1>11. ASSUME NEW w \in Request, GovernedPlan(w) PROVE Within(after, "planned", Late)
  <2>1. PICK n \in Node \ Planned(nodes) : Planned(nodes') = Planned(nodes) \cup {n}
        BY <1>11, PlanKeeps DEF GovernedPlan
  <2>2. Cardinality(Planned(nodes')) = Cardinality(Planned(nodes)) + 1
        BY <2>1, FinitePlans, FS_AddElement
  <2>3. w \in Asking /\ Asking' = Asking \ {w}
    <3>1. permit[w].op = "plan"
          BY <1>11 DEF GovernedPlan, PlanStep, GovInv, PermitsOK
    <3>2. Forget(w)
          BY <1>11 DEF GovernedPlan
    <3>3. QED
          BY <1>5, <3>1, <3>2, NoPermitOK DEF Forget, Asking
  <2>4. Cardinality(Asking') = Cardinality(Asking) - 1
        BY <2>3, FinitePlans, FS_RemoveElement
  <2>5. QED
        BY <1>3, <2>2, <2>4, FinitePlans
<1>12. QED
      BY <1>6, <1>7, <1>9, <1>10, <1>11 DEF GNext

(* When every policy sets a budget of planned nodes, a saga never has more *)
(* of them than the largest and one for every further request: the policy  *)
(* is asked before the lease is taken, but one permit plans one node       *)
(* (PlannedBudget).                                                        *)
THEOREM PlannedWithinBudget == ASSUME IsFiniteSet(Request) PROVE GSpec => []PlannedBudget
<1>1. GInit => PlansInHand
  <2> SUFFICES ASSUME GInit, Budgeted("planned")
               PROVE  Within(Cardinality(Planned(nodes)) + Cardinality(Asking), "planned", Late)
      BY DEF PlansInHand
  <2>1. Planned(nodes) = {} /\ Asking = {}
        BY NoPermitOK DEF GInit, Init, Planned, Unplanned, Asking
  <2>2. PICK p \in Policies : TRUE
        BY GovernanceAssumption DEF GovernanceAssumption
  <2>3. Effective(p).budgets["planned"] \in Nat \ {0}
        BY BudgetIsNumber DEF Budgeted
  <2>4. 0 + 0 <= Effective(p).budgets["planned"] + Late
        BY <2>3, FinitePlans DEF Late
  <2>5. QED
        BY <2>1, <2>4, FS_EmptySet DEF Within
<1>2. PlansInHand => PlannedBudget
  <2> SUFFICES ASSUME PlansInHand, Budgeted("planned")
               PROVE  Within(Cardinality(Planned(nodes)), "planned", Late)
      BY DEF PlannedBudget
  <2>1. PICK p \in Policies : Cardinality(Planned(nodes)) + Cardinality(Asking)
                              <= Effective(p).budgets["planned"] + Late
        BY DEF PlansInHand, Within
  <2>2. Effective(p).budgets["planned"] \in Nat \ {0}
        BY BudgetIsNumber DEF Budgeted
  <2>3. Cardinality(Planned(nodes)) <= Effective(p).budgets["planned"] + Late
        BY <2>1, <2>2, FinitePlans DEF Late
  <2>4. QED
        BY <2>3 DEF Within
<1>3. QED
      BY <1>1, <1>2, PlansStep, AlwaysGoverned, GovernedIsCoordination, AlwaysKeeps, PTL DEF GSpec

-----------------------------------------------------------------------------
(* The risk of a set is a sum, and a sum of weights is a number of points. *)

Levels == Risks \cup {NoRisk}
Weighing == [Risks -> Nat]

(* A bound on what one level weighs.                                       *)
Top(W) == W["unknown"] + W["low"] + W["medium"] + W["high"] + W["critical"]

(* One point for each unit of weight.                                      *)
Points(W, S, level) == {p \in S \X (1..Top(W)) : p[2] <= Weight(W, level[p[1]])}

(* What MapThenSumSet chooses: a function that takes one element off a set *)
(* and adds the risk of the rest.                                          *)
Pick(s) == CHOOSE x \in s : TRUE
AddsUp(W, S, level, h) ==
  h = [s \in SUBSET S |-> IF s = {} THEN 0 ELSE Weight(W, level[Pick(s)]) + h[s \ {Pick(s)}]]

LEMMA WeightType ==
  ASSUME NEW W \in Weighing
  PROVE  /\ \A l \in Levels : Weight(W, l) \in Nat /\ Weight(W, l) <= Top(W)
         /\ Weight(W, NoRisk) = 0 /\ Top(W) \in Nat
<1>1. Risks = {"unknown", "low", "medium", "high", "critical"}
      BY DEF Risks, RiskOrder
<1>2. \A l \in Risks : W[l] \in Nat
      BY DEF Weighing
<1>3. Top(W) \in Nat /\ \A l \in Risks : W[l] <= Top(W)
      BY <1>1, <1>2 DEF Top
<1>4. QED
      BY <1>2, <1>3 DEF Levels, Weight

LEMMA PolicyWeighs == \A p \in Policies : Weights(p) \in Weighing
BY GovernanceAssumption DEF GovernanceAssumption, IsPolicy, Weights, Weighing, DefaultRiskWeights,
                            Risks, RiskOrder

(* A smallest one among sets of elements of S.                             *)
SetsOf(S, D) == D \in SUBSET SUBSET S
Smallest(s, D) == s \in D /\ \A t \in D : t \subseteq s => t = s

LEMMA SmallestSet ==
  ASSUME NEW S, IsFiniteSet(S), NEW D, SetsOf(S, D), D # {}
  PROVE  \E s : Smallest(s, D)
<1>1. IsWellFoundedOn(StrictSubsetOrdering(S), SUBSET S)
  <2>1. FiniteSubsetsOf(S) = SUBSET S
        BY FS_FiniteSubsetsOfFinite
  <2>2. IsWellFoundedOn(StrictSubsetOrdering(S), FiniteSubsetsOf(S))
        BY FS_StrictSubsetOrderingWellFounded
  <2>3. QED
        BY <2>1, <2>2
<1>2. D \in SUBSET SUBSET S
      BY DEF SetsOf
<1>3. PICK s \in D : \A t \in D : ~(<<t, s>> \in StrictSubsetOrdering(S))
      BY <1>1, <1>2, WFMin
<1>4. ASSUME NEW t \in D, t \subseteq s PROVE t = s
      BY <1>2, <1>3, <1>4 DEF StrictSubsetOrdering
<1>5. QED
      BY <1>4 DEF Smallest

LEMMA UpTo ==
  ASSUME NEW k \in Nat PROVE IsFiniteSet(1..k) /\ Cardinality(1..k) = k
<1>1. IsFiniteSet(1..k) /\ Cardinality(1..k) = IF 1 > k THEN 0 ELSE k - 1 + 1
      BY FS_Interval
<1>2. QED
      BY <1>1

LEMMA FinitePoints ==
  ASSUME NEW W \in Weighing, NEW S, IsFiniteSet(S), NEW level
  PROVE  IsFiniteSet(Points(W, S, level)) /\ Cardinality(Points(W, S, level)) \in Nat
<1>1. IsFiniteSet(1..Top(W))
      BY UpTo, WeightType
<1>2. IsFiniteSet(S \X (1..Top(W)))
      BY <1>1, FS_Product
<1>3. Points(W, S, level) \in SUBSET (S \X (1..Top(W)))
      BY DEF Points
<1>4. QED
      BY <1>2, <1>3, FS_Subset, FS_CardinalityType

(* The points of one element more.                                         *)
LEMMA PointsOfOne ==
  ASSUME NEW W \in Weighing, NEW S, IsFiniteSet(S), NEW level, NEW x \in S, level[x] \in Levels
  PROVE  Cardinality(Points(W, S, level)) = Weight(W, level[x]) + Cardinality(Points(W, S \ {x}, level))
<1> DEFINE w == Weight(W, level[x])
           own == {x} \X (1..w)
           rest == Points(W, S \ {x}, level)
<1>1. w \in Nat /\ w <= Top(W) /\ Top(W) \in Nat
      BY WeightType
<1>2. Points(W, S, level) = own \cup rest /\ own \cap rest = {}
      BY <1>1 DEF Points
<1>3. IsFiniteSet(1..w) /\ Cardinality(1..w) = w
      BY <1>1, UpTo
<1>4. IsFiniteSet({x}) /\ Cardinality({x}) = 1
      BY FS_Singleton
<1> HIDE DEF w
<1>5. IsFiniteSet(own) /\ Cardinality(own) = w
  <2>1. Cardinality(own) = Cardinality({x}) * Cardinality(1..w) /\ IsFiniteSet(own)
        BY <1>3, <1>4, FS_Product
  <2>2. QED
        BY <1>1, <1>3, <1>4, <2>1 DEF w
<1>6. IsFiniteSet(rest) /\ Cardinality(rest) \in Nat
      BY FinitePoints, FS_RemoveElement
<1> HIDE DEF own, rest
<1>7. Cardinality(own \cup rest) = Cardinality(own) + Cardinality(rest) - Cardinality(own \cap rest)
      BY <1>5, <1>6, FS_Union
<1>8. Cardinality(own \cap rest) = 0
      BY <1>2, FS_EmptySet
<1>9. Cardinality(Points(W, S, level)) = w + Cardinality(rest)
      BY <1>1, <1>2, <1>5, <1>6, <1>7, <1>8
<1>10. QED
      BY <1>9 DEF w, rest

(* There is one function that adds up: a smallest set on which another one *)
(* differs from the number of points has no smaller one to differ on.      *)
LEMMA AddsUpPoints ==
  ASSUME NEW W \in Weighing, NEW S, IsFiniteSet(S), NEW level, \A x \in S : level[x] \in Levels,
         NEW h, AddsUp(W, S, level, h)
  PROVE  \A s \in SUBSET S : h[s] = Cardinality(Points(W, s, level))
<1> DEFINE D == {s \in SUBSET S : h[s] # Cardinality(Points(W, s, level))}
<1> SUFFICES ASSUME D # {} PROVE FALSE
    OBVIOUS
<1>1. PICK s \in D : \A t \in D : t \subseteq s => t = s
  <2>1. SetsOf(S, D)
        BY DEF SetsOf
  <2> HIDE DEF D
  <2>2. QED
        BY <2>1, SmallestSet DEF Smallest
<1>2. h[s] = IF s = {} THEN 0 ELSE Weight(W, level[Pick(s)]) + h[s \ {Pick(s)}]
      BY DEF AddsUp
<1>3. s # {}
  <2>1. Points(W, {}, level) = {}
        BY DEF Points
  <2>2. QED
        BY <1>2, <2>1, FS_EmptySet
<1>4. Pick(s) \in s
      BY <1>3 DEF Pick
<1>5. h[s \ {Pick(s)}] = Cardinality(Points(W, s \ {Pick(s)}, level))
      BY <1>1, <1>4
<1>6. IsFiniteSet(s)
      BY FS_Subset
<1>7. QED
      BY <1>2, <1>3, <1>4, <1>5, <1>6, PointsOfOne

LEMMA RiskCounts ==
  ASSUME NEW W \in Weighing, NEW S, IsFiniteSet(S), NEW level, \A x \in S : level[x] \in Levels
  PROVE  RiskOf(W, S, level) = Cardinality(Points(W, S, level)) /\ RiskOf(W, S, level) \in Nat
<1> DEFINE g == [s \in SUBSET S |-> Cardinality(Points(W, s, level))]
<1>1. ASSUME NEW s \in SUBSET S
      PROVE  g[s] = IF s = {} THEN 0 ELSE Weight(W, level[Pick(s)]) + g[s \ {Pick(s)}]
  <2>1. CASE s = {}
    <3>1. Points(W, {}, level) = {}
          BY DEF Points
    <3>2. QED
          BY <2>1, <3>1, FS_EmptySet
  <2>2. CASE s # {}
    <3>1. Pick(s) \in s /\ s \ {Pick(s)} \in SUBSET S
          BY <2>2 DEF Pick
    <3>2. IsFiniteSet(s)
          BY FS_Subset
    <3>3. QED
          BY <2>2, <3>1, <3>2, PointsOfOne
  <2>3. QED
        BY <2>1, <2>2
<1>2. AddsUp(W, S, level, g)
      BY <1>1 DEF AddsUp
<1> HIDE DEF g
<1>3. AddsUp(W, S, level, CHOOSE h : AddsUp(W, S, level, h))
      BY <1>2
<1>4. RiskOf(W, S, level) = (CHOOSE h : AddsUp(W, S, level, h))[S]
      BY DEF RiskOf, MapThenSumSet, MapThenFoldSet, AddsUp, Pick
<1>5. QED
      BY <1>3, <1>4, AddsUpPoints, FinitePoints

(* What has weight here, and weighs no less there.                         *)
LEMMA RiskAtMost ==
  ASSUME NEW W \in Weighing, NEW S, IsFiniteSet(S), NEW level, \A x \in S : level[x] \in Levels,
         NEW T, IsFiniteSet(T), NEW other, \A x \in T : other[x] \in Levels,
         \A x \in S : level[x] # NoRisk => x \in T /\ Weight(W, level[x]) <= Weight(W, other[x])
  PROVE  RiskOf(W, S, level) <= RiskOf(W, T, other)
<1>1. Points(W, S, level) \subseteq Points(W, T, other)
  <2> SUFFICES ASSUME NEW x \in S, NEW i \in 1..Top(W), i <= Weight(W, level[x])
               PROVE  x \in T /\ i <= Weight(W, other[x])
      BY DEF Points
  <2>1. Weight(W, level[x]) \in Nat /\ level[x] # NoRisk
        BY WeightType
  <2>2. x \in T /\ Weight(W, other[x]) \in Nat /\ Weight(W, level[x]) <= Weight(W, other[x])
        BY <2>1, WeightType
  <2>3. QED
        BY <2>1, <2>2
<1>2. IsFiniteSet(Points(W, T, other))
      BY FinitePoints
<1>3. QED
      BY <1>1, <1>2, RiskCounts, FS_Subset

LEMMA RiskSame ==
  ASSUME NEW W \in Weighing, NEW S, IsFiniteSet(S), NEW level, \A x \in S : level[x] \in Levels,
         NEW other, \A x \in S : other[x] = level[x]
  PROVE  RiskOf(W, S, other) = RiskOf(W, S, level)
<1>1. \A x \in S : other[x] \in Levels /\ Weight(W, other[x]) = Weight(W, level[x])
                   /\ Weight(W, level[x]) \in Nat
      BY WeightType
<1>2. RiskOf(W, S, other) <= RiskOf(W, S, level)
      BY <1>1, RiskAtMost
<1>3. RiskOf(W, S, level) <= RiskOf(W, S, other)
      BY <1>1, RiskAtMost
<1>4. QED
      BY <1>1, <1>2, <1>3, RiskCounts

(* One element more, or with another level.                                *)
LEMMA RiskOfOne ==
  ASSUME NEW W \in Weighing, NEW S, IsFiniteSet(S), NEW level, NEW x \in S,
         \A y \in S : level[y] \in Levels,
         NEW other, \A y \in S \ {x} : other[y] = level[y]
  PROVE  RiskOf(W, S, level) = Weight(W, level[x]) + RiskOf(W, S \ {x}, other)
<1>1. IsFiniteSet(S \ {x})
      BY FS_RemoveElement
<1>2. RiskOf(W, S \ {x}, other) = RiskOf(W, S \ {x}, level)
      BY <1>1, RiskSame
<1>3. RiskOf(W, S, level) = Cardinality(Points(W, S, level))
      BY RiskCounts
<1>4. RiskOf(W, S \ {x}, level) = Cardinality(Points(W, S \ {x}, level))
      BY <1>1, RiskCounts
<1>5. QED
      BY <1>2, <1>3, <1>4, PointsOfOne

LEMMA RiskBounded ==
  ASSUME NEW W \in Weighing, NEW S, IsFiniteSet(S), NEW level, \A x \in S : level[x] \in Levels,
         NEW top \in Nat, \A x \in S : Weight(W, level[x]) <= top
  PROVE  RiskOf(W, S, level) <= Cardinality(S) * top
<1>1. IsFiniteSet(1..top) /\ Cardinality(1..top) = top
      BY UpTo
<1>2. IsFiniteSet(S \X (1..top)) /\ Cardinality(S \X (1..top)) = Cardinality(S) * top
      BY <1>1, FS_Product
<1>3. Points(W, S, level) \subseteq S \X (1..top)
  <2> SUFFICES ASSUME NEW x \in S, NEW i \in 1..Top(W), i <= Weight(W, level[x]) PROVE i <= top
      BY DEF Points
  <2>1. Weight(W, level[x]) \in Nat /\ Weight(W, level[x]) <= top
        BY WeightType
  <2>2. QED
        BY <2>1
<1>4. QED
      BY <1>2, <1>3, RiskCounts, FS_Subset

-----------------------------------------------------------------------------
(* The budget of risk.                                                     *)

(* Only steps outside the workflow carry a risk of their own, and permits  *)
(* that of an action in use.                                               *)
RowRisks == \A r \in Row : risk.rows[r] # NoRisk => r \in Used /\ steps[r].node = 0
PermitRisks == \A w \in Request : permit[w].risk \in ActionRisks \cup {NoRisk}

(* The risk that permits in hand will still bring in.                      *)
Carried == [w \in Request |-> permit[w].risk]
Bears(W) == TotalRisk(W) + RiskOf(W, Request, Carried)

RisksInHand ==
  Budgeted("risk") =>
    \E p \in Policies :
      Bears(Weights(p)) <= Effective(p).budgets["risk"] + Late * Heaviest(Weights(p))

RiskInv == RowRisks /\ PermitRisks /\ RisksInHand

(* A step row stays what it is: a node's, or that of one step by itself.   *)
LEMMA RowsStay ==
  ASSUME WorkInv, [Next]_vars, NEW r \in Used
  PROVE  r \in Used' /\ steps'[r].node = steps[r].node
<1> USE DEF journal
<1>0. steps \in [Row -> RowType] /\ r \in Row /\ steps[r].status # "UNUSED"
      BY DEF Used, WorkInv, LifeInv, RollbackInv, TypeInv, JournalOK
<1>1. CASE steps' = steps
      BY <1>1 DEF Used
<1>2. ASSUME NEW w \in Request, NEW q \in Row, CreateStep(w, q)
      PROVE  r \in Used' /\ steps'[r].node = steps[r].node
  <2>1. q # r /\ steps'[r] = steps[r]
        BY <1>0, <1>2 DEF CreateStep, NewRow
  <2>2. QED
        BY <1>0, <2>1 DEF Used
<1>3. ASSUME NEW w \in Request, NEW n \in Node, NEW q \in Row, PrepareNode(w, n, q)
      PROVE  r \in Used' /\ steps'[r].node = steps[r].node
  <2>1. CASE q # r
    <3>1. steps'[r] = steps[r]
          BY <1>0, <1>3, <2>1 DEF PrepareNode
    <3>2. QED
          BY <1>0, <3>1 DEF Used
  <2>2. CASE q = r
    <3>1. job[w].view[n].step = r
          BY <1>3, <2>2 DEF PrepareNode, NewRow
    <3>2. Backed(job[w].view, steps)
          BY <1>3 DEF PrepareNode, Accepted, WorkInv, WorkOK, ViewsOK, ViewOK, Changing
    <3>3. r # 0
          BY <1>0, WorkflowAssumption DEF WorkflowAssumption
    <3>4. steps[r].node = n
          BY <3>1, <3>2, <3>3 DEF Backed, BackedBy
    <3>5. steps'[r].node = n /\ steps'[r].status = "EXECUTING"
          BY <1>0, <1>3, <2>2 DEF PrepareNode
    <3>6. QED
          BY <1>0, <3>4, <3>5 DEF Used
  <2>3. QED
        BY <2>1, <2>2
<1>4. ASSUME NEW w \in Request, NEW q \in Row,
             SettleRow(w, q) \/ RecordUndo(w, q) \/ RecordFailure(w, q)
      PROVE  r \in Used' /\ steps'[r].node = steps[r].node
  <2>1. PICK status \in {"COMPLETED", "FAILED", "COMPENSATED", "COMPENSATION_FAILED"} :
          steps' = [steps EXCEPT ![q].status = status]
        BY <1>4 DEF SettleRow, RecordUndo, RecordFailure
  <2>2. steps'[r].status # "UNUSED" /\ steps'[r].node = steps[r].node
        BY <1>0, <2>1 DEF RowType
  <2>3. QED
        BY <1>0, <2>2 DEF Used
<1>5. ASSUME NEW w \in Request, Work(w)
      PROVE  \/ steps' = steps
             \/ \E q \in Row : \/ CreateStep(w, q) \/ SettleRow(w, q)
                               \/ RecordUndo(w, q) \/ RecordFailure(w, q)
                               \/ \E n \in Node : PrepareNode(w, n, q)
  <2>1. CASE Operate(w)
        BY <2>1 DEF Operate, Refuse, End, PlanStep, SaveEngine, Commit, ApproveStep, RejectStep,
                    RetryStep
  <2>2. CASE RunForward(w)
        BY <2>2 DEF RunForward, FormWave, NothingReady, Spent, Unresolved, SaveWave, Abandon,
                    SaveResults, Escalate, StartCall, CallSucceeds, CallFails, End
  <2>3. CASE Unwind(w)
        BY <2>3 DEF Unwind, Rejoin, Busy, MarkRollingBack, StartUndo, FinishRollback,
                    UndoSucceeds, UndoFails, UndoLost, PassOver
  <2>4. CASE Recover(w) \/ Exit(w) \/ CheckFails(w) \/ StaleWrite(w)
        BY <2>4 DEF Recover, EscalateToOperator, ResumeRollback, StaleClaim, Exit, CheckFails,
                    StaleWrite, End
  <2>5. QED
        BY <1>5, <2>1, <2>2, <2>3, <2>4 DEF Work
<1>6. CASE UNCHANGED vars \/ ExpireLease
      BY <1>1, <1>6 DEF vars, ExpireLease
<1>7. ASSUME NEW w \in Request,
             \/ \E op, budget, par : Begin(w, op, budget, par)
             \/ HeartbeatFails(w) \/ Crash(w) \/ Claim(w) \/ NothingToClaim(w)
      PROVE  steps' = steps
      BY <1>7 DEF Begin, HeartbeatFails, Crash, Claim, NothingToClaim
<1>8. QED
      BY <1>1, <1>2, <1>3, <1>4, <1>5, <1>6, <1>7 DEF Next

(* The fewest are greater than the greatest.                               *)
LEMMA GreatestOf ==
  ASSUME NEW S, IsFiniteSet(S), S # {}, S \subseteq Nat
  PROVE  Max(S) \in S /\ \A y \in S : y <= Max(S)
<1> DEFINE Greatest(x) == x \in S /\ \A y \in S : x >= y
           Above(x) == {z \in S : z > x}
           D == {Above(x) : x \in S}
<1>1. \E x : Greatest(x)
  <2>1. SetsOf(S, D) /\ D # {}
        BY DEF SetsOf
  <2> HIDE DEF D
  <2>2. PICK s \in D : \A t \in D : t \subseteq s => t = s
        BY <2>1, SmallestSet DEF Smallest
  <2>3. PICK x \in S : s = Above(x)
        BY DEF D
  <2>4. ASSUME NEW y \in S, ~(x >= y) PROVE FALSE
    <3>1. x \in Nat /\ y \in Nat /\ y > x
          BY <2>4
    <3>2. y \in s
          BY <2>3, <3>1
    <3>3. y \notin Above(y)
          BY <3>1
    <3>4. Above(y) \subseteq s
      <4>1. \A z \in S : z \in Nat /\ (z > y => z > x)
            BY <3>1
      <4>2. QED
            BY <2>3, <4>1
    <3>5. Above(y) \in D
          BY DEF D
    <3>6. QED
          BY <2>2, <3>2, <3>3, <3>4, <3>5
  <2>5. QED
        BY <2>4
<1>2. Max(S) = CHOOSE x : Greatest(x)
      BY DEF Max
<1> HIDE DEF Greatest
<1>3. Greatest(Max(S))
      BY <1>1, <1>2
<1>4. \A y \in S : y \in Int
      OBVIOUS
<1>5. QED
      BY <1>3, <1>4 DEF Greatest

LEMMA HeaviestWeighs ==
  ASSUME NEW W \in Weighing
  PROVE  Heaviest(W) \in Nat /\ \A level \in ActionRisks : Weight(W, level) <= Heaviest(W)
<1> DEFINE all == {Weight(W, level) : level \in ActionRisks}
<1>1. \A level \in ActionRisks : Weight(W, level) \in 0..Top(W)
      BY KnownRisks, WeightType DEF Levels
<1>2. all # {} /\ all \in SUBSET (0..Top(W)) /\ Top(W) \in Nat
      BY <1>1, KnownRisks, WeightType
<1>3. IsFiniteSet(all) /\ all \in SUBSET Nat
  <2> HIDE DEF all
  <2>1. IsFiniteSet(0..Top(W))
        BY <1>2, FS_Interval
  <2>2. IsFiniteSet(all)
        BY <1>2, <2>1, FS_Subset
  <2>3. \A n \in 0..Top(W) : n \in Nat
        BY <1>2
  <2>4. QED
        BY <1>2, <2>2, <2>3
<1>4. Heaviest(W) = Max(all) /\ \A level \in ActionRisks : Weight(W, level) \in all
      BY DEF Heaviest
<1> HIDE DEF all
<1>5. Max(all) \in all /\ \A y \in all : y <= Max(all)
      BY <1>2, <1>3, GreatestOf
<1>6. Heaviest(W) \in Nat
      BY <1>3, <1>4, <1>5
<1>7. QED
      BY <1>4, <1>5, <1>6

(* One element with another level.                                         *)
LEMMA RiskReweighed ==
  ASSUME NEW W \in Weighing, NEW S, IsFiniteSet(S), NEW level, \A y \in S : level[y] \in Levels,
         NEW x \in S,
         NEW other, \A y \in S : other[y] \in Levels, \A y \in S \ {x} : other[y] = level[y]
  PROVE  RiskOf(W, S, other) + Weight(W, level[x]) = RiskOf(W, S, level) + Weight(W, other[x])
<1>1. RiskOf(W, S, level) = Weight(W, level[x]) + RiskOf(W, S \ {x}, other)
      BY RiskOfOne
<1>2. RiskOf(W, S, other) = Weight(W, other[x]) + RiskOf(W, S \ {x}, other)
      BY RiskOfOne
<1>3. IsFiniteSet(S \ {x})
      BY FS_RemoveElement
<1>4. RiskOf(W, S \ {x}, other) \in Nat /\ Weight(W, level[x]) \in Nat /\ Weight(W, other[x]) \in Nat
      BY <1>3, RiskCounts, WeightType
<1>5. QED
      BY <1>1, <1>2, <1>4

LEMMA FiniteUsed ==
  IsFiniteSet(Used) /\ IsFiniteSet(Planned(nodes)) /\ IsFiniteSet(Row) /\ IsFiniteSet(Node)
<1>1. IsFiniteSet(Row) /\ IsFiniteSet(Node)
      BY CoordinatorAssumption DEF CoordinatorAssumption
<1>2. QED
      BY <1>1, FS_Subset DEF Used, Planned

LEMMA RiskTypes ==
  ASSUME NEW W \in Weighing, GovInv, IsFiniteSet(Request)
  PROVE  /\ \A n \in Node : risk.nodes[n] \in Levels
         /\ \A r \in Row : risk.rows[r] \in Levels
         /\ \A w \in Request : Carried[w] \in Levels
         /\ RiskOfNodes(W) \in Nat /\ RiskOf(W, Used, risk.rows) \in Nat /\ TotalRisk(W) \in Nat
         /\ RiskOf(W, Request, Carried) \in Nat
<1>1. /\ \A n \in Node : risk.nodes[n] \in Levels
      /\ \A r \in Row : risk.rows[r] \in Levels
      BY DEF GovInv, RisksOK, Levels
<1>2. \A w \in Request : Carried[w] \in Levels
      BY DEF GovInv, PermitsOK, PermitType, Carried, Levels
<1>3. RiskOf(W, Request, Carried) \in Nat
      BY <1>2, RiskCounts
<1>4. RiskOfNodes(W) \in Nat
  <2>1. \A n \in Planned(nodes) : risk.nodes[n] \in Levels
        BY <1>1 DEF Planned
  <2>2. QED
        BY <2>1, FiniteUsed, RiskCounts DEF RiskOfNodes
<1>5. RiskOf(W, Used, risk.rows) \in Nat
  <2>1. \A r \in Used : risk.rows[r] \in Levels
        BY <1>1 DEF Used
  <2>2. QED
        BY <2>1, FiniteUsed, RiskCounts
<1>6. QED
      BY <1>1, <1>2, <1>3, <1>4, <1>5 DEF TotalRisk

(* What is put to the policy leaves no risk out: a row that a node knows   *)
(* is that node's, and has no risk of its own.                             *)
LEMMA UsageCovers ==
  ASSUME GovInv, WorkInv, RowRisks
  PROVE  Usage.risk \in Nat /\ TotalRisk(Weights(policy)) <= Usage.risk
<1> DEFINE W == Weights(policy)
           known == {nodes[n].step : n \in Planned(nodes)}
           level == [r \in Row |-> IF steps[r].node = 0 THEN risk.rows[r]
                                   ELSE risk.nodes[steps[r].node]]
<1>1. Usage.risk = RiskOfNodes(W) + RiskOf(W, Used \ known, level)
      BY DEF Usage
<1>2. /\ \A n \in Node : risk.nodes[n] \in Levels
      /\ \A r \in Row : risk.rows[r] \in Levels
      BY DEF GovInv, RisksOK, Levels
<1>3. \A r \in Row : level[r] \in Levels
      BY <1>2 DEF WorkInv, LifeInv, RollbackInv, TypeInv, JournalOK, RowType
<1>4. ASSUME NEW r \in Used, risk.rows[r] # NoRisk
      PROVE  r \in Used \ known /\ level[r] = risk.rows[r]
  <2>1. r \in Row /\ r # 0 /\ steps[r].node = 0
        BY <1>4, WorkflowAssumption DEF RowRisks, Used, WorkflowAssumption
  <2>2. ASSUME NEW n \in Planned(nodes), nodes[n].step = r PROVE FALSE
    <3>1. n \in Node /\ n # 0
          BY WorkflowAssumption DEF Planned, WorkflowAssumption
    <3>2. steps[r].node = n
          BY <2>1, <2>2, <3>1 DEF WorkInv, WorkOK, Backed, BackedBy
    <3>3. QED
          BY <2>1, <3>1, <3>2
  <2>3. QED
        BY <2>1, <2>2
<1>5. IsFiniteSet(Used \ known) /\ Used \ known \subseteq Row /\ Used \subseteq Row
      BY FiniteUsed, FS_Subset DEF Used
<1>0. W \in Weighing
      BY PolicyWeighs DEF GovInv
<1> HIDE DEF W, known, level
<1>6. /\ \A r \in Used : risk.rows[r] \in Levels
      /\ \A r \in Used \ known : level[r] \in Levels
      BY <1>2, <1>3, <1>5
<1>7. Weight(W, NoRisk) = 0 /\ \A l \in Levels : Weight(W, l) \in Nat
      BY <1>0, WeightType
<1>8. \A r \in Used : risk.rows[r] # NoRisk =>
                        r \in Used \ known /\ Weight(W, risk.rows[r]) <= Weight(W, level[r])
      BY <1>4, <1>6, <1>7
<1>9. RiskOf(W, Used, risk.rows) <= RiskOf(W, Used \ known, level)
      BY <1>0, <1>5, <1>6, <1>8, FiniteUsed, RiskAtMost
<1>10. RiskOf(W, Used \ known, level) \in Nat /\ RiskOf(W, Used, risk.rows) \in Nat
       BY <1>0, <1>5, <1>6, FiniteUsed, RiskCounts
<1>11. RiskOfNodes(W) \in Nat
  <2>1. \A n \in Planned(nodes) : risk.nodes[n] \in Levels
        BY <1>2 DEF Planned
  <2>2. QED
        BY <1>0, <2>1, FiniteUsed, RiskCounts DEF RiskOfNodes
<1>12. QED
       BY <1>1, <1>9, <1>10, <1>11 DEF TotalRisk, W

(* What is let in is within the budget of a policy together with all that  *)
(* there is, as that policy weighs it.                                     *)
LetsIn(level) ==
  \E p \in Policies :
    /\ Effective(p).budgets["risk"] \in Nat
    /\ TotalRisk(Weights(p)) + Weight(Weights(p), level) <= Effective(p).budgets["risk"]

LEMMA PassedRisk ==
  ASSUME GovInv, WorkInv, RowRisks, Budgeted("risk"), NEW level \in ActionRisks,
         NEW phase, NEW use, NEW given, NEW supported,
         use.risk = Usage.risk + Weight(Weights(policy), level),
         Passes(Decision(phase, level, use, given), supported)
  PROVE  LetsIn(level)
<1> DEFINE ask == Asked(phase, level, use, given)
           W == Weights(policy)
<1>0. W \in Weighing /\ level \in Levels
      BY PolicyWeighs, KnownRisks DEF GovInv, Levels
<1>1. ask.use["risk"] = Usage.risk + Weight(W, level)
      BY DEF Asked
<1>2. Passes(Decide(policy, ask), supported)
      BY DEF Decision
<1>3. Usage.risk \in Nat /\ TotalRisk(W) <= Usage.risk
      BY UsageCovers
<1> HIDE DEF ask, W
<1>4. Weight(W, level) \in Nat
      BY <1>0, WeightType
<1>5. ask.use["risk"] \in Int
      BY <1>1, <1>3, <1>4
<1>6. /\ policy \in Policies /\ Effective(policy).budgets["risk"] \in Nat
      /\ ask.use["risk"] <= Effective(policy).budgets["risk"]
      BY <1>2, <1>5, PassesWithin
<1>7. TotalRisk(W) \in Nat
  <2>1. /\ \A n \in Planned(nodes) : risk.nodes[n] \in Levels
        /\ \A r \in Used : risk.rows[r] \in Levels
        BY DEF GovInv, RisksOK, Levels, Planned, Used
  <2>2. QED
        BY <1>0, <2>1, FiniteUsed, RiskCounts DEF TotalRisk, RiskOfNodes
<1>8. TotalRisk(W) + Weight(W, level) <= Effective(policy).budgets["risk"]
      BY <1>1, <1>3, <1>4, <1>6, <1>7
<1>9. QED
      BY <1>6, <1>8 DEF LetsIn, W

(* A permit is for no action, or for one that was let in.                  *)
LEMMA AskedRisk ==
  ASSUME GovInv, WorkInv, RowRisks, NEW w \in Request, Ask(w), permit'[w].risk # NoRisk
  PROVE  permit'[w].risk \in ActionRisks /\ (Budgeted("risk") => LetsIn(permit'[w].risk))
<1>0. permit \in [Request -> PermitType]
      BY DEF GovInv, PermitsOK
<1>1. \/ \E level \in ActionRisks : AskExecute(w, level)
      \/ \E d \in Definitions, wish \in Wishes : AskPlan(w, d, wish)
  <2>1. ~AskCommit(w) /\ ~AskRollback(w)
        BY <1>0 DEF AskCommit, AskRollback, Permit, NoPermit
  <2>2. ASSUME NEW budget \in Limits, NEW par \in Limits PROVE ~AskRun(w, budget, par)
        BY <1>0 DEF AskRun, Permit, NoPermit
  <2>3. ASSUME NEW n \in Node PROVE ~AskApprove(w, n) /\ ~AskReject(w, n) /\ ~AskRetry(w, n)
        BY <1>0 DEF AskApprove, AskReject, AskRetry, Permit, NoPermit
  <2>4. QED
        BY <2>1, <2>2, <2>3 DEF Ask
<1>2. ASSUME NEW level \in ActionRisks, AskExecute(w, level)
      PROVE  permit'[w].risk \in ActionRisks /\ (Budgeted("risk") => LetsIn(permit'[w].risk))
  <2> DEFINE use == [Usage EXCEPT !.steps = @ + 1, !.risk = @ + Weight(Weights(policy), level)]
  <2>1. use.risk = Usage.risk + Weight(Weights(policy), level)
        BY DEF Usage
  <2>2. Passes(Decision("execute", level, use, FALSE), FALSE)
        BY <1>2 DEF AskExecute
  <2>3. permit'[w].risk = level
        BY <1>0, <1>2 DEF AskExecute, Permit, NoPermit
  <2> HIDE DEF use
  <2>4. QED
        BY <2>1, <2>2, <2>3, PassedRisk
<1>3. ASSUME NEW d \in Definitions, NEW wish \in Wishes, AskPlan(w, d, wish)
      PROVE  permit'[w].risk \in ActionRisks /\ (Budgeted("risk") => LetsIn(permit'[w].risk))
  <2> DEFINE use == [Usage EXCEPT !.planned = @ + 1, !.risk = @ + Weight(Weights(policy), d.risk)]
             given == d.gated \/ wish = "yes"
  <2>1. use.risk = Usage.risk + Weight(Weights(policy), d.risk) /\ d.risk \in ActionRisks
        BY DEF Usage, ActionRisks
  <2>2. Passes(Decision("plan", d.risk, use, given), TRUE)
        BY <1>3 DEF AskPlan
  <2>3. permit'[w].risk = d.risk
        BY <1>0, <1>3 DEF AskPlan, Permit, NoPermit
  <2> HIDE DEF use, given
  <2>4. QED
        BY <2>1, <2>2, <2>3, PassedRisk
<1>4. QED
      BY <1>1, <1>2, <1>3

(* The sums of a step.                                                     *)

LEMMA CarriedMoves ==
  ASSUME NEW W \in Weighing, GovInv, IsFiniteSet(Request), NEW w \in Request, NEW p \in PermitType,
         permit' = [permit EXCEPT ![w] = p]
  PROVE  /\ RiskOf(W, Request, Carried') + Weight(W, permit[w].risk)
              = RiskOf(W, Request, Carried) + Weight(W, p.risk)
         /\ RiskOf(W, Request, Carried') \in Nat
<1>1. /\ \A v \in Request : Carried[v] \in Levels
      /\ Carried[w] = permit[w].risk
      BY RiskTypes DEF Carried
<1>2. permit \in [Request -> PermitType] /\ permit' \in [Request -> PermitType]
      BY DEF GovInv, PermitsOK
<1>3. /\ \A v \in Request : Carried'[v] \in Levels
      /\ \A v \in Request \ {w} : Carried'[v] = Carried[v]
      /\ Carried'[w] = p.risk
      BY <1>2 DEF Carried, PermitType, Levels
<1> DEFINE before == Carried
           after == Carried'
<1> HIDE DEF before, after
<1>4. /\ \A v \in Request : before[v] \in Levels /\ after[v] \in Levels
      /\ \A v \in Request \ {w} : after[v] = before[v]
      /\ before[w] = permit[w].risk /\ after[w] = p.risk
      BY <1>1, <1>3 DEF before, after
<1>5. RiskOf(W, Request, after) + Weight(W, before[w]) = RiskOf(W, Request, before) + Weight(W, after[w])
      BY <1>4, RiskReweighed
<1>6. RiskOf(W, Request, after) \in Nat
      BY <1>4, RiskCounts
<1>7. QED
      BY <1>4, <1>5, <1>6 DEF before, after

(* Everybody's permits but one weigh no more than the allowance.           *)
LEMMA CarriedBounded ==
  ASSUME NEW W \in Weighing, GovInv', PermitRisks', IsFiniteSet(Request), NEW w \in Request
  PROVE  /\ RiskOf(W, Request, Carried') <= Weight(W, permit'[w].risk) + Late * Heaviest(W)
         /\ Late * Heaviest(W) \in Nat
<1> DEFINE held == Carried'
           others == Request \ {w}
<1>1. \A v \in Request : held[v] \in Levels /\ Weight(W, held[v]) <= Heaviest(W)
  <2> SUFFICES ASSUME NEW v \in Request
               PROVE  held[v] \in Levels /\ Weight(W, held[v]) <= Heaviest(W)
      OBVIOUS
  <2>1. held[v] = permit'[v].risk /\ permit'[v].risk \in ActionRisks \cup {NoRisk}
        BY DEF Carried, PermitRisks
  <2>2. Weight(W, NoRisk) = 0 /\ Heaviest(W) \in Nat
        BY WeightType, HeaviestWeighs
  <2>3. ActionRisks \cup {NoRisk} \subseteq Levels
        BY KnownRisks DEF Levels
  <2>4. CASE permit'[v].risk \in ActionRisks
        BY <2>1, <2>3, <2>4, HeaviestWeighs
  <2>5. CASE permit'[v].risk = NoRisk
        BY <2>1, <2>2, <2>3, <2>5
  <2>6. QED
        BY <2>1, <2>4, <2>5
<1>2. held[w] = permit'[w].risk
      BY DEF Carried
<1>3. IsFiniteSet(others) /\ Cardinality(others) = Late
      BY FS_RemoveElement DEF Late
<1>4. Late \in Nat
      BY <1>3, FS_CardinalityType
<1> HIDE DEF held
<1>5. RiskOf(W, Request, held) = Weight(W, held[w]) + RiskOf(W, others, held)
      BY <1>1, RiskOfOne
<1> HIDE DEF others
<1>6. \A v \in others : held[v] \in Levels /\ Weight(W, held[v]) <= Heaviest(W)
      BY <1>1 DEF others
<1>7. Heaviest(W) \in Nat
      BY HeaviestWeighs
<1>8. RiskOf(W, others, held) <= Cardinality(others) * Heaviest(W)
      BY <1>3, <1>6, <1>7, RiskBounded
<1>9. RiskOf(W, others, held) \in Nat
      BY <1>3, <1>6, RiskCounts
<1>10. Weight(W, held[w]) \in Nat
      BY <1>1, WeightType
<1>11. Late * Heaviest(W) \in Nat
      BY <1>4, <1>7
<1>12. RiskOf(W, Request, held) <= Weight(W, held[w]) + Late * Heaviest(W)
  <2> DEFINE over == Late * Heaviest(W)
  <2>1. RiskOf(W, others, held) <= over /\ over \in Nat
        BY <1>3, <1>8, <1>11
  <2> HIDE DEF over
  <2>2. RiskOf(W, Request, held) <= Weight(W, held[w]) + over
        BY <1>5, <1>9, <1>10, <2>1
  <2>3. QED
        BY <2>2 DEF over
<1>13. QED
      BY <1>2, <1>11, <1>12 DEF held

(* A step that plans nothing and weighs nothing adds no risk.              *)
LEMMA TotalStays ==
  ASSUME NEW W \in Weighing, GovInv, WorkInv, RowRisks, [Next]_vars, risk' = risk,
         Planned(nodes') = Planned(nodes)
  PROVE  RowRisks' /\ TotalRisk(W)' = TotalRisk(W)
<1>1. RowRisks'
      BY RowsStay DEF RowRisks
<1>2. IsFiniteSet(Used) /\ IsFiniteSet(Used') /\ Used \subseteq Row /\ Used' \subseteq Row
  <2>1. Used \in SUBSET Row /\ Used' \in SUBSET Row
        BY DEF Used
  <2>2. QED
        BY <2>1, FiniteUsed, FS_Subset
<1> DEFINE own == risk.rows
           used == Used'
<1>3. \A r \in Row : own[r] \in Levels /\ Weight(W, own[r]) \in Nat
      BY WeightType DEF GovInv, RisksOK, Levels
<1>4. \A r \in Row : own[r] # NoRisk => r \in Used /\ r \in used
      BY <1>1 DEF RowRisks
<1>5. IsFiniteSet(used) /\ used \subseteq Row
      BY <1>2
<1> HIDE DEF own, used
<1>6. RiskOf(W, used, own) <= RiskOf(W, Used, own) /\ RiskOf(W, Used, own) <= RiskOf(W, used, own)
  <2>1. \A r \in Used : own[r] \in Levels /\
                       (own[r] # NoRisk => r \in used /\ Weight(W, own[r]) <= Weight(W, own[r]))
        BY <1>2, <1>3, <1>4
  <2>2. \A r \in used : own[r] \in Levels /\
                       (own[r] # NoRisk => r \in Used /\ Weight(W, own[r]) <= Weight(W, own[r]))
        BY <1>3, <1>4, <1>5
  <2>3. QED
        BY <1>2, <1>5, <2>1, <2>2, RiskAtMost
<1>7. RiskOf(W, used, own) \in Nat /\ RiskOf(W, Used, own) \in Nat
      BY <1>2, <1>3, <1>5, RiskCounts
<1>8. RiskOf(W, used, own) = RiskOf(W, Used, own)
      BY <1>6, <1>7
<1>9. TotalRisk(W)' = RiskOf(W, Planned(nodes'), risk'.nodes) + RiskOf(W, used, risk'.rows)
      BY DEF TotalRisk, RiskOfNodes, used
<1>10. QED
      BY <1>1, <1>8, <1>9 DEF TotalRisk, RiskOfNodes, own

(* What is planned weighs what its permit carried, ...                     *)
LEMMA PlannedWeighs ==
  ASSUME NEW W \in Weighing, GovInv, KeepInv, RowRisks, IsFiniteSet(Request), NEW w \in Request,
         GovernedPlan(w)
  PROVE  RowRisks' /\ TotalRisk(W)' = TotalRisk(W) + Weight(W, permit[w].risk)
<1>1. PlanStep(w) /\ [Next]_vars
      BY DEF GovernedPlan, Next, Work, Operate
<1>2. PICK n \in Node \ Planned(nodes) :
        n \in Planned(nodes') /\ risk' = [risk EXCEPT !.nodes[n] = permit[w].risk]
      BY DEF GovernedPlan
<1>3. PICK m \in Node \ Planned(nodes) : Planned(nodes') = Planned(nodes) \cup {m}
      BY <1>1, PlanKeeps
<1>4. Planned(nodes') = Planned(nodes) \cup {n} /\ n \notin Planned(nodes)
      BY <1>2, <1>3
<1>5. steps' = steps
      BY <1>1 DEF PlanStep
<1>6. risk \in [nodes : [Node -> Levels], rows : [Row -> Levels]] /\ permit[w].risk \in Levels
      BY DEF GovInv, RisksOK, PermitsOK, PermitType, Levels
<1>7. /\ risk'.rows = risk.rows /\ risk'.nodes[n] = permit[w].risk
      /\ \A k \in Node : risk'.nodes[k] \in Levels
      /\ \A k \in Node \ {n} : risk'.nodes[k] = risk.nodes[k]
      BY <1>2, <1>6
<1> DEFINE old == Planned(nodes)
           new == Planned(nodes')
           before == risk.nodes
           after == risk'.nodes
<1>8. /\ IsFiniteSet(new) /\ n \in new /\ new \ {n} = old /\ new \subseteq Node /\ old \subseteq Node
  <2>1. new \in SUBSET Node /\ old \in SUBSET Node
        BY DEF Planned
  <2>2. QED
        BY <1>4, <2>1, FiniteUsed, FS_Subset
<1>9. /\ \A k \in new : after[k] \in Levels
      /\ \A k \in new \ {n} : before[k] = after[k]
      BY <1>7, <1>8
<1>10. RowRisks'
  <2>1. Used' = Used
        BY <1>5 DEF Used
  <2>2. QED
        BY <1>5, <1>7, <2>1 DEF RowRisks
<1>11. RiskOfNodes(W)' = RiskOf(W, new, after) /\ RiskOfNodes(W) = RiskOf(W, old, before)
      BY DEF RiskOfNodes
<1> HIDE DEF old, new, before, after
<1>12. RiskOf(W, new, after) = Weight(W, after[n]) + RiskOf(W, old, before)
      BY <1>8, <1>9, RiskOfOne
<1>13. RiskOf(W, Used', risk'.rows) = RiskOf(W, Used, risk.rows)
  <2>1. Used' = Used
        BY <1>5 DEF Used
  <2>2. QED
        BY <1>7, <2>1
<1>14. RiskOf(W, Used, risk.rows) \in Nat /\ RiskOf(W, old, before) \in Nat
       /\ Weight(W, after[n]) \in Nat
      BY <1>6, <1>7, <1>11, RiskTypes, WeightType DEF after
<1>15. TotalRisk(W)' = Weight(W, after[n]) + RiskOf(W, old, before) + RiskOf(W, Used, risk.rows)
      BY <1>11, <1>12, <1>13 DEF TotalRisk
<1>16. TotalRisk(W) = RiskOf(W, old, before) + RiskOf(W, Used, risk.rows)
      BY <1>11 DEF TotalRisk
<1>17. after[n] = permit[w].risk
      BY <1>7 DEF after
<1>18. QED
      BY <1>10, <1>14, <1>15, <1>16, <1>17

(* ... and so does what is executed.                                       *)
LEMMA ExecutedWeighs ==
  ASSUME NEW W \in Weighing, GovInv, WorkInv, RowRisks, IsFiniteSet(Request), NEW w \in Request,
         GovernedExecute(w)
  PROVE  RowRisks' /\ TotalRisk(W)' = TotalRisk(W) + Weight(W, permit[w].risk)
<1>1. PICK r \in Row : CreateStep(w, r) /\ risk' = [risk EXCEPT !.rows[r] = permit[w].risk]
      BY DEF GovernedExecute
<1>2. steps \in [Row -> RowType] /\ r \notin Used
      BY <1>1 DEF WorkInv, LifeInv, RollbackInv, TypeInv, JournalOK, CreateStep, NewRow
<1>3. /\ steps'[r].status = "EXECUTING" /\ steps'[r].node = 0
      /\ \A q \in Row \ {r} : steps'[q] = steps[q]
      /\ nodes' = nodes
      BY <1>1, <1>2 DEF CreateStep
<1>4. risk \in [nodes : [Node -> Levels], rows : [Row -> Levels]] /\ permit[w].risk \in Levels
      BY DEF GovInv, RisksOK, PermitsOK, PermitType, Levels
<1>5. /\ risk'.nodes = risk.nodes /\ risk'.rows[r] = permit[w].risk
      /\ \A q \in Row : risk'.rows[q] \in Levels
      /\ \A q \in Row \ {r} : risk'.rows[q] = risk.rows[q]
      BY <1>1, <1>4
<1>6. Used' = Used \cup {r}
      BY <1>3 DEF Used
<1>7. RowRisks'
      BY <1>3, <1>5, <1>6 DEF RowRisks
<1> DEFINE old == Used
           new == Used'
           before == risk.rows
           after == risk'.rows
<1>8. /\ IsFiniteSet(new) /\ r \in new /\ new \ {r} = old /\ new \subseteq Row /\ old \subseteq Row
  <2>1. new \in SUBSET Row /\ old \in SUBSET Row
        BY DEF Used
  <2>2. QED
        BY <1>2, <1>6, <2>1, FiniteUsed, FS_Subset
<1>9. /\ \A q \in new : after[q] \in Levels
      /\ \A q \in new \ {r} : before[q] = after[q]
      BY <1>5, <1>8
<1>10. RiskOfNodes(W)' = RiskOfNodes(W)
       BY <1>3, <1>5 DEF RiskOfNodes
<1>11. RiskOf(W, old, before) \in Nat /\ RiskOfNodes(W) \in Nat
       BY RiskTypes
<1>12. /\ TotalRisk(W)' = RiskOfNodes(W)' + RiskOf(W, new, after)
       /\ TotalRisk(W) = RiskOfNodes(W) + RiskOf(W, old, before)
       BY DEF TotalRisk
<1> HIDE DEF old, new, before, after
<1>13. RiskOf(W, new, after) = Weight(W, after[r]) + RiskOf(W, old, before)
       BY <1>8, <1>9, RiskOfOne
<1>14. after[r] = permit[w].risk /\ Weight(W, after[r]) \in Nat
       BY <1>5, WeightType DEF after
<1>15. QED
       BY <1>7, <1>10, <1>11, <1>12, <1>13, <1>14

(* Risk moves from the permits to the saga, and is taken on by asking only.*)
LEMMA RiskMoves ==
  ASSUME NEW W \in Weighing, IsFiniteSet(Request), GovInv, KeepInv, RowRisks, [GNext]_gvars
  PROVE  /\ RowRisks'
         /\ \/ TotalRisk(W)' + RiskOf(W, Request, Carried') <= TotalRisk(W) + RiskOf(W, Request, Carried)
            \/ \E w \in Request : /\ Ask(w) /\ permit'[w].risk # NoRisk
                                  /\ TotalRisk(W)' = TotalRisk(W)
<1>0. /\ permit \in [Request -> PermitType] /\ pc \in [Request -> Locals] /\ [Next]_vars
      /\ WorkInv
      BY GovernedStep DEF GovInv, PermitsOK, KeepInv, WorkInv, LifeInv, RollbackInv, TypeInv, JobsOK
<1>1. /\ TotalRisk(W) \in Nat /\ RiskOf(W, Request, Carried) \in Nat
      /\ \A w \in Request : permit[w] \in PermitType /\ permit[w].risk \in Levels
                            /\ Weight(W, permit[w].risk) \in Nat
      BY <1>0, RiskTypes, WeightType DEF PermitType, Levels
<1>2. NoPermit \in PermitType /\ NoPermit.risk = NoRisk /\ Weight(W, NoRisk) = 0
      BY NoPermitOK, WeightType DEF NoPermit
<1>3. ASSUME NEW w \in Request, Forget(w)
      PROVE  RiskOf(W, Request, Carried') = RiskOf(W, Request, Carried) - Weight(W, permit[w].risk)
  <2>1. /\ RiskOf(W, Request, Carried') + Weight(W, permit[w].risk) =
             RiskOf(W, Request, Carried) + Weight(W, NoPermit.risk)
        /\ RiskOf(W, Request, Carried') \in Nat
        BY <1>2, <1>3, CarriedMoves DEF Forget
  <2>2. QED
        BY <1>1, <1>2, <2>1
<1>4. ASSUME permit' = permit PROVE RiskOf(W, Request, Carried') = RiskOf(W, Request, Carried)
      BY <1>4 DEF Carried
<1>5. ASSUME NEW w \in Request, Forget(w) \/ permit' = permit,
             risk' = risk, Planned(nodes') = Planned(nodes)
      PROVE  /\ RowRisks'
             /\ TotalRisk(W)' + RiskOf(W, Request, Carried') <=
                  TotalRisk(W) + RiskOf(W, Request, Carried)
  <2>1. RowRisks' /\ TotalRisk(W)' = TotalRisk(W)
        BY <1>0, <1>5, TotalStays
  <2>2. CASE Forget(w)
        BY <1>1, <1>3, <2>1, <2>2
  <2>3. CASE permit' = permit
        BY <1>1, <1>4, <2>1, <2>3
  <2>4. QED
        BY <1>5, <2>2, <2>3
<1>6. CASE PolicyChange \/ UNCHANGED gvars
  <2>1. permit' = permit /\ risk' = risk /\ nodes' = nodes
        BY <1>6 DEF PolicyChange, gvars, governed, vars
  <2>2. RowRisks' /\ TotalRisk(W)' = TotalRisk(W)
        BY <1>0, <2>1, TotalStays
  <2>3. QED
        BY <1>1, <1>4, <2>1, <2>2
<1>7. ASSUME NEW w \in Request, Ask(w)
      PROVE  /\ RowRisks'
             /\ \/ TotalRisk(W)' + RiskOf(W, Request, Carried') <=
                     TotalRisk(W) + RiskOf(W, Request, Carried)
                \/ permit'[w].risk # NoRisk /\ TotalRisk(W)' = TotalRisk(W)
  <2>1. risk' = risk /\ nodes' = nodes
        BY <1>7, AsksStutter DEF vars
  <2>2. RowRisks' /\ TotalRisk(W)' = TotalRisk(W)
        BY <1>0, <2>1, TotalStays
  <2>3. CASE permit'[w].risk = NoRisk
    <3>1. PICK p \in PermitType : permit' = [permit EXCEPT ![w] = p]
          BY <1>7, AskedPermit
    <3>2. p.risk = NoRisk
          BY <1>0, <2>3, <3>1
    <3>3. /\ RiskOf(W, Request, Carried') + Weight(W, permit[w].risk) =
             RiskOf(W, Request, Carried) + Weight(W, p.risk)
          /\ RiskOf(W, Request, Carried') \in Nat
          BY <3>1, CarriedMoves
    <3>4. QED
          BY <1>1, <1>2, <2>2, <3>2, <3>3
  <2>4. QED
        BY <2>2, <2>3
<1>8. ASSUME NEW w \in Request, Enter(w) \/ TurnedAway(w) \/ GovernedRefusal(w)
      PROVE  /\ RowRisks'
             /\ TotalRisk(W)' + RiskOf(W, Request, Carried') <=
                  TotalRisk(W) + RiskOf(W, Request, Carried)
  <2>1. nodes' = nodes /\ risk' = risk /\ (Forget(w) \/ permit' = permit)
    <3>1. CASE Enter(w)
          BY <3>1 DEF Enter, Begin, Grant, journal
    <3>2. CASE TurnedAway(w)
          BY <3>2 DEF TurnedAway, vars
    <3>3. CASE GovernedRefusal(w)
          BY <3>3 DEF GovernedRefusal, Refuse, End, journal
    <3>4. QED
          BY <1>8, <3>1, <3>2, <3>3
  <2>2. QED
        BY <1>5, <2>1
<1>9. ASSUME NEW w \in Request, GovernedDecision(w) \/ Elsewhere(w)
      PROVE  /\ RowRisks'
             /\ TotalRisk(W)' + RiskOf(W, Request, Carried') <=
                  TotalRisk(W) + RiskOf(W, Request, Carried)
  <2>1. Work(w) /\ risk' = risk /\ (Forget(w) \/ permit' = permit)
        BY <1>9, GovernedWorks DEF GovernedDecision, Elsewhere, governed
  <2>2. pc[w] # "plan"
        BY <1>9 DEF GovernedDecision, ApproveStep, RejectStep, RetryStep, Elsewhere, Argued
  <2>3. PICK l \in Locals : pc' = [pc EXCEPT ![w] = l]
        BY <1>0, <2>1, WorkPlaces
  <2>4. Planned(nodes') = Planned(nodes)
        BY <1>0, <2>2, <2>3, SamePlans
  <2>5. QED
        BY <1>5, <2>1, <2>4
<1>10. ASSUME NEW w \in Request, GovernedPlan(w) \/ GovernedExecute(w)
       PROVE  /\ RowRisks'
              /\ TotalRisk(W)' + RiskOf(W, Request, Carried') <=
                   TotalRisk(W) + RiskOf(W, Request, Carried)
  <2>1. RowRisks' /\ TotalRisk(W)' = TotalRisk(W) + Weight(W, permit[w].risk)
        BY <1>0, <1>10, PlannedWeighs, ExecutedWeighs
  <2>2. Forget(w)
        BY <1>10 DEF GovernedPlan, GovernedExecute
  <2>3. RiskOf(W, Request, Carried') = RiskOf(W, Request, Carried) - Weight(W, permit[w].risk)
        BY <1>3, <2>2
  <2>4. QED
        BY <1>1, <2>1, <2>3
<1>11. QED
       BY <1>6, <1>7, <1>8, <1>9, <1>10 DEF GNext

LEMMA PermitRisksStep ==
  ASSUME GovInv, KeepInv, RowRisks, PermitRisks, [GNext]_gvars PROVE PermitRisks'
<1>0. permit \in [Request -> PermitType] /\ NoPermit.risk = NoRisk /\ WorkInv
      BY DEF GovInv, PermitsOK, NoPermit, KeepInv
<1>1. CASE permit' = permit
      BY <1>1 DEF PermitRisks
<1>2. ASSUME NEW w \in Request, Forget(w) PROVE PermitRisks'
      BY <1>0, <1>2 DEF PermitRisks, Forget
<1>3. ASSUME NEW w \in Request, Ask(w) PROVE PermitRisks'
  <2>1. PICK p \in PermitType : permit' = [permit EXCEPT ![w] = p]
        BY <1>3, AskedPermit
  <2>2. permit'[w].risk \in ActionRisks \cup {NoRisk}
        BY <1>0, <1>3, AskedRisk
  <2>3. QED
        BY <1>0, <2>1, <2>2 DEF PermitRisks
<1>4. ASSUME NEW w \in Request,
             \/ Enter(w) \/ TurnedAway(w) \/ GovernedPlan(w) \/ GovernedExecute(w)
             \/ GovernedDecision(w) \/ GovernedRefusal(w) \/ Elsewhere(w)
      PROVE  Forget(w) \/ permit' = permit
      BY <1>4 DEF Enter, TurnedAway, GovernedPlan, GovernedExecute, GovernedDecision,
                  GovernedRefusal, Elsewhere, governed
<1>5. CASE PolicyChange \/ UNCHANGED gvars
      BY <1>1, <1>5 DEF PolicyChange, gvars, governed
<1>6. QED
      BY <1>1, <1>2, <1>3, <1>4, <1>5 DEF GNext

LEMMA RiskTypesNext ==
  ASSUME NEW W \in Weighing, GovInv', IsFiniteSet(Request)
  PROVE  TotalRisk(W)' \in Nat /\ RiskOf(W, Request, Carried') \in Nat
<1>1. /\ \A n \in Node : risk'.nodes[n] \in Levels
      /\ \A r \in Row : risk'.rows[r] \in Levels
      /\ \A w \in Request : Carried'[w] \in Levels
      BY DEF GovInv, RisksOK, PermitsOK, PermitType, Carried, Levels
<1> DEFINE held == Carried'
           plans == Planned(nodes')
           used == Used'
<1>2. /\ IsFiniteSet(plans) /\ plans \subseteq Node
      /\ IsFiniteSet(used) /\ used \subseteq Row
  <2>1. plans \in SUBSET Node /\ used \in SUBSET Row
        BY DEF Planned, Used
  <2>2. QED
        BY <2>1, FiniteUsed, FS_Subset
<1>3. TotalRisk(W)' = RiskOf(W, plans, risk'.nodes) + RiskOf(W, used, risk'.rows)
      BY DEF TotalRisk, RiskOfNodes
<1>4. \A w \in Request : held[w] \in Levels
      BY <1>1
<1> HIDE DEF held, plans, used
<1>5. RiskOf(W, Request, held) \in Nat
      BY <1>4, RiskCounts
<1>6. (\A n \in plans : risk'.nodes[n] \in Levels) /\ \A r \in used : risk'.rows[r] \in Levels
      BY <1>1, <1>2
<1>7. RiskOf(W, plans, risk'.nodes) \in Nat /\ RiskOf(W, used, risk'.rows) \in Nat
      BY <1>2, <1>6, RiskCounts
<1>8. QED
      BY <1>3, <1>5, <1>7 DEF held

LEMMA RiskStep ==
  ASSUME IsFiniteSet(Request), TypeInv, GovInv, KeepInv, RiskInv, [GNext]_gvars
  PROVE  RiskInv'
<1>1. RowRisks' /\ PermitRisks' /\ GovInv' /\ WorkInv
  <2>1. \E W : W \in Weighing
        BY PolicyWeighs, GovernanceAssumption DEF GovernanceAssumption
  <2>2. QED
        BY <2>1, RiskMoves, PermitRisksStep, GovNext DEF RiskInv, KeepInv
<1>2. RisksInHand'
  <2> DEFINE over(p) == Late * Heaviest(Weights(p))
             limit(p) == Effective(p).budgets["risk"] + over(p)
  <2> SUFFICES ASSUME Budgeted("risk") PROVE \E p \in Policies : Bears(Weights(p))' <= limit(p)
      BY DEF RisksInHand, Budgeted, Late, Heaviest
  <2>1. ASSUME NEW p \in Policies
        PROVE  /\ Weights(p) \in Weighing
               /\ Bears(Weights(p)) \in Nat /\ Bears(Weights(p))' \in Nat
               /\ over(p) \in Int /\ Effective(p).budgets["risk"] \in Nat
    <3>1. Weights(p) \in Weighing
          BY PolicyWeighs
    <3>2. Late \in Int /\ Heaviest(Weights(p)) \in Int
          BY <3>1, FS_CardinalityType, HeaviestWeighs DEF Late
    <3>3. Bears(Weights(p)) \in Nat /\ Bears(Weights(p))' \in Nat
          BY <1>1, <3>1, RiskTypes, RiskTypesNext DEF Bears
    <3>4. QED
          BY <3>1, <3>2, <3>3, BudgetIsNumber DEF Budgeted
  <2>2. PICK p \in Policies : Bears(Weights(p)) <= limit(p)
        BY DEF RiskInv, RisksInHand
  <2>3. \/ Bears(Weights(p))' <= Bears(Weights(p))
        \/ \E w \in Request : Ask(w) /\ permit'[w].risk # NoRisk
        BY <2>1, RiskMoves DEF RiskInv, Bears
  <2>4. CASE Bears(Weights(p))' <= Bears(Weights(p))
    <3> HIDE DEF over
    <3>1. Bears(Weights(p))' <= limit(p)
          BY <2>1, <2>2, <2>4
    <3>2. QED
          BY <3>1
  <2>5. ASSUME NEW w \in Request, Ask(w), permit'[w].risk # NoRisk
        PROVE  \E q \in Policies : Bears(Weights(q))' <= limit(q)
    <3> DEFINE level == permit'[w].risk
    <3>1. level \in ActionRisks /\ LetsIn(level)
          BY <1>1, <2>5, AskedRisk DEF RiskInv
    <3>2. PICK q \in Policies :
            TotalRisk(Weights(q)) + Weight(Weights(q), level) <= Effective(q).budgets["risk"]
          BY <3>1 DEF LetsIn
    <3>3. TotalRisk(Weights(q))' = TotalRisk(Weights(q))
      <4>1. risk' = risk /\ nodes' = nodes /\ [Next]_vars
            BY <2>5, AsksStutter, GovernedStep DEF vars
      <4>2. QED
            BY <2>1, <4>1, TotalStays DEF RiskInv, KeepInv
    <3>4. RiskOf(Weights(q), Request, Carried') <= Weight(Weights(q), level) + over(q)
          BY <1>1, <2>1, CarriedBounded
    <3>5. /\ TotalRisk(Weights(q)) \in Nat /\ RiskOf(Weights(q), Request, Carried') \in Nat
          /\ Weight(Weights(q), level) \in Nat
          BY <1>1, <2>1, <3>1, RiskTypes, RiskTypesNext, WeightType, KnownRisks DEF Levels
    <3>6. Bears(Weights(q))' = TotalRisk(Weights(q))' + RiskOf(Weights(q), Request, Carried')
          BY DEF Bears
    <3> HIDE DEF level, over
    <3>7. Bears(Weights(q))' <= limit(q)
          BY <2>1, <3>2, <3>3, <3>4, <3>5, <3>6
    <3>8. QED
          BY <3>7
  <2>6. QED
        BY <2>3, <2>4, <2>5
<1>3. QED
      BY <1>1, <1>2 DEF RiskInv

LEMMA RiskBegins ==
  ASSUME IsFiniteSet(Request), Request # {}, GInit PROVE RiskInv
<1>1. /\ Used = {} /\ Planned(nodes) = {}
      /\ \A w \in Request : permit[w].risk = NoRisk
      /\ \A r \in Row : risk.rows[r] = NoRisk
      BY DEF GInit, Init, Used, UnusedRow, Planned, Unplanned, NoPermit
<1>2. RowRisks /\ PermitRisks
      BY <1>1 DEF RowRisks, PermitRisks
<1>3. RisksInHand
  <2> SUFFICES ASSUME Budgeted("risk")
               PROVE  \E p \in Policies :
                 Bears(Weights(p)) <= Effective(p).budgets["risk"] + Late * Heaviest(Weights(p))
      BY DEF RisksInHand
  <2>1. PICK p \in Policies : TRUE
        BY GovernanceAssumption DEF GovernanceAssumption
  <2> DEFINE W == Weights(p)
  <2>2. W \in Weighing
        BY PolicyWeighs
  <2>3. Effective(p).budgets["risk"] \in Nat
        BY BudgetIsNumber DEF Budgeted
  <2> HIDE DEF W
  <2>4. RiskOf(W, Request, Carried) = 0
    <3>1. \A w \in Request : Carried[w] \in Levels /\ Weight(W, Carried[w]) <= 0
          BY <1>1, <2>2, WeightType DEF Carried, Levels
    <3>2. Cardinality(Request) \in Nat
          BY FS_CardinalityType
    <3>3. RiskOf(W, Request, Carried) <= Cardinality(Request) * 0
          BY <2>2, <3>1, RiskBounded
    <3>4. RiskOf(W, Request, Carried) \in Nat
          BY <2>2, <3>1, RiskCounts
    <3>5. QED
          BY <3>2, <3>3, <3>4
  <2>5. TotalRisk(W) = 0
    <3>1. \A level : RiskOf(W, {}, level) = Cardinality(Points(W, {}, level))
          BY <2>2, FS_EmptySet, RiskCounts
    <3>2. \A level : Points(W, {}, level) = {}
          BY DEF Points
    <3>3. \A level : RiskOf(W, {}, level) = 0
          BY <3>1, <3>2, FS_EmptySet
    <3>4. QED
          BY <1>1, <3>3 DEF TotalRisk, RiskOfNodes
  <2>6. Late * Heaviest(W) \in Nat
    <3>1. Cardinality(Request) \in Nat \ {0}
          BY FS_CardinalityType, FS_EmptySet
    <3>2. Late \in Nat /\ Heaviest(W) \in Nat
          BY <2>2, <3>1, HeaviestWeighs DEF Late
    <3>3. QED
          BY <3>2
  <2>7. Bears(W) <= Effective(p).budgets["risk"] + Late * Heaviest(W)
        BY <2>3, <2>4, <2>5, <2>6 DEF Bears
  <2>8. QED
        BY <2>7 DEF W
<1>4. QED
      BY <1>2, <1>3 DEF RiskInv

(* When every policy sets a budget of risk, there is always a policy that  *)
(* finds a saga's risk, in its nodes and in its steps outside the workflow *)
(* together, within its budget and, for every further request, the         *)
(* heaviest action in use, as it weighs them itself: what was put to it    *)
(* leaves nothing out, and a permit brings in only what it was given for.  *)
(* Where all policies weigh alike, the largest of the budgets holds for    *)
(* good (RiskBudget).                                                      *)
THEOREM RiskWithinBudget ==
  ASSUME IsFiniteSet(Request), Request # {} PROVE GSpec => []RiskBudget
<1>1. GovInv /\ RiskInv => RiskBudget
  <2> SUFFICES ASSUME GovInv, RiskInv, Budgeted("risk")
               PROVE  \E p \in Policies :
                 TotalRisk(Weights(p)) <= Effective(p).budgets["risk"] + Late * Heaviest(Weights(p))
      BY DEF RiskBudget
  <2>1. PICK p \in Policies :
          Bears(Weights(p)) <= Effective(p).budgets["risk"] + Late * Heaviest(Weights(p))
        BY DEF RiskInv, RisksInHand
  <2> DEFINE W == Weights(p)
             over == Late * Heaviest(W)
  <2>2. W \in Weighing /\ Effective(p).budgets["risk"] \in Nat
        BY PolicyWeighs, BudgetIsNumber DEF Budgeted
  <2>3. Bears(W) <= Effective(p).budgets["risk"] + over
        BY <2>1
  <2> HIDE DEF W
  <2>4. TotalRisk(W) \in Nat /\ RiskOf(W, Request, Carried) \in Nat
        BY <2>2, RiskTypes
  <2>5. Late \in Int /\ Heaviest(W) \in Int
        BY <2>2, FS_CardinalityType, HeaviestWeighs DEF Late
  <2>6. over \in Int
        BY <2>5
  <2> HIDE DEF over
  <2>7. TotalRisk(W) <= Effective(p).budgets["risk"] + over
        BY <2>2, <2>3, <2>4, <2>6 DEF Bears
  <2>8. QED
        BY <2>7 DEF W, over
<1>2. GInit => RiskInv
      BY RiskBegins
<1>3. QED
      BY <1>1, <1>2, RiskStep, AlwaysGoverned, GovernedIsCoordination, AlwaysKeeps, PTL DEF GSpec
=============================================================================
