----------------------- MODULE SagaCoordinatorProofs ------------------------
(***************************************************************************)
(* For any number of processes, nodes and rows: the types of the           *)
(* coordinator's state, the budget of a run included, which is never       *)
(* overdrawn; and a saga that was committed or rolled back is closed.      *)
(***************************************************************************)
EXTENDS SagaCoordinator, FiniteSetTheorems, TLAPS

USE NoRequestAssumption

(* What remains of a wave, and the calls it has made due, fit the budget;  *)
(* between waves nothing is left over.                                     *)
DueCalls(j) == {r \in Row : j.calls[r] = "due"}
NoCalls(j) == \A r \in Row : j.calls[r] = "none"
Fits(j) == Cardinality(j.todo) + Cardinality(DueCalls(j)) <= j.budget

Bounded(l, j) == (l = "run" => NoCalls(j)) /\ (l = "prepare" => Fits(j))

WavesFit == \A w \in Request : Bounded(pc[w], job[w])

JobsOK ==
  /\ pc \in [Request -> Locals]
  /\ job \in [Request -> JobType]
  /\ WavesFit

JournalOK ==
  /\ saga \in SagaStatus
  /\ nodes \in [Node -> NodeType]
  /\ steps \in [Row -> RowType]
  /\ applied \in SUBSET Row

TypeInv == FLTypeOK /\ JournalOK /\ JobsOK

LEMMA FiniteParts ==
  ASSUME NEW R \in SUBSET Row
  PROVE  IsFiniteSet(R) /\ Cardinality(R) \in Nat
BY CoordinatorAssumption, FS_Subset, FS_CardinalityType DEF CoordinatorAssumption

LEMMA FiniteNodes ==
  ASSUME NEW N \in SUBSET Node
  PROVE  IsFiniteSet(N) /\ Cardinality(N) \in Nat
BY CoordinatorAssumption, FS_Subset, FS_CardinalityType DEF CoordinatorAssumption

-----------------------------------------------------------------------------
(* The engine's functions return node records.                             *)

LEMMA RefreshType ==
  ASSUME NEW view \in [Node -> NodeType], NEW last, NEW new \in Refreshes(view, last)
  PROVE  new \in [Node -> NodeType]
<1>1. PICK status \in [InStatus(view, Open) -> Open \cup {"READY", "WAITING_APPROVAL"}] :
        new = WithStatus(view, status)
      BY DEF Refreshes
<1>2. ASSUME NEW n \in Node
      PROVE  (IF n \in DOMAIN status THEN [view[n] EXCEPT !.status = status[n]]
              ELSE view[n]) \in NodeType
      BY <1>1 DEF NodeType, NodeStatus, Open, Started, Dead
<1>3. QED
      BY <1>1, <1>2 DEF WithStatus

LEMMA NewNodeType ==
  ASSUME NEW deps \in SUBSET Node, NEW gated \in BOOLEAN, NEW mode \in Modes
  PROVE  NewNode(deps, gated, mode) \in NodeType
BY DEF NewNode, Unplanned, NodeType, NodeStatus, Open, Started

LEMMA AfterType ==
  ASSUME NEW node \in NodeType, NEW view, NEW ok
  PROVE  /\ AfterApproval(node, view) \in NodeType /\ AfterRejection(node) \in NodeType
         /\ AfterRetry(node, view) \in NodeType /\ AfterCall(node, ok) \in NodeType
<1> USE DEF NodeType, NodeStatus, Open, Dead, Started
<1>1. AfterApproval(node, view) \in NodeType
      BY DEF AfterApproval
<1>2. AfterRejection(node) \in NodeType
      BY DEF AfterRejection
<1>3. AfterRetry(node, view) \in NodeType
      BY DEF AfterRetry
<1>4. AfterCall(node, ok) \in NodeType
      BY DEF AfterCall
<1>5. QED
      BY <1>1, <1>2, <1>3, <1>4

LEMMA NoJobType == NoJob \in JobType /\ \A again \in BOOLEAN : [NoJob EXCEPT !.again = again] \in JobType
  BY DEF NoJob, JobType, CallPhase, Unplanned, NodeType, NodeStatus, Modes

-----------------------------------------------------------------------------
(* Steps of one process.                                                   *)

LEMMA JobStep ==
  ASSUME JobsOK, NEW w \in Request, NEW l \in Locals, NEW j \in JobType,
         pc' = [pc EXCEPT ![w] = l], job' = [job EXCEPT ![w] = j],
         Bounded(l, j)
  PROVE  JobsOK'
BY DEF JobsOK, WavesFit, Bounded, NoCalls, Fits, DueCalls

LEMMA PlaceStep ==
  ASSUME JobsOK, NEW w \in Request, NEW l \in Locals \ {"run", "prepare"},
         pc' = [pc EXCEPT ![w] = l], job' = job
  PROVE  JobsOK'
BY DEF JobsOK, WavesFit, Bounded, NoCalls, Fits, DueCalls

LEMMA LeaveType ==
  ASSUME FLTypeOK, NEW w \in Request, Leave(w) PROVE FLTypeOK'
BY DEF FLTypeOK, Leave, Believes

LEMMA EndType ==
  ASSUME TypeInv, NEW w \in Request, NEW l \in {"idle", "down", "again"}, End(w, l)
  PROVE  TypeInv'
<1>1. FLTypeOK'
      BY LeaveType DEF End, TypeInv
<1>2. JobsOK'
      BY JobStep, NoJobType DEF End, TypeInv, Goto, Locals, Bounded
<1>3. QED
      BY <1>1, <1>2 DEF TypeInv, JournalOK, End, journal

LEMMA FinishType ==
  ASSUME JobsOK, NEW w \in Request, NEW again \in BOOLEAN, Finish(w, again)
  PROVE  JobsOK'
BY JobStep, NoJobType DEF Finish, Goto, Locals, Bounded

LEMMA GrantType ==
  ASSUME FLTypeOK, NEW w \in Request, Grant(w) PROVE FLTypeOK'
BY DEF FLTypeOK, Grant, Believes

LEMMA SameLease ==
  ASSUME FLTypeOK, UNCHANGED leaseVars PROVE FLTypeOK'
BY DEF FLTypeOK, leaseVars

LEMMA SameJournal ==
  ASSUME JournalOK, UNCHANGED journal, applied' \in SUBSET Row PROVE JournalOK'
BY DEF JournalOK, journal

-----------------------------------------------------------------------------
(* The actions.                                                            *)

LEMMA OperateType ==
  ASSUME TypeInv, NEW w \in Request, Operate(w) PROVE TypeInv'
<1> USE DEF leaseVars
<1>0. job[w] \in JobType /\ job[w].view \in [Node -> NodeType]
      BY DEF TypeInv, JobsOK, JobType
<1>1. CASE Refuse(w)
      BY <1>1, EndType DEF Refuse
<1>2. CASE PlanStep(w)
  <2>1. PICK n \in Node, gated \in Gates, mode \in FailureModes,
             deps \in SUBSET Planned(job[w].view) :
          nodes' \in Refreshes([job[w].view EXCEPT ![n] = NewNode(deps, gated, mode)], n)
        BY <1>2 DEF PlanStep
  <2>2. NewNode(deps, gated, mode) \in NodeType
        BY <2>1, NewNodeType, CoordinatorAssumption DEF CoordinatorAssumption, Planned
  <2>3. [job[w].view EXCEPT ![n] = NewNode(deps, gated, mode)] \in [Node -> NodeType]
        BY <1>0, <2>2
  <2>4. nodes' \in [Node -> NodeType]
        BY <2>1, <2>3, RefreshType
  <2>5. JobsOK'
        BY <1>2, FinishType DEF PlanStep, TypeInv
  <2>6. QED
        BY <1>2, <2>4, <2>5, SameLease DEF PlanStep, TypeInv, JournalOK
<1>3. CASE SaveEngine(w)
  <2>1. JobsOK'
        BY <1>3, FinishType DEF SaveEngine, TypeInv
  <2>2. QED
        BY <1>0, <1>3, <2>1, SameLease DEF SaveEngine, TypeInv, JournalOK
<1>4. CASE Commit(w)
  <2>1. JobsOK'
        BY <1>4, FinishType DEF Commit, TypeInv
  <2>2. QED
        BY <1>4, <2>1, SameLease DEF Commit, TypeInv, JournalOK, SagaStatus, Final
<1>5. ASSUME NEW n \in Node, ApproveStep(w, n) \/ RejectStep(w, n) \/ RetryStep(w, n)
      PROVE  TypeInv'
  <2>1. PICK view \in [Node -> NodeType] :
          job' = [job EXCEPT ![w] = [job[w] EXCEPT !.view = view]]
    <3>1. CASE ApproveStep(w, n) \/ RejectStep(w, n)
          BY <1>0, <3>1, AfterType DEF ApproveStep, RejectStep
    <3>2. CASE RetryStep(w, n)
      <4>1. PICK view \in Refreshes([job[w].view EXCEPT ![n] = AfterRetry(@, job[w].view)], 0) :
              job' = [job EXCEPT ![w].view = view]
            BY <3>2 DEF RetryStep
      <4>2. [job[w].view EXCEPT ![n] = AfterRetry(@, job[w].view)] \in [Node -> NodeType]
            BY <1>0, AfterType
      <4>3. view \in [Node -> NodeType]
            BY <4>1, <4>2, RefreshType
      <4>4. QED
            BY <4>1, <4>3
    <3>3. QED
          BY <1>5, <3>1, <3>2
  <2>2. [job[w] EXCEPT !.view = view] \in JobType
        BY <1>0 DEF JobType
  <2>3. pc' = [pc EXCEPT ![w] = "save"]
        BY <1>5 DEF ApproveStep, RejectStep, RetryStep, Goto
  <2>4. JobsOK'
        BY <2>1, <2>2, <2>3, JobStep DEF TypeInv, Locals, Bounded
  <2>5. QED
        BY <1>5, <2>4, SameLease
        DEF ApproveStep, RejectStep, RetryStep, TypeInv, JournalOK, SagaStatus
<1>6. QED
      BY <1>1, <1>2, <1>3, <1>4, <1>5 DEF Operate

(* A step that writes rows at most, and changes the locals of w.           *)
LEMMA LocalStep ==
  ASSUME TypeInv, NEW w \in Request, NEW l \in Locals, NEW j \in JobType,
         pc' = [pc EXCEPT ![w] = l] \/ (pc' = pc /\ l = pc[w]),
         job' = [job EXCEPT ![w] = j], Bounded(l, j),
         steps' \in [Row -> RowType], applied' \in SUBSET Row,
         UNCHANGED <<saga, nodes, leaseVars>>
  PROVE  TypeInv'
<1>1. pc' = [pc EXCEPT ![w] = l]
      BY DEF TypeInv, JobsOK
<1>2. JobsOK'
      BY <1>1, JobStep DEF TypeInv
<1>3. QED
      BY <1>2, SameLease DEF TypeInv, JournalOK

LEMMA WaveType ==
  ASSUME TypeInv, NEW w \in Request, FormWave(w) PROVE TypeInv'
<1>0. /\ job[w] \in JobType /\ job[w].view \in [Node -> NodeType]
      /\ job[w].budget \in Nat /\ job[w].par \in Nat
      BY DEF TypeInv, JobsOK, JobType
<1> DEFINE limit == IF job[w].par < job[w].budget THEN job[w].par ELSE job[w].budget
<1>a. PICK view \in Refreshes(job[w].view, 0) :
        \E wave \in Waves(view, limit) :
          job' = [job EXCEPT ![w].view = view, ![w].todo = wave]
      BY DEF FormWave
<1>1. PICK wave \in Waves(view, limit) : job' = [job EXCEPT ![w].view = view, ![w].todo = wave]
      BY <1>a
<1> DEFINE j == [job[w] EXCEPT !.view = view, !.todo = wave]
<1>2. view \in [Node -> NodeType]
      BY <1>0, <1>1, RefreshType
<1>3. wave \in SUBSET Node /\ Cardinality(wave) <= job[w].budget
  <2>1. /\ wave \in SUBSET Node
        /\ Cardinality(wave) <= limit
        BY <1>1 DEF Waves, InStatus
  <2>2. Cardinality(wave) \in Nat
        BY <2>1, FiniteNodes
  <2>3. QED
        BY <1>0, <2>1, <2>2
<1>4. j \in JobType
      BY <1>0, <1>2, <1>3 DEF JobType
<1>5. Fits(j)
  <2>1. NoCalls(job[w])
        BY DEF TypeInv, JobsOK, WavesFit, Bounded, FormWave
  <2>2. DueCalls(j) = {}
        BY <1>0, <2>1 DEF NoCalls, DueCalls, JobType
  <2>3. Cardinality(DueCalls(j)) = 0 /\ Cardinality(wave) \in Nat
        BY <1>3, <2>2, FS_EmptySet, FiniteNodes
  <2>4. j.todo = wave /\ j.budget = job[w].budget
        BY <1>0 DEF JobType
  <2>5. QED
        BY <1>0, <1>3, <2>3, <2>4 DEF Fits
<1>6. job' = [job EXCEPT ![w] = j] /\ pc' = [pc EXCEPT ![w] = "prepare"]
      BY <1>1 DEF FormWave, Goto
<1>7. QED
      BY <1>4, <1>5, <1>6, LocalStep
      DEF Bounded, Locals, FormWave, journal, leaseVars, TypeInv, JournalOK

LEMMA PrepareType ==
  ASSUME TypeInv, NEW w \in Request, NEW n \in Node, NEW r \in Row, PrepareNode(w, n, r)
  PROVE  TypeInv'
<1>0. /\ job[w] \in JobType /\ job[w].view \in [Node -> NodeType]
      /\ job[w].budget \in Nat /\ job[w].todo \in SUBSET Node
      /\ job[w].calls \in [Row -> CallPhase] /\ n \in job[w].todo
      BY DEF TypeInv, JobsOK, JobType, PrepareNode
<1> DEFINE j == [job[w] EXCEPT !.todo = @ \ {n}, !.calls[r] = "due",
                   !.view[n] = [@ EXCEPT !.status = "EXECUTING", !.step = r]]
<1>1. [job[w].view[n] EXCEPT !.status = "EXECUTING", !.step = r] \in NodeType
  <2>1. job[w].view[n] \in NodeType /\ "EXECUTING" \in NodeStatus
        BY <1>0 DEF NodeStatus, Started
  <2> HIDE DEF j
  <2>2. QED
        BY <2>1 DEF NodeType
<1>2. j \in JobType
      BY <1>0, <1>1 DEF JobType, CallPhase
<1>3. Fits(j)
  <2>1. Fits(job[w])
        BY DEF TypeInv, JobsOK, WavesFit, Bounded, PrepareNode
  <2>2. DueCalls(j) = DueCalls(job[w]) \cup {r}
        BY <1>0 DEF DueCalls, JobType
  <2>3. IsFiniteSet(DueCalls(job[w])) /\ Cardinality(DueCalls(job[w])) \in Nat
        BY FiniteParts DEF DueCalls
  <2>4. IsFiniteSet(job[w].todo) /\ Cardinality(job[w].todo) \in Nat
        BY <1>0, FiniteNodes
  <2>5. Cardinality(job[w].todo \ {n}) = Cardinality(job[w].todo) - 1
        BY <1>0, <2>4, FS_RemoveElement
  <2>6. Cardinality(DueCalls(j)) \in
          {Cardinality(DueCalls(job[w])), Cardinality(DueCalls(job[w])) + 1}
        BY <2>2, <2>3, FS_AddElement
  <2>7. j.todo = job[w].todo \ {n} /\ j.budget = job[w].budget
        BY <1>0 DEF JobType
  <2>8. QED
        BY <1>0, <2>1, <2>3, <2>4, <2>5, <2>6, <2>7 DEF Fits
<1>4. steps' \in [Row -> RowType]
      BY <1>0 DEF PrepareNode, TypeInv, JournalOK, RowType, RowStatus, NodeType
<1>5. job' = [job EXCEPT ![w] = j] /\ pc' = pc /\ pc[w] = "prepare"
      BY DEF PrepareNode
<1>6. QED
      BY <1>2, <1>3, <1>4, <1>5, LocalStep
      DEF Bounded, Locals, PrepareNode, leaseVars, TypeInv, JournalOK

LEMMA SaveWaveType ==
  ASSUME TypeInv, NEW w \in Request, SaveWave(w) PROVE TypeInv'
<1>0. /\ job[w] \in JobType /\ job[w].view \in [Node -> NodeType] /\ job[w].budget \in Nat
      BY DEF TypeInv, JobsOK, JobType
<1> DEFINE j == [job[w] EXCEPT !.budget = @ - Cardinality(DueCalls(job[w]))]
<1>1. Fits(job[w]) /\ job[w].todo = {}
      BY DEF TypeInv, JobsOK, WavesFit, Bounded, SaveWave
<1>2. Cardinality(DueCalls(job[w])) \in Nat /\ Cardinality(job[w].todo) = 0
      BY <1>1, FiniteParts, FS_EmptySet DEF DueCalls
<1>3. job[w].budget - Cardinality(DueCalls(job[w])) \in Nat
      BY <1>0, <1>1, <1>2 DEF Fits
<1>4. j \in JobType
      BY <1>0, <1>3 DEF JobType
<1>5. InPhase(w, {"due"}) = DueCalls(job[w])
      BY DEF InPhase, DueCalls
<1>6. job' = [job EXCEPT ![w] = j] /\ pc' = [pc EXCEPT ![w] = "calls"]
      BY <1>5 DEF SaveWave, Goto
<1>7. JobsOK'
      BY <1>4, <1>6, JobStep DEF TypeInv, Bounded, Locals
<1>8. QED
      BY <1>0, <1>7, SameLease DEF SaveWave, TypeInv, JournalOK

LEMMA ResultsType ==
  ASSUME TypeInv, NEW w \in Request, SaveResults(w) PROVE TypeInv'
<1>0. job[w] \in JobType /\ job[w].view \in [Node -> NodeType]
      BY DEF TypeInv, JobsOK, JobType
<1>1. PICK view \in Refreshes(job[w].view, 0) :
        nodes' = view /\ job' = [job EXCEPT ![w].view = view]
      BY DEF SaveResults
<1> DEFINE j == [job[w] EXCEPT !.view = view]
<1>2. view \in [Node -> NodeType]
      BY <1>0, <1>1, RefreshType
<1>3. j \in JobType /\ j.calls = job[w].calls
      BY <1>0, <1>2 DEF JobType
<1>4. NoCalls(j)
      BY <1>0, <1>3 DEF SaveResults, InPhase, NoCalls, JobType
<1>5. PICK l \in {"run", "escalate"} : pc' = [pc EXCEPT ![w] = l]
      BY DEF SaveResults, Goto
<1>6. JobsOK'
      BY <1>1, <1>3, <1>4, <1>5, JobStep DEF TypeInv, Bounded, Locals
<1>7. QED
      BY <1>1, <1>2, <1>6, SameLease DEF SaveResults, TypeInv, JournalOK

LEMMA CallType ==
  ASSUME TypeInv, NEW w \in Request, NEW r \in Row,
         \/ CreateStep(w, r) \/ StartCall(w, r) \/ CallSucceeds(w, r)
         \/ CallFails(w, r) \/ SettleRow(w, r)
  PROVE  TypeInv'
<1>0. /\ job[w] \in JobType /\ job[w].view \in [Node -> NodeType]
      /\ job[w].calls \in [Row -> CallPhase] /\ job[w].failed \in SUBSET Modes
      BY DEF TypeInv, JobsOK, JobType
<1>1. ASSUME NEW phase \in CallPhase PROVE [job[w] EXCEPT !.calls[r] = phase] \in JobType
      BY <1>0 DEF JobType
<1>2. CASE CreateStep(w, r)
  <2>1. steps' \in [Row -> RowType]
        BY <1>2, CoordinatorAssumption
        DEF CreateStep, CoordinatorAssumption, TypeInv, JournalOK, RowType, RowStatus
  <2>2. job' = [job EXCEPT ![w] = [job[w] EXCEPT !.calls[r] = "due"]]
        BY <1>2 DEF CreateStep
  <2>3. pc' = [pc EXCEPT ![w] = "calls"] /\ UNCHANGED <<saga, nodes, applied, leaseVars>>
        BY <1>2 DEF CreateStep, Goto
  <2>4. QED
        BY <1>1, <2>1, <2>2, <2>3, LocalStep
        DEF Bounded, Locals, CallPhase, TypeInv, JournalOK
<1>3. CASE StartCall(w, r) \/ CallSucceeds(w, r) \/ CallFails(w, r)
  <2>1. PICK phase \in CallPhase : job' = [job EXCEPT ![w] = [job[w] EXCEPT !.calls[r] = phase]]
        BY <1>3 DEF StartCall, CallSucceeds, CallFails, CallPhase
  <2>2. /\ pc' = pc /\ pc[w] = "calls" /\ UNCHANGED <<saga, nodes, steps, leaseVars>>
        /\ applied' \in SUBSET Row
        BY <1>3 DEF StartCall, CallSucceeds, CallFails, journal, TypeInv, JournalOK
  <2>3. QED
        BY <1>1, <2>1, <2>2, LocalStep DEF Bounded, Locals, TypeInv, JournalOK
<1>4. CASE SettleRow(w, r)
  <2> DEFINE ok == job[w].calls[r] = "ok"
             view == [m \in Node |-> IF m = steps[r].node THEN AfterCall(job[w].view[m], ok)
                                     ELSE job[w].view[m]]
             failed == IF ok THEN job[w].failed ELSE job[w].failed \cup {steps[r].mode}
             j == [job[w] EXCEPT !.calls[r] = "none", !.failed = failed, !.view = view]
  <2>1. steps[r] \in RowType
        BY DEF TypeInv, JournalOK
  <2>2. view \in [Node -> NodeType]
        BY <1>0, AfterType
  <2>3. failed \in SUBSET Modes
        BY <1>0, <2>1 DEF RowType
  <2>4. j \in JobType
    <3> HIDE DEF view, failed, ok
    <3>1. QED
          BY <1>0, <2>2, <2>3 DEF JobType, CallPhase
  <2>5. job' = [job EXCEPT ![w] = j]
        BY <1>4 DEF SettleRow
  <2>6. steps' \in [Row -> RowType]
        BY <1>4, <2>1 DEF SettleRow, TypeInv, JournalOK, RowType, RowStatus
  <2>7. PICK l \in {"calls", "exit", "escalate"} :
          pc' = [pc EXCEPT ![w] = l] \/ (pc' = pc /\ l = pc[w])
        BY <1>4 DEF SettleRow, Goto
  <2>8. UNCHANGED <<saga, nodes, applied, leaseVars>>
        BY <1>4 DEF SettleRow
  <2> HIDE DEF j
  <2>9. QED
        BY <2>4, <2>5, <2>6, <2>7, <2>8, LocalStep DEF Bounded, Locals, TypeInv, JournalOK
<1>5. QED
      BY <1>2, <1>3, <1>4

LEMMA RunForwardType ==
  ASSUME TypeInv, NEW w \in Request, RunForward(w) PROVE TypeInv'
<1>0. job[w].view \in [Node -> NodeType]
      BY DEF TypeInv, JobsOK, JobType
<1>1. CASE NothingReady(w)
  <2>1. nodes' \in [Node -> NodeType]
        BY <1>0, <1>1, RefreshType DEF NothingReady
  <2>2. JobsOK'
        BY <1>1, FinishType DEF NothingReady, TypeInv
  <2>3. QED
        BY <1>1, <2>1, <2>2, SameLease DEF NothingReady, TypeInv, JournalOK, leaseVars
<1>2. CASE Spent(w)
  <2>1. JobsOK'
        BY <1>2, FinishType DEF Spent, TypeInv
  <2>2. QED
        BY <1>2, <2>1, SameLease DEF Spent, TypeInv, JournalOK, journal, leaseVars
<1>3. CASE Unresolved(w) \/ Abandon(w)
      BY <1>3, EndType DEF Unresolved, Abandon
<1>4. CASE Escalate(w)
  <2>1. JobsOK'
    <3>1. /\ pc' = [pc EXCEPT ![w] = "exit"]
          /\ job' = [job EXCEPT ![w] = [NoJob EXCEPT !.again = "rollback" \in job[w].failed]]
          BY <1>4 DEF Escalate, Finish, Goto
    <3>2. [NoJob EXCEPT !.again = "rollback" \in job[w].failed] \in JobType
          BY NoJobType, ("rollback" \in job[w].failed) \in BOOLEAN
    <3>3. QED
          BY <3>1, <3>2, JobStep DEF TypeInv, Locals, Bounded
  <2>2. QED
        BY <1>4, <2>1, SameLease DEF Escalate, TypeInv, JournalOK, SagaStatus, Failing, leaseVars
<1>5. QED
      BY <1>1, <1>2, <1>3, <1>4, WaveType, PrepareType, SaveWaveType, ResultsType, CallType
      DEF RunForward

LEMMA UnwindType ==
  ASSUME TypeInv, NEW w \in Request, Unwind(w) PROVE TypeInv'
<1> USE DEF leaseVars, Goto
<1>0. /\ job[w] \in JobType /\ job[w].queue \in SUBSET Row
      /\ pc \in [Request -> Locals] /\ job \in [Request -> JobType]
      BY DEF TypeInv, JobsOK, JobType
<1>1. CASE Rejoin(w)
  <2>1. PICK l \in {"mark", "exit"} : pc' = [pc EXCEPT ![w] = l]
        BY <1>1 DEF Rejoin
  <2>2. JobsOK'
        BY <1>1, <2>1, PlaceStep DEF Rejoin, TypeInv, Locals
  <2>3. QED
        BY <1>1, <2>2, GrantType, SameJournal DEF Rejoin, TypeInv, JournalOK
<1>2. CASE Busy(w) \/ StartUndo(w)
  <2>1. PICK l \in {"idle", "undoing"} : pc' = [pc EXCEPT ![w] = l]
        BY <1>2 DEF Busy, StartUndo
  <2>2. JobsOK'
        BY <1>2, <2>1, PlaceStep DEF Busy, StartUndo, TypeInv, Locals
  <2>3. QED
        BY <1>2, <2>2, SameLease, SameJournal DEF Busy, StartUndo, TypeInv, JournalOK
<1>3. CASE MarkRollingBack(w)
  <2>1. [job[w] EXCEPT !.queue = {r \in Row : steps[r].status \in Compensable}] \in JobType
        BY <1>0 DEF JobType
  <2>2. JobsOK'
        BY <1>3, <2>1, JobStep DEF MarkRollingBack, TypeInv, Locals, Bounded
  <2>3. QED
        BY <1>3, <2>2, SameLease
        DEF MarkRollingBack, TypeInv, JournalOK, SagaStatus, Failing
<1>4. CASE FinishRollback(w)
  <2>1. JobsOK'
        BY <1>4, FinishType DEF FinishRollback, TypeInv
  <2>2. ASSUME NEW n \in Node PROVE Mirrored(nodes[n]) \in NodeType
        BY DEF Mirrored, TypeInv, JournalOK, NodeType, NodeStatus
  <2>3. nodes' \in [Node -> NodeType] /\ saga' \in SagaStatus
        BY <1>4, <2>2 DEF FinishRollback, SagaStatus, Failing, Final
  <2>4. QED
        BY <1>4, <2>1, <2>3, SameLease DEF FinishRollback, TypeInv, JournalOK
<1>5. ASSUME NEW r \in Row,
             \/ UndoSucceeds(w, r) \/ UndoFails(w, r) \/ RecordUndo(w, r)
             \/ RecordFailure(w, r) \/ PassOver(w, r)
      PROVE  TypeInv'
  <2>1. PICK j \in JobType : job' = [job EXCEPT ![w] = j]
    <3>1. CASE UndoSucceeds(w, r) \/ UndoFails(w, r)
          BY <1>0, <3>1 DEF UndoSucceeds, UndoFails
    <3>2. CASE RecordUndo(w, r) \/ PassOver(w, r)
      <4>1. [job[w] EXCEPT !.queue = @ \ {r}] \in JobType
            BY <1>0 DEF JobType
      <4>2. QED
            BY <3>2, <4>1 DEF RecordUndo, PassOver
    <3>3. CASE RecordFailure(w, r)
      <4>1. [job[w] EXCEPT !.queue = @ \ {r}, !.broken = TRUE] \in JobType
            BY <1>0 DEF JobType
      <4>2. QED
            BY <3>3, <4>1 DEF RecordFailure
    <3>4. QED
          BY <1>5, <3>1, <3>2, <3>3
  <2>2. PICK l \in {"undo", "undone", "unfixed"} : pc' = [pc EXCEPT ![w] = l]
        BY <1>5 DEF UndoSucceeds, UndoFails, RecordUndo, RecordFailure, PassOver
  <2>3. steps' \in [Row -> RowType]
        BY <1>5 DEF UndoSucceeds, UndoFails, RecordUndo, RecordFailure, PassOver,
                    journal, TypeInv, JournalOK, RowType, RowStatus
  <2>4. applied' \in SUBSET Row /\ UNCHANGED <<saga, nodes, leaseVars>>
        BY <1>5 DEF UndoSucceeds, UndoFails, RecordUndo, RecordFailure, PassOver,
                    journal, TypeInv, JournalOK
  <2>5. QED
        BY <2>1, <2>2, <2>3, <2>4, LocalStep DEF Bounded, Locals
<1>6. ASSUME NEW r \in Row, UndoLost(w, r) PROVE TypeInv'
  <2>1. JobsOK'
        BY <1>6, JobStep, NoJobType DEF UndoLost, TypeInv, Locals, Bounded
  <2>2. QED
        BY <1>6, <2>1, LeaveType DEF UndoLost, TypeInv, JournalOK, journal
<1>7. QED
      BY <1>1, <1>2, <1>3, <1>4, <1>5, <1>6 DEF Unwind

LEMMA RecoverType ==
  ASSUME TypeInv, NEW w \in Request, Recover(w) PROVE TypeInv'
<1> USE DEF leaseVars, Goto
<1>1. CASE EscalateToOperator(w)
  <2>1. JobsOK'
        BY <1>1, FinishType DEF EscalateToOperator, TypeInv
  <2>2. ASSUME NEW n \in Node
        PROVE  [nodes[n] EXCEPT !.status = "FAILED", !.uncertain = TRUE] \in NodeType
    <3>1. nodes[n] \in NodeType /\ "FAILED" \in NodeStatus
          BY DEF TypeInv, JournalOK, NodeStatus, Dead
    <3>2. QED
          BY <3>1 DEF NodeType
  <2>3. nodes' \in [Node -> NodeType]
        BY <1>1, <2>2 DEF EscalateToOperator, TypeInv, JournalOK
  <2>4. QED
        BY <1>1, <2>1, <2>3, SameLease DEF EscalateToOperator, TypeInv, JournalOK, SagaStatus
<1>2. CASE ResumeRollback(w)
  <2>1. PICK l \in {"mark", "exit"} : pc' = [pc EXCEPT ![w] = l]
        BY <1>2 DEF ResumeRollback
  <2>2. JobsOK'
        BY <1>2, <2>1, PlaceStep DEF ResumeRollback, TypeInv, Locals
  <2>3. QED
        BY <1>2, <2>2, SameLease, SameJournal DEF ResumeRollback, TypeInv, JournalOK
<1>3. CASE StaleClaim(w)
      BY <1>3, EndType DEF StaleClaim
<1>4. QED
      BY <1>1, <1>2, <1>3 DEF Recover

LEMMA BeginType ==
  ASSUME TypeInv, NEW w \in Request, NEW op \in Ops, NEW budget \in Nat, NEW par \in Nat,
         Begin(w, op, budget, par)
  PROVE  TypeInv'
<1> DEFINE j == [NoJob EXCEPT !.view = nodes, !.budget = budget, !.par = par]
<1>1. j \in JobType /\ NoCalls(j)
      BY NoJobType DEF TypeInv, JournalOK, JobType, NoJob, NoCalls
<1>2. PICK l \in Locals \ {"prepare"} : pc' = [pc EXCEPT ![w] = l]
  <2>1. op \in Operations
        BY OpsAssumption DEF OpsAssumption
  <2>2. (IF ~Admitted(op) THEN "exit" ELSE IF op = "rollback" THEN "mark" ELSE op)
           \in Locals \ {"prepare"}
        BY <2>1 DEF Operations, Locals
  <2>3. QED
        BY <2>2 DEF Begin, Goto
<1>3. job' = [job EXCEPT ![w] = j]
      BY DEF Begin
<1> HIDE DEF j
<1>4. JobsOK'
      BY <1>1, <1>2, <1>3, JobStep DEF TypeInv, Bounded
<1>5. QED
      BY <1>4, GrantType, SameJournal DEF Begin, TypeInv, JournalOK

LEMMA ProcessType ==
  ASSUME TypeInv, NEW w \in Request, Crash(w) \/ Claim(w) \/ NothingToClaim(w)
  PROVE  TypeInv'
<1>1. CASE Crash(w)
  <2>1. FLTypeOK'
        BY <1>1 DEF Crash, Die, TypeInv, FLTypeOK, Believes
  <2>2. JobsOK'
        BY <1>1, JobStep, NoJobType DEF Crash, Goto, TypeInv, Locals, Bounded
  <2>3. applied' \in SUBSET Row
        BY <1>1 DEF Crash, InPhase, TypeInv, JournalOK
  <2>4. QED
        BY <1>1, <2>1, <2>2, <2>3, SameJournal DEF Crash, TypeInv
<1>2. CASE Claim(w)
  <2>1. JobsOK'
        BY <1>2, PlaceStep DEF Claim, Goto, TypeInv, Locals
  <2>2. QED
        BY <1>2, <2>1, GrantType, SameJournal DEF Claim, TypeInv, JournalOK
<1>3. CASE NothingToClaim(w)
  <2>1. JobsOK'
        BY <1>3, PlaceStep DEF NothingToClaim, Goto, TypeInv, Locals
  <2>2. QED
        BY <1>3, <2>1, SameLease, SameJournal DEF NothingToClaim, TypeInv, JournalOK
<1>4. QED
      BY <1>1, <1>2, <1>3

LEMMA LeaseEventType ==
  ASSUME TypeInv, ExpireLease \/ \E w \in Request : HeartbeatFails(w)
  PROVE  TypeInv'
<1>1. FLTypeOK'
      BY DEF ExpireLease, Lapse, HeartbeatFails, Notice, TypeInv, FLTypeOK, Believes
<1>2. UNCHANGED <<journal, pc, job, applied>>
      BY DEF ExpireLease, HeartbeatFails
<1>3. QED
      BY <1>1, <1>2, SameJournal
      DEF TypeInv, JournalOK, JobsOK, WavesFit, Bounded, NoCalls, Fits, DueCalls

LEMMA InitType == Init => TypeInv
<1> SUFFICES ASSUME Init PROVE TypeInv
    OBVIOUS
<1>1. FLTypeOK
      BY DEF Init, FLInit, FLTypeOK, Believes
<1>2. JournalOK
      BY DEF Init, JournalOK, SagaStatus, Unplanned, UnusedRow, RowType, RowStatus,
             NodeType, NodeStatus, Modes
<1>3. JobsOK
      BY NoJobType DEF Init, JobsOK, WavesFit, Bounded, Locals
<1>4. QED
      BY <1>1, <1>2, <1>3 DEF TypeInv

LEMMA TypeStep == TypeInv /\ [Next]_vars => TypeInv'
<1> SUFFICES ASSUME TypeInv, [Next]_vars PROVE TypeInv'
    OBVIOUS
<1>1. ASSUME NEW w \in Request, Work(w) PROVE TypeInv'
      BY <1>1, OperateType, RunForwardType, UnwindType, RecoverType, EndType
      DEF Work, Exit, CheckFails, StaleWrite
<1>2. ASSUME NEW w \in Request, NEW op \in Ops \ {"run"}, Begin(w, op, 0, 1) PROVE TypeInv'
      BY <1>2, BeginType
<1>3. ASSUME NEW w \in Request, NEW budget \in Limits, NEW par \in Limits,
             "run" \in Ops /\ Begin(w, "run", budget, par)
      PROVE  TypeInv'
  <2>1. budget \in Nat /\ par \in Nat
        BY FiniteNodes DEF Limits
  <2>2. QED
        BY <1>3, <2>1, BeginType
<1>4. CASE UNCHANGED vars
  <2>1. UNCHANGED <<leaseVars, journal, pc, job, applied>>
        BY <1>4 DEF vars, leaseVars, journal
  <2>2. QED
        BY <2>1, SameLease, SameJournal
        DEF TypeInv, JournalOK, JobsOK, WavesFit, Bounded, NoCalls, Fits, DueCalls
<1>5. QED
      BY <1>1, <1>2, <1>3, <1>4, ProcessType, LeaseEventType DEF Next

LEMMA AlwaysTyped == Spec => []TypeInv
  BY InitType, TypeStep, PTL DEF Spec

(* Every status, node record, row and local keeps its type; in particular  *)
(* a run never spends more than its max_steps, wave by wave.               *)
THEOREM CoordinatorTypes == Spec => []TypeOK
<1>1. TypeInv => TypeOK
      BY DEF TypeInv, TypeOK, JournalOK, JobsOK
<1>2. QED
      BY <1>1, AlwaysTyped, PTL

-----------------------------------------------------------------------------
(* A closed saga stays closed.                                             *)

(* Where a process is that may still write.                                *)
Working == Locals \ {"down", "idle", "exit", "again"}

PlaceOK == pc \in [Request -> Locals]

(* The newest grantee works on an open saga only: the admission at the     *)
(* start of its request, or the eligibility of its claim, still holds,     *)
(* since nobody else could write in between.                               *)
NewestWorksOnOpen ==
  \A w \in Request : (current = w /\ pc[w] \in Working) => saga \notin Final

OpenInv == PlaceOK /\ NewestWorksOnOpen

LEMMA OperationsArePlaces == \A op \in Ops \ {"rollback"} : op \in Locals
  BY OpsAssumption DEF OpsAssumption, Operations, Locals

LEMMA InitOpen == Init => OpenInv
  BY DEF Init, FLInit, OpenInv, PlaceOK, NewestWorksOnOpen, Locals, Working

(* A step of w that leaves the others where they are and takes the saga    *)
(* from no one keeps the invariant, if w itself ends or the saga is open.  *)
LEMMA StepOfOne ==
  ASSUME OpenInv, NEW w \in Request, NEW l \in Locals,
         pc' = [pc EXCEPT ![w] = l],
         current' \in {current, w, NoRequest},
         saga' = saga \/ current = w,
         (current' = w /\ l \in Working) => saga' \notin Final
  PROVE  OpenInv'
<1>1. PlaceOK'
      BY DEF OpenInv, PlaceOK
<1>2. ASSUME NEW v \in Request, current' = v, pc'[v] \in Working
      PROVE  saga' \notin Final
  <2>1. CASE v = w
        BY <1>2, <2>1 DEF OpenInv, PlaceOK
  <2>2. CASE v # w
    <3>1. current = v /\ pc[v] \in Working
          BY <1>2, <2>2 DEF OpenInv, PlaceOK
    <3>2. QED
          BY <2>2, <3>1 DEF OpenInv, NewestWorksOnOpen
  <2>3. QED
        BY <2>1, <2>2
<1>3. QED
      BY <1>1, <1>2 DEF OpenInv, NewestWorksOnOpen

LEMMA SameStep ==
  ASSUME OpenInv, pc' = pc, current' \in {current, NoRequest}, saga' = saga
  PROVE  OpenInv'
BY DEF OpenInv, PlaceOK, NewestWorksOnOpen

LEMMA OperateOpen ==
  ASSUME OpenInv, NEW w \in Request, Operate(w) PROVE OpenInv'
<1> USE DEF leaseVars, journal, Goto, Finish, Accepted, Final
<1>1. CASE Refuse(w)
      BY <1>1, StepOfOne DEF Refuse, End, Leave, Locals, Working
<1>2. CASE PlanStep(w)
  <2>1. pc' = [pc EXCEPT ![w] = "exit"] /\ saga' = saga /\ current' = current
        BY <1>2 DEF PlanStep
  <2>2. QED
        BY <2>1, StepOfOne DEF Locals, Working
<1>3. CASE SaveEngine(w)
      BY <1>3, StepOfOne DEF SaveEngine, Locals, Working
<1>4. CASE Commit(w)
      BY <1>4, StepOfOne DEF Commit, Locals, Working
<1>5. ASSUME NEW n \in Node, ApproveStep(w, n) \/ RejectStep(w, n) \/ RetryStep(w, n)
      PROVE  OpenInv'
  <2>1. /\ pc' = [pc EXCEPT ![w] = "save"] /\ current' = current /\ current = w
        /\ saga' \in {"ACTIVE", "RECOVERY_REQUIRED"}
        BY <1>5 DEF ApproveStep, RejectStep, RetryStep
  <2>2. QED
        BY <2>1, StepOfOne DEF Locals, Working
<1>6. QED
      BY <1>1, <1>2, <1>3, <1>4, <1>5 DEF Operate

LEMMA RunForwardOpen ==
  ASSUME OpenInv, NEW w \in Request, RunForward(w) PROVE OpenInv'
<1> USE DEF leaseVars, journal, Goto, Finish, Accepted, Final
<1>0. pc[w] \in Locals /\ (current = w /\ pc[w] \in Working => saga \notin Final)
      BY DEF OpenInv, PlaceOK, NewestWorksOnOpen
<1>1. CASE FormWave(w)
  <2>1. /\ pc' = [pc EXCEPT ![w] = "prepare"] /\ pc[w] = "run"
        /\ saga' = saga /\ current' = current
        BY <1>1 DEF FormWave
  <2>2. QED
        BY <1>0, <2>1, StepOfOne DEF Locals, Working
<1>2. CASE NothingReady(w) \/ Spent(w)
  <2>1. pc' = [pc EXCEPT ![w] = "exit"] /\ saga' = saga /\ current' = current
        BY <1>2 DEF NothingReady, Spent
  <2>2. QED
        BY <2>1, StepOfOne DEF Locals, Working
<1>3. CASE Unresolved(w) \/ Abandon(w)
      BY <1>3, StepOfOne DEF Unresolved, Abandon, End, Leave, Locals, Working
<1>4. ASSUME NEW r \in Row, CreateStep(w, r) PROVE OpenInv'
  <2>1. /\ pc' = [pc EXCEPT ![w] = "calls"] /\ pc[w] = "execute"
        /\ saga' = saga /\ current' = current
        BY <1>4 DEF CreateStep
  <2>2. QED
        BY <1>0, <2>1, StepOfOne DEF Locals, Working
<1>5. ASSUME NEW r \in Row,
             \/ \E n \in Node : PrepareNode(w, n, r)
             \/ StartCall(w, r) \/ CallSucceeds(w, r) \/ CallFails(w, r)
      PROVE  OpenInv'
  <2>1. pc' = pc /\ saga' = saga /\ current' = current
        BY <1>5 DEF PrepareNode, StartCall, CallSucceeds, CallFails
  <2>2. QED
        BY <2>1, SameStep
<1>6. CASE SaveWave(w)
  <2>1. /\ pc' = [pc EXCEPT ![w] = "calls"] /\ pc[w] = "prepare"
        /\ saga' = saga /\ current' = current
        BY <1>6 DEF SaveWave
  <2>2. QED
        BY <1>0, <2>1, StepOfOne DEF Locals, Working
<1>7. CASE SaveResults(w)
  <2>1. PICK l \in {"run", "escalate"} :
          /\ pc' = [pc EXCEPT ![w] = l] /\ pc[w] = "calls"
          /\ saga' = saga /\ current' = current
        BY <1>7 DEF SaveResults
  <2>2. QED
        BY <1>0, <2>1, StepOfOne DEF Locals, Working
<1>8. CASE Escalate(w)
  <2>1. /\ pc' = [pc EXCEPT ![w] = "exit"] /\ current = w /\ current' = current
        BY <1>8 DEF Escalate
  <2>2. QED
        BY <2>1, StepOfOne DEF Locals, Working
<1>9. ASSUME NEW r \in Row, SettleRow(w, r) PROVE OpenInv'
  <2>1. /\ saga' = saga /\ current' = current /\ pc[w] = "calls"
        /\ pc' = pc \/ pc' = [pc EXCEPT ![w] = "exit"] \/ pc' = [pc EXCEPT ![w] = "escalate"]
        BY <1>9 DEF SettleRow
  <2>2. QED
        BY <1>0, <2>1, StepOfOne, SameStep DEF Locals, Working
<1>10. QED
       BY <1>1, <1>2, <1>3, <1>4, <1>5, <1>6, <1>7, <1>8, <1>9 DEF RunForward

LEMMA UnwindOpen ==
  ASSUME OpenInv, NEW w \in Request, Unwind(w) PROVE OpenInv'
<1> USE DEF leaseVars, journal, Goto, Finish, Accepted, Final
<1>0. pc[w] \in Locals /\ (current = w /\ pc[w] \in Working => saga \notin Final)
      BY DEF OpenInv, PlaceOK, NewestWorksOnOpen
<1>1. CASE Rejoin(w)
  <2>1. /\ current' = w /\ saga' = saga
        /\ pc' = [pc EXCEPT ![w] = IF saga \notin Final THEN "mark" ELSE "exit"]
        BY <1>1 DEF Rejoin, Grant, Admitted
  <2>2. QED
        BY <2>1, StepOfOne DEF Locals, Working
<1>2. CASE Busy(w)
      BY <1>2, StepOfOne DEF Busy, Locals, Working
<1>3. CASE MarkRollingBack(w)
  <2>1. /\ pc' = [pc EXCEPT ![w] = "undo"] /\ current = w /\ current' = current
        /\ saga' = "ROLLING_BACK"
        BY <1>3 DEF MarkRollingBack
  <2>2. QED
        BY <2>1, StepOfOne DEF Locals, Working
<1>4. CASE StartUndo(w)
      BY <1>0, <1>4, StepOfOne DEF StartUndo, Locals, Working
<1>5. CASE FinishRollback(w)
  <2>1. pc' = [pc EXCEPT ![w] = "exit"] /\ current = w /\ current' = current
        BY <1>5 DEF FinishRollback
  <2>2. QED
        BY <2>1, StepOfOne DEF Locals, Working
<1>6. ASSUME NEW r \in Row,
             \/ UndoSucceeds(w, r) \/ UndoFails(w, r) \/ RecordUndo(w, r)
             \/ RecordFailure(w, r) \/ PassOver(w, r)
      PROVE  OpenInv'
  <2>1. PICK l \in {"undo", "undone", "unfixed"} :
          /\ pc' = [pc EXCEPT ![w] = l] /\ pc[w] \in {"undo", "undoing", "undone", "unfixed"}
          /\ saga' = saga /\ current' = current
        BY <1>6 DEF UndoSucceeds, UndoFails, RecordUndo, RecordFailure, PassOver
  <2>2. QED
        BY <1>0, <2>1, StepOfOne DEF Locals, Working
<1>7. ASSUME NEW r \in Row, UndoLost(w, r) PROVE OpenInv'
      BY <1>7, StepOfOne DEF UndoLost, Leave, Locals, Working
<1>8. QED
      BY <1>1, <1>2, <1>3, <1>4, <1>5, <1>6, <1>7 DEF Unwind

LEMMA RecoverOpen ==
  ASSUME OpenInv, NEW w \in Request, Recover(w) PROVE OpenInv'
<1> USE DEF leaseVars, journal, Goto, Finish, Accepted, Final
<1>1. CASE EscalateToOperator(w)
  <2>1. /\ pc' = [pc EXCEPT ![w] = "exit"] /\ current = w /\ current' = current
        BY <1>1 DEF EscalateToOperator
  <2>2. QED
        BY <2>1, StepOfOne DEF Locals, Working
<1>2. CASE ResumeRollback(w)
  <2>1. /\ current' = current /\ saga' = saga
        /\ pc' = [pc EXCEPT ![w] = IF saga \notin Final THEN "mark" ELSE "exit"]
        BY <1>2 DEF ResumeRollback, Admitted
  <2>2. QED
        BY <2>1, StepOfOne DEF Locals, Working
<1>3. CASE StaleClaim(w)
      BY <1>3, StepOfOne DEF StaleClaim, End, Leave, Locals, Working
<1>4. QED
      BY <1>1, <1>2, <1>3 DEF Recover

LEMMA BeginOpen ==
  ASSUME OpenInv, NEW w \in Request, NEW op \in Ops, NEW budget, NEW par,
         Begin(w, op, budget, par)
  PROVE  OpenInv'
<1>1. /\ current' = w /\ saga' = saga
      /\ pc' = [pc EXCEPT ![w] = IF ~Admitted(op) THEN "exit"
                                 ELSE IF op = "rollback" THEN "mark" ELSE op]
      BY DEF Begin, Grant, Goto, journal
<1>2. Admitted(op) => saga \notin Final
      BY DEF Admitted, Final
<1>3. op # "rollback" => op \in Locals
      BY OperationsArePlaces
<1>4. QED
      BY <1>1, <1>2, <1>3, StepOfOne DEF Locals, Working

(* Every step keeps the invariant.                                         *)
LEMMA OpenStep == OpenInv /\ [Next]_vars => OpenInv'
<1> SUFFICES ASSUME OpenInv, [Next]_vars PROVE OpenInv'
    OBVIOUS
<1> USE DEF leaseVars, journal, Goto, Final
<1>1. CASE ExpireLease
      BY <1>1, SameStep DEF ExpireLease, Lapse
<1>2. ASSUME NEW w \in Request, NEW op \in Ops, NEW budget, NEW par,
             Begin(w, op, budget, par)
      PROVE  OpenInv'
      BY <1>2, BeginOpen
<1>3. ASSUME NEW w \in Request, Work(w) PROVE OpenInv'
  <2>1. CASE Exit(w)
        BY <2>1, StepOfOne DEF Exit, End, Leave, Locals, Working
  <2>2. CASE CheckFails(w) \/ StaleWrite(w)
        BY <2>2, StepOfOne DEF CheckFails, StaleWrite, End, Leave, Locals, Working
  <2>3. QED
        BY <1>3, <2>1, <2>2, OperateOpen, RunForwardOpen, UnwindOpen, RecoverOpen DEF Work
<1>4. ASSUME NEW w \in Request, HeartbeatFails(w) PROVE OpenInv'
      BY <1>4, SameStep DEF HeartbeatFails, Notice
<1>5. ASSUME NEW w \in Request, Crash(w) PROVE OpenInv'
  <2>1. current' \in {current, NoRequest} /\ saga' = saga /\ pc' = [pc EXCEPT ![w] = "down"]
        BY <1>5 DEF Crash, Die
  <2>2. QED
        BY <2>1, StepOfOne DEF Locals, Working
<1>6. ASSUME NEW w \in Request, Claim(w) PROVE OpenInv'
  <2>1. current' = w /\ saga' = saga /\ pc' = [pc EXCEPT ![w] = "resume"] /\ saga \notin Final
        BY <1>6 DEF Claim, Grant, Pending, Failing
  <2>2. QED
        BY <2>1, StepOfOne DEF Locals, Working
<1>7. ASSUME NEW w \in Request, NothingToClaim(w) PROVE OpenInv'
      BY <1>7, StepOfOne DEF NothingToClaim, Locals, Working
<1>8. CASE UNCHANGED vars
      BY <1>8, SameStep DEF vars
<1>9. QED
      BY <1>1, <1>2, <1>3, <1>4, <1>5, <1>6, <1>7, <1>8 DEF Next

LEMMA AlwaysOpen == Spec => []OpenInv
  BY InitOpen, OpenStep, PTL DEF Spec
-----------------------------------------------------------------------------
(* Whoever changes the journal is the newest grantee and still works.      *)
LEMMA WritersWork ==
  ASSUME OpenInv, [Next]_vars, journal' # journal
  PROVE  \E w \in Request : current = w /\ pc[w] \in Working
<1> USE DEF Goto, Finish, Accepted, Locals, Working
<1>1. CASE ExpireLease
      BY <1>1 DEF ExpireLease, journal
<1>2. ASSUME NEW w \in Request, Work(w) PROVE current = w /\ pc[w] \in Working
  <2>1. CASE Operate(w)
        BY <2>1 DEF Operate, Refuse, End, PlanStep, SaveEngine, Commit, ApproveStep,
                    RejectStep, RetryStep
  <2>2. CASE RunForward(w)
    <3>1. CASE FormWave(w) \/ Spent(w) \/ Unresolved(w) \/ Abandon(w)
          BY <3>1 DEF FormWave, Spent, Unresolved, Abandon, End
    <3>2. CASE NothingReady(w) \/ SaveWave(w) \/ SaveResults(w) \/ Escalate(w)
          BY <3>2 DEF NothingReady, SaveWave, SaveResults, Escalate
    <3>3. ASSUME NEW r \in Row,
                 \/ CreateStep(w, r) \/ \E n \in Node : PrepareNode(w, n, r)
                 \/ StartCall(w, r) \/ CallSucceeds(w, r) \/ CallFails(w, r)
                 \/ SettleRow(w, r)
          PROVE  current = w /\ pc[w] \in Working
          BY <3>3 DEF CreateStep, PrepareNode, StartCall, CallSucceeds, CallFails, SettleRow
    <3>4. QED
          BY <2>2, <3>1, <3>2, <3>3 DEF RunForward
  <2>3. CASE Unwind(w)
        BY <2>3 DEF Unwind, Rejoin, Busy, MarkRollingBack, StartUndo, FinishRollback,
                    UndoSucceeds, UndoFails, UndoLost, RecordUndo, RecordFailure, PassOver
  <2>4. CASE Recover(w)
        BY <2>4 DEF Recover, EscalateToOperator, ResumeRollback, StaleClaim, End
  <2>5. CASE Exit(w) \/ CheckFails(w) \/ StaleWrite(w)
        BY <2>5 DEF Exit, CheckFails, StaleWrite, End
  <2>6. QED
        BY <1>2, <2>1, <2>2, <2>3, <2>4, <2>5 DEF Work
<1>3. ASSUME NEW w \in Request,
             \/ \E op \in Ops : \E budget, par : Begin(w, op, budget, par)
             \/ HeartbeatFails(w) \/ Crash(w) \/ Claim(w) \/ NothingToClaim(w)
      PROVE  FALSE
      BY <1>3 DEF Begin, HeartbeatFails, Crash, Claim, NothingToClaim
<1>4. CASE UNCHANGED vars
      BY <1>4 DEF vars, journal
<1>5. QED
      BY <1>1, <1>2, <1>3, <1>4 DEF Next

LEMMA FinalStays ==
  ASSUME OpenInv, [Next]_vars, saga \in Final PROVE UNCHANGED journal
BY WritersWork DEF OpenInv, NewestWorksOnOpen

(* A committed or rolled back saga is closed: no process that still works  *)
(* on it, however late, changes its status, its workflow or a row.         *)
THEOREM ClosedForGood == Spec => TerminalFinal
<1>1. OpenInv /\ [Next]_vars => [(saga \in Final) => UNCHANGED journal]_vars
      BY FinalStays
<1>2. QED
      BY <1>1, AlwaysOpen, PTL DEF Spec, TerminalFinal
=============================================================================
