------------------------ MODULE SagaEligibilityProofs ------------------------
(***************************************************************************)
(* For any number of processes, nodes and rows, with processes that die at *)
(* any moment: a node starts only when it may, and, if no process outlives *)
(* its lease, a rolled back saga leaves no effect behind.                  *)
(***************************************************************************)
EXTENDS SagaWorkflowProofs

USE NoRequestAssumption

(* The end of a rollback takes COMPLETED from the nodes that it undid and  *)
(* leaves their dependents READY; a saga that has come so far never moves  *)
(* forward again.  That needs every executing node to be dealt with: one   *)
(* whose compensation failed without a message stays executing, and a      *)
(* recovery pass would then hand the saga to an operator, who may retry.   *)
Forward == {"ACTIVE", "RECOVERY_REQUIRED"}

NodesSound ==
  \/ Sound(nodes)
  \/ InStatus(nodes, {"EXECUTING"}) = {} /\ saga \notin Forward

ViewsSound == \A w \in Request : (current = w /\ pc[w] \in Changing) => Sound(job[w].view)

SoundInv == WorkInv /\ NodesSound /\ ViewsSound

LEMMA SoundStep ==
  ASSUME ViewsSound, NEW w \in Request, Frame(w),
         (current' = w /\ pc'[w] \in Changing) => Sound(job'[w].view)
  PROVE  ViewsSound'
<1> SUFFICES ASSUME NEW v \in Request, current' = v, pc'[v] \in Changing
             PROVE  Sound(job'[v].view)
    BY DEF ViewsSound
<1>1. CASE v # w
  <2>1. current = v /\ pc'[v] = pc[v] /\ job'[v] = job[v]
        BY <1>1 DEF Frame
  <2>2. QED
        BY <2>1 DEF ViewsSound
<1>2. QED
      BY <1>1

LEMMA SameNodesSound ==
  ASSUME NodesSound, nodes' = nodes, saga' = saga \/ saga' \notin Forward \/ Sound(nodes)
  PROVE  NodesSound'
BY DEF NodesSound, InStatus

(* The steps that change neither the saga nor its workflow, and do not     *)
(* lead to a change of it.                                                 *)
LEMMA QuietSound ==
  ASSUME SoundInv, NEW w \in Request, Frame(w), UNCHANGED <<saga, nodes>>,
         pc'[w] \notin Changing
  PROVE  NodesSound' /\ ViewsSound'
BY SameNodesSound, SoundStep DEF SoundInv

(* Whoever moves the saga forward finds and has a sound workflow.          *)
LEMMA ForwardSound ==
  ASSUME SoundInv, NEW w \in Request, current = w,
         pc[w] \in Reading \cup Changing \cup {"escalate"}
  PROVE  /\ saga \in Forward /\ Sound(nodes) /\ nodes \in [Node -> NodeType]
         /\ job[w] \in JobType /\ job[w].view \in [Node -> NodeType]
         /\ pc[w] \in Reading \cup Changing => Sound(job[w].view)
<1>1. saga \in Expected(pc[w])
      BY DEF SoundInv, WorkInv, LifeInv, LifeOK
<1>2. saga \in Forward
      BY <1>1 DEF Expected, Reading, Changing, Forward
<1>3. Sound(nodes)
      BY <1>2 DEF SoundInv, NodesSound
<1>4. /\ nodes \in [Node -> NodeType] /\ job[w] \in JobType
      /\ job[w].view \in [Node -> NodeType]
      BY DEF SoundInv, WorkInv, LifeInv, RollbackInv, TypeInv, JournalOK, JobsOK, JobType
<1>5. pc[w] \in Reading => job[w].view = nodes
      BY DEF SoundInv, WorkInv, WorkOK, ViewsOK, ViewOK
<1>6. QED
      BY <1>2, <1>3, <1>4, <1>5 DEF SoundInv, ViewsSound

LEMMA NewNodeSound ==
  ASSUME NEW view \in [Node -> NodeType], Sound(view), NEW n \in Node \ Planned(view),
         NEW deps \in SUBSET Planned(view), NEW gated \in BOOLEAN, NEW mode \in Modes
  PROVE  /\ [view EXCEPT ![n] = NewNode(deps, gated, mode)] \in [Node -> NodeType]
         /\ Sound([view EXCEPT ![n] = NewNode(deps, gated, mode)])
<1> DEFINE node == NewNode(deps, gated, mode)
<1>1. node \in NodeType /\ view[n].status # "COMPLETED"
      BY NewNodeType DEF Planned
<1>2. node.deps = deps /\ node.gated = gated
      BY DEF NewNode, Unplanned
<1>3. node.status \in Started => deps = {} /\ ~gated
      BY DEF NewNode, Unplanned, Started
<1> HIDE DEF node
<1>4. node.status \in Started => MayStart(node, view)
      BY <1>2, <1>3, ReadyMeans DEF MayStart, Approved
<1>5. [view EXCEPT ![n] = node] \in [Node -> NodeType]
      BY <1>1
<1>6. Sound([view EXCEPT ![n] = node])
      BY <1>1, <1>4, ChangeSound
<1>7. QED
      BY <1>5, <1>6 DEF node

LEMMA DecisionsSound ==
  ASSUME NEW node \in NodeType, NEW view,
         NEW after \in {AfterApproval(node, view), AfterRejection(node), AfterRetry(node, view)},
         after.status \in Started
  PROVE  MayStart(after, view)
<1>1. CASE after = AfterApproval(node, view)
  <2>1. /\ after.deps = node.deps /\ after.approval = "APPROVED"
        /\ after.status = "READY" => DependencyStatus(node, view) = "ready"
        /\ after.status \in {"READY", "WAITING_DEPENDENCY"}
        BY <1>1 DEF AfterApproval, NodeType
  <2>2. DependencyStatus(node, view) = "ready"
        BY <2>1 DEF Started
  <2>3. QED
        BY <2>1, <2>2, ReadyMeans DEF MayStart, Approved
<1>2. CASE after = AfterRejection(node)
      BY <1>2 DEF AfterRejection, NodeType, Started
<1>3. CASE after = AfterRetry(node, view)
  <2>1. Approved(node)
        BY <1>3 DEF AfterRetry, NodeType, Started
  <2>2. /\ after.deps = node.deps /\ after.gated = node.gated /\ after.approval = node.approval
        /\ after.status = "READY" => DependencyStatus(node, view) = "ready"
        /\ after.status \in {"READY", "WAITING_DEPENDENCY"}
        BY <1>3, <2>1 DEF AfterRetry, NodeType
  <2>3. DependencyStatus(node, view) = "ready"
        BY <2>2 DEF Started
  <2>4. QED
        BY <2>1, <2>2, <2>3, ReadyMeans DEF MayStart, Approved
<1>4. QED
      BY <1>1, <1>2, <1>3

LEMMA OperateSound ==
  ASSUME SoundInv, NEW w \in Request, Operate(w) PROVE NodesSound' /\ ViewsSound'
<1> USE DEF leaseVars, journal, Accepted, Goto
<1>0. pc \in [Request -> Locals] /\ job \in [Request -> JobType]
      BY DEF SoundInv, WorkInv, LifeInv, RollbackInv, TypeInv, JobsOK
<1>1. CASE Refuse(w)
  <2>1. Frame(w) /\ UNCHANGED <<saga, nodes>> /\ pc'[w] \notin Changing
        BY <1>0, <1>1 DEF Refuse, End, Leave, Frame, Changing
  <2>2. QED
        BY <2>1, QuietSound
<1>2. CASE PlanStep(w)
  <2>1. PICK n \in Node \ Planned(job[w].view), gated \in Gates, mode \in FailureModes,
             deps \in SUBSET Planned(job[w].view) :
          nodes' \in Refreshes([job[w].view EXCEPT ![n] = NewNode(deps, gated, mode)], n)
        BY <1>2 DEF PlanStep
  <2>2. job[w].view \in [Node -> NodeType] /\ Sound(job[w].view)
        BY <1>2, ForwardSound DEF PlanStep, Reading
  <2>3. gated \in BOOLEAN /\ mode \in Modes
        BY CoordinatorAssumption DEF CoordinatorAssumption
  <2>4. Sound(nodes')
        BY <2>1, <2>2, <2>3, NewNodeSound, RefreshSound
  <2>5. Frame(w) /\ pc'[w] \notin Changing
        BY <1>0, <1>2 DEF PlanStep, Finish, Frame, Changing
  <2>6. QED
        BY <2>4, <2>5, SoundStep DEF NodesSound, SoundInv
<1>3. CASE SaveEngine(w)
  <2>1. Sound(nodes')
        BY <1>3, ForwardSound DEF SaveEngine, Changing
  <2>2. Frame(w) /\ pc'[w] \notin Changing
        BY <1>0, <1>3 DEF SaveEngine, Finish, Frame, Changing
  <2>3. QED
        BY <2>1, <2>2, SoundStep DEF NodesSound, SoundInv
<1>4. CASE Commit(w)
  <2>1. Frame(w) /\ nodes' = nodes /\ saga' \notin Forward /\ pc'[w] \notin Changing
        BY <1>0, <1>4 DEF Commit, Finish, Frame, Changing, Forward
  <2>2. QED
        BY <2>1, SameNodesSound, SoundStep DEF SoundInv
<1>5. ASSUME NEW n \in Node, ApproveStep(w, n) \/ RejectStep(w, n) \/ RetryStep(w, n)
      PROVE  NodesSound' /\ ViewsSound'
  <2>1. /\ Frame(w) /\ current = w /\ nodes' = nodes /\ pc[w] \in Reading
        BY <1>0, <1>5 DEF ApproveStep, RejectStep, RetryStep, Frame, Reading
  <2>2. Sound(nodes) /\ Sound(job[w].view) /\ job[w].view \in [Node -> NodeType]
        BY <2>1, ForwardSound
  <2> DEFINE old == job[w].view
  <2>3. ASSUME NEW after \in {AfterApproval(old[n], old), AfterRejection(old[n]),
                              AfterRetry(old[n], old)},
               old[n].status # "COMPLETED"
        PROVE  [old EXCEPT ![n] = after] \in [Node -> NodeType] /\ Sound([old EXCEPT ![n] = after])
    <3>1. old[n] \in NodeType
          BY <2>2
    <3>2. after \in NodeType
          BY <3>1, AfterType
    <3>3. after.status \in Started => MayStart(after, old)
          BY <3>1, DecisionsSound
    <3>4. QED
          BY <2>2, <2>3, <3>2, <3>3, ChangeSound
  <2>4. Sound(job'[w].view)
    <3>1. CASE ApproveStep(w, n)
      <4>1. old[n].status # "COMPLETED"
            BY <3>1 DEF ApproveStep, Approvable
      <4>2. job'[w].view = [old EXCEPT ![n] = AfterApproval(old[n], old)]
            BY <1>0, <3>1 DEF ApproveStep, JobType
      <4>3. QED
            BY <2>3, <4>1, <4>2
    <3>2. CASE RejectStep(w, n)
      <4>1. old[n].status # "COMPLETED"
            BY <3>2 DEF RejectStep, Approvable
      <4>2. job'[w].view = [old EXCEPT ![n] = AfterRejection(old[n])]
            BY <1>0, <3>2 DEF RejectStep, JobType
      <4>3. QED
            BY <2>3, <4>1, <4>2
    <3>3. CASE RetryStep(w, n)
      <4>1. old[n].status # "COMPLETED"
            BY <3>3 DEF RetryStep, Retryable, Dead
      <4> DEFINE changed == [old EXCEPT ![n] = AfterRetry(old[n], old)]
      <4>2. PICK view \in Refreshes(changed, 0) :
              job' = [job EXCEPT ![w] = [job[w] EXCEPT !.view = view]]
            BY <3>3 DEF RetryStep
      <4>3. changed \in [Node -> NodeType] /\ Sound(changed)
            BY <2>3, <4>1
      <4> HIDE DEF changed
      <4>4. job'[w].view = view
            BY <1>0, <4>2 DEF JobType
      <4>5. QED
            BY <4>2, <4>3, <4>4, RefreshSound
    <3>4. QED
          BY <1>5, <3>1, <3>2, <3>3
  <2>5. QED
        BY <2>1, <2>2, <2>4, SameNodesSound, SoundStep DEF SoundInv
<1>6. QED
      BY <1>1, <1>2, <1>3, <1>4, <1>5 DEF Operate

LEMMA RunForwardSound ==
  ASSUME SoundInv, NEW w \in Request, RunForward(w) PROVE NodesSound' /\ ViewsSound'
<1> USE DEF leaseVars, journal, Accepted, Goto
<1>0. /\ pc \in [Request -> Locals] /\ job \in [Request -> JobType] /\ job[w] \in JobType
      /\ job[w].view \in [Node -> NodeType] /\ WorkOK
      BY DEF SoundInv, WorkInv, LifeInv, RollbackInv, TypeInv, JobsOK, JobType
<1>1. CASE Spent(w) \/ Unresolved(w) \/ Abandon(w)
  <2>1. Frame(w) /\ UNCHANGED <<saga, nodes>> /\ pc'[w] \notin Changing
        BY <1>0, <1>1 DEF Spent, Unresolved, Abandon, End, Finish, Leave, Frame, Changing
  <2>2. QED
        BY <2>1, QuietSound
<1>2. CASE FormWave(w)
  <2>1. Frame(w) /\ UNCHANGED <<saga, nodes, current>> /\ pc[w] = "run"
        BY <1>0, <1>2 DEF FormWave, Frame
  <2>2. PICK view \in Refreshes(job[w].view, 0) :
          \E wave : job' = [job EXCEPT ![w] = [job[w] EXCEPT !.view = view, !.todo = wave]]
        BY <1>2 DEF FormWave
  <2>3. job'[w].view = view
        BY <1>0, <2>2 DEF JobType
  <2>4. current' = w => Sound(job'[w].view)
        BY <1>0, <2>1, <2>2, <2>3, ForwardSound, RefreshSound DEF Reading
  <2>5. QED
        BY <2>1, <2>4, SameNodesSound, SoundStep DEF SoundInv
<1>3. CASE NothingReady(w)
  <2>1. Sound(nodes')
        BY <1>0, <1>3, ForwardSound, RefreshSound DEF NothingReady, Reading
  <2>2. Frame(w) /\ pc'[w] \notin Changing
        BY <1>0, <1>3 DEF NothingReady, Finish, Frame, Changing
  <2>3. QED
        BY <2>1, <2>2, SoundStep DEF NodesSound, SoundInv
<1>4. ASSUME NEW r \in Row,
             CreateStep(w, r) \/ StartCall(w, r) \/ CallSucceeds(w, r) \/ CallFails(w, r)
      PROVE  NodesSound' /\ ViewsSound'
  <2>1. /\ Frame(w) /\ UNCHANGED <<saga, nodes, current>> /\ pc[w] \in {"execute", "calls"}
        BY <1>0, <1>4 DEF CreateStep, StartCall, CallSucceeds, CallFails, Frame
  <2>2. PICK phase : job' = [job EXCEPT ![w] = [job[w] EXCEPT !.calls[r] = phase]]
        BY <1>4 DEF CreateStep, StartCall, CallSucceeds, CallFails
  <2>3. job'[w].view = job[w].view
        BY <1>0, <2>2 DEF JobType
  <2>4. current' = w => Sound(job'[w].view)
        BY <2>1, <2>3, ForwardSound DEF Reading, Changing
  <2>5. QED
        BY <2>1, <2>4, SameNodesSound, SoundStep DEF SoundInv
<1>5. ASSUME NEW r \in Row, NEW n \in Node, PrepareNode(w, n, r)
      PROVE  NodesSound' /\ ViewsSound'
  <2> DEFINE node == [job[w].view[n] EXCEPT !.status = "EXECUTING", !.step = r]
             j == [job[w] EXCEPT !.todo = @ \ {n}, !.calls[r] = "due",
                     !.view[n] = [@ EXCEPT !.status = "EXECUTING", !.step = r]]
  <2>1. /\ Frame(w) /\ current = w /\ UNCHANGED <<saga, nodes>> /\ pc[w] = "prepare"
        /\ job'[w] = j
        BY <1>0, <1>5 DEF PrepareNode, Frame
  <2>2. job[w].view[n].status = "READY" /\ job[w].view[n] \in NodeType
        BY <1>0, <1>5, <2>1 DEF PrepareNode, WorkOK, ViewsOK, ViewOK, InStatus
  <2>3. Sound(job[w].view)
        BY <2>1, ForwardSound DEF Changing
  <2>4. MayStart(job[w].view[n], job[w].view)
        BY <2>2, <2>3 DEF Sound, InStatus, Started
  <2>5. /\ node \in NodeType /\ node.deps = job[w].view[n].deps
        /\ node.gated = job[w].view[n].gated /\ node.approval = job[w].view[n].approval
    <3>1. "EXECUTING" \in NodeStatus
          BY DEF NodeStatus, Started
    <3>2. QED
          BY <2>2, <3>1 DEF NodeType
  <2>6. job'[w].view = [job[w].view EXCEPT ![n] = node]
        BY <1>0, <2>1 DEF JobType
  <2> HIDE DEF node
  <2>7. MayStart(node, job[w].view)
        BY <2>4, <2>5, ReadyMeans DEF MayStart, Approved
  <2>8. Sound(job'[w].view)
        BY <1>0, <2>2, <2>3, <2>5, <2>6, <2>7, ChangeSound
  <2>9. QED
        BY <2>1, <2>8, SameNodesSound, SoundStep DEF SoundInv
<1>6. CASE SaveWave(w)
  <2>1. /\ Frame(w) /\ current = w /\ nodes' = job[w].view /\ pc[w] = "prepare"
        BY <1>0, <1>6 DEF SaveWave, Frame
  <2>2. PICK b : job' = [job EXCEPT ![w] = [job[w] EXCEPT !.budget = b]]
        BY <1>6 DEF SaveWave
  <2>3. job'[w].view = job[w].view
        BY <1>0, <2>2 DEF JobType
  <2>4. Sound(job[w].view)
        BY <2>1, ForwardSound DEF Changing
  <2>5. QED
        BY <2>1, <2>3, <2>4, SoundStep DEF NodesSound, SoundInv
<1>7. ASSUME NEW r \in Row, SettleRow(w, r) PROVE NodesSound' /\ ViewsSound'
  <2> DEFINE ok == job[w].calls[r] = "ok"
             n == steps[r].node
             failed == IF ok THEN job[w].failed ELSE job[w].failed \cup {steps[r].mode}
             view == [m \in Node |-> IF m = n THEN AfterCall(job[w].view[m], ok)
                                     ELSE job[w].view[m]]
             j == [job[w] EXCEPT !.calls[r] = "none", !.failed = failed, !.view = view]
  <2>1. /\ Frame(w) /\ current = w /\ UNCHANGED <<saga, nodes>> /\ pc[w] = "calls"
        /\ job'[w] = j /\ job[w].calls[r] # "none"
        BY <1>0, <1>7 DEF SettleRow, Frame, InPhase
  <2>2. job'[w].view = view
    <3> HIDE DEF view, failed, ok
    <3>1. QED
          BY <1>0, <2>1 DEF JobType
  <2>3. Sound(job[w].view)
        BY <2>1, ForwardSound DEF Changing
  <2>4. Journaled(w, r)
        BY <1>0, <2>1 DEF WorkOK, ViewsOK, ViewOK
  <2>5. Sound(view)
    <3>1. CASE n \notin Node
      <4>1. view = job[w].view
            BY <1>0, <3>1
      <4>2. QED
            BY <2>3, <4>1
    <3>2. CASE n \in Node
      <4> DEFINE node == AfterCall(job[w].view[n], ok)
      <4>1. job[w].view[n].status = "EXECUTING" /\ job[w].view[n] \in NodeType
            BY <1>0, <2>4, <3>2, WorkflowAssumption DEF Journaled, WorkflowAssumption
      <4>2. MayStart(job[w].view[n], job[w].view)
            BY <2>3, <3>2, <4>1 DEF Sound, InStatus, Started
      <4>3. /\ node.deps = job[w].view[n].deps /\ node.gated = job[w].view[n].gated
            /\ node.approval = job[w].view[n].approval /\ node \in NodeType
            BY <4>1, AfterType DEF AfterCall, NodeType
      <4>4. view = [job[w].view EXCEPT ![n] = node]
            BY <1>0, <3>2
      <4> HIDE DEF node, n, view
      <4>5. MayStart(node, job[w].view)
            BY <4>2, <4>3, ReadyMeans DEF MayStart, Approved
      <4>6. QED
            BY <1>0, <2>3, <3>2, <4>1, <4>3, <4>4, <4>5, ChangeSound
    <3>3. QED
          BY <3>1, <3>2
  <2> HIDE DEF view
  <2>6. QED
        BY <2>1, <2>2, <2>5, SameNodesSound, SoundStep DEF SoundInv
<1>8. CASE SaveResults(w)
  <2>1. /\ Frame(w) /\ current = w /\ nodes' \in Refreshes(job[w].view, 0) /\ pc[w] = "calls"
        /\ pc'[w] \notin Changing
        BY <1>0, <1>8 DEF SaveResults, Frame, Changing
  <2>2. Sound(nodes')
        BY <1>0, <2>1, ForwardSound, RefreshSound DEF Changing
  <2>3. QED
        BY <2>1, <2>2, SoundStep DEF NodesSound, SoundInv
<1>9. CASE Escalate(w)
  <2>1. Frame(w) /\ current = w /\ nodes' = nodes /\ pc[w] = "escalate" /\ pc'[w] \notin Changing
        BY <1>0, <1>9 DEF Escalate, Finish, Frame, Changing
  <2>2. QED
        BY <2>1, ForwardSound, SameNodesSound, SoundStep DEF SoundInv
<1>10. QED
       BY <1>1, <1>2, <1>3, <1>4, <1>5, <1>6, <1>7, <1>8, <1>9 DEF RunForward

(* After a rollback no node is left executing: each had a row, and each    *)
(* row that was used is compensated, or recorded as one that could not be. *)
LEMMA MirrorSound ==
  ASSUME EmptyMessages = {}, SoundInv, NEW w \in Request, FinishRollback(w)
  PROVE  NodesSound' /\ ViewsSound'
<1> USE DEF leaseVars, Accepted, Goto
<1>0. /\ pc \in [Request -> Locals] /\ job \in [Request -> JobType]
      /\ nodes \in [Node -> NodeType] /\ Backed(nodes, steps)
      BY DEF SoundInv, WorkInv, WorkOK, LifeInv, RollbackInv, TypeInv, JobsOK, JournalOK
<1>1. Frame(w) /\ current = w /\ pc'[w] \notin Changing /\ saga' \notin Forward
      BY <1>0 DEF FinishRollback, Finish, Frame, Changing, Forward
<1>2. Settled(w) /\ job[w].queue = {}
      BY DEF FinishRollback, SoundInv, WorkInv, LifeInv, RollbackInv, QueueOK, Unwinding
<1>3. ASSUME NEW n \in Node PROVE nodes'[n].status # "EXECUTING"
  <2>1. nodes'[n] = Mirrored(nodes[n]) /\ nodes[n] \in NodeType
        BY <1>0 DEF FinishRollback
  <2>2. CASE nodes[n].status = "EXECUTING"
    <3>1. /\ nodes[n].step # 0 /\ nodes[n].step \in Row
          /\ steps[nodes[n].step].status # "UNUSED"
          BY <1>0, <2>2 DEF Backed, BackedBy, NodeType
    <3>2. steps[nodes[n].step].status \in {"COMPENSATED", "COMPENSATION_FAILED"}
          BY <1>2, <3>1 DEF Settled
    <3>3. QED
          BY <2>1, <3>1, <3>2 DEF Mirrored, NodeType
  <2>3. CASE nodes[n].status # "EXECUTING"
    <3>1. nodes'[n] = nodes[n] \/ nodes'[n].status \in {"COMPENSATED", "COMPENSATION_FAILED"}
          BY <2>1 DEF Mirrored, NodeType
    <3>2. QED
          BY <2>3, <3>1
  <2>4. QED
        BY <2>2, <2>3
<1>4. NodesSound'
      BY <1>1, <1>3 DEF NodesSound, InStatus
<1>5. QED
      BY <1>1, <1>4, SoundStep DEF SoundInv

LEMMA UnwindSound ==
  ASSUME EmptyMessages = {}, SoundInv, NEW w \in Request, Unwind(w)
  PROVE  NodesSound' /\ ViewsSound'
<1> USE DEF leaseVars, journal, Accepted, Goto
<1>0. pc \in [Request -> Locals] /\ job \in [Request -> JobType]
      BY DEF SoundInv, WorkInv, LifeInv, RollbackInv, TypeInv, JobsOK
<1>1. CASE Rejoin(w) \/ Busy(w) \/ StartUndo(w)
  <2>1. Frame(w) /\ UNCHANGED <<saga, nodes>> /\ pc'[w] \notin Changing
        BY <1>0, <1>1 DEF Rejoin, Grant, Busy, StartUndo, Frame, Changing
  <2>2. QED
        BY <2>1, QuietSound
<1>2. ASSUME NEW r \in Row,
             \/ UndoSucceeds(w, r) \/ UndoFails(w, r) \/ UndoLost(w, r)
             \/ RecordUndo(w, r) \/ RecordFailure(w, r) \/ PassOver(w, r)
      PROVE  NodesSound' /\ ViewsSound'
  <2>1. Frame(w) /\ UNCHANGED <<saga, nodes>> /\ pc'[w] \notin Changing
        BY <1>0, <1>2 DEF UndoSucceeds, UndoFails, UndoLost, RecordUndo, RecordFailure, PassOver,
                          Leave, Frame, Changing
  <2>2. QED
        BY <2>1, QuietSound
<1>3. CASE MarkRollingBack(w)
  <2>1. Frame(w) /\ nodes' = nodes /\ saga' \notin Forward /\ pc'[w] \notin Changing
        BY <1>0, <1>3 DEF MarkRollingBack, Frame, Changing, Forward
  <2>2. QED
        BY <2>1, SameNodesSound, SoundStep DEF SoundInv
<1>4. QED
      BY <1>1, <1>2, <1>3, MirrorSound DEF Unwind

LEMMA RecoverSound ==
  ASSUME SoundInv, NEW w \in Request, Recover(w) PROVE NodesSound' /\ ViewsSound'
<1> USE DEF leaseVars, journal, Accepted, Goto
<1>0. /\ pc \in [Request -> Locals] /\ job \in [Request -> JobType]
      /\ nodes \in [Node -> NodeType]
      BY DEF SoundInv, WorkInv, LifeInv, RollbackInv, TypeInv, JobsOK, JournalOK
<1>1. CASE ResumeRollback(w) \/ StaleClaim(w)
  <2>1. Frame(w) /\ UNCHANGED <<saga, nodes>> /\ pc'[w] \notin Changing
        BY <1>0, <1>1 DEF ResumeRollback, StaleClaim, End, Leave, Frame, Changing
  <2>2. QED
        BY <2>1, QuietSound
<1>2. CASE EscalateToOperator(w)
  <2>1. Frame(w) /\ current = w /\ pc'[w] \notin Changing
        BY <1>0, <1>2 DEF EscalateToOperator, Finish, Frame, Changing
  <2>2. Sound(nodes)
        BY <1>2 DEF EscalateToOperator, NeedsOperator, Uncertain, SoundInv, NodesSound
  <2>3. ASSUME NEW n \in Node
        PROVE  \/ nodes'[n] = nodes[n]
               \/ nodes[n].status = "EXECUTING" /\ nodes'[n].status = "FAILED"
    <3>1. CASE n \in Uncertain
      <4>1. nodes'[n] = [nodes[n] EXCEPT !.status = "FAILED", !.uncertain = TRUE]
            BY <1>2, <3>1 DEF EscalateToOperator
      <4>2. nodes[n] \in NodeType /\ nodes[n].status = "EXECUTING"
            BY <1>0, <3>1 DEF Uncertain, InStatus
      <4>3. QED
            BY <4>1, <4>2 DEF NodeType
    <3>2. CASE n \notin Uncertain
          BY <1>2, <3>2 DEF EscalateToOperator
    <3>3. QED
          BY <3>1, <3>2
  <2>4. ASSUME NEW n \in Node, nodes'[n].status \in Started
        PROVE  MayStart(nodes'[n], nodes')
    <3>1. nodes'[n] = nodes[n]
          BY <2>3, <2>4 DEF Started
    <3>2. MayStart(nodes[n], nodes) /\ nodes[n] \in NodeType
          BY <1>0, <2>2, <2>4, <3>1 DEF Sound, InStatus
    <3>3. ASSUME NEW d \in nodes[n].deps PROVE nodes'[d].status = "COMPLETED"
      <4>1. d \in Node /\ nodes[d].status = "COMPLETED"
            BY <3>2, <3>3, ReadyMeans DEF MayStart, NodeType
      <4>2. QED
            BY <2>3, <4>1
    <3>4. QED
          BY <3>1, <3>2, <3>3, ReadyMeans DEF MayStart
  <2>5. Sound(nodes')
        BY <2>4 DEF Sound, InStatus
  <2>6. QED
        BY <2>1, <2>5, SoundStep DEF NodesSound, SoundInv
<1>3. QED
      BY <1>1, <1>2 DEF Recover

LEMMA SoundNext ==
  ASSUME EmptyMessages = {}, SoundInv, [Next]_vars PROVE NodesSound' /\ ViewsSound'
<1> USE DEF leaseVars, journal, Goto
<1>0. pc \in [Request -> Locals] /\ job \in [Request -> JobType]
      BY DEF SoundInv, WorkInv, LifeInv, RollbackInv, TypeInv, JobsOK
<1>1. ASSUME NEW w \in Request, Work(w) PROVE NodesSound' /\ ViewsSound'
  <2>1. CASE Exit(w) \/ CheckFails(w) \/ StaleWrite(w)
    <3>1. Frame(w) /\ UNCHANGED <<saga, nodes>> /\ pc'[w] \notin Changing
          BY <1>0, <2>1 DEF Exit, CheckFails, StaleWrite, End, Leave, Frame, Changing
    <3>2. QED
          BY <3>1, QuietSound
  <2>2. QED
        BY <1>1, <2>1, OperateSound, RunForwardSound, UnwindSound, RecoverSound DEF Work
<1>2. ASSUME NEW w \in Request, NEW op \in Ops, NEW budget, NEW par,
             Begin(w, op, budget, par)
      PROVE  NodesSound' /\ ViewsSound'
  <2>1. Frame(w) /\ UNCHANGED <<saga, nodes>>
        BY <1>0, <1>2 DEF Begin, Grant, Frame
  <2>2. pc'[w] \notin Changing
        BY <1>0, <1>2, OpsAssumption DEF Begin, OpsAssumption, Operations, Changing
  <2>3. QED
        BY <2>1, <2>2, QuietSound
<1>3. ASSUME NEW w \in Request, Crash(w) \/ Claim(w) \/ NothingToClaim(w)
      PROVE  NodesSound' /\ ViewsSound'
  <2>1. Frame(w) /\ UNCHANGED <<saga, nodes>> /\ pc'[w] \notin Changing
        BY <1>0, <1>3 DEF Crash, Die, Claim, Grant, NothingToClaim, Frame, Changing
  <2>2. QED
        BY <2>1, QuietSound
<1>4. CASE UNCHANGED vars \/ ExpireLease \/ \E w \in Request : HeartbeatFails(w)
  <2>1. UNCHANGED <<current, saga, nodes, pc, job>>
        BY <1>4 DEF vars, ExpireLease, Lapse, HeartbeatFails, Notice
  <2>2. QED
        BY <2>1, SameNodesSound DEF SoundInv, ViewsSound
<1>5. QED
      BY <1>1, <1>2, <1>3, <1>4 DEF Next

LEMMA AlwaysSound == ASSUME EmptyMessages = {} PROVE Spec => []SoundInv
<1>1. Init => SoundInv
  <2> SUFFICES ASSUME Init PROVE SoundInv
      OBVIOUS
  <2>1. Sound(nodes)
        BY DEF Init, Unplanned, Sound, InStatus, Started
  <2>2. ViewsSound
        BY DEF Init, FLInit, ViewsSound
  <2>3. QED
        BY <2>1, <2>2, InitWork DEF SoundInv, NodesSound
<1>2. SoundInv /\ [Next]_vars => SoundInv'
      BY LifeStays, WorkNext, SoundNext DEF SoundInv, WorkInv
<1>3. QED
      BY <1>1, <1>2, PTL DEF Spec

LEMMA SoundEligible == SoundInv => Eligible
  BY DEF SoundInv, NodesSound, Forward, Sound, MayStart, Eligible

(* If no compensation fails without a message, a node of a saga in         *)
(* progress has started only with its dependencies completed and its       *)
(* approval given: through refreshes, retries, repeated approvals,         *)
(* rollbacks, crashes and takeovers.                                       *)
THEOREM OnlyEligibleNodesStart == ASSUME EmptyMessages = {} PROVE Spec => []Eligible
  BY SoundEligible, AlwaysSound, PTL

-----------------------------------------------------------------------------
(* If no process outlives its lease, nobody works behind the back of the   *)
(* newest grantee, and a row is compensated only once its effect is gone.  *)

Away == {"down", "idle", "again"}

Held ==
  /\ \A w \in Request : guard[w] # "out" <=> pc[w] \notin Away
  /\ \A w \in Request : guard[w] # "out" => current = w
  /\ current \in Request => live

(* An effect that stands is one that a rollback would still list, and the  *)
(* effect of a row about to be recorded as compensated is gone.            *)
Standing ==
  /\ \A r \in applied : steps[r].status \in Compensable
  /\ \A w \in Request, r \in Row : (current = w /\ pc[w] = "undone" /\ Newest(w, r)) => r \notin applied

UndoneInv == WorkInv /\ Held /\ Standing

LEMMA HeldGrant ==
  ASSUME TypeInv, Held, NEW w \in Request, Grant(w), Frame(w), pc'[w] \notin Away
  PROVE  Held'
<1>1. current \notin Request /\ \A v \in Request : guard[v] = "out"
      BY DEF Grant, Held
<1>2. /\ current' = w /\ live' /\ guard'[w] = "in"
      /\ \A v \in Request \ {w} : guard'[v] = "out" /\ pc'[v] = pc[v]
      BY <1>1 DEF Grant, Frame, TypeInv, FLTypeOK
<1>3. QED
      BY <1>1, <1>2 DEF Held

LEMMA HeldOut ==
  ASSUME Held, NEW w \in Request, Frame(w), pc'[w] \in Away, guard'[w] = "out",
         \A v \in Request \ {w} : guard'[v] = guard[v],
         current' = (IF current = w THEN NoRequest ELSE current),
         current # w => live' = live
  PROVE  Held'
BY DEF Held, Frame

LEMMA HeldSame ==
  ASSUME Held, NEW w \in Request, Frame(w), UNCHANGED leaseVars, pc[w] \in Away <=> pc'[w] \in Away
  PROVE  Held'
BY DEF Held, Frame, leaseVars

LEMMA LeaveHeld ==
  ASSUME TypeInv, Held, NEW w \in Request, Leave(w), Frame(w), pc'[w] \in Away PROVE Held'
<1>1. /\ guard'[w] = "out" /\ \A v \in Request \ {w} : guard'[v] = guard[v]
      /\ current' = (IF current = w THEN NoRequest ELSE current)
      /\ current # w => live' = live
      BY DEF Leave, TypeInv, FLTypeOK
<1>2. QED
      BY <1>1, HeldOut

LEMMA StandingStep ==
  ASSUME Standing, NEW w \in Request, Frame(w), applied' = applied \/ current = w,
         \A r \in applied' : steps'[r].status \in Compensable,
         (current' = w /\ pc'[w] = "undone") => \A r \in Row : Newest(w, r)' => r \notin applied'
  PROVE  Standing'
<1> SUFFICES ASSUME NEW v \in Request, NEW r \in Row, current' = v, pc'[v] = "undone",
                    Newest(v, r)'
             PROVE  r \notin applied'
    BY DEF Standing
<1>1. CASE v = w
      BY <1>1
<1>2. CASE v # w
  <2>1. current = v /\ pc[v] = "undone" /\ job'[v] = job[v]
        BY <1>2 DEF Frame
  <2>2. applied' = applied /\ Newest(v, r)
        BY <1>2, <2>1 DEF Newest
  <2>3. QED
        BY <2>1, <2>2 DEF Standing
<1>3. QED
      BY <1>1, <1>2

(* Most steps touch neither rows nor effects.                              *)
LEMMA StandingSame ==
  ASSUME Standing, NEW w \in Request, Frame(w), UNCHANGED <<steps, applied>>, pc'[w] # "undone"
  PROVE  Standing'
BY StandingStep DEF Standing

(* A call that is out has its row executing, ...                           *)
LEMMA FlightsExecute ==
  ASSUME WorkInv, Held, NEW w \in Request, NEW r \in Row, job[w].calls[r] = "flight"
  PROVE  current = w /\ steps[r].status = "EXECUTING" /\ pc[w] = "calls"
<1>1. pc[w] = "calls"
      BY DEF WorkInv, WorkOK, Airborne
<1>2. current = w
      BY <1>1 DEF Held, Away
<1>3. QED
      BY <1>1, <1>2 DEF WorkInv, WorkOK, ViewsOK, ViewOK, Journaled

LEMMA EndUndone ==
  ASSUME UndoneInv, NEW w \in Request, NEW l \in Away, End(w, l) PROVE Held' /\ Standing'
<1>0. TypeInv /\ Held /\ Standing
      BY DEF UndoneInv, WorkInv, LifeInv, RollbackInv
<1>1. Frame(w) /\ pc'[w] = l /\ Leave(w) /\ UNCHANGED <<steps, applied>>
      BY <1>0 DEF End, Leave, Goto, journal, Frame, TypeInv, JobsOK
<1>2. QED
      BY <1>0, <1>1, LeaveHeld, StandingSame DEF Away

(* Forward work: rows that are begun or settled stay on the list.          *)
LEMMA ForwardUndone ==
  ASSUME UndoneInv, NEW w \in Request, Operate(w) \/ RunForward(w) PROVE Held' /\ Standing'
<1> USE DEF journal, Goto, Finish, Accepted
<1>0. /\ TypeInv /\ Held /\ Standing /\ pc \in [Request -> Locals] /\ job \in [Request -> JobType]
      /\ steps \in [Row -> RowType] /\ applied \in SUBSET Row
      BY DEF UndoneInv, WorkInv, LifeInv, RollbackInv, TypeInv, JobsOK, JournalOK
<1>1. CASE Refuse(w) \/ Unresolved(w) \/ Abandon(w)
      BY <1>1, EndUndone DEF Refuse, Unresolved, Abandon, Away
<1>2. CASE PlanStep(w) \/ SaveEngine(w) \/ Commit(w)
           \/ \E n \in Node : ApproveStep(w, n) \/ RejectStep(w, n) \/ RetryStep(w, n)
  <2>1. /\ Frame(w) /\ UNCHANGED <<steps, applied, leaseVars>>
        /\ pc[w] \notin Away /\ pc'[w] \notin Away \cup {"undone"}
        BY <1>0, <1>2 DEF PlanStep, SaveEngine, Commit, ApproveStep, RejectStep, RetryStep,
                          leaseVars, Frame, Away
  <2>2. QED
        BY <1>0, <2>1, HeldSame, StandingSame
<1>3. CASE \/ FormWave(w) \/ NothingReady(w) \/ Spent(w) \/ SaveWave(w) \/ SaveResults(w)
           \/ Escalate(w) \/ \E r \in Row : StartCall(w, r)
  <2>1. /\ Frame(w) /\ UNCHANGED <<steps, applied, leaseVars>>
        /\ pc[w] \notin Away /\ pc'[w] \notin Away \cup {"undone"}
        BY <1>0, <1>3 DEF FormWave, NothingReady, Spent, SaveWave, SaveResults, Escalate,
                          StartCall, leaseVars, Frame, Away
  <2>2. QED
        BY <1>0, <2>1, HeldSame, StandingSame
<1>4. ASSUME NEW r \in Row, CreateStep(w, r) \/ (\E n \in Node : PrepareNode(w, n, r)) \/ SettleRow(w, r)
      PROVE  Held' /\ Standing'
  <2>1. /\ Frame(w) /\ UNCHANGED <<applied, leaseVars>>
        /\ pc[w] \notin Away /\ pc'[w] \notin Away \cup {"undone"}
        BY <1>0, <1>4 DEF CreateStep, PrepareNode, SettleRow, leaseVars, Frame, Away
  <2>2. /\ \A q \in Row \ {r} : steps'[q] = steps[q]
        /\ steps'[r].status \in {"EXECUTING", "COMPLETED", "FAILED"}
    <3>1. CASE CreateStep(w, r)
          BY <1>0, <3>1 DEF CreateStep, RowType
    <3>2. ASSUME NEW n \in Node, PrepareNode(w, n, r)
          PROVE  /\ \A q \in Row \ {r} : steps'[q] = steps[q]
                 /\ steps'[r].status = "EXECUTING"
          BY <1>0, <3>2 DEF PrepareNode, RowType
    <3>3. CASE SettleRow(w, r)
          BY <1>0, <3>3 DEF SettleRow, RowType
    <3>4. QED
          BY <1>4, <3>1, <3>2, <3>3
  <2>3. \A q \in applied' : steps'[q].status \in Compensable
        BY <1>0, <2>1, <2>2 DEF Standing, Compensable
  <2>4. QED
        BY <1>0, <2>1, <2>3, HeldSame, StandingStep
<1>5. ASSUME NEW r \in Row, CallSucceeds(w, r) \/ CallFails(w, r) PROVE Held' /\ Standing'
  <2>1. /\ Frame(w) /\ UNCHANGED <<steps, leaseVars>> /\ job[w].calls[r] = "flight"
        /\ pc[w] \notin Away /\ pc'[w] \notin Away \cup {"undone"}
        /\ applied' \in SUBSET (applied \cup {r})
        BY <1>0, <1>5 DEF CallSucceeds, CallFails, leaseVars, Frame, Away
  <2>2. current = w /\ steps[r].status = "EXECUTING"
        BY <2>1, FlightsExecute DEF UndoneInv
  <2>3. \A q \in applied' : steps'[q].status \in Compensable
        BY <1>0, <2>1, <2>2 DEF Standing, Compensable
  <2>4. QED
        BY <1>0, <2>1, <2>2, <2>3, HeldSame, StandingStep
<1>6. QED
      BY <1>1, <1>2, <1>3, <1>4, <1>5 DEF Operate, RunForward

(* The rollback: the effect goes before its row is recorded as undone.     *)
LEMMA BackUndone ==
  ASSUME UndoneInv, NEW w \in Request, Unwind(w) \/ Recover(w) PROVE Held' /\ Standing'
<1> USE DEF journal, Goto, Finish, Accepted
<1>0. /\ TypeInv /\ Held /\ Standing /\ pc \in [Request -> Locals] /\ job \in [Request -> JobType]
      /\ steps \in [Row -> RowType] /\ applied \in SUBSET Row
      BY DEF UndoneInv, WorkInv, LifeInv, RollbackInv, TypeInv, JobsOK, JournalOK
<1>1. CASE StaleClaim(w)
      BY <1>1, EndUndone DEF StaleClaim, Away
<1>2. CASE Rejoin(w)
  <2>1. Frame(w) /\ Grant(w) /\ UNCHANGED <<steps, applied>> /\ pc'[w] \notin Away \cup {"undone"}
        BY <1>0, <1>2 DEF Rejoin, Grant, Frame, Away
  <2>2. QED
        BY <1>0, <2>1, HeldGrant, StandingSame
<1>3. CASE Busy(w)
  <2>1. /\ Frame(w) /\ UNCHANGED <<steps, applied, leaseVars>>
        /\ pc[w] \in Away /\ pc'[w] \in Away /\ pc'[w] # "undone"
        BY <1>0, <1>3 DEF Busy, Frame, leaseVars, Away
  <2>2. QED
        BY <1>0, <2>1, HeldSame, StandingSame
<1>4. CASE \/ MarkRollingBack(w) \/ StartUndo(w) \/ FinishRollback(w) \/ EscalateToOperator(w)
           \/ ResumeRollback(w) \/ \E r \in Row : PassOver(w, r)
  <2>1. /\ Frame(w) /\ UNCHANGED <<steps, applied, leaseVars>>
        /\ pc[w] \notin Away /\ pc'[w] \notin Away \cup {"undone"}
        BY <1>0, <1>4 DEF MarkRollingBack, StartUndo, FinishRollback, EscalateToOperator,
                          ResumeRollback, PassOver, leaseVars, Frame, Away
  <2>2. QED
        BY <1>0, <2>1, HeldSame, StandingSame
<1>5. ASSUME NEW r \in Row, UndoSucceeds(w, r) PROVE Held' /\ Standing'
  <2>1. /\ Frame(w) /\ UNCHANGED <<steps, job, leaseVars>> /\ Newest(w, r)
        /\ pc[w] = "undoing" /\ pc'[w] = "undone" /\ applied' = applied \ {r}
        BY <1>0, <1>5 DEF UndoSucceeds, leaseVars, Frame
  <2>2. current = w
        BY <1>0, <2>1 DEF Held, Away
  <2>3. ASSUME NEW q \in Row, Newest(w, q)' PROVE q \notin applied'
    <3>1. Newest(w, q)
          BY <2>1, <2>3 DEF Newest
    <3>2. q = r
          BY <2>1, <3>1, WorkflowAssumption DEF Newest, WorkflowAssumption
    <3>3. QED
          BY <2>1, <3>2
  <2>4. \A q \in applied' : steps'[q].status \in Compensable
        BY <1>0, <2>1 DEF Standing
  <2>5. QED
        BY <1>0, <2>1, <2>2, <2>3, <2>4, HeldSame, StandingStep DEF Away
<1>6. ASSUME NEW r \in Row, UndoFails(w, r) \/ UndoLost(w, r) PROVE Held' /\ Standing'
  <2>1. /\ Frame(w) /\ steps' = steps /\ applied' \in SUBSET applied
        /\ pc[w] = "undoing" /\ pc'[w] # "undone"
        /\ \/ UNCHANGED leaseVars /\ pc'[w] \notin Away
           \/ Leave(w) /\ pc'[w] \in Away
        BY <1>0, <1>6 DEF UndoFails, UndoLost, Leave, leaseVars, Frame, Away
  <2>2. current = w
        BY <1>0, <2>1 DEF Held, Away
  <2>3. Held'
        BY <1>0, <2>1, HeldSame, LeaveHeld DEF Away
  <2>4. \A q \in applied' : steps'[q].status \in Compensable
        BY <1>0, <2>1 DEF Standing
  <2>5. QED
        BY <1>0, <2>1, <2>2, <2>3, <2>4, StandingStep
<1>7. ASSUME NEW r \in Row, RecordUndo(w, r) \/ RecordFailure(w, r) PROVE Held' /\ Standing'
  <2>1. /\ Frame(w) /\ UNCHANGED <<applied, leaseVars>> /\ current = w
        /\ pc[w] \notin Away /\ pc'[w] \notin Away \cup {"undone"}
        BY <1>0, <1>7 DEF RecordUndo, RecordFailure, leaseVars, Frame, Away
  <2>2. /\ \A q \in Row \ {r} : steps'[q] = steps[q]
        /\ steps'[r].status = "COMPENSATION_FAILED" \/ r \notin applied
    <3>1. CASE RecordUndo(w, r)
          BY <1>0, <2>1, <3>1 DEF RecordUndo, Standing
    <3>2. CASE RecordFailure(w, r)
          BY <1>0, <3>2 DEF RecordFailure, RowType
    <3>3. QED
          BY <1>7, <3>1, <3>2
  <2>3. \A q \in applied' : steps'[q].status \in Compensable
        BY <1>0, <2>1, <2>2 DEF Standing, Compensable
  <2>4. QED
        BY <1>0, <2>1, <2>3, HeldSame, StandingStep
<1>8. QED
      BY <1>1, <1>2, <1>3, <1>4, <1>5, <1>6, <1>7 DEF Unwind, Recover

LEMMA UndoneNext ==
  ASSUME ~Stalls, UndoneInv, [Next]_vars PROVE Held' /\ Standing'
<1> USE DEF journal, Goto
<1>0. /\ TypeInv /\ Held /\ Standing /\ pc \in [Request -> Locals] /\ job \in [Request -> JobType]
      /\ steps \in [Row -> RowType] /\ applied \in SUBSET Row
      BY DEF UndoneInv, WorkInv, LifeInv, RollbackInv, TypeInv, JobsOK, JournalOK
<1>1. ASSUME NEW w \in Request, Work(w) PROVE Held' /\ Standing'
      BY <1>1, ForwardUndone, BackUndone, EndUndone DEF Work, Exit, CheckFails, StaleWrite, Away
<1>2. ASSUME NEW w \in Request, NEW op \in Ops, NEW budget, NEW par,
             Begin(w, op, budget, par)
      PROVE  Held' /\ Standing'
  <2>1. Frame(w) /\ Grant(w) /\ UNCHANGED <<steps, applied>>
        BY <1>0, <1>2 DEF Begin, Grant, Frame
  <2>2. pc'[w] \notin Away \cup {"undone"}
        BY <1>0, <1>2, OpsAssumption DEF Begin, OpsAssumption, Operations, Away
  <2>3. QED
        BY <1>0, <2>1, <2>2, HeldGrant, StandingSame
<1>3. ASSUME NEW w \in Request, Claim(w) PROVE Held' /\ Standing'
  <2>1. Frame(w) /\ Grant(w) /\ UNCHANGED <<steps, applied>> /\ pc'[w] = "resume"
        BY <1>0, <1>3 DEF Claim, Grant, Frame
  <2>2. QED
        BY <1>0, <2>1, HeldGrant, StandingSame DEF Away
<1>4. ASSUME NEW w \in Request, NothingToClaim(w) PROVE Held' /\ Standing'
  <2>1. /\ Frame(w) /\ UNCHANGED <<steps, applied, leaseVars>> /\ pc[w] = "down" /\ pc'[w] = "idle"
        BY <1>0, <1>4 DEF NothingToClaim, Frame, leaseVars
  <2>2. QED
        BY <1>0, <2>1, HeldSame, StandingSame DEF Away
<1>5. ASSUME NEW w \in Request, Crash(w) PROVE Held' /\ Standing'
  <2>1. /\ Frame(w) /\ steps' = steps /\ pc'[w] = "down"
        /\ guard'[w] = "out" /\ \A v \in Request \ {w} : guard'[v] = guard[v]
        /\ current' = (IF current = w THEN NoRequest ELSE current) /\ live' = live
        BY <1>0, <1>5 DEF Crash, Die, Frame
  <2>2. Held'
        BY <1>0, <2>1, HeldOut DEF Away
  <2>3. ASSUME NEW r \in applied', r \notin applied
        PROVE  current = w /\ steps[r].status = "EXECUTING"
    <3>1. r \in InPhase(w, {"flight"})
          BY <1>5, <2>3 DEF Crash
    <3>2. r \in Row /\ job[w].calls[r] = "flight"
          BY <3>1 DEF InPhase
    <3>3. QED
          BY <3>2, FlightsExecute DEF UndoneInv
  <2>4. \A r \in applied' : steps'[r].status \in Compensable
        BY <1>0, <2>1, <2>3 DEF Standing, Compensable
  <2>5. applied' = applied \/ current = w
    <3>1. CASE pc[w] \in Away
      <4>1. InPhase(w, {"flight"}) = {}
            BY <3>1, FlightsExecute DEF InPhase, UndoneInv, Away
      <4>2. pc[w] # "undoing"
            BY <3>1 DEF Away
      <4>3. QED
            BY <1>5, <4>1, <4>2 DEF Crash
    <3>2. CASE pc[w] \notin Away
          BY <1>0, <3>2 DEF Held
    <3>3. QED
          BY <3>1, <3>2
  <2>6. QED
        BY <1>0, <2>1, <2>2, <2>4, <2>5, StandingStep
<1>6. ASSUME NEW w \in Request PROVE ~HeartbeatFails(w)
      BY DEF HeartbeatFails
<1>7. CASE ExpireLease
  <2>1. /\ current \notin Request /\ UNCHANGED <<current, guard, steps, pc, job, applied>>
        BY <1>7 DEF ExpireLease, Lapse
  <2>2. QED
        BY <1>0, <2>1 DEF Held, Standing, Newest
<1>8. CASE UNCHANGED vars
  <2>1. UNCHANGED <<live, current, guard, steps, pc, job, applied>>
        BY <1>8 DEF vars
  <2>2. QED
        BY <1>0, <2>1 DEF Held, Standing, Newest
<1>9. QED
      BY <1>1, <1>2, <1>3, <1>4, <1>5, <1>6, <1>7, <1>8 DEF Next

LEMMA AlwaysUndone == ASSUME ~Stalls PROVE Spec => []UndoneInv
<1>1. Init => UndoneInv
  <2> SUFFICES ASSUME Init PROVE UndoneInv
      OBVIOUS
  <2>1. Held
        BY DEF Init, FLInit, Held, Away
  <2>2. Standing
        BY DEF Init, Standing
  <2>3. QED
        BY <2>1, <2>2, InitWork DEF UndoneInv
<1>2. UndoneInv /\ [Next]_vars => UndoneInv'
      BY LifeStays, WorkNext, UndoneNext DEF UndoneInv, WorkInv
<1>3. QED
      BY <1>1, <1>2, PTL DEF Spec

LEMMA NothingStands == UndoneInv => RolledBackUndone
<1>1. ASSUME UndoneInv, saga = "ROLLED_BACK", NEW r \in applied PROVE r \in EmptyMessages
  <2>1. steps[r].status \in Compensable /\ r \in Row
        BY <1>1 DEF UndoneInv, Standing, WorkInv, LifeInv, RollbackInv, TypeInv, JournalOK
  <2>2. r \in Used
        BY <2>1 DEF Compensable, Used
  <2>3. \A q \in Used \ EmptyMessages : steps[q].status = "COMPENSATED"
        BY <1>1 DEF UndoneInv, WorkInv, LifeInv, RollbackInv, RolledBackClean
  <2>4. QED
        BY <2>1, <2>2, <2>3 DEF Compensable
<1>2. QED
      BY <1>1 DEF RolledBackUndone

(* If no process outlives its lease, a saga that is rolled back has left   *)
(* no effect of its forward calls behind, those of failed and interrupted  *)
(* calls included, but for rows whose compensation failed without a        *)
(* message.                                                                *)
THEOREM NoEffectLeftBehind == ASSUME ~Stalls PROVE Spec => []RolledBackUndone
  BY NothingStands, AlwaysUndone, PTL

-----------------------------------------------------------------------------
(* What nobody takes back: whatever becomes of a saga, its nodes stay      *)
(* planned and keep their gates, and a gated node that starts is approved. *)

Keeps(old, new) ==
  /\ old.status = "UNPLANNED" => new = old
  /\ old.status # "UNPLANNED" => new.status # "UNPLANNED" /\ new.gated = old.gated
  /\ (old.status \in Started => Approved(old)) => (new.status \in Started => Approved(new))

Follows(view, new) == \A n \in Node : Keeps(view[n], new[n])

ViewsFollow ==
  \A w \in Request : (current = w /\ pc[w] \in Changing) => Follows(nodes, job[w].view)

Blank == \A n \in Node \ Planned(nodes) : nodes[n].step = 0

KeepInv == WorkInv /\ ViewsFollow /\ Blank

LEMMA KeepsSame == \A node : Keeps(node, node)
  BY DEF Keeps

LEMMA FollowsOn ==
  ASSUME NEW a, NEW b, NEW c, Follows(a, b), Follows(b, c) PROVE Follows(a, c)
BY DEF Follows, Keeps

LEMMA RefreshFollows ==
  ASSUME NEW view \in [Node -> NodeType], NEW last, NEW new \in Refreshes(view, last)
  PROVE  Follows(view, new)
<1> SUFFICES ASSUME NEW n \in Node PROVE Keeps(view[n], new[n])
    BY DEF Follows
<1>1. CASE view[n].status \notin Open
      BY <1>1, RefreshChanges, KeepsSame
<1>2. CASE view[n].status \in Open
  <2>1. /\ new[n].status \in Open \cup {"READY", "WAITING_APPROVAL"}
        /\ new[n].gated = view[n].gated
        BY <1>2, RefreshChanges
  <2>2. new[n].status = "READY" => Approved(new[n])
        BY <1>2, RefreshReady DEF MayStart
  <2>3. QED
        BY <1>2, <2>1, <2>2 DEF Keeps, Open, Started
<1>3. QED
      BY <1>1, <1>2

LEMMA ChangeFollows ==
  ASSUME NEW view \in [Node -> NodeType], NEW n \in Node, NEW node, Keeps(view[n], node)
  PROVE  Follows(view, [view EXCEPT ![n] = node])
BY KeepsSame DEF Follows

LEMMA DecisionsKeep ==
  ASSUME NEW node \in NodeType, node.status # "UNPLANNED", NEW view
  PROVE  /\ Keeps(node, AfterApproval(node, view)) /\ Keeps(node, AfterRejection(node))
         /\ Keeps(node, AfterRetry(node, view))
<1>1. Keeps(node, AfterApproval(node, view))
  <2>1. /\ AfterApproval(node, view).approval = "APPROVED"
        /\ AfterApproval(node, view).gated = node.gated
        /\ AfterApproval(node, view).status \in {"READY", "WAITING_DEPENDENCY"}
        BY DEF AfterApproval, NodeType
  <2>2. QED
        BY <2>1 DEF Keeps, Approved
<1>2. Keeps(node, AfterRejection(node))
  <2>1. AfterRejection(node).gated = node.gated /\ AfterRejection(node).status = "REJECTED"
        BY DEF AfterRejection, NodeType
  <2>2. QED
        BY <2>1 DEF Keeps, Started
<1>3. Keeps(node, AfterRetry(node, view))
  <2>1. CASE Approved(node)
    <3>1. /\ AfterRetry(node, view).gated = node.gated
          /\ AfterRetry(node, view).approval = node.approval
          /\ AfterRetry(node, view).status \in {"READY", "WAITING_DEPENDENCY"}
          BY <2>1 DEF AfterRetry, NodeType
    <3>2. QED
          BY <2>1, <3>1 DEF Keeps, Approved
  <2>2. CASE ~Approved(node)
    <3>1. /\ AfterRetry(node, view).gated = node.gated
          /\ AfterRetry(node, view).status = "WAITING_APPROVAL"
          BY <2>2 DEF AfterRetry, NodeType
    <3>2. QED
          BY <3>1 DEF Keeps, Started
  <2>3. QED
        BY <2>1, <2>2
<1>4. QED
      BY <1>1, <1>2, <1>3

LEMMA KeepStep ==
  ASSUME ViewsFollow, NEW w \in Request, Frame(w), nodes' = nodes \/ current = w,
         (current' = w /\ pc'[w] \in Changing) => Follows(nodes', job'[w].view)
  PROVE  ViewsFollow'
<1> SUFFICES ASSUME NEW v \in Request, current' = v, pc'[v] \in Changing
             PROVE  Follows(nodes', job'[v].view)
    BY DEF ViewsFollow
<1>1. CASE v # w
  <2>1. current = v /\ pc'[v] = pc[v] /\ job'[v] = job[v] /\ nodes' = nodes
        BY <1>1 DEF Frame
  <2>2. QED
        BY <2>1 DEF ViewsFollow
<1>2. QED
      BY <1>1

(* The steps that leave the workflow alone, here and in memory.            *)
LEMMA QuietKeep ==
  ASSUME ViewsFollow, NEW w \in Request, Frame(w), nodes' = nodes, pc'[w] \notin Changing
  PROVE  ViewsFollow' /\ Follows(nodes, nodes')
BY KeepStep, KeepsSame DEF Follows

(* What the newest grantee holds in memory follows what is persisted.      *)
LEMMA ViewFollows ==
  ASSUME KeepInv, NEW w \in Request, current = w, pc[w] \in Reading \cup Changing
  PROVE  /\ Follows(nodes, job[w].view) /\ job[w] \in JobType
         /\ job[w].view \in [Node -> NodeType] /\ ViewOK(w)
<1>1. /\ job[w] \in JobType /\ job[w].view \in [Node -> NodeType] /\ ViewOK(w)
      BY DEF KeepInv, WorkInv, WorkOK, ViewsOK, LifeInv, RollbackInv, TypeInv, JobsOK, JobType
<1>2. CASE pc[w] \in Reading
      BY <1>1, <1>2, KeepsSame DEF ViewOK, Follows
<1>3. CASE pc[w] \in Changing
      BY <1>1, <1>3 DEF KeepInv, ViewsFollow
<1>4. QED
      BY <1>1, <1>2, <1>3

LEMMA OperateKeep ==
  ASSUME KeepInv, NEW w \in Request, Operate(w)
  PROVE  ViewsFollow' /\ (Follows(nodes, nodes') \/ PlanStep(w))
<1> USE DEF leaseVars, journal, Accepted, Goto
<1>0. pc \in [Request -> Locals] /\ job \in [Request -> JobType] /\ ViewsFollow
      BY DEF KeepInv, WorkInv, LifeInv, RollbackInv, TypeInv, JobsOK
<1>1. CASE Refuse(w) \/ Commit(w)
  <2>1. Frame(w) /\ nodes' = nodes /\ pc'[w] \notin Changing
        BY <1>0, <1>1 DEF Refuse, Commit, End, Finish, Leave, Frame, Changing
  <2>2. QED
        BY <1>0, <2>1, QuietKeep
<1>2. CASE PlanStep(w)
  <2>1. Frame(w) /\ current = w /\ pc'[w] \notin Changing
        BY <1>0, <1>2 DEF PlanStep, Finish, Frame, Changing
  <2>2. QED
        BY <1>0, <1>2, <2>1, KeepStep
<1>3. CASE SaveEngine(w)
  <2>1. Frame(w) /\ current = w /\ pc'[w] \notin Changing /\ nodes' = job[w].view
        BY <1>0, <1>3 DEF SaveEngine, Finish, Frame, Changing
  <2>2. Follows(nodes, nodes')
        BY <1>3, <2>1, ViewFollows DEF SaveEngine, Changing
  <2>3. QED
        BY <1>0, <2>1, <2>2, KeepStep
<1>4. ASSUME NEW n \in Node, ApproveStep(w, n) \/ RejectStep(w, n) \/ RetryStep(w, n)
      PROVE  ViewsFollow' /\ Follows(nodes, nodes')
  <2>1. Frame(w) /\ current = w /\ nodes' = nodes /\ pc[w] \in Reading
        BY <1>0, <1>4 DEF ApproveStep, RejectStep, RetryStep, Frame, Reading
  <2> DEFINE old == job[w].view
  <2>2. old \in [Node -> NodeType] /\ old = nodes
        BY <2>1, ViewFollows DEF ViewOK
  <2>3. ASSUME NEW after, Keeps(old[n], after)
        PROVE  Follows(old, [old EXCEPT ![n] = after])
        BY <2>2, <2>3, ChangeFollows
  <2>4. old[n] \in NodeType
        BY <2>2
  <2>5. Follows(old, job'[w].view)
    <3>1. CASE ApproveStep(w, n)
      <4>1. old[n].status # "UNPLANNED"
            BY <3>1 DEF ApproveStep, Approvable
      <4>2. job'[w].view = [old EXCEPT ![n] = AfterApproval(old[n], old)]
            BY <1>0, <3>1 DEF ApproveStep, JobType
      <4>3. QED
            BY <2>3, <2>4, <4>1, <4>2, DecisionsKeep
    <3>2. CASE RejectStep(w, n)
      <4>1. old[n].status # "UNPLANNED"
            BY <3>2 DEF RejectStep, Approvable
      <4>2. job'[w].view = [old EXCEPT ![n] = AfterRejection(old[n])]
            BY <1>0, <3>2 DEF RejectStep, JobType
      <4>3. QED
            BY <2>3, <2>4, <4>1, <4>2, DecisionsKeep
    <3>3. CASE RetryStep(w, n)
      <4>1. old[n].status # "UNPLANNED"
            BY <3>3 DEF RetryStep, Retryable, Dead
      <4> DEFINE changed == [old EXCEPT ![n] = AfterRetry(old[n], old)]
      <4>2. PICK view \in Refreshes(changed, 0) :
              job' = [job EXCEPT ![w] = [job[w] EXCEPT !.view = view]]
            BY <3>3 DEF RetryStep
      <4>3. changed \in [Node -> NodeType] /\ Follows(old, changed)
        <5>1. AfterRetry(old[n], old) \in NodeType
              BY <2>4, AfterType
        <5>2. QED
              BY <2>2, <2>3, <2>4, <4>1, <5>1, DecisionsKeep
      <4> HIDE DEF changed
      <4>4. job'[w].view = view
            BY <1>0, <4>2 DEF JobType
      <4>5. QED
            BY <4>2, <4>3, <4>4, RefreshFollows, FollowsOn
    <3>4. QED
          BY <1>4, <3>1, <3>2, <3>3
  <2>6. Follows(nodes', job'[w].view) /\ Follows(nodes, nodes')
        BY <2>1, <2>2, <2>5, KeepsSame DEF Follows
  <2>7. QED
        BY <1>0, <2>1, <2>6, KeepStep
<1>5. QED
      BY <1>1, <1>2, <1>3, <1>4 DEF Operate

LEMMA RunForwardKeep ==
  ASSUME KeepInv, NEW w \in Request, RunForward(w)
  PROVE  ViewsFollow' /\ Follows(nodes, nodes')
<1> USE DEF leaseVars, journal, Accepted, Goto
<1>0. /\ pc \in [Request -> Locals] /\ job \in [Request -> JobType] /\ ViewsFollow
      /\ job[w] \in JobType
      BY DEF KeepInv, WorkInv, LifeInv, RollbackInv, TypeInv, JobsOK
<1>1. CASE Spent(w) \/ Unresolved(w) \/ Abandon(w) \/ Escalate(w)
  <2>1. Frame(w) /\ nodes' = nodes /\ pc'[w] \notin Changing
        BY <1>0, <1>1 DEF Spent, Unresolved, Abandon, Escalate, End, Finish, Leave, Frame, Changing
  <2>2. QED
        BY <1>0, <2>1, QuietKeep
<1>2. CASE FormWave(w)
  <2>1. Frame(w) /\ UNCHANGED <<nodes, current>> /\ pc[w] = "run"
        BY <1>0, <1>2 DEF FormWave, Frame
  <2>2. PICK view \in Refreshes(job[w].view, 0) :
          \E wave : job' = [job EXCEPT ![w] = [job[w] EXCEPT !.view = view, !.todo = wave]]
        BY <1>2 DEF FormWave
  <2>3. job'[w].view = view
        BY <1>0, <2>2 DEF JobType
  <2>4. current' = w => Follows(nodes', job'[w].view)
        BY <2>1, <2>2, <2>3, ViewFollows, RefreshFollows, FollowsOn DEF Reading
  <2>5. QED
        BY <1>0, <2>1, <2>4, KeepStep, KeepsSame DEF Follows
<1>3. CASE NothingReady(w) \/ SaveResults(w)
  <2>1. /\ Frame(w) /\ current = w /\ nodes' \in Refreshes(job[w].view, 0)
        /\ pc[w] \in {"run", "calls"} /\ pc'[w] \notin Changing
        BY <1>0, <1>3 DEF NothingReady, SaveResults, Finish, Frame, Changing
  <2>2. Follows(nodes, nodes')
        BY <2>1, ViewFollows, RefreshFollows, FollowsOn DEF Reading, Changing
  <2>3. QED
        BY <1>0, <2>1, <2>2, KeepStep
<1>4. ASSUME NEW r \in Row,
             CreateStep(w, r) \/ StartCall(w, r) \/ CallSucceeds(w, r) \/ CallFails(w, r)
      PROVE  ViewsFollow' /\ Follows(nodes, nodes')
  <2>1. /\ Frame(w) /\ UNCHANGED <<nodes, current>> /\ pc[w] \in {"execute", "calls"}
        BY <1>0, <1>4 DEF CreateStep, StartCall, CallSucceeds, CallFails, Frame
  <2>2. PICK phase : job' = [job EXCEPT ![w] = [job[w] EXCEPT !.calls[r] = phase]]
        BY <1>4 DEF CreateStep, StartCall, CallSucceeds, CallFails
  <2>3. job'[w].view = job[w].view
        BY <1>0, <2>2 DEF JobType
  <2>4. current' = w => Follows(nodes', job'[w].view)
        BY <2>1, <2>3, ViewFollows DEF Reading, Changing
  <2>5. QED
        BY <1>0, <2>1, <2>4, KeepStep, KeepsSame DEF Follows
<1>5. ASSUME NEW r \in Row, NEW n \in Node, PrepareNode(w, n, r)
      PROVE  ViewsFollow' /\ Follows(nodes, nodes')
  <2> DEFINE node == [job[w].view[n] EXCEPT !.status = "EXECUTING", !.step = r]
             j == [job[w] EXCEPT !.todo = @ \ {n}, !.calls[r] = "due",
                     !.view[n] = [@ EXCEPT !.status = "EXECUTING", !.step = r]]
  <2>1. /\ Frame(w) /\ current = w /\ nodes' = nodes /\ pc[w] = "prepare" /\ job'[w] = j
        BY <1>0, <1>5 DEF PrepareNode, Frame
  <2>2. /\ Follows(nodes, job[w].view) /\ job[w].view \in [Node -> NodeType] /\ ViewOK(w)
        BY <2>1, ViewFollows DEF Changing
  <2>3. job[w].view[n].status = "READY" /\ job[w].view[n] \in NodeType
        BY <1>5, <2>1, <2>2 DEF PrepareNode, ViewOK, InStatus
  <2>4. /\ node.gated = job[w].view[n].gated /\ node.approval = job[w].view[n].approval
        /\ node.status = "EXECUTING"
        BY <2>3 DEF NodeType
  <2>5. job'[w].view = [job[w].view EXCEPT ![n] = node]
        BY <1>0, <2>1 DEF JobType
  <2> HIDE DEF node, j
  <2>6. Keeps(job[w].view[n], node)
        BY <2>3, <2>4 DEF Keeps, Approved, Started
  <2>7. Follows(nodes, job'[w].view)
        BY <2>2, <2>5, <2>6, ChangeFollows, FollowsOn
  <2>8. QED
        BY <1>0, <2>1, <2>7, KeepStep, KeepsSame DEF Follows
<1>6. CASE SaveWave(w)
  <2>1. Frame(w) /\ current = w /\ nodes' = job[w].view /\ pc[w] = "prepare"
        BY <1>0, <1>6 DEF SaveWave, Frame
  <2>2. PICK b : job' = [job EXCEPT ![w] = [job[w] EXCEPT !.budget = b]]
        BY <1>6 DEF SaveWave
  <2>3. job'[w].view = nodes'
        BY <1>0, <2>1, <2>2 DEF JobType
  <2>4. Follows(nodes, nodes') /\ Follows(nodes', job'[w].view)
        BY <2>1, <2>3, ViewFollows, KeepsSame DEF Changing, Follows
  <2>5. QED
        BY <1>0, <2>1, <2>4, KeepStep
<1>7. ASSUME NEW r \in Row, SettleRow(w, r)
      PROVE  ViewsFollow' /\ Follows(nodes, nodes')
  <2> DEFINE ok == job[w].calls[r] = "ok"
             n == steps[r].node
             failed == IF ok THEN job[w].failed ELSE job[w].failed \cup {steps[r].mode}
             view == [m \in Node |-> IF m = n THEN AfterCall(job[w].view[m], ok)
                                     ELSE job[w].view[m]]
             j == [job[w] EXCEPT !.calls[r] = "none", !.failed = failed, !.view = view]
  <2>1. /\ Frame(w) /\ current = w /\ nodes' = nodes /\ pc[w] = "calls"
        /\ job'[w] = j /\ job[w].calls[r] # "none"
        BY <1>0, <1>7 DEF SettleRow, Frame, InPhase
  <2>2. job'[w].view = view
    <3> HIDE DEF view, failed, ok
    <3>1. QED
          BY <1>0, <2>1 DEF JobType
  <2>3. /\ Follows(nodes, job[w].view) /\ job[w].view \in [Node -> NodeType] /\ Journaled(w, r)
        BY <2>1, ViewFollows DEF Changing, ViewOK
  <2>4. ASSUME NEW m \in Node PROVE Keeps(job[w].view[m], view[m])
    <3>1. CASE m # n
      <4>1. view[m] = job[w].view[m]
            BY <3>1
      <4>2. QED
            BY <4>1, KeepsSame
    <3>2. CASE m = n
      <4> DEFINE node == AfterCall(job[w].view[m], ok)
      <4>1. job[w].view[m].status = "EXECUTING" /\ job[w].view[m] \in NodeType
            BY <2>3, <3>2, WorkflowAssumption DEF Journaled, WorkflowAssumption
      <4>2. /\ node.gated = job[w].view[m].gated /\ node.approval = job[w].view[m].approval
            /\ node.status \in {"COMPLETED", "FAILED"}
            BY <4>1 DEF AfterCall, NodeType
      <4>3. view[m] = node
            BY <3>2
      <4> HIDE DEF node, n, view
      <4>4. QED
            BY <4>1, <4>2, <4>3 DEF Keeps, Approved, Started
    <3>3. QED
          BY <3>1, <3>2
  <2> HIDE DEF view
  <2>5. Follows(nodes, job'[w].view)
    <3>1. Follows(job[w].view, view)
          BY <2>4 DEF Follows
    <3>2. QED
          BY <2>2, <2>3, <3>1, FollowsOn
  <2>6. QED
        BY <1>0, <2>1, <2>5, KeepStep, KeepsSame DEF Follows
<1>8. QED
      BY <1>1, <1>2, <1>3, <1>4, <1>5, <1>6, <1>7 DEF RunForward

LEMMA UnwindKeep ==
  ASSUME KeepInv, NEW w \in Request, Unwind(w) \/ Recover(w)
  PROVE  ViewsFollow' /\ Follows(nodes, nodes')
<1> USE DEF leaseVars, journal, Accepted, Goto
<1>0. /\ pc \in [Request -> Locals] /\ job \in [Request -> JobType] /\ ViewsFollow
      /\ nodes \in [Node -> NodeType] /\ steps \in [Row -> RowType]
      BY DEF KeepInv, WorkInv, LifeInv, RollbackInv, TypeInv, JobsOK, JournalOK
<1>1. CASE FinishRollback(w)
  <2>1. Frame(w) /\ current = w /\ pc'[w] \notin Changing
        BY <1>0, <1>1 DEF FinishRollback, Finish, Frame, Changing
  <2>2. ASSUME NEW n \in Node PROVE Keeps(nodes[n], nodes'[n])
    <3>1. nodes'[n] = Mirrored(nodes[n]) /\ nodes[n] \in NodeType
          BY <1>0, <1>1 DEF FinishRollback
    <3>2. CASE nodes'[n] = nodes[n]
          BY <3>2, KeepsSame
    <3>3. CASE nodes'[n] # nodes[n]
      <4>1. /\ nodes[n].step # 0
            /\ nodes'[n].gated = nodes[n].gated
            /\ nodes'[n].status \in {"COMPENSATED", "COMPENSATION_FAILED"}
            BY <3>1, <3>3 DEF Mirrored, NodeType
      <4>2. nodes[n].status # "UNPLANNED"
            BY <4>1 DEF KeepInv, Blank, Planned
      <4>3. QED
            BY <4>1, <4>2 DEF Keeps, Started
    <3>4. QED
          BY <3>2, <3>3
  <2>3. QED
        BY <1>0, <2>1, <2>2, KeepStep DEF Follows
<1>2. CASE EscalateToOperator(w)
  <2>1. Frame(w) /\ current = w /\ pc'[w] \notin Changing
        BY <1>0, <1>2 DEF EscalateToOperator, Finish, Frame, Changing
  <2>2. ASSUME NEW n \in Node PROVE Keeps(nodes[n], nodes'[n])
    <3>1. CASE n \notin Uncertain
          BY <1>2, <3>1, KeepsSame DEF EscalateToOperator
    <3>2. CASE n \in Uncertain
      <4>1. nodes'[n] = [nodes[n] EXCEPT !.status = "FAILED", !.uncertain = TRUE]
            BY <1>2, <3>2 DEF EscalateToOperator
      <4>2. nodes[n] \in NodeType /\ nodes[n].status = "EXECUTING"
            BY <1>0, <3>2 DEF Uncertain, InStatus
      <4>3. nodes'[n].gated = nodes[n].gated /\ nodes'[n].status = "FAILED"
            BY <4>1, <4>2 DEF NodeType
      <4>4. QED
            BY <4>2, <4>3 DEF Keeps, Started
    <3>3. QED
          BY <3>1, <3>2
  <2>3. QED
        BY <1>0, <2>1, <2>2, KeepStep DEF Follows
<1>3. CASE \/ Rejoin(w) \/ Busy(w) \/ StartUndo(w) \/ MarkRollingBack(w)
           \/ ResumeRollback(w) \/ StaleClaim(w)
  <2>1. Frame(w) /\ nodes' = nodes /\ pc'[w] \notin Changing
        BY <1>0, <1>3 DEF Rejoin, Grant, Busy, StartUndo, MarkRollingBack, ResumeRollback,
                          StaleClaim, End, Leave, Frame, Changing
  <2>2. QED
        BY <1>0, <2>1, QuietKeep
<1>4. ASSUME NEW r \in Row,
             \/ UndoSucceeds(w, r) \/ UndoFails(w, r) \/ UndoLost(w, r)
             \/ RecordUndo(w, r) \/ RecordFailure(w, r) \/ PassOver(w, r)
      PROVE  ViewsFollow' /\ Follows(nodes, nodes')
  <2>1. Frame(w) /\ nodes' = nodes /\ pc'[w] \notin Changing
        BY <1>0, <1>4 DEF UndoSucceeds, UndoFails, UndoLost, RecordUndo, RecordFailure, PassOver,
                          Leave, Frame, Changing
  <2>2. QED
        BY <1>0, <2>1, QuietKeep
<1>5. QED
      BY <1>1, <1>2, <1>3, <1>4 DEF Unwind, Recover

LEMMA KeepNext ==
  ASSUME KeepInv, [Next]_vars
  PROVE  ViewsFollow' /\ (Follows(nodes, nodes') \/ \E w \in Request : PlanStep(w))
<1> USE DEF leaseVars, journal, Goto
<1>0. pc \in [Request -> Locals] /\ job \in [Request -> JobType] /\ ViewsFollow
      BY DEF KeepInv, WorkInv, LifeInv, RollbackInv, TypeInv, JobsOK
<1>1. ASSUME NEW w \in Request, Work(w)
      PROVE  ViewsFollow' /\ (Follows(nodes, nodes') \/ PlanStep(w))
  <2>1. CASE Exit(w) \/ CheckFails(w) \/ StaleWrite(w)
    <3>1. Frame(w) /\ nodes' = nodes /\ pc'[w] \notin Changing
          BY <1>0, <2>1 DEF Exit, CheckFails, StaleWrite, End, Leave, Frame, Changing
    <3>2. QED
          BY <1>0, <3>1, QuietKeep
  <2>2. QED
        BY <1>1, <2>1, OperateKeep, RunForwardKeep, UnwindKeep DEF Work
<1>2. ASSUME NEW w \in Request, NEW op \in Ops, NEW budget, NEW par,
             Begin(w, op, budget, par)
      PROVE  ViewsFollow' /\ Follows(nodes, nodes')
  <2>1. Frame(w) /\ nodes' = nodes
        BY <1>0, <1>2 DEF Begin, Grant, Frame
  <2>2. pc'[w] \notin Changing
        BY <1>0, <1>2, OpsAssumption DEF Begin, OpsAssumption, Operations, Changing
  <2>3. QED
        BY <1>0, <2>1, <2>2, QuietKeep
<1>3. ASSUME NEW w \in Request, Crash(w) \/ Claim(w) \/ NothingToClaim(w)
      PROVE  ViewsFollow' /\ Follows(nodes, nodes')
  <2>1. Frame(w) /\ nodes' = nodes /\ pc'[w] \notin Changing
        BY <1>0, <1>3 DEF Crash, Die, Claim, Grant, NothingToClaim, Frame, Changing
  <2>2. QED
        BY <1>0, <2>1, QuietKeep
<1>4. CASE UNCHANGED vars \/ ExpireLease \/ \E w \in Request : HeartbeatFails(w)
  <2>1. UNCHANGED <<current, nodes, pc, job>>
        BY <1>4 DEF vars, ExpireLease, Lapse, HeartbeatFails, Notice
  <2>2. QED
        BY <1>0, <2>1, KeepsSame DEF ViewsFollow, Follows
<1>5. QED
      BY <1>1, <1>2, <1>3, <1>4 DEF Next

(* Planning adds one node and touches no gate.                             *)
LEMMA PlanKeeps ==
  ASSUME KeepInv, NEW w \in Request, PlanStep(w)
  PROVE  \E n \in Node \ Planned(nodes) :
           /\ Planned(nodes') = Planned(nodes) \cup {n}
           /\ \A m \in Node \ {n} : Keeps(nodes[m], nodes'[m])
           /\ nodes'[n].status \in Started => Approved(nodes'[n])
<1>1. PICK n \in Node \ Planned(job[w].view), gated \in Gates, mode \in FailureModes,
           deps \in SUBSET Planned(job[w].view) :
        nodes' \in Refreshes([job[w].view EXCEPT ![n] = NewNode(deps, gated, mode)], n)
      BY DEF PlanStep
<1>2. job[w].view = nodes /\ nodes \in [Node -> NodeType]
      BY ViewFollows DEF PlanStep, Accepted, Reading, ViewOK
<1> DEFINE node == NewNode(deps, gated, mode)
           added == [nodes EXCEPT ![n] = node]
<1>3. node \in NodeType
      BY <1>1, NewNodeType, CoordinatorAssumption DEF CoordinatorAssumption, Planned
<1>4. node.status # "UNPLANNED" /\ (node.status \in Started => Approved(node))
      BY DEF NewNode, Unplanned, Started, Approved
<1>5. added \in [Node -> NodeType] /\ added[n] = node /\ \A m \in Node \ {n} : added[m] = nodes[m]
      BY <1>2, <1>3
<1>6. nodes' \in Refreshes(added, n)
      BY <1>1, <1>2
<1> HIDE DEF node, added
<1>7. Follows(added, nodes')
      BY <1>5, <1>6, RefreshFollows
<1>8. Keeps(node, nodes'[n]) /\ \A m \in Node \ {n} : Keeps(nodes[m], nodes'[m])
      BY <1>5, <1>7 DEF Follows
<1>9. Planned(nodes') = Planned(nodes) \cup {n}
      BY <1>4, <1>8 DEF Planned, Keeps
<1>10. nodes'[n].status \in Started => Approved(nodes'[n])
      BY <1>4, <1>8 DEF Keeps
<1>11. n \in Node \ Planned(nodes)
      BY <1>2
<1>12. QED
      BY <1>8, <1>9, <1>10, <1>11

LEMMA BlankNext == ASSUME KeepInv, [Next]_vars PROVE Blank'
<1> SUFFICES ASSUME NEW n \in Node, nodes'[n].status = "UNPLANNED" PROVE nodes'[n].step = 0
    BY DEF Blank, Planned
<1>1. Keeps(nodes[n], nodes'[n])
  <2>1. CASE Follows(nodes, nodes')
        BY <2>1 DEF Follows
  <2>2. ASSUME NEW w \in Request, PlanStep(w) PROVE Keeps(nodes[n], nodes'[n])
        BY <2>2, PlanKeeps DEF Planned
  <2>3. QED
        BY <2>1, <2>2, KeepNext
<1>2. QED
      BY <1>1 DEF Keeps, KeepInv, Blank, Planned

LEMMA AlwaysKeeps == Spec => []KeepInv
<1>1. Init => KeepInv
      BY InitWork DEF Init, FLInit, KeepInv, ViewsFollow, Blank, Unplanned
<1>2. KeepInv /\ [Next]_vars => KeepInv'
      BY LifeStays, WorkNext, KeepNext, BlankNext DEF KeepInv, WorkInv
<1>3. QED
      BY <1>1, <1>2, PTL DEF Spec

(* A gated node is ready, executing or completed only once approved: in    *)
(* any saga, whatever fails, dies or is overtaken, silent failures too.    *)
ApprovedFirst == \A n \in InStatus(nodes, Started) : Approved(nodes[n])

LEMMA ApprovedNext == ASSUME KeepInv, ApprovedFirst, [Next]_vars PROVE ApprovedFirst'
<1> SUFFICES ASSUME NEW n \in Node, nodes'[n].status \in Started PROVE Approved(nodes'[n])
    BY DEF ApprovedFirst, InStatus
<1>1. nodes[n].status \in Started => Approved(nodes[n])
      BY DEF ApprovedFirst, InStatus
<1>2. CASE Follows(nodes, nodes')
      BY <1>1, <1>2 DEF Follows, Keeps
<1>3. ASSUME NEW w \in Request, PlanStep(w) PROVE Approved(nodes'[n])
      BY <1>1, <1>3, PlanKeeps DEF Keeps
<1>4. QED
      BY <1>2, <1>3, KeepNext

(* A gated node starts only once approved, whatever becomes of its saga    *)
(* (ApprovedFirst): the half of Eligible that needs no assumption.         *)
THEOREM NothingStartsUnapproved == Spec => []ApprovedFirst
<1>1. Init => ApprovedFirst
      BY DEF Init, ApprovedFirst, InStatus, Unplanned, Started
<1>2. QED
      BY <1>1, ApprovedNext, AlwaysKeeps, PTL DEF Spec

LEMMA GateStep ==
  ASSUME KeepInv, [Next]_vars, NEW n \in Planned(nodes)
  PROVE  n \in Planned(nodes') /\ nodes'[n].gated = nodes[n].gated
<1>1. n \in Node /\ nodes[n].status # "UNPLANNED"
      BY DEF Planned
<1>2. ASSUME NEW w \in Request, PlanStep(w) PROVE Keeps(nodes[n], nodes'[n])
      BY <1>1, <1>2, PlanKeeps DEF Planned
<1>3. Keeps(nodes[n], nodes'[n])
      BY <1>1, <1>2, KeepNext DEF Follows
<1>4. QED
      BY <1>1, <1>3 DEF Keeps, Planned

(* A node that was planned stays in the workflow and keeps its gate: no    *)
(* save of another copy of the workflow loses either.                      *)
GatesStay ==
  [][\A n \in Planned(nodes) : n \in Planned(nodes') /\ nodes'[n].gated = nodes[n].gated]_vars

(* Every write of the workflow comes from a copy that follows the journal's*)
(* own (GatesStay).                                                        *)
THEOREM NoGateIsLost == Spec => GatesStay
<1>1. ASSUME KeepInv, [Next]_vars
      PROVE  [\A n \in Planned(nodes) :
                n \in Planned(nodes') /\ nodes'[n].gated = nodes[n].gated]_vars
      BY <1>1, GateStep
<1>2. QED
      BY <1>1, AlwaysKeeps, PTL DEF Spec, GatesStay
=============================================================================
