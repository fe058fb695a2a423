------------------------- MODULE SagaWorkflowProofs -------------------------
(***************************************************************************)
(* For any number of processes, nodes and rows, with leases that lapse and *)
(* processes that die at any moment: what the workflow claims, the step    *)
(* rows show, and a call is journaled before it is made.                   *)
(***************************************************************************)
EXTENDS SagaLifecycleProofs

USE NoRequestAssumption

(* What a node says of its step, the row of that step shows.               *)
BackedBy(n, node, rows) ==
  /\ node.step # 0 => rows[node.step].node = n /\ rows[node.step].status # "UNUSED"
  /\ node.status \in {"EXECUTING", "COMPLETED"} => node.step # 0
  /\ node.status = "COMPLETED" =>
       rows[node.step].status \in {"COMPLETED", "COMPENSATED", "COMPENSATION_FAILED"}

Backed(view, rows) == \A n \in Node : BackedBy(n, view[n], rows)

(* A node that has started may have.                                       *)
MayStart(node, view) == DependencyStatus(node, view) = "ready" /\ Approved(node)
Sound(view) == \A n \in InStatus(view, Started) : MayStart(view[n], view)

-----------------------------------------------------------------------------
(* What the engine's functions keep.                                       *)

LEMMA ReadyMeans ==
  ASSUME NEW node, NEW view
  PROVE  /\ DependencyStatus(node, view) = "ready"
              <=> \A d \in node.deps : view[d].status = "COMPLETED"
         /\ DependencyStatus(node, view) \in {"ready", "blocked", "waiting"}
BY DEF DependencyStatus

(* A refresh moves waiting nodes only, and changes nothing but a status.   *)
LEMMA RefreshChanges ==
  ASSUME NEW view \in [Node -> NodeType], NEW last, NEW new \in Refreshes(view, last),
         NEW n \in Node
  PROVE  /\ view[n].status \notin Open => new[n] = view[n]
         /\ view[n].status \in Open =>
              /\ new[n].status \in Open \cup {"READY", "WAITING_APPROVAL"}
              /\ new[n].deps = view[n].deps /\ new[n].step = view[n].step
              /\ new[n].gated = view[n].gated /\ new[n].approval = view[n].approval
<1>1. PICK status \in [InStatus(view, Open) -> Open \cup {"READY", "WAITING_APPROVAL"}] :
        new = WithStatus(view, status)
      BY DEF Refreshes
<1>2. new[n] = IF n \in InStatus(view, Open) THEN [view[n] EXCEPT !.status = status[n]]
               ELSE view[n]
      BY <1>1 DEF WithStatus
<1>3. n \in InStatus(view, Open) <=> view[n].status \in Open
      BY DEF InStatus
<1>4. CASE view[n].status \notin Open
      BY <1>2, <1>3, <1>4
<1>5. CASE view[n].status \in Open
  <2>1. status[n] \in Open \cup {"READY", "WAITING_APPROVAL"}
        BY <1>1, <1>3, <1>5
  <2>2. new[n] = [view[n] EXCEPT !.status = status[n]] /\ view[n] \in NodeType
        BY <1>2, <1>3, <1>5
  <2>3. QED
        BY <1>5, <2>1, <2>2 DEF NodeType
<1>6. QED
      BY <1>4, <1>5

LEMMA RefreshReady ==
  ASSUME NEW view \in [Node -> NodeType], NEW last, NEW new \in Refreshes(view, last),
         NEW n \in Node, view[n].status \in Open, new[n].status = "READY"
  PROVE  MayStart(new[n], new)
<1> DEFINE seen == [m \in Node |-> IF Before(m, n, last) THEN new[m] ELSE view[m]]
<1>0. view[n] \in NodeType /\ new[n] \in NodeType
      BY RefreshType
<1>1. new[n].status = Advance(view[n], seen)
      BY DEF Refreshes, InStatus
<1>2. DependencyStatus(view[n], seen) = "ready" /\ Approved(view[n])
  <2>1. DependencyStatus(view[n], seen) \in {"ready", "blocked", "waiting"}
        BY ReadyMeans
  <2>2. QED
        BY <1>1, <2>1 DEF Advance
<1>4. new[n].deps = view[n].deps /\ Approved(new[n])
      BY <1>2, RefreshChanges DEF Approved
<1>5. ASSUME NEW d \in new[n].deps PROVE new[d].status = "COMPLETED"
  <2>1. d \in Node /\ seen[d].status = "COMPLETED"
        BY <1>0, <1>2, <1>4, <1>5, ReadyMeans DEF NodeType
  <2>2. new[d].status = "COMPLETED" \/ view[d].status = "COMPLETED"
        BY <2>1
  <2>3. view[d].status = "COMPLETED" => new[d] = view[d]
        BY <2>1, RefreshChanges DEF Open
  <2>4. QED
        BY <2>2, <2>3
<1>6. QED
      BY <1>4, <1>5, ReadyMeans DEF MayStart

LEMMA RefreshSound ==
  ASSUME NEW view \in [Node -> NodeType], NEW last, NEW new \in Refreshes(view, last),
         Sound(view)
  PROVE  Sound(new)
<1> SUFFICES ASSUME NEW n \in Node, new[n].status \in Started PROVE MayStart(new[n], new)
    BY DEF Sound, InStatus
<1>1. CASE view[n].status \in Open
  <2>1. new[n].status \in Open \cup {"READY", "WAITING_APPROVAL"}
        BY <1>1, RefreshChanges
  <2>2. new[n].status = "READY"
        BY <2>1 DEF Open, Started
  <2>3. QED
        BY <1>1, <2>2, RefreshReady
<1>2. CASE view[n].status \notin Open
  <2>1. new[n] = view[n]
        BY <1>2, RefreshChanges
  <2>2. MayStart(view[n], view)
        BY <2>1 DEF Sound, InStatus
  <2>3. ASSUME NEW d \in view[n].deps PROVE new[d].status = "COMPLETED"
    <3>1. d \in Node /\ view[d].status = "COMPLETED"
          BY <2>2, <2>3, ReadyMeans DEF MayStart, NodeType
    <3>2. QED
          BY <3>1, RefreshChanges DEF Open
  <2>4. QED
        BY <2>1, <2>2, <2>3, ReadyMeans DEF MayStart
<1>3. QED
      BY <1>1, <1>2

(* Changing a node that is not completed takes nothing from the others.    *)
LEMMA ChangeSound ==
  ASSUME NEW view \in [Node -> NodeType], Sound(view), NEW n \in Node, NEW node \in NodeType,
         view[n].status # "COMPLETED", node.status \in Started => MayStart(node, view)
  PROVE  Sound([view EXCEPT ![n] = node])
<1> DEFINE new == [view EXCEPT ![n] = node]
<1> SUFFICES ASSUME NEW m \in Node, new[m].status \in Started PROVE MayStart(new[m], new)
    BY DEF Sound, InStatus
<1>1. MayStart(new[m], view)
      BY DEF Sound, InStatus
<1>2. \A d \in Node : view[d].status = "COMPLETED" => new[d] = view[d]
      OBVIOUS
<1>3. new[m] \in NodeType
      OBVIOUS
<1> HIDE DEF new
<1>4. \A d \in new[m].deps : d \in Node /\ view[d].status = "COMPLETED"
      BY <1>1, <1>3, ReadyMeans DEF MayStart, NodeType
<1>5. \A d \in new[m].deps : new[d].status = "COMPLETED"
      BY <1>2, <1>4
<1>6. QED
      BY <1>1, <1>5, ReadyMeans DEF MayStart

LEMMA RefreshBacked ==
  ASSUME NEW view \in [Node -> NodeType], NEW last, NEW new \in Refreshes(view, last),
         NEW rows, Backed(view, rows)
  PROVE  Backed(new, rows)
<1> SUFFICES ASSUME NEW n \in Node PROVE BackedBy(n, new[n], rows)
    BY DEF Backed
<1>1. BackedBy(n, view[n], rows)
      BY DEF Backed
<1>2. CASE view[n].status \notin Open
      BY <1>1, <1>2, RefreshChanges
<1>3. CASE view[n].status \in Open
  <2>1. /\ new[n].step = view[n].step
        /\ new[n].status \in Open \cup {"READY", "WAITING_APPROVAL"}
        BY <1>3, RefreshChanges
  <2>2. new[n].status \notin {"EXECUTING", "COMPLETED"}
        BY <2>1 DEF Open
  <2>3. QED
        BY <1>1, <2>1, <2>2 DEF BackedBy
<1>4. QED
      BY <1>2, <1>3

LEMMA ChangeBacked ==
  ASSUME NEW view \in [Node -> NodeType], NEW rows, Backed(view, rows), NEW n \in Node,
         NEW node, BackedBy(n, node, rows)
  PROVE  Backed([view EXCEPT ![n] = node], rows)
BY DEF Backed

(* A row that is new, or changes as the nodes allow.                       *)
LEMMA RowBacked ==
  ASSUME NEW view \in [Node -> NodeType], NEW rows \in [Row -> RowType], Backed(view, rows),
         NEW r \in Row, NEW row \in RowType, row.status # "UNUSED",
         \/ rows[r].status = "UNUSED"
         \/ /\ row.node = rows[r].node
            /\ \/ row.status \in {"COMPLETED", "COMPENSATED", "COMPENSATION_FAILED"}
               \/ \A n \in Node : n = row.node => view[n].status # "COMPLETED"
  PROVE  Backed(view, [rows EXCEPT ![r] = row])
<1> SUFFICES ASSUME NEW n \in Node PROVE BackedBy(n, view[n], [rows EXCEPT ![r] = row])
    BY DEF Backed
<1>1. BackedBy(n, view[n], rows) /\ view[n].step \in Row \cup {0}
      BY DEF Backed, NodeType
<1>2. CASE view[n].step # r
      BY <1>1, <1>2 DEF BackedBy
<1>3. CASE view[n].step = r
  <2>1. r # 0
        BY WorkflowAssumption DEF WorkflowAssumption
  <2>2. rows[r].status # "UNUSED" /\ rows[r].node = n
        BY <1>1, <1>3, <2>1 DEF BackedBy
  <2>3. QED
        BY <1>1, <1>3, <2>1, <2>2 DEF BackedBy
<1>4. QED
      BY <1>2, <1>3

-----------------------------------------------------------------------------
(* The workflow in the memory of the newest grantee.                       *)

(* It is the persisted one when it was read under this lease and not       *)
(* changed since, ...                                                      *)
Reading == {"plan", "approve", "retry", "commit", "execute", "run"}

(* ... and ahead of it when it was.                                        *)
Changing == {"save", "prepare", "calls"}

(* The intent of a call is journaled before it is due: in its row, and,    *)
(* once the wave is saved, in its node.                                    *)
Journaled(w, r) ==
  /\ steps[r].status = "EXECUTING"
  /\ LET n == steps[r].node IN
     n # 0 => /\ job[w].view[n].status = "EXECUTING" /\ job[w].view[n].step = r
              /\ pc[w] = "calls" => nodes[n].status = "EXECUTING" /\ nodes[n].step = r

ViewOK(w) ==
  /\ pc[w] \in Reading => job[w].view = nodes
  /\ pc[w] \in Changing =>
       /\ Backed(job[w].view, steps)
       /\ \A n \in InStatus(nodes, {"COMPLETED"}) : job[w].view[n] = nodes[n]
  /\ pc[w] = "execute" => NoCalls(job[w])
  /\ pc[w] = "prepare" => job[w].todo \subseteq InStatus(job[w].view, {"READY"})
  /\ pc[w] \in {"prepare", "calls"} =>
       \A r \in Row : job[w].calls[r] # "none" => Journaled(w, r)

ViewsOK == \A w \in Request : current = w => ViewOK(w)

(* Calls are out in one place only.                                        *)
Airborne(w) == \A r \in Row : job[w].calls[r] = "flight" => pc[w] = "calls"

WorkOK ==
  /\ Backed(nodes, steps)
  /\ ViewsOK
  /\ \A w \in Request : Airborne(w)

WorkInv == LifeInv /\ WorkOK

-----------------------------------------------------------------------------
LEMMA WorkStep ==
  ASSUME WorkOK, NEW w \in Request, Frame(w), nodes' = nodes \/ current = w,
         Backed(nodes', steps'), current' = w => ViewOK(w)', Airborne(w)'
  PROVE  WorkOK'
<1>1. ASSUME NEW v \in Request, current' = v PROVE ViewOK(v)'
  <2>1. CASE v = w
        BY <1>1, <2>1
  <2>2. CASE v # w
    <3>1. current = v /\ pc'[v] = pc[v] /\ job'[v] = job[v]
          BY <1>1, <2>2 DEF Frame
    <3>2. steps' = steps /\ nodes' = nodes
          BY <2>2, <3>1 DEF Frame
    <3>3. ViewOK(v)
          BY <3>1 DEF WorkOK, ViewsOK
    <3>4. QED
          BY <3>1, <3>2, <3>3 DEF ViewOK, Journaled, NoCalls, InStatus
  <2>3. QED
        BY <2>1, <2>2
<1>2. ASSUME NEW v \in Request PROVE Airborne(v)'
      BY DEF Frame, WorkOK, Airborne
<1>3. QED
      BY <1>1, <1>2 DEF WorkOK, ViewsOK

(* A step to a place where the workflow in memory does not matter.         *)
LEMMA AwayStep ==
  ASSUME WorkOK, NEW w \in Request, Frame(w), nodes' = nodes \/ current = w,
         Backed(nodes', steps'), pc'[w] \notin Reading \cup Changing, Airborne(w)'
  PROVE  WorkOK'
<1>1. ViewOK(w)'
      BY DEF ViewOK, Reading, Changing
<1>2. QED
      BY <1>1, WorkStep

LEMMA NoJobGrounded ==
  ASSUME NEW w \in Request,
         job'[w] = NoJob \/ \E again \in BOOLEAN : job'[w] = [NoJob EXCEPT !.again = again]
  PROVE  Airborne(w)'
<1>1. /\ \A r \in Row : NoJob.calls[r] = "none"
      /\ \A again \in BOOLEAN : \A r \in Row : [NoJob EXCEPT !.again = again].calls[r] = "none"
      BY DEF NoJob
<1>2. QED
      BY <1>1 DEF Airborne

LEMMA EndWork ==
  ASSUME TypeInv, WorkOK, NEW w \in Request, NEW l \in {"idle", "down", "again"}, End(w, l)
  PROVE  WorkOK'
<1>1. /\ Frame(w) /\ UNCHANGED <<nodes, steps>> /\ pc'[w] = l /\ job'[w] = NoJob
      BY DEF End, Leave, Goto, journal, Frame, TypeInv, JobsOK
<1>2. Airborne(w)'
      BY <1>1, NoJobGrounded
<1>3. QED
      BY <1>1, <1>2, AwayStep DEF WorkOK, Reading, Changing

(* The block has done its last write.                                      *)
LEMMA FinishWork ==
  ASSUME TypeInv, WorkOK, NEW w \in Request, NEW again \in BOOLEAN, Finish(w, again),
         UNCHANGED leaseVars, UNCHANGED <<nodes, steps>> \/ current = w, Backed(nodes', steps')
  PROVE  WorkOK'
<1>1. /\ Frame(w) /\ pc'[w] = "exit" /\ job'[w] = [NoJob EXCEPT !.again = again]
      /\ nodes' = nodes \/ current = w
      BY DEF Finish, Goto, leaseVars, Frame, TypeInv, JobsOK
<1>2. Airborne(w)'
      BY <1>1, NoJobGrounded
<1>3. QED
      BY <1>1, <1>2, AwayStep DEF Reading, Changing

(* What the newest grantee knows where it reads.                           *)
LEMMA ReadView ==
  ASSUME WorkInv, NEW w \in Request, current = w, pc[w] \in Reading
  PROVE  /\ job[w].view = nodes /\ nodes \in [Node -> NodeType]
         /\ Backed(nodes, steps) /\ steps \in [Row -> RowType]
BY DEF WorkInv, LifeInv, RollbackInv, TypeInv, JournalOK, WorkOK, ViewsOK, ViewOK

-----------------------------------------------------------------------------
(* The record of a node before anything was done for it.                   *)
LEMMA NewNodeBacked ==
  ASSUME NEW deps, NEW gated, NEW mode, NEW n, NEW rows
  PROVE  BackedBy(n, NewNode(deps, gated, mode), rows)
BY DEF NewNode, Unplanned, BackedBy

LEMMA DecisionsBacked ==
  ASSUME NEW node \in NodeType, NEW view, NEW n, NEW rows, BackedBy(n, node, rows)
  PROVE  /\ BackedBy(n, AfterApproval(node, view), rows)
         /\ BackedBy(n, AfterRejection(node), rows)
         /\ BackedBy(n, AfterRetry(node, view), rows)
<1>1. ASSUME NEW after \in NodeType, after.step = node.step,
             after.status \notin {"EXECUTING", "COMPLETED"}
      PROVE  BackedBy(n, after, rows)
      BY <1>1 DEF BackedBy
<1>2. /\ AfterApproval(node, view) \in NodeType /\ AfterRejection(node) \in NodeType
      /\ AfterRetry(node, view) \in NodeType
      BY AfterType
<1>3. /\ AfterApproval(node, view).step = node.step
      /\ AfterApproval(node, view).status \notin {"EXECUTING", "COMPLETED"}
      BY DEF AfterApproval, NodeType
<1>4. /\ AfterRejection(node).step = node.step
      /\ AfterRejection(node).status \notin {"EXECUTING", "COMPLETED"}
      BY DEF AfterRejection, NodeType
<1>5. /\ AfterRetry(node, view).step = node.step
      /\ AfterRetry(node, view).status \notin {"EXECUTING", "COMPLETED"}
      BY DEF AfterRetry, NodeType
<1>6. QED
      BY <1>1, <1>2, <1>3, <1>4, <1>5

LEMMA OperateWork ==
  ASSUME WorkInv, NEW w \in Request, Operate(w) PROVE WorkOK'
<1> USE DEF leaseVars, journal, Accepted
<1>0. TypeInv /\ WorkOK
      BY DEF WorkInv, LifeInv, RollbackInv
<1>a. /\ pc \in [Request -> Locals] /\ job \in [Request -> JobType] /\ job[w] \in JobType
      /\ job[w].view \in [Node -> NodeType] /\ job[w].calls \in [Row -> CallPhase]
      BY <1>0 DEF TypeInv, JobsOK, JobType
<1>1. CASE Refuse(w)
      BY <1>0, <1>1, EndWork DEF Refuse
<1>2. CASE PlanStep(w)
  <2>1. PICK n \in Node, gated \in Gates, mode \in FailureModes,
             deps \in SUBSET Planned(job[w].view) :
          nodes' \in Refreshes([job[w].view EXCEPT ![n] = NewNode(deps, gated, mode)], n)
        BY <1>2 DEF PlanStep
  <2>2. job[w].view = nodes /\ Backed(nodes, steps)
        BY <1>2, ReadView DEF PlanStep, Reading
  <2>3. NewNode(deps, gated, mode) \in NodeType
        BY <2>1, NewNodeType, CoordinatorAssumption DEF CoordinatorAssumption, Planned
  <2>4. [job[w].view EXCEPT ![n] = NewNode(deps, gated, mode)] \in [Node -> NodeType]
        BY <1>a, <2>3
  <2>5. Backed([job[w].view EXCEPT ![n] = NewNode(deps, gated, mode)], steps)
        BY <1>a, <2>2, ChangeBacked, NewNodeBacked
  <2>6. Backed(nodes', steps')
        BY <1>2, <2>1, <2>4, <2>5, RefreshBacked DEF PlanStep
  <2>7. QED
        BY <1>0, <1>2, <2>6, FinishWork DEF PlanStep
<1>3. CASE SaveEngine(w)
  <2>1. Backed(nodes', steps')
        BY <1>0, <1>3 DEF SaveEngine, WorkOK, ViewsOK, ViewOK, Changing
  <2>2. QED
        BY <1>0, <1>3, <2>1, FinishWork DEF SaveEngine
<1>4. CASE Commit(w)
      BY <1>0, <1>4, FinishWork DEF Commit, WorkOK
<1>5. ASSUME NEW n \in Node, ApproveStep(w, n) \/ RejectStep(w, n) \/ RetryStep(w, n)
      PROVE  WorkOK'
  <2>1. /\ current = w /\ Frame(w) /\ UNCHANGED <<nodes, steps, current>>
        /\ pc[w] \in Reading /\ pc'[w] = "save"
        BY <1>a, <1>5 DEF ApproveStep, RejectStep, RetryStep, Frame, Goto, Reading
  <2>2. job[w].view = nodes /\ Backed(nodes, steps) /\ nodes \in [Node -> NodeType]
        BY <2>1, ReadView
  <2>3. PICK view \in [Node -> NodeType] :
          /\ job' = [job EXCEPT ![w] = [job[w] EXCEPT !.view = view]]
          /\ Backed(view, steps)
          /\ \A m \in InStatus(nodes, {"COMPLETED"}) : view[m] = nodes[m]
    <3>0. BackedBy(n, nodes[n], steps) /\ nodes[n] \in NodeType
          BY <2>2 DEF Backed
    <3>1. ASSUME NEW after \in NodeType, BackedBy(n, after, steps), nodes[n].status # "COMPLETED"
          PROVE  /\ [nodes EXCEPT ![n] = after] \in [Node -> NodeType]
                 /\ Backed([nodes EXCEPT ![n] = after], steps)
                 /\ \A m \in InStatus(nodes, {"COMPLETED"}) : [nodes EXCEPT ![n] = after][m] = nodes[m]
          BY <2>2, <3>1, ChangeBacked DEF InStatus
    <3>2. CASE ApproveStep(w, n) \/ RejectStep(w, n)
      <4>1. nodes[n].status # "COMPLETED"
            BY <2>2, <3>2 DEF ApproveStep, RejectStep, Approvable
      <4>2. CASE ApproveStep(w, n)
        <5>1. job' = [job EXCEPT ![w] = [job[w] EXCEPT !.view =
                        [nodes EXCEPT ![n] = AfterApproval(nodes[n], nodes)]]]
              BY <2>2, <4>2 DEF ApproveStep
        <5>2. QED
              BY <3>0, <3>1, <4>1, <5>1, AfterType, DecisionsBacked
      <4>3. CASE RejectStep(w, n)
        <5>1. job' = [job EXCEPT ![w] = [job[w] EXCEPT !.view =
                        [nodes EXCEPT ![n] = AfterRejection(nodes[n])]]]
              BY <2>2, <4>3 DEF RejectStep
        <5>2. QED
              BY <3>0, <3>1, <4>1, <5>1, AfterType, DecisionsBacked
      <4>4. QED
            BY <3>2, <4>2, <4>3
    <3>3. CASE RetryStep(w, n)
      <4>1. nodes[n].status # "COMPLETED"
            BY <2>2, <3>3 DEF RetryStep, Retryable, Dead
      <4> DEFINE after == [nodes EXCEPT ![n] = AfterRetry(nodes[n], nodes)]
      <4>2. PICK view \in Refreshes(after, 0) :
              job' = [job EXCEPT ![w] = [job[w] EXCEPT !.view = view]]
            BY <2>2, <3>3 DEF RetryStep
      <4>3. /\ after \in [Node -> NodeType] /\ Backed(after, steps)
            /\ \A m \in InStatus(nodes, {"COMPLETED"}) : after[m] = nodes[m]
            BY <3>0, <3>1, <4>1, AfterType, DecisionsBacked
      <4> HIDE DEF after
      <4>4. view \in [Node -> NodeType] /\ Backed(view, steps)
            BY <4>2, <4>3, RefreshType, RefreshBacked
      <4>5. \A m \in InStatus(nodes, {"COMPLETED"}) : view[m] = nodes[m]
            BY <4>2, <4>3, RefreshChanges DEF InStatus, Open
      <4>6. QED
            BY <4>2, <4>4, <4>5
    <3>4. QED
          BY <1>5, <3>2, <3>3
  <2>4. job'[w].view = view /\ job'[w].calls = job[w].calls
        BY <1>a, <2>3 DEF JobType
  <2>5. ViewOK(w)'
        BY <2>1, <2>3, <2>4 DEF ViewOK, Reading, Changing, InStatus
  <2>6. Airborne(w)'
        BY <1>0, <2>1, <2>4 DEF WorkOK, Airborne, Reading
  <2>7. QED
        BY <1>0, <2>1, <2>2, <2>5, <2>6, WorkStep
<1>6. QED
      BY <1>1, <1>2, <1>3, <1>4, <1>5 DEF Operate

LEMMA WaveWork ==
  ASSUME WorkInv, NEW w \in Request, FormWave(w) \/ NothingReady(w) \/ Spent(w) PROVE WorkOK'
<1> USE DEF leaseVars, journal, Accepted
<1>0. TypeInv /\ WorkOK
      BY DEF WorkInv, LifeInv, RollbackInv
<1>a. /\ pc \in [Request -> Locals] /\ job \in [Request -> JobType] /\ job[w] \in JobType
      /\ job[w].view \in [Node -> NodeType] /\ job[w].calls \in [Row -> CallPhase]
      BY <1>0 DEF TypeInv, JobsOK, JobType
<1>b. (current = w /\ pc[w] = "run") => job[w].view = nodes /\ Backed(nodes, steps)
      BY ReadView DEF Reading
<1>c. pc[w] = "run" => NoCalls(job[w])
      BY <1>0 DEF TypeInv, JobsOK, WavesFit, Bounded
<1>1. CASE FormWave(w)
  <2> DEFINE limit == IF job[w].par < job[w].budget THEN job[w].par ELSE job[w].budget
  <2>1. PICK view \in Refreshes(job[w].view, 0) :
          \E wave \in Waves(view, limit) :
            job' = [job EXCEPT ![w].view = view, ![w].todo = wave]
        BY <1>1 DEF FormWave
  <2>2. PICK wave \in Waves(view, limit) :
          job' = [job EXCEPT ![w] = [job[w] EXCEPT !.view = view, !.todo = wave]]
        BY <2>1
  <2>3. /\ job'[w].view = view /\ job'[w].todo = wave /\ job'[w].calls = job[w].calls
        BY <1>a, <2>2 DEF JobType
  <2>4. /\ Frame(w) /\ UNCHANGED <<nodes, steps, current>>
        /\ pc[w] = "run" /\ pc'[w] = "prepare"
        BY <1>a, <1>1 DEF FormWave, Frame, Goto
  <2>5. wave \subseteq InStatus(view, {"READY"})
        BY DEF Waves
  <2>6. ASSUME current = w
        PROVE  Backed(view, steps) /\ \A n \in InStatus(nodes, {"COMPLETED"}) : view[n] = nodes[n]
    <3>1. view \in Refreshes(nodes, 0) /\ Backed(nodes, steps) /\ nodes \in [Node -> NodeType]
          BY <1>a, <1>b, <2>1, <2>4, <2>6
    <3>2. QED
          BY <3>1, RefreshBacked, RefreshChanges DEF InStatus, Open
  <2>7. NoCalls(job'[w])
        BY <1>c, <2>3, <2>4 DEF NoCalls
  <2>8. (current' = w) => ViewOK(w)'
        BY <2>3, <2>4, <2>5, <2>6, <2>7 DEF ViewOK, Reading, Changing, InStatus, NoCalls
  <2>9. Airborne(w)'
        BY <2>7 DEF Airborne, NoCalls
  <2>10. QED
        BY <1>0, <2>4, <2>8, <2>9, WorkStep DEF WorkOK
<1>2. CASE NothingReady(w)
  <2>1. Backed(nodes', steps')
        BY <1>a, <1>b, <1>2, RefreshBacked DEF NothingReady
  <2>2. QED
        BY <1>0, <1>2, <2>1, FinishWork DEF NothingReady
<1>3. CASE Spent(w)
      BY <1>0, <1>3, FinishWork DEF Spent, WorkOK
<1>4. QED
      BY <1>1, <1>2, <1>3

(* The first use of a row, for a step outside the workflow.                *)
LEMMA CreateWork ==
  ASSUME WorkInv, NEW w \in Request, NEW r \in Row, CreateStep(w, r) PROVE WorkOK'
<1> USE DEF leaseVars, journal, Accepted
<1>0. TypeInv /\ WorkOK
      BY DEF WorkInv, LifeInv, RollbackInv
<1>a. /\ pc \in [Request -> Locals] /\ job \in [Request -> JobType] /\ job[w] \in JobType
      /\ job[w].view \in [Node -> NodeType] /\ job[w].calls \in [Row -> CallPhase]
      BY <1>0 DEF TypeInv, JobsOK, JobType
<1>1. /\ Frame(w) /\ UNCHANGED <<nodes, current>> /\ current = w
      /\ pc[w] = "execute" /\ pc'[w] = "calls" /\ steps[r].status = "UNUSED"
      BY <1>a DEF CreateStep, Frame, Goto, NewRow, Used
<1>2. PICK mode \in FailureModes :
        steps' = [steps EXCEPT ![r] = [status |-> "EXECUTING", node |-> 0, mode |-> mode]]
      BY DEF CreateStep
<1>3. /\ job[w].view = nodes /\ nodes \in [Node -> NodeType]
      /\ Backed(nodes, steps) /\ steps \in [Row -> RowType] /\ NoCalls(job[w])
      BY <1>0, <1>1, ReadView DEF Reading, WorkOK, ViewsOK, ViewOK
<1>4. [status |-> "EXECUTING", node |-> 0, mode |-> mode] \in RowType
      BY CoordinatorAssumption DEF CoordinatorAssumption, RowType, RowStatus
<1>5. Backed(nodes', steps')
      BY <1>1, <1>2, <1>3, <1>4, RowBacked
<1>6. job'[w].view = nodes' /\ \A q \in Row : job'[w].calls[q] = IF q = r THEN "due" ELSE "none"
  <2>1. job' = [job EXCEPT ![w] = [job[w] EXCEPT !.calls[r] = "due"]]
        BY DEF CreateStep
  <2>2. job'[w].view = job[w].view /\ job'[w].calls = [job[w].calls EXCEPT ![r] = "due"]
        BY <1>a, <2>1 DEF JobType
  <2>3. QED
        BY <1>a, <1>1, <1>3, <2>2 DEF NoCalls
<1>7. steps'[r].status = "EXECUTING" /\ steps'[r].node = 0
      BY <1>2, <1>3
<1>8. ViewOK(w)'
      BY <1>1, <1>5, <1>6, <1>7 DEF ViewOK, Reading, Changing, InStatus, Journaled
<1>9. Airborne(w)'
      BY <1>6 DEF Airborne
<1>10. QED
       BY <1>0, <1>1, <1>5, <1>8, <1>9, WorkStep

(* A node of the wave takes a row, its own or a new one.                   *)
LEMMA PrepareWork ==
  ASSUME WorkInv, NEW w \in Request, NEW n \in Node, NEW r \in Row, PrepareNode(w, n, r)
  PROVE  WorkOK'
<1> USE DEF leaseVars, journal, Accepted
<1> DEFINE view == job[w].view
           intent == [status |-> "EXECUTING", node |-> n, mode |-> view[n].mode]
           node == [view[n] EXCEPT !.status = "EXECUTING", !.step = r]
           j == [job[w] EXCEPT !.todo = @ \ {n}, !.calls[r] = "due",
                   !.view[n] = [@ EXCEPT !.status = "EXECUTING", !.step = r]]
<1>0. /\ TypeInv /\ WorkOK
      /\ nodes \in [Node -> NodeType] /\ steps \in [Row -> RowType]
      BY DEF WorkInv, LifeInv, RollbackInv, TypeInv, JournalOK
<1>a. /\ pc \in [Request -> Locals] /\ job \in [Request -> JobType] /\ job[w] \in JobType
      /\ job[w].view \in [Node -> NodeType] /\ job[w].calls \in [Row -> CallPhase]
      /\ job[w].todo \in SUBSET Node /\ view[n] \in NodeType
      BY <1>0 DEF TypeInv, JobsOK, JobType
<1>1. /\ Frame(w) /\ UNCHANGED <<nodes, current, pc>> /\ current = w
      /\ pc[w] = "prepare" /\ n \in job[w].todo
      /\ steps' = [steps EXCEPT ![r] = intent]
      /\ IF view[n].step = 0 THEN steps[r].status = "UNUSED" ELSE r = view[n].step
      BY <1>a DEF PrepareNode, Frame, NewRow, Used
<1>2. /\ Backed(view, steps) /\ view[n].status = "READY"
      /\ \A m \in InStatus(nodes, {"COMPLETED"}) : view[m] = nodes[m]
      /\ job[w].todo \subseteq InStatus(view, {"READY"})
      /\ \A q \in Row : job[w].calls[q] # "none" => Journaled(w, q)
      BY <1>0, <1>1 DEF WorkOK, ViewsOK, ViewOK, Changing, InStatus
<1>3. job'[w] = j
      BY <1>a DEF PrepareNode
<1>4. /\ job'[w].view = [view EXCEPT ![n] = node]
      /\ job'[w].calls = [job[w].calls EXCEPT ![r] = "due"]
      /\ job'[w].todo = job[w].todo \ {n}
      BY <1>a, <1>3 DEF JobType
<1>5. intent \in RowType /\ intent.status = "EXECUTING" /\ intent.node = n
      BY <1>a DEF RowType, RowStatus, NodeType
<1>6. node.status = "EXECUTING" /\ node.step = r
      BY <1>a DEF NodeType
<1>7. r # 0 /\ n # 0
      BY WorkflowAssumption DEF WorkflowAssumption
(* Until now the row was unused, or the node's own.                        *)
<1>8. steps[r].status = "UNUSED" \/ (steps[r].node = n /\ r = view[n].step)
      BY <1>1, <1>2, <1>7 DEF Backed, BackedBy
<1>9. Backed(view, steps')
  <2> HIDE DEF intent
  <2>1. \A m \in Node : m = intent.node => view[m].status # "COMPLETED"
        BY <1>2, <1>5
  <2>2. QED
        BY <1>0, <1>1, <1>2, <1>5, <1>8, <1>a, <2>1, RowBacked
<1>10. Backed(nodes', steps')
  <2> HIDE DEF intent
  <2>1. \A m \in Node : m = intent.node => nodes[m].status # "COMPLETED"
        BY <1>2, <1>5 DEF InStatus
  <2>2. Backed(nodes, steps')
        BY <1>0, <1>1, <1>5, <1>8, <2>1, RowBacked DEF WorkOK
  <2>3. QED
        BY <1>1, <2>2
<1>11. Backed(job'[w].view, steps')
  <2>1. steps'[r].node = n /\ steps'[r].status = "EXECUTING"
        BY <1>0, <1>1, <1>5
  <2>2. BackedBy(n, node, steps')
        BY <1>6, <1>7, <2>1 DEF BackedBy
  <2> HIDE DEF node
  <2>3. QED
        BY <1>4, <1>9, <1>a, <2>2, ChangeBacked
<1>12. ASSUME NEW q \in Row, job'[w].calls[q] # "none" PROVE Journaled(w, q)'
  <2>1. CASE q = r
    <3>1. steps'[r].node = n /\ steps'[r].status = "EXECUTING"
          BY <1>0, <1>1, <1>5
    <3>2. job'[w].view[n] = node
          BY <1>4, <1>a
    <3>3. QED
          BY <1>1, <1>6, <2>1, <3>1, <3>2 DEF Journaled
  <2>2. CASE q # r
    <3>1. Journaled(w, q)
          BY <1>2, <1>4, <1>12, <1>a, <2>2
    <3>2. steps'[q] = steps[q] /\ steps[q].node \in Node \cup {0}
          BY <1>0, <1>1, <2>2 DEF RowType
    <3>3. steps[q].node # n
          BY <1>2, <1>7, <3>1 DEF Journaled
    <3>4. steps[q].node # 0 => job'[w].view[steps[q].node] = view[steps[q].node]
          BY <1>4, <1>a, <3>2, <3>3
    <3>5. QED
          BY <1>1, <3>1, <3>2, <3>4 DEF Journaled
  <2>3. QED
        BY <2>1, <2>2
<1>13. job'[w].todo \subseteq InStatus(job'[w].view, {"READY"})
       BY <1>2, <1>4, <1>a DEF InStatus
<1>14. \A m \in InStatus(nodes, {"COMPLETED"}) : job'[w].view[m] = nodes[m]
       BY <1>2, <1>4, <1>a DEF InStatus
<1>15. ViewOK(w)'
       BY <1>1, <1>11, <1>12, <1>13, <1>14 DEF ViewOK, Reading, Changing, InStatus
<1>16. Airborne(w)'
       BY <1>0, <1>1, <1>4, <1>a DEF WorkOK, Airborne
<1>17. QED
       BY <1>0, <1>1, <1>10, <1>15, <1>16, WorkStep

(* The workflow is saved before any call of the wave is made.              *)
LEMMA SaveWaveWork ==
  ASSUME WorkInv, NEW w \in Request, SaveWave(w) PROVE WorkOK'
<1> USE DEF leaseVars, journal, Accepted
<1>0. TypeInv /\ WorkOK
      BY DEF WorkInv, LifeInv, RollbackInv
<1>a. /\ pc \in [Request -> Locals] /\ job \in [Request -> JobType] /\ job[w] \in JobType
      BY <1>0 DEF TypeInv, JobsOK
<1>1. /\ Frame(w) /\ UNCHANGED <<steps, current>> /\ current = w /\ nodes' = job[w].view
      /\ pc[w] = "prepare" /\ pc'[w] = "calls"
      BY <1>a DEF SaveWave, Frame, Goto
<1>2. job'[w].view = job[w].view /\ job'[w].calls = job[w].calls
  <2>1. PICK b : job' = [job EXCEPT ![w] = [job[w] EXCEPT !.budget = b]]
        BY DEF SaveWave
  <2>2. QED
        BY <1>a, <2>1 DEF JobType
<1>3. /\ Backed(job[w].view, steps)
      /\ \A q \in Row : job[w].calls[q] # "none" => Journaled(w, q)
      BY <1>0, <1>1 DEF WorkOK, ViewsOK, ViewOK, Changing
<1>4. \A q \in Row : job'[w].calls[q] # "none" => Journaled(w, q)'
      BY <1>1, <1>2, <1>3 DEF Journaled
<1>5. ViewOK(w)'
      BY <1>1, <1>2, <1>3, <1>4 DEF ViewOK, Reading, Changing, InStatus
<1>6. Airborne(w)'
      BY <1>1 DEF Airborne
<1>7. QED
      BY <1>0, <1>1, <1>3, <1>5, <1>6, WorkStep

(* Calls come and go; the journal stays.                                   *)
LEMMA PhaseWork ==
  ASSUME WorkInv, NEW w \in Request, NEW r \in Row, NEW phase, pc[w] = "calls",
         job[w].calls[r] # "none", job' = [job EXCEPT ![w] = [job[w] EXCEPT !.calls[r] = phase]],
         UNCHANGED <<nodes, steps, current, pc>>
  PROVE  WorkOK'
<1>0. TypeInv /\ WorkOK
      BY DEF WorkInv, LifeInv, RollbackInv
<1>a. /\ pc \in [Request -> Locals] /\ job \in [Request -> JobType] /\ job[w] \in JobType
      /\ job[w].calls \in [Row -> CallPhase]
      BY <1>0 DEF TypeInv, JobsOK, JobType
<1>1. Frame(w)
      BY <1>a DEF Frame
<1>2. job'[w].view = job[w].view /\ job'[w].calls = [job[w].calls EXCEPT ![r] = phase]
      BY <1>a DEF JobType
<1>3. ASSUME current = w PROVE ViewOK(w)'
  <2>1. ViewOK(w)
        BY <1>0, <1>3 DEF WorkOK, ViewsOK
  <2>2. ASSUME NEW q \in Row, job'[w].calls[q] # "none" PROVE Journaled(w, q)'
    <3>1. job[w].calls[q] # "none"
          BY <1>2, <1>a, <2>2
    <3>2. Journaled(w, q)
          BY <2>1, <3>1 DEF ViewOK
    <3>3. QED
          BY <1>2, <3>2 DEF Journaled
  <2>3. QED
        BY <1>2, <2>1, <2>2 DEF ViewOK, Reading, Changing, InStatus
<1>4. Airborne(w)'
      BY DEF Airborne
<1>5. QED
      BY <1>0, <1>1, <1>3, <1>4, WorkStep DEF WorkOK

LEMMA CallWork ==
  ASSUME WorkInv, NEW w \in Request, NEW r \in Row,
         StartCall(w, r) \/ CallSucceeds(w, r) \/ CallFails(w, r)
  PROVE  WorkOK'
<1>1. /\ UNCHANGED <<nodes, steps, current, pc>> /\ pc[w] = "calls"
      /\ job[w].calls[r] # "none"
      BY DEF StartCall, CallSucceeds, CallFails, leaseVars, journal
<1>2. PICK phase : job' = [job EXCEPT ![w] = [job[w] EXCEPT !.calls[r] = phase]]
      BY DEF StartCall, CallSucceeds, CallFails
<1>3. QED
      BY <1>1, <1>2, PhaseWork

(* The outcome of a call, in its row at once and in memory.                *)
LEMMA SettleWork ==
  ASSUME WorkInv, NEW w \in Request, NEW r \in Row, SettleRow(w, r) PROVE WorkOK'
<1> USE DEF leaseVars, journal, Accepted
<1> DEFINE ok == job[w].calls[r] = "ok"
           n == steps[r].node
           status == IF ok THEN "COMPLETED" ELSE "FAILED"
           row == [steps[r] EXCEPT !.status = status]
           failed == IF ok THEN job[w].failed ELSE job[w].failed \cup {steps[r].mode}
           view == [m \in Node |-> IF m = n THEN AfterCall(job[w].view[m], ok)
                                   ELSE job[w].view[m]]
           j == [job[w] EXCEPT !.calls[r] = "none", !.failed = failed, !.view = view]
<1>0. /\ TypeInv /\ WorkOK
      /\ nodes \in [Node -> NodeType] /\ steps \in [Row -> RowType]
      BY DEF WorkInv, LifeInv, RollbackInv, TypeInv, JournalOK
<1>a. /\ pc \in [Request -> Locals] /\ job \in [Request -> JobType] /\ job[w] \in JobType
      /\ job[w].view \in [Node -> NodeType] /\ job[w].calls \in [Row -> CallPhase]
      BY <1>0 DEF TypeInv, JobsOK, JobType
<1>1. /\ Frame(w) /\ UNCHANGED <<nodes, current>> /\ current = w /\ pc[w] = "calls"
      /\ pc'[w] \in {"calls", "exit", "escalate"}
      /\ InPhase(w, {"due", "flight"}) = {} /\ job[w].calls[r] \in {"ok", "bad"}
      /\ steps' = [steps EXCEPT ![r] = row]
      BY <1>a DEF SettleRow, Frame, Goto, Returned, InPhase
<1>2. /\ Backed(job[w].view, steps)
      /\ \A m \in InStatus(nodes, {"COMPLETED"}) : job[w].view[m] = nodes[m]
      /\ \A q \in Row : job[w].calls[q] # "none" => Journaled(w, q)
      BY <1>0, <1>1 DEF WorkOK, ViewsOK, ViewOK, Changing
<1>3. job'[w] = j
      BY <1>a DEF SettleRow
<1>4. job'[w].view = view /\ job'[w].calls = [job[w].calls EXCEPT ![r] = "none"]
  <2> HIDE DEF view, failed, ok
  <2>1. QED
        BY <1>a, <1>3 DEF JobType
<1>5. Journaled(w, r)
      BY <1>1, <1>2
<1>6. row \in RowType /\ row.status = status /\ row.node = n /\ n \in Node \cup {0}
      BY <1>0 DEF RowType, RowStatus
<1>7. status \in {"COMPLETED", "FAILED"} /\ status # "UNUSED"
      OBVIOUS
<1>8. \A m \in Node : m = n => nodes[m].status # "COMPLETED"
  <2>1. ASSUME NEW m \in Node, m = n, nodes[m].status = "COMPLETED" PROVE FALSE
    <3>1. m # 0
          BY WorkflowAssumption DEF WorkflowAssumption
    <3>2. job[w].view[m].status = "EXECUTING"
          BY <1>5, <2>1, <3>1 DEF Journaled
    <3>3. job[w].view[m] = nodes[m]
          BY <1>2, <2>1 DEF InStatus
    <3>4. QED
          BY <2>1, <3>2, <3>3
  <2>2. QED
        BY <2>1
<1>9. Backed(nodes', steps')
  <2> HIDE DEF row, status, n
  <2>1. \A m \in Node : m = row.node => nodes[m].status # "COMPLETED"
        BY <1>6, <1>8
  <2>2. row.node = steps[r].node
        BY <1>6 DEF n
  <2>3. Backed(nodes, [steps EXCEPT ![r] = row])
        BY <1>0, <1>6, <1>7, <2>1, <2>2, RowBacked DEF WorkOK
  <2>4. QED
        BY <1>1, <2>3
<1>10. Backed(view, steps')
  <2> SUFFICES ASSUME NEW m \in Node PROVE BackedBy(m, view[m], steps')
      BY DEF Backed
  <2>0. /\ BackedBy(m, job[w].view[m], steps) /\ job[w].view[m] \in NodeType
        /\ job[w].view[m].step \in Row \cup {0} /\ m # 0 /\ r # 0
        BY <1>2, <1>a, WorkflowAssumption DEF Backed, NodeType, WorkflowAssumption
  <2>1. CASE m = n
    <3>1. job[w].view[m].step = r
          BY <1>5, <2>0, <2>1 DEF Journaled
    <3>2. view[m] = AfterCall(job[w].view[m], ok)
          BY <2>1
    <3>3. view[m].step = r /\ view[m].status = status
          BY <2>0, <3>1, <3>2 DEF AfterCall, NodeType
    <3>4. steps'[r].status = status /\ steps'[r].node = n
          BY <1>0, <1>1, <1>6
    <3> HIDE DEF view, status, n
    <3>5. QED
          BY <1>7, <2>0, <2>1, <3>3, <3>4 DEF BackedBy
  <2>2. CASE m # n
    <3>1. view[m] = job[w].view[m]
          BY <2>2
    <3>2. job[w].view[m].step # r
          BY <2>0, <2>2 DEF BackedBy
    <3>3. job[w].view[m].step # 0 => steps'[job[w].view[m].step] = steps[job[w].view[m].step]
          BY <1>0, <1>1, <2>0, <3>2
    <3>4. QED
          BY <2>0, <3>1, <3>3 DEF BackedBy
  <2>3. QED
        BY <2>1, <2>2
<1>11. \A m \in InStatus(nodes, {"COMPLETED"}) : view[m] = nodes[m]
       BY <1>2, <1>8 DEF InStatus
<1>12. ASSUME NEW q \in Row, job'[w].calls[q] # "none", pc'[w] = "calls"
       PROVE  Journaled(w, q)'
  <2>1. q # r /\ Journaled(w, q)
        BY <1>2, <1>4, <1>12, <1>a
  <2>2. steps'[q] = steps[q] /\ steps[q].node \in Node \cup {0}
        BY <1>0, <1>1, <2>1 DEF RowType
  <2>3. steps[q].node # 0 => steps[q].node # n
        BY <1>5, <2>1 DEF Journaled
  <2>4. steps[q].node # 0 => job'[w].view[steps[q].node] = job[w].view[steps[q].node]
        BY <1>4, <2>2, <2>3
  <2>5. QED
        BY <1>1, <2>1, <2>2, <2>4 DEF Journaled
<1>13. ViewOK(w)'
  <2> HIDE DEF view
  <2>1. QED
        BY <1>1, <1>4, <1>10, <1>11, <1>12 DEF ViewOK, Reading, Changing, InStatus
<1>14. Airborne(w)'
       BY <1>1, <1>4, <1>a DEF Airborne, InPhase
<1>15. QED
       BY <1>0, <1>1, <1>9, <1>13, <1>14, WorkStep

LEMMA ResultsWork ==
  ASSUME WorkInv, NEW w \in Request, SaveResults(w) PROVE WorkOK'
<1> USE DEF leaseVars, journal, Accepted
<1>0. TypeInv /\ WorkOK
      BY DEF WorkInv, LifeInv, RollbackInv
<1>a. /\ pc \in [Request -> Locals] /\ job \in [Request -> JobType] /\ job[w] \in JobType
      /\ job[w].view \in [Node -> NodeType] /\ job[w].calls \in [Row -> CallPhase]
      BY <1>0 DEF TypeInv, JobsOK, JobType
<1>1. PICK view \in Refreshes(job[w].view, 0) :
        nodes' = view /\ job' = [job EXCEPT ![w] = [job[w] EXCEPT !.view = view]]
      BY DEF SaveResults
<1>2. /\ Frame(w) /\ UNCHANGED <<steps, current>> /\ current = w /\ pc[w] = "calls"
      /\ pc'[w] \in {"run", "escalate"}
      BY <1>a DEF SaveResults, Frame, Goto
<1>3. job'[w].view = view /\ job'[w].calls = job[w].calls
      BY <1>a, <1>1 DEF JobType
<1>4. Backed(nodes', steps')
      BY <1>0, <1>1, <1>2, <1>a, RefreshBacked DEF WorkOK, ViewsOK, ViewOK, Changing
<1>5. ViewOK(w)'
      BY <1>1, <1>2, <1>3 DEF ViewOK, Reading, Changing
<1>6. Airborne(w)'
      BY <1>3, <1>a DEF Airborne, SaveResults, InPhase, CallPhase
<1>7. QED
      BY <1>0, <1>2, <1>4, <1>5, <1>6, WorkStep

LEMMA RunForwardWork ==
  ASSUME WorkInv, NEW w \in Request, RunForward(w) PROVE WorkOK'
<1>0. TypeInv /\ WorkOK
      BY DEF WorkInv, LifeInv, RollbackInv
<1>1. CASE Unresolved(w) \/ Abandon(w)
      BY <1>0, <1>1, EndWork DEF Unresolved, Abandon
<1>2. CASE Escalate(w)
  <2> DEFINE again == "rollback" \in job[w].failed
  <2>1. Finish(w, again) /\ UNCHANGED <<nodes, steps, leaseVars>>
        BY <1>2 DEF Escalate
  <2>2. again \in BOOLEAN
        OBVIOUS
  <2> HIDE DEF again
  <2>3. QED
        BY <1>0, <2>1, <2>2, FinishWork DEF WorkOK
<1>3. QED
      BY <1>1, <1>2, WaveWork, CreateWork, PrepareWork, SaveWaveWork, CallWork, SettleWork,
         ResultsWork
      DEF RunForward

-----------------------------------------------------------------------------
(* A row that is compensated, or cannot be, was used; the workflow learns  *)
(* of it at the end of the rollback.                                       *)

LEMMA UndoneWork ==
  ASSUME WorkInv, NEW w \in Request, NEW r \in Row, RecordUndo(w, r) \/ RecordFailure(w, r)
  PROVE  WorkOK'
<1> USE DEF leaseVars, journal, Accepted
<1>0. /\ TypeInv /\ WorkOK
      /\ nodes \in [Node -> NodeType] /\ steps \in [Row -> RowType]
      /\ pc \in [Request -> Locals] /\ job \in [Request -> JobType] /\ job[w] \in JobType
      BY DEF WorkInv, LifeInv, RollbackInv, TypeInv, JournalOK, JobsOK
<1>1. /\ Frame(w) /\ UNCHANGED <<nodes, current>> /\ current = w
      /\ pc[w] \in Unwinding /\ pc'[w] = "undo"
      BY <1>0 DEF RecordUndo, RecordFailure, Frame, Goto, Unwinding
<1>2. PICK status \in {"COMPENSATED", "COMPENSATION_FAILED"} :
        steps' = [steps EXCEPT ![r] = [steps[r] EXCEPT !.status = status]]
      BY DEF RecordUndo, RecordFailure
<1>3. /\ [steps[r] EXCEPT !.status = status] \in RowType
      /\ [steps[r] EXCEPT !.status = status].status = status
      /\ [steps[r] EXCEPT !.status = status].node = steps[r].node
      BY <1>0 DEF RowType, RowStatus
<1>4. Backed(nodes', steps')
      BY <1>0, <1>1, <1>2, <1>3, RowBacked DEF WorkOK
<1>5. job'[w].calls = job[w].calls
  <2>1. CASE RecordUndo(w, r)
    <3>1. PICK queue : job' = [job EXCEPT ![w] = [job[w] EXCEPT !.queue = queue]]
          BY <2>1 DEF RecordUndo
    <3>2. QED
          BY <1>0, <3>1 DEF JobType
  <2>2. CASE RecordFailure(w, r)
    <3>1. PICK queue : job' = [job EXCEPT ![w] = [job[w] EXCEPT !.queue = queue, !.broken = TRUE]]
          BY <2>2 DEF RecordFailure
    <3>2. QED
          BY <1>0, <3>1 DEF JobType
  <2>3. QED
        BY <2>1, <2>2
<1>6. Airborne(w)'
      BY <1>0, <1>1, <1>5 DEF WorkOK, Airborne, Unwinding
<1>7. QED
      BY <1>0, <1>1, <1>4, <1>6, AwayStep DEF Reading, Changing

LEMMA MirrorWork ==
  ASSUME WorkInv, NEW w \in Request, FinishRollback(w) PROVE WorkOK'
<1> USE DEF leaseVars, journal, Accepted
<1>0. TypeInv /\ WorkOK /\ nodes \in [Node -> NodeType]
      BY DEF WorkInv, LifeInv, RollbackInv, TypeInv, JournalOK
<1>1. ASSUME NEW n \in Node PROVE BackedBy(n, Mirrored(nodes[n]), steps)
  <2>1. BackedBy(n, nodes[n], steps) /\ nodes[n] \in NodeType
        BY <1>0 DEF WorkOK, Backed
  <2>2. CASE Mirrored(nodes[n]) = nodes[n]
        BY <2>1, <2>2
  <2>3. CASE Mirrored(nodes[n]) # nodes[n]
    <3>1. PICK status \in {"COMPENSATED", "COMPENSATION_FAILED"} :
            Mirrored(nodes[n]) = [nodes[n] EXCEPT !.status = status]
          BY <2>3 DEF Mirrored
    <3>2. Mirrored(nodes[n]).step = nodes[n].step /\ Mirrored(nodes[n]).status = status
          BY <2>1, <3>1 DEF NodeType
    <3>3. QED
          BY <2>1, <3>2 DEF BackedBy
  <2>4. QED
        BY <2>2, <2>3
<1>2. steps' = steps /\ nodes' = [n \in Node |-> Mirrored(nodes[n])]
      BY DEF FinishRollback
<1>3. Backed(nodes', steps')
      BY <1>1, <1>2 DEF Backed
<1>4. QED
      BY <1>0, <1>3, FinishWork DEF FinishRollback

LEMMA UnwindWork ==
  ASSUME WorkInv, NEW w \in Request, Unwind(w) PROVE WorkOK'
<1> USE DEF leaseVars, journal
<1>0. /\ TypeInv /\ WorkOK
      /\ pc \in [Request -> Locals] /\ job \in [Request -> JobType] /\ job[w] \in JobType
      BY DEF WorkInv, LifeInv, RollbackInv, TypeInv, JobsOK
<1>1. CASE \/ Rejoin(w) \/ Busy(w) \/ StartUndo(w)
           \/ \E r \in Row : UndoSucceeds(w, r) \/ UndoFails(w, r)
  <2>1. /\ Frame(w) /\ UNCHANGED <<nodes, steps, job>>
        /\ pc[w] \in Unwinding \cup {"again"}
        /\ pc'[w] \in Unwinding \cup {"mark", "exit", "idle"}
        BY <1>0, <1>1 DEF Rejoin, Grant, Busy, StartUndo, UndoSucceeds, UndoFails, Frame, Goto,
                          Unwinding
  <2>2. Airborne(w)'
        BY <1>0, <2>1 DEF WorkOK, Airborne, Unwinding
  <2>3. QED
        BY <1>0, <2>1, <2>2, AwayStep DEF Reading, Changing, Unwinding, WorkOK
<1>2. CASE MarkRollingBack(w) \/ \E r \in Row : PassOver(w, r)
  <2>1. /\ Frame(w) /\ UNCHANGED <<nodes, steps>>
        /\ pc[w] \in Unwinding \cup {"mark"} /\ pc'[w] = "undo"
        BY <1>0, <1>2 DEF MarkRollingBack, PassOver, Frame, Goto, Unwinding
  <2>2. PICK queue : job' = [job EXCEPT ![w] = [job[w] EXCEPT !.queue = queue]]
        BY <1>2 DEF MarkRollingBack, PassOver
  <2>3. job'[w].calls = job[w].calls
        BY <1>0, <2>2 DEF JobType
  <2>4. Airborne(w)'
        BY <1>0, <2>1, <2>3 DEF WorkOK, Airborne, Unwinding
  <2>5. QED
        BY <1>0, <2>1, <2>4, AwayStep DEF Reading, Changing, WorkOK
<1>3. ASSUME NEW r \in Row, UndoLost(w, r) PROVE WorkOK'
  <2>1. Frame(w) /\ UNCHANGED <<nodes, steps>> /\ pc'[w] = "idle" /\ job'[w] = NoJob
        BY <1>0, <1>3 DEF UndoLost, Leave, Frame, Goto
  <2>2. QED
        BY <1>0, <2>1, NoJobGrounded, AwayStep DEF Reading, Changing, WorkOK
<1>4. QED
      BY <1>1, <1>2, <1>3, UndoneWork, MirrorWork DEF Unwind

LEMMA RecoverWork ==
  ASSUME WorkInv, NEW w \in Request, Recover(w) PROVE WorkOK'
<1> USE DEF leaseVars, journal, Accepted
<1>0. /\ TypeInv /\ WorkOK /\ nodes \in [Node -> NodeType]
      /\ pc \in [Request -> Locals] /\ job \in [Request -> JobType]
      BY DEF WorkInv, LifeInv, RollbackInv, TypeInv, JournalOK, JobsOK
<1>1. CASE EscalateToOperator(w)
  <2>1. ASSUME NEW n \in Node PROVE BackedBy(n, nodes'[n], steps)
    <3>1. BackedBy(n, nodes[n], steps) /\ nodes[n] \in NodeType
          BY <1>0 DEF WorkOK, Backed
    <3>2. nodes'[n] = nodes[n] \/ nodes'[n] = [nodes[n] EXCEPT !.status = "FAILED", !.uncertain = TRUE]
          BY <1>1 DEF EscalateToOperator
    <3>3. nodes'[n].step = nodes[n].step /\ (nodes'[n] = nodes[n] \/ nodes'[n].status = "FAILED")
          BY <3>1, <3>2 DEF NodeType
    <3>4. QED
          BY <3>1, <3>3 DEF BackedBy
  <2>2. Backed(nodes', steps')
        BY <1>1, <2>1 DEF Backed, EscalateToOperator
  <2>3. QED
        BY <1>0, <1>1, <2>2, FinishWork DEF EscalateToOperator
<1>2. CASE ResumeRollback(w)
  <2>1. /\ Frame(w) /\ UNCHANGED <<nodes, steps, job>> /\ pc[w] = "resume"
        /\ pc'[w] \in {"mark", "exit"}
        BY <1>0, <1>2 DEF ResumeRollback, Frame, Goto
  <2>2. QED
        BY <1>0, <2>1, AwayStep DEF WorkOK, Airborne, Reading, Changing
<1>3. CASE StaleClaim(w)
      BY <1>0, <1>3, EndWork DEF StaleClaim
<1>4. QED
      BY <1>1, <1>2, <1>3 DEF Recover

-----------------------------------------------------------------------------
LEMMA WorkNext ==
  ASSUME WorkInv, [Next]_vars PROVE WorkOK'
<1> USE DEF leaseVars, journal
<1>0. /\ TypeInv /\ WorkOK
      /\ pc \in [Request -> Locals] /\ job \in [Request -> JobType]
      BY DEF WorkInv, LifeInv, RollbackInv, TypeInv, JobsOK
<1>1. ASSUME NEW w \in Request, Work(w) PROVE WorkOK'
  <2>1. CASE Exit(w) \/ CheckFails(w) \/ StaleWrite(w)
        BY <1>0, <2>1, EndWork DEF Exit, CheckFails, StaleWrite
  <2>2. QED
        BY <1>1, <2>1, OperateWork, RunForwardWork, UnwindWork, RecoverWork DEF Work
<1>2. ASSUME NEW w \in Request, NEW op \in Ops, NEW budget, NEW par,
             Begin(w, op, budget, par)
      PROVE  WorkOK'
  <2>1. /\ Frame(w) /\ UNCHANGED <<nodes, steps>>
        /\ pc'[w] = IF ~Admitted(op) THEN "exit" ELSE IF op = "rollback" THEN "mark" ELSE op
        /\ job'[w] = [NoJob EXCEPT !.view = nodes, !.budget = budget, !.par = par]
        BY <1>0, <1>2 DEF Begin, Grant, Frame, Goto
  <2>2. pc'[w] \in Reading \cup {"exit", "mark"}
        BY <2>1, OpsAssumption DEF OpsAssumption, Operations, Reading
  <2>3. job'[w].view = nodes /\ \A r \in Row : job'[w].calls[r] = "none"
        BY <2>1 DEF NoJob
  <2>4. ViewOK(w)'
        BY <2>1, <2>2, <2>3 DEF ViewOK, Reading, Changing, NoCalls
  <2>5. Airborne(w)'
        BY <2>3 DEF Airborne
  <2>6. QED
        BY <1>0, <2>1, <2>4, <2>5, WorkStep DEF WorkOK
<1>3. ASSUME NEW w \in Request, Claim(w) \/ NothingToClaim(w) PROVE WorkOK'
  <2>1. /\ Frame(w) /\ UNCHANGED <<nodes, steps, job>> /\ pc[w] = "down"
        /\ pc'[w] \in {"resume", "idle"}
        BY <1>0, <1>3 DEF Claim, Grant, NothingToClaim, Frame, Goto
  <2>2. QED
        BY <1>0, <2>1, AwayStep DEF WorkOK, Airborne, Reading, Changing
<1>4. ASSUME NEW w \in Request, Crash(w) PROVE WorkOK'
  <2>1. Frame(w) /\ UNCHANGED <<nodes, steps>> /\ pc'[w] = "down" /\ job'[w] = NoJob
        BY <1>0, <1>4 DEF Crash, Die, Frame, Goto
  <2>2. QED
        BY <1>0, <2>1, NoJobGrounded, AwayStep DEF Reading, Changing, WorkOK
<1>5. CASE UNCHANGED vars \/ ExpireLease \/ \E w \in Request : HeartbeatFails(w)
  <2>1. UNCHANGED <<current, nodes, steps, pc, job>>
        BY <1>5 DEF vars, ExpireLease, Lapse, HeartbeatFails, Notice
  <2>2. QED
        BY <1>0, <2>1 DEF WorkOK, Backed, BackedBy, ViewsOK, ViewOK, Journaled, NoCalls,
                          InStatus, Airborne
<1>6. QED
      BY <1>1, <1>2, <1>3, <1>4, <1>5 DEF Next

LEMMA InitWork == Init => WorkInv
<1> SUFFICES ASSUME Init PROVE WorkInv
    OBVIOUS
<1>1. Backed(nodes, steps)
      BY DEF Init, Unplanned, Backed, BackedBy
<1>2. ViewsOK
      BY DEF Init, FLInit, ViewsOK
<1>3. ASSUME NEW w \in Request PROVE Airborne(w)
      BY DEF Init, NoJob, Airborne
<1>4. QED
      BY <1>1, <1>2, <1>3, InitLife DEF WorkInv, WorkOK

LEMMA LifeStays == LifeInv /\ [Next]_vars => LifeInv'
  BY RollbackStep, LifeNext DEF LifeInv, RollbackInv

LEMMA AlwaysWork == Spec => []WorkInv
<1>1. WorkInv /\ [Next]_vars => WorkInv'
      BY LifeStays, WorkNext DEF WorkInv
<1>2. QED
      BY <1>1, InitWork, PTL DEF Spec

LEMMA WorkBacked == WorkInv => CompletedNodesBacked
  BY DEF WorkInv, WorkOK, Backed, BackedBy, CompletedNodesBacked, InStatus

(* The workflow never claims more than the step rows show: the row of a    *)
(* completed node completed, and has at most been compensated since.       *)
THEOREM CompletedWorkIsBacked == Spec => []CompletedNodesBacked
  BY WorkBacked, AlwaysWork, PTL

LEMMA WorkJournaled == WorkInv => CallsAreJournaled
<1>1. ASSUME WorkInv, NEW w \in Request, NEW r \in Row, current = w,
             job[w].calls[r] = "flight"
      PROVE  saga = "ACTIVE" /\ pc[w] = "calls" /\ Journaled(w, r)
  <2>1. pc[w] = "calls"
        BY <1>1 DEF WorkInv, WorkOK, Airborne
  <2>2. saga = "ACTIVE"
        BY <1>1, <2>1 DEF WorkInv, LifeInv, LifeOK, Expected
  <2>3. QED
        BY <1>1, <2>1, <2>2 DEF WorkInv, WorkOK, ViewsOK, ViewOK
<1>2. QED
      BY <1>1 DEF Journaled, CallsAreJournaled

(* Write-ahead intent: a call of the newest grantee is out only in an      *)
(* active saga whose journal shows it, in its row and in its node.         *)
THEOREM CallsFollowTheJournal == Spec => []CallsAreJournaled
  BY WorkJournaled, AlwaysWork, PTL
=============================================================================
