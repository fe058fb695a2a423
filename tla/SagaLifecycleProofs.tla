------------------------ MODULE SagaLifecycleProofs -------------------------
(***************************************************************************)
(* For any number of processes, nodes and rows, with leases that lapse and *)
(* processes that die at any moment: compensation runs in reverse order, a *)
(* rolled back saga has nothing left to compensate, and SagaCoordinator    *)
(* implements SagaLifecycle.                                               *)
(***************************************************************************)
EXTENDS SagaCoordinatorProofs

USE NoRequestAssumption

Unwinding == {"undo", "undoing", "undone", "unfixed"}

(* What the rollback of w has dealt with, or found nothing to do for.      *)
Settled(w) ==
  \A r \in Row \ (job[w].queue \cup EmptyMessages) :
    \/ steps[r].status \in {"UNUSED", "COMPENSATED"}
    \/ steps[r].status = "COMPENSATION_FAILED" /\ job[w].broken

(* The queue of the newest grantee is what is left of the journal to       *)
(* compensate.  A process that was overtaken may have a queue that is out  *)
(* of date, and can no longer write.                                       *)
QueueOK == \A w \in Request : (current = w /\ pc[w] \in Unwinding) => Settled(w)

RollbackInv == TypeInv /\ OpenInv /\ QueueOK /\ RolledBackClean

(* What a step of w leaves alone.                                          *)
Frame(w) ==
  /\ \A v \in Request \ {w} : pc'[v] = pc[v] /\ job'[v] = job[v]
  /\ current' \in {current, w, NoRequest}
  /\ steps' = steps \/ current = w

-----------------------------------------------------------------------------
LEMMA QueueStep ==
  ASSUME QueueOK, NEW w \in Request, Frame(w),
         (current' = w /\ pc'[w] \in Unwinding) => Settled(w)'
  PROVE  QueueOK'
<1> SUFFICES ASSUME NEW v \in Request, current' = v, pc'[v] \in Unwinding
             PROVE  Settled(v)'
    BY DEF QueueOK
<1>1. CASE v = w
      BY <1>1
<1>2. CASE v # w
  <2>1. current = v /\ pc[v] \in Unwinding
        BY <1>2 DEF Frame
  <2>2. steps' = steps /\ job'[v] = job[v]
        BY <1>2, <2>1 DEF Frame
  <2>3. Settled(v)
        BY <2>1 DEF QueueOK
  <2>4. QED
        BY <2>2, <2>3 DEF Settled
<1>3. QED
      BY <1>1, <1>2

(* Everything but a rollback stays away from its stages.                   *)
LEMMA ForwardQueue ==
  ASSUME TypeInv, QueueOK, NEW w \in Request, Operate(w) \/ RunForward(w) \/ Recover(w)
  PROVE  QueueOK'
<1> USE DEF leaseVars, journal, Goto, Finish, Accepted, Unwinding
<1>0. pc \in [Request -> Locals] /\ job \in [Request -> JobType]
      BY DEF TypeInv, JobsOK
<1>1. CASE Operate(w)
  <2>1. Frame(w) /\ pc'[w] \notin Unwinding
        BY <1>0, <1>1 DEF Operate, Refuse, End, Leave, PlanStep, SaveEngine, Commit,
                          ApproveStep, RejectStep, RetryStep, Frame
  <2>2. QED
        BY <2>1, QueueStep
<1>2. CASE RunForward(w)
  <2>1. CASE \/ FormWave(w) \/ Spent(w) \/ Unresolved(w) \/ Abandon(w)
             \/ NothingReady(w) \/ SaveWave(w) \/ SaveResults(w) \/ Escalate(w)
    <3>1. Frame(w) /\ pc'[w] \notin Unwinding
          BY <1>0, <2>1 DEF FormWave, Spent, Unresolved, Abandon, NothingReady, SaveWave,
                            SaveResults, Escalate, End, Leave, Frame
    <3>2. QED
          BY <3>1, QueueStep
  <2>2. ASSUME NEW r \in Row,
               \/ CreateStep(w, r) \/ \E n \in Node : PrepareNode(w, n, r)
               \/ StartCall(w, r) \/ CallSucceeds(w, r) \/ CallFails(w, r) \/ SettleRow(w, r)
        PROVE  QueueOK'
    <3>1. Frame(w) /\ pc'[w] \notin Unwinding
          BY <1>0, <2>2 DEF CreateStep, PrepareNode, StartCall, CallSucceeds, CallFails,
                            SettleRow, Frame
    <3>2. QED
          BY <3>1, QueueStep
  <2>3. QED
        BY <1>2, <2>1, <2>2 DEF RunForward
<1>3. CASE Recover(w)
  <2>1. Frame(w) /\ pc'[w] \notin Unwinding
        BY <1>0, <1>3 DEF Recover, EscalateToOperator, ResumeRollback, StaleClaim, End,
                          Leave, Frame
  <2>2. QED
        BY <2>1, QueueStep
<1>4. QED
      BY <1>1, <1>2, <1>3

(* A rollback lists all rows to compensate, and takes each off its list    *)
(* only once it has been dealt with.                                       *)
LEMMA UnwindQueue ==
  ASSUME TypeInv, QueueOK, NEW w \in Request, Unwind(w) PROVE QueueOK'
<1> USE DEF leaseVars, journal, Goto, Accepted
<1>0. /\ pc \in [Request -> Locals] /\ job \in [Request -> JobType]
      /\ steps \in [Row -> RowType]
      BY DEF TypeInv, JobsOK, JournalOK
<1>a. job[w] \in JobType
      BY <1>0
<1>1. CASE Rejoin(w) \/ Busy(w) \/ FinishRollback(w)
  <2>1. Frame(w) /\ pc'[w] \notin Unwinding
        BY <1>0, <1>1 DEF Rejoin, Grant, Busy, FinishRollback, Finish, Frame, Unwinding
  <2>2. QED
        BY <2>1, QueueStep
<1>2. CASE MarkRollingBack(w)
  <2>1. Frame(w)
        BY <1>0, <1>2 DEF MarkRollingBack, Frame
  <2>2. job'[w].queue = {r \in Row : steps[r].status \in Compensable} /\ steps' = steps
        BY <1>0, <1>a, <1>2 DEF MarkRollingBack, JobType
  <2>3. ASSUME NEW r \in Row, r \notin job'[w].queue
        PROVE  steps'[r].status \in {"UNUSED", "COMPENSATED"}
        BY <1>0, <2>2, <2>3 DEF Compensable, RowType, RowStatus
  <2>4. Settled(w)'
        BY <2>3 DEF Settled
  <2>5. QED
        BY <2>1, <2>4, QueueStep
<1>3. CASE StartUndo(w)
  <2>1. Frame(w) /\ job' = job /\ steps' = steps /\ current' = current
        BY <1>0, <1>3 DEF StartUndo, Frame
  <2>2. (current' = w) => Settled(w)'
        BY <1>3, <2>1 DEF StartUndo, QueueOK, Unwinding, Settled
  <2>3. QED
        BY <2>1, <2>2, QueueStep
<1>4. ASSUME NEW r \in Row, UndoSucceeds(w, r) \/ UndoFails(w, r) PROVE QueueOK'
  <2>1. Frame(w) /\ job' = job /\ steps' = steps /\ current' = current /\ pc[w] = "undoing"
        BY <1>0, <1>4 DEF UndoSucceeds, UndoFails, Frame
  <2>2. (current' = w) => Settled(w)'
        BY <2>1 DEF QueueOK, Unwinding, Settled
  <2>3. QED
        BY <2>1, <2>2, QueueStep
<1>5. ASSUME NEW r \in Row, UndoLost(w, r) PROVE QueueOK'
  <2>1. Frame(w) /\ pc'[w] \notin Unwinding
        BY <1>0, <1>5 DEF UndoLost, Leave, Frame, Unwinding
  <2>2. QED
        BY <2>1, QueueStep
<1>6. ASSUME NEW r \in Row, RecordUndo(w, r) \/ RecordFailure(w, r) PROVE QueueOK'
  <2>1. Frame(w) /\ current = w /\ pc[w] \in Unwinding
        BY <1>0, <1>6 DEF RecordUndo, RecordFailure, Frame, Unwinding
  <2>2. Settled(w)
        BY <2>1 DEF QueueOK
  <2>3. job'[w].queue = job[w].queue \ {r} /\ (job[w].broken => job'[w].broken)
        BY <1>0, <1>a, <1>6 DEF RecordUndo, RecordFailure, JobType
  <2>4. \A q \in Row \ {r} : steps'[q] = steps[q]
        BY <1>0, <1>6 DEF RecordUndo, RecordFailure
  <2>5. \/ steps'[r].status = "COMPENSATED"
        \/ steps'[r].status = "COMPENSATION_FAILED" /\ job'[w].broken
        BY <1>0, <1>a, <1>6 DEF RecordUndo, RecordFailure, RowType, JobType
  <2>6. Settled(w)'
        BY <2>2, <2>3, <2>4, <2>5 DEF Settled
  <2>7. QED
        BY <2>1, <2>6, QueueStep
<1>7. ASSUME NEW r \in Row, PassOver(w, r) PROVE QueueOK'
  <2>1. Frame(w) /\ steps' = steps /\ current' = current /\ pc[w] \in Unwinding
        BY <1>0, <1>7 DEF PassOver, Frame, Unwinding
  <2>2. /\ job'[w].queue = job[w].queue \ {r} /\ r \in EmptyMessages
        /\ job'[w].broken = job[w].broken
        BY <1>0, <1>a, <1>7 DEF PassOver, JobType
  <2>3. (current' = w) => Settled(w)'
        BY <2>1, <2>2 DEF QueueOK, Settled
  <2>4. QED
        BY <2>1, <2>3, QueueStep
<1>8. QED
      BY <1>1, <1>2, <1>3, <1>4, <1>5, <1>6, <1>7 DEF Unwind

LEMMA QueueNext ==
  ASSUME TypeInv, OpenInv, QueueOK, [Next]_vars PROVE QueueOK'
<1> USE DEF leaseVars, journal, Goto, Unwinding
<1>0. pc \in [Request -> Locals] /\ job \in [Request -> JobType]
      BY DEF TypeInv, JobsOK
<1>1. ASSUME NEW w \in Request, Exit(w) \/ CheckFails(w) \/ StaleWrite(w) PROVE QueueOK'
  <2>1. Frame(w) /\ pc'[w] \notin Unwinding
        BY <1>0, <1>1 DEF Exit, CheckFails, StaleWrite, End, Leave, Frame
  <2>2. QED
        BY <2>1, QueueStep
<1>2. ASSUME NEW w \in Request, NEW op \in Ops, NEW budget, NEW par,
             Begin(w, op, budget, par)
      PROVE  QueueOK'
  <2>1. Frame(w)
        BY <1>0, <1>2 DEF Begin, Grant, Frame
  <2>2. op \notin Unwinding
        BY OpsAssumption DEF OpsAssumption, Operations
  <2>3. pc'[w] \notin Unwinding
        BY <1>0, <1>2, <2>2 DEF Begin
  <2>4. QED
        BY <2>1, <2>3, QueueStep
<1>3. ASSUME NEW w \in Request, Crash(w) \/ Claim(w) \/ NothingToClaim(w) PROVE QueueOK'
  <2>1. Frame(w) /\ pc'[w] \notin Unwinding
        BY <1>0, <1>3 DEF Crash, Die, Claim, Grant, NothingToClaim, Frame
  <2>2. QED
        BY <2>1, QueueStep
<1>4. CASE UNCHANGED vars \/ ExpireLease \/ \E w \in Request : HeartbeatFails(w)
  <2>1. UNCHANGED <<current, pc, job, steps>>
        BY <1>4 DEF vars, ExpireLease, Lapse, HeartbeatFails, Notice
  <2>2. QED
        BY <2>1 DEF QueueOK, Settled
<1>5. ASSUME NEW w \in Request, Work(w) PROVE QueueOK'
      BY <1>1, <1>5, ForwardQueue, UnwindQueue DEF Work
<1>6. QED
      BY <1>1, <1>2, <1>3, <1>4, <1>5 DEF Next

-----------------------------------------------------------------------------
(* Only the end of a rollback closes a saga as rolled back.                *)
LEMMA OnlyFinishRollsBack ==
  ASSUME [Next]_vars, saga # "ROLLED_BACK", saga' = "ROLLED_BACK"
  PROVE  \E w \in Request : FinishRollback(w)
<1> USE DEF journal
<1>1. ASSUME NEW w \in Request, Work(w) PROVE FinishRollback(w)
  <2>1. ~Operate(w)
        BY DEF Operate, Refuse, End, PlanStep, SaveEngine, Commit, ApproveStep,
               RejectStep, RetryStep
  <2>2. ~RunForward(w)
    <3>1. ~(FormWave(w) \/ Spent(w) \/ Unresolved(w) \/ Abandon(w) \/ NothingReady(w)
            \/ SaveWave(w) \/ SaveResults(w) \/ Escalate(w))
          BY DEF FormWave, Spent, Unresolved, Abandon, NothingReady, SaveWave, SaveResults,
                 Escalate, End
    <3>2. ASSUME NEW r \in Row
          PROVE  ~(\/ CreateStep(w, r) \/ \E n \in Node : PrepareNode(w, n, r)
                   \/ StartCall(w, r) \/ CallSucceeds(w, r) \/ CallFails(w, r)
                   \/ SettleRow(w, r))
          BY DEF CreateStep, PrepareNode, StartCall, CallSucceeds, CallFails, SettleRow
    <3>3. QED
          BY <3>1, <3>2 DEF RunForward
  <2>3. ~(Recover(w) \/ Exit(w) \/ CheckFails(w) \/ StaleWrite(w))
        BY DEF Recover, EscalateToOperator, ResumeRollback, StaleClaim, Exit, CheckFails,
               StaleWrite, End
  <2>4. Unwind(w) => FinishRollback(w)
        BY DEF Unwind, Rejoin, Busy, MarkRollingBack, StartUndo, UndoSucceeds, UndoFails,
               UndoLost, RecordUndo, RecordFailure, PassOver
  <2>5. QED
        BY <1>1, <2>1, <2>2, <2>3, <2>4 DEF Work
<1>2. ASSUME NEW w \in Request, NEW op, NEW budget, NEW par
      PROVE  ~(Begin(w, op, budget, par) \/ HeartbeatFails(w) \/ Crash(w) \/ Claim(w)
               \/ NothingToClaim(w))
      BY DEF Begin, HeartbeatFails, Crash, Claim, NothingToClaim
<1>3. ~(ExpireLease \/ UNCHANGED vars)
      BY DEF ExpireLease, vars
<1>4. QED
      BY <1>1, <1>2, <1>3 DEF Next

LEMMA CleanNext ==
  ASSUME RollbackInv, [Next]_vars PROVE RolledBackClean'
<1> SUFFICES ASSUME saga' = "ROLLED_BACK"
             PROVE  \A r \in Used' \ EmptyMessages : steps'[r].status = "COMPENSATED"
    BY DEF RolledBackClean
<1>1. CASE saga = "ROLLED_BACK"
  <2>1. UNCHANGED journal
        BY <1>1, WritersWork DEF RollbackInv, OpenInv, NewestWorksOnOpen, Final
  <2>2. QED
        BY <1>1, <2>1 DEF RollbackInv, RolledBackClean, Used, journal
<1>2. CASE saga # "ROLLED_BACK"
  <2>1. PICK w \in Request : FinishRollback(w)
        BY <1>2, OnlyFinishRollsBack
  <2>2. Settled(w) /\ job[w].queue = {} /\ ~job[w].broken /\ steps' = steps
        BY <2>1 DEF FinishRollback, Accepted, RollbackInv, QueueOK, Unwinding
  <2>3. \A r \in Row \ EmptyMessages : steps[r].status \in {"UNUSED", "COMPENSATED"}
        BY <2>2 DEF Settled
  <2>4. QED
        BY <2>2, <2>3 DEF Used
<1>3. QED
      BY <1>1, <1>2

LEMMA InitRollback == Init => RollbackInv
  BY InitType, InitOpen DEF Init, FLInit, RollbackInv, QueueOK, RolledBackClean

LEMMA RollbackStep == RollbackInv /\ [Next]_vars => RollbackInv'
  BY TypeStep, OpenStep, QueueNext, CleanNext DEF RollbackInv

LEMMA AlwaysRollback == Spec => []RollbackInv
  BY InitRollback, RollbackStep, PTL DEF Spec

(* A saga that is ROLLED_BACK has compensated every row that was used, but *)
(* for those whose compensation failed without a message: whoever finished *)
(* the rollback, and however many processes began it.                      *)
THEOREM NothingLeftBehind == Spec => []RolledBackClean
  BY AlwaysRollback, PTL DEF RollbackInv
-----------------------------------------------------------------------------
(* A row becomes compensated by one action alone.                          *)
LEMMA OnlyRecordUndoes ==
  ASSUME TypeInv, [Next]_vars, NEW r \in Row,
         steps[r].status # "COMPENSATED", steps'[r].status = "COMPENSATED"
  PROVE  \E w \in Request : RecordUndo(w, r)
<1> USE DEF journal
<1>0. steps \in [Row -> RowType]
      BY DEF TypeInv, JournalOK
<1>1. ASSUME NEW w \in Request, Work(w) PROVE RecordUndo(w, r)
  <2>1. ~Operate(w)
        BY DEF Operate, Refuse, End, PlanStep, SaveEngine, Commit, ApproveStep,
               RejectStep, RetryStep
  <2>2. ~RunForward(w)
    <3>1. ~(FormWave(w) \/ Spent(w) \/ Unresolved(w) \/ Abandon(w) \/ NothingReady(w)
            \/ SaveWave(w) \/ SaveResults(w) \/ Escalate(w))
          BY DEF FormWave, Spent, Unresolved, Abandon, NothingReady, SaveWave, SaveResults,
                 Escalate, End
    <3>2. ASSUME NEW q \in Row
          PROVE  ~(StartCall(w, q) \/ CallSucceeds(w, q) \/ CallFails(w, q))
          BY DEF StartCall, CallSucceeds, CallFails
    <3>3. ASSUME NEW q \in Row PROVE ~CreateStep(w, q)
          BY <1>0 DEF CreateStep
    <3>4. ASSUME NEW q \in Row, NEW n \in Node PROVE ~PrepareNode(w, n, q)
          BY <1>0 DEF PrepareNode
    <3>5. ASSUME NEW q \in Row PROVE ~SettleRow(w, q)
          BY <1>0 DEF SettleRow, RowType
    <3>6. QED
          BY <3>1, <3>2, <3>3, <3>4, <3>5 DEF RunForward
  <2>3. ~(Recover(w) \/ Exit(w) \/ CheckFails(w) \/ StaleWrite(w))
        BY DEF Recover, EscalateToOperator, ResumeRollback, StaleClaim, Exit, CheckFails,
               StaleWrite, End
  <2>4. ASSUME NEW q \in Row, RecordUndo(w, q) PROVE q = r
        BY <1>0, <2>4 DEF RecordUndo
  <2>5. ASSUME NEW q \in Row PROVE ~RecordFailure(w, q)
        BY <1>0 DEF RecordFailure, RowType
  <2>6. ASSUME NEW q \in Row
        PROVE  ~(UndoSucceeds(w, q) \/ UndoFails(w, q) \/ UndoLost(w, q) \/ PassOver(w, q))
        BY DEF UndoSucceeds, UndoFails, UndoLost, PassOver
  <2>7. ~(Rejoin(w) \/ Busy(w) \/ MarkRollingBack(w) \/ StartUndo(w) \/ FinishRollback(w))
        BY DEF Rejoin, Busy, MarkRollingBack, StartUndo, FinishRollback
  <2>8. QED
        BY <1>1, <2>1, <2>2, <2>3, <2>4, <2>5, <2>6, <2>7 DEF Work, Unwind
<1>2. ASSUME NEW w \in Request, NEW op, NEW budget, NEW par
      PROVE  ~(Begin(w, op, budget, par) \/ HeartbeatFails(w) \/ Crash(w) \/ Claim(w)
               \/ NothingToClaim(w))
      BY DEF Begin, HeartbeatFails, Crash, Claim, NothingToClaim
<1>3. ~(ExpireLease \/ UNCHANGED vars)
      BY DEF ExpireLease, vars
<1>4. QED
      BY <1>1, <1>2, <1>3 DEF Next

LEMMA ReverseStep ==
  ASSUME RollbackInv, [Next]_vars, NEW r \in Row,
         steps[r].status # "COMPENSATED", steps'[r].status = "COMPENSATED",
         NEW q \in Used \ EmptyMessages, q > r
  PROVE  steps[q].status \in {"COMPENSATED", "COMPENSATION_FAILED"}
<1>1. PICK w \in Request : RecordUndo(w, r)
      BY OnlyRecordUndoes DEF RollbackInv
<1>2. Settled(w) /\ \A p \in job[w].queue : p <= r
      BY <1>1 DEF RollbackInv, QueueOK, RecordUndo, Accepted, Newest, Unwinding
<1>3. q \in Row \ (job[w].queue \cup EmptyMessages) /\ steps[q].status # "UNUSED"
  <2>1. q \in Nat /\ r \in Nat /\ q \in Row
        BY WorkflowAssumption DEF WorkflowAssumption, Used
  <2>2. QED
        BY <1>2, <2>1 DEF Used
<1>4. QED
      BY <1>2, <1>3 DEF Settled

(* A row is compensated only when every later one, in the sequence of      *)
(* their creation, is, or was tried: also by a process that took an        *)
(* interrupted rollback over.                                              *)
THEOREM CompensatesInReverse == Spec => ReverseOrder
<1> DEFINE Ordered ==
      \A r \in Row :
        (steps[r].status # "COMPENSATED" /\ steps'[r].status = "COMPENSATED") =>
          \A q \in Used \ EmptyMessages :
            q > r => steps[q].status \in {"COMPENSATED", "COMPENSATION_FAILED"}
<1>1. ASSUME RollbackInv, [Next]_vars PROVE [Ordered]_vars
      BY <1>1, ReverseStep
<1>2. QED
      BY <1>1, AlwaysRollback, PTL DEF Spec, ReverseOrder

-----------------------------------------------------------------------------
(* The refinement of SagaLifecycle.                                        *)

(* The status of the saga that the newest grantee relies on.               *)
Expected(l) ==
  IF l \in {"plan", "commit", "execute", "run", "prepare", "calls", "escalate"} THEN {"ACTIVE"}
  ELSE IF l \in {"approve", "retry", "save"} THEN {"ACTIVE", "RECOVERY_REQUIRED"}
  ELSE IF l \in Unwinding THEN {"ROLLING_BACK"}
  ELSE IF l \in {"mark", "resume"} THEN SagaStatus \ Final
  ELSE SagaStatus

(* Its queue has only rows to compensate, and a rollback that is broken    *)
(* has a row to show for it.                                               *)
Listed(w) ==
  /\ \A r \in job[w].queue : steps[r].status \in Compensable
  /\ job[w].broken => \E r \in Row \ job[w].queue : steps[r].status = "COMPENSATION_FAILED"

LifeOK ==
  \A w \in Request :
    /\ current = w => saga \in Expected(pc[w])
    /\ (current = w /\ pc[w] \in Unwinding) => Listed(w)
    /\ pc[w] \notin Unwinding => ~job[w].broken

LifeInv == RollbackInv /\ LifeOK

-----------------------------------------------------------------------------
LEMMA LifeStep ==
  ASSUME LifeOK, NEW w \in Request, Frame(w), saga' = saga \/ current = w,
         current' = w => saga' \in Expected(pc'[w]),
         (current' = w /\ pc'[w] \in Unwinding) => Listed(w)',
         pc'[w] \notin Unwinding => ~job'[w].broken
  PROVE  LifeOK'
<1> SUFFICES ASSUME NEW v \in Request
             PROVE  /\ current' = v => saga' \in Expected(pc'[v])
                    /\ (current' = v /\ pc'[v] \in Unwinding) => Listed(v)'
                    /\ pc'[v] \notin Unwinding => ~job'[v].broken
    BY DEF LifeOK
<1>1. CASE v = w
      BY <1>1
<1>2. CASE v # w
  <2>1. pc'[v] = pc[v] /\ job'[v] = job[v] /\ (current' = v => current = v)
        BY <1>2 DEF Frame
  <2>2. current' = v => saga' = saga /\ steps' = steps
        BY <1>2, <2>1 DEF Frame
  <2>3. current' = v => saga' \in Expected(pc'[v])
        BY <2>1, <2>2 DEF LifeOK
  <2>4. (current' = v /\ pc'[v] \in Unwinding) => Listed(v)'
        BY <2>1, <2>2 DEF LifeOK, Listed
  <2>5. pc'[v] \notin Unwinding => ~job'[v].broken
        BY <2>1 DEF LifeOK
  <2>6. QED
        BY <2>3, <2>4, <2>5
<1>3. QED
      BY <1>1, <1>2

(* A step that leaves the rollbacks alone.                                 *)
LEMMA ForwardStep ==
  ASSUME LifeOK, NEW w \in Request, Frame(w), saga' = saga \/ current = w,
         current' = w => saga' \in Expected(pc'[w]),
         pc'[w] \notin Unwinding, ~job'[w].broken
  PROVE  LifeOK'
BY LifeStep

LEMMA NoJobNotBroken ==
  ~NoJob.broken /\ \A again : ~[NoJob EXCEPT !.again = again].broken
BY DEF NoJob

(* The request ends, in the middle of anything, or its block does.         *)
LEMMA EndLife ==
  ASSUME TypeInv, LifeOK, NEW w \in Request, NEW l \in {"idle", "down", "again"}, End(w, l)
  PROVE  LifeOK'
<1>1. /\ Frame(w) /\ saga' = saga /\ current' # w
      /\ pc'[w] = l /\ job'[w] = NoJob
      BY DEF End, Leave, Goto, journal, Frame, TypeInv, JobsOK
<1>2. l \notin Unwinding
      BY DEF Unwinding
<1>3. QED
      BY <1>1, <1>2, NoJobNotBroken, ForwardStep

LEMMA OperateLife ==
  ASSUME TypeInv, LifeOK, NEW w \in Request, Operate(w) PROVE LifeOK'
<1> USE DEF leaseVars, journal, Goto, Accepted
<1>0. /\ pc \in [Request -> Locals] /\ job \in [Request -> JobType]
      /\ saga \in SagaStatus
      BY DEF TypeInv, JobsOK, JournalOK
<1>a. job[w] \in JobType /\ (pc[w] \notin Unwinding => ~job[w].broken)
      BY <1>0 DEF LifeOK
<1>1. CASE Refuse(w)
      BY <1>1, EndLife DEF Refuse
<1>2. CASE PlanStep(w) \/ SaveEngine(w) \/ Commit(w)
  <2>1. Frame(w) /\ current = w /\ saga' \in SagaStatus /\ pc'[w] = "exit"
        BY <1>0, <1>2 DEF PlanStep, SaveEngine, Commit, Finish, Frame, SagaStatus, Final
  <2>2. ~job'[w].broken
        BY <1>0, <1>2, NoJobNotBroken DEF PlanStep, SaveEngine, Commit, Finish
  <2>3. QED
        BY <2>1, <2>2, ForwardStep DEF Expected, Unwinding
<1>3. ASSUME NEW n \in Node, ApproveStep(w, n) \/ RejectStep(w, n) \/ RetryStep(w, n)
      PROVE  LifeOK'
  <2>1. /\ Frame(w) /\ current = w /\ saga' \in {"ACTIVE", "RECOVERY_REQUIRED"}
        /\ pc'[w] = "save" /\ pc[w] \in {"approve", "retry"}
        BY <1>0, <1>3 DEF ApproveStep, RejectStep, RetryStep, Frame
  <2>2. job'[w].broken = job[w].broken
        BY <1>0, <1>a, <1>3 DEF ApproveStep, RejectStep, RetryStep, JobType
  <2>3. QED
        BY <1>a, <2>1, <2>2, ForwardStep DEF Expected, Unwinding
<1>4. QED
      BY <1>1, <1>2, <1>3 DEF Operate

LEMMA RunForwardLife ==
  ASSUME TypeInv, LifeOK, NEW w \in Request, RunForward(w) PROVE LifeOK'
<1> USE DEF leaseVars, journal, Goto, Accepted
<1>0. /\ pc \in [Request -> Locals] /\ job \in [Request -> JobType]
      /\ saga \in SagaStatus
      BY DEF TypeInv, JobsOK, JournalOK
<1>a. job[w] \in JobType /\ (pc[w] \notin Unwinding => ~job[w].broken)
      BY <1>0 DEF LifeOK
<1>b. (current = w /\ pc[w] \in {"execute", "run", "prepare", "calls", "escalate"})
        => saga = "ACTIVE"
      BY DEF LifeOK, Expected
<1>1. CASE NothingReady(w) \/ Spent(w) \/ Escalate(w)
  <2>1. /\ Frame(w) /\ saga' \in SagaStatus /\ pc'[w] = "exit"
        /\ saga' = saga \/ current = w
        BY <1>0, <1>1 DEF NothingReady, Spent, Escalate, Finish, Frame, SagaStatus, Failing
  <2>2. ~job'[w].broken
        BY <1>0, <1>1, NoJobNotBroken DEF NothingReady, Spent, Escalate, Finish
  <2>3. QED
        BY <2>1, <2>2, ForwardStep DEF Expected, Unwinding
<1>2. CASE Unresolved(w) \/ Abandon(w)
      BY <1>2, EndLife DEF Unresolved, Abandon
<1>3. CASE FormWave(w) \/ SaveWave(w) \/ SaveResults(w)
  <2>1. /\ Frame(w) /\ saga' = saga /\ current' = current
        /\ pc[w] \in {"run", "prepare", "calls"}
        /\ pc'[w] \in {"run", "prepare", "calls", "escalate"}
        BY <1>0, <1>3 DEF FormWave, SaveWave, SaveResults, Frame
  <2>2. job'[w].broken = job[w].broken
    <3>1. CASE FormWave(w)
      <4>1. PICK view, wave : job' = [job EXCEPT ![w] = [job[w] EXCEPT !.view = view, !.todo = wave]]
            BY <3>1 DEF FormWave
      <4>2. QED
            BY <1>0, <1>a, <4>1 DEF JobType
    <3>2. CASE SaveWave(w)
      <4>1. PICK b : job' = [job EXCEPT ![w] = [job[w] EXCEPT !.budget = b]]
            BY <3>2 DEF SaveWave
      <4>2. QED
            BY <1>0, <1>a, <4>1 DEF JobType
    <3>3. CASE SaveResults(w)
      <4>1. PICK view : job' = [job EXCEPT ![w] = [job[w] EXCEPT !.view = view]]
            BY <3>3 DEF SaveResults
      <4>2. QED
            BY <1>0, <1>a, <4>1 DEF JobType
    <3>4. QED
          BY <1>3, <3>1, <3>2, <3>3
  <2>3. QED
        BY <1>a, <1>b, <2>1, <2>2, ForwardStep DEF Expected, Unwinding
<1>4. ASSUME NEW r \in Row,
             \/ CreateStep(w, r) \/ \E n \in Node : PrepareNode(w, n, r)
             \/ StartCall(w, r) \/ CallSucceeds(w, r) \/ CallFails(w, r) \/ SettleRow(w, r)
      PROVE  LifeOK'
  <2>1. /\ Frame(w) /\ saga' = saga /\ current' = current
        /\ pc[w] \in {"execute", "prepare", "calls"}
        /\ pc'[w] \in {"prepare", "calls", "escalate", "exit"}
        BY <1>0, <1>4 DEF CreateStep, PrepareNode, StartCall, CallSucceeds, CallFails,
                          SettleRow, Frame
  <2>2. job'[w].broken = job[w].broken
    <3>1. CASE CreateStep(w, r) \/ StartCall(w, r) \/ CallSucceeds(w, r) \/ CallFails(w, r)
      <4>1. PICK calls : job' = [job EXCEPT ![w] = [job[w] EXCEPT !.calls = calls]]
            BY <3>1 DEF CreateStep, StartCall, CallSucceeds, CallFails
      <4>2. QED
            BY <1>0, <1>a, <4>1 DEF JobType
    <3>2. CASE \E n \in Node : PrepareNode(w, n, r)
      <4>1. PICK n \in Node : PrepareNode(w, n, r)
            BY <3>2
      <4> DEFINE j == [job[w] EXCEPT !.todo = @ \ {n}, !.calls[r] = "due",
                         !.view[n] = [@ EXCEPT !.status = "EXECUTING", !.step = r]]
      <4>2. job' = [job EXCEPT ![w] = j]
            BY <4>1 DEF PrepareNode
      <4>3. j.broken = job[w].broken
            BY <1>a DEF JobType
      <4>4. QED
            BY <1>0, <4>2, <4>3
    <3>3. CASE SettleRow(w, r)
      <4> DEFINE ok == job[w].calls[r] = "ok"
                 view == [m \in Node |-> IF m = steps[r].node THEN AfterCall(job[w].view[m], ok)
                                         ELSE job[w].view[m]]
                 failed == IF ok THEN job[w].failed ELSE job[w].failed \cup {steps[r].mode}
                 j == [job[w] EXCEPT !.calls[r] = "none", !.failed = failed, !.view = view]
      <4>1. job' = [job EXCEPT ![w] = j]
            BY <3>3 DEF SettleRow
      <4>2. j.broken = job[w].broken
        <5> HIDE DEF view, failed, ok
        <5>1. QED
              BY <1>a DEF JobType
      <4>3. QED
            BY <1>0, <4>1, <4>2
    <3>4. QED
          BY <1>4, <3>1, <3>2, <3>3
  <2>3. QED
        BY <1>0, <1>a, <1>b, <2>1, <2>2, ForwardStep DEF Expected, Unwinding
<1>5. QED
      BY <1>1, <1>2, <1>3, <1>4 DEF RunForward

LEMMA RecoverLife ==
  ASSUME TypeInv, LifeOK, NEW w \in Request, Recover(w) PROVE LifeOK'
<1> USE DEF leaseVars, journal, Goto, Accepted
<1>0. /\ pc \in [Request -> Locals] /\ job \in [Request -> JobType]
      /\ saga \in SagaStatus
      BY DEF TypeInv, JobsOK, JournalOK
<1>1. CASE EscalateToOperator(w)
  <2>1. Frame(w) /\ current = w /\ saga' \in SagaStatus /\ pc'[w] = "exit"
        BY <1>0, <1>1 DEF EscalateToOperator, Finish, Frame, SagaStatus
  <2>2. ~job'[w].broken
        BY <1>0, <1>1, NoJobNotBroken DEF EscalateToOperator, Finish
  <2>3. QED
        BY <2>1, <2>2, ForwardStep DEF Expected, Unwinding
<1>2. CASE ResumeRollback(w)
  <2>1. /\ Frame(w) /\ saga' = saga /\ job' = job /\ pc[w] = "resume"
        /\ pc'[w] = IF saga \notin Final THEN "mark" ELSE "exit"
        BY <1>0, <1>2 DEF ResumeRollback, Admitted, Frame
  <2>2. ~job'[w].broken
        BY <2>1 DEF LifeOK, Unwinding
  <2>3. QED
        BY <1>0, <2>1, <2>2, ForwardStep DEF Expected, Unwinding
<1>3. CASE StaleClaim(w)
      BY <1>3, EndLife DEF StaleClaim
<1>4. QED
      BY <1>1, <1>2, <1>3 DEF Recover

LEMMA UnwindLife ==
  ASSUME TypeInv, QueueOK, LifeOK, NEW w \in Request, Unwind(w) PROVE LifeOK'
<1> USE DEF leaseVars, journal, Goto, Accepted
<1>0. /\ pc \in [Request -> Locals] /\ job \in [Request -> JobType]
      /\ saga \in SagaStatus /\ steps \in [Row -> RowType]
      BY DEF TypeInv, JobsOK, JournalOK
<1>a. job[w] \in JobType /\ (pc[w] \notin Unwinding => ~job[w].broken)
      BY <1>0 DEF LifeOK
<1>b. (current = w /\ pc[w] \in Unwinding) => saga = "ROLLING_BACK" /\ Listed(w)
      BY DEF LifeOK, Expected, Unwinding
<1>1. CASE Rejoin(w)
  <2>1. /\ Frame(w) /\ saga' = saga /\ job' = job /\ pc[w] = "again"
        /\ pc'[w] = IF saga \notin Final THEN "mark" ELSE "exit"
        BY <1>0, <1>1 DEF Rejoin, Grant, Admitted, Frame
  <2>2. QED
        BY <1>0, <1>a, <2>1, ForwardStep DEF Expected, Unwinding
<1>2. CASE Busy(w)
  <2>1. /\ Frame(w) /\ saga' = saga /\ job' = job /\ pc[w] = "again" /\ pc'[w] = "idle"
        BY <1>0, <1>2 DEF Busy, Frame
  <2>2. QED
        BY <1>0, <1>a, <2>1, ForwardStep DEF Expected, Unwinding
<1>3. CASE FinishRollback(w)
  <2>1. Frame(w) /\ current = w /\ saga' \in SagaStatus /\ pc'[w] = "exit"
        BY <1>0, <1>3 DEF FinishRollback, Finish, Frame, SagaStatus, Failing, Final
  <2>2. ~job'[w].broken
        BY <1>0, <1>3, NoJobNotBroken DEF FinishRollback, Finish
  <2>3. QED
        BY <2>1, <2>2, ForwardStep DEF Expected, Unwinding
<1>4. CASE MarkRollingBack(w)
  <2>1. /\ Frame(w) /\ current = w /\ saga' = "ROLLING_BACK" /\ steps' = steps
        /\ pc[w] = "mark" /\ pc'[w] = "undo"
        BY <1>0, <1>4 DEF MarkRollingBack, Frame
  <2>2. /\ job'[w].queue = {r \in Row : steps[r].status \in Compensable}
        /\ job'[w].broken = job[w].broken
        BY <1>0, <1>a, <1>4 DEF MarkRollingBack, JobType
  <2>3. Listed(w)'
        BY <1>a, <2>1, <2>2 DEF Listed, Unwinding
  <2>4. QED
        BY <2>1, <2>3, LifeStep DEF Expected, Unwinding
<1>5. CASE StartUndo(w) \/ \E r \in Row : UndoSucceeds(w, r) \/ UndoFails(w, r)
  <2>1. /\ Frame(w) /\ saga' = saga /\ job' = job /\ steps' = steps /\ current' = current
        /\ pc[w] \in Unwinding /\ pc'[w] \in Unwinding
        BY <1>0, <1>5 DEF StartUndo, UndoSucceeds, UndoFails, Frame, Unwinding
  <2>2. (current' = w) => Listed(w)'
        BY <1>b, <2>1 DEF Listed
  <2>3. QED
        BY <1>b, <2>1, <2>2, LifeStep DEF Expected, Unwinding
<1>6. ASSUME NEW r \in Row, UndoLost(w, r) PROVE LifeOK'
  <2>1. Frame(w) /\ saga' = saga /\ current' # w /\ pc'[w] = "idle" /\ job'[w] = NoJob
        BY <1>0, <1>6 DEF UndoLost, Leave, Frame
  <2>2. QED
        BY <2>1, NoJobNotBroken, ForwardStep DEF Unwinding
<1>7. ASSUME NEW r \in Row, RecordUndo(w, r) \/ RecordFailure(w, r) \/ PassOver(w, r)
      PROVE  LifeOK'
  <2>1. /\ Frame(w) /\ saga' = saga /\ current' = current
        /\ pc[w] \in Unwinding /\ pc'[w] = "undo" /\ r \in job[w].queue
        BY <1>0, <1>7 DEF RecordUndo, RecordFailure, PassOver, Newest, Frame, Unwinding
  <2>2. job'[w].queue = job[w].queue \ {r}
        BY <1>0, <1>a, <1>7 DEF RecordUndo, RecordFailure, PassOver, JobType
  <2>3. \A q \in Row \ {r} : steps'[q] = steps[q]
        BY <1>0, <1>7 DEF RecordUndo, RecordFailure, PassOver
  <2>4. \/ job'[w].broken = job[w].broken
        \/ steps'[r].status = "COMPENSATION_FAILED"
        BY <1>0, <1>a, <1>7 DEF RecordUndo, RecordFailure, PassOver, JobType, RowType
  <2>5. job[w].queue \in SUBSET Row
        BY <1>a DEF JobType
  <2>6. (current' = w) => Listed(w)'
    <3> SUFFICES ASSUME current' = w PROVE Listed(w)'
        OBVIOUS
    <3>1. Listed(w)
          BY <1>b, <2>1
    <3>2. \A q \in job'[w].queue : steps'[q].status \in Compensable
          BY <2>2, <2>3, <2>5, <3>1 DEF Listed
    <3>3. ASSUME job'[w].broken
          PROVE  \E q \in Row \ job'[w].queue : steps'[q].status = "COMPENSATION_FAILED"
      <4>1. CASE steps'[r].status = "COMPENSATION_FAILED"
            BY <2>2, <4>1
      <4>2. CASE job'[w].broken = job[w].broken
        <5>1. PICK q \in Row \ job[w].queue : steps[q].status = "COMPENSATION_FAILED"
              BY <3>1, <3>3, <4>2 DEF Listed
        <5>2. QED
              BY <2>1, <2>2, <2>3, <5>1
      <4>3. QED
            BY <2>4, <4>1, <4>2
    <3>4. QED
          BY <3>2, <3>3 DEF Listed
  <2>7. QED
        BY <1>b, <2>1, <2>6, LifeStep DEF Expected, Unwinding
<1>8. QED
      BY <1>1, <1>2, <1>3, <1>4, <1>5, <1>6, <1>7 DEF Unwind

LEMMA LifeNext ==
  ASSUME TypeInv, QueueOK, LifeOK, [Next]_vars PROVE LifeOK'
<1> USE DEF leaseVars, journal, Goto
<1>0. /\ pc \in [Request -> Locals] /\ job \in [Request -> JobType] /\ saga \in SagaStatus
      BY DEF TypeInv, JobsOK, JournalOK
<1>1. ASSUME NEW w \in Request, Work(w) PROVE LifeOK'
  <2>1. CASE Exit(w) \/ CheckFails(w) \/ StaleWrite(w)
        BY <2>1, EndLife DEF Exit, CheckFails, StaleWrite
  <2>2. QED
        BY <1>1, <2>1, OperateLife, RunForwardLife, UnwindLife, RecoverLife DEF Work
<1>2. ASSUME NEW w \in Request, NEW op \in Ops, NEW budget, NEW par,
             Begin(w, op, budget, par)
      PROVE  LifeOK'
  <2>1. /\ Frame(w) /\ saga' = saga
        /\ pc'[w] = IF ~Admitted(op) THEN "exit" ELSE IF op = "rollback" THEN "mark" ELSE op
        BY <1>0, <1>2 DEF Begin, Grant, Frame
  <2>2. op \in Operations
        BY OpsAssumption DEF OpsAssumption
  <2>3. saga \in Expected(pc'[w]) /\ pc'[w] \notin Unwinding
        BY <1>0, <2>1, <2>2 DEF Admitted, Operations, Expected, Unwinding
  <2>4. ~job'[w].broken
        BY <1>0, <1>2 DEF Begin, NoJob
  <2>5. QED
        BY <2>1, <2>3, <2>4, ForwardStep
<1>3. ASSUME NEW w \in Request, Claim(w) \/ NothingToClaim(w) PROVE LifeOK'
  <2>1. /\ Frame(w) /\ saga' = saga /\ job' = job /\ pc[w] = "down"
        /\ pc'[w] \in {"resume", "idle"}
        /\ pc'[w] = "resume" => saga \notin Final
        BY <1>0, <1>3 DEF Claim, Grant, NothingToClaim, Pending, Failing, Final, Frame
  <2>2. ~job'[w].broken
        BY <2>1 DEF LifeOK, Unwinding
  <2>3. QED
        BY <1>0, <2>1, <2>2, ForwardStep DEF Expected, Unwinding
<1>4. ASSUME NEW w \in Request, Crash(w) PROVE LifeOK'
  <2>1. Frame(w) /\ saga' = saga /\ pc'[w] = "down" /\ job'[w] = NoJob
        BY <1>0, <1>4 DEF Crash, Die, Frame
  <2>2. QED
        BY <1>0, <2>1, NoJobNotBroken, ForwardStep DEF Expected, Unwinding
<1>5. CASE UNCHANGED vars \/ ExpireLease \/ \E w \in Request : HeartbeatFails(w)
  <2>1. UNCHANGED <<current, saga, steps, pc, job>>
        BY <1>5 DEF vars, ExpireLease, Lapse, HeartbeatFails, Notice
  <2>2. QED
        BY <2>1 DEF LifeOK, Listed
<1>6. QED
      BY <1>1, <1>2, <1>3, <1>4, <1>5 DEF Next

LEMMA InitLife == Init => LifeInv
<1> SUFFICES ASSUME Init PROVE LifeInv
    OBVIOUS
<1>1. LifeOK
      BY NoJobNotBroken DEF Init, FLInit, LifeOK, Expected, Unwinding, SagaStatus
<1>2. QED
      BY <1>1, InitRollback DEF LifeInv

LEMMA AlwaysLife == Spec => []LifeInv
<1>1. LifeInv /\ [Next]_vars => LifeInv'
      BY RollbackStep, LifeNext DEF LifeInv, RollbackInv
<1>2. QED
      BY <1>1, InitLife, PTL DEF Spec

-----------------------------------------------------------------------------
(* Every step is one of the lifecycle, or a stutter.                       *)

LEMMA Stutter ==
  ASSUME saga' = saga, \A r \in Row : Progress(steps'[r].status) = Progress(steps[r].status)
  PROVE  UNCHANGED Life!lifeVars
BY DEF Life!lifeVars

LEMMA StutterSame ==
  ASSUME saga' = saga, steps' = steps PROVE UNCHANGED Life!lifeVars
BY DEF Life!lifeVars

(* What becomes of one row, seen from the lifecycle.                       *)
LEMMA RowStep ==
  ASSUME NEW r \in Row, NEW v, Progress(steps'[r].status) = v,
         \A q \in Row \ {r} : steps'[q] = steps[q]
  PROVE  [q \in Row |-> Progress(steps'[q].status)]
           = [[q \in Row |-> Progress(steps[q].status)] EXCEPT ![r] = v]
OBVIOUS

LEMMA OperateMaps ==
  ASSUME LifeInv, NEW w \in Request, Operate(w) PROVE [Life!LNext]_(Life!lifeVars)
<1>0. current = w => saga \in Expected(pc[w])
      BY DEF LifeInv, LifeOK
<1>1. CASE Refuse(w) \/ PlanStep(w) \/ SaveEngine(w)
      BY <1>1, StutterSame DEF Refuse, End, PlanStep, SaveEngine, journal
<1>2. CASE Commit(w)
  <2>1. Life!Commit
        BY <1>0, <1>2 DEF Commit, Accepted, Expected, Life!Commit
  <2>2. QED
        BY <2>1 DEF Life!LNext
<1>3. ASSUME NEW n \in Node, ApproveStep(w, n) \/ RejectStep(w, n) \/ RetryStep(w, n)
      PROVE  [Life!LNext]_(Life!lifeVars)
  <2>1. /\ saga \in {"ACTIVE", "RECOVERY_REQUIRED"} /\ steps' = steps
        /\ saga' \in {"ACTIVE", "RECOVERY_REQUIRED"}
        BY <1>0, <1>3 DEF ApproveStep, RejectStep, RetryStep, Accepted, Expected
  <2>2. Life!Decide
        BY <2>1 DEF Life!Decide
  <2>3. QED
        BY <2>2 DEF Life!LNext
<1>4. QED
      BY <1>1, <1>2, <1>3 DEF Operate

LEMMA RunForwardMaps ==
  ASSUME LifeInv, NEW w \in Request, RunForward(w) PROVE [Life!LNext]_(Life!lifeVars)
<1>0. /\ current = w => saga \in Expected(pc[w])
      /\ steps \in [Row -> RowType]
      BY DEF LifeInv, LifeOK, RollbackInv, TypeInv, JournalOK
<1>1. CASE FormWave(w) \/ NothingReady(w) \/ Spent(w) \/ Unresolved(w) \/ SaveWave(w)
           \/ Abandon(w) \/ SaveResults(w)
      BY <1>1, StutterSame DEF FormWave, NothingReady, Spent, Unresolved, SaveWave, Abandon,
                               SaveResults, End, journal
<1>2. CASE Escalate(w)
  <2>1. saga = "ACTIVE" /\ saga' \in {"FAILED", "RECOVERY_REQUIRED"} /\ steps' = steps
        BY <1>0, <1>2 DEF Escalate, Accepted, Expected
  <2>2. Life!Fail \/ Life!HandOver
        BY <2>1 DEF Life!Fail, Life!HandOver, Life!Closed
  <2>3. QED
        BY <2>2 DEF Life!LNext
<1>3. ASSUME NEW r \in Row, StartCall(w, r) \/ CallSucceeds(w, r) \/ CallFails(w, r)
      PROVE  [Life!LNext]_(Life!lifeVars)
      BY <1>3, StutterSame DEF StartCall, CallSucceeds, CallFails, journal
<1>4. ASSUME NEW r \in Row,
             CreateStep(w, r) \/ SettleRow(w, r) \/ \E n \in Node : PrepareNode(w, n, r)
      PROVE  [Life!LNext]_(Life!lifeVars)
  <2>1. saga = "ACTIVE" /\ saga' = saga
        BY <1>0, <1>4 DEF CreateStep, SettleRow, PrepareNode, Accepted, Expected
  <2>2. /\ \A q \in Row \ {r} : steps'[q] = steps[q]
        /\ steps'[r].status \in {"EXECUTING", "COMPLETED", "FAILED"}
    <3>1. CASE CreateStep(w, r)
          BY <1>0, <3>1 DEF CreateStep, RowType
    <3>2. CASE SettleRow(w, r)
          BY <1>0, <3>2 DEF SettleRow, RowType
    <3>3. ASSUME NEW n \in Node, PrepareNode(w, n, r)
          PROVE  /\ \A q \in Row \ {r} : steps'[q] = steps[q]
                 /\ steps'[r].status \in {"EXECUTING", "COMPLETED", "FAILED"}
          BY <1>0, <3>3 DEF PrepareNode, RowType
    <3>4. QED
          BY <1>4, <3>1, <3>2, <3>3
  <2>3. Progress(steps'[r].status) = "open"
        BY <2>2 DEF Progress
  <2>4. Life!Proceed(r)
        BY <2>1, <2>2, <2>3, RowStep DEF Life!Proceed
  <2>5. QED
        BY <2>4 DEF Life!LNext
<1>5. QED
      BY <1>1, <1>2, <1>3, <1>4 DEF RunForward

LEMMA UnwindMaps ==
  ASSUME LifeInv, NEW w \in Request, Unwind(w) PROVE [Life!LNext]_(Life!lifeVars)
<1>0. /\ current = w => saga \in Expected(pc[w])
      /\ (current = w /\ pc[w] \in Unwinding) => Listed(w) /\ Settled(w)
      /\ steps \in [Row -> RowType] /\ job[w] \in JobType
      BY DEF LifeInv, LifeOK, RollbackInv, TypeInv, JournalOK, JobsOK, QueueOK
<1>1. CASE Rejoin(w) \/ Busy(w) \/ StartUndo(w)
      BY <1>1, StutterSame DEF Rejoin, Busy, StartUndo, journal
<1>2. CASE MarkRollingBack(w)
  <2>1. Life!StartRollback
        BY <1>0, <1>2 DEF MarkRollingBack, Accepted, Expected, Unwinding, Final,
                          Life!StartRollback, Life!Closed
  <2>2. QED
        BY <2>1 DEF Life!LNext
<1>3. ASSUME NEW r \in Row,
             UndoSucceeds(w, r) \/ UndoFails(w, r) \/ UndoLost(w, r) \/ PassOver(w, r)
      PROVE  [Life!LNext]_(Life!lifeVars)
      BY <1>3, StutterSame DEF UndoSucceeds, UndoFails, UndoLost, PassOver, journal
<1>4. ASSUME NEW r \in Row, RecordUndo(w, r) \/ RecordFailure(w, r)
      PROVE  [Life!LNext]_(Life!lifeVars)
  <2>1. /\ current = w /\ pc[w] \in Unwinding /\ saga' = saga
        /\ r \in job[w].queue /\ \A q \in job[w].queue : q <= r
        BY <1>4 DEF RecordUndo, RecordFailure, Accepted, Newest, Unwinding
  <2>2. saga = "ROLLING_BACK" /\ Listed(w) /\ Settled(w)
        BY <1>0, <2>1 DEF Expected, Unwinding
  <2>3. /\ \A q \in Row \ {r} : steps'[q] = steps[q]
        /\ steps'[r].status \in {"COMPENSATED", "COMPENSATION_FAILED"}
        BY <1>0, <1>4 DEF RecordUndo, RecordFailure, RowType
  <2>4. Progress(steps'[r].status) \in {"undone", "stuck"}
        BY <2>3 DEF Progress
  <2>5. Progress(steps[r].status) \in {"open", "stuck"}
        BY <2>1, <2>2 DEF Listed, Compensable, Progress
  <2>6. ASSUME NEW q \in Row \ EmptyMessages, q > r
        PROVE  Progress(steps[q].status) \in {"unused", "undone", "stuck"}
    <3>1. q \notin job[w].queue
          BY <2>1, <2>6, WorkflowAssumption DEF WorkflowAssumption
    <3>2. steps[q].status \in {"UNUSED", "COMPENSATED", "COMPENSATION_FAILED"}
          BY <2>2, <3>1 DEF Settled
    <3>3. QED
          BY <3>2 DEF Progress
  <2>7. Life!LaterTried(r)
        BY <2>6 DEF Life!LaterTried
  <2>8. Life!Undo(r)
        BY <2>1, <2>2, <2>3, <2>4, <2>5, <2>7, RowStep DEF Life!Undo
  <2>9. QED
        BY <2>8 DEF Life!LNext
<1>5. CASE FinishRollback(w)
  <2>1. /\ current = w /\ pc[w] \in Unwinding /\ job[w].queue = {} /\ steps' = steps
        /\ saga' = IF job[w].broken THEN "ROLLBACK_FAILED" ELSE "ROLLED_BACK"
        BY <1>5 DEF FinishRollback, Accepted, Unwinding
  <2>2. saga = "ROLLING_BACK" /\ Listed(w) /\ Settled(w)
        BY <1>0, <2>1 DEF Expected, Unwinding
  <2>3. job[w].broken => \E r \in Row : Progress(steps[r].status) = "stuck"
        BY <2>2 DEF Listed, Progress
  <2>4. ~job[w].broken => \A r \in Row \ EmptyMessages :
                            Progress(steps[r].status) \in {"unused", "undone"}
        BY <2>1, <2>2 DEF Settled, Progress
  <2>5. Life!EndRollback
        BY <2>1, <2>2, <2>3, <2>4 DEF Life!EndRollback
  <2>6. QED
        BY <2>5 DEF Life!LNext
<1>6. QED
      BY <1>1, <1>2, <1>3, <1>4, <1>5 DEF Unwind

LEMMA RecoverMaps ==
  ASSUME LifeInv, NEW w \in Request, Recover(w) PROVE [Life!LNext]_(Life!lifeVars)
<1>1. CASE ResumeRollback(w) \/ StaleClaim(w)
      BY <1>1, StutterSame DEF ResumeRollback, StaleClaim, End, journal
<1>2. CASE EscalateToOperator(w)
  <2>1. saga \notin Final /\ saga' = "RECOVERY_REQUIRED" /\ steps' = steps
        BY <1>2 DEF EscalateToOperator, Accepted, LifeInv, LifeOK, Expected, Unwinding
  <2>2. Life!HandOver
        BY <2>1 DEF Life!HandOver, Life!Closed, Final
  <2>3. QED
        BY <2>2 DEF Life!LNext
<1>3. QED
      BY <1>1, <1>2 DEF Recover

LEMMA StepMaps ==
  ASSUME LifeInv, [Next]_vars PROVE [Life!LNext]_(Life!lifeVars)
<1>1. ASSUME NEW w \in Request, Work(w) PROVE [Life!LNext]_(Life!lifeVars)
  <2>1. CASE Exit(w) \/ CheckFails(w) \/ StaleWrite(w)
        BY <2>1, StutterSame DEF Exit, CheckFails, StaleWrite, End, journal
  <2>2. QED
        BY <1>1, <2>1, OperateMaps, RunForwardMaps, UnwindMaps, RecoverMaps DEF Work
<1>2. ASSUME NEW w \in Request, NEW op, NEW budget, NEW par,
             \/ Begin(w, op, budget, par) \/ HeartbeatFails(w) \/ Crash(w) \/ Claim(w)
             \/ NothingToClaim(w)
      PROVE  [Life!LNext]_(Life!lifeVars)
      BY <1>2, StutterSame DEF Begin, HeartbeatFails, Crash, Claim, NothingToClaim, journal
<1>3. CASE UNCHANGED vars \/ ExpireLease
      BY <1>3, StutterSame DEF vars, ExpireLease, journal
<1>4. QED
      BY <1>1, <1>2, <1>3 DEF Next

LEMMA InitMaps == Init => Life!LInit
  BY DEF Init, UnusedRow, Progress, Life!LInit

(* Whatever its processes do, at whatever moment they die or are           *)
(* overtaken, a saga moves as SagaLifecycle says.                          *)
THEOREM LifecycleRefinement == Spec => ImplementsLifecycle
<1>1. LifeInv /\ [Next]_vars => [Life!LNext]_(Life!lifeVars)
      BY StepMaps
<1>2. QED
      BY <1>1, InitMaps, AlwaysLife, PTL DEF Spec, ImplementsLifecycle, Life!LSpec
=============================================================================
