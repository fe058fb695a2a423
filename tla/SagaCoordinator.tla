--------------------------- MODULE SagaCoordinator ---------------------------
(***************************************************************************)
(* Coordinator (coordinator.py) on one saga: the operations that several   *)
(* worker processes run on its journal, one store transaction, external    *)
(* call or lease event per step, with processes that stall and die between *)
(* any two of them, and the recovery pass of a process that starts.        *)
(*                                                                         *)
(* A request stands for the process that serves it.  Leases and tokens are *)
(* those of FencedLease, which SagaLease implements: a journal write is    *)
(* accepted from the newest grantee alone, whatever the others believe.    *)
(***************************************************************************)
EXTENDS SagaWorkflow, FencedLease

CONSTANTS
  Ops,             \* the operations that are called
  Gates,           \* values of approval_required that are planned
  FailureModes,    \* failure modes of the actions in use
  Stalls,          \* may a process lose its lease while it works?
  EmptyMessages,   \* rows whose compensation may fail with an empty message
  RegistryDrift    \* may a snapshot be unknown to the registry at use?

Operations == {"plan", "approve", "retry", "commit", "execute", "run", "rollback"}

ASSUME OpsAssumption == Ops \subseteq Operations

ASSUME CoordinatorAssumption ==
  /\ Stalls \in BOOLEAN /\ EmptyMessages \subseteq Row /\ RegistryDrift \in BOOLEAN
  /\ Gates \subseteq BOOLEAN /\ FailureModes \subseteq Modes
  /\ IsFiniteSet(Node) /\ IsFiniteSet(Row)

VARIABLES
  saga,      \* status of the saga
  nodes,     \* its persisted workflow
  steps,     \* its step rows; a row's number is its sequence
  pc, job,   \* where each process is in its request, and the request's locals
  applied    \* rows whose forward effect stands in the world (history)

journal == <<saga, nodes, steps>>
vars == <<live, current, guard, saga, nodes, steps, pc, job, applied>>

Final == {"COMMITTED", "ROLLED_BACK"}
Failing == {"FAILED", "ROLLING_BACK", "ROLLBACK_FAILED"}
SagaStatus == {"ACTIVE", "RECOVERY_REQUIRED"} \cup Failing \cup Final

(* Mutants: steps whose outcome is uncertain, or that failed, left alone.  *)
CompensableIfCertain == {"COMPLETED", "FAILED", "COMPENSATION_FAILED"}
CompensableIfDone == {"COMPLETED", "EXECUTING", "COMPENSATION_FAILED"}

Compensable == {"COMPLETED", "EXECUTING", "FAILED", "COMPENSATION_FAILED"}
RowStatus == {"UNUSED", "EXECUTING", "COMPLETED", "FAILED", "COMPENSATED",
              "COMPENSATION_FAILED"}
RowType == [status : RowStatus, node : Node \cup {0}, mode : Modes]
UnusedRow == [status |-> "UNUSED", node |-> 0, mode |-> "rollback"]

Locals == {"down", "idle", "plan", "approve", "retry", "commit", "execute", "run",
           "save", "prepare", "calls", "escalate", "exit", "again", "mark", "undo",
           "undoing", "undone", "unfixed", "resume"}
CallPhase == {"none", "due", "flight", "ok", "bad", "lost"}

JobType ==
  [view : [Node -> NodeType],         \* the workflow in memory
   budget : Nat, par : Nat,           \* max_steps and max_parallel
   todo : SUBSET Node,                \* of the wave, not prepared yet
   calls : [Row -> CallPhase],        \* forward calls of the wave, or the step
   failed : SUBSET Modes,             \* failure modes met in the wave
   again : BOOLEAN,                   \* a rollback follows
   queue : SUBSET Row,                \* rows left to compensate
   broken : BOOLEAN]                  \* a compensation failed

NoJob ==
  [view |-> [n \in Node |-> Unplanned], budget |-> 0, par |-> 1, todo |-> {},
   calls |-> [r \in Row |-> "none"], failed |-> {}, again |-> FALSE,
   queue |-> {}, broken |-> FALSE]

TypeOK ==
  /\ FLTypeOK
  /\ saga \in SagaStatus
  /\ nodes \in [Node -> NodeType]
  /\ steps \in [Row -> RowType]
  /\ pc \in [Request -> Locals]
  /\ job \in [Request -> JobType]
  /\ applied \in SUBSET Row

(* A saga just begun, with the processes up.                               *)
Init ==
  /\ FLInit
  /\ saga = "ACTIVE"
  /\ nodes = [n \in Node |-> Unplanned]
  /\ steps = [r \in Row |-> UnusedRow]
  /\ pc = [w \in Request |-> "idle"]
  /\ job = [w \in Request |-> NoJob]
  /\ applied = {}

-----------------------------------------------------------------------------
Used == {r \in Row : steps[r].status # "UNUSED"}
NewRow(r) == r \in Row \ Used /\ \A q \in Row \ Used : r <= q
InPhase(w, S) == {r \in Row : job[w].calls[r] \in S}

Goto(w, l) == pc' = [pc EXCEPT ![w] = l]

(* The guarded block has done its last write; a rollback may follow.       *)
Finish(w, again) ==
  /\ Goto(w, "exit")
  /\ job' = [job EXCEPT ![w] = [NoJob EXCEPT !.again = again]]

(* The request ends in an error or a result; its guard is left.            *)
End(w, l) ==
  /\ Leave(w)
  /\ Goto(w, l)
  /\ job' = [job EXCEPT ![w] = NoJob]
  /\ UNCHANGED <<journal, applied>>

(* Mutant: a rollback asked for twice.                                     *)
AdmittedTwice(op) ==
  CASE op \in {"approve", "retry"} -> saga \in {"ACTIVE", "RECOVERY_REQUIRED"}
    [] op = "rollback" -> saga # "COMMITTED"
    [] OTHER -> saga = "ACTIVE"

Admitted(op) ==
  CASE op \in {"approve", "retry"} -> saga \in {"ACTIVE", "RECOVERY_REQUIRED"}
    [] op = "rollback" -> saga \notin Final
    [] OTHER -> saga = "ACTIVE"

(* MaxRows: forward work is started only when every row it can need exists.*)
Room(op) ==
  CASE op = "run" -> Cardinality({n \in Planned(nodes) : nodes[n].step = 0})
                       <= Cardinality(Row \ Used)
    [] op = "execute" -> Row # Used
    [] OTHER -> TRUE

(* The lease is granted and the saga read.                                 *)
Begin(w, op, budget, par) ==
  /\ pc[w] = "idle"
  /\ Room(op)
  /\ Grant(w)
  /\ Goto(w, IF ~Admitted(op) THEN "exit" ELSE IF op = "rollback" THEN "mark" ELSE op)
  /\ job' = [job EXCEPT ![w] = [NoJob EXCEPT !.view = nodes, !.budget = budget, !.par = par]]
  /\ UNCHANGED <<journal, applied>>

AllCompleted(view) == \A n \in Planned(view) : view[n].status = "COMPLETED"

(* Arguments that do not fit the saga: unknown action, node or dependency, *)
(* a node in the wrong status, incomplete nodes at a commit.               *)
Refuse(w) ==
  /\ \/ pc[w] \in {"plan", "approve", "retry", "execute"}
     \/ pc[w] = "commit" /\ ~AllCompleted(job[w].view)
  /\ End(w, "idle")

PlanStep(w) ==
  /\ pc[w] = "plan" /\ Accepted(w)
  /\ \E n \in Node \ Planned(job[w].view), gated \in Gates, mode \in FailureModes :
       \E deps \in SUBSET Planned(job[w].view) :
         nodes' \in Refreshes([job[w].view EXCEPT ![n] = NewNode(deps, gated, mode)], n)
  /\ Finish(w, FALSE)
  /\ UNCHANGED <<saga, steps, applied, leaseVars>>

(* The decisions of an operator: the saga's status is written first, then  *)
(* the workflow.                                                           *)
ApproveStep(w, n) ==
  /\ pc[w] = "approve" /\ Accepted(w)
  /\ Approvable(job[w].view[n])
  /\ saga' = "ACTIVE"
  /\ job' = [job EXCEPT ![w].view[n] = AfterApproval(@, job[w].view)]
  /\ Goto(w, "save")
  /\ UNCHANGED <<nodes, steps, applied, leaseVars>>

RejectStep(w, n) ==
  /\ pc[w] = "approve" /\ Accepted(w)
  /\ Approvable(job[w].view[n])
  /\ saga' = "RECOVERY_REQUIRED"
  /\ job' = [job EXCEPT ![w].view[n] = AfterRejection(@)]
  /\ Goto(w, "save")
  /\ UNCHANGED <<nodes, steps, applied, leaseVars>>

RetryStep(w, n) ==
  /\ pc[w] = "retry" /\ Accepted(w)
  /\ \E force \in BOOLEAN : Retryable(job[w].view[n], force)
  /\ saga' = "ACTIVE"
  /\ \E view \in Refreshes([job[w].view EXCEPT ![n] = AfterRetry(@, job[w].view)], 0) :
       job' = [job EXCEPT ![w].view = view]
  /\ Goto(w, "save")
  /\ UNCHANGED <<nodes, steps, applied, leaseVars>>

SaveEngine(w) ==
  /\ pc[w] = "save" /\ Accepted(w)
  /\ nodes' = job[w].view
  /\ Finish(w, FALSE)
  /\ UNCHANGED <<saga, steps, applied, leaseVars>>

Commit(w) ==
  /\ pc[w] = "commit" /\ guard[w] = "in" /\ Accepted(w)
  /\ AllCompleted(job[w].view)
  /\ saga' = "COMMITTED"
  /\ Finish(w, FALSE)
  /\ UNCHANGED <<nodes, steps, applied, leaseVars>>

(* execute: the intent of a step outside the workflow.                     *)
CreateStep(w, r) ==
  /\ pc[w] = "execute" /\ Accepted(w)
  /\ NewRow(r)
  /\ \E mode \in FailureModes :
       steps' = [steps EXCEPT ![r] = [status |-> "EXECUTING", node |-> 0, mode |-> mode]]
  /\ job' = [job EXCEPT ![w].calls[r] = "due"]
  /\ Goto(w, "calls")
  /\ UNCHANGED <<saga, nodes, applied, leaseVars>>

-----------------------------------------------------------------------------
(* run_ready_steps, wave by wave.                                          *)

FormWave(w) ==
  /\ pc[w] = "run" /\ job[w].budget > 0
  /\ \E view \in Refreshes(job[w].view, 0) :
       \E wave \in Waves(view, IF job[w].par < job[w].budget
                               THEN job[w].par ELSE job[w].budget) :
         job' = [job EXCEPT ![w].view = view, ![w].todo = wave]
  /\ Goto(w, "prepare")
  /\ UNCHANGED <<journal, applied, leaseVars>>

NothingReady(w) ==
  /\ pc[w] = "run" /\ job[w].budget > 0 /\ Accepted(w)
  /\ nodes' \in Refreshes(job[w].view, 0)
  /\ InStatus(nodes', {"READY"}) = {}
  /\ Finish(w, FALSE)
  /\ UNCHANGED <<saga, steps, applied, leaseVars>>

Spent(w) ==
  /\ pc[w] = "run" /\ job[w].budget = 0
  /\ Finish(w, FALSE)
  /\ UNCHANGED <<journal, applied, leaseVars>>

(* The intent of one node of the wave: its row is created or reused.       *)
PrepareNode(w, n, r) ==
  /\ pc[w] = "prepare" /\ guard[w] = "in" /\ Accepted(w)
  /\ n \in job[w].todo /\ \A m \in job[w].todo : n <= m
  /\ IF job[w].view[n].step = 0 THEN NewRow(r) ELSE r = job[w].view[n].step
  /\ steps' = [steps EXCEPT ![r] = [status |-> "EXECUTING", node |-> n,
                                    mode |-> job[w].view[n].mode]]
  /\ job' = [job EXCEPT ![w].todo = @ \ {n}, ![w].calls[r] = "due",
                        ![w].view[n] = [@ EXCEPT !.status = "EXECUTING", !.step = r]]
  /\ UNCHANGED <<saga, nodes, pc, applied, leaseVars>>

(* The node's snapshot does not resolve: the run ends in the middle.       *)
Unresolved(w) ==
  /\ RegistryDrift
  /\ pc[w] = "prepare" /\ job[w].todo # {}
  /\ End(w, "idle")

(* Mutant: the calls of a wave start before the workflow is saved.         *)
SaveWaveLater(w) ==
  /\ pc[w] = "prepare" /\ job[w].todo = {} /\ Accepted(w)
  /\ job' = [job EXCEPT ![w].budget = @ - Cardinality(InPhase(w, {"due"}))]
  /\ Goto(w, "calls")
  /\ UNCHANGED <<journal, applied, leaseVars>>

SaveWave(w) ==
  /\ pc[w] = "prepare" /\ job[w].todo = {} /\ Accepted(w)
  /\ nodes' = job[w].view
  /\ job' = [job EXCEPT ![w].budget = @ - Cardinality(InPhase(w, {"due"}))]
  /\ Goto(w, "calls")
  /\ UNCHANGED <<saga, steps, applied, leaseVars>>

(* The thread pool: at most "par" calls at once, each with its attempts,   *)
(* between two checks of the guard.                                        *)
StartCall(w, r) ==
  /\ pc[w] = "calls" /\ job[w].calls[r] = "due"
  /\ Cardinality(InPhase(w, {"flight"})) < job[w].par
  /\ job' = [job EXCEPT ![w].calls[r] = IF guard[w] = "in" THEN "flight" ELSE "lost"]
  /\ UNCHANGED <<journal, pc, applied, leaseVars>>

CallSucceeds(w, r) ==
  /\ pc[w] = "calls" /\ job[w].calls[r] = "flight"
  /\ applied' = applied \cup {r}
  /\ job' = [job EXCEPT ![w].calls[r] = IF guard[w] = "in" THEN "ok" ELSE "lost"]
  /\ UNCHANGED <<journal, pc, leaseVars>>

(* All attempts failed, some perhaps after the effect; a guard found lost  *)
(* at a further attempt loses the call.                                    *)
CallFails(w, r) ==
  /\ pc[w] = "calls" /\ job[w].calls[r] = "flight"
  /\ applied' \in {applied, applied \cup {r}}
  /\ \E phase \in {"bad"} \cup (IF guard[w] = "lost" THEN {"lost"} ELSE {}) :
       job' = [job EXCEPT ![w].calls[r] = phase]
  /\ UNCHANGED <<journal, pc, leaseVars>>

Returned(w) == InPhase(w, {"due", "flight"}) = {}

(* LeaseLostError from a call ends the run once the pool has drained.      *)
Abandon(w) ==
  /\ pc[w] = "calls" /\ Returned(w) /\ InPhase(w, {"lost"}) # {}
  /\ End(w, "idle")

(* The outcome of one row, in the order of the wave.                       *)
SettleRow(w, r) ==
  LET ok == job[w].calls[r] = "ok"
      n == steps[r].node
  IN
  /\ pc[w] = "calls" /\ Returned(w) /\ InPhase(w, {"lost"}) = {} /\ Accepted(w)
  /\ r \in InPhase(w, {"ok", "bad"})
  /\ \A q \in InPhase(w, {"ok", "bad"}) : n <= steps[q].node
  /\ steps' = [steps EXCEPT ![r].status = IF ok THEN "COMPLETED" ELSE "FAILED"]
  /\ job' = [job EXCEPT ![w].calls[r] = "none",
                        ![w].failed = IF ok THEN @ ELSE @ \cup {steps[r].mode},
                        ![w].view = [m \in Node |->
                          IF m = n THEN AfterCall(@[m], ok) ELSE @[m]]]
  /\ IF n # 0 THEN UNCHANGED pc ELSE Goto(w, IF ok THEN "exit" ELSE "escalate")
  /\ UNCHANGED <<saga, nodes, applied, leaseVars>>

SaveResults(w) ==
  /\ pc[w] = "calls" /\ InPhase(w, CallPhase \ {"none"}) = {} /\ Accepted(w)
  /\ \E view \in Refreshes(job[w].view, 0) :
       /\ nodes' = view
       /\ job' = [job EXCEPT ![w].view = view]
  /\ Goto(w, IF job[w].failed = {} THEN "run" ELSE "escalate")
  /\ UNCHANGED <<saga, steps, applied, leaseVars>>

(* The saga learns of a failure after the workflow does.                   *)
Escalate(w) ==
  LET unwind == "rollback" \in job[w].failed IN
  /\ pc[w] = "escalate" /\ Accepted(w)
  /\ saga' = IF unwind THEN "FAILED" ELSE "RECOVERY_REQUIRED"
  /\ Finish(w, unwind)
  /\ UNCHANGED <<nodes, steps, applied, leaseVars>>

-----------------------------------------------------------------------------
(* The end of a guarded block; an automatic rollback takes a new lease.    *)

Exit(w) == pc[w] = "exit" /\ End(w, IF job[w].again THEN "again" ELSE "idle")

Rejoin(w) ==
  /\ pc[w] = "again"
  /\ Grant(w)
  /\ Goto(w, IF Admitted("rollback") THEN "mark" ELSE "exit")
  /\ UNCHANGED <<journal, job, applied>>

(* Mutant: the rollback waits for the lease instead of giving up.          *)
BusyWaits(w) ==
  /\ pc[w] = "again" /\ ~live
  /\ Goto(w, "idle")
  /\ UNCHANGED <<journal, job, applied, leaseVars>>

Busy(w) ==
  /\ pc[w] = "again" /\ live
  /\ Goto(w, "idle")
  /\ UNCHANGED <<journal, job, applied, leaseVars>>

(* _rollback: the saga is marked and its rows listed, newest first.        *)
MarkRollingBack(w) ==
  /\ pc[w] = "mark" /\ Accepted(w)
  /\ saga' = "ROLLING_BACK"
  /\ job' = [job EXCEPT ![w].queue = {r \in Row : steps[r].status \in Compensable}]
  /\ Goto(w, "undo")
  /\ UNCHANGED <<nodes, steps, applied, leaseVars>>

(* Mutant: "reverse" forgotten.                                            *)
Oldest(w, r) == r \in job[w].queue /\ \A q \in job[w].queue : r <= q

Newest(w, r) == r \in job[w].queue /\ \A q \in job[w].queue : q <= r

StartUndo(w) ==
  /\ pc[w] = "undo" /\ job[w].queue # {} /\ guard[w] = "in"
  /\ Goto(w, "undoing")
  /\ UNCHANGED <<journal, job, applied, leaseVars>>

UndoSucceeds(w, r) ==
  /\ pc[w] = "undoing" /\ guard[w] = "in" /\ Newest(w, r)
  /\ applied' = applied \ {r}
  /\ Goto(w, "undone")
  /\ UNCHANGED <<journal, job, leaseVars>>

(* All attempts failed, some perhaps after their work was done.            *)
UndoFails(w, r) ==
  /\ pc[w] = "undoing" /\ Newest(w, r)
  /\ applied' \in {applied, applied \ {r}}
  /\ Goto(w, "unfixed")
  /\ UNCHANGED <<journal, job, leaseVars>>

(* The guard was lost during the attempt, which may have done its work.    *)
UndoLost(w, r) ==
  /\ pc[w] = "undoing" /\ guard[w] = "lost" /\ Newest(w, r)
  /\ applied' \in {applied, applied \ {r}}
  /\ Leave(w)
  /\ Goto(w, "idle")
  /\ job' = [job EXCEPT ![w] = NoJob]
  /\ UNCHANGED journal

RecordUndo(w, r) ==
  /\ pc[w] = "undone" /\ Newest(w, r) /\ Accepted(w)
  /\ steps' = [steps EXCEPT ![r].status = "COMPENSATED"]
  /\ job' = [job EXCEPT ![w].queue = @ \ {r}]
  /\ Goto(w, "undo")
  /\ UNCHANGED <<saga, nodes, applied, leaseVars>>

(* The failure is recorded, with the message of the last attempt, or at    *)
(* once if the row's snapshot does not resolve.                            *)
RecordFailure(w, r) ==
  /\ \/ pc[w] = "unfixed"
     \/ RegistryDrift /\ pc[w] = "undo" /\ guard[w] = "in"
  /\ Newest(w, r) /\ Accepted(w)
  /\ steps' = [steps EXCEPT ![r].status = "COMPENSATION_FAILED"]
  /\ job' = [job EXCEPT ![w].queue = @ \ {r}, ![w].broken = TRUE]
  /\ Goto(w, "undo")
  /\ UNCHANGED <<saga, nodes, applied, leaseVars>>

(* "if last_error": an empty message counts as success.                    *)
PassOver(w, r) ==
  /\ r \in EmptyMessages
  /\ pc[w] = "unfixed" /\ Newest(w, r)
  /\ job' = [job EXCEPT ![w].queue = @ \ {r}]
  /\ Goto(w, "undo")
  /\ UNCHANGED <<journal, applied, leaseVars>>

Mirrored(node) ==
  IF node.step # 0 /\ steps[node.step].status \in {"COMPENSATED", "COMPENSATION_FAILED"}
  THEN [node EXCEPT !.status = steps[node.step].status] ELSE node

FinishRollback(w) ==
  /\ pc[w] = "undo" /\ job[w].queue = {} /\ Accepted(w)
  /\ saga' = IF job[w].broken THEN "ROLLBACK_FAILED" ELSE "ROLLED_BACK"
  /\ nodes' = [n \in Node |-> Mirrored(nodes[n])]
  /\ Finish(w, FALSE)
  /\ UNCHANGED <<steps, applied, leaseVars>>

-----------------------------------------------------------------------------
(* Leases that end under a process.                                        *)

ExpireLease == (Stalls \/ current = NoRequest) /\ Lapse
               /\ UNCHANGED <<journal, pc, job, applied>>

(* The heartbeat is refused, or the store fails under it.                  *)
HeartbeatFails(w) == Stalls /\ pc[w] # "resume" /\ Notice(w)
                     /\ UNCHANGED <<journal, pc, job, applied>>

(* lease.check() raises.                                                   *)
CheckFails(w) ==
  /\ guard[w] = "lost"
  /\ \/ pc[w] = "prepare" /\ job[w].todo # {}
     \/ pc[w] = "undo" /\ job[w].queue # {}
     \/ pc[w] = "commit"
  /\ End(w, "idle")

(* A write with an old token is refused: LeaseLostError.                   *)
Writing(w) ==
  \/ pc[w] \in {"plan", "approve", "retry", "commit", "execute", "save", "escalate",
                "mark", "undone", "unfixed"}
  \/ pc[w] = "run" /\ job[w].budget > 0
  \/ pc[w] = "prepare"
  \/ pc[w] = "calls" /\ InPhase(w, {"due", "flight", "lost"}) = {}
  \/ pc[w] = "undo" /\ job[w].queue = {}

StaleWrite(w) == Writing(w) /\ ~Accepted(w) /\ End(w, "idle")

-----------------------------------------------------------------------------
(* Processes that die and start again.                                     *)

(* Calls in flight may have reached their target.                          *)
Crash(w) ==
  /\ pc[w] # "down"
  /\ Die({w})
  /\ Goto(w, "down")
  /\ job' = [job EXCEPT ![w] = NoJob]
  /\ \/ \E landed \in SUBSET InPhase(w, {"flight"}) : applied' = applied \cup landed
     \/ \E r \in Row : pc[w] = "undoing" /\ Newest(w, r) /\ applied' = applied \ {r}
  /\ UNCHANGED journal

Pending ==
  \/ saga \in Failing
  \/ saga = "ACTIVE" /\ \E r \in Row : steps[r].status = "EXECUTING"

(* claim_pending_rollbacks of a process that starts.                       *)
Claim(w) ==
  /\ pc[w] = "down" /\ Pending
  /\ Grant(w)
  /\ Goto(w, "resume")
  /\ UNCHANGED <<journal, job, applied>>

NothingToClaim(w) ==
  /\ pc[w] = "down" /\ (live \/ ~Pending)
  /\ Goto(w, "idle")
  /\ UNCHANGED <<journal, job, applied, leaseVars>>

Uncertain == InStatus(nodes, {"EXECUTING"})
NeedsOperator == \E n \in Uncertain : nodes[n].mode = "pause"

EscalateToOperator(w) ==
  /\ pc[w] = "resume" /\ NeedsOperator /\ Accepted(w)
  /\ saga' = "RECOVERY_REQUIRED"
  /\ nodes' = [n \in Node |->
       IF n \in Uncertain THEN [nodes[n] EXCEPT !.status = "FAILED", !.uncertain = TRUE]
       ELSE nodes[n]]
  /\ Finish(w, FALSE)
  /\ UNCHANGED <<steps, applied, leaseVars>>

ResumeRollback(w) ==
  /\ pc[w] = "resume" /\ ~NeedsOperator
  /\ Goto(w, IF Admitted("rollback") THEN "mark" ELSE "exit")
  /\ UNCHANGED <<journal, job, applied, leaseVars>>

(* This LeaseLostError nobody catches: the process does not start.         *)
StaleClaim(w) == pc[w] = "resume" /\ NeedsOperator /\ ~Accepted(w) /\ End(w, "down")

-----------------------------------------------------------------------------
Operate(w) ==
  \/ Refuse(w) \/ PlanStep(w) \/ SaveEngine(w) \/ Commit(w)
  \/ \E n \in Node : ApproveStep(w, n) \/ RejectStep(w, n) \/ RetryStep(w, n)

RunForward(w) ==
  \/ FormWave(w) \/ NothingReady(w) \/ Spent(w) \/ Unresolved(w)
  \/ \E r \in Row : CreateStep(w, r) \/ \E n \in Node : PrepareNode(w, n, r)
  \/ SaveWave(w) \/ Abandon(w) \/ SaveResults(w) \/ Escalate(w)
  \/ \E r \in Row : StartCall(w, r) \/ CallSucceeds(w, r) \/ CallFails(w, r) \/ SettleRow(w, r)

Unwind(w) ==
  \/ Rejoin(w) \/ Busy(w) \/ MarkRollingBack(w) \/ StartUndo(w) \/ FinishRollback(w)
  \/ \E r \in Row : UndoSucceeds(w, r) \/ UndoFails(w, r) \/ UndoLost(w, r)
                    \/ RecordUndo(w, r) \/ RecordFailure(w, r) \/ PassOver(w, r)

Recover(w) == EscalateToOperator(w) \/ ResumeRollback(w) \/ StaleClaim(w)

(* A process with work to do takes its next step.                          *)
Work(w) == Operate(w) \/ RunForward(w) \/ Unwind(w) \/ Recover(w)
           \/ Exit(w) \/ CheckFails(w) \/ StaleWrite(w)

Limits == 1..Cardinality(Node)       \* values of max_steps and max_parallel

Next ==
  \/ ExpireLease
  \/ \E w \in Request :
       \/ \E op \in Ops \ {"run"} : Begin(w, op, 0, 1)
       \/ \E budget, par \in Limits : "run" \in Ops /\ Begin(w, "run", budget, par)
       \/ Work(w) \/ HeartbeatFails(w)
       \/ Crash(w) \/ Claim(w) \/ NothingToClaim(w)

Spec == Init /\ [][Next]_vars

-----------------------------------------------------------------------------
(* A committed or rolled back saga is closed: no process that still works  *)
(* on it, however late, changes its status, its workflow or a row.         *)
TerminalFinal == [][(saga \in Final) => UNCHANGED journal]_vars

(* While a saga moves forward, a node is ready, executing or completed     *)
(* only with all its dependencies completed and its approval given,        *)
(* through retries, refused and repeated approvals, crashes and takeovers. *)
Eligible ==
  saga \in {"ACTIVE", "RECOVERY_REQUIRED"} =>
    \A n \in InStatus(nodes, Started) :
      DependencyStatus(nodes[n], nodes) = "ready" /\ Approved(nodes[n])

(* Write-ahead intent: when the newest grantee has a forward call out, the *)
(* saga is active and its journal shows the row executing, and the node    *)
(* that owns the row executing over this very row; that the node may,      *)
(* Eligible says.                                                          *)
CallsAreJournaled ==
  \A w \in Request, r \in Row :
    (current = w /\ job[w].calls[r] = "flight") =>
      /\ saga = "ACTIVE" /\ steps[r].status = "EXECUTING"
      /\ LET n == steps[r].node IN
         n # 0 => nodes[n].status = "EXECUTING" /\ nodes[n].step = r

(* The workflow never claims more than the step rows show: the row of a    *)
(* completed node completed, and has at most been compensated since.       *)
CompletedNodesBacked ==
  \A n \in InStatus(nodes, {"COMPLETED"}) :
    /\ nodes[n].step # 0
    /\ steps[nodes[n].step].node = n
    /\ steps[nodes[n].step].status \in {"COMPLETED", "COMPENSATED", "COMPENSATION_FAILED"}

(* Compensation runs against the sequence of the rows: one is compensated  *)
(* only when every later row is compensated, or its compensation has been  *)
(* tried and recorded as failed; one that fails with an empty message is   *)
(* tried and not recorded.  The sequence is that of first executions: a    *)
(* row that a retry uses again keeps its number.                           *)
ReverseOrder ==
  [][\A r \in Row :
       (steps[r].status # "COMPENSATED" /\ steps'[r].status = "COMPENSATED") =>
         \A q \in Used \ EmptyMessages :
           q > r => steps[q].status \in {"COMPENSATED", "COMPENSATION_FAILED"}]_vars

(* A rolled back saga has no row left that is not compensated, of those    *)
(* whose compensations fail with a message.                                *)
RolledBackClean ==
  saga = "ROLLED_BACK" => \A r \in Used \ EmptyMessages : steps[r].status = "COMPENSATED"

(* If no process outlives its lease, a rolled back saga leaves no effect   *)
(* of its forward calls behind, those of failed and interrupted calls      *)
(* included.                                                               *)
RolledBackUndone == saga = "ROLLED_BACK" => applied \subseteq EmptyMessages

(* The processes implement the lifecycle of SagaLifecycle: a step is begun *)
(* only in an active saga and undone, once and in reverse order, only in   *)
(* one that is rolling back; the end of a rollback tells what became of    *)
(* the steps; a closed saga stays as it is.                                *)
Progress(status) ==
  CASE status = "UNUSED" -> "unused"
    [] status \in {"EXECUTING", "COMPLETED", "FAILED"} -> "open"
    [] status = "COMPENSATED" -> "undone"
    [] status = "COMPENSATION_FAILED" -> "stuck"

Life == INSTANCE SagaLifecycle WITH
  status <- saga, rows <- [r \in Row |-> Progress(steps[r].status)],
  Silent <- EmptyMessages

ImplementsLifecycle == Life!LSpec

-----------------------------------------------------------------------------
(* What comments and documents say, and the code does not keep.            *)

(* "so no sibling is stranded as EXECUTING": when the processes are up and *)
(* idle and a recovery pass would find nothing to do, no node of a saga in *)
(* progress is still executing.                                            *)
NoneStranded ==
  (saga = "ACTIVE" /\ ~Pending /\ \A w \in Request : pc[w] = "idle") =>
    InStatus(nodes, {"EXECUTING"}) = {}

(* "leaves the step EXECUTING.  The next recovery owner treats that step   *)
(* as uncertain and compensates it": a saga is not committed over a step   *)
(* whose outcome nobody knows.                                             *)
NoUncertainCommit == saga = "COMMITTED" => \A r \in Row : steps[r].status # "EXECUTING"

(* "COMPENSATED - mirrors rollback state after compensation": a saga is    *)
(* not committed with a node completed whose step was compensated.         *)
NoUndoneCommit ==
  saga = "COMMITTED" =>
    \A n \in InStatus(nodes, {"COMPLETED"}) : steps[nodes[n].step].status = "COMPLETED"

(* "failures remain visible as ROLLBACK_FAILED" and                        *)
(* COMPENSATION_FAILED: a rolled back saga has no row that is not          *)
(* compensated.                                                            *)
FailuresVisible == saga = "ROLLED_BACK" => \A r \in Used : steps[r].status = "COMPENSATED"
=============================================================================
