----------------------------- MODULE AuditedSaga -----------------------------
(***************************************************************************)
(* What a caller and an auditor see of one saga: A2A tasks, each with one  *)
(* command (a2a_adapter.py), the events that InstrumentedCoordinator       *)
(* appends before, during and after the operation of the command           *)
(* (instrumented_coordinator.py), and the recovery of a process that       *)
(* starts.  The coordinator's own steps are those of SagaCoordinator, the  *)
(* journal is that of AuditChain.                                          *)
(*                                                                         *)
(* Each request serves one task.  A crash ends the request and leaves its  *)
(* task as it is.                                                          *)
(***************************************************************************)
EXTENDS SagaCoordinator, Sequences

CONSTANTS
  MaxFaults,        \* bound: processes that die, and appends that fail
  MaxEvents         \* bound: a process starts on a chain shorter than this

(* Who runs workflows has room for a node.                                 *)
ASSUME AuditedAssumption ==
  /\ MaxFaults \in Nat /\ MaxEvents \in Nat
  /\ "run" \in Ops => Node # {}

VARIABLES
  chain, inserting,   \* of AuditChain
  task,               \* the task of each request, and where its operation is
  faults              \* deaths and failed appends so far

Kinds == {"ACTION_REQUESTED", "ACTION_ATTEMPT_SUMMARY", "ACTION_COMPLETED",
          "ACTION_FAILED", "WORKFLOW_NODE_PLANNED", "WORKFLOW_RUN_REQUESTED",
          "WORKFLOW_RUN_COMPLETED", "APPROVAL_DECIDED", "OPERATOR_RETRY_REQUESTED",
          "SAGA_COMMITTED", "ROLLBACK_REQUESTED", "COMPENSATION_RESULT",
          "ROLLBACK_COMPLETED", "ROLLBACK_FAILED", "RECOVERY_REQUIRES_OPERATOR",
          "RECOVERY_COMPLETED"}

Items == [kind : Kinds, row : Row \cup {0}]
Entry == [kind : Kinds, row : Row \cup {0}, by : Request]

Audit == INSTANCE AuditChain WITH Appender <- Request, Event <- Entry

avars == <<vars, chain, inserting, task, faults>>

Stages == {"idle", "before", "inside", "midway", "unwinding", "look", "after",
           "recovery", "recovered", "reporting"}

TaskType ==
  [op : Operations \cup {"none"},
   state : {"none", "WORKING", "COMPLETED", "REJECTED", "FAILED"},
   stage : Stages,
   todo : Seq(Items),    \* events to append
   out : {"ok", "error", "broken"}]   \* no exception, SagaError, another one

NoTask == [op |-> "none", state |-> "none", stage |-> "idle", todo |-> <<>>, out |-> "ok"]

ATypeOK ==
  /\ TypeOK
  /\ Audit!ACTypeOK
  /\ task \in [Request -> TaskType]
  /\ faults \in 0..MaxFaults

(* A saga just begun, or with its nodes planned and ready to run.          *)
AInit ==
  /\ FLInit /\ saga = "ACTIVE" /\ applied = {}
  /\ nodes \in {[n \in Node |-> Unplanned]}
       \cup {[n \in Node |-> NewNode({}, FALSE, mode)] : mode \in FailureModes}
  /\ steps = [r \in Row |-> UnusedRow]
  /\ pc = [w \in Request |-> "idle"] /\ job = [w \in Request |-> NoJob]
  /\ Audit!ACInit
  /\ task = [w \in Request |-> NoTask]
  /\ faults = 0

-----------------------------------------------------------------------------
Item(kind, r) == [kind |-> kind, row |-> r]
Only(kind) == <<Item(kind, 0)>>
Op(w) == task[w].op
Said(w) == task[w].todo = <<>>
At(w, S) == task[w].stage \in S

(* Mutant: only the oldest of the operations is announced.                 *)
AnnouncementOfExecute(op) == IF op = "execute" THEN Only("ACTION_REQUESTED") ELSE <<>>

(* What an operation says before it starts, ...                            *)
Announcement(op) ==
  CASE op = "execute" -> Only("ACTION_REQUESTED")
    [] op = "run" -> Only("WORKFLOW_RUN_REQUESTED")
    [] op = "rollback" -> Only("ROLLBACK_REQUESTED")
    [] OTHER -> <<>>

Closing == [execute |-> "ACTION_COMPLETED", plan |-> "WORKFLOW_NODE_PLANNED",
            run |-> "WORKFLOW_RUN_COMPLETED", approve |-> "APPROVAL_DECIDED",
            retry |-> "OPERATOR_RETRY_REQUESTED", commit |-> "SAGA_COMMITTED"]

(* ... and when it returns or raises.                                      *)
Report(op, out) ==
  CASE out = "ok" /\ op # "rollback" -> Only(Closing[op])
    [] out # "ok" /\ op = "execute" -> Only("ACTION_FAILED")
    [] OTHER -> <<>>

(* Mutant: the event does not look at the status.                          *)
RollbackEventHopeful(status) == "ROLLBACK_COMPLETED"

RollbackEvent(status) ==
  IF status = "ROLLED_BACK" THEN "ROLLBACK_COMPLETED" ELSE "ROLLBACK_FAILED"

(* Mutant: the event is named by the status.                               *)
RecoveryEventNamed(status) == status

RecoveryEvent(status) ==
  IF status = "RECOVERY_REQUIRED" THEN "RECOVERY_REQUIRES_OPERATOR" ELSE "RECOVERY_COMPLETED"

(* One result for each row that a compensation was tried for, in the order *)
(* of the rows: the one sequence of this set.                              *)
Tried == {r \in Row : steps[r].status \in {"COMPENSATED", "COMPENSATION_FAILED"}}

InOrder ==
  {rows \in [1..Cardinality(Tried) -> Tried] :
     \A i, j \in DOMAIN rows : i < j => rows[i] < rows[j]}

Results == {[i \in DOMAIN rows |-> Item("COMPENSATION_RESULT", rows[i])] : rows \in InOrder}

(* A step of the request on its own, without the coordinator or journal.   *)
Turn(w, stage, todo, out) ==
  task' = [task EXCEPT ![w].stage = stage, ![w].todo = todo, ![w].out = out]

-----------------------------------------------------------------------------
(* The task and its command.                                               *)

Submit(w, op) ==
  /\ task[w] = NoTask /\ pc[w] = "idle"
  /\ task' = [task EXCEPT ![w] = [NoTask EXCEPT !.op = op, !.state = "WORKING",
                                    !.stage = "before", !.todo = Announcement(op)]]
  /\ UNCHANGED <<vars, chain, inserting, faults>>

(* A command that does not parse, a caller who may not use the tool, a     *)
(* saga of another tenant.                                                 *)
RejectCommand(w) ==
  /\ At(w, {"before"}) /\ task[w].todo = Announcement(Op(w)) /\ inserting[w] = {}
  /\ Turn(w, "after", <<>>, "error")
  /\ UNCHANGED <<vars, chain, inserting, faults>>

(* Mutant: the announcement can wait.                                      *)
SayLater(w) == inserting[w] = {}

Announced(w) == Said(w)

(* The lease is granted; a saga in the wrong status is an error.  A run is *)
(* asked for one step at a time.                                           *)
Enter(w) ==
  /\ At(w, {"before"}) /\ Announced(w)
  /\ Begin(w, Op(w), IF Op(w) = "run" THEN 1 ELSE 0, 1)
  /\ LET admitted == Admitted(Op(w)) IN
     Turn(w, IF admitted /\ Op(w) = "rollback" THEN "unwinding" ELSE "inside",
          <<>>, IF admitted THEN "ok" ELSE "error")
  /\ UNCHANGED <<chain, inserting, faults>>

(* The saga is leased to another request (or the rows have run out).       *)
TurnedAway(w) ==
  /\ At(w, {"before"}) /\ Said(w)
  /\ live \/ ~Room(Op(w))
  /\ Turn(w, "after", Report(Op(w), "error"), "error")
  /\ UNCHANGED <<vars, chain, inserting, faults>>

Outcomes(out) ==
  CASE out = "ok" -> {"COMPLETED", "FAILED"}
    [] out = "error" -> {"REJECTED"}
    [] out = "broken" -> {"FAILED"}

(* Mutant: the result is published before the journal has it.              *)
ConcludeEarly(w) ==
  /\ At(w, {"after"}) /\ inserting[w] = {}
  /\ \E state \in Outcomes(task[w].out) :
       task' = [task EXCEPT ![w].stage = "idle", ![w].out = "ok", ![w].state = state,
                            ![w].todo = <<>>]
  /\ UNCHANGED <<vars, chain, inserting, faults>>

(* The result is published, or publishing it fails.                        *)
Conclude(w) ==
  /\ At(w, {"after"}) /\ Said(w)
  /\ \E state \in Outcomes(task[w].out) :
       task' = [task EXCEPT ![w].stage = "idle", ![w].out = "ok", ![w].state = state]
  /\ UNCHANGED <<vars, chain, inserting, faults>>

-----------------------------------------------------------------------------
(* The events are appended one after the other.                            *)

StartAppend(w) ==
  /\ ~Said(w)
  /\ LET item == task[w].todo[1] IN
     Audit!ReadHead(w, [kind |-> item.kind, row |-> item.row, by |-> w])
  /\ UNCHANGED <<vars, task, faults>>

Recorded(w) ==
  /\ Audit!Insert(w)
  /\ task' = [task EXCEPT ![w].todo = Tail(@)]
  /\ UNCHANGED <<vars, faults>>

(* What of execute is said although its own audit failed.                  *)
LastWords(w) ==
  IF Op(w) = "execute" /\ task[w].todo[1].kind \notin
       {"ACTION_REQUESTED", "ACTION_COMPLETED", "ACTION_FAILED"}
  THEN Only("ACTION_FAILED") ELSE <<>>

Fault == faults < MaxFaults /\ faults' = faults + 1

(* An append that raises leaves no event, or one whose commit was not      *)
(* confirmed.                                                              *)
Raises(w) == Audit!Abort(w) \/ Audit!Insert(w)

(* The exception ends the operation where it is: before it starts, between *)
(* it and its rollback, or when its work is done.                          *)
AppendFails(w) ==
  /\ At(w, {"before", "midway", "after"}) /\ Raises(w) /\ Fault
  /\ Turn(w, "after", LastWords(w), "broken")
  /\ IF At(w, {"midway"}) THEN Goto(w, "idle") ELSE UNCHANGED pc
  /\ UNCHANGED <<leaseVars, journal, job, applied>>

(* In the thread of a call: run takes it for a call that failed, execute   *)
(* is left with its row executing.                                         *)
SummaryFails(w) ==
  LET r == task[w].todo[1].row
      ofRun == Op(w) = "run"
  IN
  /\ At(w, {"inside"}) /\ Raises(w) /\ Fault
  /\ job' = [job EXCEPT ![w].calls[r] = IF ofRun THEN "bad" ELSE "lost"]
  /\ Turn(w, "inside", Tail(task[w].todo), IF ofRun THEN task[w].out ELSE "broken")
  /\ UNCHANGED <<leaseVars, journal, pc, applied>>

(* A process whose recovery raises does not start, and may start again.    *)
RecoveryAuditFails(w) ==
  /\ At(w, {"reporting"}) /\ Raises(w)
  /\ Turn(w, "idle", <<>>, "ok")
  /\ Goto(w, "down")
  /\ UNCHANGED <<leaseVars, journal, job, applied, faults>>

-----------------------------------------------------------------------------
(* The coordinator's steps inside the operation.                           *)

(* A call returns in its thread, where its summary is written.             *)
CallReturns(w, r) ==
  /\ CallSucceeds(w, r) \/ CallFails(w, r)
  /\ IF job'[w].calls[r] = "lost" THEN UNCHANGED task
     ELSE task' = [task EXCEPT ![w].todo = Append(@, Item("ACTION_ATTEMPT_SUMMARY", r))]
  /\ UNCHANGED <<chain, inserting, faults>>

(* A thread that writes a summary is not free yet.                         *)
CallStarts(w, r) ==
  /\ Cardinality(InPhase(w, {"flight"})) + Len(task[w].todo) < job[w].par
  /\ StartCall(w, r)
  /\ UNCHANGED <<chain, inserting, task, faults>>

(* An execute whose call failed is an error, whatever its rollback does.   *)
FailedExecute(w) == Op(w) = "execute" /\ pc[w] = "escalate"

(* The operation goes on: ...                                              *)
GoesOn(w) ==
  /\ pc'[w] \notin {"idle", "again"}
  /\ LET out == IF FailedExecute(w) THEN "error" ELSE task[w].out IN
     CASE At(w, {"inside", "unwinding"}) -> Turn(w, task[w].stage, <<>>, out)
       [] At(w, {"midway"}) ->
            IF pc'[w] = "mark" THEN Turn(w, "unwinding", <<>>, out)
            ELSE Turn(w, "inside", <<>>, "error")

(* ... its rollback is announced, ...                                      *)
RollsBack(w) ==
  /\ pc'[w] = "again"
  /\ Turn(w, "midway", Only("ROLLBACK_REQUESTED"), task[w].out)

(* ... it returns, or raises.                                              *)
Ends(w) ==
  /\ pc'[w] = "idle"
  /\ IF pc[w] = "exit" /\ At(w, {"unwinding"})
     THEN Turn(w, "look", <<>>, task[w].out)
     ELSE LET out == IF pc[w] = "exit" \/ task[w].out = "broken" THEN task[w].out ELSE "error"
          IN Turn(w, "after", Report(Op(w), out), out)

Proceed(w) ==
  /\ At(w, {"inside", "midway", "unwinding"}) /\ Said(w)
  /\ \/ Operate(w) \/ Unwind(w) \/ Exit(w) \/ CheckFails(w) \/ StaleWrite(w)
     \/ FormWave(w) \/ NothingReady(w) \/ Spent(w) \/ Unresolved(w)
     \/ \E r \in Row : CreateStep(w, r) \/ SettleRow(w, r) \/ \E n \in Node : PrepareNode(w, n, r)
     \/ SaveWave(w) \/ Abandon(w) \/ SaveResults(w) \/ Escalate(w)
  /\ GoesOn(w) \/ RollsBack(w) \/ Ends(w)
  /\ UNCHANGED <<chain, inserting, faults>>

(* A rollback that returned is reported by the status it reads now, without*)
(* the lease.                                                              *)
Look(w) ==
  /\ At(w, {"look"})
  /\ \E results \in Results :
       Turn(w, "after",
            results \o Only(RollbackEvent(saga)) \o Report(Op(w), task[w].out), task[w].out)
  /\ UNCHANGED <<vars, chain, inserting, faults>>

-----------------------------------------------------------------------------
(* A process that starts: the rollbacks of its recovery have no events but *)
(* the one at the end, and none if they fail.                              *)

StartRecovery(w) ==
  /\ Len(chain) < MaxEvents
  /\ At(w, {"idle"}) /\ Claim(w)
  /\ Turn(w, "recovery", <<>>, "ok")
  /\ UNCHANGED <<chain, inserting, faults>>

NothingToRecover(w) == NothingToClaim(w) /\ UNCHANGED <<chain, inserting, task, faults>>

ProceedRecovery(w) ==
  /\ At(w, {"recovery"})
  /\ Recover(w) \/ Unwind(w) \/ Exit(w) \/ CheckFails(w) \/ StaleWrite(w)
  /\ CASE pc'[w] \notin {"idle", "down"} ->
            Turn(w, "recovery", <<>>,
                 IF pc[w] = "resume" /\ ~Admitted("rollback") THEN "error" ELSE task[w].out)
       [] pc'[w] \in {"idle", "down"} ->
            Turn(w, IF pc[w] = "exit" /\ task[w].out = "ok" THEN "recovered" ELSE "idle",
                 <<>>, "ok")
  /\ UNCHANGED <<chain, inserting, faults>>

ReportRecovery(w) ==
  /\ At(w, {"recovered"})
  /\ Turn(w, "reporting", Only(RecoveryEvent(saga)), "ok")
  /\ UNCHANGED <<vars, chain, inserting, faults>>

FinishRecovery(w) ==
  /\ At(w, {"reporting"}) /\ Said(w)
  /\ Turn(w, "idle", <<>>, "ok")
  /\ UNCHANGED <<vars, chain, inserting, faults>>

-----------------------------------------------------------------------------
(* The lease, and processes that die: their transactions end with them.    *)

LeaseEnds ==
  /\ ExpireLease \/ \E w \in Request : HeartbeatFails(w)
  /\ UNCHANGED <<chain, inserting, task, faults>>

ProcessDies(w) ==
  /\ Fault /\ ~At(w, {"idle"})
  /\ Crash(w)
  /\ inserting' = [inserting EXCEPT ![w] = {}]
  /\ Turn(w, "idle", <<>>, "ok")
  /\ UNCHANGED chain

-----------------------------------------------------------------------------
AStep(w) ==
  \/ Enter(w) \/ TurnedAway(w) \/ Conclude(w) \/ Recorded(w)
  \/ \E r \in Row : CallStarts(w, r) \/ CallReturns(w, r)
  \/ Proceed(w) \/ Look(w)
  \/ ProceedRecovery(w) \/ ReportRecovery(w) \/ FinishRecovery(w)

ANext ==
  \/ LeaseEnds
  \/ \E w \in Request :
       \/ \E op \in Ops : Submit(w, op)
       \/ AStep(w) \/ StartAppend(w) \/ RejectCommand(w)
       \/ AppendFails(w) \/ SummaryFails(w) \/ RecoveryAuditFails(w)
       \/ StartRecovery(w) \/ NothingToRecover(w) \/ ProcessDies(w)

ASpec == AInit /\ [][ANext]_avars

(* A process that is up works on; who waits for the lock of the journal    *)
(* gets it, in its turn in PostgreSQL, by trying again in SQLite.          *)
AFairSpec ==
  ASpec /\ \A w \in Request : WF_avars(AStep(w)) /\ SF_avars(StartAppend(w))

-----------------------------------------------------------------------------
InChain(kind, w) == \E i \in DOMAIN chain : chain[i].event.kind = kind /\ chain[i].event.by = w
Evidence(kind) == \E w \in Request : InChain(kind, w)

(* The journal of the saga is a valid chain whatever its processes do:     *)
(* they append from several requests and threads, fail and die while they  *)
(* do.                                                                     *)
ChainIntact == Audit!ChainValid

(* Any damage to the rows that the tasks of a saga leave in the journal is *)
(* found by verify_audit_chain.                                            *)
TamperEvident == (\A w \in Request : At(w, {"idle"})) => Audit!DamageDetected

(* An event that closes a saga is true of the saga, now and ever: what     *)
(* says COMMITTED is not rolled back later, and nothing says               *)
(* ROLLBACK_COMPLETED of a saga that is not, or no longer, rolled back,    *)
(* although the status is read and the event appended without a lease.     *)
(* A ROLLBACK_FAILED closes nothing: it may be appended by a process that  *)
(* looked before another one finished the rollback, and stay there.        *)
EvidenceTrue ==
  /\ Evidence("SAGA_COMMITTED") => saga = "COMMITTED"
  /\ Evidence("ROLLBACK_COMPLETED") => saga = "ROLLED_BACK"

Asking == [execute |-> "ACTION_REQUESTED", run |-> "WORKFLOW_RUN_REQUESTED"]

(* No task reaches the outside world before its request is in the journal: *)
(* a forward call is in flight, or a compensation in progress, only after  *)
(* its process has recorded that the operation was asked for.  Recovery is *)
(* exempt: it was asked for by nobody, and its compensations have no       *)
(* announcement.                                                           *)
EffectsAnnounced ==
  \A w \in Request :
    /\ InPhase(w, {"flight"}) # {} => InChain(Asking[Op(w)], w)
    /\ (pc[w] = "undoing" /\ At(w, {"unwinding"})) => InChain("ROLLBACK_REQUESTED", w)

(* A task is COMPLETED only when the journal holds the event that closes   *)
(* its operation.                                                          *)
CompletedTasksEvidenced ==
  \A w \in Request :
    task[w].state = "COMPLETED" =>
      IF Op(w) = "rollback"
      THEN InChain("ROLLBACK_COMPLETED", w) \/ InChain("ROLLBACK_FAILED", w)
      ELSE InChain(Closing[Op(w)], w)

(* A task that a living process has taken up ends, and so does a recovery: *)
(* whatever happens to the lease, the calls and the journal, one way or    *)
(* the other.                                                              *)
TasksEnd ==
  \A w \in Request : ~At(w, {"idle"}) ~> At(w, {"idle"})
=============================================================================
