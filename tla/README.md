# Semantic Saga: models, checks and proofs

Semantic Saga runs *sagas*: sequences of external actions, each with a
compensation, journalled in SQLite or PostgreSQL and driven by several worker
processes. This directory holds TLA+ models of the parts where order,
concurrency and crashes decide whether a saga is right, the TLC runs that check
them, and the TLAPS proofs of what matters most.

Paths below are relative to `src/src/semantic_saga_mcp/` unless they start with
`docs/` or `README.md` (`src/docs/`, `src/README.md`).

## 1. The system

### Components

| Component | State | Operations | What makes it correct |
|---|---|---|---|
| Stores (`store.py`: `SagaStore` for tests, `SQLiteSagaStore`, `PostgresSagaStore`) | sagas, steps; per saga `lease_owner`, `lease_until`, `fence_token` | create and update sagas and steps, acquire / renew / release a lease, claim pending sagas | one process at a time is accepted as writer of a saga; an overtaken one is refused; nothing pending is lost |
| `_LeaseGuard` (`coordinator.py` 25-88) | owner, token, `_lost`, heartbeat thread | enter (acquire, or take over a claimed token), heartbeat, check, exit | the loss of a lease is noticed; nobody releases a lease that is no longer his |
| `Coordinator` (`coordinator.py`) | none of its own: the saga row, its workflow in `metadata._engine`, its step rows | execute, plan_step, approve_step, retry_step, checkpoint, run_ready_steps, commit, rollback, resume_pending_rollbacks | intent is journalled before an external call; dependencies and approvals are kept; compensation runs in reverse order and leaves nothing; a closed saga stays closed |
| Workflow engine (`engine.py`, the node records in `coordinator.py`) | nodes with status, dependencies, approval | dependency_status, refresh, policy normalisation, retry delays | a node starts only when everything it waits for is done |
| `InstrumentedCoordinator`, `StoreAuditJournal` (`instrumented_coordinator.py`, `audit.py`) | one hash chain of events per saga; trace context per saga | append, list, verify; events around every operation | the chain has no gap or fork; events carry the actor who caused them |
| `GovernedCoordinator`, policy engines (`governance.py`, `policy.py`) | rules and budgets per tenant | decide, enforce around execute / plan / approve / retry / run / commit | no forward work without an allowing decision; budgets are not exceeded; a failing OPA denies |
| Action registry (`registry.py`) | definitions by id and version | register, resolve, resolve_for_step | a step is compensated by the definition it was executed with |
| Actions (`actions.py`) | the outside world | execute, compensate (HTTP, dry run, file) | compensation undoes what was done, also when its result was never stored |
| A2A server and adapter (`a2a_*.py`) | A2A tasks | one command per task | a task ends in the state of its operation |
| MCP server, identity, secrets, observability | - | parsing, JWT, look-ups, OpenTelemetry | - |

### How they interact

A request enters through MCP or A2A in a thread, passes governance (which reads
the saga *without* a lease), instrumentation, and reaches `Coordinator`. There it
enters a lease guard, which asks the store for the saga's lease and starts a
heartbeat thread. Under the guard the coordinator alternates store transactions,
each carrying the guard's fencing token, with external calls, made by a thread
pool of `max_parallel` threads in `run_ready_steps`. A failure of an action with
`failure_mode` "rollback" makes the operation leave its guard and start
`_rollback` under a second lease. A process that starts runs
`resume_pending_rollbacks` once: it claims the sagas that were left failing, or
active with a step executing, and rolls them back or hands them to an operator
(`RECOVERY_REQUIRED`). Processes share nothing but the database.

### Where it is hard

- Leases end by the clock. A process may be suspended over the end of its lease,
  go on believing, and write, call or release after another took over.
- Requests of one process have the same `lease_owner`; only tokens tell them
  apart.
- A recovery pass leases a batch at once; later claims have no heartbeat.
- A process may die between any two store transactions, before or after an
  external call took effect. One wave takes `n + 1` writes before the calls and
  `n + 1` after; one rollback takes two or more writes around calls.
- A call may fail after it took effect; a compensation may fail likewise, with
  or without a message.
- Operators approve, reject and retry in any order, between crashes.
- The refresh of a workflow is a single pass whose order is that of a dictionary,
  which PostgreSQL reorders.
- Governance decides on state that may be gone when the lease is granted.

`PROJECT.json` lists each of these hazards at its line, with the properties
that cover it or a note why none does.

## 2. The modules

```
FencedLease <--- refines --- SagaLease <--- extends --- SagaLeaseProofs
     ^                            ^--- MCSagaLease
     | extends
SagaCoordinator --- extends ---> SagaWorkflow
     ^  |  ^--- MCSagaCoordinator
     |  +--- refines ---> SagaLifecycle
     | extends
Governance --- extends ---> PolicyDecision
     ^--- MCGovernance

AuditedSaga --- extends ---> SagaCoordinator
     |  ^--- MCAuditedSaga
     +--- refines, instance ---> AuditChain <--- extends --- AuditChainProofs

SagaCoordinatorProofs <- SagaLifecycleProofs <- SagaWorkflowProofs <- SagaEligibilityProofs
                                                                       ^         ^
                     GovernanceProofs (also extends Governance) -------+         |
  AuditedSagaProofs (also extends AuditedSaga, instance of AuditChainProofs) ----+
```

**FencedLease** says what a lease promises, without tokens, owners or clocks: a
saga is granted, the grant may lapse, the grantee may learn of it, leave or die,
and the journal accepts writes of the newest grantee only (`Accepted`). It is an
abstraction in its own right and the lower half of the coordinator's model.

**SagaLease** is the real thing: the lease columns of each saga (`rows`), one
guard per request (`grants`: phase and token), and as history the author of the
last accepted write (`journal`). `Acquired`, `Renewable`, `Released`,
`FenceMatches` are the WHERE and SET clauses of the stores; `Acquire`,
`EnterClaim`, `HeartbeatRefused`, `HeartbeatError`, `Exit`, `ExitLost` are
`_LeaseGuard`; `Claim` is `claim_pending_rollbacks`, a batch in one transaction;
`AbortClaims` is the `LeaseLostError` that no handler of
`resume_pending_rollbacks` catches. Time is not a number: `Lapse` may happen at
any moment to any leased row, which covers every relation between clocks,
heartbeat intervals and suspended processes.

**SagaWorkflow** holds the pure part: node records, `DependencyStatus`, the
refresh pass, what approval, rejection, retry and a call's outcome make of a
node, and which nodes form a wave. `Refreshes` gives the refresh as a set with one
element: the statuses in which every open node is what `Advance` makes of the
nodes before it as refreshed and those after it as they were. A node's number is
its place in the dictionary; SQLite keeps the planning order, PostgreSQL's JSONB
sorts by the random id, so that a new node takes any free place.

**SagaCoordinator** is `Coordinator` on one saga, run by any number of processes.
`saga`, `nodes`, `steps` are the saga's status, workflow and rows (`journal`
together); `pc` and `job` are where a process is in its request and the
request's locals; `applied`, a history variable, is the set of rows whose forward
effect stands in the outside world. Each action is one store transaction, one
external call's start or return, or one event of a lease:

| Code | Actions |
|---|---|
| entering a guard, reading the saga, checking its status | `Begin` |
| `plan_step` | `PlanStep`, `Refuse` |
| `approve_step`, `retry_step` (status first, workflow second) | `ApproveStep`, `RejectStep`, `RetryStep`, `SaveEngine` |
| `execute` | `CreateStep`, `StartCall`, `CallSucceeds`, `CallFails`, `SettleRow`, `Escalate` |
| `run_ready_steps` | `FormWave`, `PrepareNode` per node, `SaveWave`, calls, `SettleRow` per row, `SaveResults`, `Escalate`; `NothingReady`, `Spent`, `Unresolved`, `Abandon` |
| `commit` | `Commit`, `Refuse` |
| leaving a guard, the second lease of an automatic rollback | `Exit`, `Rejoin`, `Busy` |
| `_rollback` | `MarkRollingBack`, `StartUndo`, `UndoSucceeds`, `UndoFails`, `UndoLost`, `RecordUndo`, `RecordFailure`, `PassOver`, `FinishRollback` |
| `resume_pending_rollbacks` | `Claim`, `NothingToClaim`, `EscalateToOperator`, `ResumeRollback`, `StaleClaim` |
| lapse, heartbeat, `check()`, `LeaseLostError` | `ExpireLease`, `HeartbeatFails`, `CheckFails`, `StaleWrite` |
| a process dies | `Crash` |

**SagaLifecycle** is what a saga promises to those who call it, without processes,
leases, workflows or crashes: its status, and for each step whether it is unused,
open (begun and not undone), undone, or stuck. Steps begin in an active saga only;
they are undone in a saga that is rolling back, in reverse order; a rollback
succeeds only if nothing is left, and fails only if a step is stuck; a closed saga
stays closed. SagaCoordinator refines it with `Progress`, which maps the status of
a row, and the saga's status as it is.

**PolicyDecision** holds the decision procedure of `policy.py`: a document has
weights for the risk levels (`Weights`: its own word for a level, or the default,
which is also what other engines get), and the budgets, rules, risk threshold and
default of the tenant and of the wildcard;
`Effective` merges them, `JsonEffect` puts the budgets before the rules, the
first rule that matches before the threshold, the threshold before the default.
An engine that is out of reach denies, no engine allows. `Passes` is what
`_enforce` makes of the effect.

**Governance** is `GovernedCoordinator` with that policy around the coordinator's
operations. `policy` is the document in force; `PolicyChange` replaces it at any
time, which also stands for processes that run different revisions. An `Ask`
action is one operation's look at the policy, on a saga read without a lease:
which usage it puts to the budgets (`Usage`, weighed as the policy in force weighs
it), what it asks (`Asked`: phase, risk of the action, prospective usage, whether
an approval is given), and the permit it leaves. Three values meet in the gate of a
planned node, and the code uses them in different places: the definition's
`approval_required` (`gated`), the caller's argument, which may be absent, true or
false (`wish`), and the policy's answer. The policy hears that approval is given
when the definition or the caller asks for it (241); a demand it still makes takes
the argument's place (`PassOn`, 255); and the coordinator gates the node on the
argument, or on the definition without one (`Required`, `coordinator.py` 318).
`Enter` takes the permit into the coordinator, in any later state;
`GovernedPlan`, `GovernedExecute` and `GovernedDecision` are the coordinator's
actions with the permit's arguments, `TurnedAway` is the refusal of a busy lease,
and `Elsewhere` the rest of the coordinator's work. `risk` holds the risk level of
each node as planned and of each row as executed; `demanded` is history: the nodes
for which the definition, the caller or the policy demanded approval, those whose
caller waived the definition's gate excepted (`Waived`, section 5). A denial
changes no saga and is no step. Rejection and rollback ask nobody, as in the code.

**AuditChain** is the journal of one saga (`audit.py`): rows linked by hashes, an
append that reads the head and inserts under a lock (`ReadHead`, `Insert`), a
transaction that ends without its row (`Abort`: an error, or the end of its
process), and `Verify`, which computes each hash again. A hash is the sequence of
the events it depends on, so that it is injective by construction.

**AuditedSaga** composes the coordinator, the journal and the callers. A request
serves one A2A task; `task` has its operation, its state (WORKING, COMPLETED,
REJECTED, FAILED), the events it still has to append and its stage:

| Stage | Code | Actions |
|---|---|---|
| before | command parsed, role and tenant checked, the operation announced (`ACTION_REQUESTED`, `WORKFLOW_RUN_REQUESTED`, `ROLLBACK_REQUESTED`) | `Submit`, `RejectCommand`, `Enter`, `TurnedAway` |
| inside | the coordinator's own steps; threads append one summary per call | `Proceed`, `CallStarts`, `CallReturns`, `SummaryFails` |
| midway | an automatic rollback is announced between the two leases | `Proceed` |
| unwinding, look | the rollback, and the status read after it for `ROLLBACK_COMPLETED` or `ROLLBACK_FAILED` | `Proceed`, `Look` |
| after | closing event, then the task's result | `Conclude`, `AppendFails` |
| recovery, recovered, reporting | `resume_pending_rollbacks` and its event | `StartRecovery`, `ProceedRecovery`, `ReportRecovery`, `RecoveryAuditFails`, `FinishRecovery` |

`StartAppend` and `Recorded` are one append; an append that raises leaves its row
in the journal or not (`Raises`), and ends the operation where it is. `ProcessDies`
leaves the task WORKING for ever, as the code does.

**MCSagaLease**, **MCSagaCoordinator**, **MCGovernance** and **MCAuditedSaga** name
the sagas, requests, processes, policies and symmetry of the runs. The modules
whose names end in `Proofs` hold the theorems.

Operators commented "Mutant" in the modules are plausible bugs of the
definition that follows them (a dropped comparison, a forgotten "reverse", a
save in the wrong place). Put in its place, each makes TLC refute the property
that `PROJECT.json` pairs it with: the property depends on what the code does.

### What the models leave out, and why that is sound

- Acquiring the lease and reading the saga are one step, as are marking a
  rollback and listing its rows: no one else may write in between, and a stale
  read only leads to a refused write.
- The attempts of one call, with their delays, are one call. `CallFails` and
  `UndoFails` let each have had its effect or not. A check of the guard at a
  further attempt shows as `"lost"` or `UndoLost`.
- A request stands for the process that serves it; that two requests of one
  process share an owner is `SagaLease`'s business.
- A crash lets each call in flight land or not, at the moment of the crash. A
  call that lands later, after a compensation has run, is a property of the
  outside world; the code has no defence but the idempotency key.
- A successful compensation undoes its row's effect. (The file action does so
  only if its result was stored: section 6.)
- `checkpoint` appends to a list no other operation reads.
- Errors of the database itself, other than under the heartbeat, are left out: they
  end a request where a crash could, except that its guard is left in order.
- Branches of `run_ready_steps` that no reachable state takes (an input that
  failed validation after planning passed it, a row that is missing) are not
  there. A snapshot that the registry no longer resolves is (`RegistryDrift`).
- A workflow step's policy is read from its snapshot. A legacy step without one,
  whose policy cannot be established, is handed to an operator by the code: it
  behaves as mode "pause".
- The initial state is a saga just begun.
- In Governance a request's reads of the saga and of its rows, and its decisions
  on run control and on each node of the wave, are one step. Rules match on phase
  and risk: the other fields a rule can name (action, domain, roles, scopes,
  minimum risk) do not change between the requests of one caller on one kind of
  action, so that they select among documents and not within a run. What a
  reachable OPA server answers is any document's answer; one that does not answer
  is `unreachable`. The events `POLICY_DECISION` and
  `POLICY_SAFETY_OVERRIDE` are left out. Leases do not lapse and processes do not die there: the runs of
  SagaCoordinator have that.
- In AuditedSaga the events of a rollback's rows are one list (`Results`), read at
  the same moment as the status; the `WORKFLOW_NODE_*` events of a run are taken
  together with `WORKFLOW_RUN_COMPLETED`; the summaries of calls are queued in
  the order in which the calls return, and a thread that writes one holds its
  place in the pool. A task's request of the right to act, its parsing and the
  saga's tenant are one alternative (`RejectCommand`).
- SHA-256 of the canonical JSON is taken for injective. Paging of the journal,
  and lists by event type, read only.

## 3. What is checked

| Run | Question | Size |
|---|---|---|
| `lease` | three requests of two processes, over one saga that is granted twice and one that is granted once, each by itself or both in a recovery pass: tokens, refinement, journal order, and liveness of the heartbeat | 27 thousand states |
| `recovery` | one process, two nodes, all workflow operations, crashes anywhere, snapshots that do not resolve; refinement of SagaLifecycle | 740 thousand |
| `takeover` | two processes that stall, lose leases, overtake each other, crash and recover, with a row whose compensation may fail silently, over one node or over two steps executed outside the workflow; refinement of SagaLifecycle | 760 thousand |
| `governed` | two processes ask the policy before they lease, all operations, for actions with and without a gate and callers that want, waive or leave it, while the policy changes between four documents that weigh differently | 947 thousand |
| `service` | two tasks execute, commit and roll back, with their events, failing appends and dying processes | 805 thousand |
| `tasks` | two tasks run a planned workflow: what is announced, and that each of them ends, under fairness | 221 thousand |
| `stranded`, `uncertain_commit`, `undone_commit`, `silent_failure`, `step_budget`, `new_demand` | statements of the documentation that the code does not keep (section 5) | small |

### Properties

- `TokensUnique`: no two requests at work on a saga hold the same token and none
  is ahead of the row's. `JournalMonotone`: accepted writes never go back to an
  older grant. `StaleNoticed`: an overtaken guard does not pass its checks for
  ever. `ImplementsFencedLease`, `OnlyNewestWrites`: rows and tokens implement
  FencedLease.
- `Eligible`: in an open saga a node is ready, executing or completed only with
  its dependencies completed and its approval given.
- `CallsAreJournaled`: while the newest grantee has a forward call out, the row
  is executing in the journal, and so is its node, eligible, in an active saga.
- `CompletedNodesBacked`: a completed node's row completed, and has at most been
  compensated since.
- `ReverseOrder`: a row is compensated only when every later row is, or has been
  tried and failed. Later is by the rows' sequence, which is that of first
  executions: a row that a retry uses again (`coordinator.py` 555) keeps its number.
- `RolledBackClean`: a rolled back saga has no row that is not compensated.
  `RolledBackUndone`: nor, if nobody outlives a lease, any effect in the world.
  These three except the rows of `EmptyMessages`, whose compensation may fail in a
  way the code takes for success (section 5).
- `ImplementsLifecycle`: the processes together, whatever becomes of them,
  implement SagaLifecycle. It says at once that no step begins outside an active
  saga, that a rollback neither forgets a row nor fails without one that is stuck,
  and that no process that was overtaken disturbs any of it.
- `TerminalFinal`: a committed or rolled back saga never changes again.
- `PlannedBudget`: a saga's nodes exceed the largest budget by no more than one for
  each further request that was under way.
- `RiskBudget`: at any time one of the policies finds the risk of a saga's nodes and
  of its steps outside the workflow, as it weighs them itself, within its own
  budget and one heaviest action for each further request. More cannot be said: a
  revision that weighs more, or sets less, takes standing nodes past its own budget
  with nobody at work, and then denies all that costs until it is replaced.
- `DemandedApproval`: a node for which approval was demanded, by its definition, its
  caller or the policy of that day, starts only once approved, whatever policy
  came after. Nodes whose caller waived the definition's gate are left out, also
  where the policy had demanded approval: the code plans these without a gate,
  which is a finding (`new_demand`, section 5).
- `ChainIntact`: the journal is a valid chain at any time, whatever its
  writers do, fail at or die of. `TamperEvident`: a row altered, deleted before
  the end or swapped is found by `verify_audit_chain`, in every journal that
  finished tasks leave behind.
- `EvidenceTrue`: an event that closes a saga (`SAGA_COMMITTED`,
  `ROLLBACK_COMPLETED`) is true of the saga, now and ever. A `ROLLBACK_FAILED`
  closes nothing, and may be appended after another process finished the rollback.
- `EffectsAnnounced`: no task reaches the outside world before the operation
  that causes it is in the journal. The compensations of a recovery have no
  announcement and are exempt.
- `CompletedTasksEvidenced`: a task is COMPLETED only if the journal holds the
  closing event of its operation.
- `TasksEnd`: a task that a living process took up ends, and so does a recovery,
  whatever happens to its lease, its calls and the journal. (`ProcessDies` ends
  the request, and leaves the task in WORKING: nothing in `a2a_server.py` takes it
  up again.)

### Bounds

- `MaxFence` caps the tokens of `SagaLease`, per saga (`Fences` of MCSagaLease): 2
  for one of them, so that a request is overtaken once, by another process or by
  its own, and 1 for the other, which a recovery pass may lease along with it.
  `ClaimLimit` is the
  `limit` of a recovery pass (100 in the code): 2 is the first value at which one
  claim waits for another.
- Two requests of one process and one of another cover both ways of being
  overtaken. Two processes in the coordinator's runs are an old and a new
  owner; an old one that returns becomes a third.
- `OneFamily` keeps `takeover` to two families of behaviours: sagas with a node,
  and sagas with steps outside the workflow, whose mode is "rollback". A saga that
  has both is in `governed`.
- `Node`: two nodes give a dependency in both dictionary orders, a wave of two,
  and a second wave. `Row`: as many rows as nodes, since a retry reuses its row.
  `Room` starts forward work only
  while its rows exist: it caps the number of steps and nothing else.
- `max_steps` and `max_parallel` range over 1 to the number of nodes.
- `Ops`, `Gates`, `FailureModes` choose which operations are called, whether
  nodes need approval, and how their failure is handled. In `recovery` every node
  is gated: a node that was approved keeps its approval and then moves like one
  without a gate; ungated nodes are those of `takeover` and `tasks`.
- `Stalls` FALSE keeps a living process's lease alive; a crash then still leaves a
  lease that lapses, or does not before the restart. `RolledBackUndone` is stated
  for such runs only: the calls of a process that has lost its lease are beyond
  the reach of a fencing token.
- `Definitions` are the actions in use (risk level, own gate), `Wishes` what
  callers say of approval; `governed` has both gates and all three wishes, at one
  risk level. `Gates` is BOOLEAN under governance, since a policy can gate any node.
- `Policies` are the documents of a run. The four of `governed` (MCGovernance) are
  a tenant whose rule allows everything within budgets of 1 that stand before a
  wildcard's of 9; one without rules whose threshold asks for approval, which
  weighs the same actions as 3 and has a risk budget of 3, with a wildcard that
  denies retries; one that allows commits before the wildcard denies everything; and an
  engine that cannot be reached. With budgets of 1 one action uses a budget up and
  two requests can both fit it; the third node is there for a wrong comparison
  to plan. `step_budget` has a budget of one step and a chain of two nodes.
  `new_demand` has a document that demands approval of what is planned, and one that
  demands it of what is run and plans nothing.
- `MaxFaults` is the number of deaths and failed appends: one is enough to leave
  an operation at each of its stages, with its row in the journal or not, and the
  saga to the other process. `MaxEvents` stops recoveries on a long chain: a
  process starts only while the chain is shorter. Requests serve one task each,
  which bounds everything else.
- `EmptyMessages` are the rows whose compensation may fail with an empty message:
  in `takeover` the older of two, so that the failure is met behind a row that is
  undone and as the only one. In `recovery` there are none: with them `Eligible`
  does not hold for three nodes (section 5), and is checked, as it is proved, for
  sagas whose failures have messages. `RegistryDrift` switches on snapshots that do not
  resolve, in a run and in a rollback.

Deadlock is not an error in these runs: a saga that is closed with nobody at work,
or a full token range, rightly stops.

### Fairness

`SagaLease!FairSpec` assumes weak fairness of `HeartbeatRefused` alone: the
heartbeat thread of a guard runs every third of the lease and asks the store.
`AFairSpec` of AuditedSaga assumes, for each process, weak fairness of its own
steps (`AStep`): a process that is up goes on, its calls return (they have time
limits and bounded attempts), a transaction commits, and a refused write or
failed check ends the operation. It assumes strong fairness of `StartAppend`, the
entry into an append: the lock of the journal is free again and again, and a
request that waits gets it, in its turn in PostgreSQL, by SQLite's repeated
attempts within its busy timeout. Weak fairness would not do: a process that starts, fails to append the event of its
recovery and starts again, for ever, could be the one that holds the lock
whenever the other looks. Nothing is assumed of leases lapsing,
heartbeats failing, appends raising, crashes, restarts, or callers asking.

## 4. What is proved

For arbitrary sets of sagas, requests and processes (`SagaLeaseProofs`), from
`SagaLeaseAssumption` (requests map to processes; the null values are no members):

- `TypeCorrect`, `TokensAreUnique`, `JournalNeverGoesBack`,
- `FencingRefinement`: `Spec => ImplementsFencedLease`, the refinement of
  FencedLease for every saga at once,
- `OnlyNewestGranteeWrites`.

The inductive invariant is `IInv`: types, `TokensUnique`, `JournalBound` (no
accepted write carries a token newer than the row's) and `OwnerIsNewest` (while
the request whose token equals the row's is at work, the row names its process).
`TokensUnique` is what makes "the newest grantee" well defined. It is not enough
for the refinement: `release_saga_lease` compares the owner as well as the
token, and only `OwnerIsNewest` shows that the newest grantee's own release does
clear the row, while everybody else's does not. `JournalBound` turns the token
check into monotonicity. One lemma per action then shows that a step of SagaLease
is a step of FencedLease, or a stutter, for each saga.

For any number of processes, nodes and rows, from `NoRequestAssumption`,
`OpsAssumption`, `WorkflowAssumption` and `CoordinatorAssumption` (the sets of
nodes and rows are finite, their members positive numbers), each module on the
invariants of those before it:

| Module | Theorem | Statement |
|---|---|---|
| `SagaCoordinatorProofs` | `CoordinatorTypes` | `Spec => []TypeOK` |
| | `ClosedForGood` | `Spec => TerminalFinal` |
| `SagaLifecycleProofs` | `NothingLeftBehind` | `Spec => []RolledBackClean` |
| | `CompensatesInReverse` | `Spec => ReverseOrder` |
| | `LifecycleRefinement` | `Spec => ImplementsLifecycle` |
| `SagaWorkflowProofs` | `CompletedWorkIsBacked` | `Spec => []CompletedNodesBacked` |
| | `CallsFollowTheJournal` | `Spec => []CallsAreJournaled` |
| `SagaEligibilityProofs` | `OnlyEligibleNodesStart` | `EmptyMessages = {}` gives `Spec => []Eligible` |
| | `NoEffectLeftBehind` | `~Stalls` gives `Spec => []RolledBackUndone` |
| | `NothingStartsUnapproved` | `Spec => []ApprovedFirst` |
| | `NoGateIsLost` | `Spec => GatesStay` |

- `TypeInv` (`CoordinatorTypes`). What is not plain in it is the budget of a run, a
  natural number that `SaveWave` reduces by the size of a wave: `WavesFit` carries
  that the nodes still to prepare and the rows already due are together no more
  than the budget.
- `OpenInv` (`ClosedForGood`): the newest grantee is past admission only on an open
  saga. Admission is checked once, at the start of a request, and trusted through
  all its writes; it stays true because whoever else could change the status has
  to be the newest grantee. `WritersWork` adds that every change of the journal
  comes from a newest grantee past admission.
- `RollbackInv` adds `QueueOK`: while the newest grantee unwinds, every row outside
  its queue is compensated, or has failed and the rollback is known to be
  `broken`. The queue was read once at the start; it stays right because every
  write to a row needs the newest grant, and a grant that is passed on ends the
  claim that anything is made about the old queue. `FinishRollback` then finds an
  empty queue, and the highest row of the queue has only settled rows above it.
- `LifeInv` (`LifecycleRefinement`) adds which statuses the newest grantee may find
  at each place of its request (`Expected`), that its queue holds only rows to
  compensate, and that a broken rollback has a row to show for it (`Listed`). One
  lemma per group of actions maps each step to a step of SagaLifecycle or to a
  stutter.
- `WorkInv` adds `WorkOK`, which relates three copies of the work: the nodes of the
  journal and the rows (`Backed`: what a node says of its step, the row shows), the
  workflow in the newest grantee's memory (`ViewOK`: the same as the persisted one
  until it is changed, ahead of it and still backed by the rows afterwards), and
  the calls (`Journaled`: a call that is due has its row, its node in memory and,
  once the wave is saved, its persisted node EXECUTING). None of the three can be
  proved without the others: a node is saved as completed because the row of its
  call was settled, and that row was prepared for the node that the wave saved.
- `SoundInv` (`OnlyEligibleNodesStart`) says `Sound`, eligibility without a look at
  the saga's status, of the journal and of the copy in memory. Two facts about the
  pure engine carry it: a single refresh pass in any order leaves a sound workflow
  sound (`Refreshes`), and a node that changes to something startable was allowed
  to (`MayStart`), while no one takes a COMPLETED away from a node that others
  rest on. The exception is the end of a rollback. `NodesSound` therefore lets go of
  a workflow that is rolled back, provided no node executes: then no recovery pass
  takes the saga forward again. With silent failures that proviso is lost, and so
  is the property (section 5): the assumption is not for the proof's convenience.
- `UndoneInv` (`NoEffectLeftBehind`) adds `Held` (a guard that is held is the newest
  grant) and `Standing` (an effect that stands belongs to a row that a rollback
  would list, and is gone when the row is about to be recorded). `~Stalls` is what
  `Held` is: the calls of a process that lives on without its lease are beyond the
  reach of a fencing token: "they cannot make independent external systems
  exactly-once" (`docs/distributed_durability.md` 84).
- `KeepInv` (`NothingStartsUnapproved`, `NoGateIsLost`) says that the copy in memory
  follows the journal's, node by node (`Keeps`): planned nodes stay planned, gates
  stay, a gated node that starts is approved. It assumes nothing of failures.

For any policies (`GovernanceProofs`), from `GovernanceAssumption` as well:

- `GovernedIsCoordination`: `GSpec => Spec`. Governance adds no behaviour, so that
  every theorem above holds of governed sagas. It needs `PermitOK`: a permit holds
  what the coordinator may be asked, in the ranges it is asked in.
- `GovernedTypes`: `GSpec => []GTypeOK`.
- `DemandStands`: `GSpec => []DemandedApproval`, by `NothingStartsUnapproved`,
  `NoGateIsLost`, and that what was demanded was planned with a gate. The last is
  a case analysis over definition, wish and decision (`AskedPermit`): a permit that
  carries a demand makes the coordinator set the gate. It fails for a waived gate,
  which is why `demanded` leaves these out.
- `PlannedWithinBudget`: `GSpec => []PlannedBudget`, for finitely many requests.
  The inductive invariant `PlansInHand` counts the nodes planned together with the
  permits to plan that are still out: a permit is given when there is a node less
  than the budget, at most `Cardinality(Request) - 1` others are out by then, and
  each is worth one node.
- `RiskWithinBudget`: `GSpec => []RiskBudget`, for a finite set of requests that is
  not empty (otherwise `Late` is -1), any policies, and any weights of theirs. What
  is put to a policy is `Bears(W)`, under its weights: the risk of the nodes and of
  the rows outside the workflow (`TotalRisk`) and that of what is permitted and not
  yet done (`Carried`). The inductive invariant `RisksInHand` says that some policy
  finds `Bears` within its budget and the further requests' heaviest actions. Which
  one it is changes: a step that adds risk is a permit, and the policy that gives
  it has just found everything that stands, and the new action, within its own
  budget (`LetsIn`), so that it takes the place of the one before; every other step
  keeps `Bears` or lowers it under all weights, and a change of the policy does not
  touch it. Unlike a count, the total moves with every step of a saga: `RowRisks`
  and `PermitRisks` say which risks can be met at all, `UsageCovers` that the usage
  put to the policy is never less than the total (a row of a node is not counted
  again), and `RiskReweighed` what a sum gains when one weight changes. A permit to
  plan moves its weight from the request to the node, a permit to execute from the
  request to the row. The sum of weights over a set is taken as the number of
  its points (`Points`, up to `Top(W)` for each element; `RiskCounts`): then a change
  of the sum is a change of a cardinality, which the library's facts on finite sets
  settle. Only that the two agree, and that the heaviest weight is one (`GreatestOf`),
  needs a set smaller than any other (`SmallestSet`), by the well-foundedness of
  strict inclusion and without an induction theorem.

For any number of appenders, sets of events and lengths of the chain
(`AuditChainProofs`):

- `ChainInvariant`, `AlwaysValid`: the chain is valid at any time. The invariant
  needs `Alone` (one appender is inside the lock) and `FollowsHead` (what it read is
  still the head when it inserts).
- `AlwaysDetected`: `Verify` fails on the chain with any one row altered, deleted
  before the last, or any two swapped. `Depths` (a hash at place i depends on i
  events) and `HashInjective` carry the argument.

For any number of requests and faults (`AuditedSagaProofs`), from
`AuditedAssumption` and the coordinator's:

- `TasksKeepTheJournal`: `ASpec => Chain!ACSpec`. The service is an implementation of
  AuditChain, so that what is proved there holds of it; `JournalStaysValid`
  (`ChainIntact`) and `DamageIsFound` (`TamperEvident`, at any time and not only
  between tasks) say it in the terms of the service.
- `ServiceTypes` (`ATypeOK`), `EvidenceIsTrue` (`EvidenceTrue`),
  `EffectsFollowTheirRequest` (`EffectsAnnounced`), `CompletedLeavesEvidence`
  (`CompletedTasksEvidenced`).

The inductive invariant `ServiceInv` has, for each request: `SaysOK`, what it has
said at each stage and what it still has to say; `PlacesOK`, where its coordinator
is meanwhile (a forward call is out only inside execute or run); `OutcomeOK`, that
an operation which will be reported as a success has its closing event appended
or among those to append; and `TruthOK`, that an event about the end of the saga
which is still to be appended is true of the saga already. `EvidenceTrue` is not
inductive without `TruthOK`, nor `TruthOK` without `OpenInv`: the saga must not leave
its final status between the look at it and the append, which no lease protects.
`OutcomeOK` for commit needs that a commit which has not failed neither rolls back
nor looks at the status again. The coordinator's half, that its places move as the
stages expect, is `Moves`, one lemma per group of its actions.

The second half carries what is proved of the coordinator over to its service:

| Theorem | Statement |
|---|---|
| `ServiceRunsTheCoordinator` | `ASpec => [][Next \/ \E w \in Request : Beside(w)]_vars` |
| `ServiceClosesForGood` | `ASpec => TerminalFinal` |
| `ServiceLeavesNothing` | `ASpec => []RolledBackClean` |
| `ServiceCompensatesInReverse` | `ASpec => ReverseOrder` |
| `ServiceKeepsTheLifecycle` | `ASpec => ImplementsLifecycle` |
| `ServiceBacksCompleted` | `ASpec => []CompletedNodesBacked` |
| `ServiceJournalsCalls` | `ASpec => []CallsAreJournaled` |
| `ServiceStartsEligible` | `EmptyMessages = {}` gives `ASpec => []Eligible` |
| `ServiceUndoes` | `~Stalls` gives `ASpec => []RolledBackUndone` |
| `ServiceAwaitsApproval` | `ASpec => []ApprovedFirst` |
| `ServiceLosesNoGate` | `ASpec => GatesStay` |

AuditedSaga does not implement SagaCoordinator as it stands: an append that
raises inside an operation ends it where the coordinator alone would not. The
theorems therefore do not follow from the coordinator's own. `Beside` names what
is new, and there are two cases: `GivesUp`, a failed append that ends a request
while it is between two leases or over with its recovery (the announcement of a
rollback, the events of a recovery), and `LosesResult`, a summary that fails
(`SummaryFails`) and takes the result of its call along. `ServiceMoves` shows that
every other step of the service is a step of SagaCoordinator or leaves its state
alone. It needs `HeardInv` (a recovery that is reported is over; a summary that is
still to be appended is that of a call that was made): only that places a failing
append where it can do no more than these two. Each of the coordinator's
invariants is then shown to survive `Beside` as well (`BesideLife`, `BesideWork`,
`BesideSound`, `BesideKeep`, `BesideUndone`): in a run a lost result is settled as a
failed call, outside one it leaves its row EXECUTING; a rollback lists the row in
either case. `CarriedInv`, the conjunction of `ServiceInv`, `HeardInv`, `KeepInv`
and `ApprovedFirst`, is inductive. `SoundInv` and `UndoneInv` are carried over under
the same assumptions as before. `ServiceFounded` is the start: a service may begin with its
nodes planned and ready, where the coordinator begins with none.
`AuditedAssumption` asks for a node if runs are called, since a run must ask for a
positive number of steps.

Only model-checked: the liveness properties `StaleNoticed` and `TasksEnd`. Liveness
under fairness and ENABLED are out of the provers' reach.

## 5. What the code does not keep

Each of these runs ends in a violation, and stands for a disagreement between the
code and what the repository says of it (quoted in `PROJECT.json`):

- `stranded` (`NoneStranded`): `run_ready_steps` settles the rows of a wave and
  saves the nodes afterwards (610-630). A process that dies in between leaves
  nodes EXECUTING in an ACTIVE saga without an EXECUTING row. Recovery does not
  select the saga, no operation touches the nodes, and `commit` refuses; rollback
  is the only way out. `docs/workflow_engine.md` says such a node is marked
  failed with `uncertain_outcome`.
- `uncertain_commit` (`NoUncertainCommit`): recovery runs once, at startup. A
  process that is back before its own lease lapses finds the saga leased; later
  the saga can be committed over a step that is still EXECUTING, because `commit`
  looks at workflow nodes only.
- `undone_commit` (`NoUndoneCommit`): a rollback interrupted half-way, with a
  pause node still EXECUTING in the workflow, becomes RECOVERY_REQUIRED. Rows
  already compensated stay under COMPLETED nodes, and after a retry the saga can
  be committed with them.
- `silent_failure` (`FailuresVisible`): `if last_error:` takes
  an exception with an empty text for success; the saga becomes ROLLED_BACK over a
  row that was not compensated. The harm does not end there: the node of such a row
  stays COMPLETED over a dependency that the same rollback took back; if another
  compensation fails with a message, and a pause node was cut off by a crash, the
  next recovery pass hands this saga to an operator as RECOVERY_REQUIRED. (TLC finds
  the way to it for three nodes, in 47 steps: two nodes after a first one, with
  rows 2 and 3 in `EmptyMessages`. It is why `OnlyEligibleNodesStart` has an
  assumption.)
- `step_budget` (`StepBudget`): `run_ready_steps` of `governance.py` (277) holds the
  first wave against the step budget, and the coordinator then runs wave after
  wave. One request, with nobody else at work, creates more steps than
  `max_steps_per_saga`; `commit` is then denied by the same budget.
  `docs/policy_governance.md` calls these budgets hard.
- `new_demand` (`NewDemandStops`) shows two. First, the gate of an action whose
  definition asks for approval can be waived: `plan_step` of `governance.py` tells the
  policy that approval is given (`already_required`, 241), so that its
  `require_approval` becomes "allow" and the caller's argument stays as it is; the
  coordinator (`coordinator.py` 318) gates the node on that argument, and with an
  explicit `approval_required=False` there is no gate at all, under a document that
  demands one of every plan. `docs/policy_governance.md` (169) says that governance
  can add a gate but never remove one. Second, `run_ready_steps` (289) takes a node
  without a gate for an approved one, so that a document that newly demands approval
  of the run gets "allow" as well, while line 174 of the same page says that a newly
  required approval stops execution. In the run every action is gated and every
  caller says no; the first document demands approval at planning, the second at
  the run and plans nothing: with either defect mended the property would hold of
  it. `DemandedApproval` leaves waived nodes out for this reason.

One more was met while reading and has no run: `docs/workflow_engine.md` (74) says
that approving a rejected node again requires an explicit retry or reset, while
`approve_step` (389) accepts a node that is REJECTED; the models follow the code.

## 6. Not modelled, and the plan

Open, and the next thing to do: an abstract specification of the lease and the
coordinator together, so that SagaLease's batches and SagaCoordinator's writes meet
in one statement.

Hazards in the list that no property covers, and why:

- `update_step` of PostgreSQL (`store.py` 595-615) compares the token through a join
  that locks the step row only, so that a statement which began before a takeover
  may be applied after it. The models take every store call as one transaction;
  what the join does under READ COMMITTED is a question about the database.
- A crash between the save of a failed node and the saga's status leaves the
  saga ACTIVE, and nothing in the documentation says what should follow.
- The file action (`actions.py` 149-196) deletes only with a stored result. The
  models say what follows from compensations that answer truthfully; that one does
  not, and its own two steps need no exploration to see it.
- A process that has not noticed the loss of its lease may still make calls
  (`coordinator.py` 184). `CallsAreJournaled` and `RolledBackUndone` are about processes
  that hold the newest grant: fencing protects the journal, not other systems.
- Nodes that become ready after a run was permitted (`governance.py` 286) are run
  without a look at the policy of the day. The model has these steps; the property
  about nodes that are asked about fails already.
- Recovery reports `RECOVERY_COMPLETED` also for a saga that it left in
  ROLLBACK_FAILED (`instrumented_coordinator.py` 366); no document says what the event
  means for such a saga.
- Telemetry contexts of parallel runs, and the time zone of `created_at` in a hash,
  lie below what the models tell apart.

Left out for good, as they keep no state that sagas depend on, or none that
changes after the start: the action registry (definitions are loaded at the start;
what can happen later, a snapshot that no longer resolves, is `RegistryDrift`),
policy normalisation and retry delays (`engine.py` 16-65), HTTP templates and the
HTTP table, JWT verification and the role table, secrets look-up, OpenTelemetry
export, JSON-RPC framing, agent cards, and command lines.

## 7. Running

```
tlc -config MCSagaLease.cfg MCSagaLease.tla
tlc -config MCRecovery.cfg MCSagaCoordinator.tla
tlapm SagaLeaseProofs.tla
```

The module of each `.cfg` is in `PROJECT.json` under `runs`. The largest runs take
two to four minutes on two cores; the proofs from half a minute to a quarter of an
hour each.
