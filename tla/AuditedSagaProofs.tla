-------------------------- MODULE AuditedSagaProofs --------------------------
(***************************************************************************)
(* For any number of processes, nodes and rows, any faults: the tasks of a *)
(* saga write a journal as AuditChain has it, so that it is a valid chain  *)
(* in which damage is found; what the journal and the tasks say is true of *)
(* the saga, and what is done was asked for in the journal first.  What is *)
(* proved of the coordinator holds of it under its tasks.                  *)
(*                                                                         *)
(* The invariant, ServiceInv, ties three places together for each request: *)
(* the events its task has still to append (SaysOK, TruthOK), where the    *)
(* coordinator is meanwhile (PlacesOK), and the outcome that the task will *)
(* report (OutcomeOK).  A process keeps its own share with each of its     *)
(* steps (Served); the others keep theirs, since the journal only grows    *)
(* and a closed saga stays closed (OthersServed).                          *)
(*                                                                         *)
(* The invariants of the coordinator carry over (CarriedInv), since a step *)
(* of the service is one of the coordinator's, none of it, or one of two   *)
(* faults (ServiceMoves) that take nobody closer to a write.               *)
(***************************************************************************)
EXTENDS AuditedSaga, SagaEligibilityProofs

Chain == INSTANCE AuditChainProofs WITH Appender <- Request, Event <- Entry

Serving == {"before", "inside", "midway", "unwinding", "look", "after"}
Ahead == {"execute", "run", "prepare", "calls"}

Asked(w) == \A i \in DOMAIN Announcement(Op(w)) : InChain(Announcement(Op(w))[i].kind, w)

(* What a process has said, and what it has still to say: an operation is  *)
(* announced before it starts, a rollback before it unwinds; the row that  *)
(* is being appended is that of the next event.                            *)
SaysOK(w) ==
  /\ At(w, Serving) => Op(w) \in Ops
  /\ At(w, {"idle", "unwinding", "look", "recovery", "recovered"}) => Said(w)
  /\ At(w, {"before"}) => task[w].todo = Announcement(Op(w)) \/ (Said(w) /\ Asked(w))
  /\ At(w, {"inside", "midway", "unwinding", "look"}) => Asked(w)
  /\ At(w, {"midway"}) => \/ task[w].todo = Only("ROLLBACK_REQUESTED")
                          \/ Said(w) /\ InChain("ROLLBACK_REQUESTED", w)
  /\ At(w, {"unwinding"}) => InChain("ROLLBACK_REQUESTED", w)
  /\ \A row \in inserting[w] :
       /\ ~Said(w)
       /\ row.event = [kind |-> task[w].todo[1].kind, row |-> task[w].todo[1].row, by |-> w]

(* Where the coordinator is meanwhile.                                     *)
OutCalls == {"due", "flight"}
CallsPlaced(w) == InPhase(w, OutCalls) # {} => pc[w] \in {"prepare", "calls"}

PlacesOK(w) ==
  /\ pc[w] \in Ahead => At(w, {"inside"}) /\ Op(w) \in {"execute", "run"}
  /\ CallsPlaced(w)
  /\ At(w, {"inside"}) /\ ~Said(w) => pc[w] = "calls"
  /\ At(w, {"midway"}) => pc[w] = "again"

Promised(kind, w) ==
  InChain(kind, w) \/ \E i \in DOMAIN task[w].todo : task[w].todo[i].kind = kind

(* An operation that succeeds closes with its event; a commit that has not *)
(* failed has committed when it returns.                                   *)
OutcomeOK(w) ==
  /\ Op(w) = "rollback" /\ At(w, {"inside"}) => task[w].out # "ok"
  /\ Op(w) = "commit" /\ task[w].out = "ok" =>
       /\ ~At(w, {"midway", "unwinding", "look"})
       /\ At(w, {"inside"}) =>
            \/ pc[w] = "commit"
            \/ pc[w] = "exit" /\ ~job[w].again /\ saga = "COMMITTED"
  /\ At(w, {"after"}) /\ task[w].out = "ok" =>
       IF Op(w) = "rollback"
       THEN Promised("ROLLBACK_COMPLETED", w) \/ Promised("ROLLBACK_FAILED", w)
       ELSE Promised(Closing[Op(w)], w)
  /\ task[w].state = "COMPLETED" =>
       IF Op(w) = "rollback"
       THEN InChain("ROLLBACK_COMPLETED", w) \/ InChain("ROLLBACK_FAILED", w)
       ELSE InChain(Closing[Op(w)], w)

(* What a process has still to say is true of the saga.                    *)
TruthOK(w) ==
  \A i \in DOMAIN task[w].todo :
    /\ task[w].todo[i].kind = "SAGA_COMMITTED" => saga = "COMMITTED"
    /\ task[w].todo[i].kind = "ROLLBACK_COMPLETED" => saga = "ROLLED_BACK"

ServeOK(w) == SaysOK(w) /\ PlacesOK(w) /\ OutcomeOK(w) /\ TruthOK(w)

TasksOK == task \in [Request -> TaskType] /\ faults \in 0..MaxFaults

ServiceInv ==
  /\ TypeInv /\ OpenInv /\ TasksOK
  /\ Chain!ChainInv
  /\ \A w \in Request : ServeOK(w)
  /\ EvidenceTrue

-----------------------------------------------------------------------------
(* The records of a task.                                                  *)

Outs == {"ok", "error", "broken"}

LEMMA ItemTypes ==
  /\ \A kind \in Kinds, r \in Row \cup {0} :
       Item(kind, r) \in Items /\ Item(kind, r).kind = kind /\ Item(kind, r).row = r
  /\ \A kind \in Kinds : Only(kind) \in Seq(Items) /\ Only(kind) # <<>>
  /\ \A kind : Len(Only(kind)) = 1 /\ DOMAIN Only(kind) = {1} /\ Only(kind)[1].kind = kind
BY DEF Items, Item, Only

LEMMA AnnouncementType == \A op : Announcement(op) \in Seq(Items)
BY ItemTypes DEF Announcement, Kinds

LEMMA ReportType ==
  ASSUME NEW op \in Operations, NEW out \in Outs
  PROVE  Report(op, out) \in Seq(Items)
<1>1. op # "rollback" => Closing[op] \in Kinds
      BY DEF Closing, Operations, Kinds
<1>2. QED
      BY <1>1, ItemTypes DEF Report, Kinds

LEMMA TriedResults ==
  \A results \in Results :
    results \in Seq(Items) /\ \A i \in DOMAIN results : results[i].kind = "COMPENSATION_RESULT"
<1> SUFFICES ASSUME NEW results, results \in Results
             PROVE  /\ results \in Seq(Items)
                    /\ \A i \in DOMAIN results : results[i].kind = "COMPENSATION_RESULT"
    OBVIOUS
<1>1. Cardinality(Tried) \in Nat /\ Tried \subseteq Row
      BY FiniteParts DEF Tried
<1>2. PICK rows \in [1..Cardinality(Tried) -> Tried] :
        results = [i \in DOMAIN rows |-> Item("COMPENSATION_RESULT", rows[i])]
      BY DEF Results, InOrder
<1>3. DOMAIN results = 1..Cardinality(Tried)
      BY <1>2
<1>4. ASSUME NEW i \in 1..Cardinality(Tried)
      PROVE  results[i] \in Items /\ results[i].kind = "COMPENSATION_RESULT"
      BY <1>1, <1>2, ItemTypes DEF Kinds
<1>5. results = [i \in 1..Cardinality(Tried) |-> results[i]]
      BY <1>2
<1>6. QED
      BY <1>1, <1>3, <1>4, <1>5

(* A step of one task.                                                     *)
LEMMA TurnType ==
  ASSUME TasksOK, NEW w \in Request, NEW stage \in Stages, NEW todo \in Seq(Items),
         NEW out \in Outs, Turn(w, stage, todo, out)
  PROVE  /\ task' \in [Request -> TaskType]
         /\ \A v \in Request \ {w} : task'[v] = task[v]
         /\ task'[w].stage = stage /\ task'[w].todo = todo /\ task'[w].out = out
         /\ task'[w].op = task[w].op /\ task'[w].state = task[w].state
<1> DEFINE t == [task[w] EXCEPT !.stage = stage, !.todo = todo, !.out = out]
<1>1. task \in [Request -> TaskType] /\ task' = [task EXCEPT ![w] = t]
      BY DEF Turn, TasksOK
<1>2. /\ t \in TaskType /\ t.stage = stage /\ t.todo = todo /\ t.out = out
      /\ t.op = task[w].op /\ t.state = task[w].state
      BY <1>1 DEF TaskType, Items, Outs
<1> HIDE DEF t
<1>3. QED
      BY <1>1, <1>2

LEMMA TaskFields ==
  ASSUME TasksOK, NEW w \in Request
  PROVE  /\ task[w] \in TaskType /\ task[w].todo \in Seq(Items) /\ task[w].out \in Outs
         /\ task[w].stage \in Stages /\ task[w].op \in Operations \cup {"none"}
         /\ task[w].state \in {"none", "WORKING", "COMPLETED", "REJECTED", "FAILED"}
BY DEF TasksOK, TaskType, Items, Outs

-----------------------------------------------------------------------------
(* The coordinator under its tasks.                                        *)

LEMMA RaisesMidway ==
  ASSUME NEW w \in Request, Raises(w), SaysOK(w)
  PROVE  ~Said(w) /\ inserting' = [inserting EXCEPT ![w] = {}]
         /\ (chain' = chain \/ \E row \in inserting[w] : chain' = Append(chain, row))
BY DEF Raises, Audit!Abort, Audit!Insert, SaysOK

(* The steps that are the coordinator's own, or none of it.                *)
LEMMA OwnSteps ==
  ASSUME NEW w \in Request
  PROVE  /\ (\E r \in Row : CallStarts(w, r) \/ CallReturns(w, r)) => Work(w)
         /\ Proceed(w) => Work(w)
         /\ ProceedRecovery(w) => Work(w)
         /\ StartRecovery(w) => Claim(w)
         /\ NothingToRecover(w) => NothingToClaim(w)
         /\ ProcessDies(w) => Crash(w)
<1>1. (\E r \in Row : CallStarts(w, r) \/ CallReturns(w, r)) => Work(w)
      BY DEF CallStarts, CallReturns, Work, RunForward
<1>2. Proceed(w) => Work(w)
      BY DEF Proceed, Work, RunForward
<1>3. QED
      BY <1>1, <1>2 DEF ProceedRecovery, Work, StartRecovery, NothingToRecover, ProcessDies

LEMMA Untouched ==
  ASSUME NEW w \in Request,
         \/ \E op \in Ops : Submit(w, op)
         \/ RejectCommand(w) \/ TurnedAway(w) \/ Conclude(w) \/ StartAppend(w) \/ Recorded(w)
         \/ Look(w) \/ ReportRecovery(w) \/ FinishRecovery(w)
  PROVE  UNCHANGED vars
BY DEF Submit, RejectCommand, TurnedAway, Conclude, StartAppend, Recorded, Look, ReportRecovery,
       FinishRecovery

(* An operation that is taken up is one that the coordinator begins.       *)
LEMMA EnterBegins == ASSUME NEW w \in Request, SaysOK(w), Enter(w) PROVE Next
<1>1. Begin(w, Op(w), IF Op(w) = "run" THEN 1 ELSE 0, 1) /\ Op(w) \in Ops
      BY DEF Enter, SaysOK, Serving, At
<1>2. Op(w) = "run" => 1 \in Limits
  <2>1. Op(w) = "run" => Node # {}
        BY <1>1, AuditedAssumption DEF AuditedAssumption
  <2>2. Cardinality(Node) \in Nat /\ (Node # {} => Cardinality(Node) # 0)
        BY CoordinatorAssumption, FS_CardinalityType, FS_EmptySet DEF CoordinatorAssumption
  <2>3. QED
        BY <2>1, <2>2 DEF Limits
<1>3. CASE Op(w) = "run"
      BY <1>1, <1>2, <1>3 DEF Next
<1>4. CASE Op(w) # "run"
      BY <1>1, <1>4 DEF Next
<1>5. QED
      BY <1>3, <1>4

Kept == TypeInv' /\ OpenInv' /\ (saga \in Final => saga' = saga)

LEMMA NextKeeps == ASSUME TypeInv, OpenInv, [Next]_vars PROVE Kept
BY TypeStep, OpenStep, FinalStays DEF Kept, journal

(* A failed append that frees the process, or takes it down.               *)
LEMMA FreedKeeps ==
  ASSUME TypeInv, OpenInv, NEW w \in Request, NEW l \in {"idle", "down"}, Goto(w, l),
         UNCHANGED <<leaseVars, journal, job, applied>>
  PROVE  Kept
<1>1. JobsOK'
      BY PlaceStep DEF Goto, TypeInv, Locals
<1>2. TypeInv'
      BY <1>1, SameLease, SameJournal DEF TypeInv, JournalOK
<1>3. OpenInv'
      BY StepOfOne DEF Goto, leaseVars, journal, Locals, Working
<1>4. QED
      BY <1>2, <1>3 DEF Kept, journal

LEMMA CoordinatorKeeps == ASSUME ServiceInv, [ANext]_avars PROVE Kept
<1>0. /\ TypeInv /\ OpenInv /\ \A w \in Request : SaysOK(w) /\ PlacesOK(w)
      BY DEF ServiceInv, ServeOK
<1>1. CASE LeaseEnds \/ UNCHANGED avars
      BY <1>0, <1>1, NextKeeps DEF LeaseEnds, avars, Next
<1>2. ASSUME NEW w \in Request,
             \/ \E op \in Ops : Submit(w, op)
             \/ RejectCommand(w) \/ TurnedAway(w) \/ Conclude(w) \/ StartAppend(w) \/ Recorded(w)
             \/ Look(w) \/ ReportRecovery(w) \/ FinishRecovery(w)
      PROVE  Kept
      BY <1>0, <1>2, Untouched, NextKeeps
<1>3. ASSUME NEW w \in Request,
             \/ \E r \in Row : CallStarts(w, r) \/ CallReturns(w, r)
             \/ Proceed(w) \/ ProceedRecovery(w) \/ StartRecovery(w) \/ NothingToRecover(w)
             \/ ProcessDies(w)
      PROVE  Kept
      BY <1>0, <1>3, OwnSteps, NextKeeps DEF Next
<1>4. ASSUME NEW w \in Request, Enter(w) PROVE Kept
      BY <1>0, <1>4, EnterBegins, NextKeeps
<1>5. ASSUME NEW w \in Request, AppendFails(w) PROVE Kept
  <2>1. CASE At(w, {"midway"})
        BY <1>0, <1>5, <2>1, FreedKeeps DEF AppendFails
  <2>2. CASE ~At(w, {"midway"})
    <3>1. UNCHANGED vars
          BY <1>5, <2>2 DEF AppendFails, leaseVars, journal, vars
    <3>2. QED
          BY <1>0, <3>1, NextKeeps
  <2>3. QED
        BY <2>1, <2>2
<1>6. ASSUME NEW w \in Request, RecoveryAuditFails(w) PROVE Kept
      BY <1>0, <1>6, FreedKeeps DEF RecoveryAuditFails
<1>7. ASSUME NEW w \in Request, SummaryFails(w) PROVE Kept
  <2>1. pc[w] = "calls"
        BY <1>0, <1>7, RaisesMidway DEF SummaryFails, PlacesOK
  <2> DEFINE r == task[w].todo[1].row
  <2>2. PICK phase \in {"bad", "lost"} :
          job' = [job EXCEPT ![w] = [job[w] EXCEPT !.calls[r] = phase]]
        BY <1>7 DEF SummaryFails
  <2>3. [job[w] EXCEPT !.calls[r] = phase] \in JobType
    <3>1. job[w] \in JobType
          BY <1>0 DEF TypeInv, JobsOK
    <3> HIDE DEF r
    <3>2. QED
          BY <3>1 DEF JobType, CallPhase
  <2>4. UNCHANGED <<leaseVars, journal, pc, applied>>
        BY <1>7 DEF SummaryFails
  <2> HIDE DEF r
  <2>5. TypeInv'
        BY <1>0, <2>1, <2>2, <2>3, <2>4, LocalStep
        DEF Bounded, Locals, TypeInv, JournalOK, journal
  <2>6. OpenInv'
        BY <1>0, <2>4, SameStep DEF leaseVars, journal
  <2>7. QED
        BY <2>4, <2>5, <2>6 DEF Kept, journal
<1>8. QED
      BY <1>1, <1>2, <1>3, <1>4, <1>5, <1>6, <1>7 DEF ANext, AStep

-----------------------------------------------------------------------------
(* The journal that the tasks write is that of AuditChain.                 *)

LEMMA FirstItem ==
  ASSUME TasksOK, NEW w \in Request, ~Said(w)
  PROVE  /\ task[w].todo[1] \in Items /\ 1 \in DOMAIN task[w].todo
         /\ Tail(task[w].todo) \in Seq(Items)
         /\ \A i \in DOMAIN Tail(task[w].todo) :
              i + 1 \in DOMAIN task[w].todo /\ Tail(task[w].todo)[i] = task[w].todo[i + 1]
         /\ \A i \in DOMAIN task[w].todo :
              i # 1 => i - 1 \in DOMAIN Tail(task[w].todo)
<1>1. task[w].todo \in Seq(Items) /\ task[w].todo # <<>>
      BY TaskFields DEF Said
<1>2. QED
      BY <1>1

Entered(w) == [kind |-> task[w].todo[1].kind, row |-> task[w].todo[1].row, by |-> w]

(* What a step does to the journal.                                        *)
LEMMA JournalMoves ==
  ASSUME TasksOK, Chain!ChainInv, \A w \in Request : SaysOK(w), [ANext]_avars
  PROVE  \/ UNCHANGED <<chain, inserting>>
         \/ \E w \in Request :
              \/ ~Said(w) /\ Entered(w) \in Entry /\ Audit!ReadHead(w, Entered(w))
              \/ Audit!Insert(w)
              \/ Audit!Abort(w)
<1>1. ASSUME NEW w \in Request, StartAppend(w)
      PROVE  ~Said(w) /\ Entered(w) \in Entry /\ Audit!ReadHead(w, Entered(w))
  <2>1. ~Said(w) /\ Audit!ReadHead(w, Entered(w))
        BY <1>1 DEF StartAppend, Entered
  <2>2. Entered(w) \in Entry
        BY <2>1, FirstItem DEF Entered, Entry, Items
  <2>3. QED
        BY <2>1, <2>2
<1>2. ASSUME NEW w \in Request, Recorded(w) PROVE Audit!Insert(w)
      BY <1>2 DEF Recorded
<1>3. ASSUME NEW w \in Request, AppendFails(w) \/ SummaryFails(w) \/ RecoveryAuditFails(w)
      PROVE  Audit!Insert(w) \/ Audit!Abort(w)
      BY <1>3 DEF AppendFails, SummaryFails, RecoveryAuditFails, Raises
<1>4. ASSUME NEW w \in Request, ProcessDies(w)
      PROVE  UNCHANGED <<chain, inserting>> \/ Audit!Abort(w)
  <2>1. CASE inserting[w] = {}
    <3>1. inserting \in [Request -> SUBSET Chain!ChainRow]
          BY DEF Chain!ChainInv, Chain!ACTypeOK
    <3>2. inserting' = [inserting EXCEPT ![w] = {}] /\ UNCHANGED chain
          BY <1>4 DEF ProcessDies
    <3>3. QED
          BY <2>1, <3>1, <3>2
  <2>2. CASE inserting[w] # {}
        BY <1>4, <2>2 DEF ProcessDies, Audit!Abort
  <2>3. QED
        BY <2>1, <2>2
<1>5. ASSUME NEW w \in Request,
             \/ \E op \in Ops : Submit(w, op)
             \/ RejectCommand(w) \/ Enter(w) \/ TurnedAway(w) \/ Conclude(w) \/ Proceed(w)
             \/ Look(w) \/ ProceedRecovery(w) \/ ReportRecovery(w) \/ FinishRecovery(w)
             \/ StartRecovery(w) \/ NothingToRecover(w)
             \/ \E r \in Row : CallStarts(w, r) \/ CallReturns(w, r)
      PROVE  UNCHANGED <<chain, inserting>>
      BY <1>5 DEF Submit, RejectCommand, Enter, TurnedAway, Conclude, Proceed, Look,
                  ProceedRecovery, ReportRecovery, FinishRecovery, StartRecovery,
                  NothingToRecover, CallStarts, CallReturns
<1>6. CASE LeaseEnds \/ UNCHANGED avars
      BY <1>6 DEF LeaseEnds, avars
<1>7. QED
      BY <1>1, <1>2, <1>3, <1>4, <1>5, <1>6 DEF ANext, AStep

LEMMA JournalStep ==
  ASSUME TasksOK, Chain!ChainInv, \A w \in Request : SaysOK(w), [ANext]_avars
  PROVE  [Chain!ACNext]_(Chain!chainVars)
<1>1. CASE UNCHANGED <<chain, inserting>>
      BY <1>1 DEF Chain!chainVars
<1>2. ASSUME NEW w \in Request,
             \/ Entered(w) \in Entry /\ Audit!ReadHead(w, Entered(w))
             \/ Audit!Insert(w) \/ Audit!Abort(w)
      PROVE  Chain!ACNext
  <2>1. CASE Entered(w) \in Entry /\ Audit!ReadHead(w, Entered(w))
    <3>1. Chain!ReadHead(w, Entered(w))
          BY <2>1 DEF Audit!ReadHead, Audit!Unlocked, Audit!RowAfter, Audit!HeadHash,
                      Audit!Hash, Audit!NoHash, Chain!ReadHead, Chain!Unlocked,
                      Chain!RowAfter, Chain!HeadHash, Chain!Hash, Chain!NoHash
    <3>2. QED
          BY <2>1, <3>1 DEF Chain!ACNext
  <2>2. CASE Audit!Insert(w) \/ Audit!Abort(w)
        BY <2>2 DEF Audit!Insert, Audit!Abort, Chain!Insert, Chain!Abort, Chain!ACNext
  <2>3. QED
        BY <1>2, <2>1, <2>2
<1>3. QED
      BY <1>1, <1>2, JournalMoves

-----------------------------------------------------------------------------
(* What stays true of a task while others work.                            *)

Longer == \A kind, w : InChain(kind, w) => InChain(kind, w)'

Alike(w) == task'[w] = task[w] /\ pc'[w] = pc[w] /\ job'[w] = job[w] /\ inserting'[w] = inserting[w]

FinalKept == saga \in Final => saga' = saga

LEMMA ChainGrows ==
  ASSUME Chain!ChainInv, NEW w \in Request,
         chain' = chain \/ \E row \in inserting[w] : chain' = Append(chain, row)
  PROVE  Longer
<1>1. CASE chain' = chain
      BY <1>1 DEF Longer, InChain
<1>2. ASSUME NEW row \in inserting[w], chain' = Append(chain, row) PROVE Longer
  <2>1. chain \in Seq(Chain!ChainRow)
        BY DEF Chain!ChainInv, Chain!ACTypeOK
  <2>2. \A i \in DOMAIN chain : i \in DOMAIN chain' /\ chain'[i] = chain[i]
        BY <1>2, <2>1
  <2>3. QED
        BY <2>2 DEF Longer, InChain
<1>3. QED
      BY <1>1, <1>2

LEMMA OthersServed ==
  ASSUME NEW v \in Request, ServeOK(v), Alike(v), Longer, FinalKept
  PROVE  ServeOK(v)'
<1> USE DEF Alike, Longer, At, Said, Op
<1>1. SaysOK(v)'
      BY DEF ServeOK, SaysOK, Asked
<1>2. PlacesOK(v)'
      BY DEF ServeOK, PlacesOK, CallsPlaced, InPhase
<1>3. OutcomeOK(v)'
      BY DEF ServeOK, OutcomeOK, Promised, FinalKept, Final
<1>4. TruthOK(v)'
      BY DEF ServeOK, TruthOK, FinalKept, Final
<1>5. QED
      BY <1>1, <1>2, <1>3, <1>4 DEF ServeOK

LEMMA EvidenceStays ==
  ASSUME ServiceInv, FinalKept, NEW w \in Request,
         chain' = chain \/ \E row \in inserting[w] : chain' = Append(chain, row)
  PROVE  EvidenceTrue'
<1>1. EvidenceTrue /\ SaysOK(w) /\ TruthOK(w) /\ TasksOK
      BY DEF ServiceInv, ServeOK
<1>2. CASE chain' = chain
      BY <1>1, <1>2 DEF EvidenceTrue, Evidence, InChain, FinalKept, Final
<1>3. ASSUME NEW row \in inserting[w], chain' = Append(chain, row) PROVE EvidenceTrue'
  <2>1. chain \in Seq(Chain!ChainRow)
        BY DEF ServiceInv, Chain!ChainInv, Chain!ACTypeOK
  <2>2. ~Said(w) /\ row.event.kind = task[w].todo[1].kind
        BY <1>1 DEF SaysOK
  <2>3. /\ row.event.kind = "SAGA_COMMITTED" => saga = "COMMITTED"
        /\ row.event.kind = "ROLLBACK_COMPLETED" => saga = "ROLLED_BACK"
        BY <1>1, <2>2, FirstItem DEF TruthOK
  <2>4. \A i \in DOMAIN chain' : (i \in DOMAIN chain /\ chain'[i] = chain[i]) \/ chain'[i] = row
        BY <1>3, <2>1
  <2>5. ASSUME NEW kind, Evidence(kind)' PROVE Evidence(kind) \/ row.event.kind = kind
        BY <2>4, <2>5 DEF Evidence, InChain
  <2>6. QED
        BY <1>1, <2>3, <2>5 DEF EvidenceTrue, FinalKept, Final
<1>4. QED
      BY <1>2, <1>3

(* A step of one process, seen from the others.                            *)
Stirs(w) ==
  /\ \A v \in Request \ {w} : Alike(v)
  /\ chain' = chain \/ \E row \in inserting[w] : chain' = Append(chain, row)

-----------------------------------------------------------------------------
(* Where the steps of the coordinator lead: to a forward call only from    *)
(* the operations that make one, from a commit to the end of its block     *)
(* with the saga committed, from the end of a block to what follows it.    *)

Moves(w) ==
  /\ \A v \in Request \ {w} : pc'[v] = pc[v] /\ job'[v] = job[v]
  /\ pc'[w] \in Ahead => pc[w] \in Ahead
  /\ CallsPlaced(w)'
  /\ pc[w] = "commit" =>
       \/ pc'[w] = "idle"
       \/ pc'[w] = "exit" /\ ~job'[w].again /\ saga' = "COMMITTED"
  /\ pc[w] = "exit" => pc'[w] = IF job[w].again THEN "again" ELSE "idle"

LEMMA PlaceMoves ==
  ASSUME TypeInv, NEW w \in Request, NEW l, NEW j,
         pc' = [pc EXCEPT ![w] = l] \/ (pc' = pc /\ l = pc[w]),
         job' = [job EXCEPT ![w] = j] \/ (job' = job /\ j = job[w]),
         pc[w] \notin {"commit", "exit"},
         l \in Ahead => pc[w] \in Ahead,
         \A r \in Row : j.calls[r] \in OutCalls => l \in {"prepare", "calls"}
  PROVE  Moves(w)
<1>1. pc \in [Request -> Locals] /\ job \in [Request -> JobType]
      BY DEF TypeInv, JobsOK
<1>2. pc'[w] = l /\ job'[w] = j
      BY <1>1
<1>3. \A v \in Request \ {w} : pc'[v] = pc[v] /\ job'[v] = job[v]
      BY <1>1
<1>4. QED
      BY <1>2, <1>3 DEF Moves, CallsPlaced, InPhase

LEMMA NoJobCalls ==
  \A again \in BOOLEAN, r \in Row :
    /\ NoJob.calls[r] \notin OutCalls /\ [NoJob EXCEPT !.again = again].calls[r] \notin OutCalls
    /\ [NoJob EXCEPT !.again = again].again = again
BY DEF NoJob, OutCalls

LEMMA EndMoves ==
  ASSUME TypeInv, NEW w \in Request, NEW l \in {"idle", "down", "again"}, End(w, l),
         pc[w] = "commit" => l = "idle",
         pc[w] = "exit" => l = IF job[w].again THEN "again" ELSE "idle"
  PROVE  Moves(w)
<1>1. pc \in [Request -> Locals] /\ job \in [Request -> JobType]
      BY DEF TypeInv, JobsOK
<1>2. pc' = [pc EXCEPT ![w] = l] /\ job' = [job EXCEPT ![w] = NoJob]
      BY DEF End, Goto
<1>3. CallsPlaced(w)'
      BY <1>1, <1>2, NoJobCalls DEF CallsPlaced, InPhase
<1>4. QED
      BY <1>1, <1>2, <1>3 DEF Moves, Ahead

LEMMA FinishMoves ==
  ASSUME TypeInv, NEW w \in Request, NEW again \in BOOLEAN, Finish(w, again), pc[w] # "exit",
         pc[w] = "commit" => ~again /\ saga' = "COMMITTED"
  PROVE  Moves(w)
<1>1. pc \in [Request -> Locals] /\ job \in [Request -> JobType]
      BY DEF TypeInv, JobsOK
<1>2. /\ pc' = [pc EXCEPT ![w] = "exit"]
      /\ job' = [job EXCEPT ![w] = [NoJob EXCEPT !.again = again]]
      BY DEF Finish, Goto
<1>3. CallsPlaced(w)'
      BY <1>1, <1>2, NoJobCalls DEF CallsPlaced, InPhase
<1>4. job'[w].again = again
      BY <1>1, <1>2, NoJobCalls
<1>5. QED
      BY <1>1, <1>2, <1>3, <1>4 DEF Moves, Ahead

LEMMA OperateMoves ==
  ASSUME TypeInv, NEW w \in Request, CallsPlaced(w), Operate(w) PROVE Moves(w)
<1>1. CASE Refuse(w)
      BY <1>1, EndMoves DEF Refuse
<1>2. CASE PlanStep(w) \/ SaveEngine(w) \/ Commit(w)
      BY <1>2, FinishMoves DEF PlanStep, SaveEngine, Commit
<1>3. ASSUME NEW n \in Node, ApproveStep(w, n) \/ RejectStep(w, n) \/ RetryStep(w, n)
      PROVE  Moves(w)
  <2>1. PICK view : job' = [job EXCEPT ![w] = [job[w] EXCEPT !.view = view]]
        BY <1>3 DEF ApproveStep, RejectStep, RetryStep
  <2>2. pc' = [pc EXCEPT ![w] = "save"] /\ pc[w] \in {"approve", "retry"}
        BY <1>3 DEF ApproveStep, RejectStep, RetryStep, Goto
  <2>3. [job[w] EXCEPT !.view = view].calls = job[w].calls
        BY DEF TypeInv, JobsOK, JobType
  <2>4. \A r \in Row : job[w].calls[r] \notin OutCalls
        BY <2>2 DEF CallsPlaced, InPhase
  <2>5. QED
        BY <2>1, <2>2, <2>3, <2>4, PlaceMoves DEF Ahead
<1>4. QED
      BY <1>1, <1>2, <1>3 DEF Operate

LEMMA RunForwardMoves ==
  ASSUME TypeInv, NEW w \in Request, CallsPlaced(w), RunForward(w) PROVE Moves(w)
<1>0. job[w] \in JobType /\ job[w].calls \in [Row -> CallPhase]
      BY DEF TypeInv, JobsOK, JobType
<1>a. pc[w] \notin {"prepare", "calls"} => \A r \in Row : job[w].calls[r] \notin OutCalls
      BY DEF CallsPlaced, InPhase
<1>1. CASE FormWave(w)
  <2> DEFINE limit == IF job[w].par < job[w].budget THEN job[w].par ELSE job[w].budget
  <2>a. PICK view \in Refreshes(job[w].view, 0) :
          \E wave \in Waves(view, limit) : job' = [job EXCEPT ![w].view = view, ![w].todo = wave]
        BY <1>1 DEF FormWave
  <2>1. PICK wave \in Waves(view, limit) : job' = [job EXCEPT ![w].view = view, ![w].todo = wave]
        BY <2>a
  <2>2. pc' = [pc EXCEPT ![w] = "prepare"] /\ pc[w] = "run"
        BY <1>1 DEF FormWave, Goto
  <2>3. QED
        BY <2>1, <2>2, PlaceMoves DEF Ahead
<1>2. CASE NothingReady(w) \/ Spent(w)
      BY <1>2, FinishMoves DEF NothingReady, Spent
<1>3. CASE Escalate(w)
      BY <1>3, FinishMoves, ("rollback" \in job[w].failed) \in BOOLEAN DEF Escalate
<1>4. CASE Unresolved(w) \/ Abandon(w)
      BY <1>4, EndMoves DEF Unresolved, Abandon
<1>5. ASSUME NEW r \in Row,
             \/ CreateStep(w, r) \/ StartCall(w, r) \/ CallSucceeds(w, r) \/ CallFails(w, r)
             \/ \E n \in Node : PrepareNode(w, n, r)
      PROVE  Moves(w)
  <2>1. PICK j : job' = [job EXCEPT ![w] = j]
        BY <1>5 DEF CreateStep, StartCall, CallSucceeds, CallFails, PrepareNode
  <2>2. PICK l \in {"prepare", "calls"} :
          /\ pc' = [pc EXCEPT ![w] = l] \/ (pc' = pc /\ l = pc[w])
          /\ pc[w] \in Ahead
        BY <1>5 DEF CreateStep, StartCall, CallSucceeds, CallFails, PrepareNode, Goto, Ahead
  <2>3. QED
        BY <2>1, <2>2, PlaceMoves DEF Ahead
<1>6. CASE SaveWave(w)
  <2>1. PICK j : job' = [job EXCEPT ![w] = j]
        BY <1>6 DEF SaveWave
  <2>2. pc' = [pc EXCEPT ![w] = "calls"] /\ pc[w] = "prepare"
        BY <1>6 DEF SaveWave, Goto
  <2>3. QED
        BY <2>1, <2>2, PlaceMoves DEF Ahead
<1>7. CASE SaveResults(w)
  <2>1. PICK view : job' = [job EXCEPT ![w] = [job[w] EXCEPT !.view = view]]
        BY <1>7 DEF SaveResults
  <2>2. PICK l \in {"run", "escalate"} : pc' = [pc EXCEPT ![w] = l] /\ pc[w] = "calls"
        BY <1>7 DEF SaveResults, Goto
  <2>3. \A r \in Row : [job[w] EXCEPT !.view = view].calls[r] = "none"
        BY <1>0, <1>7 DEF SaveResults, InPhase, JobType
  <2>4. QED
        BY <2>1, <2>2, <2>3, PlaceMoves DEF Ahead, OutCalls
<1>8. ASSUME NEW r \in Row, SettleRow(w, r) PROVE Moves(w)
  <2>1. PICK view, failed :
          job' = [job EXCEPT ![w] =
                    [job[w] EXCEPT !.calls[r] = "none", !.failed = failed, !.view = view]]
        BY <1>8 DEF SettleRow
  <2> DEFINE j == [job[w] EXCEPT !.calls[r] = "none", !.failed = failed, !.view = view]
  <2>2. PICK l \in {"calls", "exit", "escalate"} :
          /\ pc' = [pc EXCEPT ![w] = l] \/ (pc' = pc /\ l = pc[w])
          /\ pc[w] = "calls"
        BY <1>8 DEF SettleRow, Goto
  <2>3. j.calls = [job[w].calls EXCEPT ![r] = "none"]
        BY <1>0 DEF JobType
  <2>4. \A q \in Row : job[w].calls[q] \notin OutCalls
        BY <1>8 DEF SettleRow, Returned, InPhase, OutCalls
  <2>5. \A q \in Row : j.calls[q] \notin OutCalls
        BY <1>0, <2>3, <2>4 DEF OutCalls
  <2> HIDE DEF j
  <2>6. QED
        BY <2>1, <2>2, <2>5, PlaceMoves DEF Ahead, j
<1>9. QED
      BY <1>1, <1>2, <1>3, <1>4, <1>5, <1>6, <1>7, <1>8 DEF RunForward

LEMMA UnwindMoves ==
  ASSUME TypeInv, NEW w \in Request, CallsPlaced(w), Unwind(w) \/ Recover(w) PROVE Moves(w)
<1>0. job[w] \in JobType
      BY DEF TypeInv, JobsOK
<1>a. pc[w] \notin {"prepare", "calls"} => \A r \in Row : job[w].calls[r] \notin OutCalls
      BY DEF CallsPlaced, InPhase
<1>1. CASE Rejoin(w) \/ Busy(w) \/ StartUndo(w) \/ ResumeRollback(w)
  <2>1. PICK l \in {"mark", "exit", "idle", "undoing"} :
          /\ pc' = [pc EXCEPT ![w] = l] /\ pc[w] \in {"again", "undo", "resume"}
          /\ job' = job
        BY <1>1 DEF Rejoin, Busy, StartUndo, ResumeRollback, Goto
  <2>2. QED
        BY <1>a, <2>1, PlaceMoves DEF Ahead
<1>2. CASE FinishRollback(w) \/ EscalateToOperator(w)
      BY <1>2, FinishMoves DEF FinishRollback, EscalateToOperator
<1>3. CASE StaleClaim(w)
      BY <1>3, EndMoves DEF StaleClaim
<1>4. ASSUME NEW r \in Row,
             \/ UndoSucceeds(w, r) \/ UndoFails(w, r) \/ RecordUndo(w, r)
             \/ RecordFailure(w, r) \/ PassOver(w, r) \/ UndoLost(w, r)
      PROVE  Moves(w)
  <2>1. PICK j :
          /\ job' = [job EXCEPT ![w] = j] \/ (job' = job /\ j = job[w])
          /\ j.calls = job[w].calls \/ j.calls = NoJob.calls
    <3>1. CASE UndoSucceeds(w, r) \/ UndoFails(w, r)
          BY <3>1 DEF UndoSucceeds, UndoFails
    <3>2. CASE RecordUndo(w, r) \/ PassOver(w, r)
      <4>1. [job[w] EXCEPT !.queue = @ \ {r}].calls = job[w].calls
            BY <1>0 DEF JobType
      <4>2. QED
            BY <3>2, <4>1 DEF RecordUndo, PassOver
    <3>3. CASE RecordFailure(w, r)
      <4>1. [job[w] EXCEPT !.queue = @ \ {r}, !.broken = TRUE].calls = job[w].calls
            BY <1>0 DEF JobType
      <4>2. QED
            BY <3>3, <4>1 DEF RecordFailure
    <3>4. CASE UndoLost(w, r)
          BY <3>4 DEF UndoLost
    <3>5. QED
          BY <1>4, <3>1, <3>2, <3>3, <3>4
  <2>3. PICK l \in {"undo", "undone", "unfixed", "idle"} :
          /\ pc' = [pc EXCEPT ![w] = l]
          /\ pc[w] \in {"undo", "undoing", "undone", "unfixed"}
        BY <1>4 DEF UndoSucceeds, UndoFails, RecordUndo, RecordFailure, PassOver, UndoLost, Goto
  <2>4. \A q \in Row : j.calls[q] \notin OutCalls
        BY <1>a, <2>1, <2>3 DEF NoJob, OutCalls
  <2>5. QED
        BY <2>1, <2>3, <2>4, PlaceMoves DEF Ahead
<1>5. CASE MarkRollingBack(w)
  <2> DEFINE queue == {r \in Row : steps[r].status \in Compensable}
  <2>1. job' = [job EXCEPT ![w] = [job[w] EXCEPT !.queue = queue]]
        BY <1>5 DEF MarkRollingBack
  <2>2. pc' = [pc EXCEPT ![w] = "undo"] /\ pc[w] = "mark"
        BY <1>5 DEF MarkRollingBack, Goto
  <2> HIDE DEF queue
  <2>3. [job[w] EXCEPT !.queue = queue].calls = job[w].calls
        BY <1>0 DEF JobType
  <2>4. QED
        BY <1>a, <2>1, <2>2, <2>3, PlaceMoves DEF Ahead
<1>6. QED
      BY <1>1, <1>2, <1>3, <1>4, <1>5 DEF Unwind, Recover

LEMMA WorkMoves ==
  ASSUME TypeInv, NEW w \in Request, CallsPlaced(w), Work(w) PROVE Moves(w)
<1>1. CASE Exit(w)
      BY <1>1, EndMoves DEF Exit
<1>2. CASE CheckFails(w)
      BY <1>2, EndMoves DEF CheckFails
<1>3. CASE StaleWrite(w)
      BY <1>3, EndMoves DEF StaleWrite, Writing
<1>4. QED
      BY <1>1, <1>2, <1>3, OperateMoves, RunForwardMoves, UnwindMoves DEF Work

-----------------------------------------------------------------------------
(* The steps of one task.                                                  *)

LEMMA AnnouncementSays ==
  \A op : /\ \A i \in DOMAIN Announcement(op) :
               Announcement(op)[i].kind \notin {"SAGA_COMMITTED", "ROLLBACK_COMPLETED"}
          /\ Announcement(op) # <<>> =>
               /\ Tail(Announcement(op)) = <<>> /\ DOMAIN Announcement(op) = {1}
BY ItemTypes DEF Announcement, Only

LEMMA ReportSays ==
  ASSUME NEW op \in Operations, NEW out \in Outs
  PROVE  /\ \A i \in DOMAIN Report(op, out) :
              /\ Report(op, out)[i].kind # "ROLLBACK_COMPLETED"
              /\ Report(op, out)[i].kind = "SAGA_COMMITTED" => op = "commit" /\ out = "ok"
         /\ out = "ok" /\ op # "rollback" =>
              \E i \in DOMAIN Report(op, out) : Report(op, out)[i].kind = Closing[op]
<1>1. op # "rollback" => /\ Closing[op] # "ROLLBACK_COMPLETED"
                         /\ Closing[op] = "SAGA_COMMITTED" => op = "commit"
      BY DEF Closing, Operations
<1>2. QED
      BY <1>1, ItemTypes DEF Report, Outs

Aside == {"idle", "recovery", "recovered", "reporting"}

Carried(w) == task'[w].op = task[w].op /\ task'[w].state = task[w].state

(* A task that is not in an operation.                                     *)
LEMMA AsideServed ==
  ASSUME NEW w \in Request, ServeOK(w), Longer, Carried(w), task'[w].stage \in Aside,
         task'[w].stage # "reporting" => task'[w].todo = <<>>,
         inserting'[w] = {}, pc'[w] \notin Ahead, CallsPlaced(w)', TruthOK(w)'
  PROVE  ServeOK(w)'
<1> USE DEF At, Said, Op, Carried, Longer, Aside
<1>1. SaysOK(w)'
      BY DEF SaysOK, Serving
<1>2. PlacesOK(w)'
      BY DEF PlacesOK
<1>3. OutcomeOK(w)'
      BY DEF OutcomeOK, ServeOK
<1>4. QED
      BY <1>1, <1>2, <1>3 DEF ServeOK

(* A task whose operation is over, or did not start.                       *)
LEMMA AfterServed ==
  ASSUME NEW w \in Request, ServeOK(w), Longer, Carried(w), At(w, Serving),
         task'[w].stage = "after",
         inserting'[w] = {}, pc'[w] \notin Ahead, CallsPlaced(w)', TruthOK(w)',
         task'[w].out = "ok" =>
           IF Op(w) = "rollback"
           THEN Promised("ROLLBACK_COMPLETED", w)' \/ Promised("ROLLBACK_FAILED", w)'
           ELSE Promised(Closing[Op(w)], w)'
  PROVE  ServeOK(w)'
<1> USE DEF At, Said, Op, Carried, Longer
<1>1. SaysOK(w)'
      BY DEF SaysOK, Serving, ServeOK
<1>2. PlacesOK(w)'
      BY DEF PlacesOK
<1>3. OutcomeOK(w)'
      BY DEF OutcomeOK, ServeOK
<1>4. QED
      BY <1>1, <1>2, <1>3 DEF ServeOK

Served(w) == task' \in [Request -> TaskType] /\ Stirs(w) /\ ServeOK(w)'

LEMMA ServiceFacts ==
  ASSUME ServiceInv, NEW w \in Request
  PROVE  /\ TypeInv /\ TasksOK /\ ServeOK(w)
         /\ SaysOK(w) /\ PlacesOK(w) /\ CallsPlaced(w) /\ OutcomeOK(w) /\ TruthOK(w)
         /\ pc \in [Request -> Locals] /\ job \in [Request -> JobType]
         /\ inserting \in [Request -> SUBSET Chain!ChainRow]
         /\ Said(w) => inserting[w] = {}
<1>1. Said(w) /\ SaysOK(w) => inserting[w] = {}
      BY DEF SaysOK
<1>2. QED
      BY <1>1 DEF ServiceInv, ServeOK, PlacesOK, TypeInv, JobsOK, Chain!ChainInv, Chain!ACTypeOK

(* A step to where nothing is left to say.                                 *)
LEMMA EmptyTurn ==
  ASSUME ServiceInv, NEW w \in Request, NEW stage \in Stages, NEW out \in Outs,
         Turn(w, stage, <<>>, out)
  PROVE  /\ task' \in [Request -> TaskType] /\ \A v \in Request \ {w} : task'[v] = task[v]
         /\ task'[w].stage = stage /\ task'[w].todo = <<>> /\ task'[w].out = out
         /\ Carried(w)
<1> DEFINE none == <<>>
<1>1. none \in Seq(Items) /\ TasksOK /\ Turn(w, stage, none, out)
      BY DEF ServiceInv
<1>2. none = <<>>
      OBVIOUS
<1> HIDE DEF none
<1>3. /\ task' \in [Request -> TaskType]
      /\ \A v \in Request \ {w} : task'[v] = task[v]
      /\ task'[w].stage = stage /\ task'[w].todo = none /\ task'[w].out = out
      /\ task'[w].op = task[w].op /\ task'[w].state = task[w].state
      BY <1>1, TurnType
<1>4. QED
      BY <1>2, <1>3 DEF Carried

(* Steps of the task alone.                                                *)
LEMMA StillChain ==
  ASSUME ServiceInv, NEW w \in Request, UNCHANGED <<vars, chain, inserting>>
  PROVE  /\ Longer /\ pc' = pc /\ job' = job /\ saga' = saga /\ CallsPlaced(w)'
         /\ (\A v \in Request \ {w} : task'[v] = task[v]) => Stirs(w)
<1>1. pc' = pc /\ job' = job /\ saga' = saga /\ inserting' = inserting /\ chain' = chain
      BY DEF vars
<1>2. QED
      BY <1>1, ServiceFacts, ChainGrows
      DEF ServiceInv, CallsPlaced, InPhase, Stirs, Alike

LEMMA SubmitServed ==
  ASSUME ServiceInv, NEW w \in Request, NEW op \in Ops, Submit(w, op) PROVE Served(w)
<1> DEFINE t == [NoTask EXCEPT !.op = op, !.state = "WORKING",
                               !.stage = "before", !.todo = Announcement(op)]
<1>1. /\ t.op = op /\ t.state = "WORKING" /\ t.stage = "before" /\ t.todo = Announcement(op)
      /\ t.out = "ok" /\ t \in TaskType
  <2>1. op \in Operations /\ Announcement(op) \in Seq(Items)
        BY OpsAssumption, AnnouncementType DEF OpsAssumption
  <2>2. QED
        BY <2>1 DEF NoTask, TaskType, Stages
<1>2. task' = [task EXCEPT ![w] = t] /\ task[w] = NoTask /\ pc[w] = "idle"
      BY DEF Submit
<1> HIDE DEF t
<1>3. /\ task' \in [Request -> TaskType] /\ task'[w] = t
      /\ \A v \in Request \ {w} : task'[v] = task[v]
      BY <1>1, <1>2, ServiceFacts DEF TasksOK
<1>4. /\ Longer /\ pc' = pc /\ job' = job /\ inserting' = inserting /\ Stirs(w) /\ CallsPlaced(w)'
      BY <1>3, StillChain DEF Submit
<1>5. inserting'[w] = {}
  <2>1. Said(w)
        BY <1>2 DEF Said, NoTask
  <2>2. QED
        BY <1>4, <2>1, ServiceFacts
<1> USE DEF At, Said, Op
<1>6. SaysOK(w)'
      BY <1>1, <1>3, <1>5 DEF SaysOK, Serving
<1>7. PlacesOK(w)'
      BY <1>1, <1>2, <1>3, <1>4 DEF PlacesOK, Ahead
<1>8. OutcomeOK(w)'
      BY <1>1, <1>3 DEF OutcomeOK
<1>9. TruthOK(w)'
      BY <1>1, <1>3, AnnouncementSays DEF TruthOK
<1>10. QED
       BY <1>3, <1>4, <1>6, <1>7, <1>8, <1>9 DEF Served, ServeOK

LEMMA RefusedServed ==
  ASSUME ServiceInv, NEW w \in Request, RejectCommand(w) \/ TurnedAway(w) PROVE Served(w)
<1> USE DEF At, Said, Op
<1>1. /\ At(w, {"before"}) /\ Op(w) \in Ops /\ pc[w] \notin Ahead /\ inserting[w] = {}
      BY ServiceFacts DEF SaysOK, PlacesOK, Serving, RejectCommand, TurnedAway
<1>2. Op(w) \in Operations
      BY <1>1, OpsAssumption DEF OpsAssumption
<1>3. PICK todo \in {<<>>, Report(Op(w), "error")} : Turn(w, "after", todo, "error")
      BY DEF RejectCommand, TurnedAway
<1>4. todo \in Seq(Items)
  <2>1. Report(Op(w), "error") \in Seq(Items)
        BY <1>2, ReportType DEF Outs
  <2>2. <<>> \in Seq(Items)
        OBVIOUS
  <2>3. QED
        BY <1>3, <2>1, <2>2, Zenon
<1>5. /\ task' \in [Request -> TaskType] /\ \A v \in Request \ {w} : task'[v] = task[v]
      /\ task'[w].stage = "after" /\ task'[w].todo = todo /\ task'[w].out = "error" /\ Carried(w)
      BY <1>3, <1>4, TurnType, ServiceFacts DEF Carried, Stages, Outs
<1>6. /\ Longer /\ pc' = pc /\ inserting' = inserting /\ Stirs(w) /\ CallsPlaced(w)'
      BY <1>5, StillChain DEF RejectCommand, TurnedAway
<1>7. TruthOK(w)'
  <2>1. \A i \in DOMAIN todo : todo[i].kind \notin {"SAGA_COMMITTED", "ROLLBACK_COMPLETED"}
        BY <1>2, <1>3, ReportSays DEF Outs
  <2>2. QED
        BY <1>5, <2>1 DEF TruthOK
<1>8. ServeOK(w)'
      BY <1>1, <1>5, <1>6, <1>7, AfterServed, ServiceFacts DEF Serving
<1>9. QED
      BY <1>5, <1>6, <1>8 DEF Served

LEMMA ConcludeServed ==
  ASSUME ServiceInv, NEW w \in Request, Conclude(w) PROVE Served(w)
<1> USE DEF At, Said, Op
<1>1. PICK state \in Outcomes(task[w].out) :
        task' = [task EXCEPT ![w] = [task[w] EXCEPT !.stage = "idle", !.out = "ok", !.state = state]]
      BY DEF Conclude
<1>2. /\ state \in {"COMPLETED", "FAILED", "REJECTED"}
      /\ state = "COMPLETED" => task[w].out = "ok"
      BY <1>1, TaskFields, ServiceFacts DEF Outcomes, Outs
<1>3. /\ task' \in [Request -> TaskType] /\ \A v \in Request \ {w} : task'[v] = task[v]
      /\ task'[w].stage = "idle" /\ task'[w].out = "ok" /\ task'[w].state = state
      /\ task'[w].todo = <<>> /\ task'[w].op = task[w].op
  <2> DEFINE t == [task[w] EXCEPT !.stage = "idle", !.out = "ok", !.state = state]
  <2>1. task[w] \in TaskType /\ task[w].todo = <<>> /\ task \in [Request -> TaskType]
        BY ServiceFacts, TaskFields DEF Conclude, TasksOK
  <2>2. /\ t \in TaskType /\ t.stage = "idle" /\ t.out = "ok" /\ t.state = state
        /\ t.todo = <<>> /\ t.op = task[w].op
        BY <1>2, <2>1 DEF TaskType, Stages
  <2>3. task' = [task EXCEPT ![w] = t]
        BY <1>1
  <2> HIDE DEF t
  <2>4. QED
        BY <2>1, <2>2, <2>3
<1>4. /\ Longer /\ pc' = pc /\ inserting' = inserting /\ Stirs(w) /\ CallsPlaced(w)'
      BY <1>3, StillChain DEF Conclude
<1>5. At(w, {"after"}) /\ Said(w) /\ inserting'[w] = {} /\ pc'[w] \notin Ahead
      BY <1>4, ServiceFacts DEF Conclude, PlacesOK
<1>6. SaysOK(w)'
      BY <1>3, <1>5 DEF SaysOK, Serving
<1>7. PlacesOK(w)'
      BY <1>3, <1>4, <1>5 DEF PlacesOK
<1>8. OutcomeOK(w)'
  <2>1. state = "COMPLETED" =>
          IF Op(w) = "rollback"
          THEN InChain("ROLLBACK_COMPLETED", w) \/ InChain("ROLLBACK_FAILED", w)
          ELSE InChain(Closing[Op(w)], w)
        BY <1>2, <1>5, ServiceFacts DEF OutcomeOK, Promised
  <2>2. QED
        BY <1>3, <1>4, <2>1 DEF OutcomeOK, Longer
<1>9. TruthOK(w)'
      BY <1>3 DEF TruthOK
<1>10. QED
       BY <1>3, <1>4, <1>6, <1>7, <1>8, <1>9 DEF Served, ServeOK

LEMMA Concatenated ==
  ASSUME NEW S, NEW s \in Seq(S), NEW t \in Seq(S)
  PROVE  /\ s \o t \in Seq(S)
         /\ \A i \in DOMAIN (s \o t) :
              \/ i \in DOMAIN s /\ (s \o t)[i] = s[i]
              \/ \E k \in DOMAIN t : (s \o t)[i] = t[k]
         /\ \A i \in DOMAIN s : i \in DOMAIN (s \o t) /\ (s \o t)[i] = s[i]
         /\ \A k \in DOMAIN t : Len(s) + k \in DOMAIN (s \o t) /\ (s \o t)[Len(s) + k] = t[k]
<1> DEFINE u == s \o t
<1>1. /\ u \in Seq(S) /\ Len(u) = Len(s) + Len(t)
      /\ \A i \in 1..Len(u) : u[i] = IF i <= Len(s) THEN s[i] ELSE t[i - Len(s)]
      OBVIOUS
<1>2. /\ DOMAIN u = 1..Len(u) /\ DOMAIN s = 1..Len(s) /\ DOMAIN t = 1..Len(t)
      /\ Len(s) \in Nat /\ Len(t) \in Nat
      BY <1>1
<1> HIDE DEF u
<1>3. ASSUME NEW i \in DOMAIN u
      PROVE  (i \in DOMAIN s /\ u[i] = s[i]) \/ \E k \in DOMAIN t : u[i] = t[k]
  <2>1. CASE i <= Len(s)
        BY <1>1, <1>2, <2>1
  <2>2. CASE ~(i <= Len(s))
    <3>1. i - Len(s) \in DOMAIN t /\ u[i] = t[i - Len(s)]
          BY <1>1, <1>2, <2>2
    <3>2. QED
          BY <3>1
  <2>3. QED
        BY <2>1, <2>2
<1>4. \A i \in DOMAIN s : i \in DOMAIN u /\ u[i] = s[i]
      BY <1>1, <1>2
<1>5. ASSUME NEW k \in DOMAIN t PROVE Len(s) + k \in DOMAIN u /\ u[Len(s) + k] = t[k]
  <2>1. k \in 1..Len(t) /\ Len(s) + k \in 1..Len(u) /\ ~(Len(s) + k <= Len(s))
        BY <1>1, <1>2
  <2>2. (Len(s) + k) - Len(s) = k
        BY <1>2, <2>1
  <2>3. u[Len(s) + k] = t[(Len(s) + k) - Len(s)]
        BY <1>1, <2>1
  <2>4. QED
        BY <1>2, <2>1, <2>2, <2>3
<1>6. QED
      BY <1>1, <1>3, <1>4, <1>5 DEF u

LEMMA LookServed ==
  ASSUME ServiceInv, NEW w \in Request, Look(w) PROVE Served(w)
<1> USE DEF At, Said, Op
<1>1. /\ At(w, {"look"}) /\ Op(w) \in Ops /\ pc[w] \notin Ahead /\ inserting[w] = {}
      BY ServiceFacts DEF SaysOK, PlacesOK, Serving, Look
<1>2. Op(w) \in Operations /\ task[w].out \in Outs
      BY <1>1, TaskFields, ServiceFacts, OpsAssumption DEF OpsAssumption
<1> DEFINE event == Only(RollbackEvent(saga))
           report == Report(Op(w), task[w].out)
<1>3. PICK results \in Results : Turn(w, "after", (results \o event) \o report, task[w].out)
      BY DEF Look
<1>4. /\ event \in Seq(Items) /\ DOMAIN event = {1} /\ Len(event) = 1
      /\ event[1].kind \in {"ROLLBACK_COMPLETED", "ROLLBACK_FAILED"}
      /\ event[1].kind = "ROLLBACK_COMPLETED" => saga = "ROLLED_BACK"
  <2>1. RollbackEvent(saga) \in {"ROLLBACK_COMPLETED", "ROLLBACK_FAILED"} \cap Kinds
        BY DEF RollbackEvent, Kinds
  <2>2. RollbackEvent(saga) = "ROLLBACK_COMPLETED" => saga = "ROLLED_BACK"
        BY DEF RollbackEvent
  <2>3. QED
        BY <2>1, <2>2, ItemTypes
<1>5. /\ report \in Seq(Items)
      /\ \A i \in DOMAIN report :
           /\ report[i].kind # "ROLLBACK_COMPLETED"
           /\ report[i].kind = "SAGA_COMMITTED" => Op(w) = "commit" /\ task[w].out = "ok"
      /\ task[w].out = "ok" /\ Op(w) # "rollback" =>
           \E i \in DOMAIN report : report[i].kind = Closing[Op(w)]
      BY <1>2, ReportType, ReportSays
<1>6. /\ results \in Seq(Items)
      /\ \A i \in DOMAIN results : results[i].kind = "COMPENSATION_RESULT"
      BY TriedResults
<1>7. ~(Op(w) = "commit" /\ task[w].out = "ok")
      BY <1>1, ServiceFacts DEF OutcomeOK
<1> HIDE DEF event, report
<1> DEFINE todo == (results \o event) \o report
<1>8. /\ todo \in Seq(Items)
      /\ \A i \in DOMAIN todo :
           \/ todo[i].kind = "COMPENSATION_RESULT"
           \/ todo[i] = event[1]
           \/ \E k \in DOMAIN report : todo[i] = report[k]
      /\ \E i \in DOMAIN todo : todo[i] = event[1]
      /\ \A k \in DOMAIN report : \E i \in DOMAIN todo : todo[i] = report[k]
  <2> DEFINE both == results \o event
  <2>1. /\ both \in Seq(Items)
        /\ \A i \in DOMAIN both :
             \/ i \in DOMAIN results /\ both[i] = results[i]
             \/ \E k \in DOMAIN event : both[i] = event[k]
        /\ \A k \in DOMAIN event :
             Len(results) + k \in DOMAIN both /\ both[Len(results) + k] = event[k]
        BY <1>4, <1>6, Concatenated
  <2> HIDE DEF both
  <2>a. /\ \A i \in DOMAIN both : both[i].kind = "COMPENSATION_RESULT" \/ both[i] = event[1]
        /\ Len(results) + 1 \in DOMAIN both /\ both[Len(results) + 1] = event[1]
        BY <1>4, <1>6, <2>1
  <2> DEFINE all == both \o report
  <2>2. /\ all \in Seq(Items)
        /\ \A i \in DOMAIN all :
             \/ i \in DOMAIN both /\ all[i] = both[i]
             \/ \E k \in DOMAIN report : all[i] = report[k]
        /\ \A i \in DOMAIN both : i \in DOMAIN all /\ all[i] = both[i]
        /\ \A k \in DOMAIN report : Len(both) + k \in DOMAIN all /\ all[Len(both) + k] = report[k]
        BY <1>5, <2>1, Concatenated
  <2> HIDE DEF all
  <2>3. todo = all
        BY DEF both, all
  <2> HIDE DEF todo
  <2>4. /\ \A i \in DOMAIN all :
             \/ all[i].kind = "COMPENSATION_RESULT" \/ all[i] = event[1]
             \/ \E k \in DOMAIN report : all[i] = report[k]
        /\ \E i \in DOMAIN all : all[i] = event[1]
        /\ \A k \in DOMAIN report : \E i \in DOMAIN all : all[i] = report[k]
        BY <2>a, <2>2, Zenon
  <2>5. QED
        BY <2>2, <2>3, <2>4, Zenon
<1>9. Turn(w, "after", todo, task[w].out)
      BY <1>3
<1> HIDE DEF todo
<1>10. /\ task' \in [Request -> TaskType] /\ \A v \in Request \ {w} : task'[v] = task[v]
       /\ task'[w].stage = "after" /\ task'[w].todo = todo /\ task'[w].out = task[w].out
       /\ Carried(w)
       BY <1>2, <1>8, <1>9, TurnType, ServiceFacts DEF Carried, Stages
<1>11. /\ Longer /\ pc' = pc /\ inserting' = inserting /\ Stirs(w) /\ CallsPlaced(w)'
       /\ saga' = saga
       BY <1>10, StillChain DEF Look
<1>12. TruthOK(w)'
       BY <1>4, <1>5, <1>7, <1>8, <1>10, <1>11 DEF TruthOK
<1>13. task[w].out = "ok" =>
         IF Op(w) = "rollback"
         THEN Promised("ROLLBACK_COMPLETED", w)' \/ Promised("ROLLBACK_FAILED", w)'
         ELSE Promised(Closing[Op(w)], w)'
  <2>1. PICK i \in DOMAIN todo : todo[i] = event[1]
        BY <1>8
  <2>2. Promised("ROLLBACK_COMPLETED", w)' \/ Promised("ROLLBACK_FAILED", w)'
        BY <1>4, <1>10, <2>1 DEF Promised
  <2>3. ASSUME task[w].out = "ok", Op(w) # "rollback" PROVE Promised(Closing[Op(w)], w)'
    <3>1. PICK k \in DOMAIN report : report[k].kind = Closing[Op(w)]
          BY <1>5, <2>3
    <3>2. PICK j \in DOMAIN todo : todo[j] = report[k]
          BY <1>8, <3>1
    <3>3. QED
          BY <1>10, <3>1, <3>2 DEF Promised, Carried
  <2>4. QED
        BY <2>2, <2>3
<1>14. ServeOK(w)'
       BY <1>1, <1>10, <1>11, <1>12, <1>13, AfterServed, ServiceFacts DEF Serving
<1>15. QED
       BY <1>10, <1>11, <1>14 DEF Served

LEMMA ReportServed ==
  ASSUME ServiceInv, NEW w \in Request, ReportRecovery(w) \/ FinishRecovery(w) PROVE Served(w)
<1> USE DEF At, Said, Op
<1>1. /\ At(w, {"recovered", "reporting"}) /\ pc[w] \notin Ahead /\ inserting[w] = {}
      BY ServiceFacts DEF SaysOK, PlacesOK, ReportRecovery, FinishRecovery
<1>2. PICK stage \in {"reporting", "idle"},
           todo \in {<<>>, Only("RECOVERY_COMPLETED"), Only("RECOVERY_REQUIRES_OPERATOR")} :
        /\ Turn(w, stage, todo, "ok")
        /\ stage = "idle" => todo = <<>>
  <2>1. CASE ReportRecovery(w)
    <3>1. Turn(w, "reporting", Only(RecoveryEvent(saga)), "ok")
          BY <2>1 DEF ReportRecovery
    <3>2. RecoveryEvent(saga) \in {"RECOVERY_COMPLETED", "RECOVERY_REQUIRES_OPERATOR"}
          BY DEF RecoveryEvent
    <3>3. QED
          BY <3>1, <3>2
  <2>2. CASE FinishRecovery(w)
        BY <2>2 DEF FinishRecovery
  <2>3. QED
        BY <2>1, <2>2
<1>3. /\ todo \in Seq(Items)
      /\ \A i \in DOMAIN todo : todo[i].kind \notin {"SAGA_COMMITTED", "ROLLBACK_COMPLETED"}
  <2>1. CASE todo = <<>>
        BY <2>1
  <2>2. CASE todo # <<>>
        BY <1>2, <2>2, ItemTypes DEF Kinds
  <2>3. QED
        BY <2>1, <2>2
<1>4. /\ task' \in [Request -> TaskType] /\ \A v \in Request \ {w} : task'[v] = task[v]
      /\ task'[w].stage = stage /\ task'[w].todo = todo /\ Carried(w)
      BY <1>2, <1>3, TurnType, ServiceFacts DEF Carried, Stages, Outs
<1>5. /\ Longer /\ pc' = pc /\ inserting' = inserting /\ Stirs(w) /\ CallsPlaced(w)'
      BY <1>4, StillChain DEF ReportRecovery, FinishRecovery
<1>6. ServeOK(w)'
      BY <1>1, <1>2, <1>3, <1>4, <1>5, AsideServed, ServiceFacts DEF Aside, TruthOK
<1>7. QED
      BY <1>4, <1>5, <1>6 DEF Served

-----------------------------------------------------------------------------
(* The steps that append.                                                  *)

LEMMA StartAppendServed ==
  ASSUME ServiceInv, NEW w \in Request, StartAppend(w) PROVE Served(w)
<1>1. /\ ~Said(w) /\ UNCHANGED <<vars, task, chain>>
      /\ inserting' = [inserting EXCEPT ![w] = {Audit!RowAfter(Audit!HeadHash(chain), Entered(w))}]
      BY DEF StartAppend, Entered, Audit!ReadHead
<1>2. /\ Audit!RowAfter(Audit!HeadHash(chain), Entered(w)).event = Entered(w)
      BY DEF Audit!RowAfter
<1>3. /\ \A row \in inserting'[w] : row.event = Entered(w)
      /\ \A v \in Request \ {w} : inserting'[v] = inserting[v]
      BY <1>1, <1>2, ServiceFacts
<1>4. pc' = pc /\ job' = job /\ saga' = saga /\ task' = task /\ chain' = chain /\ Longer
      BY <1>1, ChainGrows DEF vars, ServiceInv
<1> USE DEF At, Said, Op, Longer
<1>5. SaysOK(w)'
      BY <1>1, <1>3, <1>4, ServiceFacts DEF SaysOK, Asked, Entered
<1>6. PlacesOK(w)'
      BY <1>4, ServiceFacts DEF PlacesOK, CallsPlaced, InPhase
<1>7. OutcomeOK(w)' /\ TruthOK(w)'
      BY <1>4, ServiceFacts DEF OutcomeOK, Promised, TruthOK
<1>8. QED
      BY <1>3, <1>4, <1>5, <1>6, <1>7, ServiceFacts DEF Served, ServeOK, Stirs, Alike, TasksOK

LEMMA RecordedServed ==
  ASSUME ServiceInv, NEW w \in Request, Recorded(w) PROVE Served(w)
<1>1. PICK row \in inserting[w] : chain' = Append(chain, row)
      BY DEF Recorded, Audit!Insert
<1>2. /\ ~Said(w) /\ row.event.kind = task[w].todo[1].kind /\ row.event.by = w
  <2>1. ~Said(w) /\ row.event = Entered(w)
        BY <1>1, ServiceFacts DEF SaysOK, Entered
  <2>2. QED
        BY <2>1 DEF Entered
<1> DEFINE rest == Tail(task[w].todo)
<1>3. /\ rest \in Seq(Items)
      /\ \A i \in DOMAIN rest : i + 1 \in DOMAIN task[w].todo /\ rest[i] = task[w].todo[i + 1]
      /\ \A i \in DOMAIN task[w].todo :
           i = 1 \/ (i - 1 \in DOMAIN rest /\ rest[i - 1] = task[w].todo[i])
  <2>1. task[w].todo \in Seq(Items) /\ task[w].todo # <<>>
        BY <1>2, TaskFields, ServiceFacts DEF Said
  <2>2. QED
        BY <2>1
<1>4. /\ task' \in [Request -> TaskType] /\ \A v \in Request \ {w} : task'[v] = task[v]
      /\ task'[w].todo = rest /\ task'[w].stage = task[w].stage /\ task'[w].out = task[w].out
      /\ Carried(w)
  <2> HIDE DEF rest
  <2>1. task' = [task EXCEPT ![w] = [task[w] EXCEPT !.todo = rest]]
        BY DEF Recorded, rest
  <2>2. task \in [Request -> TaskType] /\ task[w] \in TaskType
        BY ServiceFacts DEF TasksOK
  <2>3. QED
        BY <1>3, <2>1, <2>2 DEF TaskType, Carried
<1>5. /\ inserting' = [inserting EXCEPT ![w] = {}] /\ pc' = pc /\ job' = job /\ saga' = saga
      BY DEF Recorded, Audit!Insert, vars
<1>6. Longer
      BY <1>1, ChainGrows DEF ServiceInv
<1>7. \A kind : kind = task[w].todo[1].kind => InChain(kind, w)'
  <2>1. chain \in Seq(Chain!ChainRow)
        BY DEF ServiceInv, Chain!ChainInv, Chain!ACTypeOK
  <2>2. Len(chain) + 1 \in DOMAIN chain' /\ chain'[Len(chain) + 1] = row
        BY <1>1, <2>1
  <2>3. QED
        BY <1>2, <2>2 DEF InChain
<1> HIDE DEF rest
<1>8. Stirs(w) /\ inserting'[w] = {}
      BY <1>1, <1>4, <1>5, ServiceFacts DEF Stirs, Alike
<1> USE DEF At, Said, Op, Longer, Carried
<1>9. SaysOK(w)'
  <2>1. ASSUME At(w, {"before"}) PROVE rest = <<>> /\ Asked(w)'
    <3>1. task[w].todo = Announcement(Op(w)) /\ Announcement(Op(w)) # <<>>
          BY <1>2, <2>1, ServiceFacts DEF SaysOK
    <3>2. rest = <<>> /\ DOMAIN Announcement(Op(w)) = {1}
          BY <3>1, AnnouncementSays DEF rest
    <3>3. InChain(Announcement(task[w].op)[1].kind, w)' 
          BY <1>4, <1>7, <3>1
    <3>4. QED
          BY <1>4, <3>2, <3>3 DEF Asked
  <2>2. ASSUME At(w, {"midway"}) PROVE rest = <<>> /\ InChain("ROLLBACK_REQUESTED", w)'
    <3>1. task[w].todo = Only("ROLLBACK_REQUESTED")
          BY <1>2, <2>2, ServiceFacts DEF SaysOK
    <3>2. task[w].todo[1].kind = "ROLLBACK_REQUESTED"
          BY <3>1, ItemTypes
    <3>3. rest = <<>>
          BY <3>1 DEF rest, Only
    <3>4. QED
          BY <1>7, <3>2, <3>3
  <2>3. ~At(w, {"idle", "unwinding", "look", "recovery", "recovered"})
        BY <1>2, ServiceFacts DEF SaysOK
  <2>4. At(w, {"inside", "midway"}) => Asked(w)'
        BY <1>4, <1>6, ServiceFacts DEF SaysOK, Asked
  <2>5. QED
        BY <1>4, <1>8, <2>1, <2>2, <2>3, <2>4, ServiceFacts DEF SaysOK
<1>10. PlacesOK(w)'
       BY <1>2, <1>4, <1>5, ServiceFacts DEF PlacesOK, CallsPlaced, InPhase
<1>11. \A kind : Promised(kind, w) => Promised(kind, w)'
       BY <1>3, <1>4, <1>6, <1>7 DEF Promised
<1>12. OutcomeOK(w)'
       BY <1>4, <1>5, <1>6, <1>11, ServiceFacts DEF OutcomeOK
<1>13. TruthOK(w)'
       BY <1>3, <1>4, <1>5, ServiceFacts DEF TruthOK
<1>14. QED
       BY <1>4, <1>8, <1>9, <1>10, <1>12, <1>13 DEF Served, ServeOK

LEMMA AppendFailsServed ==
  ASSUME ServiceInv, NEW w \in Request, AppendFails(w) PROVE Served(w)
<1> USE DEF At, Said, Op
<1>1. /\ ~Said(w) /\ inserting' = [inserting EXCEPT ![w] = {}]
      /\ chain' = chain \/ \E row \in inserting[w] : chain' = Append(chain, row)
      BY ServiceFacts, RaisesMidway DEF AppendFails
<1>2. /\ At(w, {"before", "midway", "after"}) /\ Turn(w, "after", LastWords(w), "broken")
      /\ job' = job /\ saga' = saga
      /\ pc' = (IF At(w, {"midway"}) THEN [pc EXCEPT ![w] = "idle"] ELSE pc)
      BY DEF AppendFails, Goto, journal
<1>3. /\ LastWords(w) \in Seq(Items)
      /\ \A i \in DOMAIN LastWords(w) : LastWords(w)[i].kind = "ACTION_FAILED"
  <2>1. LastWords(w) \in {<<>>, Only("ACTION_FAILED")}
        BY DEF LastWords
  <2>2. /\ Only("ACTION_FAILED") \in Seq(Items)
        /\ \A i \in DOMAIN Only("ACTION_FAILED") : Only("ACTION_FAILED")[i].kind = "ACTION_FAILED"
        BY ItemTypes DEF Kinds
  <2>3. <<>> \in Seq(Items) /\ \A i \in DOMAIN <<>> : FALSE
        OBVIOUS
  <2>4. CASE LastWords(w) = <<>>
        BY <2>3, <2>4
  <2>5. CASE LastWords(w) = Only("ACTION_FAILED")
        BY <2>2, <2>5, Zenon
  <2>6. QED
        BY <2>1, <2>4, <2>5
<1>4. /\ task' \in [Request -> TaskType] /\ \A v \in Request \ {w} : task'[v] = task[v]
      /\ task'[w].stage = "after" /\ task'[w].todo = LastWords(w) /\ task'[w].out = "broken"
      /\ Carried(w)
      BY <1>2, <1>3, TurnType, ServiceFacts DEF Carried, Stages, Outs
<1>5. Longer /\ Stirs(w) /\ inserting'[w] = {}
      BY <1>1, <1>2, <1>4, ChainGrows, ServiceFacts DEF Stirs, Alike, ServiceInv
<1>6. pc'[w] \notin Ahead /\ CallsPlaced(w)'
      BY <1>2, ServiceFacts DEF PlacesOK, Ahead, CallsPlaced, InPhase
<1>7. TruthOK(w)'
      BY <1>3, <1>4 DEF TruthOK
<1>8. ServeOK(w)'
      BY <1>2, <1>4, <1>5, <1>6, <1>7, AfterServed, ServiceFacts DEF Serving
<1>9. QED
      BY <1>4, <1>5, <1>8 DEF Served

LEMMA SummaryFailsServed ==
  ASSUME ServiceInv, NEW w \in Request, SummaryFails(w) PROVE Served(w)
<1> USE DEF At, Said, Op
<1>1. /\ ~Said(w) /\ inserting' = [inserting EXCEPT ![w] = {}]
      /\ chain' = chain \/ \E row \in inserting[w] : chain' = Append(chain, row)
      BY ServiceFacts, RaisesMidway DEF SummaryFails
<1> DEFINE rest == Tail(task[w].todo)
<1>2. PICK out \in {task[w].out, "broken"} : Turn(w, "inside", rest, out)
      BY DEF SummaryFails
<1>3. PICK j : job' = [job EXCEPT ![w] = j]
      BY DEF SummaryFails
<1>4. /\ At(w, {"inside"}) /\ pc' = pc /\ saga' = saga
      /\ pc[w] = "calls" /\ Op(w) \in {"execute", "run"}
      BY <1>1, ServiceFacts DEF SummaryFails, PlacesOK, Ahead, journal
<1>5. /\ rest \in Seq(Items)
      /\ \A i \in DOMAIN rest : i + 1 \in DOMAIN task[w].todo /\ rest[i] = task[w].todo[i + 1]
      BY <1>1, FirstItem, ServiceFacts
<1> HIDE DEF rest
<1>6. /\ task' \in [Request -> TaskType] /\ \A v \in Request \ {w} : task'[v] = task[v]
      /\ task'[w].stage = "inside" /\ task'[w].todo = rest /\ task'[w].out = out
      /\ Carried(w)
  <2>1. out \in Outs
        BY <1>2, TaskFields, ServiceFacts DEF Outs
  <2>2. QED
        BY <1>2, <1>5, <2>1, TurnType, ServiceFacts DEF Carried, Stages
<1>7. Longer /\ Stirs(w) /\ inserting'[w] = {}
      BY <1>1, <1>3, <1>4, <1>6, ChainGrows, ServiceFacts DEF Stirs, Alike, ServiceInv
<1> USE DEF Carried, Longer
<1>8. SaysOK(w)'
      BY <1>4, <1>6, <1>7, ServiceFacts DEF SaysOK, Asked, Serving
<1>9. PlacesOK(w)'
      BY <1>4, <1>6 DEF PlacesOK, CallsPlaced
<1>10. OutcomeOK(w)'
       BY <1>4, <1>6, <1>7, ServiceFacts DEF OutcomeOK
<1>11. TruthOK(w)'
       BY <1>4, <1>5, <1>6, ServiceFacts DEF TruthOK
<1>12. QED
       BY <1>6, <1>7, <1>8, <1>9, <1>10, <1>11 DEF Served, ServeOK

LEMMA RecoveryAuditFailsServed ==
  ASSUME ServiceInv, NEW w \in Request, RecoveryAuditFails(w) PROVE Served(w)
<1>1. /\ inserting' = [inserting EXCEPT ![w] = {}]
      /\ chain' = chain \/ \E row \in inserting[w] : chain' = Append(chain, row)
      BY ServiceFacts, RaisesMidway DEF RecoveryAuditFails
<1>2. /\ At(w, {"reporting"}) /\ Turn(w, "idle", <<>>, "ok")
      /\ job' = job /\ pc' = [pc EXCEPT ![w] = "down"]
      BY DEF RecoveryAuditFails, Goto
<1>3. /\ task' \in [Request -> TaskType] /\ \A v \in Request \ {w} : task'[v] = task[v]
      /\ task'[w].stage = "idle" /\ task'[w].todo = <<>> /\ Carried(w)
  <2>1. <<>> \in Seq(Items)
        OBVIOUS
  <2>2. QED
        BY <1>2, <2>1, TurnType, ServiceFacts DEF Carried, Stages, Outs
<1>4. Longer /\ Stirs(w) /\ inserting'[w] = {}
      BY <1>1, <1>2, <1>3, ChainGrows, ServiceFacts DEF Stirs, Alike, ServiceInv
<1>5. pc'[w] \notin Ahead /\ CallsPlaced(w)' /\ TruthOK(w)'
      BY <1>2, <1>3, ServiceFacts DEF PlacesOK, Ahead, At, CallsPlaced, InPhase, TruthOK
<1>6. ServeOK(w)'
      BY <1>3, <1>4, <1>5, AsideServed, ServiceFacts DEF Aside
<1>7. QED
      BY <1>3, <1>4, <1>6 DEF Served

-----------------------------------------------------------------------------
(* The steps of the coordinator under a task.                              *)

LEMMA SameChain ==
  ASSUME ServiceInv, NEW w \in Request, UNCHANGED <<chain, inserting>>
  PROVE  /\ Longer /\ (Said(w) => inserting'[w] = {})
         /\ (\A v \in Request \ {w} : task'[v] = task[v] /\ pc'[v] = pc[v] /\ job'[v] = job[v])
              => Stirs(w)
BY ServiceFacts, ChainGrows DEF ServiceInv, Stirs, Alike

(* An operation that has announced itself is inside its guarded block.     *)
LEMMA InsideServed ==
  ASSUME NEW w \in Request, ServeOK(w), Longer, Carried(w), At(w, Serving),
         task'[w].stage \in {"inside", "unwinding"}, task'[w].todo = <<>>, inserting'[w] = {},
         Asked(w), task'[w].stage = "unwinding" => InChain("ROLLBACK_REQUESTED", w),
         pc'[w] \in Ahead => task'[w].stage = "inside" /\ Op(w) \in {"execute", "run"},
         CallsPlaced(w)',
         Op(w) = "rollback" /\ task'[w].stage = "inside" => task'[w].out # "ok",
         Op(w) = "commit" /\ task'[w].out = "ok" =>
           /\ task'[w].stage = "inside"
           /\ \/ pc'[w] = "commit"
              \/ pc'[w] = "exit" /\ ~job'[w].again /\ saga' = "COMMITTED"
  PROVE  ServeOK(w)'
<1> USE DEF At, Said, Op, Carried, Longer
<1>1. SaysOK(w)'
      BY DEF SaysOK, Serving, ServeOK, Asked
<1>2. PlacesOK(w)'
      BY DEF PlacesOK
<1>3. OutcomeOK(w)'
      BY DEF OutcomeOK, ServeOK
<1>4. TruthOK(w)'
      BY DEF TruthOK
<1>5. QED
      BY <1>1, <1>2, <1>3, <1>4 DEF ServeOK

LEMMA EnterServed ==
  ASSUME ServiceInv, NEW w \in Request, Enter(w) PROVE Served(w)
<1> USE DEF At, Said, Op
<1>1. /\ At(w, {"before"}) /\ Said(w) /\ Op(w) \in Ops
      /\ UNCHANGED <<chain, inserting>>
      BY ServiceFacts DEF Enter, Announced, SaysOK, Serving
<1>2. Asked(w)
  <2>1. Announcement(Op(w)) = <<>> => Asked(w)
        BY DEF Asked
  <2>2. QED
        BY <1>1, <2>1, ServiceFacts DEF SaysOK
<1> DEFINE l == IF ~Admitted(Op(w)) THEN "exit" ELSE IF Op(w) = "rollback" THEN "mark" ELSE Op(w)
           j == [NoJob EXCEPT !.view = nodes, !.budget = IF Op(w) = "run" THEN 1 ELSE 0, !.par = 1]
<1>3. pc' = [pc EXCEPT ![w] = l] /\ job' = [job EXCEPT ![w] = j]
      BY DEF Enter, Begin, Goto
<1>4. \A r \in Row : j.calls[r] = "none"
      BY DEF NoJob
<1> HIDE DEF j
<1>5. /\ pc'[w] = l /\ job'[w] = j
      /\ \A v \in Request \ {w} : pc'[v] = pc[v] /\ job'[v] = job[v]
      BY <1>3, ServiceFacts
<1>6. PICK stage \in {"inside", "unwinding"}, out \in {"ok", "error"} :
        /\ Turn(w, stage, <<>>, out)
        /\ Admitted(Op(w)) => out = "ok" /\ (Op(w) = "rollback" <=> stage = "unwinding")
        /\ ~Admitted(Op(w)) => out = "error" /\ stage = "inside"
  <2>1. CASE Admitted(Op(w))
        BY <2>1 DEF Enter
  <2>2. CASE ~Admitted(Op(w))
        BY <2>2 DEF Enter
  <2>3. QED
        BY <2>1, <2>2
<1>7. /\ task' \in [Request -> TaskType] /\ \A v \in Request \ {w} : task'[v] = task[v]
      /\ task'[w].stage = stage /\ task'[w].todo = <<>> /\ task'[w].out = out /\ Carried(w)
  <2>1. <<>> \in Seq(Items)
        OBVIOUS
  <2>2. stage \in Stages /\ out \in Outs /\ Turn(w, stage, <<>>, out)
        BY <1>6 DEF Stages, Outs
  <2>3. QED
        BY <2>1, <2>2, TurnType, ServiceFacts DEF Carried
<1>8. Longer /\ Stirs(w) /\ inserting'[w] = {}
      BY <1>1, <1>5, <1>7, SameChain
<1>9. CallsPlaced(w)'
      BY <1>4, <1>5 DEF CallsPlaced, InPhase, OutCalls
<1>10. stage = "unwinding" => InChain("ROLLBACK_REQUESTED", w)
  <2>1. stage = "unwinding" => Op(w) = "rollback"
        BY <1>6
  <2>2. DOMAIN Announcement("rollback") = {1} /\ Announcement("rollback")[1].kind = "ROLLBACK_REQUESTED"
        BY ItemTypes DEF Announcement
  <2>3. QED
        BY <1>2, <2>1, <2>2 DEF Asked
<1>11. pc'[w] \in Ahead => stage = "inside" /\ Op(w) \in {"execute", "run"}
  <2>1. Op(w) \in Operations
        BY <1>1, OpsAssumption DEF OpsAssumption
  <2>2. QED
        BY <1>5, <1>6, <2>1 DEF Ahead, Operations
<1>12. ServeOK(w)'
       BY <1>1, <1>2, <1>5, <1>6, <1>7, <1>8, <1>9, <1>10, <1>11, InsideServed, ServiceFacts
       DEF Serving
<1>13. QED
       BY <1>7, <1>8, <1>12 DEF Served

LEMMA CallServed ==
  ASSUME ServiceInv, NEW w \in Request, NEW r \in Row, CallStarts(w, r) \/ CallReturns(w, r)
  PROVE  Served(w)
<1> USE DEF At, Said, Op
<1>1. /\ pc[w] = "calls" /\ At(w, {"inside"}) /\ Op(w) \in {"execute", "run"}
      /\ UNCHANGED <<chain, inserting>> /\ pc' = pc /\ saga' = saga
      BY ServiceFacts DEF CallStarts, CallReturns, StartCall, CallSucceeds, CallFails,
                          PlacesOK, Ahead, journal
<1>2. Work(w)
      BY OwnSteps
<1>3. Moves(w)
      BY <1>2, WorkMoves, ServiceFacts
<1>4. PICK todo \in {task[w].todo, Append(task[w].todo, Item("ACTION_ATTEMPT_SUMMARY", r))} :
        task' = [task EXCEPT ![w] = [task[w] EXCEPT !.todo = todo]]
  <2>1. task = [task EXCEPT ![w] = [task[w] EXCEPT !.todo = task[w].todo]]
    <3>1. task[w] = [task[w] EXCEPT !.todo = task[w].todo]
          BY TaskFields, ServiceFacts DEF TaskType
    <3>2. QED
          BY <3>1, ServiceFacts DEF TasksOK
  <2>2. QED
        BY <2>1 DEF CallStarts, CallReturns
<1>5. Item("ACTION_ATTEMPT_SUMMARY", r) \in Items
      BY ItemTypes DEF Kinds
<1>6. /\ todo \in Seq(Items)
      /\ \A i \in DOMAIN todo :
           \/ i \in DOMAIN task[w].todo /\ todo[i] = task[w].todo[i]
           \/ todo[i] = Item("ACTION_ATTEMPT_SUMMARY", r)
      /\ task[w].todo # <<>> => todo # <<>> /\ todo[1] = task[w].todo[1]
  <2>1. task[w].todo \in Seq(Items)
        BY TaskFields, ServiceFacts
  <2>2. CASE todo = task[w].todo
        BY <2>1, <2>2
  <2>3. CASE todo = Append(task[w].todo, Item("ACTION_ATTEMPT_SUMMARY", r))
        BY <1>5, <2>1, <2>3
  <2>4. QED
        BY <2>2, <2>3
<1>7. /\ task' \in [Request -> TaskType] /\ \A v \in Request \ {w} : task'[v] = task[v]
      /\ task'[w].stage = "inside" /\ task'[w].todo = todo /\ task'[w].out = task[w].out
      /\ Carried(w)
  <2>1. task \in [Request -> TaskType] /\ task[w] \in TaskType
        BY ServiceFacts DEF TasksOK
  <2>2. QED
        BY <1>1, <1>4, <1>6, <2>1 DEF TaskType, Carried
<1>8. Longer /\ Stirs(w) /\ inserting'[w] = inserting[w]
      BY <1>1, <1>3, <1>7, SameChain DEF Moves
<1> USE DEF Carried, Longer
<1>9. SaysOK(w)'
  <2>1. Asked(w)'
        BY <1>1, <1>7, <1>8, ServiceFacts DEF SaysOK, Asked
  <2>2. ASSUME NEW row \in inserting'[w]
        PROVE  /\ task'[w].todo # <<>>
               /\ row.event = [kind |-> task'[w].todo[1].kind, row |-> task'[w].todo[1].row, by |-> w]
    <3>1. /\ task[w].todo # <<>>
          /\ row.event = [kind |-> task[w].todo[1].kind, row |-> task[w].todo[1].row, by |-> w]
          BY <1>8, ServiceFacts DEF SaysOK
    <3>2. QED
          BY <1>6, <1>7, <3>1
  <2>3. QED
        BY <1>1, <1>7, <2>1, <2>2, ServiceFacts DEF SaysOK, Serving
<1>10. PlacesOK(w)'
       BY <1>1, <1>3, <1>7 DEF PlacesOK, Moves
<1>11. OutcomeOK(w)'
       BY <1>1, <1>7, <1>8, ServiceFacts DEF OutcomeOK
<1>12. TruthOK(w)'
  <2>1. Item("ACTION_ATTEMPT_SUMMARY", r).kind = "ACTION_ATTEMPT_SUMMARY"
        BY ItemTypes DEF Kinds
  <2>2. QED
        BY <1>1, <1>6, <1>7, <2>1, ServiceFacts DEF TruthOK
<1>13. QED
       BY <1>7, <1>8, <1>9, <1>10, <1>11, <1>12 DEF Served, ServeOK

Proceeding(w) ==
  /\ At(w, {"inside", "midway", "unwinding"}) /\ Said(w)
  /\ Moves(w) /\ FinalKept
  /\ UNCHANGED <<chain, inserting>>

LEMMA ProceedFacts ==
  ASSUME ServiceInv, NEW w \in Request, Proceeding(w)
  PROVE  /\ At(w, Serving) /\ Op(w) \in Operations /\ task[w].out \in Outs /\ Asked(w)
         /\ Longer /\ inserting'[w] = {} /\ CallsPlaced(w)'
         /\ (\A v \in Request \ {w} : task'[v] = task[v]) => Stirs(w)
         /\ pc'[w] \in Ahead =>
              pc[w] \in Ahead /\ At(w, {"inside"}) /\ Op(w) \in {"execute", "run"}
         /\ At(w, {"midway"}) => pc[w] = "again" /\ InChain("ROLLBACK_REQUESTED", w)
         /\ At(w, {"unwinding"}) => InChain("ROLLBACK_REQUESTED", w)
<1>1. At(w, Serving) /\ Op(w) \in Ops /\ Asked(w)
      BY ServiceFacts DEF Proceeding, SaysOK, At, Serving
<1>2. Op(w) \in Operations
      BY <1>1, OpsAssumption DEF OpsAssumption
<1>3. /\ At(w, {"midway"}) => pc[w] = "again" /\ InChain("ROLLBACK_REQUESTED", w)
      /\ At(w, {"unwinding"}) => InChain("ROLLBACK_REQUESTED", w)
  <2>1. Only("ROLLBACK_REQUESTED") # <<>>
        BY ItemTypes DEF Kinds
  <2>2. QED
        BY <2>1, ServiceFacts DEF Proceeding, SaysOK, PlacesOK, Said
<1>4. pc'[w] \in Ahead =>
        pc[w] \in Ahead /\ At(w, {"inside"}) /\ Op(w) \in {"execute", "run"}
      BY ServiceFacts DEF Proceeding, Moves, PlacesOK
<1>5. task[w].out \in Outs
      BY TaskFields, ServiceFacts
<1>6. /\ Longer /\ inserting'[w] = {} /\ CallsPlaced(w)'
      /\ (\A v \in Request \ {w} : task'[v] = task[v]) => Stirs(w)
      BY SameChain DEF Proceeding, Moves
<1>7. QED
      BY <1>1, <1>2, <1>3, <1>4, <1>5, <1>6

LEMMA GoesOnServed ==
  ASSUME ServiceInv, NEW w \in Request, Proceeding(w), GoesOn(w) PROVE Served(w)
<1> USE DEF At, Said, Op
<1>1. PICK stage \in {"inside", "unwinding"}, out \in Outs :
        /\ Turn(w, stage, <<>>, out)
        /\ At(w, {"inside", "unwinding"}) =>
             stage = task[w].stage /\ (out = task[w].out \/ out = "error")
        /\ At(w, {"midway"}) =>
             \/ stage = "unwinding" /\ out = task[w].out /\ pc'[w] = "mark"
             \/ stage = "inside" /\ out = "error"
  <2> DEFINE out == IF FailedExecute(w) THEN "error" ELSE task[w].out
  <2>1. out \in Outs /\ (out = task[w].out \/ out = "error")
        BY ProceedFacts DEF Outs
  <2>2. CASE At(w, {"inside", "unwinding"})
    <3>1. Turn(w, task[w].stage, <<>>, out)
          BY <2>2 DEF GoesOn
    <3>2. QED
          BY <2>1, <2>2, <3>1
  <2>3. CASE At(w, {"midway"})
    <3>1. out = task[w].out
          BY <2>3, ProceedFacts DEF FailedExecute
    <3>2. IF pc'[w] = "mark" THEN Turn(w, "unwinding", <<>>, out)
          ELSE Turn(w, "inside", <<>>, "error")
          BY <2>3 DEF GoesOn
    <3>3. QED
          BY <2>1, <2>3, <3>1, <3>2 DEF Outs
  <2>4. QED
        BY <2>2, <2>3 DEF Proceeding
<1>2. /\ task' \in [Request -> TaskType] /\ \A v \in Request \ {w} : task'[v] = task[v]
      /\ task'[w].stage = stage /\ task'[w].todo = <<>> /\ task'[w].out = out /\ Carried(w)
  <2>1. <<>> \in Seq(Items) /\ stage \in Stages
        BY DEF Stages
  <2>2. QED
        BY <1>1, <2>1, TurnType, ServiceFacts DEF Carried
<1>3. stage = "unwinding" => InChain("ROLLBACK_REQUESTED", w)
      BY <1>1, ProceedFacts DEF Proceeding
<1>4. pc'[w] \in Ahead => stage = "inside" /\ Op(w) \in {"execute", "run"}
      BY <1>1, ProceedFacts
<1>5. Op(w) = "rollback" /\ stage = "inside" => out # "ok"
      BY <1>1, ServiceFacts DEF OutcomeOK, Proceeding
<1>6. ASSUME Op(w) = "commit", out = "ok"
      PROVE  /\ stage = "inside" /\ pc'[w] = "exit" /\ ~job'[w].again /\ saga' = "COMMITTED"
  <2>1. task[w].out = "ok" /\ stage = task[w].stage
        BY <1>1, <1>6, ServiceFacts DEF Proceeding, OutcomeOK
  <2>2. At(w, {"inside"}) /\ pc[w] \in {"commit", "exit"}
        BY <1>6, <2>1, ServiceFacts DEF Proceeding, OutcomeOK
  <2>3. pc'[w] \notin {"idle", "again"}
        BY DEF GoesOn
  <2>4. QED
        BY <2>1, <2>2, <2>3 DEF Proceeding, Moves
<1>7. ServeOK(w)'
      BY <1>2, <1>3, <1>4, <1>5, <1>6, ProceedFacts, InsideServed, ServiceFacts
<1>8. QED
      BY <1>2, <1>7, ProceedFacts DEF Served

(* A commit that has not failed neither rolls back nor unwinds.            *)
LEMMA CommitEnds ==
  ASSUME ServiceInv, NEW w \in Request, Proceeding(w), Op(w) = "commit", task[w].out = "ok"
  PROVE  /\ At(w, {"inside"}) /\ pc'[w] # "again"
         /\ pc[w] = "exit" => saga' = "COMMITTED"
<1>1. At(w, {"inside"})
      BY ServiceFacts DEF Proceeding, OutcomeOK, At
<1>2. pc[w] = "commit" \/ (pc[w] = "exit" /\ ~job[w].again /\ saga = "COMMITTED")
      BY <1>1, ServiceFacts DEF OutcomeOK
<1>3. QED
      BY <1>1, <1>2 DEF Proceeding, Moves, FinalKept, Final

LEMMA RollsBackServed ==
  ASSUME ServiceInv, NEW w \in Request, Proceeding(w), RollsBack(w) PROVE Served(w)
<1> USE DEF At, Said, Op
<1>1. pc'[w] = "again" /\ Turn(w, "midway", Only("ROLLBACK_REQUESTED"), task[w].out)
      BY DEF RollsBack
<1>2. /\ task' \in [Request -> TaskType] /\ \A v \in Request \ {w} : task'[v] = task[v]
      /\ task'[w].stage = "midway" /\ task'[w].todo = Only("ROLLBACK_REQUESTED")
      /\ task'[w].out = task[w].out /\ Carried(w)
  <2>1. Only("ROLLBACK_REQUESTED") \in Seq(Items)
        BY ItemTypes DEF Kinds
  <2>2. QED
        BY <1>1, <2>1, TurnType, ProceedFacts, ServiceFacts DEF Carried, Stages
<1> USE DEF Carried, Longer
<1>3. SaysOK(w)'
      BY <1>2, ProceedFacts, ServiceFacts DEF SaysOK, Asked, Serving
<1>4. PlacesOK(w)'
      BY <1>1, <1>2, ProceedFacts DEF PlacesOK, Ahead
<1>5. OutcomeOK(w)'
  <2>1. ~(Op(w) = "commit" /\ task[w].out = "ok")
        BY <1>1, CommitEnds
  <2>2. QED
        BY <1>2, <2>1, ProceedFacts, ServiceFacts DEF OutcomeOK
<1>6. TruthOK(w)'
      BY <1>2, ItemTypes DEF TruthOK
<1>7. QED
      BY <1>2, <1>3, <1>4, <1>5, <1>6, ProceedFacts DEF Served, ServeOK

LEMMA EndsServed ==
  ASSUME ServiceInv, NEW w \in Request, Proceeding(w), Ends(w) PROVE Served(w)
<1> USE DEF At, Said, Op
<1>1. pc'[w] = "idle"
      BY DEF Ends
<1>2. CASE pc[w] = "exit" /\ At(w, {"unwinding"})
  <2>1. Turn(w, "look", <<>>, task[w].out)
        BY <1>2 DEF Ends
  <2>2. /\ task' \in [Request -> TaskType] /\ \A v \in Request \ {w} : task'[v] = task[v]
        /\ task'[w].stage = "look" /\ task'[w].todo = <<>>
        /\ task'[w].out = task[w].out /\ Carried(w)
    <3>1. "look" \in Stages /\ task[w].out \in Outs
          BY ProceedFacts DEF Stages
    <3>2. QED
          BY <2>1, <3>1, EmptyTurn
  <2> USE DEF Carried, Longer
  <2>3. SaysOK(w)'
        BY <2>2, ProceedFacts, ServiceFacts DEF SaysOK, Asked, Serving
  <2>4. PlacesOK(w)'
        BY <1>1, <2>2, ProceedFacts DEF PlacesOK, Ahead
  <2>5. OutcomeOK(w)'
        BY <1>2, <2>2, ProceedFacts, ServiceFacts DEF OutcomeOK
  <2>6. TruthOK(w)'
        BY <2>2 DEF TruthOK
  <2>7. QED
        BY <2>2, <2>3, <2>4, <2>5, <2>6, ProceedFacts DEF Served, ServeOK
<1>3. CASE ~(pc[w] = "exit" /\ At(w, {"unwinding"}))
  <2> DEFINE out == IF pc[w] = "exit" \/ task[w].out = "broken" THEN task[w].out ELSE "error"
  <2>1. Turn(w, "after", Report(Op(w), out), out)
        BY <1>3 DEF Ends
  <2>2. /\ out \in Outs
        /\ out = "ok" => pc[w] = "exit" /\ task[w].out = "ok" /\ At(w, {"inside"})
        BY <1>3, ProceedFacts DEF Outs, Proceeding
  <2> HIDE DEF out
  <2>3. /\ task' \in [Request -> TaskType] /\ \A v \in Request \ {w} : task'[v] = task[v]
        /\ task'[w].stage = "after" /\ task'[w].todo = Report(task[w].op, out)
        /\ task'[w].out = out /\ Carried(w)
    <3>1. Report(Op(w), out) \in Seq(Items)
          BY <2>2, ReportType, ProceedFacts
    <3>2. QED
          BY <2>1, <2>2, <3>1, TurnType, ServiceFacts DEF Carried, Stages
  <2>4. TruthOK(w)'
    <3>1. Op(w) = "commit" /\ out = "ok" => saga' = "COMMITTED"
          BY <2>2, CommitEnds
    <3>2. QED
          BY <2>2, <2>3, <3>1, ReportSays, ProceedFacts DEF TruthOK
  <2>5. ASSUME out = "ok" PROVE Op(w) # "rollback" /\ Promised(Closing[Op(w)], w)'
    <3>1. Op(w) # "rollback"
          BY <2>2, <2>5, ServiceFacts DEF OutcomeOK
    <3>2. QED
      <4>1. PICK i \in DOMAIN Report(task[w].op, out) :
              Report(task[w].op, out)[i].kind = Closing[task[w].op]
            BY <2>2, <2>5, <3>1, ReportSays, ProceedFacts
      <4>2. QED
            BY <2>3, <3>1, <4>1 DEF Promised, Carried
  <2>6. ServeOK(w)'
        BY <1>1, <2>3, <2>4, <2>5, AfterServed, ProceedFacts, ServiceFacts DEF Ahead
  <2>7. QED
        BY <2>3, <2>6, ProceedFacts DEF Served
<1>4. QED
      BY <1>2, <1>3

LEMMA ProceedServed ==
  ASSUME ServiceInv, NEW w \in Request, Proceed(w) PROVE Served(w)
<1>1. Work(w) /\ CallsPlaced(w) /\ TypeInv /\ OpenInv
      BY OwnSteps, ServiceFacts DEF ServiceInv
<1>2. FinalKept
      BY <1>1, NextKeeps DEF Next, Kept, FinalKept
<1>3. Proceeding(w)
      BY <1>1, <1>2, WorkMoves DEF Proceed, Proceeding
<1>4. QED
      BY <1>3, GoesOnServed, RollsBackServed, EndsServed DEF Proceed

LEMMA RecoveryStarts ==
  ASSUME ServiceInv, NEW w \in Request, StartRecovery(w) \/ NothingToRecover(w)
  PROVE  Served(w)
<1>1. PICK l \in {"resume", "idle"} :
        /\ pc' = [pc EXCEPT ![w] = l] /\ pc[w] = "down" /\ job' = job
        /\ UNCHANGED <<chain, inserting>>
      BY DEF StartRecovery, NothingToRecover, Claim, NothingToClaim, Goto
<1>2. CallsPlaced(w)' /\ pc'[w] \notin Ahead
      BY <1>1, ServiceFacts DEF CallsPlaced, InPhase, Ahead
<1>3. \A v \in Request \ {w} : pc'[v] = pc[v] /\ job'[v] = job[v]
      BY <1>1, ServiceFacts
<1>4. CASE StartRecovery(w)
  <2>1. Turn(w, "recovery", <<>>, "ok") /\ At(w, {"idle"})
        BY <1>4 DEF StartRecovery
  <2>2. /\ task' \in [Request -> TaskType] /\ \A v \in Request \ {w} : task'[v] = task[v]
        /\ task'[w].stage = "recovery" /\ task'[w].todo = <<>> /\ Carried(w)
    <3>1. "recovery" \in Stages /\ "ok" \in Outs
          BY DEF Stages, Outs
    <3>2. QED
          BY <2>1, <3>1, EmptyTurn
  <2>3. Said(w)
        BY <2>1, ServiceFacts DEF SaysOK, At
  <2>4. Longer /\ Stirs(w) /\ inserting'[w] = {}
        BY <1>1, <1>3, <2>2, <2>3, SameChain
  <2>5. ServeOK(w)'
        BY <1>2, <2>2, <2>4, AsideServed, ServiceFacts DEF Aside, TruthOK
  <2>6. QED
        BY <2>2, <2>4, <2>5 DEF Served
<1>5. CASE NothingToRecover(w)
  <2>1. task' = task
        BY <1>5 DEF NothingToRecover
  <2>2. Longer /\ Stirs(w)
        BY <1>1, <1>3, <2>1, SameChain
  <2> USE DEF At, Said, Op, Longer
  <2>3. SaysOK(w)'
        BY <1>1, <2>1, <2>2, ServiceFacts DEF SaysOK, Asked
  <2>4. PlacesOK(w)'
        BY <1>1, <1>2, <2>1, ServiceFacts DEF PlacesOK
  <2>5. saga' = saga
        BY <1>5 DEF NothingToRecover, NothingToClaim, journal
  <2>6. OutcomeOK(w)' /\ TruthOK(w)'
    <3>1. ~At(w, {"inside"}) \/ pc[w] \notin {"commit", "exit"}
          BY <1>1
    <3>2. Op(w) = "commit" /\ task[w].out = "ok" => ~At(w, {"inside"})
          BY <1>1, ServiceFacts DEF OutcomeOK
    <3>3. QED
          BY <2>1, <2>2, <2>5, <3>2, ServiceFacts DEF OutcomeOK, Promised, TruthOK
  <2>7. QED
        BY <2>1, <2>2, <2>3, <2>4, <2>6, ServiceFacts DEF Served, ServeOK, TasksOK
<1>6. QED
      BY <1>4, <1>5

LEMMA ProceedRecoveryServed ==
  ASSUME ServiceInv, NEW w \in Request, ProceedRecovery(w) PROVE Served(w)
<1>1. /\ At(w, {"recovery"}) /\ Said(w) /\ pc[w] \notin Ahead
      /\ UNCHANGED <<chain, inserting>>
      BY ServiceFacts DEF ProceedRecovery, SaysOK, PlacesOK, At
<1>2. Moves(w)
      BY OwnSteps, WorkMoves, ServiceFacts
<1>3. PICK stage \in {"recovery", "recovered", "idle"}, out \in Outs : Turn(w, stage, <<>>, out)
  <2>1. task[w].out \in Outs
        BY TaskFields, ServiceFacts
  <2>2. CASE pc'[w] \notin {"idle", "down"}
    <3>1. Turn(w, "recovery", <<>>,
               IF pc[w] = "resume" /\ ~Admitted("rollback") THEN "error" ELSE task[w].out)
          BY <2>2 DEF ProceedRecovery
    <3>2. (IF pc[w] = "resume" /\ ~Admitted("rollback") THEN "error" ELSE task[w].out) \in Outs
          BY <2>1 DEF Outs
    <3>3. QED
          BY <3>1, <3>2
  <2>3. CASE pc'[w] \in {"idle", "down"}
    <3>1. Turn(w, IF pc[w] = "exit" /\ task[w].out = "ok" THEN "recovered" ELSE "idle", <<>>, "ok")
          BY <2>3 DEF ProceedRecovery
    <3>2. QED
          BY <3>1 DEF Outs
  <2>4. QED
        BY <2>2, <2>3
<1>4. /\ task' \in [Request -> TaskType] /\ \A v \in Request \ {w} : task'[v] = task[v]
      /\ task'[w].stage = stage /\ task'[w].todo = <<>> /\ Carried(w)
  <2>1. stage \in Stages
        BY DEF Stages
  <2>2. QED
        BY <1>3, <2>1, EmptyTurn
<1>5. Longer /\ Stirs(w) /\ inserting'[w] = {}
      BY <1>1, <1>2, <1>4, SameChain DEF Moves
<1>6. ServeOK(w)'
      BY <1>1, <1>2, <1>4, <1>5, AsideServed, ServiceFacts DEF Aside, TruthOK, Moves
<1>7. QED
      BY <1>4, <1>5, <1>6 DEF Served

LEMMA DiesServed ==
  ASSUME ServiceInv, NEW w \in Request, ProcessDies(w) PROVE Served(w)
<1>1. /\ pc' = [pc EXCEPT ![w] = "down"] /\ job' = [job EXCEPT ![w] = NoJob]
      /\ inserting' = [inserting EXCEPT ![w] = {}] /\ chain' = chain
      /\ Turn(w, "idle", <<>>, "ok")
      BY DEF ProcessDies, Crash, Goto
<1>2. /\ task' \in [Request -> TaskType] /\ \A v \in Request \ {w} : task'[v] = task[v]
      /\ task'[w].stage = "idle" /\ task'[w].todo = <<>> /\ Carried(w)
  <2>1. "idle" \in Stages /\ "ok" \in Outs
        BY DEF Stages, Outs
  <2>2. QED
        BY <1>1, <2>1, EmptyTurn
<1>3. Longer /\ Stirs(w) /\ inserting'[w] = {}
      BY <1>1, <1>2, ChainGrows, ServiceFacts DEF Stirs, Alike, ServiceInv
<1>4. CallsPlaced(w)' /\ pc'[w] \notin Ahead
      BY <1>1, NoJobCalls, ServiceFacts DEF CallsPlaced, InPhase, Ahead
<1>5. ServeOK(w)'
      BY <1>2, <1>3, <1>4, AsideServed, ServiceFacts DEF Aside, TruthOK
<1>6. QED
      BY <1>2, <1>3, <1>5 DEF Served

-----------------------------------------------------------------------------
(* The invariant of the service.                                           *)

LEMMA FaultsBounded ==
  ASSUME TasksOK, [ANext]_avars PROVE faults' \in 0..MaxFaults
<1>1. faults' = faults \/ Fault
  <2>1. ASSUME NEW w \in Request,
               AppendFails(w) \/ SummaryFails(w) \/ ProcessDies(w)
        PROVE  Fault
        BY <2>1 DEF AppendFails, SummaryFails, ProcessDies
  <2>2. ASSUME NEW w \in Request,
               \/ \E op \in Ops : Submit(w, op)
               \/ AStep(w) \/ StartAppend(w) \/ RejectCommand(w) \/ RecoveryAuditFails(w)
               \/ StartRecovery(w) \/ NothingToRecover(w)
        PROVE  faults' = faults
        BY <2>2 DEF Submit, AStep, StartAppend, RejectCommand, RecoveryAuditFails, StartRecovery,
                    NothingToRecover, Enter, TurnedAway, Conclude, Recorded, CallStarts,
                    CallReturns, Proceed, Look, ProceedRecovery, ReportRecovery, FinishRecovery
  <2>3. CASE LeaseEnds \/ UNCHANGED avars
        BY <2>3 DEF LeaseEnds, avars
  <2>4. QED
        BY <2>1, <2>2, <2>3 DEF ANext
<1>2. QED
      BY <1>1, AuditedAssumption DEF Fault, TasksOK, AuditedAssumption

(* What a process does, other than to lose its lease.                      *)
Acts(w) ==
  \/ \E op \in Ops : Submit(w, op)
  \/ AStep(w) \/ StartAppend(w) \/ RejectCommand(w)
  \/ AppendFails(w) \/ SummaryFails(w) \/ RecoveryAuditFails(w)
  \/ StartRecovery(w) \/ NothingToRecover(w) \/ ProcessDies(w)

LEMMA ActsServed == ASSUME ServiceInv, NEW w \in Request, Acts(w) PROVE Served(w)
<1>1. CASE AStep(w)
      BY <1>1, EnterServed, RefusedServed, ConcludeServed, RecordedServed, CallServed,
         ProceedServed, LookServed, ProceedRecoveryServed, ReportServed DEF AStep
<1>2. QED
      BY <1>1, SubmitServed, StartAppendServed, RefusedServed, AppendFailsServed,
         SummaryFailsServed, RecoveryAuditFailsServed, RecoveryStarts, DiesServed DEF Acts

LEMMA ServiceStep == ServiceInv /\ [ANext]_avars => ServiceInv'
<1> SUFFICES ASSUME ServiceInv, [ANext]_avars PROVE ServiceInv'
    OBVIOUS
<1>1. TypeInv' /\ OpenInv' /\ FinalKept
      BY CoordinatorKeeps DEF Kept, FinalKept
<1>2. Chain!ChainInv'
  <2>1. [Chain!ACNext]_(Chain!chainVars)
        BY JournalStep DEF ServiceInv, ServeOK
  <2>2. QED
        BY <2>1, Chain!ChainNext DEF ServiceInv
<1>3. ASSUME NEW w \in Request, Served(w)
      PROVE  task' \in [Request -> TaskType] /\ (\A v \in Request : ServeOK(v)') /\ EvidenceTrue'
  <2>1. Longer
        BY <1>3, ChainGrows DEF Served, Stirs, ServiceInv
  <2>2. ASSUME NEW v \in Request PROVE ServeOK(v)'
    <3>1. CASE v = w
          BY <1>3, <3>1 DEF Served
    <3>2. CASE v # w
          BY <1>1, <1>3, <2>1, <3>2, OthersServed DEF Served, Stirs, ServiceInv
    <3>3. QED
          BY <3>1, <3>2
  <2>3. EvidenceTrue'
        BY <1>1, <1>3, EvidenceStays DEF Served, Stirs
  <2>4. QED
        BY <1>3, <2>2, <2>3 DEF Served
<1>4. CASE LeaseEnds \/ UNCHANGED avars
  <2>1. /\ task' = task /\ pc' = pc /\ job' = job /\ chain' = chain /\ inserting' = inserting
        /\ saga' = saga
        BY <1>4 DEF LeaseEnds, ExpireLease, HeartbeatFails, avars, vars, journal
  <2>2. Longer
        BY <2>1 DEF Longer, InChain
  <2>3. \A v \in Request : ServeOK(v)'
        BY <1>1, <2>1, <2>2, OthersServed DEF ServiceInv, Alike
  <2>4. EvidenceTrue'
        BY <2>1 DEF ServiceInv, EvidenceTrue, Evidence, InChain
  <2>5. task' \in [Request -> TaskType]
        BY <2>1 DEF ServiceInv, TasksOK
  <2>6. QED
        BY <1>1, <1>2, <2>3, <2>4, <2>5, FaultsBounded DEF ServiceInv, TasksOK
<1>5. CASE ANext /\ ~LeaseEnds
  <2>1. PICK w \in Request : Served(w)
        BY <1>5, ActsServed DEF ANext, Acts
  <2>2. QED
        BY <1>1, <1>2, <1>3, <2>1, FaultsBounded DEF ServiceInv, TasksOK
<1>6. QED
      BY <1>4, <1>5

LEMMA ServiceBegins == AInit => TypeInv /\ OpenInv
<1> SUFFICES ASSUME AInit PROVE TypeInv /\ OpenInv
    OBVIOUS
<1>1. FLTypeOK
      BY DEF AInit, FLInit, FLTypeOK, Believes
<1>2. nodes \in [Node -> NodeType]
  <2>1. Unplanned \in NodeType
        BY DEF Unplanned, NodeType, NodeStatus, Modes
  <2>2. \A mode \in FailureModes : NewNode({}, FALSE, mode) \in NodeType
        BY NewNodeType, CoordinatorAssumption DEF CoordinatorAssumption
  <2>3. QED
        BY <2>1, <2>2 DEF AInit
<1>3. JournalOK
      BY <1>2 DEF AInit, JournalOK, SagaStatus, UnusedRow, RowType, RowStatus, Modes
<1>4. JobsOK
      BY NoJobType DEF AInit, JobsOK, WavesFit, Bounded, Locals
<1>5. OpenInv
      BY DEF AInit, FLInit, OpenInv, PlaceOK, NewestWorksOnOpen, Locals, Working
<1>6. QED
      BY <1>1, <1>3, <1>4, <1>5 DEF TypeInv

LEMMA ServiceInit == AInit => ServiceInv
<1> SUFFICES ASSUME AInit PROVE ServiceInv
    OBVIOUS
<1>1. TypeInv /\ OpenInv
      BY ServiceBegins
<1>2. TasksOK /\ \A w \in Request : task[w] = NoTask
  <2>1. NoTask \in TaskType
        BY DEF NoTask, TaskType, Stages
  <2>2. QED
        BY <2>1, AuditedAssumption DEF AInit, TasksOK, AuditedAssumption
<1>3. Chain!ChainInv
      BY Chain!ChainInit DEF AInit, Audit!ACInit, Chain!ACInit
<1>4. chain = <<>> /\ \A w \in Request : inserting[w] = {}
      BY DEF AInit, Audit!ACInit
<1>5. ASSUME NEW w \in Request PROVE ServeOK(w)
  <2>1. /\ task[w].op = "none" /\ task[w].state = "none" /\ task[w].stage = "idle"
        /\ task[w].todo = <<>> /\ task[w].out = "ok"
        BY <1>2 DEF NoTask
  <2>2. pc[w] = "idle" /\ job[w] = NoJob
        BY DEF AInit
  <2>3. CallsPlaced(w)
        BY <2>2 DEF CallsPlaced, InPhase, OutCalls, NoJob
  <2>4. QED
        BY <1>4, <2>1, <2>2, <2>3
        DEF ServeOK, SaysOK, PlacesOK, OutcomeOK, TruthOK, At, Said, Op, Serving, Ahead
<1>6. EvidenceTrue
      BY <1>4 DEF EvidenceTrue, Evidence, InChain
<1>7. QED
      BY <1>1, <1>2, <1>3, <1>5, <1>6 DEF ServiceInv

LEMMA AlwaysServed == ASpec => []ServiceInv
<1>1. QED
      BY ServiceInit, ServiceStep, PTL DEF ASpec

-----------------------------------------------------------------------------
(* What the tasks append, from their requests and threads, with the faults *)
(* of both and the deaths of their processes, is a run of the journal:     *)
(* AuditChain, proved and checked for itself, is what the service does.    *)
THEOREM TasksKeepTheJournal == ASpec => Chain!ACSpec
<1>1. AInit => Chain!ACInit
      BY DEF AInit, Audit!ACInit, Chain!ACInit
<1>2. ServiceInv /\ [ANext]_avars => [Chain!ACNext]_(Chain!chainVars)
      BY JournalStep DEF ServiceInv, ServeOK
<1>3. QED
      BY <1>1, <1>2, AlwaysServed, PTL DEF ASpec, Chain!ACSpec

(* Every task, its place and the events it has still to append, the rows   *)
(* of the journal and the coordinator below it keep their types.           *)
THEOREM ServiceTypes == ASpec => []ATypeOK
<1>1. ServiceInv => ATypeOK
  <2> SUFFICES ASSUME ServiceInv PROVE ATypeOK
      OBVIOUS
  <2>1. TypeOK
        BY DEF ServiceInv, TypeInv, TypeOK, JournalOK, JobsOK
  <2>2. Audit!ACTypeOK
        BY DEF ServiceInv, Chain!ChainInv, Chain!ACTypeOK, Chain!ChainRow, Chain!Hashes,
               Audit!ACTypeOK, Audit!ChainRow, Audit!Hashes
  <2>3. QED
        BY <2>1, <2>2 DEF ATypeOK, ServiceInv, TasksOK
<1>2. QED
      BY <1>1, AlwaysServed, PTL

(* The journal of the saga is a valid chain whatever its processes do.     *)
THEOREM JournalStaysValid == ASpec => []ChainIntact
<1>1. ServiceInv => ChainIntact
      BY DEF ServiceInv, Chain!ChainInv, Chain!Verify, Chain!PreviousHash, Chain!NoHash,
             Chain!Hash, ChainIntact, Audit!ChainValid, Audit!Verify, Audit!PreviousHash,
             Audit!NoHash, Audit!Hash
<1>2. QED
      BY <1>1, AlwaysServed, PTL

(* verify_audit_chain finds an event altered, a row deleted before the     *)
(* last one and two rows swapped, at any time and not only between tasks.  *)
THEOREM DamageIsFound == ASpec => []TamperEvident
<1>1. ServiceInv => TamperEvident
  <2> SUFFICES ASSUME ServiceInv PROVE Audit!DamageDetected
      BY DEF TamperEvident
  <2>1. Chain!ChainInv
        BY DEF ServiceInv
  <2>2. \A rows : Audit!Verify(rows) <=> Chain!Verify(rows)
        BY DEF Chain!Verify, Chain!PreviousHash, Chain!NoHash, Chain!Hash,
               Audit!Verify, Audit!PreviousHash, Audit!NoHash, Audit!Hash
  <2>3. \A i \in DOMAIN chain, event \in Entry :
          event # chain[i].event => ~Audit!Verify([chain EXCEPT ![i].event = event])
        BY <2>1, <2>2, Chain!AlteredFound
  <2>4. \A i \in 1..(Len(chain) - 1) : ~Audit!Verify(Audit!WithoutRow(chain, i))
        BY <2>1, <2>2, Chain!DeletedFound DEF Chain!WithoutRow, Audit!WithoutRow
  <2>5. \A i, j \in DOMAIN chain :
          i < j => ~Audit!Verify([chain EXCEPT ![i] = chain[j], ![j] = chain[i]])
        BY <2>1, <2>2, Chain!SwappedFound
  <2>6. QED
        BY <2>3, <2>4, <2>5 DEF Audit!DamageDetected
<1>2. QED
      BY <1>1, AlwaysServed, PTL

(* What the journal says of the end of a saga is true of it, now and ever: *)
(* COMMITTED never turns into a rollback, nor ROLLBACK_COMPLETED into      *)
(* anything else.  ROLLBACK_FAILED is not such an end.                     *)
THEOREM EvidenceIsTrue == ASpec => []EvidenceTrue
<1>1. ServiceInv => EvidenceTrue
      BY DEF ServiceInv
<1>2. QED
      BY <1>1, AlwaysServed, PTL

(* A forward call is in flight, or a compensation of a task in progress,   *)
(* only when the process that makes it has its request in the journal.     *)
(* Compensations of a recovery have none.                                  *)
THEOREM EffectsFollowTheirRequest == ASpec => []EffectsAnnounced
<1>1. ServiceInv => EffectsAnnounced
  <2> SUFFICES ASSUME ServiceInv, NEW w \in Request
               PROVE  /\ InPhase(w, {"flight"}) # {} => InChain(Asking[Op(w)], w)
                      /\ (pc[w] = "undoing" /\ At(w, {"unwinding"})) =>
                           InChain("ROLLBACK_REQUESTED", w)
      BY DEF EffectsAnnounced
  <2>1. ASSUME InPhase(w, {"flight"}) # {} PROVE InChain(Asking[Op(w)], w)
    <3>1. InPhase(w, OutCalls) # {}
          BY <2>1 DEF InPhase, OutCalls
    <3>2. At(w, {"inside"}) /\ Op(w) \in {"execute", "run"}
          BY <3>1, ServiceFacts DEF CallsPlaced, PlacesOK, Ahead
    <3>3. Asked(w)
          BY <3>2, ServiceFacts DEF SaysOK, At
    <3>4. Announcement(Op(w)) = Only(Asking[Op(w)])
          BY <3>2 DEF Announcement, Asking
    <3>5. QED
          BY <3>3, <3>4, ItemTypes DEF Asked
  <2>2. At(w, {"unwinding"}) => InChain("ROLLBACK_REQUESTED", w)
        BY ServiceFacts DEF SaysOK
  <2>3. QED
        BY <2>1, <2>2
<1>2. QED
      BY <1>1, AlwaysServed, PTL

(* A task that its caller sees COMPLETED has left the event that closes    *)
(* its operation in the journal: an append that failed is never success.   *)
THEOREM CompletedLeavesEvidence == ASpec => []CompletedTasksEvidenced
<1>1. ServiceInv => CompletedTasksEvidenced
      BY DEF ServiceInv, ServeOK, OutcomeOK, CompletedTasksEvidenced
<1>2. QED
      BY <1>1, AlwaysServed, PTL

-----------------------------------------------------------------------------
(* The service runs the coordinator as it is, but for two of its faults:   *)
(* an append that fails ends the request of a process that waits to roll   *)
(* back, or the start of one (GivesUp), or takes the result of a call away *)
(* in its thread (LosesResult).  Neither touches the journal of the saga.  *)

GivesUp(w) ==
  /\ pc[w] \in Away /\ \E l \in Away : Goto(w, l)
  /\ UNCHANGED <<leaseVars, journal, job, applied>>

LosesResult(w) ==
  /\ pc[w] = "calls"
  /\ \E r \in Row, phase \in {"bad", "lost"} :
       job[w].calls[r] # "none" /\ job' = [job EXCEPT ![w].calls[r] = phase]
  /\ UNCHANGED <<leaseVars, journal, pc, applied>>

Beside(w) == GivesUp(w) \/ LosesResult(w)

(* A recovery that is reported is over, and the summaries still to append  *)
(* are those of calls that were made.                                      *)
HeardOK(w) ==
  /\ At(w, {"recovered", "reporting"}) => pc[w] = "idle"
  /\ At(w, {"inside"}) =>
       \A i \in DOMAIN task[w].todo :
         task[w].todo[i].row \in Row /\ job[w].calls[task[w].todo[i].row] # "none"

HeardInv == \A w \in Request : HeardOK(w)

LEMMA TurnsTo ==
  ASSUME TasksOK, NEW w \in Request, NEW stage, NEW todo, NEW out, Turn(w, stage, todo, out)
  PROVE  task'[w].stage = stage /\ task'[w].todo = todo
<1> DEFINE t == [task[w] EXCEPT !.stage = stage, !.todo = todo, !.out = out]
<1>1. task \in [Request -> TaskType] /\ task' = [task EXCEPT ![w] = t]
      BY DEF Turn, TasksOK
<1>2. t.stage = stage /\ t.todo = todo
      BY <1>1 DEF TaskType
<1> HIDE DEF t
<1>3. QED
      BY <1>1, <1>2

LEMMA StillHeard ==
  ASSUME NEW w \in Request, HeardOK(w), task'[w].stage = task[w].stage, pc'[w] = pc[w],
         \A r \in Row : job[w].calls[r] # "none" => job'[w].calls[r] # "none",
         \A i \in DOMAIN task'[w].todo :
           \/ \E k \in DOMAIN task[w].todo : task'[w].todo[i] = task[w].todo[k]
           \/ task'[w].todo[i].row \in Row /\ job'[w].calls[task'[w].todo[i].row] # "none"
  PROVE  HeardOK(w)'
BY DEF HeardOK, At

(* Of the calls of one process, one changes.                               *)
LEMMA CallChanges ==
  ASSUME TypeInv, NEW w \in Request, NEW r \in Row, NEW phase, phase # "none",
         job' = [job EXCEPT ![w].calls[r] = phase]
  PROVE  /\ job'[w].calls[r] = phase
         /\ \A q \in Row : job[w].calls[q] # "none" => job'[w].calls[q] # "none"
<1>1. job \in [Request -> JobType] /\ job[w] \in JobType
      BY DEF TypeInv, JobsOK
<1>2. job'[w].calls = [job[w].calls EXCEPT ![r] = phase] /\ job[w].calls \in [Row -> CallPhase]
      BY <1>1 DEF JobType
<1>3. QED
      BY <1>2

(* Steps within the operation, and to elsewhere.                           *)
LEMMA ActsHeard ==
  ASSUME ServiceInv, NEW w \in Request, HeardOK(w), Acts(w) PROVE HeardOK(w)'
<1>0. /\ TasksOK /\ TypeInv /\ task \in [Request -> TaskType] /\ pc \in [Request -> Locals]
      BY DEF ServiceInv, TasksOK, TypeInv, JobsOK
<1>1. ASSUME task'[w].stage \notin {"inside", "recovered", "reporting"} PROVE HeardOK(w)'
      BY <1>1 DEF HeardOK, At
<1>2. ASSUME task'[w].stage = "inside", task'[w].todo = <<>> PROVE HeardOK(w)'
      BY <1>2 DEF HeardOK, At
<1>3. ASSUME task' = task, job' = job, pc'[w] \in {pc[w], "idle"} PROVE HeardOK(w)'
      BY <1>3 DEF HeardOK, At
<1>4. CASE \E op \in Ops : Submit(w, op)
  <2>1. PICK op \in Ops :
          task' = [task EXCEPT ![w] = [NoTask EXCEPT !.op = op, !.state = "WORKING",
                                         !.stage = "before", !.todo = Announcement(op)]]
        BY <1>4 DEF Submit
  <2>2. task'[w].stage = "before"
        BY <1>0, <2>1 DEF NoTask
  <2>3. QED
        BY <1>1, <2>2
<1>5. CASE RejectCommand(w) \/ TurnedAway(w) \/ Look(w) \/ AppendFails(w)
  <2>1. PICK todo, out : Turn(w, "after", todo, out)
        BY <1>5 DEF RejectCommand, TurnedAway, Look, AppendFails
  <2>2. QED
        BY <1>0, <1>1, <2>1, TurnsTo
<1>6. CASE Enter(w)
  <2>1. PICK stage \in {"unwinding", "inside"} : \E out : Turn(w, stage, <<>>, out)
        BY <1>6 DEF Enter
  <2>2. QED
        BY <1>0, <1>1, <1>2, <2>1, TurnsTo
<1>7. CASE Conclude(w)
  <2>1. PICK state :
          task' = [task EXCEPT ![w].stage = "idle", ![w].out = "ok", ![w].state = state]
        BY <1>7 DEF Conclude
  <2>2. task'[w].stage = "idle"
        BY <1>0, <2>1 DEF TaskType
  <2>3. QED
        BY <1>1, <2>2
<1>8. CASE StartAppend(w) \/ NothingToRecover(w)
      BY <1>0, <1>3, <1>8 DEF StartAppend, NothingToRecover, NothingToClaim, Goto, vars
<1>9. CASE Recorded(w)
  <2>1. ~Said(w) /\ task' = [task EXCEPT ![w].todo = Tail(@)] /\ UNCHANGED <<pc, job>>
        BY <1>9, ServiceFacts DEF Recorded, Audit!Insert, SaysOK, vars
  <2>2. task'[w].stage = task[w].stage /\ task'[w].todo = Tail(task[w].todo)
        BY <1>0, <2>1 DEF TaskType
  <2>3. QED
        BY <1>0, <2>1, <2>2, StillHeard, FirstItem
<1>10. ASSUME NEW r \in Row, CallStarts(w, r) PROVE HeardOK(w)'
  <2>1. PICK phase \in {"flight", "lost"} : job' = [job EXCEPT ![w].calls[r] = phase]
        BY <1>10 DEF CallStarts, StartCall
  <2>2. task' = task /\ pc' = pc
        BY <1>10 DEF CallStarts, StartCall
  <2>3. QED
        BY <1>0, <2>1, <2>2, StillHeard, CallChanges
<1>11. ASSUME NEW r \in Row, CallReturns(w, r) PROVE HeardOK(w)'
  <2>1. PICK phase \in {"ok", "bad", "lost"} : job' = [job EXCEPT ![w].calls[r] = phase]
        BY <1>11 DEF CallReturns, CallSucceeds, CallFails
  <2>2. /\ pc' = pc /\ job'[w].calls[r] # "none"
        /\ \A q \in Row : job[w].calls[q] # "none" => job'[w].calls[q] # "none"
        BY <1>0, <1>11, <2>1, CallChanges DEF CallReturns, CallSucceeds, CallFails
  <2>3. CASE task' = task
        BY <2>2, <2>3, StillHeard
  <2>4. CASE task' = [task EXCEPT ![w].todo = Append(@, Item("ACTION_ATTEMPT_SUMMARY", r))]
    <3>1. /\ task'[w].stage = task[w].stage
          /\ task'[w].todo = Append(task[w].todo, Item("ACTION_ATTEMPT_SUMMARY", r))
          BY <1>0, <2>4 DEF TaskType
    <3>2. task[w].todo \in Seq(Items)
          BY <1>0, TaskFields
    <3>3. ASSUME NEW i \in DOMAIN task'[w].todo
          PROVE  \/ i \in DOMAIN task[w].todo /\ task'[w].todo[i] = task[w].todo[i]
                 \/ task'[w].todo[i] = Item("ACTION_ATTEMPT_SUMMARY", r)
          BY <3>1, <3>2
    <3>4. Item("ACTION_ATTEMPT_SUMMARY", r).row = r
          BY DEF Item
    <3>5. QED
          BY <2>2, <3>1, <3>3, <3>4, StillHeard
  <2>5. QED
        BY <1>11, <2>3, <2>4 DEF CallReturns
<1>12. CASE Proceed(w)
  <2>1. CASE GoesOn(w)
    <3>1. PICK stage \in {"inside", "unwinding"} : \E out : Turn(w, stage, <<>>, out)
          BY <1>12, <2>1 DEF Proceed, GoesOn, At
    <3>2. QED
          BY <1>0, <1>1, <1>2, <3>1, TurnsTo
  <2>2. CASE RollsBack(w)
        BY <1>0, <1>1, <2>2, TurnsTo DEF RollsBack
  <2>3. CASE Ends(w)
    <3>1. PICK stage \in {"look", "after"} : \E todo, out : Turn(w, stage, todo, out)
          BY <2>3 DEF Ends
    <3>2. QED
          BY <1>0, <1>1, <3>1, TurnsTo
  <2>4. QED
        BY <1>12, <2>1, <2>2, <2>3 DEF Proceed
<1>13. CASE ProceedRecovery(w)
  <2>1. Moves(w)
        BY <1>13, OwnSteps, WorkMoves, ServiceFacts
  <2>2. CASE pc'[w] \notin {"idle", "down"}
    <3>1. PICK out : Turn(w, "recovery", <<>>, out)
          BY <1>13, <2>2 DEF ProceedRecovery
    <3>2. QED
          BY <1>0, <1>1, <3>1, TurnsTo
  <2>3. CASE pc'[w] \in {"idle", "down"}
    <3>1. Turn(w, IF pc[w] = "exit" /\ task[w].out = "ok" THEN "recovered" ELSE "idle", <<>>, "ok")
          BY <1>13, <2>3 DEF ProceedRecovery
    <3>2. pc[w] = "exit" => pc'[w] = "idle"
          BY <2>1, <2>3 DEF Moves
    <3>3. task'[w].stage = IF pc[w] = "exit" /\ task[w].out = "ok" THEN "recovered" ELSE "idle"
          BY <1>0, <3>1, TurnsTo
    <3>4. QED
          BY <3>2, <3>3 DEF HeardOK, At
  <2>4. QED
        BY <2>2, <2>3
<1>14. CASE ReportRecovery(w)
  <2>1. task'[w].stage = "reporting" /\ pc' = pc
        BY <1>0, <1>14, TurnsTo DEF ReportRecovery, vars
  <2>2. QED
        BY <1>14, <2>1 DEF HeardOK, At, ReportRecovery
<1>15. CASE FinishRecovery(w) \/ RecoveryAuditFails(w) \/ ProcessDies(w)
      BY <1>0, <1>1, <1>15, TurnsTo DEF FinishRecovery, RecoveryAuditFails, ProcessDies
<1>16. CASE StartRecovery(w)
      BY <1>0, <1>1, <1>16, TurnsTo DEF StartRecovery
<1>17. CASE SummaryFails(w)
  <2> DEFINE r == task[w].todo[1].row
  <2>1. ~Said(w) /\ At(w, {"inside"}) /\ pc' = pc
        BY <1>17, RaisesMidway, ServiceFacts DEF SummaryFails
  <2>2. r \in Row
        BY <1>0, <2>1, FirstItem DEF HeardOK
  <2>3. PICK phase \in {"bad", "lost"} : job' = [job EXCEPT ![w].calls[r] = phase]
        BY <1>17 DEF SummaryFails
  <2>4. PICK out : Turn(w, "inside", Tail(task[w].todo), out)
        BY <1>17 DEF SummaryFails
  <2>5. task'[w].stage = task[w].stage /\ task'[w].todo = Tail(task[w].todo)
        BY <1>0, <2>1, <2>4, TurnsTo DEF At
  <2> HIDE DEF r
  <2>6. \A q \in Row : job[w].calls[q] # "none" => job'[w].calls[q] # "none"
        BY <1>0, <2>2, <2>3, CallChanges
  <2>7. \A i \in DOMAIN task'[w].todo :
          \E k \in DOMAIN task[w].todo : task'[w].todo[i] = task[w].todo[k]
        BY <1>0, <2>1, <2>5, FirstItem
  <2>8. QED
        BY <2>1, <2>5, <2>6, <2>7, StillHeard
<1>18. QED
      BY <1>4, <1>5, <1>6, <1>7, <1>8, <1>9, <1>10, <1>11, <1>12, <1>13, <1>14, <1>15, <1>16,
         <1>17 DEF Acts, AStep

LEMMA HeardStep == ASSUME ServiceInv, HeardInv, [ANext]_avars PROVE HeardInv'
<1>1. CASE LeaseEnds \/ UNCHANGED avars
  <2>1. UNCHANGED <<task, pc, job>>
        BY <1>1 DEF LeaseEnds, ExpireLease, HeartbeatFails, avars, vars
  <2>2. QED
        BY <2>1 DEF HeardInv, HeardOK, At
<1>2. ASSUME NEW w \in Request, Acts(w) PROVE HeardInv'
  <2>1. HeardOK(w)'
        BY <1>2, ActsHeard DEF HeardInv
  <2>2. ASSUME NEW v \in Request \ {w} PROVE HeardOK(v)'
    <3>1. Alike(v)
          BY <1>2, ActsServed DEF Served, Stirs
    <3>2. QED
          BY <3>1 DEF HeardInv, HeardOK, At, Alike
  <2>3. QED
        BY <2>1, <2>2 DEF HeardInv
<1>3. QED
      BY <1>1, <1>2 DEF ANext, Acts

(* A step of the service is one of the coordinator, none of it, or one of  *)
(* the two faults.                                                         *)
LEMMA ServiceMoves ==
  ASSUME ServiceInv, HeardInv, [ANext]_avars
  PROVE  [Next]_vars \/ \E w \in Request : Beside(w)
<1>1. CASE LeaseEnds \/ UNCHANGED avars
      BY <1>1 DEF LeaseEnds, avars, Next
<1>2. ASSUME NEW w \in Request, Acts(w) PROVE [Next]_vars \/ Beside(w)
  <2>0. SaysOK(w) /\ PlacesOK(w) /\ HeardOK(w) /\ TasksOK
        BY DEF ServiceInv, ServeOK, HeardInv
  <2>1. CASE \/ \E op \in Ops : Submit(w, op)
             \/ RejectCommand(w) \/ TurnedAway(w) \/ Conclude(w) \/ StartAppend(w) \/ Recorded(w)
             \/ Look(w) \/ ReportRecovery(w) \/ FinishRecovery(w)
        BY <2>1, Untouched
  <2>2. CASE \/ \E r \in Row : CallStarts(w, r) \/ CallReturns(w, r)
             \/ Proceed(w) \/ ProceedRecovery(w) \/ StartRecovery(w) \/ NothingToRecover(w)
             \/ ProcessDies(w)
        BY <2>2, OwnSteps DEF Next
  <2>3. CASE Enter(w)
        BY <2>0, <2>3, EnterBegins
  <2>4. CASE AppendFails(w)
    <3>1. CASE At(w, {"midway"})
      <4>1. pc[w] = "again"
            BY <2>0, <3>1 DEF PlacesOK
      <4>2. QED
            BY <2>4, <3>1, <4>1 DEF AppendFails, Beside, GivesUp, Away
    <3>2. CASE ~At(w, {"midway"})
          BY <2>4, <3>2 DEF AppendFails, leaseVars, journal, vars
    <3>3. QED
          BY <3>1, <3>2
  <2>5. CASE RecoveryAuditFails(w)
    <3>1. pc[w] = "idle"
          BY <2>0, <2>5 DEF RecoveryAuditFails, HeardOK, At
    <3>2. QED
          BY <2>5, <3>1 DEF RecoveryAuditFails, Beside, GivesUp, Away
  <2>6. CASE SummaryFails(w)
    <3> DEFINE r == task[w].todo[1].row
    <3>1. ~Said(w) /\ At(w, {"inside"})
          BY <2>0, <2>6, RaisesMidway DEF SummaryFails
    <3>2. pc[w] = "calls" /\ r \in Row /\ job[w].calls[r] # "none"
          BY <2>0, <3>1, FirstItem DEF PlacesOK, HeardOK
    <3>3. PICK phase \in {"bad", "lost"} : job' = [job EXCEPT ![w].calls[r] = phase]
          BY <2>6 DEF SummaryFails
    <3>4. UNCHANGED <<leaseVars, journal, pc, applied>>
          BY <2>6 DEF SummaryFails
    <3> HIDE DEF r
    <3>5. QED
          BY <3>2, <3>3, <3>4 DEF Beside, LosesResult
  <2>7. QED
        BY <1>2, <2>1, <2>2, <2>3, <2>4, <2>5, <2>6 DEF Acts, AStep
<1>3. QED
      BY <1>1, <1>2 DEF ANext, Acts

(* ... and the faults keep what the steps of the coordinator keep: nobody  *)
(* comes closer to a write by them.                                        *)
LEMMA BesideFrame ==
  ASSUME TypeInv, NEW w \in Request, Beside(w)
  PROVE  /\ Frame(w) /\ UNCHANGED <<leaseVars, journal, applied>>
         /\ job'[w].view = job[w].view /\ job'[w].broken = job[w].broken
         /\ \/ pc[w] \in Away /\ pc'[w] \in Away /\ job' = job
            \/ pc[w] = "calls" /\ pc' = pc
<1>0. /\ pc \in [Request -> Locals] /\ job \in [Request -> JobType] /\ job[w] \in JobType
      BY DEF TypeInv, JobsOK
<1>1. CASE GivesUp(w)
      BY <1>0, <1>1 DEF GivesUp, Goto, Frame, leaseVars, journal
<1>2. CASE LosesResult(w)
  <2>1. PICK r \in Row, phase \in {"bad", "lost"} :
          job' = [job EXCEPT ![w] = [job[w] EXCEPT !.calls[r] = phase]]
        BY <1>2 DEF LosesResult
  <2> DEFINE j == [job[w] EXCEPT !.calls[r] = phase]
  <2>2. j.view = job[w].view /\ j.broken = job[w].broken
        BY <1>0 DEF JobType
  <2>3. job' = [job EXCEPT ![w] = j]
        BY <2>1
  <2> HIDE DEF j
  <2>4. job'[w] = j /\ \A v \in Request \ {w} : job'[v] = job[v]
        BY <1>0, <2>3
  <2>5. QED
        BY <1>2, <2>2, <2>4 DEF LosesResult, Frame, leaseVars, journal
<1>3. QED
      BY <1>1, <1>2 DEF Beside

LEMMA BesideLife ==
  ASSUME LifeInv, TypeInv', OpenInv', NEW w \in Request, Beside(w) PROVE LifeInv'
<1>0. TypeInv /\ QueueOK /\ RolledBackClean /\ LifeOK /\ saga \in SagaStatus
      BY DEF LifeInv, RollbackInv, TypeInv, JournalOK
<1>1. /\ Frame(w) /\ UNCHANGED <<current, saga, nodes, steps>>
      /\ job'[w].broken = job[w].broken
      /\ \/ pc[w] \in Away /\ pc'[w] \in Away
         \/ pc[w] = "calls" /\ pc'[w] = "calls"
      BY <1>0, BesideFrame DEF leaseVars, journal
<1>2. pc[w] \notin Unwinding /\ pc'[w] \notin Unwinding
      BY <1>1 DEF Away, Unwinding
<1>3. QueueOK'
      BY <1>0, <1>1, <1>2, QueueStep
<1>4. RolledBackClean'
      BY <1>0, <1>1 DEF RolledBackClean, Used
<1>5. current' = w => saga' \in Expected(pc'[w])
      BY <1>0, <1>1 DEF LifeOK, Expected, Away, Unwinding
<1>6. LifeOK'
      BY <1>0, <1>1, <1>2, <1>5, ForwardStep DEF LifeOK
<1>7. QED
      BY <1>3, <1>4, <1>6 DEF LifeInv, RollbackInv

LEMMA BesideWork ==
  ASSUME WorkInv, TypeInv', OpenInv', NEW w \in Request, Beside(w) PROVE WorkInv'
<1>0. TypeInv /\ WorkOK /\ LifeInv
      BY DEF WorkInv, LifeInv, RollbackInv
<1>1. Frame(w) /\ UNCHANGED <<current, nodes, steps>>
      BY <1>0, BesideFrame DEF leaseVars, journal
<1>2. CASE GivesUp(w)
  <2>1. pc[w] \in Away /\ pc'[w] \in Away /\ job' = job
        BY <1>0, <1>2, BesideFrame DEF GivesUp, Away
  <2>2. Airborne(w)'
        BY <1>0, <2>1 DEF WorkOK, Airborne, Away
  <2>3. WorkOK'
        BY <1>0, <1>1, <2>1, <2>2, AwayStep DEF WorkOK, Away, Reading, Changing
  <2>4. QED
        BY <1>0, <2>3, BesideLife DEF WorkInv
<1>3. CASE LosesResult(w)
  <2>1. pc[w] = "calls" /\ pc' = pc
        BY <1>3 DEF LosesResult
  <2>2. PICK r \in Row, phase \in {"bad", "lost"} :
          /\ job[w].calls[r] # "none"
          /\ job' = [job EXCEPT ![w] = [job[w] EXCEPT !.calls[r] = phase]]
        BY <1>3 DEF LosesResult
  <2>3. WorkOK'
        BY <1>1, <2>1, <2>2, PhaseWork
  <2>4. QED
        BY <1>0, <2>3, BesideLife DEF WorkInv
<1>4. QED
      BY <1>2, <1>3 DEF Beside

LEMMA BesideSound ==
  ASSUME SoundInv, NEW w \in Request, Beside(w) PROVE NodesSound' /\ ViewsSound'
<1>0. TypeInv /\ NodesSound /\ ViewsSound
      BY DEF SoundInv, WorkInv, LifeInv, RollbackInv
<1>1. /\ Frame(w) /\ UNCHANGED <<current, saga, nodes>> /\ job'[w].view = job[w].view
      /\ pc'[w] \in Changing => pc[w] \in Changing
      BY <1>0, BesideFrame DEF leaseVars, journal, Away, Changing
<1>2. QED
      BY <1>0, <1>1, SameNodesSound, SoundStep DEF ViewsSound

LEMMA BesideKeep ==
  ASSUME KeepInv, NEW w \in Request, Beside(w)
  PROVE  ViewsFollow' /\ Blank' /\ nodes' = nodes
<1>0. TypeInv /\ ViewsFollow /\ Blank
      BY DEF KeepInv, WorkInv, LifeInv, RollbackInv
<1>1. /\ Frame(w) /\ UNCHANGED <<current, nodes>> /\ job'[w].view = job[w].view
      /\ pc'[w] \in Changing => pc[w] \in Changing
      BY <1>0, BesideFrame DEF leaseVars, journal, Away, Changing
<1>2. ViewsFollow'
      BY <1>0, <1>1, KeepStep DEF ViewsFollow
<1>3. QED
      BY <1>0, <1>1, <1>2 DEF Blank, Planned

LEMMA BesideUndone ==
  ASSUME UndoneInv, NEW w \in Request, Beside(w) PROVE Held' /\ Standing'
<1>0. TypeInv /\ Held /\ Standing
      BY DEF UndoneInv, WorkInv, LifeInv, RollbackInv
<1>1. /\ Frame(w) /\ UNCHANGED <<leaseVars, steps, applied>> /\ pc'[w] # "undone"
      /\ pc[w] \in Away <=> pc'[w] \in Away
      BY <1>0, BesideFrame DEF journal, Away
<1>2. QED
      BY <1>0, <1>1, HeldSame, StandingSame

-----------------------------------------------------------------------------
(* The service starts a saga that was just begun, or one whose nodes are   *)
(* planned and ready.                                                      *)

LEMMA FreshNodes ==
  ASSUME AInit, NEW n \in Node
  PROVE  /\ nodes[n].status \in {"UNPLANNED", "READY"} /\ nodes[n].step = 0
         /\ nodes[n].deps = {} /\ ~nodes[n].gated
<1>1. nodes[n] = Unplanned \/ \E mode \in FailureModes : nodes[n] = NewNode({}, FALSE, mode)
      BY DEF AInit
<1>2. ASSUME NEW mode
      PROVE  /\ NewNode({}, FALSE, mode).status = "READY" /\ NewNode({}, FALSE, mode).step = 0
             /\ NewNode({}, FALSE, mode).deps = {} /\ ~NewNode({}, FALSE, mode).gated
      BY DEF NewNode, Unplanned
<1>3. QED
  <2>1. CASE nodes[n] = Unplanned
        BY <2>1 DEF Unplanned
  <2>2. ASSUME NEW mode, nodes[n] = NewNode({}, FALSE, mode)
        PROVE  /\ nodes[n].status \in {"UNPLANNED", "READY"} /\ nodes[n].step = 0
               /\ nodes[n].deps = {} /\ ~nodes[n].gated
        BY <1>2, <2>2
  <2>3. QED
        BY <1>1, <2>1, <2>2

LEMMA ServiceFounded ==
  ASSUME AInit
  PROVE  /\ HeardInv /\ KeepInv /\ ApprovedFirst /\ NodesSound /\ ViewsSound
         /\ Held /\ Standing /\ Life!LInit
<1>1. TypeInv /\ OpenInv
      BY ServiceBegins
<1>2. /\ saga = "ACTIVE" /\ applied = {} /\ current = NoRequest
      /\ \A w \in Request : guard[w] = "out" /\ pc[w] = "idle" /\ job[w] = NoJob
      BY DEF AInit, FLInit
<1>3. \A w \in Request : current # w
      BY <1>2, NoRequestAssumption
<1>4. LifeInv
  <2>1. LifeOK
        BY <1>2, <1>3, NoJobNotBroken DEF LifeOK
  <2>2. QED
        BY <1>1, <1>2, <1>3, <2>1 DEF LifeInv, RollbackInv, QueueOK, RolledBackClean
<1>5. WorkInv
  <2>1. Backed(nodes, steps)
        BY FreshNodes DEF Backed, BackedBy
  <2>2. \A w \in Request : Airborne(w)
        BY <1>2 DEF Airborne, NoJob
  <2>3. QED
        BY <1>3, <1>4, <2>1, <2>2 DEF WorkInv, WorkOK, ViewsOK
<1>6. KeepInv /\ ApprovedFirst
      BY <1>3, <1>5, FreshNodes DEF KeepInv, ViewsFollow, Blank, ApprovedFirst, Approved, InStatus
<1>7. NodesSound /\ ViewsSound
  <2>1. ASSUME NEW n \in Node PROVE MayStart(nodes[n], nodes)
        BY FreshNodes, ReadyMeans DEF MayStart, Approved
  <2>2. QED
        BY <1>3, <2>1 DEF NodesSound, Sound, ViewsSound, InStatus
<1>8. Held /\ Standing
      BY <1>2, <1>3 DEF Held, Standing, Away
<1>9. Life!LInit
      BY <1>2 DEF AInit, UnusedRow, Progress, Life!LInit
<1>10. HeardInv
  <2>1. ASSUME NEW w \in Request PROVE task[w].stage = "idle"
        BY DEF AInit, NoTask
  <2>2. QED
        BY <2>1 DEF HeardInv, HeardOK, At
<1>11. QED
      BY <1>6, <1>7, <1>8, <1>9, <1>10

(* So all that is known of the coordinator is known under its tasks.       *)
CarriedInv == ServiceInv /\ HeardInv /\ KeepInv /\ ApprovedFirst

LEMMA CarriedStep == CarriedInv /\ [ANext]_avars => CarriedInv'
<1> SUFFICES ASSUME CarriedInv, [ANext]_avars PROVE CarriedInv'
    OBVIOUS
<1>0. ServiceInv /\ HeardInv /\ KeepInv /\ ApprovedFirst /\ WorkInv /\ LifeInv
      BY DEF CarriedInv, KeepInv, WorkInv
<1>1. ServiceInv' /\ HeardInv'
      BY <1>0, ServiceStep, HeardStep
<1>2. TypeInv' /\ OpenInv'
      BY <1>1 DEF ServiceInv
<1>3. CASE [Next]_vars
  <2>1. WorkInv'
        BY <1>0, <1>3, LifeStays, WorkNext DEF WorkInv
  <2>2. ViewsFollow' /\ Blank' /\ ApprovedFirst'
        BY <1>0, <1>3, KeepNext, BlankNext, ApprovedNext
  <2>3. QED
        BY <1>1, <2>1, <2>2 DEF CarriedInv, KeepInv
<1>4. ASSUME NEW w \in Request, Beside(w) PROVE CarriedInv'
  <2>1. WorkInv'
        BY <1>0, <1>2, <1>4, BesideWork
  <2>2. ViewsFollow' /\ Blank' /\ nodes' = nodes
        BY <1>0, <1>4, BesideKeep
  <2>3. ApprovedFirst'
        BY <1>0, <2>2 DEF ApprovedFirst, InStatus
  <2>4. QED
        BY <1>1, <2>1, <2>2, <2>3 DEF CarriedInv, KeepInv
<1>5. QED
      BY <1>0, <1>3, <1>4, ServiceMoves

LEMMA AlwaysCarried == ASpec => []CarriedInv
<1>1. AInit => CarriedInv
      BY ServiceInit, ServiceFounded DEF CarriedInv
<1>2. QED
      BY <1>1, CarriedStep, PTL DEF ASpec

LEMMA CarriedFacts ==
  CarriedInv => /\ ServiceInv /\ HeardInv /\ KeepInv /\ ApprovedFirst /\ WorkInv /\ LifeInv
                /\ RollbackInv /\ OpenInv
BY DEF CarriedInv, KeepInv, WorkInv, LifeInv, RollbackInv

(* A step of the service as its journal sees it.                           *)
LEMMA CarriedMoves ==
  ASSUME CarriedInv, [ANext]_avars PROVE [Next]_vars \/ UNCHANGED journal
<1>1. ASSUME NEW w \in Request, Beside(w) PROVE UNCHANGED journal
      BY <1>1 DEF Beside, GivesUp, LosesResult
<1>2. QED
      BY <1>1, ServiceMoves, CarriedFacts

LEMMA AlwaysCarriedSound == ASSUME EmptyMessages = {} PROVE ASpec => [](CarriedInv /\ SoundInv)
<1>1. AInit => CarriedInv /\ SoundInv
      BY ServiceInit, ServiceFounded DEF CarriedInv, SoundInv, KeepInv
<1>2. CarriedInv /\ SoundInv /\ [ANext]_avars => CarriedInv' /\ SoundInv'
  <2> SUFFICES ASSUME CarriedInv, SoundInv, [ANext]_avars
               PROVE  CarriedInv' /\ NodesSound' /\ ViewsSound'
      BY CarriedFacts DEF SoundInv, CarriedInv, KeepInv
  <2>1. CarriedInv'
        BY CarriedStep
  <2>2. ASSUME NEW w \in Request, Beside(w) PROVE NodesSound' /\ ViewsSound'
        BY <2>2, BesideSound
  <2>3. [Next]_vars => NodesSound' /\ ViewsSound'
        BY SoundNext
  <2>4. QED
        BY <2>1, <2>2, <2>3, ServiceMoves, CarriedFacts
<1>3. QED
      BY <1>1, <1>2, PTL DEF ASpec

LEMMA AlwaysCarriedUndone == ASSUME ~Stalls PROVE ASpec => [](CarriedInv /\ UndoneInv)
<1>1. AInit => CarriedInv /\ UndoneInv
      BY ServiceInit, ServiceFounded DEF CarriedInv, UndoneInv, KeepInv
<1>2. CarriedInv /\ UndoneInv /\ [ANext]_avars => CarriedInv' /\ UndoneInv'
  <2> SUFFICES ASSUME CarriedInv, UndoneInv, [ANext]_avars
               PROVE  CarriedInv' /\ Held' /\ Standing'
      BY CarriedFacts DEF UndoneInv, CarriedInv, KeepInv
  <2>1. CarriedInv'
        BY CarriedStep
  <2>2. ASSUME NEW w \in Request, Beside(w) PROVE Held' /\ Standing'
        BY <2>2, BesideUndone
  <2>3. [Next]_vars => Held' /\ Standing'
        BY UndoneNext
  <2>4. QED
        BY <2>1, <2>2, <2>3, ServiceMoves, CarriedFacts
<1>3. QED
      BY <1>1, <1>2, PTL DEF ASpec

-----------------------------------------------------------------------------
(* What the coordinator promises, its service keeps: with tasks that are   *)
(* refused, appends that fail in the middle of an operation or a recovery, *)
(* and call results that are lost with their summary.                      *)

(* The coordinator under its tasks takes its own steps, or suffers one of  *)
(* the two faults: nothing that a task, its events or a recovery does is   *)
(* a third way to the state of a saga.                                     *)
THEOREM ServiceRunsTheCoordinator == ASpec => [][Next \/ \E w \in Request : Beside(w)]_vars
<1>1. CarriedInv /\ [ANext]_avars => [Next \/ \E w \in Request : Beside(w)]_vars
      BY ServiceMoves, CarriedFacts
<1>2. QED
      BY <1>1, AlwaysCarried, PTL DEF ASpec

(* No task changes a saga that was committed or rolled back: whatever      *)
(* fails or dies, however late.                                            *)
THEOREM ServiceClosesForGood == ASpec => TerminalFinal
<1>1. CarriedInv /\ [ANext]_avars => [(saga \in Final) => UNCHANGED journal]_vars
      BY FinalStays, CarriedMoves, CarriedFacts
<1>2. QED
      BY <1>1, AlwaysCarried, PTL DEF ASpec, TerminalFinal

(* A saga that its tasks or a recovery rolled back has compensated every   *)
(* row that was used, also when the append that announces or reports the   *)
(* rollback fails.                                                         *)
THEOREM ServiceLeavesNothing == ASpec => []RolledBackClean
<1>1. CarriedInv => RolledBackClean
      BY CarriedFacts DEF RollbackInv
<1>2. QED
      BY <1>1, AlwaysCarried, PTL

(* Under any tasks a row is compensated only when every later one, in the  *)
(* order in which they were created, is, or was tried.                     *)
THEOREM ServiceCompensatesInReverse == ASpec => ReverseOrder
<1> DEFINE Ordered ==
      \A r \in Row :
        (steps[r].status # "COMPENSATED" /\ steps'[r].status = "COMPENSATED") =>
          \A q \in Used \ EmptyMessages :
            q > r => steps[q].status \in {"COMPENSATED", "COMPENSATION_FAILED"}
<1>1. ASSUME CarriedInv, [ANext]_avars PROVE [Ordered]_vars
  <2>1. CASE [Next]_vars
        BY <1>1, <2>1, ReverseStep, CarriedFacts
  <2>2. CASE UNCHANGED journal
        BY <2>2 DEF journal
  <2>3. QED
        BY <1>1, <2>1, <2>2, CarriedMoves
<1>2. QED
      BY <1>1, AlwaysCarried, PTL DEF ASpec, ReverseOrder

(* The saga of a service moves as SagaLifecycle says.                      *)
THEOREM ServiceKeepsTheLifecycle == ASpec => ImplementsLifecycle
<1>1. CarriedInv /\ [ANext]_avars => [Life!LNext]_(Life!lifeVars)
  <2>1. UNCHANGED journal => UNCHANGED Life!lifeVars
        BY StutterSame DEF journal
  <2>2. QED
        BY <2>1, StepMaps, CarriedMoves, CarriedFacts
<1>2. AInit => Life!LInit
      BY ServiceFounded
<1>3. QED
      BY <1>1, <1>2, AlwaysCarried, PTL DEF ASpec, ImplementsLifecycle, Life!LSpec

(* The workflow of a service claims no more than its step rows show: a     *)
(* result that was lost with its summary is not a completed node.          *)
THEOREM ServiceBacksCompleted == ASpec => []CompletedNodesBacked
<1>1. CarriedInv => CompletedNodesBacked
      BY WorkBacked, CarriedFacts
<1>2. QED
      BY <1>1, AlwaysCarried, PTL

(* Both intents come first: with EffectsFollowTheirRequest, a call of the  *)
(* newest grantee is out only when the audit journal has its request and   *)
(* the saga's own journal its row and node.                                *)
THEOREM ServiceJournalsCalls == ASpec => []CallsAreJournaled
<1>1. CarriedInv => CallsAreJournaled
      BY WorkJournaled, CarriedFacts
<1>2. QED
      BY <1>1, AlwaysCarried, PTL

(* If no compensation fails without a message, no task starts a node that  *)
(* its dependencies or its approval hold back.                             *)
THEOREM ServiceStartsEligible == ASSUME EmptyMessages = {} PROVE ASpec => []Eligible
<1>1. CarriedInv /\ SoundInv => Eligible
      BY SoundEligible
<1>2. QED
      BY <1>1, AlwaysCarriedSound, PTL

(* If no process outlives its lease, a saga that is rolled back has left   *)
(* no effect of the calls of its tasks behind, those whose results were    *)
(* lost with their summaries included.                                     *)
THEOREM ServiceUndoes == ASSUME ~Stalls PROVE ASpec => []RolledBackUndone
<1>1. CarriedInv /\ UndoneInv => RolledBackUndone
      BY NothingStands
<1>2. QED
      BY <1>1, AlwaysCarriedUndone, PTL

(* No task starts a gated node before its approval (ApprovedFirst).        *)
THEOREM ServiceAwaitsApproval == ASpec => []ApprovedFirst
<1>1. CarriedInv => ApprovedFirst
      BY CarriedFacts
<1>2. QED
      BY <1>1, AlwaysCarried, PTL

(* No task takes a node or a gate away from the workflow (GatesStay).      *)
THEOREM ServiceLosesNoGate == ASpec => GatesStay
<1>1. ASSUME CarriedInv, [ANext]_avars
      PROVE  [\A n \in Planned(nodes) :
                n \in Planned(nodes') /\ nodes'[n].gated = nodes[n].gated]_vars
  <2>1. CASE [Next]_vars
        BY <1>1, <2>1, GateStep, CarriedFacts
  <2>2. CASE UNCHANGED journal
    <3>1. nodes' = nodes
          BY <2>2 DEF journal
    <3>2. QED
          BY <3>1
  <2>3. QED
        BY <1>1, <2>1, <2>2, CarriedMoves
<1>2. QED
      BY <1>1, AlwaysCarried, PTL DEF ASpec, GatesStay
=============================================================================
