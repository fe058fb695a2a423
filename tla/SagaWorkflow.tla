----------------------------- MODULE SagaWorkflow -----------------------------
(***************************************************************************)
(* The workflow that a saga keeps under metadata._engine, and what the     *)
(* engine's pure functions do with it (engine.py, and the node records of  *)
(* coordinator.py).                                                        *)
(*                                                                         *)
(* A node's number is its place in the dictionary of nodes.  SQLite keeps  *)
(* the order of planning, a PostgreSQL JSONB column sorts by the random    *)
(* node id: a new node may take any free place.                            *)
(***************************************************************************)
EXTENDS Integers, FiniteSets

CONSTANTS Node, Row

ASSUME WorkflowAssumption == Node \subseteq Nat \ {0} /\ Row \subseteq Nat \ {0}

Modes == {"rollback", "pause"}                      \* failure_mode
Open == {"WAITING_DEPENDENCY", "BLOCKED"}
Dead == {"FAILED", "REJECTED", "BLOCKED"}
Started == {"READY", "EXECUTING", "COMPLETED"}
NodeStatus == {"UNPLANNED", "WAITING_APPROVAL", "COMPENSATED",
               "COMPENSATION_FAILED"} \cup Open \cup Dead \cup Started

NodeType == [status : NodeStatus, deps : SUBSET Node,
             gated : BOOLEAN,                       \* approval_required
             approval : {"NONE", "PENDING", "APPROVED", "REJECTED"},
             step : Row \cup {0}, uncertain : BOOLEAN, mode : Modes]

Unplanned == [status |-> "UNPLANNED", deps |-> {}, gated |-> FALSE,
              approval |-> "NONE", step |-> 0, uncertain |-> FALSE,
              mode |-> "rollback"]

Planned(nodes) == {n \in Node : nodes[n].status # "UNPLANNED"}
InStatus(nodes, S) == {n \in Node : nodes[n].status \in S}

DependencyStatus(node, nodes) ==
  IF \A d \in node.deps : nodes[d].status = "COMPLETED" THEN "ready"
  ELSE IF \E d \in node.deps : nodes[d].status \in Dead THEN "blocked"
  ELSE "waiting"

Approved(node) == node.gated => node.approval = "APPROVED"

(* One node of a refresh, which sees the statuses in "seen".               *)
Advance(node, seen) ==
  CASE DependencyStatus(node, seen) = "blocked" -> "BLOCKED"
    [] DependencyStatus(node, seen) = "waiting" -> "WAITING_DEPENDENCY"
    [] OTHER -> IF Approved(node) THEN "READY" ELSE "WAITING_APPROVAL"

Before(m, n, last) == IF n = last THEN m # n ELSE m < n /\ m # last

WithStatus(nodes, status) ==
  [n \in Node |-> IF n \in DOMAIN status
                  THEN [nodes[n] EXCEPT !.status = status[n]] ELSE nodes[n]]

(* The result of one refresh (a set of one): a single pass in which a node *)
(* sees what the pass made of the nodes before it and the old status of    *)
(* those after it.  "last" is a node just planned, which is still at the   *)
(* end of the dictionary; 0 if there is none.                              *)
Refreshes(nodes, last) ==
  {new \in {WithStatus(nodes, status) :
              status \in [InStatus(nodes, Open) ->
                            Open \cup {"READY", "WAITING_APPROVAL"}]} :
     \A n \in InStatus(nodes, Open) :
       new[n].status = Advance(nodes[n],
         [m \in Node |-> IF Before(m, n, last) THEN new[m] ELSE nodes[m]])}

(* Mutant: the status of the approval given to the node.                   *)
NewNodeMixed(deps, gated, mode) ==
  [Unplanned EXCEPT
     !.status = IF deps # {} THEN "WAITING_DEPENDENCY"
                ELSE IF gated THEN "PENDING" ELSE "READY",
     !.deps = deps, !.gated = gated, !.mode = mode]

(* The record that plan_step adds.                                         *)
NewNode(deps, gated, mode) ==
  [Unplanned EXCEPT
     !.status = IF deps # {} THEN "WAITING_DEPENDENCY"
                ELSE IF gated THEN "WAITING_APPROVAL" ELSE "READY",
     !.deps = deps, !.gated = gated, !.mode = mode,
     !.approval = IF gated THEN "PENDING" ELSE "NONE"]

Approvable(node) == node.gated /\ node.status \in {"WAITING_APPROVAL", "REJECTED"}

(* Mutant: dependencies forgotten.                                         *)
AfterApprovalAtOnce(node, nodes) == [node EXCEPT !.approval = "APPROVED", !.status = "READY"]

AfterApproval(node, nodes) ==
  [node EXCEPT !.approval = "APPROVED",
     !.status = IF DependencyStatus(node, nodes) = "ready"
                THEN "READY" ELSE "WAITING_DEPENDENCY"]

AfterRejection(node) == [node EXCEPT !.approval = "REJECTED", !.status = "REJECTED"]

Retryable(node, force) == node.status \in Dead /\ (node.uncertain => force)

AfterRetry(node, nodes) ==
  IF Approved(node)
  THEN [node EXCEPT !.uncertain = FALSE,
          !.status = IF DependencyStatus(node, nodes) = "ready"
                     THEN "READY" ELSE "WAITING_DEPENDENCY"]
  ELSE [node EXCEPT !.uncertain = FALSE, !.approval = "PENDING",
          !.status = "WAITING_APPROVAL"]

(* Mutant: only good outcomes thought of.                                  *)
AfterCallHopeful(node, ok) == [node EXCEPT !.uncertain = FALSE, !.status = "COMPLETED"]

AfterCall(node, ok) ==
  [node EXCEPT !.uncertain = FALSE, !.status = IF ok THEN "COMPLETED" ELSE "FAILED"]

(* The first ready nodes, as many as both limits allow.                    *)
Waves(nodes, limit) ==
  {wave \in SUBSET InStatus(nodes, {"READY"}) :
     /\ wave # {} /\ Cardinality(wave) <= limit
     /\ \A n \in InStatus(nodes, {"READY"}) \ wave :
          Cardinality(wave) = limit /\ \A m \in wave : m < n}
=============================================================================
