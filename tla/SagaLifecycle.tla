----------------------------- MODULE SagaLifecycle -----------------------------
(***************************************************************************)
(* What a saga promises to its callers and operators, without processes,   *)
(* leases, workflows or crashes: a status, and how far each of its steps   *)
(* has come.  SagaCoordinator shows that its processes, whatever becomes   *)
(* of them, implement this module.                                         *)
(***************************************************************************)
EXTENDS Integers

CONSTANTS
  Row,
  Silent        \* steps whose compensation may fail without a message

VARIABLES
  status,       \* of the saga
  rows          \* "unused", "open" (begun, not undone), "undone", "stuck"

lifeVars == <<status, rows>>

Closed == {"COMMITTED", "ROLLED_BACK"}

LInit ==
  /\ status = "ACTIVE"
  /\ rows = [r \in Row |-> "unused"]

(* A step is begun, for the first time or again, in an active saga only.   *)
Proceed(r) ==
  /\ status = "ACTIVE"
  /\ rows' = [rows EXCEPT ![r] = "open"]
  /\ UNCHANGED status

(* An operator approves, rejects or retries.                               *)
Decide ==
  /\ status \in {"ACTIVE", "RECOVERY_REQUIRED"}
  /\ status' \in {"ACTIVE", "RECOVERY_REQUIRED"}
  /\ UNCHANGED rows

(* What was going on, or had failed before, is left to an operator.        *)
HandOver ==
  /\ status \notin Closed
  /\ status' = "RECOVERY_REQUIRED"
  /\ UNCHANGED rows

Fail == status = "ACTIVE" /\ status' = "FAILED" /\ UNCHANGED rows

Commit == status = "ACTIVE" /\ status' = "COMMITTED" /\ UNCHANGED rows

StartRollback ==
  /\ status \notin Closed
  /\ status' = "ROLLING_BACK"
  /\ UNCHANGED rows

(* All steps after r are undone, or it was tried.                          *)
LaterTried(r) ==
  \A q \in Row \ Silent : q > r => rows[q] \in {"unused", "undone", "stuck"}

(* A step that was begun and not undone is undone, in reverse order, or it *)
(* is seen not to be.                                                      *)
Undo(r) ==
  /\ status = "ROLLING_BACK"
  /\ rows[r] \in {"open", "stuck"} /\ LaterTried(r)
  /\ rows' \in {[rows EXCEPT ![r] = "undone"], [rows EXCEPT ![r] = "stuck"]}
  /\ UNCHANGED status

(* A rollback succeeds if nothing is left, and fails if a step is stuck.   *)
EndRollback ==
  /\ status = "ROLLING_BACK"
  /\ \/ status' = "ROLLED_BACK" /\ \A r \in Row \ Silent : rows[r] \in {"unused", "undone"}
     \/ status' = "ROLLBACK_FAILED" /\ \E r \in Row : rows[r] = "stuck"
  /\ UNCHANGED rows

LNext ==
  \/ Decide \/ HandOver \/ Fail \/ Commit \/ StartRollback \/ EndRollback
  \/ \E r \in Row : Proceed(r) \/ Undo(r)

LSpec == LInit /\ [][LNext]_lifeVars
=============================================================================
