\* Two processes that ask before they lease, and a policy that changes.
SPECIFICATION GSpec
CONSTANTS
  w1 = w1
  w2 = w2
  NoRequest = NoRequest
  Request = {w1, w2}
  Node = {1, 2, 3}
  Row = {1}
  Ops = {"plan", "execute", "approve", "retry", "run", "commit", "rollback"}
  Gates = {FALSE, TRUE}
  FailureModes = {"pause"}
  Stalls = FALSE
  EmptyMessages = {1}
  RegistryDrift = TRUE
  Definitions <- Either
  Wishes = {"none", "yes", "no"}
  Policies <- Changing
SYMMETRY Processes
INVARIANT GTypeOK
INVARIANT PlannedBudget
INVARIANT RiskBudget
INVARIANT DemandedApproval
CHECK_DEADLOCK FALSE
