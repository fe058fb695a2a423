\* One process that crashes and starts again; every node needs an approval.
SPECIFICATION Spec
CONSTANTS
  w1 = w1
  w2 = w2
  NoRequest = NoRequest
  Request = {w1}
  Node = {1, 2}
  Row = {1, 2}
  Ops = {"plan", "approve", "retry", "commit", "run", "rollback"}
  Gates = {TRUE}
  FailureModes = {"rollback", "pause"}
  Stalls = FALSE
  EmptyMessages = {}
  RegistryDrift = TRUE
INVARIANT TypeOK
INVARIANT Eligible
INVARIANT CallsAreJournaled
INVARIANT CompletedNodesBacked
INVARIANT RolledBackClean
INVARIANT RolledBackUndone
PROPERTY TerminalFinal
PROPERTY ReverseOrder
PROPERTY ImplementsLifecycle
CHECK_DEADLOCK FALSE
