\* Two processes that overtake each other over one node, or over two steps
\* outside the workflow.
SPECIFICATION Spec
CONSTANTS
  w1 = w1
  w2 = w2
  NoRequest = NoRequest
  Request = {w1, w2}
  Node = {1}
  Row = {1, 2}
  Ops = {"plan", "run", "retry", "commit", "execute", "rollback"}
  Gates = {FALSE}
  FailureModes = {"rollback", "pause"}
  Stalls = TRUE
  EmptyMessages = {1}
  RegistryDrift = FALSE
CONSTRAINT OneFamily
SYMMETRY Processes
INVARIANT CallsAreJournaled
INVARIANT CompletedNodesBacked
INVARIANT RolledBackClean
PROPERTY ImplementsLifecycle
PROPERTY TerminalFinal
CHECK_DEADLOCK FALSE
