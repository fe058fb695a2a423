\* A process dies in the middle of an operator's rollback.
SPECIFICATION Spec
CONSTANTS
  w1 = w1
  w2 = w2
  NoRequest = NoRequest
  Request = {w1}
  Node = {1, 2}
  Row = {1, 2}
  Ops = {"plan", "run", "retry", "commit", "rollback"}
  Gates = {FALSE}
  FailureModes = {"pause"}
  Stalls = FALSE
  EmptyMessages = {}
  RegistryDrift = FALSE
INVARIANT NoUndoneCommit
CHECK_DEADLOCK FALSE
