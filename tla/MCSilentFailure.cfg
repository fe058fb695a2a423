\* A compensation raises an exception without a message.
SPECIFICATION Spec
CONSTANTS
  w1 = w1
  w2 = w2
  NoRequest = NoRequest
  Request = {w1}
  Node = {}
  Row = {1, 2}
  Ops = {"execute", "rollback"}
  Gates = {FALSE}
  FailureModes = {"rollback"}
  Stalls = FALSE
  EmptyMessages = {1}
  RegistryDrift = FALSE
INVARIANT FailuresVisible
CHECK_DEADLOCK FALSE
