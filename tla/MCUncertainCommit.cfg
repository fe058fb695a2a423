\* A process dies during a call and is back before its lease lapses.
SPECIFICATION Spec
CONSTANTS
  w1 = w1
  w2 = w2
  NoRequest = NoRequest
  Request = {w1}
  Node = {}
  Row = {1}
  Ops = {"execute", "commit"}
  Gates = {FALSE}
  FailureModes = {"rollback"}
  Stalls = FALSE
  EmptyMessages = {}
  RegistryDrift = FALSE
INVARIANT NoUncertainCommit
CHECK_DEADLOCK FALSE
