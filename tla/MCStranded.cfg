\* A process dies between the last row of a wave and the save of the workflow.
SPECIFICATION Spec
CONSTANTS
  w1 = w1
  w2 = w2
  NoRequest = NoRequest
  Request = {w1}
  Node = {1}
  Row = {1}
  Ops = {"plan", "run"}
  Gates = {FALSE}
  FailureModes = {"pause"}
  Stalls = FALSE
  EmptyMessages = {}
  RegistryDrift = FALSE
INVARIANT NoneStranded
CHECK_DEADLOCK FALSE
