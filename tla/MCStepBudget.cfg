\* One process that runs a chain of two nodes in two waves.
SPECIFICATION GSpec
CONSTANTS
  w1 = w1
  w2 = w2
  NoRequest = NoRequest
  Request = {w1}
  Node = {1, 2}
  Row = {1, 2}
  Ops = {"plan", "run"}
  Gates = {FALSE, TRUE}
  FailureModes = {"pause"}
  Stalls = FALSE
  EmptyMessages = {}
  RegistryDrift = FALSE
  Definitions <- Ungated
  Wishes = {"none"}
  Policies <- Tight
INVARIANT StepBudget
CHECK_DEADLOCK FALSE
