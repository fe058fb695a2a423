\* A planner waives a gate, the policy demands approval when planning, then when running.
SPECIFICATION GSpec
CONSTANTS
  w1 = w1
  w2 = w2
  NoRequest = NoRequest
  Request = {w1}
  Node = {1}
  Row = {1}
  Ops = {"plan", "run"}
  Gates = {FALSE, TRUE}
  FailureModes = {"pause"}
  Stalls = FALSE
  EmptyMessages = {}
  RegistryDrift = FALSE
  Definitions <- Gated
  Wishes = {"no"}
  Policies <- NewDemand
PROPERTY NewDemandStops
CHECK_DEADLOCK FALSE
