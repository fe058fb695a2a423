\* Two runs of a planned workflow, under fairness of their own steps.
SPECIFICATION AFairSpec
CONSTANTS
  w1 = w1
  w2 = w2
  NoRequest = NoRequest
  Request = {w1, w2}
  Node = {1}
  Row = {1}
  Ops = {"run"}
  Gates = {FALSE}
  FailureModes = {"rollback"}
  Stalls = TRUE
  EmptyMessages = {1}
  RegistryDrift = FALSE
  MaxFaults = 1
  MaxEvents = 3
INVARIANT EffectsAnnounced
INVARIANT CompletedTasksEvidenced
PROPERTY TasksEnd
CHECK_DEADLOCK FALSE
