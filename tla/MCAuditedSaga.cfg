\* Two processes with one task each; steps outside the workflow.
SPECIFICATION ASpec
CONSTANTS
  w1 = w1
  w2 = w2
  NoRequest = NoRequest
  Request = {w1, w2}
  Node = {}
  Row = {1}
  Ops = {"execute", "commit", "rollback"}
  Gates = {FALSE}
  FailureModes = {"rollback", "pause"}
  Stalls = TRUE
  EmptyMessages = {}
  RegistryDrift = FALSE
  MaxFaults = 1
  MaxEvents = 4
INVARIANT ATypeOK
INVARIANT ChainIntact
INVARIANT TamperEvident
INVARIANT EvidenceTrue
INVARIANT EffectsAnnounced
INVARIANT CompletedTasksEvidenced
SYMMETRY Processes
CHECK_DEADLOCK FALSE
