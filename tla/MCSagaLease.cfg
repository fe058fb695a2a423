\* Three requests of two processes contend for a saga, or for a batch of two.
SPECIFICATION FairSpec
CONSTANTS
  s1 = s1
  s2 = s2
  r1 = r1
  r2 = r2
  r3 = r3
  w1 = w1
  w2 = w2
  NoWorker = NoWorker
  NoRequest = NoRequest
  Saga = {s1, s2}
  Request = {r1, r2, r3}
  Worker = {w1, w2}
  WorkerOf <- TwoProcesses
  MaxFence <- Fences
  ClaimLimit = 2
INVARIANT TypeOK
INVARIANT TokensUnique
PROPERTY JournalMonotone
PROPERTY StaleNoticed
PROPERTY ImplementsFencedLease
PROPERTY OnlyNewestWrites
CHECK_DEADLOCK FALSE
