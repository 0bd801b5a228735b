SPECIFICATION FairSpec
CONSTANTS
  j1 = j1
  j2 = j2
  w1 = w1
  w2 = w2
  Job = {j1, j2}
  Worker = {w1, w2}
  NoJob = NoJob
  NoWorker = NoWorker
  Submitted = {j1}
  Backends = {"memory", "sqlite"}
  Outcomes <- SomeOutcomes
  MaxRetries = 1
  Faults = {"worktree"}
  MaxCrashes = 1
  Races = FALSE
CHECK_DEADLOCK FALSE
INVARIANTS NoStrayProcess TreeKept CompletedOnResults
PROPERTIES Settles
