SPECIFICATION FairSpec
CONSTANTS
  Job = {j1}
  Worker = {w1, w2}
  Executor = {e1, e2}
  NoJob = NoJob
  NoWorker = NoWorker
  NoHost = NoHost
  MaxWorkers = 1
  MaxActiveWorkers = 1
  Capacity = 1
  Mortal = {e1}
  SharedFiles = FALSE
  Serial = TRUE
  InOrder = TRUE
  Outcomes <- Outs
  MaxFaults = 1
CHECK_DEADLOCK FALSE
INVARIANTS ResultAfterExit OneProcessPerJob
PROPERTIES TerminalStays EveryJobEnds
