SPECIFICATION FairSpec
CONSTANTS
  Job = {j1, j2, j3}
  Worker = {w1, w2}
  NoJob = NoJob
  NoWorker = NoWorker
  Dispatcher = Dispatcher
  Operator = Operator
  Submitted = {j1}
  Cancelable = {}
  Stoppable = {}
  Retryable = {j1}
  MaxWorkers = 2
  MaxActiveWorkers = 2
  WriteCapable = TRUE
  MaxWriteWorkersPerRepo = 1
  MaxRetries = 1
  Outcomes <- FileOutcomes
  Faults = {"spawn"}
CHECK_DEADLOCK FALSE
INVARIANTS WriteExclusion NoLostJob NoOrphanProcess
PROPERTIES EveryJobEnds
