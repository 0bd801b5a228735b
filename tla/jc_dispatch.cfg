SPECIFICATION Spec
SYMMETRY Symm
CONSTANTS
  Job = {j1, j2}
  Worker = {w1, w2, w3}
  NoJob = NoJob
  NoWorker = NoWorker
  Dispatcher = Dispatcher
  Operator = Operator
  Submitted = {j1, j2}
  Cancelable = {}
  Stoppable = {}
  Retryable = {}
  MaxWorkers = 2
  MaxActiveWorkers = 2
  WriteCapable = FALSE
  MaxWriteWorkersPerRepo = 1
  MaxRetries = 0
  Outcomes <- PlainOutcomes
  Faults = {}
CHECK_DEADLOCK FALSE
INVARIANTS NoLostJob CapacityRespected StrictAggregation StaysUp
