SPECIFICATION Spec
CONSTANTS
  Job = {j1}
  Worker = {w1}
  NoJob = NoJob
  NoWorker = NoWorker
  Dispatcher = Dispatcher
  Operator = Operator
  Submitted = {j1}
  Cancelable = {j1}
  Stoppable = {w1}
  Retryable = {}
  MaxWorkers = 1
  MaxActiveWorkers = 2
  WriteCapable = TRUE
  MaxWriteWorkersPerRepo = 1
  MaxRetries = 0
  Outcomes <- SignalOutcomes
  Faults = {"aggregate", "heartbeat", "worktree"}
CHECK_DEADLOCK FALSE
INVARIANTS CanceledWasRequested
