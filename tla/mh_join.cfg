SPECIFICATION Spec
CONSTANTS
  h1 = h1
  h2 = h2
  j1 = j1
  j2 = j2
  w1 = w1
  w2 = w2
  Host = {h1, h2}
  Job = {j1}
  Worker = {w1, w2}
  NoHost = NoHost
  NoJob = NoJob
  NoWorker = NoWorker
  Stoppable = {}
  Mortal = {}
  Joins = TRUE
  StopMidPass = FALSE
  MaxBoots = 1
CHECK_DEADLOCK FALSE
PROPERTIES LiveWorkerKept
