SPECIFICATION FairSpec
CONSTANTS
  Host = {h1, h2}
  Worker = {w1}
  NoHost = NoHost
  Stoppable = {h1}
  Session = TRUE
  Service = TRUE
  Timely = TRUE
  BumpOnUnregister = TRUE
  LeaseTtl = 2
  HeartbeatTtl = 2
  StaleAfter = 1
  MaxVersion = 2
CHECK_DEADLOCK FALSE
  
PROPERTIES   EndedNotRenewed LeaderReturns
