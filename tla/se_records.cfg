SPECIFICATION FairSpec
CONSTANTS
  c1 = c1
  c2 = c2
  s1 = s1
  s2 = s2
  NoSession = NoSession
  Caller = {c1, c2}
  Session = {s1, s2}
  MaxCalls = 2
  MaxRestarts = 1
CHECK_DEADLOCK FALSE
INVARIANTS StatusMatchesClients
PROPERTIES OnlyLateReopen BootHeals CancelStops ExitSettles
