SPECIFICATION FairSpec
CONSTANTS
  c1 = c1
  c2 = c2
  Client = {c1, c2}
  Scopes = {"events", "file", "stdio"}
  Polling = TRUE
  Hasty = FALSE
  Limit = 1
  Solo = {"events", "stdio"}
  MaxEvents = 3
  MaxChunks = 2
  MaxStreams = 2
  MaxInputs = 1
CHECK_DEADLOCK FALSE
INVARIANTS NoSkip Released NothingDropped
PROPERTIES EveryEventSeen
