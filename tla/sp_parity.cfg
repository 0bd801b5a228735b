SPECIFICATION StoresSpec
SYMMETRY Symm
CONSTANTS
  j1 = j1
  Job = {j1}
  Worker = {w1}
  Session = {s1, s2}
  JobOf <- OneJob
  Artifact = {a1}
  Status = {active, closed}
  Token = {t1}
  EventType = {e1, e2}
  EntryKind = {input}
  Absent = Absent
  MaxTime = 3
  MaxCalls = 4
  MaxStarts = 2
  Interrupt = FALSE
CHECK_DEADLOCK FALSE
INVARIANTS Answers
PROPERTIES Contract
