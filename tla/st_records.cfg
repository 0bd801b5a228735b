SPECIFICATION Spec
SYMMETRY Symm
CONSTANTS
  Write = {v1, v2, v3}
  Entry = {n1, n2, n3}
  Reader = {r1, r2}
  v1 = v1
  v2 = v2
  v3 = v3
  n1 = n1
  n2 = n2
  n3 = n3
  r1 = r1
  r2 = r2
  Parts <- Kept
  None = None
  MaxRestarts = 1
CHECK_DEADLOCK FALSE
INVARIANTS NoLostUpdate ArtifactFound
PROPERTIES IsALog
