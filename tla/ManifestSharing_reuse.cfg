CONSTANTS
  i1 = i1  i2 = i2  r1 = r1  r2 = r2
  Imports = {i1, i2}
  Resumes = {}
  ReusesPath = TRUE
  None = None  Empty = Empty  Torn = Torn
SPECIFICATION Spec
INVARIANT LiveManifestIsWhole
CHECK_DEADLOCK FALSE
