CONSTANTS
  i1 = i1  i2 = i2  r1 = r1  r2 = r2
  Imports = {i1, i2}
  Resumes = {r1, r2}
  ReusesPath = FALSE
  None = None  Empty = Empty  Torn = Torn
SPECIFICATION Spec
SYMMETRY ResumeSymmetry
INVARIANTS TypeOK OneWriter SnapshotIsOwn SentOnceUnlessUpdateLost
PROPERTIES ReplacedIsBackedUp ReplacesAtomically
CHECK_DEADLOCK FALSE
