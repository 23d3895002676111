SPECIFICATION Spec
CONSTANTS
  Proc = {p1, p2}
  Source = {"s1", "s2", "s3"}
  Broken = {"s3"}
  Target = {"t1", "t2"}
  ImportTargets = {"t2"}
  Output <- MCOutput
  Objects <- MCObjects
  MaxRuns = 3
INVARIANTS NoInterference CachedLibraryMatchesKey
PROPERTIES ReportedLibraryUsable NoObjectLeft CachedLibraryStable
SYMMETRY ProcSymmetry
CHECK_DEADLOCK FALSE
