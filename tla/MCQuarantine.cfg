\* Three calls, a closed and a critical case, and a crash anywhere.
CONSTANTS
  c1 = c1
  c2 = c2
  c3 = c3
  k1 = k1
  k2 = k2
  a = a
  p = p
  None = None
  Calls = {c1, c2, c3}
  Cases = {k1, k2}
  CriticalCases = {k2}
  Shas = {a}
  Paths = {p}
  MaxInodes = 2
  MaxCrashes = 1
SPECIFICATION Spec
SYMMETRY CallSymmetry
INVARIANTS
  BlobKept
  
  EvidenceKept
  
  
CHECK_DEADLOCK FALSE
