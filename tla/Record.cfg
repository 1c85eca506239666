SPECIFICATION Spec
CONSTANTS
  None = None
  Acts = {a1, a2}
  MaxActs = 3
  MaxLives = 2
  MaxFailures = 1
  Faults = {"crash", "power", "torn", "log", "anchor"}
SYMMETRY ActSymmetry
INVARIANTS
  LogIsEvidence ReadsVerify ActsAreKept
CHECK_DEADLOCK FALSE
