\* Four goroutines contend for three Keys.
SPECIFICATION SafeSpec
CONSTANTS
  Procs = {p1, p2, p3, p4}
  N = 3
SYMMETRY Symmetry
INVARIANTS TypeOK KeyConservation SendNeverBlocks FailureLeavesNoKey
CHECK_DEADLOCK FALSE
