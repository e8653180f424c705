\* A cipher with a block of two, and the two kinds it has dual functions with.
SPECIFICATION Spec
CONSTANTS
  Kinds = {"decrypt", "digest", "verify"}
  Block = 2
  MaxInput = 3
  MaxTotal = 4
INVARIANTS TypeOK InputOnce OutputComplete FinishedMeansEnded
