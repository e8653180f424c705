\* Two operations at once and one that reads, on five mappings.
SPECIFICATION Spec
CONSTANTS
  Procs = {p1, p2, p3}
  Memory = {m1, m2, m3, m4, m5}
  Nobody = Nobody
  None = None
SYMMETRY Symmetry
INVARIANTS TypeOK MemoryIsListed OperationsKeepMemory
PROPERTIES IVNeverOlder
