\* Three goroutines, one library under two paths.
SPECIFICATION Spec
CONSTANTS
  path = path
  link = link
  lib = lib
  Procs = {p1, p2, p3}
  Paths = {path, link}
  Libraries = {lib}
  Library <- OneLibrary
  Labels = {a}
  Locks = {k1, k2, k3}
  MaxRefs = 3
  Nobody = Nobody
  NoLock = NoLock
INVARIANTS TypeOK OneLockPerToken RefusedOnlyAcrossPaths ModulesUsable
PROPERTIES CallsReturn
