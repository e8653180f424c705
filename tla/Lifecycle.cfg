\* Two goroutines, two Ctxs of a library loaded at most twice, one wait.
SPECIFICATION Spec
CONSTANTS
  Procs = {p1, p2}
  Ctxs = {c1, c2}
  Waits = {w1}
  Slots = {1, 2}
  MaxLoads = 2
INVARIANTS TypeOK SafeWhenCareful ReferencesAccounted ChannelAnswers
PROPERTIES WaitersEnd
\* The process may have crashed, or destroyed all its Ctxs.
CHECK_DEADLOCK FALSE
