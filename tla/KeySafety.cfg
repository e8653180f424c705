\* Three goroutines on an always-authenticate Key and a plain one.
SPECIFICATION SafeSpec
CONSTANTS
  Procs = {p1, p2, p3}
  Keys = {ka, kb, kc}
  AlwaysAuth = {ka}
  WrongPin = {kb}
  Nobody = Nobody
  NoKey = NoKey
SYMMETRY Symmetry
INVARIANTS TypeOK LoginHeld NoUseAfterClose OwnOperation NoSessionLeak NoDeadlock
CHECK_DEADLOCK FALSE
