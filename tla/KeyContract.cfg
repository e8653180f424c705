\* Two goroutines on an always-authenticate Key, a plain one, and liveness.
SPECIFICATION Spec
CONSTANTS
  Procs = {p1, p2}
  Keys = {ka, kb}
  AlwaysAuth = {ka}
  WrongPin = {}
  Nobody = Nobody
  NoKey = NoKey
PROPERTIES LogoutExclusive CallsReturn ImplementsContract
CHECK_DEADLOCK FALSE
