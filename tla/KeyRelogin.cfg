\* One always-authenticate Key, one plain Key, both with the right PIN.
SPECIFICATION SafeSpec
CONSTANTS
  Procs = {p1, p2}
  Keys = {ka, kb}
  AlwaysAuth = {ka}
  WrongPin = {}
  Nobody = Nobody
  NoKey = NoKey
INVARIANT SignsOnlyWhenLoggedIn
CHECK_DEADLOCK FALSE
