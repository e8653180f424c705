\* Three goroutines contend for two Keys.
SPECIFICATION Spec
CONSTANTS
  Procs = {p1, p2, p3}
  N = 2
PROPERTIES CallsReturn ImplementsContract
CHECK_DEADLOCK FALSE
