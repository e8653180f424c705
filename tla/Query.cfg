\* One list, two attributes, and two changes between the two calls.
SPECIFICATION Spec
CONSTANTS
  Lists = {slots}
  Attrs = {a1, a2}
  Elements = {x, y}
  Zero = Zero
  MaxLen = 2
  MaxChanges = 2
SYMMETRY Symmetry
INVARIANTS AnswerWasTrue FailsOnlyOnGrowth
