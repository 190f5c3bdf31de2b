SPECIFICATION Spec
CONSTANTS
  Calls = {c1}
  MaxChanges = 2
  MaxReloads = 1
INVARIANT
  ScreenKeepsUp
CHECK_DEADLOCK FALSE
