SPECIFICATION Spec
CONSTANTS
  Daemons = {d1, d2, d3}
  None = None
  Leftover = Leftover
INVARIANTS
  OnlyOneInstance
CHECK_DEADLOCK FALSE
