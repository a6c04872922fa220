SPECIFICATION Spec
CONSTANTS
  Names = {"a", "b"}
  Paths = {"p", "q"}
  Colors = {"base"}
  Runners = {"r1"}
  Commands <- OutputCommands
  StartDocs <- NoFiles
  MaxSections = 1
  MaxCommands = 3
  MaxLosses = 0
INVARIANTS
  ComesBack
CHECK_DEADLOCK FALSE
