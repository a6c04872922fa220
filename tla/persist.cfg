SPECIFICATION Spec
CONSTANTS
  Names = {"a", "b"}
  Paths = {"p", "q"}
  Colors = {"base", "red"}
  Runners = {"r1", "r2"}
  Commands <- AllCommands
  StartDocs <- StartFiles
  MaxSections = 2
  MaxCommands = 2
  MaxLosses = 1
INVARIANTS
  FileIsWhole
  NothingLost
PROPERTIES
  SavesSettings
CHECK_DEADLOCK FALSE
