SPECIFICATION Spec
CONSTANTS
  Names = {"a", "b"}
  Paths = {"p", "q"}
  Colors = {"base", "red"}
  Boxes = {"left"}
  Widths = {100}
  Scales = {1}
  Fractions = {}
  MaxOverrides = 0
  UserFits = {}
  UserColors = {}
  UserClears <- NoClears
  UserConfigs <- NoConfig
  ImgCommands <- DefaultImgs
  ReadableSets <- AllReadable
  PaintFaults <- NoFaults
  JobFaults = {}
  MaxGeneration = 5
  MaxJobs = 3
  MaxPlugs = 1
INVARIANTS
  EveryOutputShowsItsImage
