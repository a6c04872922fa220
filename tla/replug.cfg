SPECIFICATION Spec
CONSTANTS
  Names = {"a"}
  Paths = {"p"}
  Colors = {"base", "red"}
  Boxes = {"left"}
  Widths = {100}
  Scales = {1}
  Fractions = {}
  MaxOverrides = 1
  UserFits = {"contain"}
  UserColors = {}
  UserClears <- NoClears
  UserConfigs <- NoConfig
  ImgCommands <- DefaultImgs
  ReadableSets <- AllReadable
  PaintFaults <- NoFaults
  JobFaults = {}
  MaxGeneration = 2
  MaxJobs = 2
  MaxPlugs = 2
INVARIANTS
  NoStaleFit
