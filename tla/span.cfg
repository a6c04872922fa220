SPECIFICATION Spec
CONSTANTS
  Names = {"a", "b"}
  Paths = {"p"}
  Colors = {"base", "red"}
  Boxes = {"left", "right"}
  Widths = {100}
  Scales = {1}
  Fractions = {}
  MaxOverrides = 1
  UserFits = {"span"}
  UserColors = {}
  UserClears <- NoClears
  UserConfigs <- NoConfig
  ImgCommands <- OverImgs
  ReadableSets <- AllReadable
  PaintFaults <- NoFaults
  JobFaults = {}
  MaxGeneration = 3
  MaxJobs = 2
  MaxPlugs = 1
INVARIANTS
  FramesSound
  FreshIfSameGeneration
  ShownOrComing
  OverridesLegal
