SPECIFICATION FairSpec
CONSTANTS
  Names = {"a"}
  Paths = {"p", "q"}
  Colors = {"base", "red"}
  Boxes = {"left"}
  Widths = {100, 200}
  Scales = {1}
  Fractions = {}
  MaxOverrides = 1
  UserFits = {"cover", "contain"}
  UserColors = {"red"}
  UserClears <- SomeClears
  UserConfigs <- NoConfig
  ImgCommands <- DefaultImgs
  ReadableSets <- AllReadable
  PaintFaults <- NoFaults
  JobFaults = {"lost"}
  MaxGeneration = 3
  MaxJobs = 2
  MaxPlugs = 1
PROPERTIES
  Converges
