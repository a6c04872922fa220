SPECIFICATION Spec
CONSTANTS
  Names = {"a"}
  Paths = {"p", "q"}
  Colors = {"base", "red"}
  Boxes = {"left"}
  Widths = {100}
  Scales = {1}
  Fractions = {}
  MaxOverrides = 1
  UserFits = {"contain"}
  UserColors = {"red"}
  UserClears <- SomeClears
  UserConfigs <- BlankFiles
  ImgCommands <- TwoImgs
  ReadableSets <- SomeReadable
  PaintFaults <- NoFaults
  JobFaults = {"lost"}
  MaxGeneration = 3
  MaxJobs = 2
  MaxPlugs = 1
INVARIANTS
  FreshIfSameGeneration
  ShownOrComing
  PaletteOfShownImage
