SPECIFICATION Spec
CONSTANTS
  Names = {"a"}
  Paths = {"p"}
  Colors = {"base", "red"}
  Boxes = {"left"}
  Widths = {100, 200}
  Scales = {1, 2}
  Fractions = {180}
  MaxOverrides = 1
  UserFits = {"contain"}
  UserColors = {}
  UserClears <- NoClears
  UserConfigs <- NoConfig
  ImgCommands <- DefaultImgs
  ReadableSets <- AllReadable
  PaintFaults <- OneFault
  JobFaults = {"helper", "img", "die"}
  MaxGeneration = 3
  MaxJobs = 2
  MaxPlugs = 2
INVARIANTS
  TypeOK
  FramesSound
  FreshIfSameGeneration
