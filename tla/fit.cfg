SPECIFICATION Spec
CONSTANTS
  Word = 64
  MaxSide = 17
  MaxPixels = 200
  MaxExtent = 20
  MaxBuffer = 20
  MaxArea = 20
  Images <- SmallImages
  OutputLists <- SmallOutputs
INVARIANTS
  InBounds
  OwnPicture
  Undistorted
  SlicesMeet
  RefusesOnlyThin
CHECK_DEADLOCK FALSE
