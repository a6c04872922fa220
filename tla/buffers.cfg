SPECIFICATION FairSpec
CONSTANTS
  Surfaces = {s1, s2}
  Buffers = {b1, b2, b3}
  None = None
  MaxRequests = 2
  MaxEvents = 2
INVARIANTS
  TypeOK
  KeptWhileRead
  Accounted
  ConfiguredFirst
PROPERTIES
  Drains
