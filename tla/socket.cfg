SPECIFICATION FairSocketSpec
CONSTANTS
  Daemons = {d1, d2}
  Clients = {c1, c2}
  Carriers = {c1}
  Backlog = 1
  None = None
  Leftover = Leftover
INVARIANTS
  StaleOnlyByCrash
  ConnectionsOK
  AnswersAreTrue
  DescriptorsClosed
PROPERTIES
  EstablishedStays
  RestartSucceeds
  LoopComesBack
  CommandsEnd
CHECK_DEADLOCK FALSE
