SPECIFICATION FairSpec
CONSTANTS
  MaxGenerations = 2
  JobsCap = 4
  MaxFaults = 1
  InboxCap = 1
INVARIANTS
  TypeOK
  GenerationsFit
  UpdatesInStep
  WholeOnly
  OnlyStoppingPanics
PROPERTIES
  Exits
  Evolves
CHECK_DEADLOCK FALSE
