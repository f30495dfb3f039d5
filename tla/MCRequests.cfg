SPECIFICATION FairSpec
CONSTANT MaxTries = 3
INVARIANTS
  TypeOK
  OverloadNeverKills
PROPERTIES
  ImplementsCall
  CancelledEnds
CHECK_DEADLOCK FALSE
