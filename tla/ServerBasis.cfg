SPECIFICATION Spec
CONSTANTS
  MaxGenerations = 2
  JobsCap = 4
  MaxFaults = 0
  InboxCap = 1
INVARIANT EvolvedFromTheLast
CHECK_DEADLOCK FALSE
