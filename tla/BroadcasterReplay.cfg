\* More recent items than the channel takes, as the 100 generations and the 10
\* places of the code.
CONSTANTS
  Page = {1, 2}
  LiveOnly = {2}
  SendCap = 1
  RecentCap = 2
  Feeds = {"generations"}
  MaxItem = 2
SPECIFICATION Spec
PROPERTIES
  OpenIsServed
CHECK_DEADLOCK FALSE
