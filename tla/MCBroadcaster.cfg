\* A page of each kind, a feed of one goroutine and the chat, channels and
\* queues of one item: the channel overflows, the queue drops its oldest.
CONSTANTS
  Page = {1, 2}
  LiveOnly = {2}
  SendCap = 1
  RecentCap = 1
  Feeds = {"chat", "generations"}
  MaxItem = 2
SPECIFICATION Spec
INVARIANTS
  TypeOK
  NeverSendsOnClosed
  NoGap
PROPERTIES
  BroadcastEnds
  ClosedIsForgotten
CHECK_DEADLOCK FALSE
