\* The queues as the server uses them: one item per Enqueue.
CONSTANTS
  Item = {i1, i2, i3}
  Zero = Zero
  Capacity = 3
  BulkSize = 1
  Uses = {"recent", "generations", "jobs"}
SPECIFICATION Spec
INVARIANTS
  TypeOK
  RingInv
  SliceNeverPanics
PROPERTY ImplementsFifo
