\* An agent restarted before its first connection was removed.
CONSTANTS
  toki = toki
  pona = pona
  penny = penny
  tails = tails
  again = again
  Nobody = Nobody
  Conn = {toki, pona, again}
  Reader = {router}
  NameOf <- MCReconnect
  LayerOf <- MCLayerOf
SPECIFICATION Spec
INVARIANTS
  LiveAgentsFound
CHECK_DEADLOCK FALSE
