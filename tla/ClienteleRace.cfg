\* A lookup by name while a client joins.
CONSTANTS
  toki = toki
  pona = pona
  penny = penny
  tails = tails
  again = again
  Nobody = Nobody
  Conn = {toki, pona, penny}
  Reader = {router}
  NameOf <- MCNameOf
  LayerOf <- MCLayerOf
SPECIFICATION Spec
INVARIANTS
  NoMapRace
CHECK_DEADLOCK FALSE
