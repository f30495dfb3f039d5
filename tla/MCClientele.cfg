\* Agents under names of their own, the Router and the jobs looking them up.
CONSTANTS
  toki = toki
  pona = pona
  penny = penny
  tails = tails
  again = again
  Nobody = Nobody
  Conn = {toki, pona, penny}
  Reader = {router, jobs}
  NameOf <- MCNameOf
  LayerOf <- MCLayerOf
SPECIFICATION FairSpec
INVARIANTS
  TypeOK
  RegistryInv
  RegistryExact
  TotalNearlyRight
PROPERTIES
  ImplementsRegistry
  GoneIsForgotten
CHECK_DEADLOCK FALSE
