\* Two layers and two exchanges each: what one layer may leave behind for
\* the next.
CONSTANTS
  toki = toki
  pona = pona
  nickel = nickel
  dime = dime
  SysA = SysA
  SysB = SysB
  SysC = SysC
  Server = Server
  NoMsg = NoMsg
  Agent <- MCAgent
  LayerOf <- MCLayerOf
  PeerOf <- MCPeerOf
  NLayers = 2
  DictionaryLayer = 2
  Exchanges = 2
  Cap = 3
  MaxInbox = 1
  MaxSaid = 2
  MaxFaults = 0
  MaxLate = 0
  Methods = {"regex"}
SPECIFICATION Spec
SYMMETRY MCSymmetry
INVARIANTS
  SpecAnswersItsLayer
  KickoffHeard
  OneConversation
  RoundsUndisturbed
CHECK_DEADLOCK FALSE
