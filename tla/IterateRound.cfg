\* One layer whose words agent C detects, with late agents, one LLM request
\* that fails or is answered badly, and a conversation that outlives its round.
CONSTANTS
  toki = toki
  pona = pona
  nickel = nickel
  dime = dime
  SysA = SysA
  SysB = SysB
  SysC = SysC
  Server = Server
  NoMsg = NoMsg
  Agent <- MCAgent
  LayerOf <- MCLayerOf
  PeerOf <- MCPeerOf
  NLayers = 1
  DictionaryLayer = 1
  Exchanges = 1
  Cap = 1
  MaxInbox = 1
  MaxSaid = 2
  MaxFaults = 1
  MaxLate = 2
  Methods = {"agent"}
SPECIFICATION FairSpec
INVARIANTS
  TypeOK
  OneQuestion
  NoAnswerLost
  KickoffHeard
PROPERTY Completes
CHECK_DEADLOCK FALSE
