\* Two words one after the other, one exchange beyond the cap of one, one
\* request that fails or is answered badly.
CONSTANTS
  Generator = Generator
  Adversary = Adversary
  Extractor = Extractor
  Server = Server
  NoMsg = NoMsg
  Agent <- MCAgent
  LayerOf <- MCLayerOf
  PeerOf <- MCPeerOf
  NLayers = 2
  MaxExchanges = 1
  Cap = 1
  MaxInbox = 1
  MaxSaid = 0
  MaxFaults = 1
  MaxLate = 1
  Methods = {"regex", "agent"}
SPECIFICATION FairSpec
INVARIANTS
  TypeOK
  TurnNeverLost
  OneTurnAtFirst
PROPERTY Completes
CHECK_DEADLOCK FALSE
