--------------------------- MODULE IterateProofs ---------------------------
(***************************************************************************)
(* Proofs about Iterate, for any finite set of agents, any number of       *)
(* layers, exchanges and any capacity of the channels.                     *)
(***************************************************************************)
EXTENDS Iterate, AgentsProofs

-----------------------------------------------------------------------------
(* The jobs goroutine.                                                     *)

LEMMA InstructType ==
  ASSUME layer \in Layer
  PROVE  Instruct \in Seq(CommandOf)
<1>1. /\ Cmd("AppendInstructions", {layer}) \in CommandOf
      /\ Cmd("Unlatch", {}) \in CommandOf
  BY CmdType DEF Command
<1> QED
  BY <1>1 DEF Instruct

LEMMA AskType ==
  ASSUME layer \in Layer, NEW a \in Agent, NEW request \in Command,
         NEW about \in SUBSET Layer
  PROVE  Ask(a, request, about) \in Seq(Message)
<1>1. /\ <<Cmd("Latch", {})>> \in Seq(CommandOf)
      /\ <<Cmd(request, about)>> \in Seq(CommandOf)
  <2>1. Cmd("Latch", {}) \in CommandOf /\ Cmd(request, about) \in CommandOf
    BY CmdType DEF Command
  <2> QED
    BY <2>1
<1>2. <<Cmd("Latch", {})>> \o Instruct \o <<Cmd(request, about)>> \in Seq(CommandOf)
  BY <1>1, InstructType, ConcatProperties, Zenon
<1>3. <<a>> \in Seq(Agent)
  OBVIOUS
<1> QED
  BY <1>2, <1>3, SendCommandsType, Zenon DEF Ask

LEMMA SystemAgents == {SysA, SysB, SysC} \subseteq Agent
  BY JobsAssumption

\* What AfterExchange sends after the last exchange of a layer.
LEMMA RequestSpecType ==
  ASSUME layer \in Layer, clients \in Seq(Agent), transcript'[layer] \in SUBSET Layer
  PROVE  RequestSpec \in Seq(Message)
<1>1. SendCommands(clients, Reset) \in Seq(Message)
  BY ResetType, SendCommandsType, Zenon
<1>2. <<Cmd("NoCommand", transcript'[layer])>> \in Seq(CommandOf)
  <2>1. Cmd("NoCommand", transcript'[layer]) \in CommandOf
    BY CmdType DEF Command
  <2> QED
    BY <2>1
<1>3. Instruct \o <<Cmd("NoCommand", transcript'[layer])>> \in Seq(CommandOf)
  BY <1>2, InstructType, ConcatProperties, Zenon
<1>4. <<SysA>> \in Seq(Agent)
  BY SystemAgents
<1>5. SendCommands(<<SysA>>, Instruct \o <<Cmd("NoCommand", transcript'[layer])>>)
        \in Seq(Message)
  BY <1>3, <1>4, SendCommandsType, Zenon
<1> QED
  BY <1>1, <1>5, ConcatProperties, Zenon DEF RequestSpec

\* Any order of a layer's clients is a sequence of agents.
LEMMA LayerClientsType ==
  ASSUME NetTypeOK, NEW as \in SetToSeqs(LayerClients)
  PROVE  as \in Seq(Agent)
<1>1. LayerClients \subseteq Agent
  BY DEF NetTypeOK, LayerClients
<1>2. Cardinality(LayerClients) \in Nat
  BY <1>1, AgentAssumption, FS_Subset, FS_CardinalityType
<1>3. as \in [1 .. Cardinality(LayerClients) -> LayerClients]
  BY DEF SetToSeqs
<1>4. as \in [1 .. Cardinality(LayerClients) -> Agent]
  BY <1>1, <1>3
<1> QED
  BY <1>2, <1>4, SegmentIsSeq, Zenon

-----------------------------------------------------------------------------
(* The steps of the jobs goroutine.                                        *)

IInv == TypeOK /\ RoutedInv

\* What follows an exchange, whatever was to be sent before it.
LEMMA AfterExchangeTyped ==
  ASSUME TypeOK, NEW before \in Seq(Message), AfterExchange(before),
         transcript' \in [Layer -> SUBSET Layer]
  PROVE  /\ count' \in 0 .. Exchanges
         /\ outbox' \in Seq(Message)
         /\ pc' \in {"exchange", "spec"}
<1>1. count' \in 0 .. Exchanges
  BY JobsAssumption DEF AfterExchange, TypeOK
<1>2. before \o RequestSpec \in Seq(Message)
  <2>1. layer \in Layer /\ clients \in Seq(Agent) /\ transcript'[layer] \in SUBSET Layer
    BY DEF TypeOK
  <2>2. RequestSpec \in Seq(Message)
    BY <2>1, RequestSpecType
  <2> QED
    BY <2>2, ConcatProperties, Zenon
<1> QED
  BY <1>1, <1>2 DEF AfterExchange

LEMMA SendCommandTyped ==
  ASSUME TypeOK, SendCommand
  PROVE  TypeOK'
<1>1. Head(outbox) \in Message /\ Tail(outbox) \in Seq(Message)
  BY DEF TypeOK, SendCommand
<1> QED
  BY <1>1 DEF TypeOK, NetTypeOK, SendCommand, agentVars

LEMMA FindSystemAgentTyped ==
  ASSUME TypeOK, FindSystemAgent
  PROVE  TypeOK'
  BY DEF TypeOK, NetTypeOK, FindSystemAgent, netVars, queueVars, agentVars

LEMMA ListClientsTyped ==
  ASSUME TypeOK, ListClients
  PROVE  TypeOK'
<1>1. clients' \in Seq(Agent)
  BY LayerClientsType DEF TypeOK, ListClients
<1> QED
  BY <1>1 DEF TypeOK, NetTypeOK, ListClients, netVars, queueVars, agentVars

LEMMA StartLayerTyped ==
  ASSUME TypeOK, StartLayer
  PROVE  TypeOK'
<1>1. NetTypeOK'
  BY DEF TypeOK, NetTypeOK, StartLayer, netVars, queueVars, agentVars
<1>2. ASSUME NEW first \in LayerClients
      PROVE  SendCommands(clients, Instruct) \o
               <<Order(first, "SendInitialMessage", {layer})>> \in Seq(Message)
  <2>1. SendCommands(clients, Instruct) \in Seq(Message)
    <3>1. Instruct \in Seq(CommandOf) /\ clients \in Seq(Agent)
      BY InstructType DEF TypeOK
    <3> QED
      BY <3>1, SendCommandsType, Zenon
  <2>2. Order(first, "SendInitialMessage", {layer}) \in Message
    <3>1. first \in Agent /\ {layer} \in SUBSET Layer
      BY DEF LayerClients, TypeOK, NetTypeOK
    <3>2. "SendInitialMessage" \in Command
      BY DEF Command
    <3> QED
      BY <3>1, <3>2, MsgType DEF Order
  <2>3. <<Order(first, "SendInitialMessage", {layer})>> \in Seq(Message)
    BY <2>2
  <2> QED
    BY <2>1, <2>3, ConcatProperties, Zenon
<1>3. CASE Stop("crashed")
  BY <1>1, <1>3 DEF TypeOK, StartLayer, Stop
<1>4. CASE ~Stop("crashed")
  <2>1. outbox' \in Seq(Message)
    BY <1>2, <1>4 DEF StartLayer
  <2>2. /\ pc' = "exchange" /\ count' = 0
        /\ UNCHANGED <<method, layer, clients, transcript, spec, dictUpdates>>
    BY <1>4 DEF StartLayer
  <2> QED
    BY <1>1, <2>1, <2>2, JobsAssumption DEF TypeOK
<1> QED
  BY <1>3, <1>4

LEMMA TakeExchangeTyped ==
  ASSUME IInv, TakeExchange
  PROVE  IInv'
<1> DEFINE m == Head(procedureChan)
<1>1. /\ m \in Talking
      /\ Tail(procedureChan) \in Seq(Talking)
      /\ Tail(procedureChan) \in Seq(Message)
  BY DEF IInv, TypeOK, NetTypeOK, RoutedInv, TakeExchange
<1>2. NetTypeOK' /\ RoutedInv'
  BY <1>1 DEF IInv, TypeOK, NetTypeOK, RoutedInv, TakeExchange, agentVars
<1>3. LayerOf[m.from] \in Layer
  BY <1>1 DEF Talking
<1>4. transcript' \in [Layer -> SUBSET Layer]
  <2>1. transcript' = [transcript EXCEPT ![layer] = @ \cup {LayerOf[m.from]}]
    BY DEF TakeExchange
  <2> QED
    BY <1>3, <2>1 DEF IInv, TypeOK
<1>5. /\ count' \in 0 .. Exchanges /\ outbox' \in Seq(Message)
      /\ pc' \in {"exchange", "spec", "words", "failed"}
  <2>1. CASE AfterExchange(<<>>)
    <3>1. <<>> \in Seq(Message)
      OBVIOUS
    <3> QED
      BY <1>4, <2>1, <3>1, AfterExchangeTyped DEF IInv
  <2>2. CASE /\ outbox' = Ask(SysC, "RequestDictionaryWordDetection",
                             {LayerOf[Head(procedureChan).from]})
             /\ pc' = "words" /\ UNCHANGED count
    <3>1. "RequestDictionaryWordDetection" \in Command /\ SysC \in Agent
      BY SystemAgents DEF Command, TypedRequest
    <3>2. layer \in Layer
      BY DEF IInv, TypeOK
    <3>3. Ask(SysC, "RequestDictionaryWordDetection",
              {LayerOf[Head(procedureChan).from]}) \in Seq(Message)
      BY <1>3, <3>1, <3>2, AskType
    <3> QED
      BY <2>2, <3>3 DEF IInv, TypeOK
  <2>3. CASE pc' = "failed" /\ UNCHANGED <<outbox, count>>
    BY <2>3 DEF IInv, TypeOK
  <2> QED
    BY <2>1, <2>2, <2>3 DEF TakeExchange
<1>6. UNCHANGED <<method, layer, clients, spec, dictUpdates>>
  BY DEF TakeExchange
<1> QED
  BY <1>2, <1>4, <1>5, <1>6 DEF IInv, TypeOK

\* What every wait for an answer leaves typed, and the answer it takes.
LEMMA TakesAnswerTyped ==
  ASSUME TypeOK, NEW at, TakesAnswer(at)
  PROVE  /\ NetTypeOK'
         /\ Head(toServer) \in Message
         /\ UNCHANGED <<routerHand, procedureChan, method, clients, transcript>>
<1>1. Head(toServer) \in Message /\ Tail(toServer) \in Seq(Message)
  BY DEF TypeOK, NetTypeOK, TakesAnswer
<1> QED
  BY <1>1 DEF TypeOK, NetTypeOK, TakesAnswer, agentVars

LEMMA TakeWordsTyped ==
  ASSUME TypeOK, TakeWords
  PROVE  TypeOK'
<1>1. /\ NetTypeOK' /\ UNCHANGED <<method, clients, transcript>>
      /\ UNCHANGED <<layer, spec, dictUpdates>>
  BY TakesAnswerTyped DEF TakeWords
<1>2. /\ count' \in 0 .. Exchanges /\ outbox' \in Seq(Message)
      /\ pc' \in {"exchange", "spec", "failed"}
  <2>1. CASE AfterExchange(SendCommands(<<SysC>>, Reset))
    <3>1. <<SysC>> \in Seq(Agent)
      BY SystemAgents
    <3>2. SendCommands(<<SysC>>, Reset) \in Seq(Message)
      BY <3>1, ResetType, SendCommandsType, Zenon
    <3>3. transcript' \in [Layer -> SUBSET Layer]
      BY <1>1 DEF TypeOK
    <3> QED
      BY <2>1, <3>2, <3>3, AfterExchangeTyped
  <2>2. CASE pc' = "failed" /\ UNCHANGED <<count, outbox>>
    BY <2>2 DEF TypeOK
  <2> QED
    BY <2>1, <2>2 DEF TakeWords
<1> QED
  BY <1>1, <1>2 DEF TypeOK

LEMMA NextLayerTyped ==
  ASSUME layer \in Layer, NextLayer
  PROVE  layer' \in Layer /\ pc' \in {"layer", "done"}
  BY LayersAssumption DEF NextLayer, Layer

LEMMA TakeSpecTyped ==
  ASSUME TypeOK, TakeSpec
  PROVE  TypeOK'
<1>1. /\ NetTypeOK' /\ Head(toServer) \in Message
      /\ UNCHANGED <<method, clients, transcript>>
      /\ UNCHANGED <<count, dictUpdates>>
  BY TakesAnswerTyped DEF TakeSpec
<1>2. spec' \in [Layer -> [about : SUBSET Layer, prompt : SUBSET Layer]]
  <2>1. PICK s : s = [about |-> Head(toServer).about, prompt |-> Head(toServer).prompt]
    OBVIOUS
  <2>2. s \in [about : SUBSET Layer, prompt : SUBSET Layer]
    BY <1>1, <2>1, MessageFields
  <2>3. spec' = [spec EXCEPT ![layer] = s]
    BY <2>1 DEF TakeSpec
  <2> QED
    BY <2>2, <2>3 DEF TypeOK
<1>3. outbox' \in Seq(Message)
  <2>1. <<SysA>> \in Seq(Agent)
    BY SystemAgents
  <2> QED
    BY <2>1, ResetType, SendCommandsType DEF TakeSpec
<1>4. layer' \in Layer /\ pc' \in {"layer", "done", "dict"}
  BY NextLayerTyped DEF TypeOK, TakeSpec
<1> QED
  BY <1>1, <1>2, <1>3, <1>4 DEF TypeOK

LEMMA StartUpdateTyped ==
  ASSUME TypeOK, StartUpdate
  PROVE  TypeOK'
<1>1. NetTypeOK'
  BY DEF TypeOK, NetTypeOK, StartUpdate, netVars, queueVars, agentVars
<1>2. Ask(SysB, "RequestJsonDictionaryUpdate", transcript[layer]) \in Seq(Message)
  <2>1. /\ "RequestJsonDictionaryUpdate" \in Command /\ SysB \in Agent
        /\ layer \in Layer /\ transcript[layer] \in SUBSET Layer
    BY SystemAgents DEF Command, TypedRequest, TypeOK
  <2> QED
    BY <2>1, AskType
<1>3. CASE Stop("failed")
  BY <1>1, <1>3 DEF TypeOK, StartUpdate, Stop
<1>4. CASE ~Stop("failed")
  <2>1. /\ outbox' = Ask(SysB, "RequestJsonDictionaryUpdate", transcript[layer])
        /\ pc' = "updates"
        /\ UNCHANGED <<method, layer, clients, count, transcript, spec, dictUpdates>>
    BY <1>4 DEF StartUpdate
  <2> QED
    BY <1>1, <1>2, <2>1 DEF TypeOK
<1> QED
  BY <1>3, <1>4

LEMMA TakeUpdatesTyped ==
  ASSUME TypeOK, TakeUpdates
  PROVE  TypeOK'
<1>1. /\ NetTypeOK' /\ UNCHANGED <<method, clients, transcript>>
      /\ UNCHANGED <<count, spec>>
  BY TakesAnswerTyped DEF TakeUpdates
<1>2. /\ dictUpdates' \in 0 .. 1 /\ outbox' \in Seq(Message)
      /\ layer' \in Layer /\ pc' \in {"layer", "done", "failed"}
  <2>1. CASE Head(toServer).json
    <3>1. <<SysB>> \in Seq(Agent)
      BY SystemAgents
    <3>2. outbox' \in Seq(Message)
      BY <2>1, <3>1, ResetType, SendCommandsType DEF TakeUpdates
    <3>3. dictUpdates' \in 0 .. 1
      BY <2>1 DEF TypeOK, TakeUpdates
    <3>4. layer' \in Layer /\ pc' \in {"layer", "done"}
      BY <2>1, NextLayerTyped DEF TypeOK, TakeUpdates
    <3> QED
      BY <3>2, <3>3, <3>4
  <2>2. CASE ~Head(toServer).json
    BY <2>2 DEF TypeOK, TakeUpdates
  <2> QED
    BY <2>1, <2>2
<1> QED
  BY <1>1, <1>2 DEF TypeOK

-----------------------------------------------------------------------------
(* The whole.                                                              *)

LEMMA InitTyped == Init => IInv
<1> SUFFICES ASSUME Init PROVE IInv
  OBVIOUS
<1>1. NetTypeOK /\ RoutedInv
  BY BoundAssumption DEF Init, NetInit, NetTypeOK, RoutedInv
<1>2. layer \in Layer
  BY LayersAssumption DEF Init, Layer
<1>3. count \in 0 .. Exchanges
  BY JobsAssumption DEF Init
<1>4. spec \in [Layer -> [about : SUBSET Layer, prompt : SUBSET Layer]]
  BY DEF Init, NoSpec
<1> QED
  BY <1>1, <1>2, <1>3, <1>4 DEF Init, IInv, TypeOK

LEMMA NextTyped == IInv /\ [Next]_vars => IInv'
<1> SUFFICES ASSUME IInv, [Next]_vars PROVE IInv'
  OBVIOUS
<1>0. TypeOK /\ NetTypeOK /\ RoutedInv
  BY DEF IInv, TypeOK
<1>1. ASSUME TypeOK', UNCHANGED <<routerHand, procedureChan>> PROVE IInv'
  BY <1>0, <1>1 DEF IInv, RoutedInv
<1>2. CASE SendCommand
  BY <1>0, <1>1, <1>2, SendCommandTyped DEF SendCommand
<1>3. CASE StartLayer
  BY <1>0, <1>1, <1>3, StartLayerTyped DEF StartLayer, netVars, queueVars
<1>4. CASE TakeExchange
  BY <1>4, TakeExchangeTyped
<1>5. CASE TakeWords
  BY <1>0, <1>1, <1>5, TakeWordsTyped, TakesAnswerTyped DEF TakeWords
<1>6. CASE TakeSpec
  BY <1>0, <1>1, <1>6, TakeSpecTyped, TakesAnswerTyped DEF TakeSpec
<1>7. CASE StartUpdate
  BY <1>0, <1>1, <1>7, StartUpdateTyped DEF StartUpdate, netVars, queueVars
<1>8. CASE TakeUpdates
  BY <1>0, <1>1, <1>8, TakeUpdatesTyped, TakesAnswerTyped DEF TakeUpdates
<1>9. CASE NetNext /\ UNCHANGED jobVars
  <2>1. NetTypeOK' /\ RoutedInv'
    BY <1>0, <1>9, NetStep
  <2> QED
    BY <1>0, <1>9, <2>1 DEF IInv, TypeOK, jobVars
<1>10. CASE UNCHANGED vars
  BY <1>0, <1>10 DEF IInv, TypeOK, NetTypeOK, RoutedInv, vars, netVars, jobVars,
     queueVars, agentVars
<1>11. CASE FindSystemAgent
  BY <1>0, <1>1, <1>11, FindSystemAgentTyped DEF FindSystemAgent, netVars, queueVars
<1>12. CASE ListClients
  BY <1>0, <1>1, <1>12, ListClientsTyped DEF ListClients, netVars, queueVars
<1> QED
  BY <1>2, <1>3, <1>4, <1>5, <1>6, <1>7, <1>8, <1>9, <1>10, <1>11, <1>12 DEF Next, JobStep

\* In every state of an evolution the variables of the transport, of the agents
\* and of the jobs goroutine have their types, for any number of agents, layers
\* and exchanges: no layer's number leaves 1 .. NLayers although
\* the end of iterate and that of iterateUpdateDictionary both move it, and what
\* a transcript or a specification is said to be about is a layer, although
\* iterate takes it from whoever sent the message.
THEOREM IterateTyped == Spec => []TypeOK
<1>1. IInv => TypeOK
  BY DEF IInv
<1> QED
  BY <1>1, InitTyped, NextTyped, PTL DEF Spec

\* The Router hands only the messages of the language layers' agents to
\* procedureChan (procedureRoute looks at the sender's layer), so iterate never
\* takes a system agent's answer for an exchange of the conversation.
THEOREM OnlyTalkIsExchanged == Spec => [](procedureChan \in Seq(Talking))
<1>1. IInv => procedureChan \in Seq(Talking)
  BY DEF IInv, RoutedInv
<1> QED
  BY <1>1, InitTyped, NextTyped, PTL DEF Spec
-----------------------------------------------------------------------------
(***************************************************************************)
(* What the jobs goroutine does to the transport: it sends its next        *)
(* command, or it takes what it waited for and draws up new commands.      *)
(***************************************************************************)

JobOrders ==
  PlainOrders(Agent)
  \cup {m \in Orders : m.cmd \in Asking /\ m.to \in System}
  \cup {m \in Orders : m.cmd = "SendInitialMessage" /\ m.to \notin System}

Posing == pc \in {"words", "spec", "updates"}

\* The jobs goroutine has yet to kick a client of its layer off.
Preparing == {"layer", "clients", "kickoff"}

\* Nothing to do but to reset a system agent, if that.
Plainly ==
  /\ outbox' \in Seq(PlainOrders(System))
  /\ pc' \in {"exchange", "dict", "done", "failed", "crashed"} \cup Preparing
  /\ pc' \in Preparing => \/ pc' = "layer" /\ layer' = layer + 1
                          \/ pc \in Preparing /\ layer' = layer

\* What tells an agent how to behave.
Teaching(a) ==
  {m \in Orders : m.to = a /\ m.cmd \in {"AppendInstructions", "SetInstructions"}}

\* A question to a system agent, behind the resets.
Posed ==
  /\ \E s \in Seq(PlainOrders(System \cup Speakers(layer))), m \in Orders :
       /\ m.cmd \in Asking /\ m.to \in System
       /\ outbox' = s \o <<m>>
       /\ \A a \in Agent \ System : Lacks(s, Teaching(a))
       /\ pc' = "words" => s \in Seq(PlainOrders(System))
  /\ pc' \in {"words", "spec", "updates"} /\ layer' = layer
  /\ pc' = "words" => pc = "exchange"

\* A conversation of the layer's agents.
KickedOff ==
  /\ pc = "kickoff" /\ pc' = "exchange" /\ UNCHANGED <<layer, clients>>
  /\ clients \in Seq(Speakers(layer))
  /\ \E first \in LayerClients :
       outbox' = SendCommands(clients, Instruct) \o
                   <<Order(first, "SendInitialMessage", {layer})>>

\* The clients the layer has now.
Listed ==
  pc = "clients" /\ pc' = "kickoff" /\ layer' = layer /\ clients' \in SetToSeqs(LayerClients)

Draws ==
  /\ outbox = <<>>
  /\ UNCHANGED <<connected, toClients, routerHand, agentVars>>
  /\ \/ ~Posing /\ UNCHANGED toServer
     \/ Posing /\ toServer # <<>> /\ toServer' = Tail(toServer)
  /\ layer' \in {layer, layer + 1}
  /\ Plainly \/ Posed \/ KickedOff
  /\ pc' = "kickoff" => Listed
  /\ pc' \in {"exchange", "words", "spec"} =>
       KickedOff \/ (UNCHANGED <<clients, layer>> /\ pc \in {"exchange", "words"})

\* The clients of a layer are its agents.
ClientsInv ==
  pc \in {"kickoff", "exchange", "words", "spec"} => clients \in Seq(Speakers(layer))

LEMMA SystemMembers ==
  /\ {SysA, SysB, SysC} \subseteq System /\ System \subseteq Agent
  /\ <<SysA>> \in Seq(System) /\ <<SysB>> \in Seq(System) /\ <<SysC>> \in Seq(System)
<1>1. {SysA, SysB, SysC} \subseteq System /\ System \subseteq Agent
  BY JobsAssumption DEF System
<1> QED
  BY <1>1

LEMMA PlainReset ==
  /\ Reset \in Seq(PlainCommands)
  /\ layer \in Layer => Instruct \in Seq(PlainCommands)
<1>1. /\ Cmd("Latch", {}) \in PlainCommands
      /\ Cmd("ClearMemory", {}) \in PlainCommands
      /\ Cmd("ResetInstructions", {}) \in PlainCommands
      /\ Cmd("Unlatch", {}) \in PlainCommands
  BY CmdType DEF Command, Cmd, PlainCommands, Asking, TypedRequest
<1>2. layer \in Layer => Cmd("AppendInstructions", {layer}) \in PlainCommands
  BY CmdType DEF Command, Cmd, PlainCommands, Asking, TypedRequest
<1> QED
  BY <1>1, <1>2 DEF Reset, Instruct

\* Orders to some agents, and resets, teach no other agent anything.
LEMMA PlainTeaching ==
  ASSUME NEW ts, NEW s \in Seq(PlainOrders(ts)), NEW a, a \notin ts
  PROVE  Lacks(s, Teaching(a))
<1>1. PlainOrders(ts) \cap Teaching(a) = {}
  BY DEF PlainOrders, Teaching
<1> QED
  BY <1>1, LastFew

LEMMA ResetTeaching ==
  ASSUME NEW who \in Seq(Agent), NEW a
  PROVE  Lacks(SendCommands(who, Reset), Teaching(a))
<1> DEFINE P == {m \in Orders : m.cmd \notin {"AppendInstructions", "SetInstructions"}}
<1> HIDE DEF P
<1>0. \A j \in DOMAIN who : who[j] \in Agent
  BY ElementOfSeq
<1>1. Reset \in Seq(CommandOf) /\ DOMAIN Reset = 1 .. 3
  BY ResetType DEF Reset
<1>2. ASSUME NEW j \in DOMAIN who, NEW k \in DOMAIN Reset
      PROVE  Order(who[j], Reset[k].cmd, Reset[k].about) \in P
  <2>1. PICK b \in Agent : b = who[j]
    BY <1>0
  <2>2. PICK cmd \in Command :
          /\ cmd = Reset[k].cmd /\ {} = Reset[k].about
          /\ cmd \notin {"AppendInstructions", "SetInstructions"}
    <3>1. k \in {1, 2, 3}
      BY <1>1
    <3> QED
      BY <3>1 DEF Reset, Cmd, Command
  <2>3. Order(b, cmd, {}) \in P
    BY <2>2, OrderFields DEF P
  <2> QED
    BY <2>1, <2>2, <2>3
<1>3. PICK s \in Seq(P) : s = SendCommands(who, Reset)
  BY <1>1, <1>2, SendsOrders
<1>4. P \cap Teaching(a) = {}
  BY DEF P, Teaching
<1>5. Lacks(s, Teaching(a))
  BY <1>4, ElementOfSeq DEF Lacks
<1> QED
  BY <1>3, <1>5

\* A question to a system agent is the last order of those that prepare it.
LEMMA AskShape ==
  ASSUME NEW a \in System, NEW cs \in Seq(PlainCommands),
         NEW request \in Asking, NEW about \in SUBSET Layer
  PROVE  /\ SendCommands(<<a>>, cs \o <<Cmd(request, about)>>) =
              SendCommands(<<a>>, cs) \o <<Order(a, request, about)>>
         /\ SendCommands(<<a>>, cs) \in Seq(PlainOrders(System))
         /\ Order(a, request, about) \in Orders
         /\ Order(a, request, about).cmd \in Asking
         /\ Order(a, request, about).to \in System
<1>1. a \in Agent /\ request \in Command /\ System \subseteq Agent
  BY SystemMembers DEF Asking, Command
<1>2. cs \in Seq(CommandOf)
  <2>1. PlainCommands \subseteq CommandOf
    BY DEF PlainCommands
  <2> QED
    BY <2>1
<1>3. Cmd(request, about) \in CommandOf
  BY <1>1, CmdType
<1>4. Cmd(request, about).cmd = request /\ Cmd(request, about).about = about
  BY DEF Cmd
<1>5. <<a>> \in Seq(System)
  OBVIOUS
<1>6. SendCommands(<<a>>, cs) \in Seq(PlainOrders(System))
  BY <1>1, <1>5, SendsPlain
<1>7. /\ Order(a, request, about) \in Orders
      /\ Order(a, request, about).cmd = request /\ Order(a, request, about).to = a
  BY <1>1, OrderFields
<1>8. SendCommands(<<a>>, cs \o <<Cmd(request, about)>>) =
        SendCommands(<<a>>, cs) \o <<Order(a, request, about)>>
  BY <1>1, <1>2, <1>3, <1>4, SendsLast
<1> QED
  BY <1>6, <1>7, <1>8

\* Ask is such a sequence.
LEMMA AskPoses ==
  ASSUME layer \in Layer, NEW a \in System, NEW request \in Asking,
         NEW about \in SUBSET Layer
  PROVE  \E s \in Seq(PlainOrders(System)), m \in Orders :
           /\ m.cmd \in Asking /\ m.to \in System
           /\ Ask(a, request, about) = s \o <<m>>
<1>1. <<Cmd("Latch", {})>> \in Seq(PlainCommands)
  <2>1. Cmd("Latch", {}) \in PlainCommands
    BY CmdType DEF Command, Cmd, PlainCommands, Asking, TypedRequest
  <2> QED
    BY <2>1
<1>2. <<Cmd("Latch", {})>> \o Instruct \in Seq(PlainCommands)
  BY <1>1, PlainReset, ConcatProperties, Zenon
<1>3. Ask(a, request, about) =
        SendCommands(<<a>>, (<<Cmd("Latch", {})>> \o Instruct) \o <<Cmd(request, about)>>)
  BY DEF Ask
<1> DEFINE s == SendCommands(<<a>>, <<Cmd("Latch", {})>> \o Instruct)
           m == Order(a, request, about)
<1>4. /\ Ask(a, request, about) = s \o <<m>>
      /\ s \in Seq(PlainOrders(System)) /\ m \in Orders
      /\ m.cmd \in Asking /\ m.to \in System
  BY <1>2, <1>3, AskShape
<1> HIDE DEF s, m
<1> QED
  BY <1>4

LEMMA AfterExchangeShape ==
  ASSUME TypeOK, ClientsInv, pc \in {"exchange", "words"},
         NEW before \in Seq(PlainOrders(System)), AfterExchange(before),
         transcript'[layer] \in SUBSET Layer, layer' = layer
  PROVE  Plainly \/ (Posed /\ pc' = "spec")
<1> DEFINE S == System \cup Speakers(layer)
           sc == SendCommands(clients, Reset)
           sa == SendCommands(<<SysA>>, Instruct)
           m  == Order(SysA, "NoCommand", transcript'[layer])
<1>1. CASE pc' = "exchange" /\ outbox' = before
  BY <1>1 DEF Plainly, Preparing
<1>2. CASE pc' = "spec" /\ outbox' = before \o RequestSpec
  <2>1. /\ S \subseteq Agent /\ System \subseteq Agent
        /\ System \subseteq S /\ Speakers(layer) \subseteq S
    BY DEF System, Speakers
  <2>2. sc \in Seq(PlainOrders(Speakers(layer)))
    <3>1. clients \in Seq(Speakers(layer)) /\ Speakers(layer) \subseteq Agent
      BY DEF ClientsInv, Speakers
    <3> QED
      BY <3>1, PlainReset, SendsPlain
  <2>3. sa \in Seq(PlainOrders(System)) /\ m \in Orders /\ m.cmd \in Asking /\ m.to \in System
        /\ SendCommands(<<SysA>>, Instruct \o <<Cmd("NoCommand", transcript'[layer])>>) =
             sa \o <<m>>
    <3>1. layer \in Layer /\ SysA \in System /\ "NoCommand" \in Asking
      BY SystemMembers DEF TypeOK, Asking
    <3>2. Instruct \in Seq(PlainCommands)
      BY <3>1, PlainReset
    <3>3. PICK about \in SUBSET Layer : about = transcript'[layer]
      OBVIOUS
    <3> QED
      BY <3>1, <3>2, <3>3, AskShape
  <2> DEFINE s == (before \o sc) \o sa
  <2>4. before \in Seq(PlainOrders(S)) /\ sc \in Seq(PlainOrders(S)) /\ sa \in Seq(PlainOrders(S))
    BY <2>1, <2>2, <2>3, PlainMore
  <2> HIDE DEF sc, sa, m, S
  <2>5. s \in Seq(PlainOrders(S))
    BY <2>4, ConcatProperties, Zenon
  <2>6. outbox' = s \o <<m>>
    <3>1. outbox' = before \o (sc \o (sa \o <<m>>))
      BY <1>2, <2>3 DEF RequestSpec, sc
    <3>2. <<m>> \in Seq(Orders)
      BY <2>3
    <3>3. /\ before \in Seq(Orders) /\ sc \in Seq(Orders) /\ sa \in Seq(Orders)
      <4>1. PlainOrders(S) \subseteq Orders
        BY DEF PlainOrders
      <4> QED
        BY <2>4, <4>1
    <3>4. sc \o (sa \o <<m>>) = (sc \o sa) \o <<m>>
      BY <3>2, <3>3, ConcatAssociative
    <3>5. /\ before \o ((sc \o sa) \o <<m>>) = (before \o (sc \o sa)) \o <<m>>
      <4>1. sc \o sa \in Seq(Orders)
        BY <3>3
      <4> QED
        BY <3>2, <3>3, <4>1, ConcatAssociative
    <3>6. before \o (sc \o sa) = s
      BY <3>3, ConcatAssociative
    <3> QED
      BY <3>1, <3>4, <3>5, <3>6
  <2>7. ASSUME NEW a \in Agent \ System PROVE Lacks(s, Teaching(a))
    <3>1. Lacks(before, Teaching(a)) /\ Lacks(sa, Teaching(a))
      BY <2>3, PlainTeaching
    <3>2. Lacks(sc, Teaching(a))
      <4>1. clients \in Seq(Agent)
        BY DEF TypeOK
      <4> QED
        BY <4>1, ResetTeaching DEF sc
    <3>3. Lacks(before \o sc, Teaching(a)) /\ before \o sc \in Seq(PlainOrders(S))
      BY <2>4, <3>1, <3>2, Concatenating, ConcatProperties
    <3> QED
      BY <2>4, <3>1, <3>3, Concatenating
  <2>8. ~(pc' = "words")
    BY <1>2
  <2> QED
    BY <1>2, <2>3, <2>5, <2>6, <2>7, <2>8 DEF Posed, S
<1> QED
  BY <1>1, <1>2 DEF AfterExchange

LEMMA JobShape ==
  ASSUME IInv, ClientsInv, JobStep
  PROVE  SendCommand \/ Draws
<1> USE DEF IInv
<1>0. outbox = <<>> => outbox \in Seq(PlainOrders(System))
  <2>1. <<>> \in Seq(PlainOrders(System))
    OBVIOUS
  <2> QED
    BY <2>1
<1>1. CASE StartLayer
  <2>1. /\ outbox = <<>> /\ pc = "kickoff" /\ ~Posing
        /\ UNCHANGED <<connected, toClients, routerHand, toServer, agentVars, layer, clients>>
    <3>1. outbox = <<>> /\ pc = "kickoff" /\ UNCHANGED netVars
      BY <1>1 DEF StartLayer, Waiting
    <3>2. UNCHANGED <<layer, clients>>
      BY <1>1 DEF StartLayer, Stop
    <3> QED
      BY <3>1, <3>2 DEF Posing, netVars, queueVars
  <2>2. CASE Stop("crashed")
    BY <1>0, <2>1, <2>2 DEF Stop, Draws, Plainly, Preparing
  <2>3. CASE ~Stop("crashed")
    <3>1. KickedOff
      BY <1>1, <2>1, <2>3 DEF StartLayer, KickedOff, ClientsInv
    <3> QED
      BY <2>1, <3>1 DEF Draws, KickedOff
  <2> QED
    BY <2>2, <2>3
<1>10. CASE FindSystemAgent
  <2>1. /\ outbox = <<>> /\ outbox' = outbox /\ pc = "layer" /\ ~Posing
        /\ UNCHANGED <<connected, toClients, routerHand, toServer, agentVars, layer, clients>>
        /\ pc' \in {"clients", "failed"}
    BY <1>10 DEF FindSystemAgent, Waiting, Posing, netVars, queueVars
  <2> QED
    BY <1>0, <2>1 DEF Draws, Plainly, Preparing
<1>11. CASE ListClients
  <2>1. /\ outbox = <<>> /\ outbox' = outbox /\ pc = "clients" /\ ~Posing
        /\ UNCHANGED <<connected, toClients, routerHand, toServer, agentVars, layer>>
        /\ pc' = "kickoff" /\ clients' \in SetToSeqs(LayerClients)
    BY <1>11 DEF ListClients, Waiting, Posing, netVars, queueVars
  <2> QED
    BY <1>0, <2>1 DEF Draws, Plainly, Preparing, Listed
<1>2. CASE TakeExchange
  <2>1. /\ outbox = <<>> /\ pc = "exchange" /\ ~Posing
        /\ UNCHANGED <<connected, toClients, routerHand, toServer, agentVars, layer, clients>>
    BY <1>2 DEF TakeExchange, Waiting, Posing
  <2>2. /\ LayerOf[Head(procedureChan).from] \in Layer
        /\ transcript' = [transcript EXCEPT ![layer] = @ \cup {LayerOf[Head(procedureChan).from]}]
    <3>1. Head(procedureChan) \in Talking
      BY <1>2 DEF RoutedInv, TakeExchange
    <3> QED
      BY <1>2, <3>1 DEF Talking, TakeExchange
  <2>3. transcript'[layer] \in SUBSET Layer
    BY <2>2 DEF TypeOK
  <2>4. CASE AfterExchange(<<>>)
    <3>1. <<>> \in Seq(PlainOrders(System))
      OBVIOUS
    <3> QED
      BY <2>1, <2>3, <2>4, <3>1, AfterExchangeShape DEF Draws, Plainly, Preparing, KickedOff
  <2>5. CASE outbox' = Ask(SysC, "RequestDictionaryWordDetection",
                           {LayerOf[Head(procedureChan).from]}) /\ pc' = "words"
    <3>1. /\ SysC \in System /\ layer \in Layer
          /\ "RequestDictionaryWordDetection" \in Asking
          /\ {LayerOf[Head(procedureChan).from]} \in SUBSET Layer
      BY <2>2, SystemMembers DEF TypeOK, Asking, TypedRequest
    <3>2. PICK s \in Seq(PlainOrders(System)), m \in Orders :
            m.cmd \in Asking /\ m.to \in System /\ outbox' = s \o <<m>>
      <4>1. PICK about \in SUBSET Layer : about = {LayerOf[Head(procedureChan).from]}
        BY <3>1
      <4> QED
        BY <2>5, <3>1, <4>1, AskPoses
    <3>4. s \in Seq(PlainOrders(System \cup Speakers(layer)))
      BY PlainMore
    <3>5. Posed
      BY <2>1, <2>5, <3>2, <3>4, PlainTeaching DEF Posed
    <3> QED
      BY <2>1, <2>5, <3>5 DEF Draws
  <2>6. CASE pc' = "failed" /\ UNCHANGED <<outbox, count>>
    <3>1. outbox' \in Seq(PlainOrders(System))
      BY <2>1, <2>6
    <3> QED
      BY <2>1, <2>6, <3>1 DEF Draws, Plainly, Preparing
  <2> QED
    BY <1>2, <2>4, <2>5, <2>6 DEF TakeExchange
<1>3. ASSUME NEW at \in {"words", "spec", "updates"}, TakesAnswer(at)
      PROVE  /\ outbox = <<>> /\ pc = at /\ Posing
             /\ toServer # <<>> /\ toServer' = Tail(toServer)
             /\ UNCHANGED <<connected, toClients, routerHand, agentVars, clients, transcript>>
  BY <1>3 DEF TakesAnswer, Waiting, Posing
<1>4. \A a \in {SysA, SysB, SysC} : SendCommands(<<a>>, Reset) \in Seq(PlainOrders(System))
  BY SystemMembers, PlainReset, SendsPlain
<1>5. CASE TakeWords
  <2>1. /\ outbox = <<>> /\ pc = "words" /\ Posing /\ layer' = layer
        /\ toServer # <<>> /\ toServer' = Tail(toServer)
        /\ UNCHANGED <<connected, toClients, routerHand, agentVars, clients, transcript>>
    BY <1>3, <1>5 DEF TakeWords
  <2>2. CASE AfterExchange(SendCommands(<<SysC>>, Reset))
    <3>1. transcript'[layer] \in SUBSET Layer
      BY <2>1 DEF TypeOK
    <3> QED
      BY <1>4, <2>1, <2>2, <3>1, AfterExchangeShape DEF Draws, Plainly, Preparing, KickedOff
  <2>3. CASE pc' = "failed" /\ UNCHANGED <<count, outbox>>
    <3>1. outbox' \in Seq(PlainOrders(System))
      BY <2>1, <2>3
    <3> QED
      BY <2>1, <2>3, <3>1 DEF Draws, Plainly, Preparing
  <2> QED
    BY <1>5, <2>2, <2>3 DEF TakeWords
<1>6. ASSUME NextLayer
      PROVE  /\ layer' \in {layer, layer + 1} /\ pc' \in {"layer", "done"}
             /\ pc' = "layer" => layer' = layer + 1
  BY <1>6 DEF NextLayer
<1>7. CASE TakeSpec
  <2>1. /\ outbox = <<>> /\ pc = "spec" /\ Posing
        /\ toServer # <<>> /\ toServer' = Tail(toServer)
        /\ UNCHANGED <<connected, toClients, routerHand, agentVars, clients, transcript>>
    BY <1>3, <1>7 DEF TakeSpec
  <2>2. outbox' \in Seq(PlainOrders(System))
    BY <1>4, <1>7 DEF TakeSpec
  <2>3. /\ layer' \in {layer, layer + 1} /\ pc' \in {"layer", "done", "dict"}
        /\ pc' = "layer" => layer' = layer + 1
    BY <1>6, <1>7 DEF TakeSpec
  <2> QED
    BY <2>1, <2>2, <2>3 DEF Draws, Plainly, Preparing
<1>8. CASE StartUpdate
  <2>1. /\ outbox = <<>> /\ pc = "dict" /\ ~Posing
        /\ UNCHANGED <<connected, toClients, routerHand, toServer, agentVars, layer, clients>>
    BY <1>8 DEF StartUpdate, Waiting, Posing, netVars, queueVars, Stop
  <2>2. CASE Stop("failed")
    <3>0. outbox' = <<>>
      BY <2>1, <2>2 DEF Stop
    <3>1. outbox' \in Seq(PlainOrders(System))
      BY <3>0
    <3> QED
      BY <2>1, <2>2, <3>1 DEF Stop, Draws, Plainly, Preparing
  <2>3. CASE outbox' = Ask(SysB, "RequestJsonDictionaryUpdate", transcript[layer])
             /\ pc' = "updates"
    <3>1. /\ SysB \in System /\ layer \in Layer /\ transcript[layer] \in SUBSET Layer
          /\ "RequestJsonDictionaryUpdate" \in Asking
      BY SystemMembers DEF TypeOK, Asking, TypedRequest
    <3>2. PICK s \in Seq(PlainOrders(System)), m \in Orders :
            m.cmd \in Asking /\ m.to \in System /\ outbox' = s \o <<m>>
      BY <2>3, <3>1, AskPoses
    <3>4. s \in Seq(PlainOrders(System \cup Speakers(layer)))
      BY PlainMore
    <3>5. Posed
      BY <2>1, <2>3, <3>2, <3>4, PlainTeaching DEF Posed
    <3> QED
      BY <2>1, <2>3, <3>5 DEF Draws
  <2> QED
    BY <1>8, <2>2, <2>3 DEF StartUpdate
<1>9. CASE TakeUpdates
  <2>1. /\ outbox = <<>> /\ pc = "updates" /\ Posing
        /\ toServer # <<>> /\ toServer' = Tail(toServer)
        /\ UNCHANGED <<connected, toClients, routerHand, agentVars, clients, transcript>>
    BY <1>3, <1>9 DEF TakeUpdates
  <2>2. CASE outbox' = SendCommands(<<SysB>>, Reset) /\ NextLayer
    BY <1>4, <1>6, <2>1, <2>2 DEF Draws, Plainly, Preparing
  <2>3. CASE pc' = "failed" /\ UNCHANGED <<dictUpdates, outbox, layer>>
    <3>1. outbox' \in Seq(PlainOrders(System))
      BY <2>1, <2>3
    <3> QED
      BY <2>1, <2>3, <3>1 DEF Draws, Plainly, Preparing
  <2> QED
    BY <1>9, <2>2, <2>3 DEF TakeUpdates
<1> QED
  BY <1>1, <1>2, <1>5, <1>7, <1>8, <1>9, <1>10, <1>11 DEF JobStep

-----------------------------------------------------------------------------
(***************************************************************************)
(* Who wrote what, in an evolution.                                        *)
(***************************************************************************)

OrdersInv == /\ outbox \in Seq(JobOrders)
             /\ Signed(JobOrders)
             /\ ClientsInv

LEMMA JobOrdersAre ==
  /\ JobOrders \subseteq Orders /\ JobOrders \subseteq Message
  /\ \A ts \in SUBSET Agent : PlainOrders(ts) \subseteq JobOrders
  BY DEF JobOrders, PlainOrders, Orders

\* The clients iterate looks up are of the layer it is at.
LEMMA LayerClientsAre ==
  ASSUME NetTypeOK, layer \in Layer
  PROVE  /\ LayerClients \subseteq Speakers(layer) /\ Speakers(layer) \subseteq Agent
         /\ LayerClients \cap System = {} /\ Speakers(layer) \cap System = {}
         /\ SetToSeqs(LayerClients) \subseteq Seq(Speakers(layer))
<1>1. /\ LayerClients \subseteq Speakers(layer) /\ Speakers(layer) \subseteq Agent
      /\ LayerClients \subseteq Agent
      /\ LayerClients \cap System = {} /\ Speakers(layer) \cap System = {}
  BY LayersAssumption DEF NetTypeOK, LayerClients, Speakers, System, Layer
<1>2. ASSUME NEW as \in SetToSeqs(LayerClients) PROVE as \in Seq(Speakers(layer))
  <2>1. Cardinality(LayerClients) \in Nat
    BY <1>1, AgentAssumption, FS_Subset, FS_CardinalityType
  <2>2. as \in [1 .. Cardinality(LayerClients) -> LayerClients]
    BY DEF SetToSeqs
  <2>3. as \in [1 .. Cardinality(LayerClients) -> Speakers(layer)]
    BY <1>1, <2>2
  <2> QED
    BY <2>1, <2>3, SegmentIsSeq, Zenon
<1> QED
  BY <1>1, <1>2

\* The kickoff follows the instructions of the layer's clients.
LEMMA KickOffShape ==
  ASSUME TypeOK, KickedOff
  PROVE  \E s \in Seq(PlainOrders(Speakers(layer))), first \in LayerClients :
           /\ outbox' = s \o <<Order(first, "SendInitialMessage", {layer})>>
           /\ Order(first, "SendInitialMessage", {layer}) \in JobOrders
           /\ Order(first, "SendInitialMessage", {layer}).to = first
           /\ Order(first, "SendInitialMessage", {layer}).cmd = "SendInitialMessage"
           /\ Order(first, "SendInitialMessage", {layer}).from = Server
<1>1. layer \in Layer /\ NetTypeOK
  BY DEF TypeOK
<1>2. PICK first \in LayerClients :
         outbox' = SendCommands(clients, Instruct) \o
                     <<Order(first, "SendInitialMessage", {layer})>>
  BY DEF KickedOff
<1>3. clients \in Seq(Speakers(layer)) /\ first \in Agent /\ first \notin System
  BY <1>1, LayerClientsAre DEF KickedOff
<1>4. SendCommands(clients, Instruct) \in Seq(PlainOrders(Speakers(layer)))
  BY <1>1, <1>3, LayerClientsAre, PlainReset, SendsPlain
<1>5. /\ Order(first, "SendInitialMessage", {layer}) \in Orders
      /\ Order(first, "SendInitialMessage", {layer}).to = first
      /\ Order(first, "SendInitialMessage", {layer}).from = Server
      /\ Order(first, "SendInitialMessage", {layer}).cmd = "SendInitialMessage"
  <2>1. PICK about \in SUBSET Layer, cmd \in Command :
          about = {layer} /\ cmd = "SendInitialMessage"
    BY <1>1 DEF Command
  <2>2. PICK m : m = Order(first, cmd, about)
    OBVIOUS
  <2>3. m \in Orders /\ m.from = Server /\ m.to = first /\ m.cmd = cmd
    BY <1>3, <2>2, OrderFields
  <2> QED
    BY <2>1, <2>2, <2>3
<1>6. Order(first, "SendInitialMessage", {layer}) \in JobOrders
  BY <1>3, <1>5 DEF JobOrders
<1> QED
  BY <1>2, <1>3, <1>4, <1>5, <1>6

LEMMA DrawnOrders ==
  ASSUME TypeOK, Draws
  PROVE  outbox' \in Seq(JobOrders)
<1>1. ASSUME NEW ts, ts \subseteq Agent
      PROVE  \A s \in Seq(PlainOrders(ts)) : s \in Seq(JobOrders)
  <2>1. PlainOrders(ts) \subseteq JobOrders
    BY <1>1, JobOrdersAre
  <2> QED
    BY <2>1
<1>0. /\ System \subseteq Agent /\ System \cup Speakers(layer) \subseteq Agent
      /\ Speakers(layer) \subseteq Agent
  BY DEF System, Speakers
<1>2. CASE Plainly
  BY <1>0, <1>1, <1>2 DEF Plainly
<1>3. CASE Posed
  <2>1. PICK s \in Seq(PlainOrders(System \cup Speakers(layer))), m \in Orders :
          m.cmd \in Asking /\ m.to \in System /\ outbox' = s \o <<m>>
    BY <1>3 DEF Posed
  <2>2. s \in Seq(JobOrders)
    BY <1>0, <1>1
  <2>3. m \in JobOrders
    BY <2>1 DEF JobOrders
  <2> QED
    BY <2>1, <2>2, <2>3
<1>4. CASE KickedOff
  <2>1. PICK s \in Seq(PlainOrders(Speakers(layer))), m \in JobOrders : outbox' = s \o <<m>>
    BY <1>4, KickOffShape
  <2>2. s \in Seq(JobOrders)
    BY <1>0, <1>1
  <2> QED
    BY <2>1, <2>2
<1> QED
  BY <1>2, <1>3, <1>4 DEF Draws

LEMMA OrdersJob ==
  ASSUME IInv, OrdersInv, JobStep
  PROVE  OrdersInv'
<1>1. SendCommand \/ Draws
  BY JobShape DEF OrdersInv
<1>2. CASE SendCommand
  <2>1. /\ outbox # <<>> /\ outbox' = Tail(outbox)
        /\ toClients' = Append(toClients, Head(outbox))
        /\ UNCHANGED <<routerHand, toServer, toAgent, fromAgent, pc, clients, layer>>
    BY <1>2 DEF SendCommand, agentVars
  <2>2. Head(outbox) \in JobOrders /\ Tail(outbox) \in Seq(JobOrders)
    BY <2>1 DEF OrdersInv
  <2>3. Append(toClients, Head(outbox)) \in Seq(Speech \cup JobOrders)
    BY <2>2 DEF OrdersInv, Signed
  <2> QED
    BY <2>1, <2>2, <2>3 DEF OrdersInv, Signed, ClientsInv
<1>3. CASE Draws
  <2>1. outbox' \in Seq(JobOrders)
    BY <1>3, DrawnOrders DEF IInv
  <2>2. UNCHANGED <<toClients, routerHand, toAgent, fromAgent>>
    BY <1>3 DEF Draws, agentVars
  <2>3. toServer' = toServer \/ (toServer # <<>> /\ toServer' = Tail(toServer))
    BY <1>3 DEF Draws
  <2>4. toServer' \in Seq({m \in Speech : LayerOf[m.from] = 0})
    BY <2>3 DEF OrdersInv, Signed
  <2>5. ClientsInv'
    <3>1. CASE ~KickedOff /\ pc' # "kickoff"
      <4>1. pc' \in {"exchange", "words", "spec"} =>
              UNCHANGED <<clients, layer>> /\ pc \in {"exchange", "words"}
        BY <1>3, <3>1 DEF Draws
      <4> QED
        BY <3>1, <4>1 DEF OrdersInv, ClientsInv, Speakers
    <3>2. CASE KickedOff
      BY <3>2 DEF KickedOff, ClientsInv, Speakers
    <3>3. CASE pc' = "kickoff"
      <4>1. clients' \in SetToSeqs(LayerClients) /\ layer' = layer
        BY <1>3, <3>3 DEF Draws, Listed
      <4>2. clients' \in Seq(Speakers(layer))
        BY <4>1, LayerClientsAre DEF IInv, TypeOK
      <4> QED
        BY <4>1, <4>2 DEF ClientsInv, Speakers
    <3> QED
      BY <3>1, <3>2, <3>3
  <2> QED
    BY <2>1, <2>2, <2>4, <2>5 DEF OrdersInv, Signed
<1> QED
  BY <1>1, <1>2, <1>3

\* The transport, and the whole.
LEMMA OrdersStep ==
  ASSUME IInv, OrdersInv, [Next]_vars
  PROVE  OrdersInv'
<1>1. CASE JobStep
  BY <1>1, OrdersJob
<1>2. CASE NetNext /\ UNCHANGED jobVars
  <2>1. Signed(JobOrders)'
    <3>1. NetTypeOK
      BY DEF IInv, TypeOK
    <3>2. JobOrders \in SUBSET Orders /\ Signed(JobOrders)
      BY JobOrdersAre DEF OrdersInv
    <3> QED
      BY <1>2, <3>1, <3>2, SignedStep
  <2> QED
    BY <1>2, <2>1 DEF OrdersInv, ClientsInv, jobVars
<1>3. CASE UNCHANGED vars
  BY <1>3 DEF OrdersInv, Signed, ClientsInv, vars, netVars, jobVars, queueVars, agentVars
<1> QED
  BY <1>1, <1>2, <1>3 DEF Next

LEMMA OrdersInit == Init => OrdersInv
<1> SUFFICES ASSUME Init PROVE OrdersInv
  OBVIOUS
<1>1. /\ outbox = <<>> /\ toClients = <<>> /\ routerHand = NoMsg /\ toServer = <<>>
      /\ \A a \in Agent : toAgent[a] = <<>> /\ fromAgent[a] = <<>>
      /\ pc = "layer"
  BY DEF Init, NetInit
<1>2. outbox \in Seq(JobOrders) /\ ClientsInv
  BY <1>1 DEF ClientsInv
<1>3. \A S : <<>> \in Seq(S)
  OBVIOUS
<1>4. Signed(JobOrders)
  <2>1. /\ toClients \in Seq(Speech \cup JobOrders)
        /\ routerHand \in Speech \cup {NoMsg}
        /\ toServer \in Seq({m \in Speech : LayerOf[m.from] = 0})
    BY <1>1, <1>3
  <2>2. ASSUME NEW a \in Agent
        PROVE  /\ toAgent[a] \in Seq(To(a, JobOrders))
               /\ fromAgent[a] \in Seq(Said(a))
    BY <1>1, <1>3
  <2> QED
    BY <2>1, <2>2 DEF Signed
<1> QED
  BY <1>2, <1>4 DEF OrdersInv

-----------------------------------------------------------------------------
(***************************************************************************)
(* One question at a time.                                                 *)
(***************************************************************************)

QuestionBox == Boxes(Channels, System)
Question == Asks \cup Replies \cup Call

\* A question, the request it became or the answer to it is in one place at
\* most, and in none unless the jobs goroutine is waiting for the answer.
QuestionsInv ==
  /\ Single(Contents(QuestionBox, outbox), QuestionBox, Question)
  /\ Posing \/ Void(Contents(QuestionBox, outbox), QuestionBox, Question)

\* An agent of a layer talks to its own layer, a system agent to the server.
LEMMA SpeechGoes ==
  ASSUME NEW m \in Speech
  PROVE  /\ m \in Message /\ m.from \in Agent /\ m.cmd = "NoCommand" /\ m.from # Server
         /\ m.from \in System => m.to \notin Agent
         /\ m.to \in Agent => LayerOf[m.to] = LayerOf[m.from] /\ m.to \notin System
<1>1. /\ m \in Message /\ m.from \in Agent /\ m.to = PeerOf[m.from]
      /\ m.cmd = "NoCommand" /\ m.from # Server
  BY AgentAssumption DEF Speech
<1>2. m.from \in System => m.to \notin Agent
  BY <1>1, AgentAssumption DEF System
<1>3. m.to \in Agent => LayerOf[m.to] = LayerOf[m.from] /\ m.to \notin System
  BY <1>1, AgentAssumption, PeerAssumption DEF System
<1> QED
  BY <1>1, <1>2, <1>3

LEMMA PlainNoQuestion ==
  ASSUME NEW ts
  PROVE  PlainOrders(ts) \cap Question = {}
<1> SUFFICES ASSUME NEW m \in PlainOrders(ts), m \in Question PROVE FALSE
  OBVIOUS
<1>1. /\ m \in Message /\ m.from = Server /\ m.cmd \notin Asking
  BY DEF PlainOrders, Orders
<1>2. m \notin Asks /\ m \notin Replies
  BY <1>1, AgentAssumption DEF Asks, Replies, Asking, System
<1> QED
  BY <1>1, <1>2, NotBoth DEF Question

LEMMA ClosedQuestions == Closed(Channels, System, JobOrders, Question)
<1>1. ASSUME NEW m \in Speech, m \in Question PROVE m.from \in System /\ m.to \notin Agent
  <2>1. m \notin Asks /\ m \notin Call
    BY SpeechGoes, NotBoth DEF Asks
  <2>2. m.from \in System
    BY <1>1, <2>1 DEF Question, Replies
  <2> QED
    BY <2>2, SpeechGoes
<1>2. ASSUME NEW m \in Speech \cup JobOrders, m.to \in System,
             m.cmd \in Asking \cup {"SendInitialMessage"}
      PROVE  m \in Question
  <2>1. m \notin Speech
    BY <1>2, SpeechGoes, SystemMembers
  <2>2. m \in Message /\ m.from = Server /\ m.cmd \in Asking
    BY <1>2, <2>1 DEF JobOrders, PlainOrders, Orders
  <2> QED
    BY <2>2 DEF Question, Asks, Asking
<1>3. /\ Call \subseteq Question /\ Channels \subseteq Channels /\ System \subseteq Agent
      /\ JobOrders \subseteq Orders
      /\ "toClients" \in Channels /\ "routerHand" \in Channels /\ "toServer" \in Channels
  BY JobOrdersAre, SystemMembers DEF Question, Channels
<1> QED
  BY <1>1, <1>2, <1>3 DEF Closed

\* The boxes when the jobs are to send out.
LEMMA OutboxNow ==
  ASSUME NEW B, NEW out
  PROVE  /\ outbox' = out => Contents(B, outbox)' = Contents(B, out)'
         /\ outbox = out => Contents(B, outbox) = Contents(B, out)
<1>1. ASSUME outbox' = out
      PROVE  Contents(B, outbox)' = Contents(B, out)'
  <2>1. \A b \in B : Content(b, outbox)' = Content(b, out)'
    BY <1>1, Zenon DEF Content
  <2> QED
    BY <2>1 DEF Contents
<1> QED
  BY <1>1 DEF Contents

LEMMA QuestionsJob ==
  ASSUME IInv, OrdersInv, QuestionsInv, JobStep
  PROVE  QuestionsInv'
<1> DEFINE B == QuestionBox
           T == Question
<1>0. /\ NetTypeOK /\ outbox \in Seq(Message)
      /\ Channels \in SUBSET Channels /\ System \in SUBSET Agent
      /\ {"jobs", "toClients"} \subseteq Channels
      /\ "jobs" \in Channels /\ "toServer" \in Channels
  BY SystemMembers DEF IInv, TypeOK, Channels
<1>1. PICK before : before = outbox
  OBVIOUS
<1>2. PICK after : after = outbox'
  OBVIOUS
<1>3. /\ Contents(B, outbox)' = Contents(B, after)'
      /\ Contents(B, outbox) = Contents(B, before)
  BY <1>1, <1>2, OutboxNow
<1> DEFINE f == Contents(B, before)
           g == Contents(B, after)'
<1>4. SendCommand \/ Draws
  BY JobShape DEF OrdersInv
<1>5. CASE SendCommand
  <2>1. /\ before \in Seq(Message) /\ before # <<>> /\ after = Tail(before)
        /\ toClients' = Append(toClients, Head(before))
        /\ UNCHANGED <<routerHand, toServer, agentVars>> /\ UNCHANGED pc
    BY <1>0, <1>1, <1>2, <1>5 DEF SendCommand
  <2>2. Kept(g, f, B, T)
    BY <1>0, <2>1, SendKeeps DEF QuestionBox
  <2> QED
    BY <1>3, <2>1, <2>2 DEF QuestionsInv, Kept, Posing
<1>6. CASE Draws
  <2>1. /\ UNCHANGED <<toClients, routerHand, agentVars>>
        /\ toServer' = toServer \/ (toServer # <<>> /\ toServer' = Tail(toServer))
    BY <1>6 DEF Draws
  <2>2. /\ Void(f, B, T) /\ Lacks(after, T) => Void(g, B, T)
        /\ Void(f, B, T) /\ Few(after, T) => Single(g, B, T)
        /\ Single(f, B, T) /\ toServer # <<>> /\ toServer' = Tail(toServer)
             /\ Head(toServer) \in T =>
               /\ Lacks(after, T) => Void(g, B, T)
               /\ Few(after, T) => Single(g, B, T)
    BY <1>0, <2>1, DrawKeeps DEF QuestionBox
  <2>3. /\ Lacks(after, T) => Void(g, B, T)
        /\ Few(after, T) => Single(g, B, T)
    <3>1. CASE ~Posing
      BY <1>3, <2>2, <3>1 DEF QuestionsInv
    <3>2. CASE toServer # <<>> /\ toServer' = Tail(toServer)
      <4>1. toServer \in Seq({m \in Speech : LayerOf[m.from] = 0})
        BY DEF OrdersInv, Signed
      <4>2. Head(toServer) \in {m \in Speech : LayerOf[m.from] = 0}
        BY <3>2, <4>1
      <4>3. Head(toServer) \in T
        BY <4>2, SpeechGoes DEF Question, Replies, System
      <4> QED
        BY <1>3, <2>2, <3>2, <4>3 DEF QuestionsInv
    <3> QED
      BY <1>6, <3>1, <3>2 DEF Draws
  <2>4. Few(after, T) /\ (Posing' \/ Lacks(after, T))
    <3>1. CASE Plainly
      <4>1. after \in Seq(PlainOrders(System))
        BY <1>2, <3>1 DEF Plainly
      <4>2. Lacks(after, T)
        BY <4>1, PlainNoQuestion, LastFew
      <4> QED
        BY <4>2, LacksFew
    <3>2. CASE Posed
      <4>1. PICK s \in Seq(PlainOrders(System \cup Speakers(layer))), m \in Orders :
              outbox' = s \o <<m>>
        BY <3>2 DEF Posed
      <4>2. Few(after, T)
        BY <1>2, <4>1, PlainNoQuestion, LastFew
      <4> QED
        BY <3>2, <4>2 DEF Posed, Posing
    <3>3. CASE KickedOff
      <4>1. PICK s \in Seq(PlainOrders(Speakers(layer))), m \in JobOrders :
              /\ outbox' = s \o <<m>>
              /\ m.cmd = "SendInitialMessage" /\ m.from = Server
        BY <3>3, KickOffShape DEF IInv
      <4>2. m \notin T
        <5>1. m \in Message
          BY <4>1, JobOrdersAre
        <5>2. m \notin Asks /\ m \notin Replies
          BY <4>1, AgentAssumption DEF Asks, Replies, TypedRequest, System
        <5> QED
          BY <5>1, <5>2, NotBoth DEF Question
      <4>3. Lacks(after, T)
        BY <1>2, <4>1, <4>2, PlainNoQuestion, LastFew
      <4> QED
        BY <4>3, LacksFew
    <3> QED
      BY <1>6, <3>1, <3>2, <3>3 DEF Draws
  <2> QED
    BY <1>3, <2>3, <2>4 DEF QuestionsInv
<1> QED
  BY <1>4, <1>5, <1>6

LEMMA QuestionsStep ==
  ASSUME IInv, OrdersInv, QuestionsInv, [Next]_vars
  PROVE  QuestionsInv'
<1>1. CASE JobStep
  BY <1>1, QuestionsJob
<1>2. CASE NetNext /\ UNCHANGED jobVars
  <2>1. PICK out : out = outbox
    OBVIOUS
  <2>2. UNCHANGED <<outbox, pc>>
    BY <1>2 DEF jobVars
  <2>3. /\ Contents(QuestionBox, outbox)' = Contents(QuestionBox, out)'
        /\ Contents(QuestionBox, outbox) = Contents(QuestionBox, out)
    BY <2>1, <2>2, OutboxNow
  <2>4. Kept(Contents(QuestionBox, out)', Contents(QuestionBox, out), QuestionBox, Question)
    BY <1>2, ClosedQuestions, NetKeeps DEF IInv, TypeOK, OrdersInv, QuestionBox
  <2> QED
    BY <2>2, <2>3, <2>4 DEF QuestionsInv, Kept, Posing
<1>3. CASE UNCHANGED vars
  <2>1. /\ Contents(QuestionBox, outbox)' = Contents(QuestionBox, outbox)
        /\ UNCHANGED pc
    BY <1>3 DEF Contents, Content, Hand, vars, netVars, jobVars, queueVars, agentVars
  <2> QED
    BY <2>1 DEF QuestionsInv, Posing
<1> QED
  BY <1>1, <1>2, <1>3 DEF Next

LEMMA QuestionsInit == Init => QuestionsInv
<1> SUFFICES ASSUME Init PROVE QuestionsInv
  OBVIOUS
<1>1. NetInit /\ outbox = <<>> /\ Channels \in SUBSET Channels /\ System \in SUBSET Agent
  BY SystemMembers DEF Init
<1>2. Void(Contents(QuestionBox, <<>>), QuestionBox, Question)
  BY <1>1, NothingYet DEF QuestionBox
<1>3. Void(Contents(QuestionBox, outbox), QuestionBox, Question)
  BY <1>1, <1>2
<1> QED
  BY <1>3, VoidSingle DEF QuestionsInv

\* The places the property counts are places of questions.
LEMMA QuestionPlaces ==
  ASSUME IInv, OrdersInv
  PROVE  Questions \subseteq Places(QuestionBox, outbox, Question)
<1> DEFINE C == Boxes({"jobs", "toClients", "routerHand"}, System)
           D == {<<"toServer", Server>>}
<1>1. C \subseteq QuestionBox /\ D \subseteq QuestionBox
  BY DEF Boxes, QuestionBox, Channels
<1>2. ASSUME NEW i \in DOMAIN toServer PROVE toServer[i] \in Question
  <2>1. toServer[i] \in {m \in Speech : LayerOf[m.from] = 0}
    BY DEF OrdersInv, Signed
  <2> QED
    BY <2>1, SpeechGoes DEF Question, Replies, System
<1>3. Places(C, outbox, Asks \cup Replies \cup Call) \subseteq Places(QuestionBox, outbox, Question)
  BY <1>1, Zenon DEF Places, Question
<1>4. Places(D, outbox, Message) \subseteq Places(QuestionBox, outbox, Question)
  <2>1. Content(<<"toServer", Server>>, outbox) = toServer
    BY DEF Content
  <2>2. {i \in DOMAIN toServer : toServer[i] \in Message}
          \subseteq {i \in DOMAIN toServer : toServer[i] \in Question}
    BY <1>2
  <2> QED
    BY <1>1, <2>1, <2>2 DEF Places
<1> QED
  BY <1>3, <1>4 DEF Questions

\* At any moment the jobs goroutine has at most one question open to the
\* system agents, whatever is on its way to them, and none when it is not
\* waiting for one: an answer taken from ToServer is the answer to the
\* question just asked, for any agents, layers, capacities and faults.
THEOREM EveryAnswerIsDue == Spec => []OneQuestion
<1>1. Init => IInv /\ OrdersInv /\ QuestionsInv
  BY InitTyped, OrdersInit, QuestionsInit
<1>2. IInv /\ OrdersInv /\ QuestionsInv /\ [Next]_vars => (IInv /\ OrdersInv /\ QuestionsInv)'
  BY NextTyped, OrdersStep, QuestionsStep
<1>3. IInv /\ OrdersInv /\ QuestionsInv => OneQuestion
  <2> SUFFICES ASSUME IInv, OrdersInv, QuestionsInv PROVE OneQuestion
    OBVIOUS
  <2>1. Questions \subseteq Places(QuestionBox, outbox, Question)
    BY QuestionPlaces
  <2>2. /\ Cardinality(Questions) <= 1
        /\ Posing \/ Cardinality(Questions) = 0
    BY <2>1, PlacesFew DEF QuestionsInv
  <2> QED
    BY <2>2 DEF OneQuestion, Posing
<1> QED
  BY <1>1, <1>2, <1>3, PTL DEF Spec

-----------------------------------------------------------------------------
(***************************************************************************)
(* One conversation in a layer.                                            *)
(***************************************************************************)

TalkBox(l) == Boxes({"jobs", "toClients"}, Speakers(l))
Kickoff(l) == {m \in JobOrders : m.cmd = "SendInitialMessage" /\ LayerOf[m.to] = l}
Turn(l)    == {m \in Speech : LayerOf[m.from] = l} \cup Kickoff(l) \cup Call

\* The jobs goroutine has yet to kick a client of the layer off.
Unvisited(l) == l > layer \/ (l = layer /\ pc \in Preparing)

\* The kickoff, the message or the request is in one place at most, and in none
\* before the layer's turn.
TalkInv ==
  \A l \in Layer :
    /\ Single(Contents(TalkBox(l), outbox), TalkBox(l), Turn(l))
    /\ Unvisited(l) => Void(Contents(TalkBox(l), outbox), TalkBox(l), Turn(l))

LEMMA TurnFields ==
  ASSUME NEW l \in Layer, NEW m \in Orders, m \in Turn(l)
  PROVE  m.cmd = "SendInitialMessage" /\ LayerOf[m.to] = l
<1>1. m \in Message /\ m.from = Server /\ m \notin Call
  BY NotBoth DEF Orders
<1>2. m \notin Speech
  BY <1>1, SpeechGoes, AgentAssumption
<1> QED
  BY <1>1, <1>2 DEF Turn, Kickoff

LEMMA PlainNoTurn ==
  ASSUME NEW l \in Layer, NEW ts
  PROVE  PlainOrders(ts) \cap Turn(l) = {}
<1> SUFFICES ASSUME NEW m \in PlainOrders(ts), m \in Turn(l) PROVE FALSE
  OBVIOUS
<1>1. m \in Orders /\ m.cmd # "SendInitialMessage"
  BY DEF PlainOrders
<1> QED
  BY <1>1, TurnFields

LEMMA ClosedTalk ==
  ASSUME NEW l \in Layer
  PROVE  Closed({"jobs", "toClients"}, Speakers(l), JobOrders, Turn(l))
<1>0. l # 0 /\ Speakers(l) \cap System = {} /\ Speakers(l) \subseteq Agent
  BY LayersAssumption DEF Layer, Speakers, System
<1>1. ASSUME NEW m \in Speech, m \in Turn(l) PROVE m.from \in Speakers(l)
  <2>1. m \in Message /\ m.from \in Agent /\ m.from # Server /\ m \notin Call
    BY SpeechGoes, NotBoth
  <2>2. m \notin JobOrders
    BY <2>1, JobOrdersAre DEF Orders
  <2> QED
    BY <1>1, <2>1, <2>2 DEF Turn, Kickoff, Speakers
<1>2. ASSUME NEW m \in Speech \cup JobOrders, m.to \in Speakers(l),
             m.cmd \in Asking \cup {"SendInitialMessage"}
      PROVE  m \in Turn(l)
  <2>1. CASE m \in Speech
    <3>1. LayerOf[m.from] = LayerOf[m.to]
      BY <1>0, <1>2, <2>1, SpeechGoes
    <3> QED
      BY <1>2, <2>1, <3>1 DEF Turn, Speakers
  <2>2. CASE m \in JobOrders
    <3>1. m.cmd = "SendInitialMessage" /\ LayerOf[m.to] = l
      BY <1>0, <1>2, <2>2 DEF JobOrders, PlainOrders, Speakers
    <3> QED
      BY <2>2, <3>1 DEF Turn, Kickoff
  <2> QED
    BY <1>2, <2>1, <2>2
<1>3. /\ Call \subseteq Turn(l) /\ {"jobs", "toClients"} \subseteq Channels
      /\ JobOrders \subseteq Orders
      /\ "toClients" \in {"jobs", "toClients"}
      /\ "routerHand" \notin {"jobs", "toClients"} /\ "toServer" \notin {"jobs", "toClients"}
  BY JobOrdersAre DEF Turn, Channels
<1> QED
  BY <1>0, <1>1, <1>2, <1>3 DEF Closed

LEMMA TalkJob ==
  ASSUME IInv, OrdersInv, TalkInv, JobStep
  PROVE  TalkInv'
<1> SUFFICES ASSUME NEW l \in Layer
             PROVE  /\ Single(Contents(TalkBox(l), outbox)', TalkBox(l), Turn(l))
                    /\ Unvisited(l)' => Void(Contents(TalkBox(l), outbox)', TalkBox(l), Turn(l))
  BY DEF TalkInv
<1> DEFINE B == TalkBox(l)
           T == Turn(l)
<1>0. /\ NetTypeOK /\ outbox \in Seq(Message) /\ layer \in Nat /\ layer \in Layer
      /\ {"jobs", "toClients"} \in SUBSET Channels /\ Speakers(l) \in SUBSET Agent
      /\ {"jobs", "toClients"} \subseteq {"jobs", "toClients"}
      /\ "jobs" \in {"jobs", "toClients"} /\ l \in Nat
  BY LayersAssumption DEF IInv, TypeOK, Channels, Speakers, Layer
<1>1. PICK before : before = outbox
  OBVIOUS
<1>2. PICK after : after = outbox'
  OBVIOUS
<1>3. /\ Contents(B, outbox)' = Contents(B, after)'
      /\ Contents(B, outbox) = Contents(B, before)
  BY <1>1, <1>2, OutboxNow
<1> DEFINE f == Contents(B, before)
           g == Contents(B, after)'
<1>4. SendCommand \/ Draws
  BY JobShape DEF OrdersInv
<1>5. CASE SendCommand
  <2>1. /\ before \in Seq(Message) /\ before # <<>> /\ after = Tail(before)
        /\ toClients' = Append(toClients, Head(before))
        /\ UNCHANGED <<routerHand, toServer, agentVars>> /\ UNCHANGED <<pc, layer>>
    BY <1>0, <1>1, <1>2, <1>5 DEF SendCommand
  <2>2. Kept(g, f, B, T)
    BY <1>0, <2>1, SendKeeps DEF TalkBox
  <2> QED
    BY <1>3, <2>1, <2>2 DEF TalkInv, Kept, Unvisited
<1>6. CASE Draws
  <2>1. /\ UNCHANGED <<toClients, routerHand, agentVars>>
        /\ toServer' = toServer \/ (toServer # <<>> /\ toServer' = Tail(toServer))
        /\ layer' \in {layer, layer + 1}
    BY <1>6 DEF Draws
  <2>2. /\ Void(f, B, T) /\ Lacks(after, T) => Void(g, B, T)
        /\ Void(f, B, T) /\ Few(after, T) => Single(g, B, T)
        /\ Single(f, B, T) /\ Lacks(after, T) => Single(g, B, T)
    <3>1. PICK cs, sp, t : cs = {"jobs", "toClients"} /\ sp = Speakers(l) /\ t = Turn(l)
      OBVIOUS
    <3>2. cs \in SUBSET Channels /\ sp \in SUBSET Agent /\ "jobs" \in cs
      BY <1>0, <3>1
    <3>3. LET D == Boxes(cs, sp)
              d == Contents(D, before)
              e == Contents(D, after)'
          IN  /\ Void(d, D, t) /\ Lacks(after, t) => Void(e, D, t)
              /\ Void(d, D, t) /\ Few(after, t) => Single(e, D, t)
              /\ Single(d, D, t) /\ Lacks(after, t) => Single(e, D, t)
      BY <1>0, <2>1, <3>2, DrawKeeps
    <3> QED
      BY <3>1, <3>3 DEF TalkBox
  <2>3. /\ Single(f, B, T)
        /\ Unvisited(l) => Void(f, B, T)
    BY <1>3 DEF TalkInv
  <2>5. CASE Plainly
    <3>1. after \in Seq(PlainOrders(System))
      BY <1>2, <2>5 DEF Plainly
    <3>2. Lacks(after, T)
      BY <3>1, PlainNoTurn, LastFew
    <3>4. Unvisited(l)' => Unvisited(l)
      BY <1>0, <2>1, <2>5 DEF Plainly, Preparing, Unvisited
    <3> QED
      BY <1>3, <2>2, <2>3, <3>2, <3>4
  <2>6. CASE Posed
    <3>1. PICK s \in Seq(PlainOrders(System \cup Speakers(layer))), m \in Orders :
            outbox' = s \o <<m>> /\ m.cmd \in Asking
      BY <2>6 DEF Posed
    <3>2. m \notin T
      BY <3>1, TurnFields DEF Asking, TypedRequest
    <3>3. Lacks(after, T)
      BY <1>2, <3>1, <3>2, PlainNoTurn, LastFew
    <3>4. Unvisited(l)' => Unvisited(l)
      BY <2>6 DEF Posed, Unvisited, Preparing
    <3> QED
      BY <1>3, <2>2, <2>3, <3>3, <3>4
  <2>7. CASE KickedOff
    <3>1. PICK s \in Seq(PlainOrders(Speakers(layer))), first \in LayerClients, m \in JobOrders :
            outbox' = s \o <<m>> /\ m.to = first
      BY <2>7, KickOffShape DEF IInv
    <3>2. pc = "kickoff" /\ pc' = "exchange" /\ layer' = layer
      BY <2>7 DEF KickedOff
    <3>3. Few(after, T)
      BY <1>2, <3>1, PlainNoTurn, LastFew
    <3>4. l # layer => Lacks(after, T)
      <4>1. LayerOf[m.to] = layer
        BY <3>1 DEF LayerClients
      <4>2. l # layer => m \notin T
        BY <4>1, TurnFields, JobOrdersAre
      <4> QED
        BY <1>2, <3>1, <4>2, PlainNoTurn, LastFew
    <3>5. (Unvisited(l)' => Unvisited(l) /\ l # layer) /\ Unvisited(layer)
      BY <1>0, <3>2 DEF Unvisited, Preparing
    <3> QED
      BY <1>3, <2>2, <2>3, <3>3, <3>4, <3>5
  <2> QED
    BY <1>6, <2>5, <2>6, <2>7 DEF Draws
<1> QED
  BY <1>4, <1>5, <1>6

LEMMA TalkStep ==
  ASSUME IInv, OrdersInv, TalkInv, [Next]_vars
  PROVE  TalkInv'
<1>1. CASE JobStep
  BY <1>1, TalkJob
<1>2. CASE NetNext /\ UNCHANGED jobVars
  <2> SUFFICES ASSUME NEW l \in Layer
               PROVE  /\ Single(Contents(TalkBox(l), outbox)', TalkBox(l), Turn(l))
                      /\ Unvisited(l)' =>
                           Void(Contents(TalkBox(l), outbox)', TalkBox(l), Turn(l))
    BY DEF TalkInv
  <2>1. PICK out : out = outbox
    OBVIOUS
  <2>2. UNCHANGED <<outbox, pc, layer>>
    BY <1>2 DEF jobVars
  <2>3. /\ Contents(TalkBox(l), outbox)' = Contents(TalkBox(l), out)'
        /\ Contents(TalkBox(l), outbox) = Contents(TalkBox(l), out)
    BY <2>1, <2>2, OutboxNow
  <2>4. Kept(Contents(TalkBox(l), out)', Contents(TalkBox(l), out), TalkBox(l), Turn(l))
    BY <1>2, ClosedTalk, NetKeeps DEF IInv, TypeOK, OrdersInv, TalkBox
  <2> QED
    BY <2>2, <2>3, <2>4 DEF TalkInv, Kept, Unvisited
<1>3. CASE UNCHANGED vars
  <2>1. \A l \in Layer : Contents(TalkBox(l), outbox)' = Contents(TalkBox(l), outbox)
    BY <1>3 DEF Contents, Content, Hand, vars, netVars, jobVars, queueVars, agentVars
  <2>2. UNCHANGED <<pc, layer>>
    BY <1>3 DEF vars, jobVars
  <2> QED
    BY <2>1, <2>2 DEF TalkInv, Unvisited
<1> QED
  BY <1>1, <1>2, <1>3 DEF Next

LEMMA TalkInit == Init => TalkInv
<1> SUFFICES ASSUME Init, NEW l \in Layer
             PROVE  Void(Contents(TalkBox(l), outbox), TalkBox(l), Turn(l))
  BY VoidSingle DEF TalkInv
<1>1. /\ NetInit /\ outbox = <<>>
      /\ {"jobs", "toClients"} \in SUBSET Channels /\ Speakers(l) \in SUBSET Agent
  BY DEF Init, Channels, Speakers
<1>2. Void(Contents(TalkBox(l), <<>>), TalkBox(l), Turn(l))
  BY <1>1, NothingYet DEF TalkBox
<1> QED
  BY <1>1, <1>2

LEMMA TalkPlaces ==
  ASSUME IInv, OrdersInv, NEW l \in Layer
  PROVE  Talk(l) \subseteq Places(TalkBox(l), outbox, Turn(l))
<1> DEFINE C == Boxes({"toClients"}, Speakers(l))
           M == {m \in Message : IsAgentMsg(m) /\ LayerOf[m.from] = l}
                \cup {c \in Call : ~c.typed}
<1>1. C \subseteq TalkBox(l)
  BY DEF Boxes, TalkBox
<1>2. ASSUME NEW b \in C, NEW i \in DOMAIN Content(b, outbox), Content(b, outbox)[i] \in M
      PROVE  Content(b, outbox)[i] \in Turn(l)
  <2>1. /\ {"toClients"} \in SUBSET Channels /\ Speakers(l) \in SUBSET Agent
        /\ NetTypeOK /\ Signed(JobOrders)
    BY DEF Channels, Speakers, IInv, TypeOK, OrdersInv
  <2>2. PICK out \in Seq(JobOrders) : out = outbox
    BY DEF OrdersInv
  <2>3. Content(b, out)[i] \in Speech \cup JobOrders \cup Call
    BY <2>1, <2>2, WhatIsThere
  <2>4. PICK x : x = Content(b, outbox)[i]
    OBVIOUS
  <2>5. x \in Speech \cup JobOrders \cup Call /\ x \in M
    BY <1>2, <2>2, <2>3, <2>4
  <2>6. x \in M /\ x \notin Call => x.from # Server /\ LayerOf[x.from] = l
    BY DEF IsAgentMsg
  <2>7. x \in JobOrders => x.from = Server
    BY JobOrdersAre DEF Orders
  <2> HIDE DEF M
  <2>8. x \in Turn(l)
    BY <2>5, <2>6, <2>7 DEF Turn
  <2> QED
    BY <2>4, <2>8
<1> HIDE DEF C, M
<1>3. Places(C, outbox, M) \subseteq Places(TalkBox(l), outbox, Turn(l))
  BY <1>1, <1>2, PlacesMore
<1> QED
  BY <1>3 DEF Talk, C, M

\* In every layer one kickoff starts one conversation, and it stays one: an
\* agent answers what it is told and nothing else, so however messages, the
\* resets between layers, cancellations and failures interleave, no two of a
\* layer's agents are ever at it at once, for any number of agents and layers.
THEOREM NobodyInterrupts == Spec => []OneConversation
<1>1. Init => IInv /\ OrdersInv /\ TalkInv
  BY InitTyped, OrdersInit, TalkInit
<1>2. IInv /\ OrdersInv /\ TalkInv /\ [Next]_vars => (IInv /\ OrdersInv /\ TalkInv)'
  BY NextTyped, OrdersStep, TalkStep
<1>3. IInv /\ OrdersInv /\ TalkInv => OneConversation
  BY TalkPlaces, PlacesFew DEF TalkInv, OneConversation
<1> QED
  BY <1>1, <1>2, <1>3, PTL DEF Spec

-----------------------------------------------------------------------------
(***************************************************************************)
(* Nobody is disturbed: no message follows a question to a system agent,   *)
(* nor a turn in the layer whose exchanges are being taken.                *)
(***************************************************************************)

QuietInv == Quiet(System, Question, outbox)

RoundsInv ==
  pc \in {"exchange", "words"} => Quiet(Speakers(layer), Turn(layer), outbox)

LEMMA QuestionsApart == Apart(System, Question)
<1> SUFFICES ASSUME NEW m \in Speech
             PROVE  /\ m.to \in System => m.from \in System
                    /\ m.from \in System => m \in Question
  BY DEF Apart
<1>1. m \in Message /\ m.to \notin System
  BY SpeechGoes, SystemMembers
<1> QED
  BY <1>1 DEF Question, Replies

LEMMA TurnsApart ==
  ASSUME NEW l \in Layer
  PROVE  Apart(Speakers(l), Turn(l))
<1> SUFFICES ASSUME NEW m \in Speech
             PROVE  /\ m.to \in Speakers(l) => m.from \in Speakers(l)
                    /\ m.from \in Speakers(l) => m \in Turn(l)
  BY DEF Apart
<1>1. /\ m.from \in Agent
      /\ m.to \in Agent => LayerOf[m.to] = LayerOf[m.from]
  BY SpeechGoes
<1> QED
  BY <1>1 DEF Speakers, Turn

\* When the jobs draw up orders the last question has been answered.
LEMMA DrawnAlone ==
  ASSUME IInv, OrdersInv, QuestionsInv, Draws
  PROVE  Lacks(toClients, Question) /\ \A a \in System : ~Busy(a, Question)
<1> DEFINE B == QuestionBox
           f == Contents(B, outbox)
           c == <<"toServer", Server>>
<1>1. /\ NetTypeOK /\ Call \subseteq Question /\ System \subseteq Agent
      /\ "toClients" \in Channels /\ "toServer" \in Channels \ {"toClients"}
  BY SystemMembers DEF IInv, TypeOK, Channels, Question
<1>2. \A b \in B : b # c => Lacks(f[b], Question)
  <2>1. CASE ~Posing
    BY <2>1 DEF QuestionsInv, Void
  <2>2. CASE toServer # <<>>
    <3>1. toServer \in Seq({m \in Speech : LayerOf[m.from] = 0})
      BY DEF OrdersInv, Signed
    <3>2. 1 \in DOMAIN toServer /\ toServer[1] \in {m \in Speech : LayerOf[m.from] = 0}
      BY <2>2, <3>1
    <3>3. toServer[1] \in Question
      BY <3>2, SpeechGoes DEF Question, Replies, System
    <3>4. c \in B /\ f[c] = toServer
      <4>1. c \in B
        BY <1>1, BoxMembers DEF QuestionBox
      <4> QED
        BY <4>1 DEF Contents, Content
    <3>5. ~Lacks(f[c], Question)
      BY <3>2, <3>3, <3>4 DEF Lacks
    <3> HIDE DEF B, f, c
    <3> QED
      BY <3>4, <3>5 DEF QuestionsInv, Single, B, f
  <2> QED
    BY <2>1, <2>2 DEF Draws
<1> QED
  BY <1>1, <1>2, NobodyBusy DEF QuestionBox

LEMMA QuietJob ==
  ASSUME IInv, OrdersInv, QuestionsInv, QuietInv, JobStep
  PROVE  QuietInv'
<1>1. PICK before : before = outbox
  OBVIOUS
<1>2. PICK after : after = outbox'
  OBVIOUS
<1>3. Quiet(System, Question, before)
  BY <1>1 DEF QuietInv
<1>4. SUFFICES Quiet(System, Question, after)'
  BY <1>2 DEF QuietInv, Quiet, QuietQueues, QuietAgent
<1>5. CASE SendCommand
  <2>1. /\ NetTypeOK /\ before \in Seq(Message) /\ before # <<>> /\ after = Tail(before)
        /\ toClients' = Append(toClients, Head(before))
        /\ UNCHANGED <<toAgent, fromAgent, calls>>
    BY <1>1, <1>2, <1>5 DEF SendCommand, agentVars, IInv, TypeOK
  <2> QED
    BY <1>3, <2>1, SendQuiet
<1>6. CASE Draws
  <2>1. UNCHANGED <<toClients, toAgent, fromAgent, calls>>
    BY <1>6 DEF Draws, agentVars
  <2>2. NoneAfter(after, Question, ToAny(System))
    <3>1. CASE Plainly
      <4>1. after \in Seq(PlainOrders(System))
        BY <1>2, <3>1 DEF Plainly
      <4> QED
        BY <4>1, PlainNoQuestion, LastFew, LastNone
    <3>2. CASE Posed
      <4>1. PICK s \in Seq(PlainOrders(System \cup Speakers(layer))), m \in Orders :
              outbox' = s \o <<m>>
        BY <3>2 DEF Posed
      <4>2. Lacks(s, Question)
        BY PlainNoQuestion, LastFew
      <4> QED
        BY <1>2, <4>1, <4>2, LastNone
    <3>3. CASE KickedOff
      <4>1. PICK s \in Seq(PlainOrders(Speakers(layer))), m \in JobOrders : outbox' = s \o <<m>>
        BY <3>3, KickOffShape DEF IInv
      <4>2. Lacks(s, Question)
        BY PlainNoQuestion, LastFew
      <4> QED
        BY <1>2, <4>1, <4>2, LastNone
    <3> QED
      BY <1>6, <3>1, <3>2, <3>3 DEF Draws
  <2> QED
    BY <1>3, <1>6, <2>1, <2>2, DrawnAlone, DrawQuiet
<1> QED
  BY <1>5, <1>6, JobShape DEF OrdersInv

LEMMA QuietStep ==
  ASSUME IInv, OrdersInv, QuestionsInv, QuietInv, [Next]_vars
  PROVE  QuietInv'
<1>1. CASE JobStep
  BY <1>1, QuietJob
<1>2. CASE NetNext /\ UNCHANGED jobVars
  <2>1. PICK out : out = outbox
    OBVIOUS
  <2>2. /\ UNCHANGED outbox /\ NetTypeOK /\ Signed(JobOrders)
        /\ Quiet(System, Question, out)
        /\ Single(Contents(QuestionBox, out), QuestionBox, Question)
    BY <1>2, <2>1 DEF jobVars, IInv, TypeOK, OrdersInv, QuietInv, QuestionsInv
  <2>3. Quiet(System, Question, out)'
    BY <1>2, <2>2, ClosedQuestions, QuestionsApart, NetQuiet DEF QuestionBox
  <2> QED
    BY <2>1, <2>2, <2>3 DEF QuietInv, Quiet, QuietQueues, QuietAgent
<1>3. CASE UNCHANGED vars
  BY <1>3 DEF QuietInv, Quiet, QuietQueues, QuietAgent, Busy, vars, netVars, jobVars,
     queueVars, agentVars
<1> QED
  BY <1>1, <1>2, <1>3 DEF Next

LEMMA QuietInit == Init => QuietInv /\ RoundsInv
<1> SUFFICES ASSUME Init PROVE QuietInv /\ RoundsInv
  OBVIOUS
<1>1. /\ outbox = <<>> /\ toClients = <<>> /\ pc = "layer"
      /\ \A a \in System : toAgent[a] = <<>> /\ calls[a] = <<>>
  BY SystemMembers DEF Init, NetInit
<1>2. \A P, Q : Lacks(<<>>, P) /\ NoneAfter(<<>>, P, Q)
  BY DEF Lacks, NoneAfter
<1>3. QuietQueues(System, Question, outbox)
  BY <1>1, <1>2 DEF QuietQueues
<1>4. ASSUME NEW a \in System PROVE QuietAgent(a, System, Question, outbox)
  BY <1>1, <1>2 DEF QuietAgent
<1> QED
  BY <1>1, <1>3, <1>4 DEF QuietInv, Quiet, RoundsInv

\* Whatever the jobs goroutine has queued, no message reaches a system agent
\* while it works on a question: no request of a system agent is ever
\* cancelled, so the answer the goroutine waits for without a timeout is not
\* lost to a reset of its own.
THEOREM AnswersSurvive == Spec => []NoAnswerLost
<1>1. Init => IInv /\ OrdersInv /\ QuestionsInv /\ QuietInv
  BY InitTyped, OrdersInit, QuestionsInit, QuietInit
<1>2. IInv /\ OrdersInv /\ QuestionsInv /\ QuietInv /\ [Next]_vars
        => (IInv /\ OrdersInv /\ QuestionsInv /\ QuietInv)'
  BY NextTyped, OrdersStep, QuestionsStep, QuietStep
<1>3. QuietInv => NoAnswerLost
  BY DEF QuietInv, Quiet, QuietAgent, NoAnswerLost
<1> QED
  BY <1>1, <1>2, <1>3, PTL DEF Spec

LEMMA RoundsJob ==
  ASSUME IInv, OrdersInv, TalkInv, RoundsInv, JobStep, pc' \in {"exchange", "words"},
         NEW l, l = layer'
  PROVE  Quiet(Speakers(l), Turn(l), outbox)'
<1>1. PICK before : before = outbox
  OBVIOUS
<1>2. PICK after : after = outbox'
  OBVIOUS
<1>3. l = layer'
  OBVIOUS
<1>4. SUFFICES Quiet(Speakers(l), Turn(l), after)'
  BY <1>2 DEF Quiet, QuietQueues, QuietAgent
<1>5. CASE SendCommand
  <2>1. /\ NetTypeOK /\ before \in Seq(Message) /\ before # <<>> /\ after = Tail(before)
        /\ toClients' = Append(toClients, Head(before))
        /\ UNCHANGED <<toAgent, fromAgent, calls>> /\ UNCHANGED <<pc, layer>>
    BY <1>1, <1>2, <1>5 DEF SendCommand, agentVars, IInv, TypeOK
  <2>2. Quiet(Speakers(l), Turn(l), before)
    BY <1>1, <1>3, <2>1 DEF RoundsInv
  <2> QED
    BY <2>1, <2>2, SendQuiet
<1>6. CASE Draws
  <2>1. UNCHANGED <<toClients, toAgent, fromAgent, calls>>
    BY <1>6 DEF Draws, agentVars
  <2>2. CASE KickedOff
    <3>1. l = layer /\ l \in Layer /\ pc = "kickoff" /\ NetTypeOK
      BY <1>3, <2>2 DEF KickedOff, IInv, TypeOK
    <3>2. Void(Contents(TalkBox(l), outbox), TalkBox(l), Turn(l))
      BY <3>1 DEF TalkInv, Unvisited, Preparing
    <3>3. Lacks(toClients, Turn(l)) /\ \A a \in Speakers(l) : ~Busy(a, Turn(l))
      <4>1. /\ Call \subseteq Turn(l) /\ Speakers(l) \subseteq Agent
            /\ "toClients" \in {"jobs", "toClients"} /\ "jobs" \in Channels \ {"toClients"}
        BY DEF Turn, Speakers, Channels
      <4>2. PICK T, sp, cs : T = Turn(l) /\ sp = Speakers(l) /\ cs = {"jobs", "toClients"}
        OBVIOUS
      <4>3. Void(Contents(Boxes(cs, sp), outbox), Boxes(cs, sp), T)
        BY <3>2, <4>2 DEF TalkBox
      <4>4. Lacks(toClients, T) /\ \A a \in sp : ~Busy(a, T)
        BY <3>1, <4>1, <4>2, <4>3, NobodyBusy DEF Void
      <4> QED
        BY <4>2, <4>4
    <3>4. NoneAfter(after, Turn(l), ToAny(Speakers(l)))
      <4>1. PICK s \in Seq(PlainOrders(Speakers(layer))), m \in JobOrders : outbox' = s \o <<m>>
        BY <2>2, KickOffShape DEF IInv
      <4>2. Lacks(s, Turn(l))
        BY <3>1, PlainNoTurn, LastFew
      <4> QED
        BY <1>2, <4>1, <4>2, LastNone
    <3>5. QuietQueues(Speakers(l), Turn(l), after)'
      BY <2>1, <3>3, <3>4, NobodyThere DEF QuietQueues, NoneAfter, Lacks
    <3>6. \A a \in Speakers(l) : QuietAgent(a, Speakers(l), Turn(l), after)'
      <4> SUFFICES ASSUME NEW a \in Speakers(l)
                   PROVE  QuietAgent(a, Speakers(l), Turn(l), after)'
        OBVIOUS
      <4>1. /\ ~Busy(a, Turn(l))' /\ calls'[a] = <<>> /\ Lacks(toAgent'[a], Turn(l))
        BY <2>1, <3>3 DEF Busy
      <4>2. NoneAfter(toAgent'[a], Turn(l), Message)
        BY <4>1 DEF Lacks, NoneAfter
      <4>3. \A k \in DOMAIN calls'[a] : ~calls'[a][k].cancelled
        BY <4>1
      <4> QED
        BY <4>1, <4>2, <4>3 DEF QuietAgent
    <3> QED
      BY <3>5, <3>6 DEF Quiet
  <2>3. CASE UNCHANGED <<clients, layer>> /\ pc \in {"exchange", "words"} /\ ~KickedOff
    <3>1. l = layer /\ Quiet(Speakers(l), Turn(l), before) /\ Speakers(l) \cap System = {}
      BY <1>1, <1>3, <2>3, LayerClientsAre DEF RoundsInv, IInv, TypeOK
    <3>2. ASSUME NEW m \in PlainOrders(System) PROVE m \notin ToAny(Speakers(l))
      BY <3>1 DEF PlainOrders, ToAny
    <3>3. ASSUME NEW s \in Seq(PlainOrders(System)) PROVE Lacks(s, ToAny(Speakers(l)))
      BY <3>2 DEF Lacks
    <3>4. Lacks(after, ToAny(Speakers(l)))
      <4>1. CASE Plainly
        BY <1>2, <3>3, <4>1 DEF Plainly
      <4>2. CASE Posed
        <5>1. pc' = "words"
          BY <4>2 DEF Posed
        <5>2. PICK s \in Seq(PlainOrders(System)), m \in Orders :
                m.to \in System /\ outbox' = s \o <<m>>
          BY <4>2, <5>1 DEF Posed
        <5>3. m \notin ToAny(Speakers(l))
          BY <3>1, <5>2 DEF ToAny
        <5>4. Lacks(s, ToAny(Speakers(l))) /\ s \o <<m>> = Append(s, m)
          BY <3>3
        <5> QED
          BY <1>2, <5>2, <5>3, <5>4, NoneAppended
      <4> QED
        BY <1>6, <2>3, <4>1, <4>2 DEF Draws
    <3> QED
      BY <2>1, <3>1, <3>4, DrawQuiet
  <2> QED
    BY <1>6, <2>2, <2>3 DEF Draws
<1> QED
  BY <1>5, <1>6, JobShape DEF OrdersInv

LEMMA RoundsStep ==
  ASSUME IInv, OrdersInv, TalkInv, RoundsInv, [Next]_vars
  PROVE  RoundsInv'
<1>1. CASE JobStep
  <2>1. PICK l : l = layer'
    OBVIOUS
  <2>2. pc' \in {"exchange", "words"} => Quiet(Speakers(l), Turn(l), outbox)'
    BY <1>1, <2>1, RoundsJob
  <2> QED
    BY <2>1, <2>2 DEF RoundsInv
<1>2. CASE NetNext /\ UNCHANGED jobVars
  <2>0. SUFFICES ASSUME pc \in {"exchange", "words"}
                 PROVE  Quiet(Speakers(layer), Turn(layer), outbox)'
    BY <1>2 DEF RoundsInv, jobVars
  <2>1. PICK out, l : out = outbox /\ l = layer
    OBVIOUS
  <2>2. /\ UNCHANGED <<outbox, layer>> /\ NetTypeOK /\ Signed(JobOrders) /\ l \in Layer
        /\ Quiet(Speakers(l), Turn(l), out)
        /\ Single(Contents(TalkBox(l), out), TalkBox(l), Turn(l))
    BY <1>2, <2>0, <2>1 DEF jobVars, IInv, TypeOK, OrdersInv, RoundsInv, TalkInv
  <2>3. Quiet(Speakers(l), Turn(l), out)'
    <3>1. PICK T, sp, cs : T = Turn(l) /\ sp = Speakers(l) /\ cs = {"jobs", "toClients"}
      OBVIOUS
    <3>2. Closed(cs, sp, JobOrders, T) /\ Apart(sp, T)
      BY <2>2, <3>1, ClosedTalk, TurnsApart
    <3>3. Single(Contents(Boxes(cs, sp), out), Boxes(cs, sp), T) /\ Quiet(sp, T, out)
      BY <2>2, <3>1 DEF TalkBox
    <3>4. Quiet(sp, T, out)'
      BY <1>2, <2>2, <3>2, <3>3, NetQuiet
    <3> QED
      BY <3>1, <3>4
  <2> QED
    BY <2>1, <2>2, <2>3 DEF Quiet, QuietQueues, QuietAgent
<1>3. CASE UNCHANGED vars
  BY <1>3 DEF RoundsInv, Quiet, QuietQueues, QuietAgent, Busy, vars, netVars, jobVars,
     queueVars, agentVars
<1> QED
  BY <1>1, <1>2, <1>3 DEF Next

\* While a layer's exchanges are taken none of its agents' requests is
\* cancelled: the instructions come before the kickoff and the resets after
\* the last exchange, and in between each agent hears only its peer.
THEOREM RoundsGoOn == Spec => []RoundsUndisturbed
<1>1. Init => IInv /\ OrdersInv /\ TalkInv /\ RoundsInv
  BY InitTyped, OrdersInit, TalkInit, QuietInit
<1>2. IInv /\ OrdersInv /\ TalkInv /\ RoundsInv /\ [Next]_vars
        => (IInv /\ OrdersInv /\ TalkInv /\ RoundsInv)'
  BY NextTyped, OrdersStep, TalkStep, RoundsStep
<1>3. RoundsInv => RoundsUndisturbed
  BY DEF RoundsInv, Quiet, QuietAgent, RoundsUndisturbed, Speakers
<1> QED
  BY <1>1, <1>2, <1>3, PTL DEF Spec

-----------------------------------------------------------------------------
(***************************************************************************)
(* The kickoff is heard: the unlatch is ahead of it, through every queue,  *)
(* and no latch is.                                                        *)
(***************************************************************************)

\* The agent has been taught nothing, and nothing on the way will teach it.
Untold(a, out) == instr[a] = {} /\ Nowhere(Teaching(a), out)

\* Before the turn of its layer an agent is taught nothing and latched by
\* nothing; from then on it hears its kickoff or, if it came late, may be left
\* out of the instructions.
WakeAgent(a, out) ==
  /\ Awake(a, out) \/ (MaxLate > 0 /\ a \notin System /\ Untold(a, out))
  /\ LayerOf[a] \in Layer /\ Unvisited(LayerOf[a]) =>
       Awake(a, out) /\ Unthreatened(a, out) /\ Untold(a, out)

\* When nobody comes late, the clients listed first are still those there are.
NoneMissed ==
  MaxLate = 0 =>
    /\ \A a \in Agent : alive[a] => a \in connected
    /\ pc = "kickoff" => \A a \in LayerClients : \E j \in DOMAIN clients : clients[j] = a

WakeInv == NoneMissed /\ \A a \in Agent : WakeAgent(a, outbox)

\* A sequence of all of S leaves none of it out.
LEMMA NobodyLeftOut ==
  ASSUME NEW S, IsFiniteSet(S), NEW as \in SetToSeqs(S), NEW x \in S
  PROVE  \E j \in DOMAIN as : as[j] = x
<1> SUFFICES ASSUME \A j \in DOMAIN as : as[j] # x PROVE FALSE
  OBVIOUS
<1>1. PICK c : c = Cardinality(S)
  OBVIOUS
<1>2. /\ c \in Nat /\ IsFiniteSet(1 .. c) /\ Cardinality(1 .. c) = c
  BY <1>1, FS_CardinalityType, FS_Interval
<1>3. as \in [1 .. c -> S] /\ \A i, j \in 1 .. c : i # j => as[i] # as[j]
  BY <1>1 DEF SetToSeqs
<1>4. as \in [1 .. c -> S \ {x}]
  BY <1>3
<1>5. IsFiniteSet(S \ {x}) /\ Cardinality(S \ {x}) = c - 1
  BY <1>1, FS_RemoveElement
<1>6. \E i, j \in 1 .. c : i # j /\ as[i] = as[j]
  <2>1. PICK D, T : D = 1 .. c /\ T = S \ {x}
    OBVIOUS
  <2>2. IsFiniteSet(D) /\ IsFiniteSet(T) /\ Cardinality(T) < Cardinality(D) /\ as \in [D -> T]
    <3>1. IsFiniteSet(D) /\ IsFiniteSet(T)
      BY <1>2, <1>5, <2>1, Zenon
    <3>2. PICK d, e : d = Cardinality(D) /\ e = Cardinality(T)
      OBVIOUS
    <3>3. e = c - 1 /\ d = c
      BY <1>2, <1>5, <2>1, <3>2, Zenon
    <3>4. e < d
      BY <1>2, <3>3
    <3>5. as \in [D -> T]
      BY <1>4, <2>1, Zenon
    <3> QED
      BY <3>1, <3>2, <3>4, <3>5
  <2>3. \E i, j \in D : i # j /\ as[i] = as[j]
    BY <2>2, FS_PigeonHole
  <2> QED
    BY <2>1, <2>3
<1> QED
  BY <1>3, <1>6

LEMMA InItsPlace ==
  ASSUME NEW S, NEW s \in Seq(S), NEW j \in DOMAIN s
  PROVE  s[j] \in S
OBVIOUS

\* Instructing tells everyone named to unlatch, and no one to latch.
LEMMA InstructTells ==
  ASSUME layer \in Layer, NEW as \in Seq(Agent)
  PROVE  /\ \A a : Lacks(SendCommands(as, Instruct), Latches(a))
         /\ \A j \in DOMAIN as : ~Lacks(SendCommands(as, Instruct), Unlatches(as[j]))
<1>1. ASSUME NEW j \in DOMAIN as PROVE as[j] \in Agent
  BY InItsPlace, Zenon
<1>2. /\ Instruct \in Seq(CommandOf) /\ DOMAIN Instruct = {1, 2}
      /\ Instruct[1].cmd = "AppendInstructions" /\ Instruct[2].cmd = "Unlatch"
      /\ Instruct[1].about \in SUBSET Layer /\ Instruct[2].about \in SUBSET Layer
  <2>1. Instruct \in Seq(CommandOf)
    <3>1. PlainCommands \subseteq CommandOf
      BY DEF PlainCommands
    <3> QED
      BY <3>1, PlainReset
  <2> QED
    BY <2>1 DEF Instruct, Cmd
<1>3. ASSUME NEW a PROVE Lacks(SendCommands(as, Instruct), Latches(a))
  <2> DEFINE P == {m \in Orders : m.cmd # "Latch"}
  <2>1. ASSUME NEW j \in DOMAIN as, NEW k \in DOMAIN Instruct
        PROVE  Order(as[j], Instruct[k].cmd, Instruct[k].about) \in P
    <3>1. PICK b \in Agent : b = as[j]
      BY <1>1
    <3>2. PICK cmd \in Command, about \in SUBSET Layer :
            cmd = Instruct[k].cmd /\ about = Instruct[k].about /\ cmd # "Latch"
      <4>1. k = 1 \/ k = 2
        BY <1>2
      <4> QED
        BY <1>2, <4>1 DEF Command
    <3>3. Order(b, cmd, about) \in P
      BY <3>2, OrderFields
    <3> QED
      BY <3>1, <3>2, <3>3
  <2> HIDE DEF P
  <2>2. SendCommands(as, Instruct) \in Seq(P)
    BY <1>2, <2>1, SendsOrders
  <2>3. P \cap Latches(a) = {}
    BY DEF P, Latches
  <2>4. PICK s : s = SendCommands(as, Instruct)
    OBVIOUS
  <2>5. s \in Seq(P)
    BY <2>2, <2>4
  <2>6. Lacks(s, Latches(a))
    BY <2>3, <2>5, ElementOfSeq DEF Lacks
  <2> QED
    BY <2>4, <2>6
<1>4. ASSUME NEW j \in DOMAIN as
      PROVE  ~Lacks(SendCommands(as, Instruct), Unlatches(as[j]))
  <2>1. \E i \in DOMAIN SendCommands(as, Instruct) :
          SendCommands(as, Instruct)[i] = Order(as[j], Instruct[2].cmd, Instruct[2].about)
    BY <1>2, EveryoneTold
  <2>2. Order(as[j], Instruct[2].cmd, Instruct[2].about) \in Unlatches(as[j])
    <3>1. PICK cmd \in Command, about \in SUBSET Layer :
            cmd = Instruct[2].cmd /\ about = Instruct[2].about /\ cmd = "Unlatch"
      BY <1>2 DEF Command
    <3>2. PICK b \in Agent : b = as[j]
      BY <1>1
    <3>3. Order(b, cmd, about) \in Unlatches(b)
      BY <3>1, OrderFields DEF Unlatches
    <3> QED
      BY <3>1, <3>2, <3>3
  <2> QED
    BY <2>1, <2>2 DEF Lacks
<1> QED
  BY <1>3, <1>4

\* The layer's clients are instructed and unlatched, and nobody else.
LEMMA InstructShape ==
  ASSUME layer \in Layer, clients \in Seq(Speakers(layer))
  PROVE  /\ SendCommands(clients, Instruct) \in Seq(PlainOrders(Speakers(layer)))
         /\ \A a : Lacks(SendCommands(clients, Instruct), Latches(a))
         /\ \A j \in DOMAIN clients : ~Lacks(SendCommands(clients, Instruct), Unlatches(clients[j]))
         /\ \A a : (\A j \in DOMAIN clients : clients[j] # a) =>
              Lacks(SendCommands(clients, Instruct), Teaching(a))
<1>1. Speakers(layer) \subseteq Agent /\ clients \in Seq(Agent)
  BY DEF Speakers
<1>2. SendCommands(clients, Instruct) \in Seq(PlainOrders(Speakers(layer)))
  <2>1. PICK sp, t : sp = Speakers(layer) /\ t = clients
    OBVIOUS
  <2> QED
    BY <1>1, <2>1, PlainReset, SendsPlain
<1>3. /\ \A a : Lacks(SendCommands(clients, Instruct), Latches(a))
      /\ \A j \in DOMAIN clients : ~Lacks(SendCommands(clients, Instruct), Unlatches(clients[j]))
  BY <1>1, InstructTells
<1>4. ASSUME NEW a, \A j \in DOMAIN clients : clients[j] # a
      PROVE  Lacks(SendCommands(clients, Instruct), Teaching(a))
  <2> DEFINE P == {m \in Orders : m.to # a}
  <2>1. Instruct \in Seq(CommandOf)
    <3>1. PlainCommands \subseteq CommandOf
      BY DEF PlainCommands
    <3> QED
      BY <3>1, PlainReset
  <2>2. ASSUME NEW j \in DOMAIN clients, NEW k \in DOMAIN Instruct
        PROVE  Order(clients[j], Instruct[k].cmd, Instruct[k].about) \in P
    <3>1. PICK b \in Agent : b = clients[j] /\ b # a
      BY <1>1, <1>4, ElementOfSeq
    <3>2. Instruct[k] \in CommandOf
      BY <2>1, ElementOfSeq
    <3>3. PICK cmd \in Command, about \in SUBSET Layer :
            cmd = Instruct[k].cmd /\ about = Instruct[k].about
      BY <3>2 DEF CommandOf
    <3>4. Order(b, cmd, about) \in P
      BY <3>1, OrderFields
    <3> QED
      BY <3>1, <3>3, <3>4
  <2> HIDE DEF P
  <2>3. PICK s \in Seq(P) : s = SendCommands(clients, Instruct)
    BY <1>1, <2>1, <2>2, SendsOrders
  <2>4. P \cap Teaching(a) = {}
    BY DEF P, Teaching
  <2>5. Lacks(s, Teaching(a))
    BY <2>4, ElementOfSeq DEF Lacks
  <2> QED
    BY <2>3, <2>5
<1> QED
  BY <1>2, <1>3, <1>4

\* Only two commands add to what an agent was taught.
LEMMA TaughtOnly ==
  ASSUME NetTypeOK, NEW a \in Agent, AgentRoute(a),
         Inbox(a).cmd \notin {"AppendInstructions", "SetInstructions"}
  PROVE  instr'[a] \in {instr[a], {}}
<1> USE DEF Receives
<1>0. instr \in [Agent -> SUBSET Layer]
  BY DEF NetTypeOK
<1>1. CASE OnAppendInstructions(a) \/ OnSetInstructions(a)
  BY <1>1 DEF OnAppendInstructions, OnSetInstructions
<1>2. CASE OnResetInstructions(a)
  BY <1>0, <1>2 DEF OnResetInstructions
<1>3. CASE ~(OnAppendInstructions(a) \/ OnSetInstructions(a) \/ OnResetInstructions(a))
  BY <1>3 DEF AgentRoute, OnClearMemory, OnLatch, OnUnlatch, OnSendInitialMessage,
     OnRequest, OnText
<1> QED
  BY <1>1, <1>2, <1>3

\* An agent that is told nothing learns nothing.
LEMMA NetUntold ==
  ASSUME NetTypeOK, Signed(JobOrders), NEW a \in Agent, NEW out, Untold(a, out), NetNext
  PROVE  Untold(a, out)'
<1>1. Teaching(a) \cap Speech = {}
  BY AgentAssumption DEF Teaching, Orders, Speech
<1>2. Nowhere(Teaching(a), out)'
  BY <1>1, JobOrdersAre, NetNowhere DEF Untold
<1>3. instr'[a] = {}
  <2>1. CASE AgentRoute(a)
    <3>1. toAgent[a] # <<>> /\ toAgent[a] \in Seq(To(a, JobOrders)) /\ toAgent[a] \in Seq(Message)
      BY <2>1, RouteShape DEF Routed, Signed, NetTypeOK
    <3>2. Head(toAgent[a]) \in To(a, JobOrders) /\ Head(toAgent[a]) \notin Teaching(a)
      <4>1. PICK s : s = toAgent[a]
        OBVIOUS
      <4>2. s # <<>> /\ s \in Seq(To(a, JobOrders)) /\ s \in Seq(Message) /\ Lacks(s, Teaching(a))
        BY <3>1, <4>1 DEF Untold, Nowhere
      <4>3. Head(s) \in To(a, JobOrders)
        BY <4>2
      <4>4. Head(s) \notin Teaching(a)
        BY <4>2, NoneTail
      <4> QED
        BY <4>1, <4>3, <4>4
    <3>3. Inbox(a).cmd \notin {"AppendInstructions", "SetInstructions"}
      BY <3>2, JobOrdersAre DEF To, Speech, Teaching, Inbox
    <3> QED
      BY <2>1, <3>3, TaughtOnly DEF Untold
  <2>2. CASE \E k \in DOMAIN calls[a] : CallStep(a, k)
    BY <2>2 DEF Untold, CallStep, StartTyped, SaveTyped, Retrieve, Post, Answer, GiveUp,
       CancelKills, LlmFails
  <2> QED
    BY <2>1, <2>2, LeftAlone DEF Untold
<1> QED
  BY <1>2, <1>3 DEF Untold

LEMMA SendUntold ==
  ASSUME NetTypeOK, NEW a \in Agent, NEW out \in Seq(Message), out # <<>>, Untold(a, out),
         toClients' = Append(toClients, Head(out)), UNCHANGED <<toAgent, instr>>
  PROVE  Untold(a, Tail(out))'
<1>1. PICK rest : rest = Tail(out)
  OBVIOUS
<1>2. Nowhere(Teaching(a), Tail(out))'
  BY SendNowhere DEF Untold
<1> QED
  BY <1>2 DEF Untold

LEMMA DrawUntold ==
  ASSUME NEW a \in Agent, NEW before, NEW after, Untold(a, before),
         Lacks(after, Teaching(a)), UNCHANGED <<toClients, toAgent, instr>>
  PROVE  Untold(a, after)'
  BY DEF Untold, Nowhere

LEMMA PlainNoKickoff ==
  ASSUME NEW ts, NEW s \in Seq(PlainOrders(ts)), NEW m, NEW a
  PROVE  /\ Lacks(s, Kickoffs(a))
         /\ m \notin Kickoffs(a) => Lacks(s \o <<m>>, Kickoffs(a))
         /\ a \notin ts => Lacks(s, Latches(a))
         /\ a \notin ts /\ m \notin Latches(a) => Lacks(s \o <<m>>, Latches(a))
<1>1. PlainOrders(ts) \cap Kickoffs(a) = {}
  BY DEF PlainOrders, Kickoffs
<1>2. a \notin ts => PlainOrders(ts) \cap Latches(a) = {}
  BY DEF PlainOrders, Latches
<1> QED
  BY <1>1, <1>2, LastFew

LEMMA MissedJob ==
  ASSUME IInv, OrdersInv, NoneMissed, JobStep
  PROVE  NoneMissed'
<1> SUFFICES ASSUME MaxLate = 0
             PROVE  /\ \A a \in Agent : alive'[a] => a \in connected'
                    /\ pc' = "kickoff" =>
                         \A a \in LayerClients' : \E j \in DOMAIN clients' : clients'[j] = a
  BY DEF NoneMissed
<1>1. SendCommand \/ Draws
  BY JobShape DEF OrdersInv
<1>2. CASE SendCommand
  BY <1>2 DEF SendCommand, agentVars, NoneMissed, LayerClients
<1>3. CASE Draws
  <2>1. UNCHANGED <<alive, connected>>
    BY <1>3 DEF Draws, agentVars
  <2>2. ASSUME pc' = "kickoff", NEW a \in LayerClients'
        PROVE  \E j \in DOMAIN clients' : clients'[j] = a
    <3>1. clients' \in SetToSeqs(LayerClients) /\ layer' = layer
      BY <1>3, <2>2 DEF Draws, Listed
    <3>2. a \in LayerClients
      BY <2>1, <2>2, <3>1 DEF LayerClients
    <3>3. IsFiniteSet(LayerClients)
      <4>1. LayerClients \subseteq Agent
        BY DEF LayerClients, IInv, TypeOK, NetTypeOK
      <4> QED
        BY <4>1, AgentAssumption, FS_Subset
    <3>4. PICK S, as : S = LayerClients /\ as = clients'
      OBVIOUS
    <3>5. \E j \in DOMAIN as : as[j] = a
      BY <3>1, <3>2, <3>3, <3>4, NobodyLeftOut
    <3> QED
      BY <3>4, <3>5
  <2> QED
    BY <2>1, <2>2 DEF NoneMissed
<1> QED
  BY <1>1, <1>2, <1>3

\* A kickoff of the layer: its agent is behind its unlatch or, when it was
\* not listed, untold.
LEMMA WakeKickedOff ==
  ASSUME IInv, NoneMissed, NEW a \in Agent, KickedOff, WakeAgent(a, <<>>),
         UNCHANGED <<toClients, agentVars, connected>>, NEW after, after = outbox'
  PROVE  WakeAgent(a, after)'
<1>0. NetTypeOK /\ layer \in Nat /\ layer \in Layer
  BY LayersAssumption DEF IInv, TypeOK, Layer
<1>1. PICK first \in LayerClients :
         outbox' = SendCommands(clients, Instruct) \o
                     <<Order(first, "SendInitialMessage", {layer})>>
  BY DEF KickedOff
<1>2. PICK s, m : /\ s = SendCommands(clients, Instruct)
                  /\ m = Order(first, "SendInitialMessage", {layer})
  OBVIOUS
<1>3. /\ s \in Seq(PlainOrders(Speakers(layer))) /\ after = s \o <<m>>
      /\ Lacks(s, Latches(a))
      /\ (\E j \in DOMAIN clients : clients[j] = a) => ~Lacks(s, Unlatches(a))
      /\ (\A j \in DOMAIN clients : clients[j] # a) => Lacks(s, Teaching(a))
  BY <1>0, <1>1, <1>2, InstructShape DEF KickedOff
<1>4. /\ m \in Orders /\ m.to = first /\ m.cmd = "SendInitialMessage"
      /\ first \in connected /\ LayerOf[first] = layer
  <2>1. first \in Agent /\ first \in connected /\ LayerOf[first] = layer
    BY <1>0 DEF LayerClients, NetTypeOK
  <2>2. "SendInitialMessage" \in Command /\ {layer} \in SUBSET Layer
    BY <1>0 DEF Command
  <2> QED
    BY <1>2, <2>1, <2>2, OrderFields
<1>5. after = Append(s, m) /\ UNCHANGED <<toClients, toAgent, latch, alive, connected, instr>>
  BY <1>3 DEF agentVars
<1>6. Lacks(after, Latches(a)) /\ (Lacks(s, Teaching(a)) => Lacks(after, Teaching(a)))
  <2>1. m \notin Latches(a) /\ m \notin Teaching(a)
    BY <1>4 DEF Latches, Teaching
  <2>2. \A T : m \notin T /\ Lacks(s, T) => Lacks(Append(s, m), T)
    BY <1>3, Appending
  <2> QED
    BY <1>3, <1>5, <2>1, <2>2
<1>7. /\ Lacks(after, Kickoffs(a)) /\ Awake(a, <<>>) => Awake(a, after)'
      /\ /\ Unthreatened(a, <<>>) /\ a \in connected /\ Awake(a, <<>>)
         /\ Led(after, Unlatches(a), Kickoffs(a))
         => Awake(a, after)'
  BY <1>5, <1>6, DrawAwake
<1>8. Untold(a, <<>>) /\ Lacks(s, Teaching(a)) => Untold(a, after)'
  BY <1>5, <1>6, DrawUntold
<1>9. (Unvisited(LayerOf[a])' => Unvisited(LayerOf[a]) /\ LayerOf[a] # layer) /\ Unvisited(layer)
  BY <1>0 DEF KickedOff, Unvisited, Preparing
<1>10. CASE a # first
  <2>1. m \notin Kickoffs(a)
    BY <1>4, <1>10 DEF Kickoffs
  <2>2. Lacks(after, Kickoffs(a))
    BY <1>3, <2>1, PlainNoKickoff
  <2>3. LayerOf[a] # layer => Lacks(s, Teaching(a))
    <3>1. LayerOf[a] # layer => a \notin Speakers(layer)
      BY DEF Speakers
    <3> QED
      BY <1>3, <3>1, PlainTeaching
  <2>4. LayerOf[a] = layer => Awake(a, after)'
    BY <1>0, <1>7, <1>9, <2>2 DEF WakeAgent
  <2>5. Unthreatened(a, <<>>) => Unthreatened(a, after)'
    BY <1>5, <1>6 DEF Unthreatened
  <2> QED
    BY <1>7, <1>8, <1>9, <2>2, <2>3, <2>4, <2>5 DEF WakeAgent
<1>11. CASE a = first
  <2>1. Awake(a, <<>>) /\ Unthreatened(a, <<>>) /\ Untold(a, <<>>) /\ a \in connected
    BY <1>0, <1>4, <1>9, <1>11 DEF WakeAgent
  <2>2. ~Unvisited(LayerOf[a])'
    BY <1>4, <1>9, <1>11
  <2>3. CASE \E j \in DOMAIN clients : clients[j] = a
    <3>1. Led(s, Unlatches(a), Kickoffs(a))
      BY <1>3, PlainNoKickoff, LedLacks
    <3>2. Led(after, Unlatches(a), Kickoffs(a))
      BY <1>3, <1>5, <2>3, <3>1, LedAppend
    <3> QED
      BY <1>7, <2>1, <2>2, <3>2 DEF WakeAgent
  <2>4. CASE \A j \in DOMAIN clients : clients[j] # a
    <3>1. MaxLate > 0
      BY <1>11, <2>4, BoundAssumption DEF NoneMissed, KickedOff
    <3>2. a \notin System
      BY <1>0, <1>4, <1>11, LayersAssumption DEF System, Layer
    <3> QED
      BY <1>3, <1>8, <2>1, <2>2, <2>4, <3>1, <3>2 DEF WakeAgent
  <2> QED
    BY <2>3, <2>4
<1> QED
  BY <1>10, <1>11

LEMMA WakeJob ==
  ASSUME IInv, OrdersInv, WakeInv, JobStep, NEW a \in Agent
  PROVE  WakeAgent(a, outbox)'
<1>0. NetTypeOK /\ outbox \in Seq(Message) /\ layer \in Nat /\ layer \in Layer
  BY LayersAssumption DEF IInv, TypeOK, Layer
<1>1. PICK before : before = outbox
  OBVIOUS
<1>2. PICK after : after = outbox'
  OBVIOUS
<1>3. WakeAgent(a, after)' => WakeAgent(a, outbox)'
  BY <1>2 DEF WakeAgent, Awake, Unthreatened, Untold, Nowhere
<1>4. WakeAgent(a, before)
  BY <1>1 DEF WakeInv
<1>5. SendCommand \/ Draws
  BY JobShape DEF OrdersInv
<1>6. CASE SendCommand
  <2>1. /\ before \in Seq(Message) /\ before # <<>> /\ after = Tail(before)
        /\ toClients' = Append(toClients, Head(before))
        /\ UNCHANGED <<toAgent, latch, alive, connected, instr>> /\ UNCHANGED <<pc, layer>>
    BY <1>0, <1>1, <1>2, <1>6 DEF SendCommand, agentVars
  <2>2. /\ Awake(a, before) => Awake(a, Tail(before))'
        /\ Unthreatened(a, before) => Unthreatened(a, Tail(before))'
        /\ Untold(a, before) => Untold(a, Tail(before))'
    BY <1>0, <2>1, SendAwake, SendUntold
  <2>3. PICK rest : rest = Tail(before) /\ rest = after
    BY <2>1
  <2>4. /\ Awake(a, before) => Awake(a, after)'
        /\ Unthreatened(a, before) => Unthreatened(a, after)'
        /\ Untold(a, before) => Untold(a, after)'
    BY <2>2, <2>3
  <2> QED
    BY <1>3, <1>4, <2>1, <2>4 DEF WakeAgent, Unvisited
<1>7. CASE Draws
  <2>1. /\ UNCHANGED <<toClients, toAgent, latch, alive, connected, instr>> /\ before = <<>>
        /\ UNCHANGED agentVars
        /\ layer' \in {layer, layer + 1}
    BY <1>1, <1>7 DEF Draws, agentVars
  <2>2. Lacks(after, Kickoffs(a)) /\ Awake(a, before) => Awake(a, after)'
    BY <2>1, DrawAwake
  <2>3. Unthreatened(a, before) /\ Lacks(after, Latches(a)) => Unthreatened(a, after)'
    BY <2>1 DEF Unthreatened
  <2>4. Untold(a, before) /\ Lacks(after, Teaching(a)) => Untold(a, after)'
    BY <2>1, DrawUntold
  <2>5. LayerOf[a] \in Layer => a \notin System /\ LayerOf[a] \in Nat
    BY LayersAssumption DEF System, Layer
  <2>6. CASE Plainly
    <3>1. after \in Seq(PlainOrders(System))
      BY <1>2, <2>6 DEF Plainly
    <3>2. /\ Lacks(after, Kickoffs(a))
          /\ a \notin System => Lacks(after, Latches(a)) /\ Lacks(after, Teaching(a))
      BY <3>1, PlainNoKickoff, PlainTeaching
    <3>3. LayerOf[a] \in Layer /\ Unvisited(LayerOf[a])' => Unvisited(LayerOf[a])
      BY <1>0, <2>1, <2>5, <2>6 DEF Plainly, Preparing, Unvisited
    <3> QED
      BY <1>3, <1>4, <2>2, <2>3, <2>4, <2>5, <3>2, <3>3 DEF WakeAgent
  <2>7. CASE Posed
    <3>1. PICK s \in Seq(PlainOrders(System \cup Speakers(layer))), m \in Orders :
            /\ outbox' = s \o <<m>> /\ m.cmd \in Asking
            /\ \A b \in Agent \ System : Lacks(s, Teaching(b))
      BY <2>7 DEF Posed
    <3>2. m \notin Kickoffs(a) /\ m \notin Latches(a) /\ m \notin Teaching(a)
      BY <3>1 DEF Asking, TypedRequest, Kickoffs, Latches, Teaching
    <3>3. LayerOf[a] \in Layer /\ Unvisited(LayerOf[a])' =>
            Unvisited(LayerOf[a]) /\ a \notin System \cup Speakers(layer)
      BY <1>0, <2>5, <2>7 DEF Posed, Unvisited, Speakers, Preparing
    <3>4. /\ Lacks(after, Kickoffs(a))
          /\ a \notin System \cup Speakers(layer) => Lacks(after, Latches(a))
      BY <1>2, <3>1, <3>2, PlainNoKickoff
    <3>5. a \notin System => Lacks(after, Teaching(a))
      <4>1. after = Append(s, m)
        BY <1>2, <3>1
      <4> QED
        BY <3>1, <3>2, <4>1, Appending
    <3> QED
      BY <1>3, <1>4, <2>2, <2>3, <2>4, <3>3, <3>4, <3>5 DEF WakeAgent
  <2>8. CASE KickedOff
    <3>1. WakeAgent(a, <<>>)
      BY <1>4, <2>1
    <3> QED
      BY <1>2, <1>3, <2>1, <2>8, <3>1, WakeKickedOff DEF WakeInv
  <2> QED
    BY <1>7, <2>6, <2>7, <2>8 DEF Draws
<1> QED
  BY <1>5, <1>6, <1>7

\* Where all the living are connected nobody joins.
LEMMA MissedNet ==
  ASSUME NetTypeOK, NoneMissed, NetNext, UNCHANGED jobVars
  PROVE  NoneMissed'
<1> SUFFICES ASSUME MaxLate = 0
             PROVE  /\ \A a \in Agent : alive'[a] => a \in connected'
                    /\ pc' = "kickoff" =>
                         \A a \in LayerClients' : \E j \in DOMAIN clients' : clients'[j] = a
  BY DEF NoneMissed
<1>1. \A a \in Agent : alive'[a] => a \in connected'
  BY StaysConnected DEF NoneMissed
<1>2. connected' \subseteq connected
  <2>1. ASSUME NEW b \in Agent, AgentRoute(b) PROVE UNCHANGED connected
    BY <2>1, RouteShape DEF Routed
  <2>2. ASSUME NEW b \in Agent, NEW k \in DOMAIN calls[b], CallStep(b, k)
        PROVE  UNCHANGED connected
    BY <2>2, RequestShape DEF Requested
  <2>3. ASSUME NEW b \in Agent, Join(b) \/ Listen(b) \/ Disconnect(b)
        PROVE  connected' \subseteq connected
    BY <2>3 DEF Join, Listen, Disconnect, NoneMissed
  <2>4. RouterForward \/ RouterDispatch => UNCHANGED connected
    BY DEF RouterForward, RouterDispatch
  <2> QED
    BY <2>1, <2>2, <2>3, <2>4 DEF NetNext, AgentStep
<1> QED
  BY <1>1, <1>2 DEF NoneMissed, LayerClients, jobVars

LEMMA WakeStep ==
  ASSUME IInv, OrdersInv, WakeInv, [Next]_vars
  PROVE  WakeInv'
<1>1. CASE JobStep
  BY <1>1, WakeJob, MissedJob DEF WakeInv
<1>2. CASE NetNext /\ UNCHANGED jobVars
  <2>0. NetTypeOK /\ JobOrders \in SUBSET Orders /\ Signed(JobOrders) /\ NoneMissed
    BY JobOrdersAre DEF IInv, TypeOK, OrdersInv, WakeInv
  <2>1. NoneMissed'
    BY <1>2, <2>0, MissedNet
  <2>2. ASSUME NEW a \in Agent PROVE WakeAgent(a, outbox)'
    <3>1. PICK out : out = outbox
      OBVIOUS
    <3>2. UNCHANGED <<outbox, pc, layer>> /\ WakeAgent(a, out)
      BY <1>2, <3>1 DEF jobVars, WakeInv
    <3>3. WakeAgent(a, out)' => WakeAgent(a, outbox)'
      BY <3>1, <3>2 DEF WakeAgent, Awake, Unthreatened, Untold, Nowhere
    <3>4. /\ Awake(a, out) => Awake(a, out)'
          /\ Unthreatened(a, out) => Unthreatened(a, out)'
          /\ Untold(a, out) => Untold(a, out)'
      BY <1>2, <2>0, NetAwake, NetUntold
    <3> QED
      BY <3>2, <3>3, <3>4 DEF WakeAgent, Unvisited
  <2> QED
    BY <2>1, <2>2 DEF WakeInv
<1>3. CASE UNCHANGED vars
  BY <1>3 DEF WakeInv, WakeAgent, NoneMissed, LayerClients, Awake, Unthreatened, Untold,
     Nowhere, Unvisited, vars, netVars, jobVars, queueVars, agentVars
<1> QED
  BY <1>1, <1>2, <1>3 DEF Next

LEMMA WakeInit == Init => WakeInv
<1> SUFFICES ASSUME Init PROVE WakeInv
  OBVIOUS
<1>1. NoneMissed
  <2>1. pc # "kickoff" /\ connected \subseteq Agent /\ Cardinality(Agent \ connected) <= MaxLate
    BY DEF Init, NetInit
  <2>2. ASSUME MaxLate = 0 PROVE Agent \subseteq connected
    <3>1. IsFiniteSet(Agent \ connected)
      BY AgentAssumption, FS_Subset
    <3>2. Cardinality(Agent \ connected) \in Nat
      BY <3>1, FS_CardinalityType
    <3>3. Cardinality(Agent \ connected) = 0
      BY <2>1, <2>2, <3>2
    <3> QED
      BY <3>1, <3>3, FS_EmptySet
  <2> QED
    BY <2>1, <2>2 DEF NoneMissed
<1>2. ASSUME NEW a \in Agent PROVE WakeAgent(a, outbox)
  <2>1. /\ toClients = <<>> /\ outbox = <<>> /\ instr[a] = {}
        /\ \A b \in Agent : toAgent[b] = <<>>
    BY DEF Init, NetInit
  <2>2. \A S : Lacks(<<>>, S)
    BY EmptyLacks
  <2>3. Awake(a, outbox) /\ Unthreatened(a, outbox)
    BY <2>1, <2>2, LedLacks DEF Awake, InOrder, NoneAfter, LedBy, Unthreatened, Init, NetInit
  <2>4. Untold(a, outbox)
    BY <2>1, <2>2 DEF Untold, Nowhere
  <2> QED
    BY <2>3, <2>4 DEF WakeAgent
<1> QED
  BY <1>1, <1>2 DEF WakeInv

\* The jobs unlatch an agent before they tell it to speak, and whatever the
\* queues do, it is unlatched when it is told; but for an agent that joined
\* between the two lookups of its layer's clients, whom nothing has taught
\* or ever will, and there is none such when the server waited for all.
THEOREM KickoffsAreHeard == Spec => []KickoffHeard
<1>1. Init => IInv /\ OrdersInv /\ WakeInv
  BY InitTyped, OrdersInit, WakeInit
<1>2. IInv /\ OrdersInv /\ WakeInv /\ [Next]_vars => (IInv /\ OrdersInv /\ WakeInv)'
  BY NextTyped, OrdersStep, WakeStep
<1>3. IInv /\ OrdersInv /\ WakeInv => KickoffHeard
  <2> SUFFICES ASSUME IInv, OrdersInv, WakeInv, NEW a \in Agent,
                      toAgent[a] # <<>>, Inbox(a).cmd = "SendInitialMessage", latch[a]
               PROVE  MaxLate > 0 /\ instr[a] = {}
    BY DEF KickoffHeard
  <2>1. /\ NetTypeOK /\ JobOrders \in SUBSET Orders /\ Signed(JobOrders)
        /\ WakeAgent(a, outbox)
    BY JobOrdersAre DEF IInv, TypeOK, OrdersInv, WakeInv
  <2>2. PICK out : out = outbox
    OBVIOUS
  <2>3. ~Awake(a, out)
    BY <2>1, AwakeHears
  <2> QED
    BY <2>1, <2>2, <2>3 DEF WakeAgent, Untold
<1> QED
  BY <1>1, <1>2, <1>3, PTL DEF Spec

-----------------------------------------------------------------------------
(***************************************************************************)
(* Agent A starts each layer afresh: on the way to it, through every       *)
(* queue, the resets of the last layer come before the instructions of the *)
(* next and those before its question.                                     *)
(***************************************************************************)

ToA(cmds) == {m \in Orders : m.to = SysA /\ m.cmd \in cmds}
Teaches   == ToA({"AppendInstructions"})
Wipes     == ToA({"ResetInstructions"})
Clears    == ToA({"ClearMemory"})
Enquiries == ToA(Asking)

\* Orders that nobody gives while A is (b) or is not being asked about layer
\* l, whose transcript is t.
Astray(b, l, t) ==
  ToA({"SetInstructions", "SendInitialMessage"})
  \cup {m \in Teaches   : ~(b /\ m.about = {l})}
  \cup {m \in Enquiries : ~(b /\ m.cmd = "NoCommand" /\ m.about = t)}
  \cup {m \in Orders : b /\ m.to \in System \ {SysA} /\ m.cmd \in Asking}

FalseAnswers(l, t) == {m \in Replies : ~(m.about = t /\ m.prompt = {l})}

\* A request of A is about the transcript and under the layer's instructions,
\* now or when it will be asked or posted.
SoundCall(c, l, t) ==
  /\ ~c.typed /\ c.phase \in {"spawned", "asked", "posted"}
  /\ IF c.phase = "spawned" THEN stm[SysA] = t ELSE c.about = t
  /\ IF c.phase = "posted" THEN c.prompt = {l} ELSE instr[SysA] = {l}

SoundCalls(b, l, t) ==
  \A a \in System : \A k \in DOMAIN calls[a] :
    IF b THEN a = SysA /\ SoundCall(calls[a][k], l, t) ELSE a # SysA

\* What A remembers is cleared before it is asked, what it was taught is
\* wiped before it is taught anew, and it is taught before it is asked.
Prepared(b, l, out) ==
  /\ stm[SysA] # {} => Ahead(SysA, Clears, Enquiries, out)
  /\ instr[SysA] # {} => Ahead(SysA, Wipes, Teaches, out)
  /\ \/ Ahead(SysA, Teaches, Enquiries, out)
     \/ instr[SysA] = {l} /\ Gone(SysA, Teaches \cup Wipes, out)
  /\ Sorted(SysA, Teaches, Teaches \cup Wipes, out)
  /\ b \/ stm[SysA] = {} \/ ~Gone(SysA, Clears, out)
  /\ b \/ instr[SysA] = {} \/ ~Gone(SysA, Wipes, out)

\* Only when an answer is under way A has nothing more to hear.
Truthful(b, l, t, out) ==
  b => /\ Unsaid(FalseAnswers(l, t))
       /\ Unsaid(Replies) \/ Nowhere(Mine(SysA), out)

Briefed(b, l, t, out) ==
  /\ Nowhere(Astray(b, l, t), out)
  /\ Truthful(b, l, t, out)
  /\ SoundCalls(b, l, t)
  /\ alive[SysA] => Prepared(b, l, out)
  /\ alive[SysA] => SysA \in connected \/ Nowhere(Mine(SysA), out)

\* Layer l has its specification.
Written(l) ==
  l < layer \/ (l = layer /\ pc \notin Preparing \cup {"exchange", "words", "spec"})

\* The jobs goroutine goes through a layer, having found A.
Attended == {"clients", "kickoff", "exchange", "words", "spec"}

BriefInv ==
  /\ \A b \in {pc = "spec"}, l \in {layer}, t \in {transcript[layer]}, out \in {outbox} :
       Briefed(b, l, t, out)
  /\ pc \in Attended /\ alive[SysA] => SysA \in connected
  /\ \A l \in Layer : spec[l] # NoSpec =>
       Written(l) /\ spec[l] = [about |-> transcript[l], prompt |-> {l}]

LEMMA BriefOrders ==
  /\ SysA \in System /\ SysA \in Agent
  /\ Teaches \subseteq Mine(SysA) /\ Wipes \subseteq Mine(SysA)
  /\ Clears \subseteq Mine(SysA) /\ Enquiries \subseteq Mine(SysA)
  /\ Teaches \cup Wipes \subseteq Mine(SysA)
  /\ Clears \cap Enquiries = {} /\ Wipes \cap Teaches = {} /\ Teaches \cap Enquiries = {}
  /\ Mine(SysA) \cap Speech = {} /\ Mine(SysA) \subseteq Orders
  /\ \A b, l, t : Astray(b, l, t) \cap Speech = {} /\ Astray(b, l, t) \subseteq Orders
  /\ Replies \cap Orders = {}
<1>1. SysA \in System /\ SysA \in Agent
  BY SystemMembers
<1>2. /\ Teaches \subseteq Mine(SysA) /\ Wipes \subseteq Mine(SysA)
      /\ Clears \subseteq Mine(SysA) /\ Enquiries \subseteq Mine(SysA)
      /\ Teaches \cup Wipes \subseteq Mine(SysA)
  BY DEF Teaches, Wipes, Clears, Enquiries, ToA, Mine
<1>3. Clears \cap Enquiries = {} /\ Wipes \cap Teaches = {} /\ Teaches \cap Enquiries = {}
  BY DEF Teaches, Wipes, Clears, Enquiries, ToA, Asking, TypedRequest
<1>4. Orders \cap Speech = {}
  BY AgentAssumption DEF Orders, Speech
<1>5. Mine(SysA) \subseteq Orders
  BY DEF Mine
<1>6. \A b, l, t : Astray(b, l, t) \subseteq Orders
  BY DEF Astray, Teaches, Enquiries, ToA
<1>7. Replies \cap Orders = {}
  BY AgentAssumption DEF Replies, Orders, System
<1> QED
  BY <1>1, <1>2, <1>3, <1>4, <1>5, <1>6, <1>7

\* What a system agent takes is an order of the jobs to it.
LEMMA SystemTakes ==
  ASSUME Signed(JobOrders), NEW a \in System, toAgent[a] # <<>>
  PROVE  /\ Head(toAgent[a]) \in JobOrders /\ Head(toAgent[a]) \in Orders
         /\ Head(toAgent[a]).to = a /\ Head(toAgent[a]).cmd # "SendInitialMessage"
         /\ Head(toAgent[a]).about \in SUBSET Layer
<1>1. a \in Agent /\ toAgent[a] \in Seq(To(a, JobOrders))
  BY SystemMembers DEF Signed
<1>2. PICK m : m = Head(toAgent[a])
  OBVIOUS
<1>3. m \in To(a, JobOrders)
  BY <1>1, <1>2
<1>4. m.to = a /\ m \in JobOrders
  BY <1>1, <1>3, SpeechGoes DEF To
<1>5. m.cmd # "SendInitialMessage" /\ m \in Orders /\ m \in Message
  BY <1>4, JobOrdersAre DEF JobOrders, PlainOrders, Asking, TypedRequest
<1>6. m.about \in SUBSET Layer
  BY <1>5, MessageFields
<1> QED
  BY <1>2, <1>4, <1>5, <1>6

\* While A works on a question nothing is on its way to A.
LEMMA UndisturbedA ==
  ASSUME NEW out
  PROVE  /\ Quiet(System, Question, out) /\ calls[SysA] # <<>> => Gone(SysA, Mine(SysA), out)
         /\ Quiet(System, Question, out)' /\ calls'[SysA] # <<>> => Gone(SysA, Mine(SysA), out)'
<1>1. SysA \in System /\ Mine(SysA) \subseteq ToAny(System)
  BY BriefOrders DEF Mine, ToAny, Orders
<1>2. Lacks(<<>>, Mine(SysA))
  BY EmptyLacks
<1>3. ASSUME Quiet(System, Question, out), calls[SysA] # <<>>
      PROVE  Gone(SysA, Mine(SysA), out)
  <2>1. toAgent[SysA] = <<>> /\ Lacks(toClients, ToAny(System)) /\ Lacks(out, ToAny(System))
    BY <1>1, <1>3 DEF Quiet, QuietAgent, Busy
  <2> QED
    BY <1>1, <1>2, <2>1 DEF Gone, Lacks
<1>4. ASSUME Quiet(System, Question, out)', calls'[SysA] # <<>>
      PROVE  Gone(SysA, Mine(SysA), out)'
  <2>1. /\ toAgent'[SysA] = <<>>
        /\ Lacks(toClients', ToAny(System)) /\ Lacks(out, ToAny(System))
    BY <1>1, <1>4 DEF Quiet, QuietAgent, Busy
  <2> QED
    BY <1>1, <1>2, <2>1 DEF Gone, Lacks
<1> QED
  BY <1>3, <1>4

LEMMA NowhereGone ==
  ASSUME NEW out, NEW S
  PROVE  /\ Nowhere(S, out) => Gone(SysA, S, out)
         /\ Nowhere(S, out)' => Gone(SysA, S, out)'
         /\ Signed(JobOrders) /\ S \subseteq Mine(SysA) /\ Gone(SysA, S, out) => Nowhere(S, out)
<1>1. SysA \in Agent
  BY BriefOrders
<1>2. ASSUME Signed(JobOrders), S \subseteq Mine(SysA), Gone(SysA, S, out), NEW a \in Agent
      PROVE  Lacks(toAgent[a], S)
  <2>1. CASE a = SysA
    BY <1>2, <2>1 DEF Gone
  <2>2. CASE a # SysA
    <3>1. toAgent[a] \in Seq(To(a, JobOrders))
      BY <1>2 DEF Signed
    <3>2. \A i \in DOMAIN toAgent[a] : toAgent[a][i] \in To(a, JobOrders)
      BY <3>1
    <3>3. To(a, JobOrders) \cap S = {}
      BY <1>2, <2>2 DEF To, Mine
    <3> QED
      BY <3>2, <3>3 DEF Lacks
  <2> QED
    BY <2>1, <2>2
<1> QED
  BY <1>1, <1>2 DEF Nowhere, Gone

\* With nothing on its way to A, A is prepared.
LEMMA PreparedAlone ==
  ASSUME NEW l, NEW out
  PROVE  /\ Gone(SysA, Mine(SysA), out) => Prepared(TRUE, l, out)
         /\ Gone(SysA, Mine(SysA), out)' => Prepared(TRUE, l, out)'
<1>1. \A s : Lacks(s, Mine(SysA)) =>
        /\ \A K : K \subseteq Mine(SysA) => Lacks(s, K) /\ \A U : Led(s, U, K) /\ NoneAfter(s, K, U)
  BY DEF Lacks, Led, NoneAfter
<1>2. /\ Teaches \subseteq Mine(SysA) /\ Enquiries \subseteq Mine(SysA)
      /\ Teaches \cup Wipes \subseteq Mine(SysA)
  BY BriefOrders
<1>3. ASSUME NEW s, NEW t, Lacks(s, Mine(SysA)), Lacks(t, Mine(SysA)), Lacks(out, Mine(SysA))
      PROVE  /\ LedBy(s, t, out, Clears, Enquiries) /\ LedBy(s, t, out, Wipes, Teaches)
             /\ LedBy(s, t, out, Teaches, Enquiries)
             /\ InOrder(s, t, out, Teaches, Teaches \cup Wipes)
  BY <1>1, <1>2, <1>3 DEF LedBy, InOrder
<1>4. ASSUME Gone(SysA, Mine(SysA), out) PROVE Prepared(TRUE, l, out)
  BY <1>3, <1>4 DEF Prepared, Gone, Ahead, Sorted
<1>5. ASSUME Gone(SysA, Mine(SysA), out)' PROVE Prepared(TRUE, l, out)'
  BY <1>3, <1>5 DEF Prepared, Gone, Ahead, Sorted
<1> QED
  BY <1>4, <1>5

\* The first message to A is one that A expects.
LEMMA Expected ==
  ASSUME NetTypeOK, Signed(JobOrders), NEW b \in BOOLEAN, NEW l, NEW t, NEW out,
         Nowhere(Astray(b, l, t), out), toAgent[SysA] # <<>>
  PROVE  LET m == Inbox(SysA) IN
         /\ m \in Orders /\ m.to = SysA
         /\ m.cmd \in {"AppendInstructions", "ResetInstructions", "ClearMemory",
                       "Latch", "Unlatch", "NoCommand"}
         /\ m.cmd = "AppendInstructions" => m \in Teaches /\ b /\ m.about = {l}
         /\ m.cmd = "NoCommand" => m \in Enquiries /\ b /\ m.about = t
         /\ m.cmd = "ResetInstructions" => m \in Wipes
         /\ m.cmd = "ClearMemory" => m \in Clears
<1>1. PICK m : m = Inbox(SysA)
  OBVIOUS
<1>2. m \in Orders /\ m.to = SysA /\ m.cmd # "SendInitialMessage"
  BY <1>1, SystemTakes, BriefOrders DEF Inbox
<1>3. m \notin Astray(b, l, t)
  <2>1. toAgent[SysA] \in Seq(Message) /\ Lacks(toAgent[SysA], Astray(b, l, t))
    BY BriefOrders DEF NetTypeOK, Nowhere
  <2> QED
    BY <1>1, <2>1, NoneTail DEF Inbox
<1>4. m.cmd \in Command
  BY <1>2, MessageFields DEF Orders
<1>5. m.cmd \notin TypedRequest \cup {"SetInstructions"}
  BY <1>2, <1>3 DEF Astray, Enquiries, Asking, TypedRequest, ToA
<1>6. /\ m.cmd = "AppendInstructions" => m \in Teaches /\ b /\ m.about = {l}
      /\ m.cmd = "NoCommand" => m \in Enquiries /\ b /\ m.about = t
  BY <1>2, <1>3 DEF Astray, Teaches, Enquiries, ToA, Asking
<1>7. /\ m.cmd = "ResetInstructions" => m \in Wipes
      /\ m.cmd = "ClearMemory" => m \in Clears
  BY <1>2 DEF Wipes, Clears, ToA
<1>8. m.cmd \in {"AppendInstructions", "ResetInstructions", "ClearMemory",
                 "Latch", "Unlatch", "NoCommand"}
  BY <1>2, <1>4, <1>5 DEF Command
<1> QED
  BY <1>1, <1>2, <1>6, <1>7, <1>8

LEMMA BriefRoute ==
  ASSUME NetTypeOK, Signed(JobOrders), NEW b \in BOOLEAN, NEW l, NEW t, NEW out,
         Quiet(System, Question, out), Quiet(System, Question, out)',
         Nowhere(Astray(b, l, t), out), Prepared(b, l, out), AgentRoute(SysA)
  PROVE  /\ Prepared(b, l, out)'
         /\ \A k \in DOMAIN calls'[SysA] : b /\ SoundCall(calls[SysA][k], l, t)'
<1> USE DEF queueVars
<1>0. PICK m : m = Inbox(SysA)
  OBVIOUS
<1>1. SysA \in System /\ SysA \in Agent
  BY BriefOrders
<1>2. toAgent[SysA] # <<>> /\ m = Head(toAgent[SysA])
  BY <1>0, <1>1, RouteShape DEF Routed, Inbox
<1>3. /\ m \in Orders /\ m.to = SysA
      /\ m.cmd \in {"AppendInstructions", "ResetInstructions", "ClearMemory",
                    "Latch", "Unlatch", "NoCommand"}
      /\ m.cmd = "AppendInstructions" => m \in Teaches /\ b /\ m.about = {l}
      /\ m.cmd = "NoCommand" => m \in Enquiries /\ b /\ m.about = t
      /\ m.cmd = "ResetInstructions" => m \in Wipes
      /\ m.cmd = "ClearMemory" => m \in Clears
  BY <1>0, <1>2, Expected
<1>4. calls[SysA] = <<>>
  BY <1>1, <1>2 DEF Quiet, QuietAgent
<1>5. /\ stm[SysA] # {} => Ahead(SysA, Clears, Enquiries, out)
      /\ instr[SysA] # {} => Ahead(SysA, Wipes, Teaches, out)
      /\ \/ Ahead(SysA, Teaches, Enquiries, out)
         \/ instr[SysA] = {l} /\ Gone(SysA, Teaches \cup Wipes, out)
      /\ Sorted(SysA, Teaches, Teaches \cup Wipes, out)
      /\ b \/ stm[SysA] = {} \/ ~Gone(SysA, Clears, out)
      /\ b \/ instr[SysA] = {} \/ ~Gone(SysA, Wipes, out)
  BY DEF Prepared
<1>6. /\ Sorted(SysA, Teaches, Teaches \cup Wipes, out)'
      /\ m \in Teaches => Gone(SysA, Teaches \cup Wipes, out)'
  BY <1>1, <1>2, <1>5, PathTaken
<1>7. /\ stm[SysA] # {} => m \notin Enquiries /\ (m \notin Clears => Ahead(SysA, Clears, Enquiries, out)')
      /\ instr[SysA] # {} => m \notin Teaches /\ (m \notin Wipes => Ahead(SysA, Wipes, Teaches, out)')
      /\ Ahead(SysA, Teaches, Enquiries, out) =>
           m \notin Enquiries /\ (m \notin Teaches => Ahead(SysA, Teaches, Enquiries, out)')
  BY <1>1, <1>2, <1>5, PathTaken
<1>8. /\ m \notin Clears => (Gone(SysA, Clears, out) <=> Gone(SysA, Clears, out)')
      /\ m \notin Wipes => (Gone(SysA, Wipes, out) <=> Gone(SysA, Wipes, out)')
      /\ m \notin Teaches \cup Wipes =>
           (Gone(SysA, Teaches \cup Wipes, out) <=> Gone(SysA, Teaches \cup Wipes, out)')
  <2>1. ASSUME NEW S, m \notin S PROVE Gone(SysA, S, out) <=> Gone(SysA, S, out)'
    BY <1>1, <1>2, <2>1, PathTaken
  <2> QED
    BY <2>1
<1>9. m \in Wipes => ~Gone(SysA, Teaches \cup Wipes, out)
  <2>1. toAgent[SysA] \in Seq(Message)
    BY <1>1 DEF NetTypeOK
  <2>2. Gone(SysA, Teaches \cup Wipes, out) => m \notin Teaches \cup Wipes
    BY <1>2, <2>1, NoneTail DEF Gone
  <2> QED
    BY <2>2
<1>10. /\ m.cmd # "NoCommand" => m \notin Enquiries
       /\ m.cmd # "AppendInstructions" => m \notin Teaches
       /\ m.cmd # "ResetInstructions" => m \notin Wipes
       /\ m.cmd # "ClearMemory" => m \notin Clears
  BY <1>3 DEF Enquiries, Teaches, Wipes, Clears, ToA, Asking, TypedRequest
<1>11. m.cmd # "NoCommand" => calls'[SysA] = <<>>
  BY <1>0, <1>1, <1>3, <1>4, IdleRoute DEF Asking, TypedRequest
<1>12. m.cmd # "NoCommand" =>
         \A k \in DOMAIN calls'[SysA] : b /\ SoundCall(calls[SysA][k], l, t)'
  BY <1>11
<1>13. Gone(SysA, Teaches \cup Wipes, out)' => Ahead(SysA, Wipes, Teaches, out)'
  BY LedLacks DEF Gone, Ahead, LedBy, Lacks
<1>14. CASE m.cmd = "AppendInstructions"
  <2>1. instr[SysA] = {} /\ instr'[SysA] = {l} /\ UNCHANGED stm
    BY <1>0, <1>1, <1>3, <1>7, <1>14, RouteEffects DEF TypedRequest
  <2>2. Prepared(b, l, out)'
    BY <1>3, <1>6, <1>7, <1>10, <1>13, <1>14, <2>1 DEF Prepared
  <2> QED
    BY <1>12, <1>14, <2>2
<1>15. CASE m.cmd = "ResetInstructions"
  <2>1. instr'[SysA] = {} /\ UNCHANGED stm
    BY <1>0, <1>1, <1>15, RouteEffects DEF TypedRequest
  <2>2. Prepared(b, l, out)'
    BY <1>3, <1>5, <1>6, <1>7, <1>8, <1>9, <1>10, <1>15, <2>1 DEF Prepared
  <2> QED
    BY <1>12, <1>15, <2>2
<1>16. CASE m.cmd = "ClearMemory"
  <2>1. stm'[SysA] = {} /\ UNCHANGED instr
    BY <1>0, <1>1, <1>16, RouteEffects DEF TypedRequest
  <2>2. Prepared(b, l, out)'
    BY <1>3, <1>5, <1>6, <1>7, <1>8, <1>10, <1>16, <2>1 DEF Prepared
  <2> QED
    BY <1>12, <1>16, <2>2
<1>17. CASE m.cmd \in {"Latch", "Unlatch"}
  <2>1. UNCHANGED <<stm, instr>>
    BY <1>0, <1>1, <1>17, RouteEffects DEF TypedRequest
  <2>2. Prepared(b, l, out)'
    BY <1>3, <1>5, <1>6, <1>7, <1>8, <1>10, <1>17, <2>1 DEF Prepared
  <2> QED
    BY <1>12, <1>17, <2>2
<1>18. CASE m.cmd = "NoCommand"
  <2>1. /\ stm'[SysA] = stm[SysA] \cup m.about /\ UNCHANGED instr
        /\ calls'[SysA] = Append(Cancelled(calls[SysA]), Spawned(FALSE, {}))
    BY <1>0, <1>1, <1>18, RouteEffects DEF TypedRequest
  <2>2. stm'[SysA] = t /\ instr'[SysA] = {l} /\ b
    BY <1>3, <1>5, <1>7, <1>18, <2>1
  <2>3. PICK c : c = Spawned(FALSE, {})
    OBVIOUS
  <2>4. Cancelled(<<>>) = <<>>
    BY DEF Cancelled
  <2>5. calls'[SysA] = Append(<<>>, c)
    BY <1>4, <2>1, <2>3, <2>4
  <2>10. calls'[SysA] # <<>> /\ \A k \in DOMAIN calls'[SysA] : calls'[SysA][k] = c
    BY <2>5
  <2>6. ~c.typed /\ c.phase = "spawned"
    BY <2>3 DEF Spawned
  <2>7. \A k \in DOMAIN calls'[SysA] : b /\ SoundCall(calls[SysA][k], l, t)'
    BY <2>2, <2>10, <2>6 DEF SoundCall
  <2>8. Gone(SysA, Mine(SysA), out)'
    BY <2>10, UndisturbedA
  <2>9. Prepared(TRUE, l, out)'
    BY <2>8, PreparedAlone
  <2> QED
    BY <2>2, <2>7, <2>9 DEF Prepared
<1> QED
  BY <1>3, <1>14, <1>15, <1>16, <1>17, <1>18

\* A's requests remain sound while nothing disturbs A.
LEMMA SoundStep ==
  ASSUME NetTypeOK, NEW l, NEW t, NEW j \in DOMAIN calls[SysA], CallStep(SysA, j),
         \A k \in DOMAIN calls[SysA] :
           ~calls[SysA][k].cancelled /\ SoundCall(calls[SysA][k], l, t)
  PROVE  \A k \in DOMAIN calls'[SysA] : SoundCall(calls[SysA][k], l, t)'
<1>1. PICK cs : cs = calls[SysA]
  OBVIOUS
<1>2. /\ calls \in [Agent -> Seq(Call)] /\ SysA \in Agent /\ cs \in Seq(Call)
      /\ stm \in [Agent -> SUBSET Layer] /\ instr \in [Agent -> SUBSET Layer]
  BY <1>1, BriefOrders DEF NetTypeOK
<1>3. PICK d : d = cs[j]
  OBVIOUS
<1>4. d \in Call /\ ~d.cancelled /\ SoundCall(d, l, t)
  BY <1>1, <1>2, <1>3, ElementOfSeq
<1>5. CASE Die(SysA)
  <2>1. calls'[SysA] = <<>>
    BY <1>2, <1>5 DEF Die
  <2> QED
    BY <2>1
<1>6. ASSUME NEW c, calls' = [calls EXCEPT ![SysA][j] = c], UNCHANGED <<stm, instr>>,
             SoundCall(c, l, t)
      PROVE  \A k \in DOMAIN calls'[SysA] : SoundCall(calls[SysA][k], l, t)'
  <2>1. calls'[SysA] = [cs EXCEPT ![j] = c]
    BY <1>1, <1>2, <1>6
  <2>2. ASSUME NEW k \in DOMAIN calls'[SysA] PROVE SoundCall(calls[SysA][k], l, t)'
    <3>1. k \in DOMAIN cs /\ calls'[SysA][k] = IF k = j THEN c ELSE cs[k]
      BY <1>1, <1>2, <2>1
    <3>2. SoundCall(calls'[SysA][k], l, t)
      BY <1>1, <1>6, <3>1
    <3> QED
      BY <1>6, <3>2 DEF SoundCall
  <2> QED
    BY <2>2
<1>7. CASE Retrieve(SysA, j) /\ ~Die(SysA)
  <2>1. PICK c : c = Asked(d, stm[SysA])
    OBVIOUS
  <2>2. /\ d.phase = "spawned" /\ calls' = [calls EXCEPT ![SysA][j] = c]
        /\ UNCHANGED <<stm, instr>>
    BY <1>1, <1>3, <1>4, <1>7, <2>1 DEF Retrieve, Becomes, SoundCall
  <2>3. c.phase = "asked" /\ c.about = stm[SysA] /\ c.typed = d.typed
    BY <1>4, <2>1 DEF Asked, Call
  <2>4. SoundCall(c, l, t)
    BY <1>4, <2>2, <2>3 DEF SoundCall
  <2> QED
    BY <1>6, <2>2, <2>4
<1>8. CASE StartTyped(SysA, j) \/ SaveTyped(SysA, j) \/ GiveUp(SysA, j) \/ CancelKills(SysA, j)
  BY <1>1, <1>3, <1>4, <1>8 DEF StartTyped, SaveTyped, GiveUp, CancelKills, SoundCall
<1>9. CASE Post(SysA, j)
  <2>1. PICK c : c = Posted(d, instr[SysA])
    OBVIOUS
  <2>2. /\ d.phase = "asked" /\ calls' = [calls EXCEPT ![SysA][j] = c]
        /\ UNCHANGED <<stm, instr>>
    BY <1>1, <1>3, <1>9, <2>1 DEF Post, Becomes
  <2>3. c.phase = "posted" /\ c.about = d.about /\ c.typed = d.typed /\ c.prompt = instr[SysA]
    BY <1>4, <2>1 DEF Posted, Call
  <2>4. SoundCall(c, l, t)
    BY <1>4, <2>2, <2>3 DEF SoundCall
  <2> QED
    BY <1>6, <2>2, <2>4
<1>10. CASE Answer(SysA, j)
  <2>1. /\ d.phase = "posted" /\ stm' = [stm EXCEPT ![SysA] = @ \cup d.about]
        /\ calls' = [calls EXCEPT ![SysA] = Without(@, j)] /\ UNCHANGED instr
    BY <1>1, <1>3, <1>10 DEF Answer, Quit
  <2>2. stm'[SysA] = stm[SysA] \cup t
    BY <1>2, <1>4, <2>1 DEF SoundCall
  <2>3. calls'[SysA] = Without(cs, j) /\ Len(cs) \in Nat /\ DOMAIN cs = 1 .. Len(cs)
    BY <1>1, <1>2, <2>1
  <2>4. ASSUME NEW k \in DOMAIN calls'[SysA] PROVE SoundCall(calls[SysA][k], l, t)'
    <3>1. PICK c : c = calls'[SysA][k]
      OBVIOUS
    <3>2. k \in 1 .. Len(cs) - 1
      BY <2>3, <2>4 DEF Without
    <3>3. c = IF k < j THEN cs[k] ELSE cs[k + 1]
      BY <2>3, <3>1, <3>2 DEF Without
    <3>4. k \in DOMAIN cs /\ k + 1 \in DOMAIN cs
      BY <2>3, <3>2
    <3>5. SoundCall(c, l, t)
      BY <1>1, <3>3, <3>4
    <3>6. SoundCall(c, l, t)'
      BY <2>1, <2>2, <3>5 DEF SoundCall
    <3> QED
      BY <3>1, <3>6
  <2> QED
    BY <2>4
<1>11. CASE LlmFails(SysA, j)
  BY <1>5, <1>11 DEF LlmFails
<1> QED
  BY <1>5, <1>7, <1>8, <1>9, <1>10, <1>11 DEF CallStep

LEMMA SoundKept ==
  ASSUME NetTypeOK, Signed(JobOrders), NEW b \in BOOLEAN, NEW l, NEW t, NEW out,
         Quiet(System, Question, out), Quiet(System, Question, out)',
         Nowhere(Astray(b, l, t), out), alive[SysA] => Prepared(b, l, out),
         SoundCalls(b, l, t), NetNext
  PROVE  SoundCalls(b, l, t)'
<1>0. SysA \in System /\ SysA \in Agent /\ System \subseteq Agent
  BY BriefOrders, SystemMembers
<1>1. ASSUME NEW k \in DOMAIN calls'[SysA] PROVE b /\ SoundCall(calls[SysA][k], l, t)'
  <2>1. CASE AgentRoute(SysA)
    <3>1. alive[SysA]
      BY <1>0, <2>1, RouteShape DEF Routed
    <3> QED
      BY <1>1, <2>1, <3>1, BriefRoute
  <2>2. CASE \E j \in DOMAIN calls[SysA] : CallStep(SysA, j)
    <3>1. PICK j \in DOMAIN calls[SysA] : CallStep(SysA, j)
      BY <2>2
    <3>2. \A i \in DOMAIN calls[SysA] :
            b /\ ~calls[SysA][i].cancelled /\ SoundCall(calls[SysA][i], l, t)
      BY <1>0 DEF SoundCalls, Quiet, QuietAgent
    <3> QED
      BY <1>1, <3>1, <3>2, SoundStep
  <2>3. CASE ~AgentRoute(SysA) /\ \A j \in DOMAIN calls[SysA] : ~CallStep(SysA, j)
    <3>1. /\ stm'[SysA] = stm[SysA] /\ instr'[SysA] = instr[SysA]
          /\ calls'[SysA] = calls[SysA]
      BY <1>0, <2>3, LeftAlone
    <3>2. b /\ SoundCall(calls[SysA][k], l, t)
      BY <1>0, <1>1, <3>1 DEF SoundCalls
    <3> QED
      BY <3>1, <3>2 DEF SoundCall
  <2> QED
    BY <2>1, <2>2, <2>3
<1>2. ASSUME NEW a \in System, a # SysA, b PROVE calls'[a] = <<>>
  <2>1. a \in Agent /\ calls[a] \in Seq(Call)
    BY <1>0 DEF NetTypeOK
  <2>2. calls[a] = <<>>
    <3>1. \A k \in DOMAIN calls[a] : FALSE
      BY <1>2 DEF SoundCalls
    <3>2. SUFFICES ASSUME calls[a] # <<>> PROVE FALSE
      OBVIOUS
    <3>3. PICK cs \in Seq(Call) : cs = calls[a] /\ cs # <<>>
      BY <2>1, <3>2
    <3>4. 1 \in DOMAIN cs
      BY <3>3
    <3> QED
      BY <3>1, <3>3, <3>4
  <2>3. CASE AgentRoute(a)
    <3>1. PICK m : m = Head(toAgent[a])
      OBVIOUS
    <3>2. toAgent[a] # <<>> /\ toAgent[a] \in Seq(Message)
      BY <2>1, <2>3, RouteShape DEF Routed, NetTypeOK
    <3>3. m \in Orders /\ m.to = a
      BY <3>1, <3>2, SystemTakes
    <3>4. m \notin Astray(b, l, t)
      BY <2>1, <3>1, <3>2, NoneTail DEF Nowhere
    <3>5. Inbox(a).cmd \notin Asking
      BY <1>2, <3>1, <3>3, <3>4 DEF Inbox, Astray
    <3> QED
      BY <2>1, <2>2, <2>3, <3>5, IdleRoute
  <2>4. CASE ~AgentRoute(a)
    <3>1. \A k \in DOMAIN calls[a] : ~CallStep(a, k)
      BY <2>2
    <3> QED
      BY <2>1, <2>2, <2>4, <3>1, LeftAlone
  <2> QED
    BY <2>3, <2>4
<1> QED
  BY <1>1, <1>2 DEF SoundCalls

\* While A is asked, only A answers, and only what it is asked.
LEMMA OnlyAAnswers ==
  ASSUME NetTypeOK, Signed(JobOrders), NEW l, NEW t, SoundCalls(TRUE, l, t), NetNext,
         NEW a \in Agent, NEW S, S \subseteq Replies, Lacks(fromAgent[a], S),
         ~Lacks(fromAgent'[a], S)
  PROVE  calls[SysA] # <<>> /\ ~(S \subseteq FalseAnswers(l, t))
<1>1. fromAgent[a] \in Seq(Message) /\ Lacks(<<>>, S)
  BY EmptyLacks DEF NetTypeOK
<1>2. fromAgent[a] # <<>> => Lacks(Tail(fromAgent[a]), S)
  BY <1>1, NoneTail
<1>3. ASSUME NEW m, m \notin S PROVE Lacks(Append(fromAgent[a], m), S)
  BY <1>1, <1>3, Appending
<1>4. CASE /\ toAgent[a] # <<>> /\ Inbox(a).cmd = "SendInitialMessage"
           /\ fromAgent'[a] = Append(fromAgent[a], Opening(a))
  <2>1. a \notin System
    BY <1>4, SystemTakes DEF Inbox
  <2>2. Opening(a).from = a
    BY DEF Opening, Msg
  <2>3. Opening(a) \notin S
    BY <2>1, <2>2 DEF Replies
  <2> QED
    BY <1>3, <1>4, <2>3
<1>5. ASSUME NEW k \in DOMAIN calls[a], NEW json \in BOOLEAN, Answer(a, k),
             fromAgent'[a] = Append(fromAgent[a], Reply(a, calls[a][k], json))
      PROVE  calls[SysA] # <<>> /\ ~(S \subseteq FalseAnswers(l, t))
  <2>1. PICK m : m = Reply(a, calls[a][k], json)
    OBVIOUS
  <2>2. m \in S
    BY <1>3, <1>5, <2>1
  <2>3. m.from = a /\ m.about = calls[a][k].about /\ m.prompt = calls[a][k].prompt
    BY <2>1 DEF Reply, Msg
  <2>4. a \in System
    BY <2>2, <2>3 DEF Replies
  <2>5. a = SysA /\ SoundCall(calls[a][k], l, t) /\ calls[a][k].phase = "posted"
    BY <1>5, <2>4 DEF SoundCalls, Answer
  <2>6. m.about = t /\ m.prompt = {l}
    BY <2>3, <2>5 DEF SoundCall
  <2>7. m \notin FalseAnswers(l, t)
    BY <2>6 DEF FalseAnswers
  <2> QED
    BY <1>5, <2>2, <2>5, <2>7
<1> QED
  BY <1>1, <1>2, <1>4, <1>5, WhatIsSaid

LEMMA TruthKept ==
  ASSUME NetTypeOK, Signed(JobOrders), NEW b \in BOOLEAN, NEW l, NEW t, NEW out,
         Quiet(System, Question, out), SoundCalls(b, l, t), Truthful(b, l, t, out), NetNext
  PROVE  Truthful(b, l, t, out)'
<1> SUFFICES ASSUME b PROVE Truthful(b, l, t, out)'
  BY DEF Truthful
<1>1. /\ Unsaid(FalseAnswers(l, t)) /\ (Unsaid(Replies) \/ Nowhere(Mine(SysA), out))
      /\ SoundCalls(TRUE, l, t)
  BY DEF Truthful, SoundCalls
<1>2. FalseAnswers(l, t) \subseteq Replies
  BY DEF FalseAnswers
<1>3. Unsaid(FalseAnswers(l, t))'
  <2>1. ASSUME NEW a \in Agent PROVE Lacks(fromAgent'[a], FalseAnswers(l, t))
    <3>1. Lacks(fromAgent[a], FalseAnswers(l, t))
      BY <1>1 DEF Unsaid
    <3> QED
      BY <1>1, <1>2, <3>1, OnlyAAnswers
  <2>2. PICK S : S = FalseAnswers(l, t)
    OBVIOUS
  <2>3. Unsaid(S)'
    BY <1>1, <2>1, <2>2, NetUnsaid
  <2> QED
    BY <2>2, <2>3
<1>4. JobOrders \in SUBSET Orders /\ Mine(SysA) \cap Speech = {}
  BY JobOrdersAre, BriefOrders
<1>5. Nowhere(Mine(SysA), out) => Nowhere(Mine(SysA), out)'
  BY <1>4, NetNowhere
<1>6. Unsaid(Replies)' \/ Nowhere(Mine(SysA), out)'
  <2>1. CASE \A a \in Agent : Lacks(fromAgent'[a], Replies)
    BY <1>1, <1>5, <2>1, NetUnsaid
  <2>2. ASSUME NEW a \in Agent, ~Lacks(fromAgent'[a], Replies), Unsaid(Replies)
        PROVE  Nowhere(Mine(SysA), out)'
    <3>1. Lacks(fromAgent[a], Replies)
      BY <2>2 DEF Unsaid
    <3>3. calls[SysA] # <<>>
      BY <1>1, <2>2, <3>1, OnlyAAnswers
    <3>4. Nowhere(Mine(SysA), out)
      BY <3>3, UndisturbedA, NowhereGone
    <3> QED
      BY <1>5, <3>4
  <2> QED
    BY <1>1, <1>5, <2>1, <2>2
<1> QED
  BY <1>3, <1>6 DEF Truthful

\* What A has been told is kept in order while A leaves it alone.
LEMMA PreparedKept ==
  ASSUME NetTypeOK, Signed(JobOrders), NEW b \in BOOLEAN, NEW l, NEW t, NEW out,
         Quiet(System, Question, out), alive'[SysA], alive[SysA] => Prepared(b, l, out),
         (alive[SysA] => SysA \in connected) \/ Nowhere(Mine(SysA), out),
         SoundCalls(b, l, t), NetNext, ~AgentRoute(SysA)
  PROVE  Prepared(b, l, out)'
<1>0. SysA \in System /\ SysA \in Agent /\ JobOrders \in SUBSET Orders
  BY BriefOrders, JobOrdersAre
<1>1. (alive[SysA] => SysA \in connected) \/ Lacks(toClients, Mine(SysA))
  BY DEF Nowhere
<1>2. alive[SysA]
  BY <1>0, StaysConnected
<1>3. CASE calls[SysA] = <<>>
  <2>1. /\ stm'[SysA] = stm[SysA] /\ instr'[SysA] = instr[SysA]
    BY <1>0, <1>3, LeftAlone
  <2>2. /\ Teaches \subseteq Mine(SysA) /\ Wipes \subseteq Mine(SysA)
        /\ Clears \subseteq Mine(SysA) /\ Enquiries \subseteq Mine(SysA)
        /\ Teaches \cup Wipes \subseteq Mine(SysA)
        /\ Clears \cap Enquiries = {} /\ Wipes \cap Teaches = {} /\ Teaches \cap Enquiries = {}
    BY BriefOrders
  <2>3. /\ Ahead(SysA, Clears, Enquiries, out) => Ahead(SysA, Clears, Enquiries, out)'
        /\ Ahead(SysA, Wipes, Teaches, out) => Ahead(SysA, Wipes, Teaches, out)'
        /\ Ahead(SysA, Teaches, Enquiries, out) => Ahead(SysA, Teaches, Enquiries, out)'
    BY <1>0, <1>1, <2>2, AheadKept
  <2>4. /\ Sorted(SysA, Teaches, Teaches \cup Wipes, out) =>
             Sorted(SysA, Teaches, Teaches \cup Wipes, out)'
        /\ Gone(SysA, Clears, out) <=> Gone(SysA, Clears, out)'
        /\ Gone(SysA, Wipes, out) <=> Gone(SysA, Wipes, out)'
        /\ Gone(SysA, Teaches \cup Wipes, out) <=> Gone(SysA, Teaches \cup Wipes, out)'
    <3>1. ASSUME NEW L, NEW K, L \subseteq Mine(SysA), K \subseteq Mine(SysA)
          PROVE  /\ Sorted(SysA, L, K, out) => Sorted(SysA, L, K, out)'
                 /\ Gone(SysA, L, out) <=> Gone(SysA, L, out)'
      BY <1>0, <1>1, <3>1, PathKept
    <3> QED
      BY <2>2, <3>1
  <2> QED
    BY <1>2, <2>1, <2>3, <2>4 DEF Prepared
<1>4. CASE calls[SysA] # <<>>
  <2>1. Gone(SysA, Mine(SysA), out)
    BY <1>4, UndisturbedA
  <2>2. Gone(SysA, Mine(SysA), out)'
    <3>1. Nowhere(Mine(SysA), out)
      BY <2>1, NowhereGone
    <3>2. Nowhere(Mine(SysA), out)'
      BY <1>0, <3>1, BriefOrders, NetNowhere
    <3> QED
      BY <3>2, NowhereGone
  <2>3. b
    <3>1. calls[SysA] \in Seq(Call)
      BY <1>0 DEF NetTypeOK
    <3>2. PICK cs \in Seq(Call) : cs = calls[SysA] /\ cs # <<>>
      BY <1>4, <3>1
    <3>3. 1 \in DOMAIN cs
      BY <3>2
    <3> QED
      BY <1>0, <3>2, <3>3 DEF SoundCalls
  <2>4. Prepared(TRUE, l, out)'
    BY <2>2, PreparedAlone
  <2> QED
    BY <2>3, <2>4 DEF Prepared
<1> QED
  BY <1>3, <1>4

LEMMA NetBriefed ==
  ASSUME NetTypeOK, Signed(JobOrders), NEW b \in BOOLEAN, NEW l, NEW t, NEW out,
         Quiet(System, Question, out), Quiet(System, Question, out)',
         Briefed(b, l, t, out), NetNext
  PROVE  Briefed(b, l, t, out)'
<1>0. SysA \in System /\ SysA \in Agent /\ JobOrders \in SUBSET Orders
  BY BriefOrders, JobOrdersAre
<1>1. /\ Nowhere(Astray(b, l, t), out) /\ Truthful(b, l, t, out) /\ SoundCalls(b, l, t)
      /\ alive[SysA] => Prepared(b, l, out)
      /\ alive[SysA] => SysA \in connected \/ Nowhere(Mine(SysA), out)
  BY DEF Briefed
<1>2. Nowhere(Astray(b, l, t), out)'
  <2>1. PICK S : S = Astray(b, l, t)
    OBVIOUS
  <2>2. S \cap Speech = {}
    BY <2>1, BriefOrders
  <2>3. Nowhere(S, out)'
    BY <1>0, <1>1, <2>1, <2>2, NetNowhere
  <2> QED
    BY <2>1, <2>3
<1>3. Truthful(b, l, t, out)'
  BY <1>1, TruthKept
<1>4. SoundCalls(b, l, t)'
  BY <1>1, SoundKept
<1>5. alive'[SysA] => Prepared(b, l, out)'
  <2>1. CASE AgentRoute(SysA)
    <3>1. alive[SysA]
      BY <1>0, <2>1, RouteShape DEF Routed
    <3> QED
      BY <1>1, <2>1, <3>1, BriefRoute
  <2>2. CASE ~AgentRoute(SysA)
    BY <1>1, <2>2, PreparedKept
  <2> QED
    BY <2>1, <2>2
<1>6. alive'[SysA] => SysA \in connected' \/ Nowhere(Mine(SysA), out)'
  BY <1>0, <1>1, StaysConnected, NetNowhere, BriefOrders
<1> QED
  BY <1>2, <1>3, <1>4, <1>5, <1>6 DEF Briefed

-----------------------------------------------------------------------------
(* What the jobs send to A, and when.                                      *)

Others == {m \in Orders : m.to # SysA}

\* The jobs ask A about the transcript, behind the resets of the clients.
AsksA ==
  /\ pc \in {"exchange", "words"} /\ pc' = "spec" /\ UNCHANGED <<layer, spec>>
  /\ \E pre \in Seq(Others) :
       /\ \A i \in DOMAIN pre : pre[i].cmd \notin Asking
       /\ outbox' = pre \o <<Order(SysA, "AppendInstructions", {layer}),
                             Order(SysA, "Unlatch", {}),
                             Order(SysA, "NoCommand", transcript'[layer])>>

\* They take A's answer and reset it.
ResetsA ==
  /\ pc = "spec" /\ pc' # "spec"
  /\ spec' = [spec EXCEPT ![layer] =
                [about |-> Head(toServer).about, prompt |-> Head(toServer).prompt]]
  /\ outbox' = <<Order(SysA, "Latch", {}), Order(SysA, "ClearMemory", {}),
                 Order(SysA, "ResetInstructions", {})>>

\* They have nothing to say to A.
LeavesA ==
  /\ pc # "spec" /\ pc' # "spec" /\ UNCHANGED spec
  /\ Lacks(outbox', Mine(SysA))

\* What is written stays; a layer is gone through when A is there.
WritesOn ==
  /\ \A l \in Layer : Written(l) \/ (pc = "spec" /\ l = layer) =>
       Written(l)' /\ transcript'[l] = transcript[l]
  /\ pc' \in Attended => SysA \in connected \/ pc \in Attended \ {"spec"}

LEMMA Distinct == SysA # SysB /\ SysA # SysC
<1>1. ASSUME NEW x, NEW y PROVE Cardinality({x, y}) # 3
  <2>1. IsFiniteSet({y}) /\ Cardinality({y}) = 1
    BY FS_Singleton
  <2>2. Cardinality({y} \cup {x}) \in {1, 2}
    BY <2>1, FS_AddElement
  <2>3. {y} \cup {x} = {x, y}
    OBVIOUS
  <2> QED
    BY <2>2, <2>3
<1>2. SysA = SysB => {SysA, SysB, SysC} = {SysA, SysC}
  OBVIOUS
<1>3. SysA = SysC => {SysA, SysB, SysC} = {SysA, SysB}
  OBVIOUS
<1> QED
  BY <1>1, <1>2, <1>3, JobsAssumption

\* Three commands to one agent are three orders.
LEMMA ThreeOrders ==
  ASSUME NEW a \in Agent, NEW c1 \in CommandOf, NEW c2 \in CommandOf, NEW c3 \in CommandOf
  PROVE  SendCommands(<<a>>, <<c1, c2, c3>>) =
           <<Order(a, c1.cmd, c1.about), Order(a, c2.cmd, c2.about), Order(a, c3.cmd, c3.about)>>
<1>1. PICK cs : cs = <<c1, c2, c3>>
  OBVIOUS
<1>2. cs \in Seq(CommandOf) /\ Len(cs) = 3 /\ cs[1] = c1 /\ cs[2] = c2 /\ cs[3] = c3
  BY <1>1
<1> DEFINE order(i) == Order(a, cs[i].cmd, cs[i].about)
<1>3. SendCommands(<<a>>, cs) = [i \in 1 .. 3 |-> order(i)]
  BY <1>2, SendsToOne
<1>4. /\ order(1) = Order(a, c1.cmd, c1.about) /\ order(2) = Order(a, c2.cmd, c2.about)
      /\ order(3) = Order(a, c3.cmd, c3.about)
  BY <1>2
<1> HIDE DEF order
<1>5. [i \in 1 .. 3 |-> order(i)] = <<order(1), order(2), order(3)>>
  OBVIOUS
<1> QED
  BY <1>1, <1>3, <1>4, <1>5

LEMMA Triple ==
  ASSUME NEW a, NEW b, NEW c
  PROVE  <<a, b>> \o <<c>> = <<a, b, c>>
<1>1. PICK s, t, u : s = <<a, b>> /\ t = <<c>> /\ u = s \o t
  OBVIOUS
<1>2. /\ s \in Seq({a, b, c}) /\ t \in Seq({a, b, c}) /\ Len(s) = 2 /\ Len(t) = 1
      /\ s[1] = a /\ s[2] = b /\ t[1] = c
  BY <1>1
<1>3. u \in Seq({a, b, c}) /\ Len(u) = 3
  BY <1>1, <1>2
<1>4. u[1] = a /\ u[2] = b /\ u[3] = c
  BY <1>1, <1>2
<1>5. u = [i \in 1 .. 3 |-> u[i]]
  BY <1>3
<1>6. [i \in 1 .. 3 |-> u[i]] = <<a, b, c>>
  BY <1>4
<1> QED
  BY <1>1, <1>5, <1>6

\* Three orders behind others.
LEMMA LastThree ==
  ASSUME NEW S, NEW p \in Seq(S), NEW a, NEW b, NEW c, NEW u, u = p \o <<a, b, c>>,
         NEW n, n = Len(p)
  PROVE  /\ n \in Nat /\ DOMAIN u = 1 .. n + 3
         /\ u[n + 1] = a /\ u[n + 2] = b /\ u[n + 3] = c
         /\ \A i \in 1 .. n : u[i] = p[i] /\ i \in DOMAIN p
<1>1. PICK t : t = <<a, b, c>>
  OBVIOUS
<1>2. t \in Seq({a, b, c}) /\ Len(t) = 3 /\ t[1] = a /\ t[2] = b /\ t[3] = c
  BY <1>1
<1>3. p \in Seq(S \cup {a, b, c}) /\ t \in Seq(S \cup {a, b, c})
  BY <1>2
<1> QED
  BY <1>1, <1>2, <1>3

\* Commands to others are orders to others.
LEMMA SendsElsewhere ==
  ASSUME NEW ts, ts \subseteq Agent, SysA \notin ts, NEW rs, rs \in Seq(ts),
         NEW commands, commands \in Seq(CommandOf)
  PROVE  /\ SendCommands(rs, commands) \in Seq(Others)
         /\ Lacks(SendCommands(rs, commands), Mine(SysA))
<1>1. rs \in Seq(Agent)
  OBVIOUS
<1>2. ASSUME NEW j \in DOMAIN rs, NEW k \in DOMAIN commands
      PROVE  Order(rs[j], commands[k].cmd, commands[k].about) \in Others
  <2>0. rs[j] \in ts
    BY ElementOfSeq
  <2>1. commands[k] \in CommandOf
    BY ElementOfSeq
  <2>2. commands[k].cmd \in Command /\ commands[k].about \in SUBSET Layer
    BY <2>1 DEF CommandOf
  <2>3. rs[j] \in Agent /\ rs[j] # SysA
    BY <2>0
  <2> QED
    BY <2>2, <2>3, OrderFields DEF Others
<1>3. SendCommands(rs, commands) \in Seq(Others)
  BY <1>1, <1>2, SendsOrders
<1>4. \A s \in Seq(Others) : Lacks(s, Mine(SysA))
  BY ElementOfSeq DEF Lacks, Others, Mine
<1> QED
  BY <1>3, <1>4

\* The two sequences of orders to A.
LEMMA OrdersToA ==
  ASSUME layer \in Layer, NEW t \in SUBSET Layer
  PROVE  /\ SendCommands(<<SysA>>, Instruct \o <<Cmd("NoCommand", t)>>) =
              <<Order(SysA, "AppendInstructions", {layer}), Order(SysA, "Unlatch", {}),
                Order(SysA, "NoCommand", t)>>
         /\ SendCommands(<<SysA>>, Reset) =
              <<Order(SysA, "Latch", {}), Order(SysA, "ClearMemory", {}),
                Order(SysA, "ResetInstructions", {})>>
<1>1. SysA \in Agent
  BY BriefOrders
<1>2. PICK c1, c2, c3 : /\ c1 = Cmd("AppendInstructions", {layer}) /\ c2 = Cmd("Unlatch", {})
                        /\ c3 = Cmd("NoCommand", t)
  OBVIOUS
<1>3. /\ c1 \in CommandOf /\ c2 \in CommandOf /\ c3 \in CommandOf
      /\ c1.cmd = "AppendInstructions" /\ c1.about = {layer}
      /\ c2.cmd = "Unlatch" /\ c2.about = {} /\ c3.cmd = "NoCommand" /\ c3.about = t
  BY <1>2, CmdType DEF Cmd, Command
<1>4. SendCommands(<<SysA>>, <<c1, c2, c3>>) =
        <<Order(SysA, "AppendInstructions", {layer}), Order(SysA, "Unlatch", {}),
          Order(SysA, "NoCommand", t)>>
  <2>1. SendCommands(<<SysA>>, <<c1, c2, c3>>) =
          <<Order(SysA, c1.cmd, c1.about), Order(SysA, c2.cmd, c2.about),
            Order(SysA, c3.cmd, c3.about)>>
    BY <1>1, <1>3, ThreeOrders
  <2> QED
    BY <1>3, <2>1
<1>5. Instruct \o <<c3>> = <<c1, c2, c3>>
  BY <1>2, Triple DEF Instruct
<1>6. PICK d1, d2, d3 : /\ d1 = Cmd("Latch", {}) /\ d2 = Cmd("ClearMemory", {})
                        /\ d3 = Cmd("ResetInstructions", {})
  OBVIOUS
<1>7. /\ d1 \in CommandOf /\ d2 \in CommandOf /\ d3 \in CommandOf
      /\ d1.cmd = "Latch" /\ d1.about = {} /\ d2.cmd = "ClearMemory" /\ d2.about = {}
      /\ d3.cmd = "ResetInstructions" /\ d3.about = {}
  BY <1>6, CmdType DEF Cmd, Command
<1>8. SendCommands(<<SysA>>, <<d1, d2, d3>>) =
        <<Order(SysA, "Latch", {}), Order(SysA, "ClearMemory", {}),
          Order(SysA, "ResetInstructions", {})>>
  <2>1. SendCommands(<<SysA>>, <<d1, d2, d3>>) =
          <<Order(SysA, d1.cmd, d1.about), Order(SysA, d2.cmd, d2.about),
            Order(SysA, d3.cmd, d3.about)>>
    BY <1>1, <1>7, ThreeOrders
  <2> QED
    BY <1>7, <2>1
<1> QED
  BY <1>2, <1>4, <1>5, <1>6, <1>8 DEF Reset

\* The orders that follow an exchange.
LEMMA AfterExchangeBriefs ==
  ASSUME TypeOK, ClientsInv, pc \in {"exchange", "words"}, UNCHANGED <<layer, spec>>,
         transcript'[layer] \in SUBSET Layer,
         NEW before \in Seq(Others), Lacks(before, Mine(SysA)),
         \A i \in DOMAIN before : before[i].cmd \notin Asking,
         AfterExchange(before)
  PROVE  AsksA \/ LeavesA
<1>1. CASE pc' = "exchange" /\ outbox' = before
  BY <1>1 DEF LeavesA
<1>2. CASE pc' = "spec" /\ outbox' = before \o RequestSpec
  <2>1. PICK t \in SUBSET Layer : t = transcript'[layer]
    OBVIOUS
  <2>2. PICK sc, three : /\ sc = SendCommands(clients, Reset)
                         /\ three = <<Order(SysA, "AppendInstructions", {layer}),
                                      Order(SysA, "Unlatch", {}), Order(SysA, "NoCommand", t)>>
    OBVIOUS
  <2>3. outbox' = before \o (sc \o three)
    <3>1. layer \in Layer
      BY DEF TypeOK
    <3> QED
      BY <1>2, <2>1, <2>2, <3>1, OrdersToA DEF RequestSpec
  <2>4. sc \in Seq(Others) /\ \A i \in DOMAIN sc : sc[i].cmd \notin Asking
    <3>1. PICK sp, as : sp = Speakers(layer) /\ as = clients
      OBVIOUS
    <3>2. SysA \notin sp /\ sp \subseteq Agent
      BY <3>1, JobsAssumption, LayersAssumption DEF Speakers, TypeOK, Layer
    <3>3. as \in Seq(sp)
      BY <3>1 DEF ClientsInv
    <3>4. Reset \in Seq(PlainCommands) /\ Reset \in Seq(CommandOf)
      <4>1. PlainCommands \subseteq CommandOf
        BY DEF PlainCommands
      <4> QED
        BY <4>1, PlainReset
    <3>5. sc \in Seq(Others)
      BY <2>2, <3>1, <3>2, <3>3, <3>4, SendsElsewhere
    <3>6. sc \in Seq(PlainOrders(sp))
      BY <2>2, <3>1, <3>2, <3>3, <3>4, SendsPlain
    <3>7. \A i \in DOMAIN sc : sc[i] \in PlainOrders(sp)
      BY <3>6
    <3> QED
      BY <3>5, <3>7 DEF PlainOrders
  <2>5. PICK o1, o2, o3 : /\ o1 = Order(SysA, "AppendInstructions", {layer})
                          /\ o2 = Order(SysA, "Unlatch", {}) /\ o3 = Order(SysA, "NoCommand", t)
    OBVIOUS
  <2>6. three \in Seq(Orders)
    <3>1. /\ SysA \in Agent /\ {layer} \in SUBSET Layer /\ {} \in SUBSET Layer
          /\ "AppendInstructions" \in Command /\ "Unlatch" \in Command /\ "NoCommand" \in Command
      BY BriefOrders DEF TypeOK, Command
    <3>2. o1 \in Orders /\ o2 \in Orders /\ o3 \in Orders
      BY <2>5, <3>1, OrderFields
    <3> QED
      BY <2>2, <2>5, <3>2
  <2>7. before \o (sc \o three) = (before \o sc) \o three
    <3>1. Others \subseteq Orders
      BY DEF Others
    <3>2. before \in Seq(Orders) /\ sc \in Seq(Orders)
      BY <2>4, <3>1
    <3> QED
      BY <2>6, <3>2, ConcatAssociative
  <2>8. PICK pre : pre = before \o sc
    OBVIOUS
  <2>9. pre \in Seq(Others) /\ \A i \in DOMAIN pre : pre[i].cmd \notin Asking
    <3>1. PICK n, k : n = Len(before) /\ k = Len(sc)
      OBVIOUS
    <3>2. /\ n \in Nat /\ k \in Nat /\ pre \in Seq(Others) /\ DOMAIN pre = 1 .. n + k
          /\ \A i \in 1 .. n + k : pre[i] = IF i <= n THEN before[i] ELSE sc[i - n]
          /\ DOMAIN before = 1 .. n /\ DOMAIN sc = 1 .. k
      BY <2>4, <2>8, <3>1
    <3>3. ASSUME NEW i \in 1 .. n + k PROVE pre[i].cmd \notin Asking
      <4>1. CASE i <= n
        BY <3>2, <4>1
      <4>2. CASE ~(i <= n)
        <5>1. pre[i] = sc[i - n] /\ i - n \in DOMAIN sc
          BY <3>2, <4>2
        <5> QED
          BY <2>4, <5>1
      <4> QED
        BY <4>1, <4>2
    <3> QED
      BY <3>2, <3>3
  <2> QED
    BY <1>2, <2>1, <2>2, <2>3, <2>7, <2>8, <2>9 DEF AsksA
<1> QED
  BY <1>1, <1>2 DEF AfterExchange

LEMMA WritesShape ==
  ASSUME IInv, JobStep, ~SendCommand
  PROVE  WritesOn
<1>1. layer \in Layer /\ transcript \in [Layer -> SUBSET Layer] /\ \A l \in Layer : l \in Int
  BY DEF IInv, TypeOK, Layer
<1>2. ASSUME UNCHANGED <<layer, transcript>>, pc # "spec",
             pc \in Preparing \cup {"exchange", "words"} \/
               pc' \notin Preparing \cup {"exchange", "words", "spec"},
             pc' \in Attended => SysA \in connected \/ pc \in Attended \ {"spec"}
      PROVE  WritesOn
  BY <1>2 DEF WritesOn, Written
<1>3. NextLayer => layer' \in {layer, layer + 1} /\ pc' \in {"layer", "done"}
                   /\ (pc' = "layer" => layer' = layer + 1)
  BY DEF NextLayer
<1>4. CASE FindSystemAgent \/ ListClients \/ StartLayer
  <2>1. /\ UNCHANGED <<layer, transcript>> /\ pc \in Preparing
        /\ pc' \in Attended => SysA \in connected \/ pc \in Attended \ {"spec"}
    BY <1>4 DEF FindSystemAgent, ListClients, StartLayer, Stop, Waiting, Preparing, Attended
  <2> QED
    BY <1>2, <2>1 DEF Preparing
<1>5. CASE TakeExchange
  <2>1. /\ pc = "exchange" /\ layer' = layer
        /\ \A l \in Layer : l # layer => transcript'[l] = transcript[l]
    BY <1>1, <1>5 DEF TakeExchange, Waiting
  <2> QED
    BY <1>1, <2>1 DEF WritesOn, Written, Attended
<1>6. CASE TakeWords
  BY <1>2, <1>6 DEF TakeWords, TakesAnswer, Waiting, Attended
<1>7. ASSUME pc \notin Preparing \cup {"exchange", "words"}, UNCHANGED transcript,
             \/ layer' = layer /\ pc' \notin Preparing \cup {"exchange", "words", "spec"}
             \/ NextLayer
      PROVE  WritesOn
  <2>1. pc' \notin Attended
    BY <1>3, <1>7 DEF Attended, Preparing
  <2>2. ASSUME NEW l \in Layer, Written(l) \/ l = layer PROVE Written(l)'
    BY <1>1, <1>3, <1>7, <2>2 DEF Written, Preparing
  <2> QED
    BY <1>7, <2>1, <2>2 DEF WritesOn
<1>8. CASE TakeSpec
  BY <1>7, <1>8 DEF TakeSpec, TakesAnswer, Waiting, Preparing
<1>9. CASE StartUpdate
  BY <1>2, <1>9 DEF StartUpdate, Stop, Waiting, Preparing, Attended
<1>10. CASE TakeUpdates
  BY <1>7, <1>10 DEF TakeUpdates, TakesAnswer, Waiting, NextLayer, Preparing
<1> QED
  BY <1>4, <1>5, <1>6, <1>8, <1>9, <1>10 DEF JobStep

LEMMA BriefShape ==
  ASSUME IInv, ClientsInv, JobStep, ~SendCommand
  PROVE  outbox = <<>> /\ (AsksA \/ ResetsA \/ LeavesA)
<1>0. /\ TypeOK /\ layer \in Layer /\ SysA \in Agent
      /\ \A l \in Layer : SysA \notin Speakers(l)
  <2>1. TypeOK /\ layer \in Layer
    BY DEF IInv, TypeOK
  <2> QED
    BY <2>1, JobsAssumption, LayersAssumption DEF Speakers, Layer
<1>1. outbox = <<>> /\ Lacks(<<>>, Mine(SysA))
  <2>1. outbox = <<>>
    BY DEF JobStep, FindSystemAgent, ListClients, StartLayer, TakeExchange, TakeWords, TakeSpec,
           StartUpdate, TakeUpdates, TakesAnswer, Waiting
  <2> QED
    BY <2>1, EmptyLacks
<1>2. <<>> \in Seq(Others) /\ \A i \in DOMAIN <<>> : <<>>[i].cmd \notin Asking
  OBVIOUS
\* What goes to the other system agents.
<1>3. ASSUME NEW a \in {SysB, SysC}, NEW cs \in Seq(CommandOf)
      PROVE  /\ SendCommands(<<a>>, cs) \in Seq(Others)
             /\ Lacks(SendCommands(<<a>>, cs), Mine(SysA))
  <2>1. PICK ts, rs : ts = {a} /\ rs = <<a>>
    OBVIOUS
  <2>2. ts \subseteq Agent /\ SysA \notin ts /\ rs \in Seq(ts)
    BY <2>1, Distinct, SystemMembers
  <2> QED
    BY <2>1, <2>2, SendsElsewhere
<1>4. ASSUME NEW a \in {SysB, SysC}
      PROVE  /\ SendCommands(<<a>>, Reset) \in Seq(Others)
             /\ Lacks(SendCommands(<<a>>, Reset), Mine(SysA))
             /\ \A i \in DOMAIN SendCommands(<<a>>, Reset) :
                  SendCommands(<<a>>, Reset)[i].cmd \notin Asking
  <2>1. Reset \in Seq(CommandOf) /\ Reset \in Seq(PlainCommands)
    BY ResetType, PlainReset
  <2>2. SendCommands(<<a>>, Reset) \in Seq(PlainOrders(System))
    BY SystemMembers, PlainReset, SendsPlain
  <2>3. \A i \in DOMAIN SendCommands(<<a>>, Reset) :
          SendCommands(<<a>>, Reset)[i] \in PlainOrders(System)
    BY <2>2
  <2> QED
    BY <1>3, <2>1, <2>3 DEF PlainOrders
<1>5. ASSUME NEW a \in {SysB, SysC}, NEW request \in Asking, NEW about \in SUBSET Layer
      PROVE  Lacks(Ask(a, request, about), Mine(SysA))
  <2>1. /\ <<Cmd("Latch", {})>> \in Seq(CommandOf) /\ <<Cmd(request, about)>> \in Seq(CommandOf)
    <3>1. Cmd("Latch", {}) \in CommandOf /\ Cmd(request, about) \in CommandOf
      BY CmdType DEF Command, Asking
    <3> QED
      BY <3>1
  <2>2. <<Cmd("Latch", {})>> \o Instruct \o <<Cmd(request, about)>> \in Seq(CommandOf)
    BY <1>0, <2>1, InstructType, ConcatProperties, Zenon
  <2> QED
    BY <1>3, <2>2 DEF Ask
<1>6. CASE StartLayer
  <2>1. pc = "kickoff" /\ UNCHANGED spec /\ clients \in Seq(Speakers(layer))
    BY <1>6 DEF StartLayer, Stop, Waiting, ClientsInv
  <2>2. CASE Stop("crashed")
    BY <1>1, <2>1, <2>2 DEF Stop, LeavesA
  <2>3. CASE KickedOff
    <3>1. PICK s \in Seq(PlainOrders(Speakers(layer))), first \in LayerClients,
               m \in Orders :
            outbox' = s \o <<m>> /\ m.to = first
      BY <1>0, <2>3, KickOffShape, JobOrdersAre
    <3>2. m \notin Mine(SysA)
      BY <1>0, <3>1, LayerClientsAre DEF TypeOK, Mine
    <3>3. PlainOrders(Speakers(layer)) \cap Mine(SysA) = {}
      BY <1>0 DEF PlainOrders, Mine
    <3>4. Lacks(outbox', Mine(SysA))
      BY <3>1, <3>2, <3>3, LastFew
    <3> QED
      BY <1>1, <2>1, <2>3, <3>4 DEF LeavesA, KickedOff
  <2>4. pc' = "exchange" => KickedOff
    BY <1>6, <2>1 DEF StartLayer, KickedOff, Stop, Waiting
  <2> QED
    BY <1>6, <2>2, <2>3, <2>4 DEF StartLayer
<1>7. CASE TakeExchange
  <2>1. /\ pc = "exchange" /\ UNCHANGED <<layer, spec>>
    BY <1>7 DEF TakeExchange, Waiting
  <2>2. /\ LayerOf[Head(procedureChan).from] \in Layer
        /\ transcript' = [transcript EXCEPT ![layer] = @ \cup {LayerOf[Head(procedureChan).from]}]
    <3>1. Head(procedureChan) \in Talking
      BY <1>7 DEF IInv, RoutedInv, TakeExchange
    <3> QED
      BY <1>7, <3>1 DEF Talking, TakeExchange
  <2>3. transcript'[layer] \in SUBSET Layer
    BY <1>0, <2>2 DEF TypeOK
  <2>4. CASE AfterExchange(<<>>)
    BY <1>0, <1>1, <1>2, <2>1, <2>3, <2>4, AfterExchangeBriefs
  <2>5. CASE outbox' = Ask(SysC, "RequestDictionaryWordDetection",
                           {LayerOf[Head(procedureChan).from]}) /\ pc' = "words"
    <3>1. PICK about \in SUBSET Layer : about = {LayerOf[Head(procedureChan).from]}
      BY <2>2
    <3>2. "RequestDictionaryWordDetection" \in Asking
      BY DEF Asking, TypedRequest
    <3>3. Lacks(outbox', Mine(SysA))
      BY <1>5, <2>5, <3>1, <3>2
    <3> QED
      BY <1>1, <2>1, <2>5, <3>3 DEF LeavesA
  <2>6. CASE pc' = "failed" /\ UNCHANGED <<outbox, count>>
    BY <1>1, <2>1, <2>6 DEF LeavesA
  <2> QED
    BY <1>7, <2>4, <2>5, <2>6 DEF TakeExchange
<1>8. CASE TakeWords
  <2>1. pc = "words" /\ UNCHANGED <<layer, spec, transcript>>
    BY <1>8 DEF TakeWords, TakesAnswer, Waiting
  <2>2. CASE AfterExchange(SendCommands(<<SysC>>, Reset))
    <3>1. transcript'[layer] \in SUBSET Layer
      BY <1>0, <2>1 DEF TypeOK
    <3>2. PICK before : before = SendCommands(<<SysC>>, Reset)
      OBVIOUS
    <3>3. /\ before \in Seq(Others) /\ Lacks(before, Mine(SysA))
          /\ \A i \in DOMAIN before : before[i].cmd \notin Asking
      BY <1>4, <3>2
    <3> QED
      BY <1>0, <1>1, <2>1, <2>2, <3>1, <3>2, <3>3, AfterExchangeBriefs
  <2>3. CASE pc' = "failed" /\ UNCHANGED <<count, outbox>>
    BY <1>1, <2>1, <2>3 DEF LeavesA
  <2> QED
    BY <1>8, <2>2, <2>3 DEF TakeWords
<1>9. CASE TakeSpec
  <2>1. /\ pc = "spec" /\ pc' # "spec" /\ outbox' = SendCommands(<<SysA>>, Reset)
        /\ spec' = [spec EXCEPT ![layer] =
                      [about |-> Head(toServer).about, prompt |-> Head(toServer).prompt]]
    BY <1>9 DEF TakeSpec, TakesAnswer, Waiting, NextLayer
  <2>2. {} \in SUBSET Layer
    OBVIOUS
  <2>3. outbox' = <<Order(SysA, "Latch", {}), Order(SysA, "ClearMemory", {}),
                    Order(SysA, "ResetInstructions", {})>>
    BY <1>0, <2>1, <2>2, OrdersToA
  <2> QED
    BY <1>1, <2>1, <2>3 DEF ResetsA
<1>10. CASE StartUpdate
  <2>1. pc = "dict" /\ UNCHANGED spec
    BY <1>10 DEF StartUpdate, Stop, Waiting
  <2>2. CASE Stop("failed")
    BY <1>1, <2>1, <2>2 DEF Stop, LeavesA
  <2>3. CASE outbox' = Ask(SysB, "RequestJsonDictionaryUpdate", transcript[layer])
             /\ pc' = "updates"
    <3>1. transcript[layer] \in SUBSET Layer /\ "RequestJsonDictionaryUpdate" \in Asking
      BY <1>0 DEF TypeOK, Asking, TypedRequest
    <3>2. Lacks(outbox', Mine(SysA))
      BY <1>5, <2>3, <3>1
    <3> QED
      BY <1>1, <2>1, <2>3, <3>2 DEF LeavesA
  <2> QED
    BY <1>10, <2>2, <2>3 DEF StartUpdate
<1>11. CASE TakeUpdates
  <2>1. pc = "updates" /\ UNCHANGED spec /\ pc' # "spec"
    BY <1>11 DEF TakeUpdates, TakesAnswer, Waiting, NextLayer
  <2>2. Lacks(outbox', Mine(SysA))
    <3>1. CASE outbox' = SendCommands(<<SysB>>, Reset)
      BY <1>4, <3>1
    <3>2. CASE UNCHANGED outbox
      BY <1>1, <3>2
    <3> QED
      BY <1>11, <3>1, <3>2 DEF TakeUpdates
  <2> QED
    BY <1>1, <2>1, <2>2 DEF LeavesA
<1>12. CASE FindSystemAgent \/ ListClients
  <2>1. pc # "spec" /\ pc' # "spec" /\ UNCHANGED <<spec, outbox>>
    BY <1>12 DEF FindSystemAgent, ListClients, Waiting
  <2> QED
    BY <1>1, <2>1 DEF LeavesA
<1> QED
  BY <1>1, <1>6, <1>7, <1>8, <1>9, <1>10, <1>11, <1>12 DEF JobStep

\* When the jobs draw up orders no question is open.
LEMMA NothingOpen ==
  ASSUME IInv, OrdersInv, QuestionsInv, Draws
  PROVE  /\ Lacks(toClients, Question) /\ Lacks(Hand(routerHand), Question)
         /\ Lacks(toServer', Question)
         /\ \A a \in System : /\ Lacks(toAgent[a], Question) /\ Lacks(fromAgent[a], Question)
                              /\ calls[a] = <<>>
         /\ Posing => toServer # <<>> /\ Head(toServer) \in Replies
<1> DEFINE B == QuestionBox
           f == Contents(B, outbox)
           c == <<"toServer", Server>>
           h == <<"routerHand", Server>>
<1>1. Lacks(toClients, Question) /\ \A a \in System : ~Busy(a, Question)
  BY DrawnAlone
<1>2. /\ c \in B /\ h \in B /\ c # h /\ f[c] = toServer /\ f[h] = Hand(routerHand)
  <2>1. c \in B /\ h \in B
    BY BoxMembers DEF QuestionBox, Channels
  <2> QED
    BY <2>1 DEF Contents, Content
<1>3. PICK s : s = toServer
  OBVIOUS
<1>4. s \in Seq({m \in Speech : LayerOf[m.from] = 0})
      /\ {m \in Speech : LayerOf[m.from] = 0} \subseteq Replies /\ Replies \subseteq Question
  <2>1. {m \in Speech : LayerOf[m.from] = 0} \subseteq Replies
    BY SpeechGoes DEF Replies, System
  <2> QED
    BY <1>3, <2>1 DEF OrdersInv, Signed, Question
<1>5. \A i \in DOMAIN s : s[i] \in Replies /\ s[i] \in Question
  BY <1>4
<1> HIDE DEF B, f, c, h
<1>6. CASE ~Posing
  <2>1. Lacks(toServer, Question) /\ Lacks(Hand(routerHand), Question)
    BY <1>2, <1>6 DEF QuestionsInv, Void, B, f
  <2>2. UNCHANGED toServer
    BY <1>6 DEF Draws
  <2> QED
    BY <1>1, <1>6, <2>1, <2>2 DEF Busy
<1>7. CASE Posing
  <2>1. s # <<>> /\ toServer' = Tail(s)
    BY <1>3, <1>7 DEF Draws
  <2>2. 1 \in DOMAIN s /\ Head(s) = s[1]
    BY <1>4, <2>1
  <2>3. Few(f[c], Question) /\ (~Lacks(f[c], Question) => Lacks(f[h], Question))
    BY <1>2 DEF QuestionsInv, Single, B, f
  <2>4. Lacks(Hand(routerHand), Question)
    BY <1>2, <1>3, <1>5, <2>2, <2>3 DEF Lacks
  <2>5. Lacks(toServer', Question)
    <3>1. ASSUME NEW j \in DOMAIN Tail(s) PROVE FALSE
      <4>1. j + 1 \in DOMAIN s /\ j \in Nat \ {0}
        BY <1>4, <2>1, <3>1
      <4>2. j + 1 = 1
        BY <1>2, <1>3, <1>5, <2>2, <2>3, <4>1 DEF Few
      <4> QED
        BY <4>1, <4>2
    <3> QED
      BY <2>1, <3>1 DEF Lacks
  <2> QED
    BY <1>1, <1>3, <1>5, <2>1, <2>2, <2>4, <2>5 DEF Busy
<1> QED
  BY <1>6, <1>7

\* What is asked of A, behind other things.
LEMMA AskedInOrder ==
  ASSUME NEW l \in Layer, NEW t \in SUBSET Layer, NEW pre \in Seq(Others),
         \A i \in DOMAIN pre : pre[i].cmd \notin Asking, NEW u,
         u = pre \o <<Order(SysA, "AppendInstructions", {l}), Order(SysA, "Unlatch", {}),
                      Order(SysA, "NoCommand", t)>>
  PROVE  /\ Lacks(u, Astray(TRUE, l, t)) /\ Led(u, Teaches, Enquiries)
         /\ NoneAfter(u, Teaches, Teaches \cup Wipes)
<1>1. PICK n, o1, o2, o3 :
        /\ n = Len(pre) /\ o1 = Order(SysA, "AppendInstructions", {l})
        /\ o2 = Order(SysA, "Unlatch", {}) /\ o3 = Order(SysA, "NoCommand", t)
  OBVIOUS
<1>2. /\ n \in Nat /\ DOMAIN u = 1 .. n + 3
      /\ u[n + 1] = o1 /\ u[n + 2] = o2 /\ u[n + 3] = o3
      /\ \A i \in 1 .. n : u[i] = pre[i] /\ i \in DOMAIN pre
  BY <1>1, LastThree
<1>3. \A i \in 1 .. n : u[i] \in Others /\ u[i].cmd \notin Asking
  BY <1>2
<1>4. /\ o1 \in Orders /\ o1.to = SysA /\ o1.cmd = "AppendInstructions" /\ o1.about = {l}
      /\ o2 \in Orders /\ o2.to = SysA /\ o2.cmd = "Unlatch"
      /\ o3 \in Orders /\ o3.to = SysA /\ o3.cmd = "NoCommand" /\ o3.about = t
  <2>1. SysA \in Agent /\ {l} \in SUBSET Layer /\ {} \in SUBSET Layer
        /\ "AppendInstructions" \in Command /\ "Unlatch" \in Command /\ "NoCommand" \in Command
    BY BriefOrders DEF Command
  <2>2. o1.about = {l} /\ o3.about = t
    BY <1>1 DEF Order, Msg
  <2>3. o1 \in Orders /\ o1.to = SysA /\ o1.cmd = "AppendInstructions"
    BY <1>1, <2>1, OrderFields
  <2>4. o2 \in Orders /\ o2.to = SysA /\ o2.cmd = "Unlatch"
    BY <1>1, <2>1, OrderFields
  <2>5. o3 \in Orders /\ o3.to = SysA /\ o3.cmd = "NoCommand"
    BY <1>1, <2>1, OrderFields
  <2> QED
    BY <2>2, <2>3, <2>4, <2>5
<1>5. /\ o1 \in Teaches /\ o1 \notin Enquiries /\ o1 \notin Astray(TRUE, l, t)
      /\ o2 \notin Teaches \cup Wipes \cup Enquiries /\ o2 \notin Astray(TRUE, l, t)
      /\ o3 \in Enquiries /\ o3 \notin Teaches \cup Wipes /\ o3 \notin Astray(TRUE, l, t)
  BY <1>4 DEF Teaches, Wipes, Enquiries, Astray, ToA, Asking, TypedRequest
<1>6. \A i \in 1 .. n : u[i] \notin Teaches \cup Wipes \cup Enquiries /\ u[i] \notin Astray(TRUE, l, t)
  BY <1>3 DEF Others, Teaches, Wipes, Enquiries, Astray, ToA
<1>7. \A i \in DOMAIN u : i \in Int /\ (i \in 1 .. n \/ i = n + 1 \/ i = n + 2 \/ i = n + 3)
  <2>1. n \in Nat /\ DOMAIN u = 1 .. n + 3
    BY <1>2
  <2>2. \A i \in 1 .. n + 3 : i \in Int /\ (i \in 1 .. n \/ i = n + 1 \/ i = n + 2 \/ i = n + 3)
    BY <2>1
  <2> QED
    BY <2>1, <2>2
<1>8. Lacks(u, Astray(TRUE, l, t))
  BY <1>2, <1>5, <1>6, <1>7 DEF Lacks
<1>9. Led(u, Teaches, Enquiries)
  <2>1. ASSUME NEW j \in DOMAIN u, u[j] \in Enquiries
        PROVE  n + 1 \in DOMAIN u /\ n + 1 < j /\ u[n + 1] \in Teaches
    <3>1. j = n + 2 \/ j = n + 3
      BY <1>2, <1>5, <1>6, <1>7, <2>1
    <3>2. j = n + 3
      BY <1>2, <1>5, <2>1, <3>1
    <3>3. n \in Nat /\ DOMAIN u = 1 .. n + 3
      BY <1>2
    <3>4. n + 1 \in DOMAIN u /\ n + 1 < j
      BY <3>2, <3>3
    <3> QED
      BY <1>2, <1>5, <3>4
  <2> QED
    BY <2>1 DEF Led
<1>10. NoneAfter(u, Teaches, Teaches \cup Wipes)
  <2>1. \A i \in DOMAIN u : u[i] \in Teaches \cup Wipes => i = n + 1
    BY <1>2, <1>5, <1>6, <1>7
  <2>2. ASSUME NEW i \in DOMAIN u, NEW j \in DOMAIN u, i < j, u[i] \in Teaches,
               u[j] \in Teaches \cup Wipes
        PROVE  FALSE
    <3>1. i = j
      BY <2>1, <2>2
    <3> QED
      BY <1>7, <2>2, <3>1
  <2> QED
    BY <2>2 DEF NoneAfter
<1> QED
  BY <1>8, <1>9, <1>10

LEMMA QuestionOrders ==
  /\ Enquiries \subseteq Question /\ Replies \subseteq Question
  /\ \A m \in Orders : m.to \in System /\ m.cmd \in Asking => m \in Question
  /\ \A l, t : Astray(FALSE, l, t) \subseteq Mine(SysA)
  /\ \A l, t, k, u : Astray(FALSE, l, t) = Astray(FALSE, k, u)
  /\ \A l, t : Teaches \subseteq Astray(FALSE, l, t)
  /\ \A l, t, k, u : \A m \in Astray(TRUE, l, t) : m \in Question \/ m \in Astray(FALSE, k, u)
<1>1. \A m \in Orders : m.to \in System /\ m.cmd \in Asking => m \in Question
  BY DEF Orders, Question, Asks, Asking
<1>2. SysA \in System
  BY BriefOrders
<1>3. Enquiries \subseteq Question
  BY <1>1, <1>2 DEF Enquiries, ToA
<1>4. \A l, t : Astray(FALSE, l, t) \subseteq Mine(SysA)
  BY DEF Astray, Teaches, Enquiries, ToA, Mine
<1>5. /\ \A l, t, k, u : Astray(FALSE, l, t) = Astray(FALSE, k, u)
      /\ \A l, t : Teaches \subseteq Astray(FALSE, l, t)
  BY DEF Astray
<1>6. ASSUME NEW l, NEW t, NEW k, NEW u, NEW m \in Astray(TRUE, l, t), m \notin Question
      PROVE  m \in Astray(FALSE, k, u)
  <2>1. m \notin Enquiries /\ m \in Orders
    BY <1>3, <1>6, BriefOrders
  <2>2. ~(m.to \in System /\ m.cmd \in Asking)
    BY <1>1, <1>6, <2>1
  <2>3. m \in ToA({"SetInstructions", "SendInitialMessage"}) \cup Teaches
    BY <1>6, <2>1, <2>2 DEF Astray
  <2> QED
    BY <2>3 DEF Astray
<1> QED
  BY <1>1, <1>3, <1>4, <1>5, <1>6 DEF Question

\* While A is not asked it is prepared when nothing is taught or asked.
LEMMA PreparedToWait ==
  ASSUME NEW l, NEW out, Gone(SysA, Teaches, out)', Gone(SysA, Enquiries, out)',
         stm'[SysA] = {} \/ ~Gone(SysA, Clears, out)',
         instr'[SysA] = {} \/ ~Gone(SysA, Wipes, out)'
  PROVE  Prepared(FALSE, l, out)'
<1>1. ASSUME NEW s, NEW U, NEW K, Lacks(s, K) PROVE Led(s, U, K) /\ NoneAfter(s, K, U)
  BY <1>1 DEF Lacks, Led, NoneAfter
<1>2. /\ Ahead(SysA, Clears, Enquiries, out)' /\ Ahead(SysA, Wipes, Teaches, out)'
      /\ Ahead(SysA, Teaches, Enquiries, out)'
  BY <1>1 DEF Ahead, LedBy, Gone
<1>3. Sorted(SysA, Teaches, Teaches \cup Wipes, out)'
  BY <1>1 DEF Sorted, InOrder, Gone
<1> QED
  BY <1>2, <1>3 DEF Prepared

LEMMA SendBriefed ==
  ASSUME NetTypeOK, NEW b \in BOOLEAN, NEW l, NEW t, NEW out \in Seq(JobOrders), out # <<>>,
         Briefed(b, l, t, out), toClients' = Append(toClients, Head(out)),
         UNCHANGED <<connected, routerHand, toServer, agentVars>>
  PROVE  Briefed(b, l, t, Tail(out))'
<1>1. /\ Nowhere(Astray(b, l, t), out) /\ Truthful(b, l, t, out) /\ SoundCalls(b, l, t)
      /\ alive[SysA] => Prepared(b, l, out)
      /\ alive[SysA] => SysA \in connected \/ Nowhere(Mine(SysA), out)
  BY DEF Briefed
<1>2. UNCHANGED <<toAgent, fromAgent, alive, latch, stm, instr, calls>>
  BY DEF agentVars
<1>3. /\ out \in Seq(Message) /\ Head(out) \in Orders /\ SysA \in Agent
      /\ toClients \in Seq(Message)
  <2>1. JobOrders \subseteq Message /\ Head(out) \in JobOrders
    BY JobOrdersAre
  <2> QED
    BY <2>1, JobOrdersAre, BriefOrders DEF NetTypeOK
<1>4. PICK rest : rest = Tail(out)
  OBVIOUS
<1>5. ASSUME NEW S, Nowhere(S, out) PROVE Nowhere(S, rest)'
  BY <1>2, <1>3, <1>4, <1>5, SendNowhere
<1>6. Nowhere(Astray(b, l, t), rest)'
  <2>1. PICK S : S = Astray(b, l, t)
    OBVIOUS
  <2>2. Nowhere(S, rest)'
    BY <1>1, <1>5, <2>1
  <2> QED
    BY <2>1, <2>2
<1>7. Truthful(b, l, t, rest)'
  <2>1. ASSUME NEW S, S \subseteq Replies, Unsaid(S) PROVE Unsaid(S)'
    <3>1. Head(out) \notin S
      BY <1>3, <2>1, BriefOrders
    <3>2. Lacks(toClients', S)
      BY <1>3, <2>1, <3>1, Appending DEF Unsaid
    <3> QED
      BY <1>2, <2>1, <3>2 DEF Unsaid
  <2>2. FalseAnswers(l, t) \subseteq Replies
    BY DEF FalseAnswers
  <2>3. Unsaid(FalseAnswers(l, t)) => Unsaid(FalseAnswers(l, t))'
    <3>1. PICK S : S = FalseAnswers(l, t)
      OBVIOUS
    <3> QED
      BY <2>1, <2>2, <3>1
  <2> QED
    BY <1>1, <1>5, <2>1, <2>3 DEF Truthful
<1>8. SoundCalls(b, l, t)'
  BY <1>1, <1>2 DEF SoundCalls, SoundCall
<1>9. alive'[SysA] => Prepared(b, l, rest)'
  <2>1. /\ Clears \cap Enquiries = {} /\ Wipes \cap Teaches = {} /\ Teaches \cap Enquiries = {}
    BY BriefOrders
  <2>2. /\ Ahead(SysA, Clears, Enquiries, out) => Ahead(SysA, Clears, Enquiries, rest)'
        /\ Ahead(SysA, Wipes, Teaches, out) => Ahead(SysA, Wipes, Teaches, rest)'
        /\ Ahead(SysA, Teaches, Enquiries, out) => Ahead(SysA, Teaches, Enquiries, rest)'
    BY <1>2, <1>3, <1>4, <2>1, PathSent
  <2>3. /\ Sorted(SysA, Teaches, Teaches \cup Wipes, out) =>
             Sorted(SysA, Teaches, Teaches \cup Wipes, rest)'
        /\ Gone(SysA, Clears, out) <=> Gone(SysA, Clears, rest)'
        /\ Gone(SysA, Wipes, out) <=> Gone(SysA, Wipes, rest)'
        /\ Gone(SysA, Teaches \cup Wipes, out) <=> Gone(SysA, Teaches \cup Wipes, rest)'
    BY <1>2, <1>3, <1>4, PathSent
  <2> QED
    BY <1>1, <1>2, <2>2, <2>3 DEF Prepared
<1>10. alive'[SysA] => SysA \in connected' \/ Nowhere(Mine(SysA), rest)'
  BY <1>1, <1>2, <1>5
<1>11. Briefed(b, l, t, rest)'
  BY <1>6, <1>7, <1>8, <1>9, <1>10 DEF Briefed
<1> QED
  BY <1>4, <1>11

\* What holds when no question is open.
Idle ==
  /\ Lacks(toClients, Question) /\ Lacks(Hand(routerHand), Question)
  /\ \A a \in System : /\ Lacks(toAgent[a], Question) /\ Lacks(fromAgent[a], Question)
                       /\ calls[a] = <<>>

LEMMA IdleLacks ==
  ASSUME Idle, Signed(JobOrders), NEW S, S \subseteq Question, S \subseteq Orders
  PROVE  Lacks(toClients, S) /\ Lacks(toAgent[SysA], S)
  BY BriefOrders DEF Idle, Lacks

LEMMA AskBriefed ==
  ASSUME NetTypeOK, Signed(JobOrders), Idle, Lacks(toServer', Question),
         UNCHANGED <<connected, toClients, routerHand, agentVars>>,
         NEW k, NEW u, Briefed(FALSE, k, u, <<>>), alive[SysA] => SysA \in connected,
         NEW l \in Layer, NEW t \in SUBSET Layer, NEW out, NEW pre \in Seq(Others),
         \A i \in DOMAIN pre : pre[i].cmd \notin Asking,
         out = pre \o <<Order(SysA, "AppendInstructions", {l}), Order(SysA, "Unlatch", {}),
                        Order(SysA, "NoCommand", t)>>
  PROVE  Briefed(TRUE, l, t, out)'
<1>1. /\ Lacks(out, Astray(TRUE, l, t)) /\ Led(out, Teaches, Enquiries)
      /\ NoneAfter(out, Teaches, Teaches \cup Wipes)
  BY AskedInOrder
<1>2. UNCHANGED <<toAgent, fromAgent, alive, stm, instr, calls>>
  BY DEF agentVars
<1>3. /\ Nowhere(Astray(FALSE, k, u), <<>>)
      /\ alive[SysA] => Prepared(FALSE, k, <<>>)
  BY DEF Briefed
<1>4. Nowhere(Astray(TRUE, l, t), out)'
  <2>1. PICK S, R : S = Astray(TRUE, l, t) /\ R = Astray(FALSE, k, u)
    OBVIOUS
  <2>0. \A m \in Astray(TRUE, l, t) : m \in Question \/ m \in Astray(FALSE, k, u)
    BY QuestionOrders, Zenon
  <2>2. /\ Lacks(out, S) /\ Lacks(toClients, R) /\ \A a \in Agent : Lacks(toAgent[a], R)
        /\ \A m \in S : m \in Question \/ m \in R
    BY <1>1, <1>3, <2>0, <2>1 DEF Nowhere
  <2>3. Lacks(toClients, S)
    BY <2>2 DEF Idle, Lacks
  <2>4. ASSUME NEW a \in Agent PROVE Lacks(toAgent[a], S)
    <3>1. CASE a \in System
      BY <2>2, <3>1 DEF Idle, Lacks
    <3>2. CASE a \notin System
      <4>1. \A i \in DOMAIN toAgent[a] : toAgent[a][i] \in To(a, JobOrders)
        BY DEF Signed
      <4>2. \A m \in To(a, JobOrders) : m.to \notin System
        BY <3>2 DEF To
      <4>3. \A m \in S : m.to \in System \/ m \in R
        BY <2>1, BriefOrders DEF Astray, Enquiries, Teaches, ToA
      <4> QED
        BY <2>2, <4>1, <4>2, <4>3 DEF Lacks
    <3> QED
      BY <3>1, <3>2
  <2>5. Nowhere(S, out)'
    BY <1>2, <2>2, <2>3, <2>4 DEF Nowhere
  <2> QED
    BY <2>1, <2>5
<1>5. Truthful(TRUE, l, t, out)'
  <2>1. ASSUME NEW S, S \subseteq Replies PROVE Unsaid(S)'
    <3>1. ASSUME NEW a \in Agent PROVE Lacks(fromAgent[a], S)
      <4>1. CASE a \in System
        BY <2>1, <4>1, QuestionOrders DEF Idle, Lacks
      <4>2. CASE a \notin System
        <5>1. \A i \in DOMAIN fromAgent[a] : fromAgent[a][i] \in Said(a)
          BY DEF Signed
        <5> QED
          BY <2>1, <4>2, <5>1 DEF Lacks, Said, Replies
      <4> QED
        BY <4>1, <4>2
    <3>2. Lacks(toClients, S) /\ Lacks(Hand(routerHand), S) /\ Lacks(toServer', S)
      BY <2>1, QuestionOrders DEF Idle, Lacks
    <3> QED
      BY <1>2, <3>1, <3>2 DEF Unsaid, Hand
  <2>2. FalseAnswers(l, t) \subseteq Replies
    BY DEF FalseAnswers
  <2>3. Unsaid(FalseAnswers(l, t))'
    <3>1. PICK S : S = FalseAnswers(l, t)
      OBVIOUS
    <3> QED
      BY <2>1, <2>2, <3>1
  <2> QED
    BY <2>1, <2>3 DEF Truthful
<1>6. SoundCalls(TRUE, l, t)'
  BY <1>2 DEF SoundCalls, Idle
<1>7. alive'[SysA] => Prepared(TRUE, l, out)'
  <2> SUFFICES ASSUME alive'[SysA] PROVE Prepared(TRUE, l, out)'
    OBVIOUS
  <2>1. PICK s, q : s = toAgent[SysA] /\ q = toClients
    OBVIOUS
  <2>2. Lacks(s, Enquiries) /\ Lacks(q, Enquiries)
    BY <2>1, IdleLacks, QuestionOrders, BriefOrders
  <2>3. Lacks(s, Teaches) /\ Lacks(q, Teaches)
    <3>1. PICK R : R = Astray(FALSE, k, u)
      OBVIOUS
    <3>2. Teaches \subseteq Astray(FALSE, k, u)
      BY QuestionOrders, Zenon
    <3>3. Lacks(s, R) /\ Lacks(q, R)
      BY <1>3, <2>1, <3>1, BriefOrders DEF Nowhere
    <3> QED
      BY <3>1, <3>2, <3>3 DEF Lacks
  <2>4. /\ stm[SysA] = {} \/ ~(Lacks(s, Clears) /\ Lacks(q, Clears))
        /\ instr[SysA] = {} \/ ~(Lacks(s, Wipes) /\ Lacks(q, Wipes))
    <3>1. Prepared(FALSE, k, <<>>)
      BY <1>2, <1>3
    <3>2. /\ stm[SysA] = {} \/ ~Gone(SysA, Clears, <<>>)
          /\ instr[SysA] = {} \/ ~Gone(SysA, Wipes, <<>>)
      BY <3>1 DEF Prepared
    <3>3. Lacks(<<>>, Clears) /\ Lacks(<<>>, Wipes)
      BY EmptyLacks
    <3> QED
      BY <2>1, <3>2, <3>3 DEF Gone
  <2>5. ASSUME NEW U, NEW K, NEW w, Lacks(w, K) PROVE Led(w, U, K) /\ NoneAfter(w, K, U)
    BY <2>5 DEF Lacks, Led, NoneAfter
  <2>6. /\ stm[SysA] # {} => LedBy(s, q, out, Clears, Enquiries)
        /\ instr[SysA] # {} => LedBy(s, q, out, Wipes, Teaches)
        /\ LedBy(s, q, out, Teaches, Enquiries)
    BY <1>1, <2>2, <2>3, <2>4, <2>5 DEF LedBy
  <2>7. InOrder(s, q, out, Teaches, Teaches \cup Wipes)
    BY <1>1, <2>3, <2>5 DEF InOrder
  <2> QED
    BY <1>2, <2>1, <2>6, <2>7 DEF Prepared, Ahead, Sorted
<1>8. alive'[SysA] => SysA \in connected' \/ Nowhere(Mine(SysA), out)'
  BY <1>2
<1> QED
  BY <1>4, <1>5, <1>6, <1>7, <1>8 DEF Briefed

\* A is not asked (any more): what is on its way to A, or will be.
LEMMA WaitBriefed ==
  ASSUME NetTypeOK, Signed(JobOrders), Idle,
         UNCHANGED <<connected, toClients, routerHand, agentVars>>,
         NEW l, NEW t, NEW out, Nowhere(Astray(FALSE, l, t), <<>>),
         Lacks(out, Astray(FALSE, l, t)), Lacks(out, Enquiries),
         alive[SysA] => SysA \in connected \/ (Nowhere(Mine(SysA), <<>>) /\ Lacks(out, Mine(SysA))),
         alive[SysA] => /\ stm[SysA] = {} \/ ~Gone(SysA, Clears, out)
                        /\ instr[SysA] = {} \/ ~Gone(SysA, Wipes, out)
  PROVE  Briefed(FALSE, l, t, out)'
<1>1. UNCHANGED <<toAgent, alive, stm, instr, calls>>
  BY DEF agentVars
<1>2. Nowhere(Astray(FALSE, l, t), out)'
  <2>1. PICK S : S = Astray(FALSE, l, t)
    OBVIOUS
  <2>2. Nowhere(S, out)'
    BY <1>1, <2>1 DEF Nowhere
  <2> QED
    BY <2>1, <2>2
<1>3. Truthful(FALSE, l, t, out)'
  BY DEF Truthful
<1>4. SoundCalls(FALSE, l, t)'
  BY <1>1, BriefOrders DEF SoundCalls, Idle
<1>5. ASSUME alive'[SysA] PROVE Prepared(FALSE, l, out)'
  <2>1. Gone(SysA, Enquiries, out)'
    <3>1. Lacks(toClients, Enquiries) /\ Lacks(toAgent[SysA], Enquiries)
      BY IdleLacks, QuestionOrders, BriefOrders
    <3> QED
      BY <1>1, <3>1 DEF Gone
  <2>2. Gone(SysA, Teaches, out)'
    <3>1. PICK R : R = Astray(FALSE, l, t)
      OBVIOUS
    <3>2. Lacks(toAgent[SysA], R) /\ Lacks(toClients, R) /\ Lacks(out, R) /\ Teaches \subseteq R
      BY <3>1, QuestionOrders, BriefOrders DEF Nowhere
    <3> QED
      BY <1>1, <3>2 DEF Lacks, Gone
  <2>3. /\ stm'[SysA] = {} \/ ~Gone(SysA, Clears, out)'
        /\ instr'[SysA] = {} \/ ~Gone(SysA, Wipes, out)'
    BY <1>1, <1>5 DEF Gone
  <2> QED
    BY <2>1, <2>2, <2>3, PreparedToWait
<1>6. alive'[SysA] => SysA \in connected' \/ Nowhere(Mine(SysA), out)'
  <2>1. PICK S : S = Mine(SysA)
    OBVIOUS
  <2>2. Nowhere(S, <<>>) /\ Lacks(out, S) => Nowhere(S, out)'
    BY <1>1 DEF Nowhere
  <2> QED
    BY <1>1, <2>1, <2>2
<1> QED
  BY <1>2, <1>3, <1>4, <1>5, <1>6 DEF Briefed

LEMMA BriefSend ==
  ASSUME IInv, OrdersInv, BriefInv, SendCommand
  PROVE  BriefInv'
<1>1. PICK b \in {pc = "spec"}, l \in {layer}, t \in {transcript[layer]}, out \in {outbox} :
        b \in BOOLEAN
  OBVIOUS
<1>2. /\ out # <<>> /\ toClients' = Append(toClients, Head(out)) /\ outbox' = Tail(out)
      /\ UNCHANGED <<connected, routerHand, toServer, agentVars, pc, layer, transcript, spec>>
  BY <1>1 DEF SendCommand
<1>3. Briefed(b, l, t, out)
  BY <1>1 DEF BriefInv
<1>4. NetTypeOK /\ out \in Seq(JobOrders)
  BY <1>1 DEF IInv, TypeOK, OrdersInv
<1>5. Briefed(b, l, t, Tail(out))'
  BY <1>2, <1>3, <1>4, SendBriefed
<1>6. PICK rest : rest = Tail(out)
  OBVIOUS
<1>7. Briefed(b, l, t, rest)'
  BY <1>5, <1>6
<1>8. ASSUME NEW b2 \in {pc' = "spec"}, NEW l2 \in {layer'}, NEW t2 \in {transcript'[layer']},
             NEW out2 \in {outbox'}
      PROVE  Briefed(b2, l2, t2, out2)'
  <2>1. b2 = b /\ l2 = l /\ t2 = t /\ out2 = rest
    BY <1>1, <1>2, <1>6
  <2> QED
    BY <1>7, <2>1
<1> QED
  BY <1>2, <1>8 DEF BriefInv, Written, agentVars

LEMMA BriefJob ==
  ASSUME IInv, IInv', OrdersInv, QuestionsInv, BriefInv, JobStep, ~SendCommand
  PROVE  BriefInv'
<1>1. /\ outbox = <<>> /\ (AsksA \/ ResetsA \/ LeavesA) /\ WritesOn /\ Draws
      /\ NetTypeOK /\ Signed(JobOrders)
      /\ layer \in Layer /\ transcript \in [Layer -> SUBSET Layer]
      /\ spec \in [Layer -> [about : SUBSET Layer, prompt : SUBSET Layer]]
  BY BriefShape, WritesShape, JobShape DEF OrdersInv, IInv, TypeOK
<1>2. UNCHANGED <<connected, toClients, routerHand, agentVars>>
  BY <1>1 DEF Draws
<1>3. /\ Idle /\ Lacks(toServer', Question)
      /\ Posing => toServer # <<>> /\ Head(toServer) \in Replies
  BY <1>1, NothingOpen DEF Idle
<1>4. PICK b, l, t, out : b = (pc = "spec") /\ l = layer /\ t = transcript[layer] /\ out = outbox
  OBVIOUS
<1>5. Briefed(b, l, t, <<>>)
  <2>1. Briefed(b, l, t, out)
    BY <1>4 DEF BriefInv
  <2> QED
    BY <1>1, <1>4, <2>1
<1> SUFFICES ASSUME NEW b2 \in {pc' = "spec"}, NEW l2 \in {layer'},
                    NEW t2 \in {transcript'[layer']}, NEW out2 \in {outbox'}
             PROVE  /\ Briefed(b2, l2, t2, out2)'
                    /\ pc' \in Attended /\ alive'[SysA] => SysA \in connected'
                    /\ \A k \in Layer : spec'[k] # NoSpec =>
                         /\ Written(k)'
                         /\ spec'[k] = [about |-> transcript'[k], prompt |-> {k}]
  BY DEF BriefInv
<1>6. b2 = (pc' = "spec") /\ l2 = layer' /\ t2 = transcript'[layer'] /\ out2 = outbox'
  OBVIOUS
<1>7. /\ Nowhere(Astray(b, l, t), <<>>) /\ Truthful(b, l, t, <<>>)
      /\ alive[SysA] => Prepared(b, l, <<>>)
      /\ alive[SysA] => SysA \in connected \/ Nowhere(Mine(SysA), <<>>)
  BY <1>5 DEF Briefed
<1>8. ASSUME AsksA PROVE Briefed(b2, l2, t2, out2)'
  <2>1. /\ b = FALSE /\ b2 = TRUE /\ layer' = layer /\ pc \in {"exchange", "words"}
    BY <1>4, <1>6, <1>8 DEF AsksA
  <2>2. l2 \in Layer /\ t2 \in SUBSET Layer
    BY <1>6 DEF IInv, TypeOK
  <2>3. PICK pre \in Seq(Others) :
          /\ \A i \in DOMAIN pre : pre[i].cmd \notin Asking
          /\ out2 = pre \o <<Order(SysA, "AppendInstructions", {l2}), Order(SysA, "Unlatch", {}),
                             Order(SysA, "NoCommand", t2)>>
    BY <1>6, <1>8, <2>1 DEF AsksA
  <2>4. alive[SysA] => SysA \in connected
    BY <2>1 DEF BriefInv, Attended
  <2>5. Briefed(FALSE, l, t, <<>>)
    BY <1>5, <2>1
  <2>6. Briefed(TRUE, l2, t2, out2)'
    BY <1>1, <1>2, <1>3, <2>2, <2>3, <2>4, <2>5, AskBriefed
  <2> QED
    BY <2>1, <2>6
<1>9. ASSUME ResetsA
      PROVE  /\ Briefed(b2, l2, t2, out2)'
             /\ Head(toServer).about = transcript[layer] /\ Head(toServer).prompt = {layer}
  <2>1. PICK o1, o2, o3 : /\ o1 = Order(SysA, "Latch", {}) /\ o2 = Order(SysA, "ClearMemory", {})
                          /\ o3 = Order(SysA, "ResetInstructions", {})
    OBVIOUS
  <2>2. b = TRUE /\ b2 = FALSE /\ pc = "spec" /\ out2 = <<o1, o2, o3>>
    BY <1>4, <1>6, <1>9, <2>1 DEF ResetsA
  <2>3. PICK s : s = toServer
    OBVIOUS
  <2>4. /\ s \in Seq(Message) /\ s # <<>> /\ Head(s) \in Replies
    BY <1>1, <1>3, <2>2, <2>3 DEF Posing, NetTypeOK
  <2>5. 1 \in DOMAIN s /\ Head(s) = s[1]
    BY <2>4
  <2>6. Lacks(s, FalseAnswers(l, t)) /\ Nowhere(Mine(SysA), <<>>)
    <3>1. ~Lacks(s, Replies)
      BY <2>4, <2>5 DEF Lacks
    <3> QED
      BY <1>7, <2>2, <2>3, <3>1 DEF Truthful, Unsaid
  <2>7. Head(s).about = t /\ Head(s).prompt = {l}
    BY <2>4, <2>5, <2>6 DEF Lacks, FalseAnswers
  <2>8. /\ o1 \in Orders /\ o1.to = SysA /\ o1.cmd = "Latch"
        /\ o2 \in Orders /\ o2.to = SysA /\ o2.cmd = "ClearMemory"
        /\ o3 \in Orders /\ o3.to = SysA /\ o3.cmd = "ResetInstructions"
    <3>1. SysA \in Agent /\ {} \in SUBSET Layer
          /\ "Latch" \in Command /\ "ClearMemory" \in Command /\ "ResetInstructions" \in Command
      BY BriefOrders DEF Command
    <3>2. o1 \in Orders /\ o1.to = SysA /\ o1.cmd = "Latch"
      BY <2>1, <3>1, OrderFields
    <3>3. o2 \in Orders /\ o2.to = SysA /\ o2.cmd = "ClearMemory"
      BY <2>1, <3>1, OrderFields
    <3>4. o3 \in Orders /\ o3.to = SysA /\ o3.cmd = "ResetInstructions"
      BY <2>1, <3>1, OrderFields
    <3> QED
      BY <3>2, <3>3, <3>4
  <2>9. o2 \in Clears /\ o3 \in Wipes
    BY <2>8 DEF Clears, Wipes, ToA
  <2>10. ASSUME NEW m \in {o1, o2, o3} PROVE m \notin Enquiries /\ m \notin Astray(FALSE, l2, t2)
    BY <2>8 DEF Enquiries, Astray, Teaches, ToA, Asking, TypedRequest
  <2>11. /\ \A i \in DOMAIN out2 : out2[i] \in {o1, o2, o3}
         /\ 2 \in DOMAIN out2 /\ out2[2] = o2 /\ 3 \in DOMAIN out2 /\ out2[3] = o3
    BY <2>2
  <2>12. Lacks(out2, Astray(FALSE, l2, t2)) /\ Lacks(out2, Enquiries)
    BY <2>10, <2>11 DEF Lacks
  <2>13. ~Gone(SysA, Clears, out2) /\ ~Gone(SysA, Wipes, out2)
    BY <2>9, <2>11 DEF Gone, Lacks
  <2>14. Nowhere(Astray(FALSE, l2, t2), <<>>)
    <3>1. PICK S : S = Astray(FALSE, l2, t2)
      OBVIOUS
    <3>2. S \subseteq Mine(SysA)
      BY <3>1, QuestionOrders, Zenon
    <3>3. Nowhere(S, <<>>)
      BY <2>6, <3>2 DEF Nowhere, Lacks
    <3> QED
      BY <3>1, <3>3
  <2>15. alive[SysA] => SysA \in connected
    BY <2>2 DEF BriefInv, Attended
  <2>16. Briefed(FALSE, l2, t2, out2)'
    BY <1>1, <1>2, <1>3, <2>12, <2>13, <2>14, <2>15, WaitBriefed
  <2> QED
    BY <1>4, <2>2, <2>3, <2>7, <2>16
<1>10. ASSUME LeavesA PROVE Briefed(b2, l2, t2, out2)'
  <2>1. b = FALSE /\ b2 = FALSE /\ Lacks(out2, Mine(SysA))
    BY <1>4, <1>6, <1>10 DEF LeavesA
  <2>2. PICK S : S = Astray(FALSE, l2, t2)
    OBVIOUS
  <2>3. S \subseteq Mine(SysA)
    BY <2>2, QuestionOrders, Zenon
  <2>4. S = Astray(FALSE, l, t)
    BY <2>2, QuestionOrders, Zenon
  <2>5. Lacks(out2, S) /\ Lacks(out2, Enquiries)
    BY <2>1, <2>3, BriefOrders DEF Lacks
  <2>6. Nowhere(S, <<>>)
    BY <1>7, <2>1, <2>4
  <2>7. alive[SysA] => SysA \in connected \/ (Nowhere(Mine(SysA), <<>>) /\ Lacks(out2, Mine(SysA)))
    BY <1>7, <2>1
  <2>8. ASSUME alive[SysA]
        PROVE  /\ stm[SysA] = {} \/ ~Gone(SysA, Clears, out2)
               /\ instr[SysA] = {} \/ ~Gone(SysA, Wipes, out2)
    <3>1. Prepared(FALSE, l, <<>>)
      BY <1>7, <2>1, <2>8
    <3>2. /\ stm[SysA] = {} \/ ~Gone(SysA, Clears, <<>>)
          /\ instr[SysA] = {} \/ ~Gone(SysA, Wipes, <<>>)
      BY <3>1 DEF Prepared
    <3>3. Lacks(<<>>, Clears) /\ Lacks(<<>>, Wipes)
      BY EmptyLacks
    <3> QED
      BY <3>2, <3>3 DEF Gone
  <2>9. Briefed(FALSE, l2, t2, out2)'
    BY <1>1, <1>2, <1>3, <2>2, <2>5, <2>6, <2>7, <2>8, WaitBriefed
  <2> QED
    BY <2>1, <2>9
<1>11. Briefed(b2, l2, t2, out2)'
  BY <1>1, <1>8, <1>9, <1>10
<1>12. pc' \in Attended /\ alive'[SysA] => SysA \in connected'
  BY <1>1, <1>2 DEF WritesOn, BriefInv, agentVars
<1>13. ASSUME NEW k \in Layer, spec'[k] # NoSpec
       PROVE  Written(k)' /\ spec'[k] = [about |-> transcript'[k], prompt |-> {k}]
  <2>1. CASE AsksA \/ LeavesA
    <3>1. spec' = spec
      BY <2>1 DEF AsksA, LeavesA
    <3> QED
      BY <1>1, <1>13, <3>1 DEF BriefInv, WritesOn
  <2>2. CASE ResetsA
    <3>1. /\ pc = "spec"
          /\ spec' = [spec EXCEPT ![layer] =
                        [about |-> Head(toServer).about, prompt |-> Head(toServer).prompt]]
      BY <2>2 DEF ResetsA
    <3>2. CASE k = layer
      <4>1. spec'[k] = [about |-> transcript[k], prompt |-> {k}]
        BY <1>1, <1>9, <2>2, <3>1, <3>2
      <4> QED
        BY <1>1, <3>1, <3>2, <4>1 DEF WritesOn
    <3>3. CASE k # layer
      <4>1. spec'[k] = spec[k]
        BY <1>1, <3>1, <3>3
      <4> QED
        BY <1>1, <1>13, <4>1 DEF BriefInv, WritesOn
    <3> QED
      BY <3>2, <3>3
  <2> QED
    BY <1>1, <2>1, <2>2
<1> QED
  BY <1>11, <1>12, <1>13

LEMMA BriefStep ==
  ASSUME IInv, IInv', OrdersInv, QuestionsInv, QuietInv, QuietInv', BriefInv, [Next]_vars
  PROVE  BriefInv'
<1>1. CASE JobStep
  BY <1>1, BriefSend, BriefJob
<1>2. CASE NetNext /\ UNCHANGED jobVars
  <2>1. PICK b \in {pc = "spec"}, l \in {layer}, t \in {transcript[layer]}, out \in {outbox} :
          b \in BOOLEAN
    OBVIOUS
  <2>2. UNCHANGED <<pc, layer, outbox, transcript, spec>>
    BY <1>2 DEF jobVars
  <2>3. NetTypeOK /\ Signed(JobOrders) /\ Briefed(b, l, t, out)
    BY <2>1 DEF IInv, TypeOK, OrdersInv, BriefInv
  <2>4. Quiet(System, Question, out) /\ Quiet(System, Question, out)'
    BY <2>1, <2>2 DEF QuietInv, Quiet, QuietQueues, QuietAgent
  <2>5. Briefed(b, l, t, out)'
    BY <1>2, <2>3, <2>4, NetBriefed
  <2>6. ASSUME NEW b2 \in {pc' = "spec"}, NEW l2 \in {layer'},
               NEW t2 \in {transcript'[layer']}, NEW out2 \in {outbox'}
        PROVE  Briefed(b2, l2, t2, out2)'
    <3>1. b2 = b /\ l2 = l /\ t2 = t /\ out2 = out
      BY <2>1, <2>2
    <3> QED
      BY <2>5, <3>1
  <2>7. pc' \in Attended /\ alive'[SysA] => SysA \in connected'
    BY <1>2, <2>2, <2>3, BriefOrders, StaysConnected DEF BriefInv
  <2> QED
    BY <2>2, <2>6, <2>7 DEF BriefInv, Written
<1>3. CASE UNCHANGED vars
  BY <1>3 DEF BriefInv, Written, Briefed, Nowhere, Truthful, Unsaid, Hand, SoundCalls, SoundCall,
     Prepared, Ahead, Sorted, Gone, vars, netVars, jobVars, queueVars, agentVars
<1> QED
  BY <1>1, <1>2, <1>3 DEF Next

LEMMA BriefInit == Init => BriefInv
<1> SUFFICES ASSUME Init PROVE BriefInv
  OBVIOUS
<1>1. /\ outbox = <<>> /\ toClients = <<>> /\ pc = "layer" /\ SysA \in Agent
      /\ \A a \in Agent : toAgent[a] = <<>> /\ calls[a] = <<>>
      /\ stm[SysA] = {} /\ instr[SysA] = {}
  BY BriefOrders DEF Init, NetInit
<1>2. \A S : Lacks(<<>>, S) /\ \A T : NoneAfter(<<>>, S, T) /\ Led(<<>>, S, T)
  BY DEF Lacks, NoneAfter, Led
<1>3. SUFFICES ASSUME NEW l \in {layer}, NEW t \in {transcript[layer]} PROVE Briefed(FALSE, l, t, <<>>)
  <2>1. \A k \in Layer : spec[k] = NoSpec
    BY DEF Init
  <2> QED
    BY <1>1, <2>1 DEF BriefInv, Attended
<1>4. /\ Nowhere(Astray(FALSE, l, t), <<>>) /\ Nowhere(Mine(SysA), <<>>)
      /\ Truthful(FALSE, l, t, <<>>) /\ SoundCalls(FALSE, l, t)
  <2>1. ASSUME NEW S PROVE Nowhere(S, <<>>)
    BY <1>1, <1>2 DEF Nowhere
  <2>2. Truthful(FALSE, l, t, <<>>)
    BY DEF Truthful
  <2>3. SoundCalls(FALSE, l, t)
    BY <1>1, SystemMembers DEF SoundCalls
  <2> QED
    BY <2>1, <2>2, <2>3
<1>5. Prepared(FALSE, l, <<>>)
  BY <1>1, <1>2 DEF Prepared, Ahead, Sorted, LedBy, InOrder
<1> QED
  BY <1>4, <1>5 DEF Briefed

\* Each layer's specification is agent A's answer to that layer's transcript,
\* under instructions about that layer alone: whatever is still on its way to
\* A when a layer ends, the resets of resetAgent reach A before the next
\* layer's instructions, and those before the next question.
THEOREM SpecsAreAnswers == Spec => []SpecAnswersItsLayer
<1>1. Init => IInv /\ OrdersInv /\ QuestionsInv /\ QuietInv /\ BriefInv
  BY InitTyped, OrdersInit, QuestionsInit, QuietInit, BriefInit
<1>2. IInv /\ OrdersInv /\ QuestionsInv /\ QuietInv /\ BriefInv /\ [Next]_vars
        => (IInv /\ OrdersInv /\ QuestionsInv /\ QuietInv /\ BriefInv)'
  BY NextTyped, OrdersStep, QuestionsStep, QuietStep, BriefStep
<1>3. BriefInv => SpecAnswersItsLayer
  BY DEF BriefInv, SpecAnswersItsLayer
<1> QED
  BY <1>1, <1>2, <1>3, PTL DEF Spec
=============================================================================
