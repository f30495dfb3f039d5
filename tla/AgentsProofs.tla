---------------------------- MODULE AgentsProofs ----------------------------
(***************************************************************************)
(* Proofs about Agents, for any finite set of agents, any number of layers *)
(* and any capacity of the channels: what the jobs that drive the          *)
(* transport, Iterate and Logogram, can rely on.                           *)
(***************************************************************************)
EXTENDS Agents, FiniteSetTheorems, SequenceTheorems, TLAPS

\* The messages of the language layers' agents.
Talking == {m \in Message : m.from \in Agent /\ LayerOf[m.from] \in Layer}

\* What the Router holds comes from an agent, and procedureChan holds nothing
\* but the layers' talk: the transcripts could not be typed without it.
RoutedInv ==
  /\ routerHand # NoMsg => routerHand.from \in Agent
  /\ procedureChan \in Seq(Talking)

-----------------------------------------------------------------------------
(* Messages and requests.                                                  *)

LEMMA MsgType ==
  ASSUME NEW from \in Agent \cup {Server}, NEW to \in Agent \cup {Server},
         NEW cmd \in Command, NEW about \in SUBSET Layer
  PROVE  Msg(from, to, cmd, about) \in Message
  BY DEF Msg, Message

LEMMA MessageFields ==
  ASSUME NEW m \in Message
  PROVE  /\ m.from \in Agent \cup {Server} /\ m.to \in Agent \cup {Server}
         /\ m.cmd \in Command /\ m.about \in SUBSET Layer
         /\ m.prompt \in SUBSET Layer /\ m.json \in BOOLEAN
  BY DEF Message

LEMMA SpawnedType ==
  ASSUME NEW typed \in BOOLEAN, NEW about \in SUBSET Layer
  PROVE  Spawned(typed, about) \in Call
  BY DEF Spawned, Call

LEMMA CancelledType ==
  ASSUME NEW cs \in Seq(Call)
  PROVE  Cancelled(cs) \in Seq(Call)
<1>1. \A c \in Call : [c EXCEPT !.cancelled = TRUE] \in Call
  BY DEF Call
<1>2. DOMAIN cs = 1 .. Len(cs) /\ Len(cs) \in Nat
  OBVIOUS
<1> QED
  BY <1>1, <1>2 DEF Cancelled

LEMMA WithoutType ==
  ASSUME NEW cs \in Seq(Call), NEW k \in DOMAIN cs
  PROVE  Without(cs, k) \in Seq(Call)
<1>1. Len(cs) \in Nat /\ k \in 1 .. Len(cs)
  OBVIOUS
<1>2. \A j \in 1 .. Len(cs) - 1 : (IF j < k THEN cs[j] ELSE cs[j + 1]) \in Call
  BY <1>1
<1>3. Len(cs) - 1 \in Nat
  BY <1>1
<1> QED
  BY <1>2, <1>3 DEF Without

LEMMA OneMoreType ==
  ASSUME NEW counts \in [Layer -> Nat], NEW a \in Agent
  PROVE  OneMore(counts, a) \in [Layer -> Nat]
  BY DEF OneMore

-----------------------------------------------------------------------------
(* The transport.                                                          *)

LEMMA JoinTyped ==
  ASSUME NetTypeOK, NEW a \in Agent, Join(a) \/ Listen(a) \/ Disconnect(a)
  PROVE  NetTypeOK'
<1>1. CASE Join(a)
  BY <1>1 DEF NetTypeOK, Join, queueVars, agentVars
<1>2. CASE Listen(a)
  <2>1. /\ Head(fromAgent[a]) \in Message
        /\ Tail(fromAgent[a]) \in Seq(Message)
    BY <1>2 DEF NetTypeOK, Listen
  <2> QED
    BY <1>2, <2>1 DEF NetTypeOK, Listen
<1>3. CASE Disconnect(a)
  BY <1>3 DEF NetTypeOK, Disconnect, queueVars
<1> QED
  BY <1>1, <1>2, <1>3

LEMMA RouterTyped ==
  ASSUME NetTypeOK, RoutedInv, RouterForward \/ RouterDispatch
  PROVE  NetTypeOK' /\ RoutedInv'
<1>1. CASE RouterForward
  <2> DEFINE m == Head(toClients)
  <2>1. m \in Message /\ Tail(toClients) \in Seq(Message)
    BY <1>1 DEF NetTypeOK, RouterForward
  <2>2. toAgent' \in [Agent -> Seq(Message)]
    BY <1>1, <2>1 DEF NetTypeOK, RouterForward, Reachable
  <2>3. routerHand' \in Message \cup {NoMsg}
    BY <1>1, <2>1 DEF RouterForward
  <2>4. routerHand' # NoMsg => routerHand'.from \in Agent
    BY <1>1, <2>1, MessageFields DEF RouterForward, IsAgentMsg
  <2> QED
    BY <1>1, <2>1, <2>2, <2>3, <2>4 DEF NetTypeOK, RoutedInv, RouterForward
<1>2. CASE RouterDispatch
  <2>1. routerHand \in Message /\ routerHand.from \in Agent
    BY <1>2 DEF NetTypeOK, RoutedInv, RouterDispatch
  <2>2. LayerOf[routerHand.from] # 0 => routerHand \in Talking
    BY <2>1, AgentAssumption, LayersAssumption DEF Talking, Layer
  <2>3. procedureChan' \in Seq(Message) /\ procedureChan' \in Seq(Talking)
    <3>1. CASE LayerOf[routerHand.from] # 0
      <4>1. procedureChan' = Append(procedureChan, routerHand)
        BY <1>2, <3>1 DEF RouterDispatch
      <4>2. procedureChan \in Seq(Message) /\ procedureChan \in Seq(Talking)
        BY DEF NetTypeOK, RoutedInv
      <4> QED
        BY <2>1, <2>2, <3>1, <4>1, <4>2
    <3>2. CASE LayerOf[routerHand.from] = 0
      BY <1>2, <3>2 DEF NetTypeOK, RoutedInv, RouterDispatch
    <3> QED
      BY <3>1, <3>2
  <2>4. toServer' \in Seq(Message)
    <3>1. CASE LayerOf[routerHand.from] # 0
      BY <1>2, <3>1 DEF NetTypeOK, RouterDispatch
    <3>2. CASE LayerOf[routerHand.from] = 0
      <4>1. toServer' = Append(toServer, routerHand)
        BY <1>2, <3>2 DEF RouterDispatch
      <4>2. toServer \in Seq(Message)
        BY DEF NetTypeOK
      <4> QED
        BY <2>1, <4>1, <4>2
    <3> QED
      BY <3>1, <3>2
  <2> QED
    BY <1>2, <2>3, <2>4 DEF NetTypeOK, RoutedInv, RouterDispatch, agentVars
<1> QED
  BY <1>1, <1>2

-----------------------------------------------------------------------------
(* The agents.                                                             *)

\* Taking a message leaves a's stream a sequence of messages.
LEMMA ReceivesTyped ==
  ASSUME NetTypeOK, NEW a \in Agent, NEW cmd, Receives(a, cmd)
  PROVE  /\ toAgent' \in [Agent -> Seq(Message)]
         /\ Inbox(a).about \in SUBSET Layer /\ Inbox(a).json \in BOOLEAN
<1>1. toAgent[a] \in Seq(Message) /\ toAgent[a] # <<>>
  BY DEF NetTypeOK, Receives
<1>2. Head(toAgent[a]) \in Message /\ Tail(toAgent[a]) \in Seq(Message)
  BY <1>1
<1> QED
  BY <1>2, MessageFields DEF NetTypeOK, Receives, Inbox

LEMMA CancelTyped ==
  ASSUME NetTypeOK, NEW a \in Agent, CancelPrevious(a)
  PROVE  calls' \in [Agent -> Seq(Call)]
<1>1. Cancelled(calls[a]) \in Seq(Call)
  BY CancelledType DEF NetTypeOK
<1> QED
  BY <1>1 DEF NetTypeOK, CancelPrevious

LEMMA SpawnTyped ==
  ASSUME NetTypeOK, NEW a \in Agent, NEW c \in Call, Spawn(a, c)
  PROVE  calls' \in [Agent -> Seq(Call)]
<1>1. Cancelled(calls[a]) \in Seq(Call)
  BY CancelledType DEF NetTypeOK
<1>2. Append(Cancelled(calls[a]), c) \in Seq(Call)
  BY <1>1
<1> QED
  BY <1>2 DEF NetTypeOK, Spawn

LEMMA CommandTyped ==
  ASSUME NetTypeOK, NEW a \in Agent, AgentRoute(a)
  PROVE  NetTypeOK'
<1> USE DEF NetTypeOK, queueVars
<1>1. CASE OnAppendInstructions(a)
  BY <1>1, ReceivesTyped, CancelTyped DEF OnAppendInstructions
<1>2. CASE OnResetInstructions(a)
  BY <1>2, ReceivesTyped, CancelTyped DEF OnResetInstructions
<1>3. CASE OnClearMemory(a)
  BY <1>3, ReceivesTyped, CancelTyped DEF OnClearMemory
<1>4. CASE OnLatch(a)
  BY <1>4, ReceivesTyped, CancelTyped DEF OnLatch
<1>5. CASE OnUnlatch(a)
  BY <1>5, ReceivesTyped, CancelTyped DEF OnUnlatch
<1>6. CASE OnSendInitialMessage(a)
  <2>1. /\ toAgent' \in [Agent -> Seq(Message)] /\ Inbox(a).about \in SUBSET Layer
        /\ calls' \in [Agent -> Seq(Call)]
    BY <1>6, ReceivesTyped, CancelTyped DEF OnSendInitialMessage
  <2>2. Opening(a) \in Message
    <3>1. Inbox(a).json \in BOOLEAN
      BY <1>6, ReceivesTyped DEF OnSendInitialMessage
    <3>2. Msg(a, PeerOf[a], "NoCommand", Inbox(a).about) \in Message
      BY <2>1, MsgType, AgentAssumption DEF Command
    <3>3. \A m \in Message, j \in BOOLEAN : [m EXCEPT !.json = j] \in Message
      BY DEF Message
    <3> QED
      BY <3>1, <3>2, <3>3 DEF Opening
  <2>3. OneMore(said, a) \in [Layer -> Nat]
    BY OneMoreType
  <2>4. /\ stm' \in [Agent -> SUBSET Layer]
        /\ fromAgent' \in [Agent -> Seq(Message)]
        /\ said' \in [Layer -> Nat]
    <3>1. CASE latch[a]
      BY <1>6, <3>1 DEF OnSendInitialMessage
    <3>2. CASE ~latch[a]
      <4>1. stm' \in [Agent -> SUBSET Layer] /\ said' \in [Layer -> Nat]
        <5>1. stm' = [stm EXCEPT ![a] = @ \cup Inbox(a).about] /\ said' = OneMore(said, a)
          BY <1>6, <3>2 DEF OnSendInitialMessage
        <5> QED
          BY <2>1, <2>3, <5>1
      <4>2. Append(fromAgent[a], Opening(a)) \in Seq(Message)
        BY <2>2
      <4>3. fromAgent' \in [Agent -> Seq(Message)]
        BY <1>6, <3>2, <4>2 DEF OnSendInitialMessage
      <4> QED
        BY <4>1, <4>3
    <3> QED
      BY <3>1, <3>2
  <2> QED
    BY <1>6, <2>1, <2>4 DEF OnSendInitialMessage
<1>7. CASE OnRequest(a)
  <2>1. toAgent' \in [Agent -> Seq(Message)] /\ Inbox(a).about \in SUBSET Layer
    <3>1. PICK cmd \in TypedRequest : Receives(a, cmd)
      BY <1>7 DEF OnRequest
    <3> QED
      BY <3>1, ReceivesTyped
  <2>2. calls' \in [Agent -> Seq(Call)]
    BY <1>7, <2>1, SpawnTyped, SpawnedType DEF OnRequest
  <2> QED
    BY <1>7, <2>1, <2>2 DEF OnRequest
<1>9. CASE OnSetInstructions(a)
  BY <1>9, ReceivesTyped, CancelTyped DEF OnSetInstructions
<1>8. CASE OnText(a)
  <2>1. toAgent' \in [Agent -> Seq(Message)] /\ Inbox(a).about \in SUBSET Layer
    BY <1>8, ReceivesTyped DEF OnText
  <2>2. Spawned(FALSE, {}) \in Call
    BY SpawnedType
  <2>3. calls' \in [Agent -> Seq(Call)]
    BY <1>8, <2>2, SpawnTyped DEF OnText
  <2> QED
    BY <1>8, <2>1, <2>3 DEF OnText
<1> QED
  BY <1>1, <1>2, <1>3, <1>4, <1>5, <1>6, <1>7, <1>8, <1>9 DEF AgentRoute

LEMMA StartedType ==
  ASSUME NEW c \in Call
  PROVE  /\ Started(c) \in Call /\ Started(c).cancelled = c.cancelled
         /\ Saved(c) \in Call /\ Saved(c).cancelled = c.cancelled
  BY DEF Started, Saved, Call

LEMMA AskedType ==
  ASSUME NEW c \in Call, NEW about \in SUBSET Layer
  PROVE  Asked(c, about) \in Call
  BY DEF Asked, Call

LEMMA PostedType ==
  ASSUME NEW c \in Call, NEW prompt \in SUBSET Layer
  PROVE  Posted(c, prompt) \in Call
  BY DEF Posted, Call

LEMMA ReplyType ==
  ASSUME NEW a \in Agent, NEW c \in Call, NEW json \in BOOLEAN
  PROVE  Reply(a, c, json) \in Message /\ c.about \in SUBSET Layer
<1>1. c.about \in SUBSET Layer /\ c.prompt \in SUBSET Layer
  BY DEF Call
<1>2. Msg(a, PeerOf[a], "NoCommand", c.about) \in Message
  BY <1>1, MsgType, AgentAssumption DEF Command
<1> QED
  BY <1>1, <1>2 DEF Reply, Message

\* The ways a request's step may change calls.
LEMMA BecomesTyped ==
  ASSUME NetTypeOK, NEW a \in Agent, NEW k \in DOMAIN calls[a], NEW c \in Call,
         Becomes(a, k, c)
  PROVE  calls' \in [Agent -> Seq(Call)]
<1>1. calls[a] \in Seq(Call)
  BY DEF NetTypeOK
<1>2. [calls[a] EXCEPT ![k] = c] \in Seq(Call)
  BY <1>1, ExceptSeq
<1> QED
  BY <1>2 DEF NetTypeOK, Becomes

LEMMA QuitTyped ==
  ASSUME NetTypeOK, NEW a \in Agent, NEW k \in DOMAIN calls[a], Quit(a, k)
  PROVE  calls' \in [Agent -> Seq(Call)]
<1>1. Without(calls[a], k) \in Seq(Call)
  BY WithoutType DEF NetTypeOK
<1> QED
  BY <1>1 DEF NetTypeOK, Quit

LEMMA DieTyped ==
  ASSUME NetTypeOK, NEW a \in Agent, Die(a)
  PROVE  /\ alive' \in [Agent -> BOOLEAN]
         /\ calls' \in [Agent -> Seq(Call)]
         /\ toAgent' \in [Agent -> Seq(Message)]
  BY DEF NetTypeOK, Die

LEMMA CallTyped ==
  ASSUME NetTypeOK, NEW a \in Agent, NEW k \in DOMAIN calls[a], CallStep(a, k)
  PROVE  NetTypeOK'
<1> USE DEF NetTypeOK, queueVars
<1>0. calls[a][k] \in Call /\ stm[a] \in SUBSET Layer /\ instr[a] \in SUBSET Layer
  BY ElementOfSeq
<1>1. CASE Retrieve(a, k)
  <2>1. Asked(calls[a][k], stm[a]) \in Call
    BY <1>0, AskedType
  <2> QED
    BY <1>1, <2>1, BecomesTyped, DieTyped DEF Retrieve
<1>2. CASE StartTyped(a, k) \/ SaveTyped(a, k)
  <2>1. Started(calls[a][k]) \in Call /\ Saved(calls[a][k]) \in Call
    BY <1>0, StartedType
  <2>2. calls[a][k].about \in SUBSET Layer
    BY <1>0 DEF Call
  <2>3. stm' \in [Agent -> SUBSET Layer]
    BY <1>2, <2>2 DEF StartTyped, SaveTyped
  <2>4. calls' \in [Agent -> Seq(Call)]
    BY <1>2, <2>1, BecomesTyped, QuitTyped DEF StartTyped, SaveTyped
  <2> QED
    BY <1>2, <2>3, <2>4 DEF StartTyped, SaveTyped
<1>3. CASE Post(a, k)
  <2>1. Posted(calls[a][k], instr[a]) \in Call
    BY <1>0, PostedType
  <2> QED
    BY <1>3, <2>1, BecomesTyped DEF Post
<1>4. CASE Answer(a, k)
  <2>1. PICK json \in BOOLEAN :
          fromAgent' = [fromAgent EXCEPT ![a] = Append(@, Reply(a, calls[a][k], json))]
    BY <1>4 DEF Answer
  <2>2. Reply(a, calls[a][k], json) \in Message /\ calls[a][k].about \in SUBSET Layer
    BY <1>0, ReplyType
  <2>3. OneMore(said, a) \in [Layer -> Nat]
    BY OneMoreType
  <2>4. calls' \in [Agent -> Seq(Call)]
    BY <1>4, QuitTyped DEF Answer
  <2>5. fromAgent' \in [Agent -> Seq(Message)]
    BY <2>1, <2>2
  <2>6. faults' \in 0 .. MaxFaults
    BY <1>4, BoundAssumption DEF Answer, Fault
  <2> QED
    BY <1>4, <2>2, <2>3, <2>4, <2>5, <2>6 DEF Answer
<1>5. CASE GiveUp(a, k)
  BY <1>5, QuitTyped DEF GiveUp
<1>6. CASE CancelKills(a, k)
  BY <1>6, DieTyped DEF CancelKills
<1>7. CASE LlmFails(a, k)
  BY <1>7, DieTyped, BoundAssumption DEF LlmFails, Fault
<1> QED
  BY <1>1, <1>2, <1>3, <1>4, <1>5, <1>6, <1>7 DEF CallStep

LEMMA NetStep ==
  ASSUME NetTypeOK, RoutedInv, NetNext
  PROVE  NetTypeOK' /\ RoutedInv'
<1>1. ASSUME NEW a \in Agent, AgentStep(a)
      PROVE  NetTypeOK' /\ UNCHANGED <<routerHand, procedureChan>>
  <2>1. NetTypeOK'
    BY <1>1, JoinTyped, CommandTyped, CallTyped DEF AgentStep
  <2>2. UNCHANGED <<routerHand, procedureChan>>
    BY <1>1 DEF AgentStep, AgentRoute, CallStep, Join, Listen, Disconnect, queueVars,
         OnAppendInstructions, OnSetInstructions, OnResetInstructions,
         OnClearMemory, OnLatch,
         OnUnlatch, OnSendInitialMessage, OnRequest, OnText, StartTyped, SaveTyped,
         Retrieve, Post, Answer, GiveUp, CancelKills, LlmFails
  <2> QED
    BY <2>1, <2>2
<1>2. ASSUME UNCHANGED <<routerHand, procedureChan>> PROVE RoutedInv'
  BY <1>2 DEF RoutedInv
<1> QED
  BY <1>1, <1>2, RouterTyped DEF NetNext

-----------------------------------------------------------------------------
(* The commands the jobs send.                                             *)

CommandOf == [cmd : Command, about : SUBSET Layer]

LEMMA CmdType ==
  ASSUME NEW cmd \in Command, NEW about \in SUBSET Layer
  PROVE  Cmd(cmd, about) \in CommandOf
  BY DEF Cmd, CommandOf

\* The i-th of the orders made from n commands for each of l clients is the
\* command and the client that division and remainder name.
LEMMA DivMod ==
  ASSUME NEW n \in Nat, NEW l \in Nat, NEW i \in 1 .. l * n
  PROVE  /\ 1 + ((i - 1) % n) \in 1 .. n
         /\ 1 + ((i - 1) \div n) \in 1 .. l
<1>1. n > 0
  <2> SUFFICES ASSUME n = 0 PROVE FALSE
    OBVIOUS
  <2>1. l * n = 0
    OBVIOUS
  <2> QED
    BY <2>1
<1> DEFINE q == (i - 1) \div n
           r == (i - 1) % n
<1>2. q \in Int /\ r \in 0 .. n - 1 /\ i - 1 = n * q + r
  BY <1>1
<1> HIDE DEF q, r
<1>3. q >= 0
  <2> SUFFICES ASSUME q <= -1 PROVE FALSE
    BY <1>2
  <2>1. n * q <= n * (-1)
    BY <1>1, <1>2
  <2> QED
    BY <1>2, <2>1
<1>4. q < l
  <2> SUFFICES ASSUME q >= l PROVE FALSE
    BY <1>2
  <2>1. n * q >= n * l
    BY <1>1, <1>2
  <2> QED
    BY <1>2, <2>1
<1> QED
  BY <1>2, <1>3, <1>4 DEF q, r

\* A function on an initial segment of the naturals is a sequence.
LEMMA SegmentIsSeq ==
  ASSUME NEW S, NEW m \in Nat, NEW f \in [1 .. m -> S]
  PROVE  f \in Seq(S)
<1>1. [1 .. m -> S] \in {[1 .. n -> S] : n \in Nat}
  OBVIOUS
<1>2. f \in UNION {[1 .. n -> S] : n \in Nat}
  BY <1>1
<1> QED
  BY <1>2, SeqDef, Zenon

LEMMA SendCommandsType ==
  ASSUME NEW as \in Seq(Agent), NEW commands \in Seq(CommandOf)
  PROVE  SendCommands(as, commands) \in Seq(Message)
<1>1. PICK n : n = Len(commands)
  OBVIOUS
<1>2. PICK l : l = Len(as)
  OBVIOUS
<1>3. n \in Nat /\ l \in Nat
  BY <1>1, <1>2, LenProperties
<1> DEFINE order(i) == Order(as[1 + ((i - 1) \div n)],
                             commands[1 + ((i - 1) % n)].cmd,
                             commands[1 + ((i - 1) % n)].about)
<1>4. ASSUME NEW i \in 1 .. l * n PROVE order(i) \in Message
  <2>1. PICK j : j = 1 + ((i - 1) \div n)
    OBVIOUS
  <2>2. PICK k : k = 1 + ((i - 1) % n)
    OBVIOUS
  <2>3. j \in 1 .. l /\ k \in 1 .. n
    BY <1>3, <2>1, <2>2, DivMod
  <2>4. as[j] \in Agent /\ commands[k] \in CommandOf
    BY <1>1, <1>2, <2>3, ElementOfSeq
  <2>5. /\ commands[k].cmd \in Command
        /\ commands[k].about \in SUBSET Layer
    BY <2>4 DEF CommandOf
  <2>6. Msg(Server, as[j], commands[k].cmd, commands[k].about) \in Message
    BY <2>4, <2>5, MsgType
  <2> QED
    BY <2>1, <2>2, <2>6, Zenon DEF Order
<1>5. SendCommands(as, commands) = [i \in 1 .. l * n |-> order(i)]
  BY <1>1, <1>2 DEF SendCommands
<1> HIDE DEF order
<1>6. [i \in 1 .. l * n |-> order(i)] \in [1 .. l * n -> Message]
  BY <1>4
<1>7. l * n \in Nat
  BY <1>3
<1> QED
  BY <1>5, <1>6, <1>7, SegmentIsSeq, Zenon

LEMMA ResetType == Reset \in Seq(CommandOf)
<1>1. /\ Cmd("Latch", {}) \in CommandOf
      /\ Cmd("ClearMemory", {}) \in CommandOf
      /\ Cmd("ResetInstructions", {}) \in CommandOf
  BY CmdType DEF Command
<1> QED
  BY <1>1 DEF Reset

-----------------------------------------------------------------------------
(***************************************************************************)
(* What a sequence holds of a set S: nothing (Lacks), at most one place    *)
(* (Few); t holds no more of it than s (Thins).                            *)
(***************************************************************************)

Lacks(s, S) == \A i \in DOMAIN s : s[i] \notin S
Few(s, S) == \A i, j \in DOMAIN s : s[i] \in S /\ s[j] \in S => i = j
Thins(t, s, S) == /\ Lacks(s, S) => Lacks(t, S)
                  /\ Few(s, S) => Few(t, S)

LEMMA EmptyLacks == \A S : Lacks(<<>>, S) /\ Few(<<>>, S)
  BY DEF Lacks, Few

LEMMA LacksFew ==
  ASSUME NEW s, NEW S, Lacks(s, S)
  PROVE  Few(s, S)
  BY DEF Lacks, Few

LEMMA ThinTail ==
  ASSUME NEW U, NEW s \in Seq(U), s # <<>>, NEW S
  PROVE  /\ Thins(Tail(s), s, S)
         /\ Head(s) \in S => ~Lacks(s, S) /\ (Few(s, S) => Lacks(Tail(s), S))
<1>1. /\ Len(s) \in Nat /\ Len(s) >= 1 /\ DOMAIN s = 1 .. Len(s)
      /\ DOMAIN Tail(s) = 1 .. Len(s) - 1 /\ Head(s) = s[1]
      /\ \A i \in DOMAIN Tail(s) : Tail(s)[i] = s[i + 1] /\ i + 1 \in DOMAIN s
  OBVIOUS
<1>2. Thins(Tail(s), s, S)
  BY <1>1 DEF Thins, Lacks, Few
<1>3. ASSUME Head(s) \in S
      PROVE  ~Lacks(s, S) /\ (Few(s, S) => Lacks(Tail(s), S))
  <2>1. 1 \in DOMAIN s /\ s[1] \in S
    BY <1>1, <1>3
  <2>2. \A i \in DOMAIN Tail(s) : i + 1 # 1
    BY <1>1
  <2> QED
    BY <1>1, <2>1, <2>2 DEF Lacks, Few
<1> QED
  BY <1>2, <1>3

LEMMA ThinWithout ==
  ASSUME NEW U, NEW cs \in Seq(U), NEW k \in DOMAIN cs, NEW S
  PROVE  /\ Thins(Without(cs, k), cs, S)
         /\ cs[k] \in S => ~Lacks(cs, S) /\ (Few(cs, S) => Lacks(Without(cs, k), S))
<1>1. Len(cs) \in Nat /\ DOMAIN cs = 1 .. Len(cs) /\ k \in 1 .. Len(cs)
  OBVIOUS
<1> DEFINE h(i) == IF i < k THEN i ELSE i + 1
<1>2. /\ DOMAIN Without(cs, k) = 1 .. Len(cs) - 1
      /\ \A i \in DOMAIN Without(cs, k) :
           Without(cs, k)[i] = cs[h(i)] /\ h(i) \in DOMAIN cs /\ h(i) # k
  BY <1>1 DEF Without
<1>3. \A i, j \in DOMAIN Without(cs, k) : h(i) = h(j) => i = j
  BY <1>1, <1>2
<1> HIDE DEF h
<1>4. Thins(Without(cs, k), cs, S)
  BY <1>2, <1>3 DEF Thins, Lacks, Few
<1> QED
  BY <1>2, <1>4 DEF Lacks, Few

LEMMA Appending ==
  ASSUME NEW U, NEW s \in Seq(U), NEW y, NEW S
  PROVE  /\ Lacks(Append(s, y), S) <=> Lacks(s, S) /\ y \notin S
         /\ Lacks(s, S) => Few(Append(s, y), S)
         /\ y \notin S => Thins(Append(s, y), s, S)
<1>1. /\ Len(s) \in Nat /\ DOMAIN s = 1 .. Len(s)
      /\ DOMAIN Append(s, y) = 1 .. Len(s) + 1
      /\ \A i \in 1 .. Len(s) : Append(s, y)[i] = s[i]
      /\ Append(s, y)[Len(s) + 1] = y
  OBVIOUS
<1>2. \A i \in DOMAIN Append(s, y) : i = Len(s) + 1 \/ i \in DOMAIN s
  BY <1>1
<1>3. DOMAIN s \subseteq DOMAIN Append(s, y) /\ Len(s) + 1 \in DOMAIN Append(s, y)
  BY <1>1
<1> QED
  BY <1>1, <1>2, <1>3 DEF Thins, Lacks, Few

LEMMA Concatenating ==
  ASSUME NEW U, NEW s \in Seq(U), NEW t \in Seq(U), NEW S
  PROVE  /\ Lacks(s \o t, S) <=> Lacks(s, S) /\ Lacks(t, S)
         /\ Few(s, S) /\ Lacks(t, S) => Few(s \o t, S)
         /\ Lacks(s, S) /\ Few(t, S) => Few(s \o t, S)
<1>1. /\ Len(s) \in Nat /\ Len(t) \in Nat
      /\ DOMAIN s = 1 .. Len(s) /\ DOMAIN t = 1 .. Len(t)
      /\ DOMAIN (s \o t) = 1 .. Len(s) + Len(t)
      /\ \A i \in 1 .. Len(s) : (s \o t)[i] = s[i]
      /\ \A i \in 1 .. Len(t) : (s \o t)[Len(s) + i] = t[i]
  OBVIOUS
<1>2. \A i \in DOMAIN (s \o t) :
        \/ i \in DOMAIN s /\ (s \o t)[i] = s[i]
        \/ i - Len(s) \in DOMAIN t /\ (s \o t)[i] = t[i - Len(s)]
  <2> TAKE i \in DOMAIN (s \o t)
  <2>1. i \in 1 .. Len(s) \/ i - Len(s) \in 1 .. Len(t)
    BY <1>1
  <2>2. i = Len(s) + (i - Len(s))
    BY <1>1
  <2> QED
    BY <1>1, <2>1, <2>2
<1>3. /\ \A i \in DOMAIN s : i \in DOMAIN (s \o t)
      /\ \A i \in DOMAIN t : Len(s) + i \in DOMAIN (s \o t)
  BY <1>1
<1>4. Lacks(s \o t, S) <=> Lacks(s, S) /\ Lacks(t, S)
  BY <1>1, <1>2, <1>3 DEF Lacks
<1>5. ASSUME Few(s, S), Lacks(t, S) PROVE Few(s \o t, S)
  BY <1>2, <1>5 DEF Few, Lacks
<1>6. ASSUME Lacks(s, S), Few(t, S) PROVE Few(s \o t, S)
  <2> SUFFICES ASSUME NEW i \in DOMAIN (s \o t), NEW j \in DOMAIN (s \o t),
                      (s \o t)[i] \in S, (s \o t)[j] \in S
               PROVE  i = j
    BY DEF Few
  <2>1. /\ i - Len(s) \in DOMAIN t /\ t[i - Len(s)] \in S
        /\ j - Len(s) \in DOMAIN t /\ t[j - Len(s)] \in S
    BY <1>2, <1>6 DEF Lacks
  <2>2. i - Len(s) = j - Len(s)
    BY <1>6, <2>1 DEF Few
  <2> QED
    BY <1>1, <2>2
<1> QED
  BY <1>4, <1>5, <1>6

\* Elements that leave S or stay in it where they are.
LEMMA ThinRelabelled ==
  ASSUME NEW t, NEW s, NEW S, DOMAIN t = DOMAIN s,
         \A i \in DOMAIN t : t[i] \in S => s[i] \in S
  PROVE  Thins(t, s, S)
  BY DEF Thins, Lacks, Few

-----------------------------------------------------------------------------
(***************************************************************************)
(* A token is a message or a request of a set S.  f, a function from boxes *)
(* to their contents, holds no token (Void) or at most one in one place    *)
(* (Single); g holds no more than f did (Kept).                            *)
(***************************************************************************)

Void(f, B, S) == \A b \in B : Lacks(f[b], S)
Single(f, B, S) == /\ \A b \in B : Few(f[b], S)
                   /\ \A b, c \in B : b # c => Lacks(f[b], S) \/ Lacks(f[c], S)
Kept(g, f, B, S) == /\ Void(f, B, S) => Void(g, B, S)
                    /\ Single(f, B, S) => Single(g, B, S)

LEMMA VoidSingle ==
  ASSUME NEW f, NEW B, NEW S, Void(f, B, S)
  PROVE  Single(f, B, S)
  BY LacksFew DEF Void, Single

\* Boxes only lose.
LEMMA Thinned ==
  ASSUME NEW f, NEW g, NEW B, NEW S, \A b \in B : Thins(g[b], f[b], S)
  PROVE  Kept(g, f, B, S)
  BY DEF Kept, Void, Single, Thins

\* One box may gain a token that another one loses.
LEMMA Moved ==
  ASSUME NEW f, NEW g, NEW B, NEW S, NEW b \in B, NEW c \in B, b # c,
         \A d \in B \ {c} : Thins(g[d], f[d], S),
         \/ Thins(g[c], f[c], S)
         \/ /\ ~Lacks(f[b], S) /\ (Few(f[b], S) => Lacks(g[b], S))
            /\ Lacks(f[c], S) => Few(g[c], S)
  PROVE  Kept(g, f, B, S)
<1>1. CASE Thins(g[c], f[c], S)
  BY <1>1, Thinned
<1>2. CASE /\ ~Lacks(f[b], S) /\ (Few(f[b], S) => Lacks(g[b], S))
           /\ Lacks(f[c], S) => Few(g[c], S)
  <2>1. ~Void(f, B, S)
    BY <1>2 DEF Void
  <2>2. ASSUME Single(f, B, S) PROVE Single(g, B, S)
    <3>1. \A d \in B \ {b} : Lacks(f[d], S)
      BY <1>2, <2>2 DEF Single
    <3>2. Lacks(g[b], S) /\ Few(g[c], S)
      BY <1>2, <2>2, <3>1 DEF Single
    <3>3. \A d \in B \ {c} : Lacks(g[d], S)
      BY <3>1, <3>2 DEF Thins
    <3> QED
      BY <3>2, <3>3, LacksFew DEF Single
  <2> QED
    BY <2>1, <2>2 DEF Kept
<1> QED
  BY <1>1, <1>2

\* The jobs put something into their own box, and may take a token.
LEMMA Replaced ==
  ASSUME NEW f, NEW g, NEW B, NEW S, NEW b \in B,
         \A d \in B \ {b} : Thins(g[d], f[d], S)
  PROVE  /\ Void(f, B, S) /\ Lacks(g[b], S) => Void(g, B, S)
         /\ Void(f, B, S) /\ Few(g[b], S) => Single(g, B, S)
         /\ Single(f, B, S) /\ Lacks(g[b], S) => Single(g, B, S)
<1>1. Void(f, B, S) => \A d \in B \ {b} : Lacks(g[d], S) /\ Few(g[d], S)
  BY LacksFew DEF Void, Thins
<1>2. ASSUME Single(f, B, S), Lacks(g[b], S) PROVE Single(g, B, S)
  <2>1. \A d \in B : Few(g[d], S)
    BY <1>2, LacksFew DEF Single, Thins
  <2>2. \A d, e \in B : d # e => Lacks(g[d], S) \/ Lacks(g[e], S)
    BY <1>2 DEF Single, Thins
  <2> QED
    BY <2>1, <2>2 DEF Single
<1> QED
  BY <1>1, <1>2 DEF Void, Single

LEMMA Removed ==
  ASSUME NEW f, NEW g, NEW B, NEW S, NEW b \in B, NEW c \in B, b # c,
         \A d \in B \ {b} : Thins(g[d], f[d], S),
         ~Lacks(f[c], S), Few(f[c], S) => Lacks(g[c], S), Single(f, B, S)
  PROVE  /\ Lacks(g[b], S) => Void(g, B, S)
         /\ Few(g[b], S) => Single(g, B, S)
<1>1. \A d \in B \ {b} : Lacks(g[d], S) /\ Few(g[d], S)
  BY LacksFew DEF Single, Thins
<1> QED
  BY <1>1 DEF Void, Single

\* Places in the boxes of a function.
LEMMA SingleSame ==
  ASSUME NEW f, NEW B, NEW S, Single(f, B, S), NEW b \in B, NEW c \in B,
         NEW i \in DOMAIN f[b], NEW j \in DOMAIN f[c], f[b][i] \in S, f[c][j] \in S
  PROVE  b = c /\ i = j
  BY DEF Single, Lacks, Few

-----------------------------------------------------------------------------
(* The contents of the boxes.                                              *)

Channels == {"jobs", "toClients", "routerHand", "toServer"}

Contents(B, sending) == [b \in B |-> Content(b, sending)]

\* What a step does to each kind of box tells what it does to all of them.
LEMMA BoxByBox ==
  ASSUME NEW channels \in SUBSET Channels, NEW as \in SUBSET Agent, NEW S,
         NEW D \in SUBSET Boxes(channels, as), NEW before, NEW after,
         <<"jobs", Server>> \in D => Thins(after, before, S),
         <<"toClients", Server>> \in D => Thins(toClients', toClients, S),
         <<"routerHand", Server>> \in D => Thins(Hand(routerHand)', Hand(routerHand), S),
         <<"toServer", Server>> \in D => Thins(toServer', toServer, S),
         \A a \in as :
           /\ <<"toAgent", a>> \in D => Thins(toAgent'[a], toAgent[a], S)
           /\ <<"fromAgent", a>> \in D => Thins(fromAgent'[a], fromAgent[a], S)
           /\ <<"calls", a>> \in D => Thins(calls'[a], calls[a], S)
  PROVE  \A b \in D : Thins(Contents(Boxes(channels, as), after)'[b],
                            Contents(Boxes(channels, as), before)[b], S)
<1> TAKE b \in D
<1>1. /\ Contents(Boxes(channels, as), before)[b] = Content(b, before)
      /\ Contents(Boxes(channels, as), after)'[b] = Content(b, after)'
  BY DEF Contents
<1>0. b \in Boxes(channels, as)
  OBVIOUS
<1>2. CASE \E n \in channels : b = <<n, Server>>
  <2>0. PICK n \in channels : b = <<n, Server>>
    BY <1>2
  <2>1. n \in {"jobs", "toClients", "routerHand", "toServer"}
    BY DEF Channels
  <2>2. CASE n = "jobs"
    BY <1>1, <2>0, <2>2 DEF Content
  <2>3. CASE n = "toClients"
    BY <1>1, <2>0, <2>3 DEF Content
  <2>4. CASE n = "routerHand"
    BY <1>1, <2>0, <2>4 DEF Content
  <2>5. CASE n = "toServer"
    BY <1>1, <2>0, <2>5 DEF Content
  <2> QED
    BY <2>1, <2>2, <2>3, <2>4, <2>5
<1>3. ASSUME NEW a \in as,
             b = <<"toAgent", a>> \/ b = <<"fromAgent", a>> \/ b = <<"calls", a>>
      PROVE  Thins(Contents(Boxes(channels, as), after)'[b],
                   Contents(Boxes(channels, as), before)[b], S)
  <2>2. CASE b = <<"toAgent", a>>
    BY <1>1, <2>2 DEF Content
  <2>3. CASE b = <<"fromAgent", a>>
    BY <1>1, <2>3 DEF Content
  <2>4. CASE b = <<"calls", a>>
    BY <1>1, <2>4 DEF Content
  <2> QED
    BY <1>3, <2>2, <2>3, <2>4
<1>4. \/ \E n \in channels : b = <<n, Server>>
      \/ \E a \in as : \/ b = <<"toAgent", a>>
                      \/ b = <<"fromAgent", a>>
                      \/ b = <<"calls", a>>
  BY <1>0, Zenon DEF Boxes
<1> QED
  BY <1>2, <1>3, <1>4, Zenon

-----------------------------------------------------------------------------
(***************************************************************************)
(* What a step of the transport does, in terms of the queues alone.        *)
(***************************************************************************)

Asking == TypedRequest \cup {"NoCommand"}

\* A message taken by action: it cancels what came before it, and a request
\* or a plain text starts a request to the LLM, a kickoff may speak.
Routed(a) ==
  /\ alive[a] /\ toAgent[a] # <<>>
  /\ toAgent' = [toAgent EXCEPT ![a] = Tail(@)]
  /\ UNCHANGED <<connected, queueVars, alive>>
  /\ \/ /\ Inbox(a).cmd \notin Asking
        /\ CancelPrevious(a)
        /\ \/ UNCHANGED fromAgent
           \/ /\ Inbox(a).cmd = "SendInitialMessage"
              /\ fromAgent' = [fromAgent EXCEPT ![a] = Append(@, Opening(a))]
     \/ /\ Inbox(a).cmd \in Asking
        /\ \E c \in Call : ~c.cancelled /\ Spawn(a, c)
        /\ UNCHANGED fromAgent

LEMMA RouteShape ==
  ASSUME NetTypeOK, NEW a \in Agent, AgentRoute(a)
  PROVE  Routed(a)
<1> USE DEF queueVars, Receives
<1>0. Inbox(a).about \in SUBSET Layer
  <2>1. toAgent[a] \in Seq(Message) /\ toAgent[a] # <<>>
    BY DEF NetTypeOK, AgentRoute, OnAppendInstructions, OnSetInstructions,
       OnResetInstructions, OnClearMemory, OnLatch, OnUnlatch,
       OnSendInitialMessage, OnRequest, OnText
  <2>2. Head(toAgent[a]) \in Message
    BY <2>1
  <2> QED
    BY <2>2, MessageFields DEF Inbox
<1>1. CASE OnAppendInstructions(a)
  BY <1>1 DEF OnAppendInstructions, Routed, Asking, TypedRequest
<1>2. CASE OnSetInstructions(a)
  BY <1>2 DEF OnSetInstructions, Routed, Asking, TypedRequest
<1>3. CASE OnResetInstructions(a)
  BY <1>3 DEF OnResetInstructions, Routed, Asking, TypedRequest
<1>4. CASE OnClearMemory(a)
  BY <1>4 DEF OnClearMemory, Routed, Asking, TypedRequest
<1>5. CASE OnLatch(a)
  BY <1>5 DEF OnLatch, Routed, Asking, TypedRequest
<1>6. CASE OnUnlatch(a)
  BY <1>6 DEF OnUnlatch, Routed, Asking, TypedRequest
<1>7. CASE OnSendInitialMessage(a)
  BY <1>7 DEF OnSendInitialMessage, Routed, Asking, TypedRequest
<1>8. CASE OnRequest(a)
  <2>1. Spawned(TRUE, Inbox(a).about) \in Call /\ ~Spawned(TRUE, Inbox(a).about).cancelled
    BY <1>0, SpawnedType DEF Spawned
  <2> QED
    BY <1>8, <2>1 DEF OnRequest, Routed, Asking
<1>9. CASE OnText(a)
  <2>1. Spawned(FALSE, {}) \in Call /\ ~Spawned(FALSE, {}).cancelled
    BY SpawnedType DEF Spawned
  <2> QED
    BY <1>9, <2>1 DEF OnText, Routed, Asking
<1> QED
  BY <1>1, <1>2, <1>3, <1>4, <1>5, <1>6, <1>7, <1>8, <1>9 DEF AgentRoute

\* A step of a request: it goes on, ends, answers or ends its agent.
Requested(a, k) ==
  /\ UNCHANGED <<connected, queueVars, latch>>
  /\ \/ Die(a) /\ UNCHANGED fromAgent
     \/ /\ UNCHANGED <<alive, toAgent>>
        /\ \/ Quit(a, k) /\ UNCHANGED fromAgent
           \/ /\ UNCHANGED fromAgent
              /\ \E c \in Call : /\ c.cancelled = calls[a][k].cancelled
                                 /\ Becomes(a, k, c)
           \/ /\ \E json \in BOOLEAN :
                   fromAgent' = [fromAgent EXCEPT ![a] = Append(@, Reply(a, calls[a][k], json))]
              /\ Quit(a, k)

LEMMA RequestShape ==
  ASSUME NetTypeOK, NEW a \in Agent, NEW k \in DOMAIN calls[a], CallStep(a, k)
  PROVE  Requested(a, k)
<1> USE DEF queueVars
<1>0. calls[a][k] \in Call /\ stm[a] \in SUBSET Layer /\ instr[a] \in SUBSET Layer
  BY ElementOfSeq DEF NetTypeOK
<1>1. CASE Retrieve(a, k)
  <2>1. /\ Asked(calls[a][k], stm[a]) \in Call
        /\ Asked(calls[a][k], stm[a]).cancelled = calls[a][k].cancelled
    BY <1>0, AskedType DEF Asked, Call
  <2> QED
    BY <1>1, <2>1 DEF Retrieve, Requested
<1>2. CASE StartTyped(a, k) \/ SaveTyped(a, k)
  <2>1. CASE Quit(a, k)
    BY <1>2, <2>1 DEF StartTyped, SaveTyped, Requested
  <2>2. ASSUME NEW c \in {Started(calls[a][k]), Saved(calls[a][k])}, Becomes(a, k, c)
        PROVE  Requested(a, k)
    <3>1. c \in Call /\ c.cancelled = calls[a][k].cancelled
      BY <1>0, StartedType
    <3> QED
      BY <1>2, <2>2, <3>1 DEF StartTyped, SaveTyped, Requested
  <2> QED
    BY <1>2, <2>1, <2>2 DEF StartTyped, SaveTyped
<1>3. CASE Post(a, k)
  <2>1. /\ Posted(calls[a][k], instr[a]) \in Call
        /\ Posted(calls[a][k], instr[a]).cancelled = calls[a][k].cancelled
    BY <1>0, PostedType DEF Posted, Call
  <2> QED
    BY <1>3, <2>1 DEF Post, Requested
<1>4. CASE Answer(a, k)
  BY <1>4 DEF Answer, Requested
<1>5. CASE GiveUp(a, k)
  BY <1>5 DEF GiveUp, Requested
<1>6. CASE CancelKills(a, k)
  BY <1>6 DEF CancelKills, Requested
<1>7. CASE LlmFails(a, k)
  BY <1>7 DEF LlmFails, Requested
<1> QED
  BY <1>1, <1>2, <1>3, <1>4, <1>5, <1>6, <1>7 DEF CallStep

-----------------------------------------------------------------------------
(***************************************************************************)
(* Who wrote what: everything on the way is an order of the jobs or is     *)
(* said by an agent to its peer, and it is where it should be.             *)
(***************************************************************************)

Speech == {m \in Message : m.from \in Agent /\ m.to = PeerOf[m.from] /\ m.cmd = "NoCommand"}

Orders == {m \in Message : m.from = Server /\ m.to \in Agent}

Said(a) == {m \in Speech : m.from = a}

To(a, orders) == {m \in Speech \cup orders : m.to = a}

Signed(orders) ==
  /\ toClients \in Seq(Speech \cup orders)
  /\ routerHand \in Speech \cup {NoMsg}
  /\ toServer \in Seq({m \in Speech : LayerOf[m.from] = 0})
  /\ \A a \in Agent : /\ toAgent[a] \in Seq(To(a, orders))
                      /\ fromAgent[a] \in Seq(Said(a))

LEMMA SpokenInTurn ==
  ASSUME NEW a \in Agent
  PROVE  /\ \A about \in SUBSET Layer, j \in BOOLEAN :
              [Msg(a, PeerOf[a], "NoCommand", about) EXCEPT !.json = j] \in Said(a)
         /\ \A c \in Call, j \in BOOLEAN : Reply(a, c, j) \in Said(a)
<1>1. ASSUME NEW about \in SUBSET Layer, NEW j \in BOOLEAN
      PROVE  [Msg(a, PeerOf[a], "NoCommand", about) EXCEPT !.json = j] \in Said(a)
  <2>1. Msg(a, PeerOf[a], "NoCommand", about) \in Message
    BY MsgType, AgentAssumption DEF Command
  <2> QED
    BY <2>1 DEF Said, Speech, Message, Msg
<1>2. ASSUME NEW c \in Call, NEW j \in BOOLEAN PROVE Reply(a, c, j) \in Said(a)
  <2>1. Reply(a, c, j) \in Message
    BY ReplyType
  <2>2. /\ Reply(a, c, j).from = a /\ Reply(a, c, j).to = PeerOf[a]
        /\ Reply(a, c, j).cmd = "NoCommand"
    BY DEF Reply, Msg
  <2> QED
    BY <2>1, <2>2 DEF Said, Speech
<1> QED
  BY <1>1, <1>2

\* A step of a, on its two streams.
LEMMA SignedAgent ==
  ASSUME NetTypeOK, NEW orders \in SUBSET Orders, Signed(orders),
         NEW a \in Agent, AgentStep(a)
  PROVE  Signed(orders)'
<1> USE DEF NetTypeOK, Signed, queueVars
<1>1. ASSUME UNCHANGED <<routerHand, toServer>>, toClients' \in Seq(Speech \cup orders),
             NEW s \in Seq(To(a, orders)), toAgent' = [toAgent EXCEPT ![a] = s],
             NEW t \in Seq(Said(a)), fromAgent' = [fromAgent EXCEPT ![a] = t]
      PROVE  Signed(orders)'
  <2> SUFFICES ASSUME NEW b \in Agent
               PROVE  toAgent'[b] \in Seq(To(b, orders)) /\ fromAgent'[b] \in Seq(Said(b))
    BY <1>1 DEF To, Said
  <2>1. CASE b = a
    BY <1>1, <2>1
  <2>2. CASE b # a
    BY <1>1, <2>2
  <2> QED
    BY <2>1, <2>2
<1>2. /\ toAgent = [toAgent EXCEPT ![a] = toAgent[a]]
      /\ fromAgent = [fromAgent EXCEPT ![a] = fromAgent[a]]
      /\ toAgent[a] \in Seq(To(a, orders)) /\ fromAgent[a] \in Seq(Said(a))
      /\ <<>> \in Seq(To(a, orders)) /\ <<>> \in Seq(Said(a))
      /\ toClients \in Seq(Speech \cup orders)
  OBVIOUS
<1>3. CASE AgentRoute(a)
  <2>1. Routed(a)
    BY <1>3, RouteShape
  <2>2. Tail(toAgent[a]) \in Seq(To(a, orders)) /\ Inbox(a) \in To(a, orders)
    BY <1>2, <2>1 DEF Routed, Inbox
  <2>3. Append(fromAgent[a], Opening(a)) \in Seq(Said(a))
    <3>1. Inbox(a) \in Message
      BY <2>2 DEF To, Speech, Orders
    <3>2. Opening(a) \in Said(a)
      BY <3>1, MessageFields, SpokenInTurn DEF Opening
    <3> QED
      BY <1>2, <3>2
  <2>4. CASE UNCHANGED fromAgent
    BY <1>1, <1>2, <2>1, <2>2, <2>4 DEF Routed
  <2>5. CASE fromAgent' = [fromAgent EXCEPT ![a] = Append(@, Opening(a))]
    BY <1>1, <1>2, <2>1, <2>2, <2>3, <2>5 DEF Routed
  <2> QED
    BY <2>1, <2>4, <2>5 DEF Routed
<1>4. ASSUME NEW k \in DOMAIN calls[a], CallStep(a, k)
      PROVE  Signed(orders)'
  <2>1. Requested(a, k)
    BY <1>4, RequestShape
  <2>2. CASE Die(a) /\ UNCHANGED fromAgent
    BY <1>1, <1>2, <2>1, <2>2 DEF Requested, Die
  <2>3. CASE UNCHANGED <<toAgent, fromAgent>>
    BY <1>1, <1>2, <2>1, <2>3 DEF Requested
  <2>4. ASSUME UNCHANGED toAgent, NEW j \in BOOLEAN,
               fromAgent' = [fromAgent EXCEPT ![a] = Append(@, Reply(a, calls[a][k], j))]
        PROVE  Signed(orders)'
    <3>1. Reply(a, calls[a][k], j) \in Said(a)
      BY SpokenInTurn, ElementOfSeq
    <3>2. Append(fromAgent[a], Reply(a, calls[a][k], j)) \in Seq(Said(a))
      BY <1>2, <3>1
    <3> QED
      BY <1>1, <1>2, <2>1, <2>4, <3>2 DEF Requested
  <2> QED
    BY <2>1, <2>2, <2>3, <2>4 DEF Requested
<1>5. CASE Join(a)
  BY <1>1, <1>2, <1>5 DEF Join, agentVars
<1>6. CASE Listen(a)
  <2>1. Head(fromAgent[a]) \in Said(a) /\ Tail(fromAgent[a]) \in Seq(Said(a))
    BY <1>2, <1>6 DEF Listen
  <2>2. Append(toClients, Head(fromAgent[a])) \in Seq(Speech \cup orders)
    BY <1>2, <2>1 DEF Said
  <2> QED
    BY <1>1, <1>2, <1>6, <2>1, <2>2 DEF Listen
<1>7. CASE Disconnect(a)
  BY <1>1, <1>2, <1>7 DEF Disconnect
<1> QED
  BY <1>3, <1>4, <1>5, <1>6, <1>7 DEF AgentStep

LEMMA SignedRouter ==
  ASSUME NetTypeOK, NEW orders \in SUBSET Orders, Signed(orders),
         RouterForward \/ RouterDispatch
  PROVE  Signed(orders)'
<1> USE DEF NetTypeOK
<1>1. CASE RouterForward
  <2> DEFINE m == Head(toClients)
  <2>1. /\ toClients \in Seq(Speech \cup orders) /\ toClients # <<>>
        /\ toClients' = Tail(toClients)
    BY <1>1 DEF Signed, RouterForward
  <2>2. m \in Speech \cup orders /\ toClients' \in Seq(Speech \cup orders)
    BY <2>1
  <2>3. routerHand' \in Speech \cup {NoMsg}
    <3>1. routerHand' = IF IsAgentMsg(m) THEN m ELSE NoMsg
      BY <1>1 DEF RouterForward
    <3>2. m \in orders => m.from = Server
      BY DEF Orders
    <3> QED
      BY <2>2, <3>1, <3>2 DEF IsAgentMsg
  <2>4. ASSUME NEW b \in Agent
        PROVE  toAgent'[b] \in Seq(To(b, orders)) /\ fromAgent'[b] \in Seq(Said(b))
    <3>1. toAgent[b] \in Seq(To(b, orders)) /\ fromAgent' = fromAgent
      BY <1>1 DEF Signed, RouterForward
    <3>2. m.to = b => Append(toAgent[b], m) \in Seq(To(b, orders))
      BY <2>2, <3>1 DEF To
    <3>3. toAgent'[b] = toAgent[b] \/ (m.to = b /\ toAgent'[b] = Append(toAgent[b], m))
      BY <1>1 DEF RouterForward
    <3> QED
      BY <3>1, <3>2, <3>3 DEF Signed
  <2>5. UNCHANGED toServer
    BY <1>1 DEF RouterForward
  <2> QED
    BY <2>2, <2>3, <2>4, <2>5 DEF Signed
<1>2. CASE RouterDispatch
  <2>1. routerHand \in Speech
    BY <1>2 DEF Signed, RouterDispatch
  <2>2. toServer' \in Seq({m \in Speech : LayerOf[m.from] = 0})
    <3>1. CASE LayerOf[routerHand.from] = 0
      <4>1. toServer' = Append(toServer, routerHand)
        BY <1>2, <3>1 DEF RouterDispatch
      <4> QED
        BY <2>1, <3>1, <4>1 DEF Signed
    <3>2. CASE LayerOf[routerHand.from] # 0
      BY <1>2, <3>2 DEF Signed, RouterDispatch
    <3> QED
      BY <3>1, <3>2
  <2> QED
    BY <1>2, <2>2 DEF Signed, RouterDispatch, agentVars
<1> QED
  BY <1>1, <1>2

LEMMA SignedStep ==
  ASSUME NetTypeOK, NEW orders \in SUBSET Orders, Signed(orders), NetNext
  PROVE  Signed(orders)'
  BY SignedAgent, SignedRouter DEF NetNext

-----------------------------------------------------------------------------
(***************************************************************************)
(* The transport and the agents never make two tokens of one: a question   *)
(* to an agent becomes a request, the request an answer, and the answer is *)
(* handed on, if none of them is lost.                                     *)
(***************************************************************************)

\* The boxes are those a token of T can get to: every request is a token,
\* only agents of as say tokens, what makes an agent of as ask the LLM or
\* speak is a token, and the Router forwards no token that it also hands to
\* the jobs.
Closed(channels, as, orders, T) ==
  /\ Call \subseteq T
  /\ channels \subseteq Channels /\ as \subseteq Agent /\ orders \subseteq Orders
  /\ "toClients" \in channels
  /\ "routerHand" \in channels <=> "toServer" \in channels
  /\ \A m \in Speech \cap T : m.from \in as
  /\ \A m \in Speech \cup orders :
       m.to \in as /\ m.cmd \in Asking \cup {"SendInitialMessage"} => m \in T
  /\ "routerHand" \in channels => \A m \in Speech \cap T : m.to \notin Agent

LEMMA ThinSame ==
  ASSUME NEW s, NEW S PROVE Thins(s, s, S)
  BY DEF Thins

LEMMA ThinCancelled ==
  ASSUME NEW cs \in Seq(Call), NEW T, Call \subseteq T
  PROVE  Thins(Cancelled(cs), cs, T)
<1>1. DOMAIN Cancelled(cs) = DOMAIN cs /\ \A i \in DOMAIN cs : cs[i] \in T
  BY ElementOfSeq DEF Cancelled
<1> QED
  BY <1>1, ThinRelabelled

LEMMA BoxMembers ==
  ASSUME NEW channels, NEW as
  PROVE  /\ \A n \in channels : <<n, Server>> \in Boxes(channels, as)
         /\ \A a \in as : /\ <<"toAgent", a>> \in Boxes(channels, as)
                          /\ <<"fromAgent", a>> \in Boxes(channels, as)
                          /\ <<"calls", a>> \in Boxes(channels, as)
  BY Zenon DEF Boxes

LEMMA NoBox ==
  ASSUME NEW channels, NEW as, NEW c \in Channels, c \notin channels
  PROVE  <<c, Server>> \notin Boxes(channels, as)
<1> SUFFICES ASSUME NEW b, b = <<c, Server>>, b \in Boxes(channels, as)
             PROVE  FALSE
  OBVIOUS
<1>1. \/ \E n \in channels : b = <<n, Server>>
      \/ \E a \in as : \/ b = <<"toAgent", a>>
                      \/ b = <<"fromAgent", a>>
                      \/ b = <<"calls", a>>
  BY Zenon DEF Boxes
<1> QED
  BY <1>1 DEF Channels

\* A message that an agent of as takes.
LEMMA RoutedKeeps ==
  ASSUME NetTypeOK, NEW channels, NEW as, NEW orders, NEW T,
         Closed(channels, as, orders, T), Signed(orders),
         NEW out, NEW a \in Agent, Routed(a)
  PROVE  Kept(Contents(Boxes(channels, as), out)', Contents(Boxes(channels, as), out),
              Boxes(channels, as), T)
<1> DEFINE B == Boxes(channels, as)
           f == Contents(B, out)
           g == Contents(B, out)'
<1> USE DEF NetTypeOK
<1>0. channels \in SUBSET Channels /\ as \in SUBSET Agent /\ Call \subseteq T
  BY DEF Closed
<1>1. /\ Thins(toClients', toClients, T) /\ Thins(Hand(routerHand)', Hand(routerHand), T)
      /\ Thins(toServer', toServer, T) /\ Thins(out, out, T)
  BY ThinSame DEF Routed, queueVars, Hand
<1>2. ASSUME NEW b \in Agent
      PROVE  Thins(toAgent'[b], toAgent[b], T)
  BY ThinSame, ThinTail DEF Routed
<1>3. ASSUME NEW b \in Agent, b # a
      PROVE  Thins(fromAgent'[b], fromAgent[b], T) /\ Thins(calls'[b], calls[b], T)
  BY <1>3, ThinSame DEF Routed, CancelPrevious, Spawn
<1>4. Inbox(a) \in To(a, orders) /\ Inbox(a) = Head(toAgent[a]) /\ toAgent[a] # <<>>
  <2>1. toAgent[a] \in Seq(To(a, orders)) /\ toAgent[a] # <<>>
    BY DEF Signed, Routed
  <2> QED
    BY <2>1 DEF Inbox
<1>5. ASSUME a \in as, Inbox(a).cmd \in Asking \cup {"SendInitialMessage"}
      PROVE  /\ Inbox(a) \in T /\ ~Lacks(toAgent[a], T)
             /\ Few(toAgent[a], T) => Lacks(toAgent'[a], T)
  <2>1. Inbox(a) \in T
    BY <1>4, <1>5 DEF Closed, To
  <2>2. toAgent'[a] = Tail(toAgent[a])
    BY DEF Routed
  <2> QED
    BY <1>4, <2>1, <2>2, ThinTail
<1>6. CASE /\ Inbox(a).cmd \notin Asking
           /\ CancelPrevious(a)
           /\ UNCHANGED fromAgent \/ a \notin as
  <2>1. Thins(calls'[a], calls[a], T)
    BY <1>0, <1>6, ThinCancelled DEF CancelPrevious
  <2>2. \A b \in as : Thins(fromAgent'[b], fromAgent[b], T) /\ Thins(calls'[b], calls[b], T)
    BY <1>0, <1>3, <1>6, <2>1, ThinSame
  <2>3. \A b \in as : Thins(toAgent'[b], toAgent[b], T)
    BY <1>0, <1>2
  <2>4. \A d \in B : Thins(g[d], f[d], T)
    BY <1>0, <1>1, <2>2, <2>3, BoxByBox
  <2> QED
    BY <2>4, Thinned
<1>7. CASE a \notin as
  <2>1. \A b \in as : /\ Thins(fromAgent'[b], fromAgent[b], T)
                      /\ Thins(calls'[b], calls[b], T)
                      /\ Thins(toAgent'[b], toAgent[b], T)
    BY <1>0, <1>2, <1>3, <1>7
  <2>2. \A d \in B : Thins(g[d], f[d], T)
    BY <1>0, <1>1, <2>1, BoxByBox
  <2> QED
    BY <2>2, Thinned
<1>8. CASE /\ Inbox(a).cmd = "SendInitialMessage"
           /\ fromAgent' = [fromAgent EXCEPT ![a] = Append(@, Opening(a))]
           /\ CancelPrevious(a) /\ a \in as
  <2> DEFINE b == <<"toAgent", a>>
             c == <<"fromAgent", a>>
  <2>1. b \in B /\ c \in B /\ b # c
    BY <1>8, BoxMembers
  <2>2. Thins(calls'[a], calls[a], T)
    BY <1>0, <1>8, ThinCancelled DEF CancelPrevious
  <2>3. \A d \in B \ {c} : Thins(g[d], f[d], T)
    <3>1. \A e \in as : /\ Thins(toAgent'[e], toAgent[e], T)
                        /\ c # <<"fromAgent", e>> => Thins(fromAgent'[e], fromAgent[e], T)
                        /\ Thins(calls'[e], calls[e], T)
      BY <1>0, <1>2, <1>3, <2>2
    <3>2. \A e \in as : /\ Thins(toAgent'[e], toAgent[e], T)
                        /\ <<"fromAgent", e>> \in B \ {c} => Thins(fromAgent'[e], fromAgent[e], T)
                        /\ Thins(calls'[e], calls[e], T)
      BY <3>1
    <3> QED
      BY <1>0, <1>1, <3>2, BoxByBox
  <2>4. f[b] = toAgent[a] /\ g[b] = toAgent'[a] /\ f[c] = fromAgent[a] /\ g[c] = fromAgent'[a]
    BY <2>1 DEF Contents, Content
  <2>5. Lacks(fromAgent[a], T) => Few(fromAgent'[a], T)
    <3>1. fromAgent'[a] = Append(fromAgent[a], Opening(a)) /\ fromAgent[a] \in Seq(Message)
      BY <1>8
    <3> QED
      BY <3>1, Appending
  <2>6. Kept(g, f, B, T)
    <3> HIDE DEF f, g, B, b, c
    <3> QED
      BY <1>5, <1>8, <2>1, <2>3, <2>4, <2>5, Moved
  <2> QED
    BY <2>6
<1>9. CASE /\ Inbox(a).cmd \in Asking /\ UNCHANGED fromAgent
           /\ \E x \in Call : Spawn(a, x)
           /\ a \in as
  <2> DEFINE b == <<"toAgent", a>>
             c == <<"calls", a>>
  <2>1. b \in B /\ c \in B /\ b # c
    BY <1>9, BoxMembers
  <2>2. \A e \in Agent : Thins(fromAgent'[e], fromAgent[e], T)
    BY <1>9, ThinSame
  <2>3. \A d \in B \ {c} : Thins(g[d], f[d], T)
    <3>1. \A e \in as : /\ Thins(toAgent'[e], toAgent[e], T)
                        /\ Thins(fromAgent'[e], fromAgent[e], T)
                        /\ c # <<"calls", e>> => Thins(calls'[e], calls[e], T)
      BY <1>0, <1>2, <1>3, <2>2
    <3>2. \A e \in as : /\ Thins(toAgent'[e], toAgent[e], T)
                        /\ Thins(fromAgent'[e], fromAgent[e], T)
                        /\ <<"calls", e>> \in B \ {c} => Thins(calls'[e], calls[e], T)
      BY <3>1
    <3> QED
      BY <1>0, <1>1, <3>2, BoxByBox
  <2>4. f[b] = toAgent[a] /\ g[b] = toAgent'[a] /\ f[c] = calls[a] /\ g[c] = calls'[a]
    BY <2>1 DEF Contents, Content
  <2>5. Lacks(calls[a], T) => Few(calls'[a], T)
    <3>1. PICK x \in Call : calls'[a] = Append(Cancelled(calls[a]), x)
      BY <1>9 DEF Spawn
    <3>2. Cancelled(calls[a]) \in Seq(Call) /\ Thins(Cancelled(calls[a]), calls[a], T)
      BY <1>0, CancelledType, ThinCancelled
    <3> QED
      BY <3>1, <3>2, Appending DEF Thins
  <2>6. Kept(g, f, B, T)
    <3> HIDE DEF f, g, B, b, c
    <3> QED
      BY <1>5, <1>9, <2>1, <2>3, <2>4, <2>5, Moved
  <2> QED
    BY <2>6
<1> QED
  BY <1>6, <1>7, <1>8, <1>9 DEF Routed

\* A step of a request.
LEMMA RequestedKeeps ==
  ASSUME NetTypeOK, NEW channels, NEW as, NEW orders, NEW T,
         Closed(channels, as, orders, T), Signed(orders),
         NEW out, NEW a \in Agent, NEW k \in DOMAIN calls[a], Requested(a, k)
  PROVE  Kept(Contents(Boxes(channels, as), out)', Contents(Boxes(channels, as), out),
              Boxes(channels, as), T)
<1> DEFINE B == Boxes(channels, as)
           f == Contents(B, out)
           g == Contents(B, out)'
<1> USE DEF NetTypeOK
<1>0. channels \in SUBSET Channels /\ as \in SUBSET Agent /\ Call \subseteq T
  BY DEF Closed
<1>1. /\ Thins(toClients', toClients, T) /\ Thins(Hand(routerHand)', Hand(routerHand), T)
      /\ Thins(toServer', toServer, T) /\ Thins(out, out, T)
  BY ThinSame DEF Requested, queueVars, Hand
<1>2. calls[a] \in Seq(Call) /\ calls[a][k] \in T
  BY <1>0, ElementOfSeq
<1>3. ASSUME NEW b \in Agent
      PROVE  /\ Thins(toAgent'[b], toAgent[b], T)
             /\ b # a => Thins(fromAgent'[b], fromAgent[b], T)
             /\ Thins(calls'[b], calls[b], T)
  <2>1. Thins(toAgent'[b], toAgent[b], T)
    BY ThinSame, EmptyLacks DEF Requested, Die, Thins
  <2>2. b # a => Thins(fromAgent'[b], fromAgent[b], T)
    BY ThinSame DEF Requested
  <2>3. b # a => Thins(calls'[b], calls[b], T)
    BY ThinSame DEF Requested, Die, Quit, Becomes
  <2>4. CASE Die(a)
    BY <2>1, <2>2, <2>3, <2>4, EmptyLacks DEF Die, Thins
  <2>5. CASE Quit(a, k)
    BY <1>2, <2>1, <2>2, <2>3, <2>5, ThinWithout DEF Quit
  <2>6. ASSUME NEW x \in Call, Becomes(a, k, x) PROVE Thins(calls'[a], calls[a], T)
    <3>1. calls'[a] = [calls[a] EXCEPT ![k] = x]
      BY <2>6 DEF Becomes
    <3>2. DOMAIN calls'[a] = DOMAIN calls[a] /\ \A i \in DOMAIN calls[a] : calls[a][i] \in T
      BY <1>0, <1>2, <3>1, ElementOfSeq
    <3> QED
      BY <3>2, ThinRelabelled
  <2> QED
    BY <2>1, <2>2, <2>3, <2>4, <2>5, <2>6 DEF Requested
<1>4. CASE UNCHANGED fromAgent \/ a \notin as
  <2>1. \A b \in as : Thins(fromAgent'[b], fromAgent[b], T)
    BY <1>0, <1>3, <1>4, ThinSame
  <2>2. \A d \in B : Thins(g[d], f[d], T)
    BY <1>0, <1>1, <1>3, <2>1, BoxByBox
  <2> QED
    BY <2>2, Thinned
<1>5. ASSUME NEW j \in BOOLEAN, Quit(a, k), a \in as,
             fromAgent' = [fromAgent EXCEPT ![a] = Append(@, Reply(a, calls[a][k], j))]
      PROVE  Kept(g, f, B, T)
  <2> DEFINE b == <<"calls", a>>
             c == <<"fromAgent", a>>
  <2>1. b \in B /\ c \in B /\ b # c
    BY <1>5, BoxMembers
  <2>2. \A d \in B \ {c} : Thins(g[d], f[d], T)
    <3>1. \A e \in as : /\ Thins(toAgent'[e], toAgent[e], T)
                        /\ c # <<"fromAgent", e>> => Thins(fromAgent'[e], fromAgent[e], T)
                        /\ Thins(calls'[e], calls[e], T)
      BY <1>0, <1>3
    <3>2. \A e \in as : /\ Thins(toAgent'[e], toAgent[e], T)
                        /\ <<"fromAgent", e>> \in B \ {c} => Thins(fromAgent'[e], fromAgent[e], T)
                        /\ Thins(calls'[e], calls[e], T)
      BY <3>1
    <3> QED
      BY <1>0, <1>1, <3>2, BoxByBox
  <2>3. f[b] = calls[a] /\ g[b] = calls'[a] /\ f[c] = fromAgent[a] /\ g[c] = fromAgent'[a]
    BY <2>1 DEF Contents, Content
  <2>4. ~Lacks(calls[a], T) /\ (Few(calls[a], T) => Lacks(calls'[a], T))
    BY <1>2, <1>5, ThinWithout DEF Quit
  <2>5. Lacks(fromAgent[a], T) => Few(fromAgent'[a], T)
    <3>1. /\ fromAgent'[a] = Append(fromAgent[a], Reply(a, calls[a][k], j))
          /\ fromAgent[a] \in Seq(Message)
      BY <1>5
    <3> QED
      BY <3>1, Appending
  <2> HIDE DEF f, g, B, b, c
  <2>6. Kept(g, f, B, T)
    BY <2>1, <2>2, <2>3, <2>4, <2>5, Moved
  <2> QED
    BY <2>6 DEF f, g, B
<1> QED
  BY <1>4, <1>5 DEF Requested

\* What an agent said enters ToClients, or is lost with its connection.
LEMMA StreamKeeps ==
  ASSUME NetTypeOK, NEW channels, NEW as, NEW orders, NEW T,
         Closed(channels, as, orders, T), Signed(orders),
         NEW out, NEW a \in Agent, Join(a) \/ Listen(a) \/ Disconnect(a)
  PROVE  Kept(Contents(Boxes(channels, as), out)', Contents(Boxes(channels, as), out),
              Boxes(channels, as), T)
<1> DEFINE B == Boxes(channels, as)
           f == Contents(B, out)
           g == Contents(B, out)'
<1> USE DEF NetTypeOK
<1>0. channels \in SUBSET Channels /\ as \in SUBSET Agent /\ "toClients" \in channels
  BY DEF Closed
<1>1. /\ Thins(Hand(routerHand)', Hand(routerHand), T)
      /\ Thins(toServer', toServer, T) /\ Thins(out, out, T)
  <2>1. UNCHANGED <<routerHand, toServer>>
    BY DEF Join, Listen, Disconnect, queueVars
  <2> QED
    BY <2>1, ThinSame DEF Hand
<1>2. ASSUME NEW b \in Agent
      PROVE  /\ Thins(toAgent'[b], toAgent[b], T)
             /\ Thins(fromAgent'[b], fromAgent[b], T)
             /\ Thins(calls'[b], calls[b], T)
  <2>1. Thins(toAgent'[b], toAgent[b], T) /\ Thins(calls'[b], calls[b], T)
    BY ThinSame DEF Join, Listen, Disconnect, agentVars
  <2>2. CASE fromAgent'[b] = fromAgent[b]
    BY <2>1, <2>2, ThinSame
  <2>3. CASE fromAgent'[b] # fromAgent[b]
    <3>1. fromAgent'[b] = <<>> \/ (fromAgent[b] # <<>> /\ fromAgent'[b] = Tail(fromAgent[b]))
      BY <2>3 DEF Join, Listen, Disconnect, agentVars
    <3>2. Thins(<<>>, fromAgent[b], T)
      BY EmptyLacks DEF Thins
    <3>3. fromAgent[b] \in Seq(Message)
      OBVIOUS
    <3>4. CASE fromAgent'[b] = <<>>
      BY <2>1, <3>2, <3>4
    <3>5. CASE fromAgent[b] # <<>> /\ fromAgent'[b] = Tail(fromAgent[b])
      BY <2>1, <3>3, <3>5, ThinTail
    <3> QED
      BY <3>1, <3>4, <3>5
  <2> QED
    BY <2>2, <2>3
<1>3. CASE Thins(toClients', toClients, T)
  <2>1. \A d \in B : Thins(g[d], f[d], T)
    BY <1>0, <1>1, <1>2, <1>3, BoxByBox
  <2> QED
    BY <2>1, Thinned
<1>4. CASE ~Thins(toClients', toClients, T)
  <2>1. Listen(a)
    BY <1>4, ThinSame DEF Join, Disconnect, queueVars
  <2>2. /\ fromAgent[a] # <<>> /\ fromAgent[a] \in Seq(Said(a))
        /\ toClients' = Append(toClients, Head(fromAgent[a]))
        /\ fromAgent'[a] = Tail(fromAgent[a])
    BY <2>1 DEF Listen, Signed
  <2>3. Head(fromAgent[a]) \in T
    BY <1>4, <2>2, Appending
  <2>4. a \in as
    <3>1. PICK m : m = Head(fromAgent[a])
      OBVIOUS
    <3>2. m \in Said(a)
      BY <2>2, <3>1
    <3>3. m \in Speech \cap T /\ m.from = a
      BY <2>3, <3>1, <3>2 DEF Said
    <3> QED
      BY <3>3 DEF Closed
  <2> DEFINE b == <<"fromAgent", a>>
             c == <<"toClients", Server>>
  <2>5. b \in B /\ c \in B /\ b # c
    BY <1>0, <2>4, BoxMembers
  <2>6. \A d \in B \ {c} : Thins(g[d], f[d], T)
    BY <1>0, <1>1, <1>2, BoxByBox
  <2>7. f[b] = fromAgent[a] /\ g[b] = fromAgent'[a] /\ f[c] = toClients /\ g[c] = toClients'
    BY <2>5 DEF Contents, Content
  <2>8. ~Lacks(fromAgent[a], T) /\ (Few(fromAgent[a], T) => Lacks(fromAgent'[a], T))
    BY <2>2, <2>3, ThinTail
  <2>9. Lacks(toClients, T) => Few(toClients', T)
    BY <2>2, Appending
  <2> HIDE DEF f, g, B, b, c
  <2>10. Kept(g, f, B, T)
    BY <2>5, <2>6, <2>7, <2>8, <2>9, Moved
  <2> QED
    BY <2>10 DEF f, g, B
<1> QED
  BY <1>3, <1>4

\* The Router forwards a token to its receiver or holds it for the jobs.
LEMMA ForwardKeeps ==
  ASSUME NetTypeOK, NEW channels, NEW as, NEW orders, NEW T,
         Closed(channels, as, orders, T), Signed(orders),
         NEW out, RouterForward
  PROVE  Kept(Contents(Boxes(channels, as), out)', Contents(Boxes(channels, as), out),
              Boxes(channels, as), T)
<1> DEFINE B == Boxes(channels, as)
           f == Contents(B, out)
           g == Contents(B, out)'
           m == Head(toClients)
           b == <<"toClients", Server>>
<1> USE DEF NetTypeOK
<1>0. /\ channels \in SUBSET Channels /\ as \in SUBSET Agent /\ "toClients" \in channels
      /\ b \in B
  BY BoxMembers DEF Closed
<1>1. /\ toClients # <<>> /\ toClients \in Seq(Speech \cup orders)
      /\ toClients' = Tail(toClients) /\ routerHand = NoMsg
      /\ UNCHANGED <<toServer, fromAgent, calls>>
  BY DEF Signed, RouterForward
<1>2. /\ m \in Speech \cup orders
      /\ Thins(toClients', toClients, T)
      /\ m \in T => ~Lacks(toClients, T) /\ (Few(toClients, T) => Lacks(toClients', T))
  BY <1>1, ThinTail
<1>3. f[b] = toClients /\ g[b] = toClients'
  BY <1>0 DEF Contents, Content
<1>4. /\ Thins(toServer', toServer, T) /\ Thins(out, out, T)
      /\ \A a \in Agent : Thins(fromAgent'[a], fromAgent[a], T) /\ Thins(calls'[a], calls[a], T)
  BY <1>1, ThinSame
<1>5. ASSUME NEW a \in Agent
      PROVE  \/ toAgent'[a] = toAgent[a]
             \/ m.to = a /\ toAgent'[a] = Append(toAgent[a], m)
  BY DEF RouterForward
<1>6. ASSUME NEW a \in Agent, m.to # a \/ m \notin T
      PROVE  Thins(toAgent'[a], toAgent[a], T)
  <2>1. toAgent[a] \in Seq(Message)
    OBVIOUS
  <2>2. CASE toAgent'[a] = toAgent[a]
    BY <2>2, ThinSame
  <2>3. CASE m.to = a /\ toAgent'[a] = Append(toAgent[a], m)
    BY <1>6, <2>1, <2>3, Appending
  <2> QED
    BY <1>5, <2>2, <2>3
<1>7. Hand(routerHand) = <<>> /\ Hand(routerHand)' \in {<<>>, <<m>>}
  BY <1>1 DEF Hand, RouterForward
<1>8. m \notin T \/ ~IsAgentMsg(m) => Thins(Hand(routerHand)', Hand(routerHand), T)
  <2>1. ~IsAgentMsg(m) => Hand(routerHand)' = <<>>
    BY DEF Hand, RouterForward
  <2>2. m \notin T => Lacks(<<m>>, T)
    BY DEF Lacks
  <2> QED
    BY <1>7, <2>1, <2>2, ThinSame, LacksFew DEF Thins
<1>9. CASE m \notin T
  <2>1. \A d \in B : Thins(g[d], f[d], T)
    BY <1>0, <1>2, <1>4, <1>6, <1>8, <1>9, BoxByBox
  <2> QED
    BY <2>1, Thinned
<1>10. CASE m \in T /\ "routerHand" \in channels /\ IsAgentMsg(m)
  <2> DEFINE c == <<"routerHand", Server>>
  <2>1. m.to \notin Agent
    <3>1. m \in Speech
      BY <1>2, <1>10 DEF Closed, Orders, IsAgentMsg
    <3> QED
      BY <1>10, <3>1 DEF Closed
  <2>2. c \in B /\ b # c
    BY <1>10, BoxMembers
  <2>3. \A d \in B \ {c} : Thins(g[d], f[d], T)
    <3>1. \A a \in as : Thins(toAgent'[a], toAgent[a], T)
      BY <1>0, <1>6, <2>1
    <3>2. <<"routerHand", Server>> \notin B \ {c}
      OBVIOUS
    <3>3. B \ {c} \in SUBSET Boxes(channels, as)
      OBVIOUS
    <3> QED
      BY <1>0, <1>2, <1>4, <3>1, <3>2, <3>3, BoxByBox
  <2>4. f[c] = Hand(routerHand) /\ g[c] = Hand(routerHand)'
    BY <2>2 DEF Contents, Content
  <2>5. Few(Hand(routerHand)', T)
    BY <1>7 DEF Few
  <2> HIDE DEF f, g, B, b, c, m
  <2>6. Kept(g, f, B, T)
    BY <1>0, <1>2, <1>3, <1>10, <2>2, <2>3, <2>4, <2>5, Moved
  <2> QED
    BY <2>6 DEF f, g, B
<1>11. CASE m \in T /\ ("routerHand" \notin channels \/ ~IsAgentMsg(m))
  <2>1. <<"routerHand", Server>> \in B => Thins(Hand(routerHand)', Hand(routerHand), T)
    <3>1. CASE ~IsAgentMsg(m)
      BY <1>8, <3>1
    <3>2. CASE "routerHand" \notin channels
      <4>1. <<"routerHand", Server>> \notin B
        BY <3>2, NoBox DEF Channels
      <4> QED
        BY <4>1
    <3> QED
      BY <1>11, <3>1, <3>2
  <2>2. CASE m.to \notin as
    <3>1. \A a \in as : m.to # a
      BY <2>2
    <3>2. \A d \in B : Thins(g[d], f[d], T)
      BY <1>0, <1>2, <1>4, <1>6, <2>1, <3>1, BoxByBox
    <3> QED
      BY <3>2, Thinned
  <2>3. CASE m.to \in as
    <3> DEFINE c == <<"toAgent", m.to>>
    <3>1. c \in B /\ b # c
      BY <2>3, BoxMembers
    <3>2. \A d \in B \ {c} : Thins(g[d], f[d], T)
      <4>1. \A a \in as : <<"toAgent", a>> \in B \ {c} => Thins(toAgent'[a], toAgent[a], T)
        BY <1>0, <1>6
      <4> QED
        BY <1>0, <1>2, <1>4, <2>1, <4>1, BoxByBox
    <3>3. f[c] = toAgent[m.to] /\ g[c] = toAgent'[m.to]
      BY <3>1 DEF Contents, Content
    <3>4. Lacks(toAgent[m.to], T) => Few(toAgent'[m.to], T)
      <4>1. m.to \in Agent /\ toAgent[m.to] \in Seq(Message)
        BY <1>0, <2>3
      <4>2. CASE toAgent'[m.to] = toAgent[m.to]
        BY <4>2, LacksFew
      <4>3. CASE toAgent'[m.to] = Append(toAgent[m.to], m)
        BY <4>1, <4>3, Appending
      <4> QED
        BY <1>5, <4>1, <4>2, <4>3
    <3> HIDE DEF f, g, B, b, c, m
    <3>5. Kept(g, f, B, T)
      BY <1>0, <1>2, <1>3, <1>11, <3>1, <3>2, <3>3, <3>4, Moved
    <3> QED
      BY <3>5 DEF f, g, B
  <2> QED
    BY <2>2, <2>3
<1> QED
  BY <1>9, <1>10, <1>11

\* The Router hands what it holds to the jobs.
LEMMA DispatchKeeps ==
  ASSUME NetTypeOK, NEW channels, NEW as, NEW orders, NEW T,
         Closed(channels, as, orders, T), Signed(orders),
         NEW out, RouterDispatch
  PROVE  Kept(Contents(Boxes(channels, as), out)', Contents(Boxes(channels, as), out),
              Boxes(channels, as), T)
<1> DEFINE B == Boxes(channels, as)
           f == Contents(B, out)
           g == Contents(B, out)'
           b == <<"routerHand", Server>>
           c == <<"toServer", Server>>
<1> USE DEF NetTypeOK
<1>0. /\ channels \in SUBSET Channels /\ as \in SUBSET Agent
      /\ "routerHand" \in channels <=> "toServer" \in channels
  BY DEF Closed
<1>1. /\ routerHand # NoMsg /\ routerHand' = NoMsg
      /\ UNCHANGED <<toClients, toAgent, fromAgent, calls>>
  BY DEF RouterDispatch, agentVars
<1>2. /\ Thins(toClients', toClients, T) /\ Thins(out, out, T)
      /\ \A a \in as : /\ Thins(toAgent'[a], toAgent[a], T)
                       /\ Thins(fromAgent'[a], fromAgent[a], T)
                       /\ Thins(calls'[a], calls[a], T)
  BY <1>1, ThinSame
<1>3. /\ Hand(routerHand) = <<routerHand>> /\ Hand(routerHand)' = <<>>
      /\ Lacks(Hand(routerHand)', T) /\ Few(Hand(routerHand)', T)
      /\ Thins(Hand(routerHand)', Hand(routerHand), T)
  BY <1>1, EmptyLacks DEF Hand, Thins
<1>4. toServer' = toServer \/ toServer' = Append(toServer, routerHand)
  BY DEF RouterDispatch
<1>5. CASE Thins(toServer', toServer, T)
  <2>1. \A d \in B : Thins(g[d], f[d], T)
    BY <1>0, <1>2, <1>3, <1>5, BoxByBox
  <2> QED
    BY <2>1, Thinned
<1>6. CASE c \notin B
  <2>1. \A d \in B : Thins(g[d], f[d], T)
    BY <1>0, <1>2, <1>3, <1>6, BoxByBox
  <2> QED
    BY <2>1, Thinned
<1>7. CASE c \in B /\ ~Thins(toServer', toServer, T)
  <2>0. toServer \in Seq(Message)
    OBVIOUS
  <2>1. routerHand \in T /\ toServer' = Append(toServer, routerHand)
    <3>1. toServer' = Append(toServer, routerHand)
      BY <1>4, <1>7, ThinSame
    <3> QED
      BY <1>7, <2>0, <3>1, Appending
  <2>2. b \in B /\ b # c
    <3>1. "toServer" \in channels
      BY <1>7, NoBox DEF Channels
    <3> QED
      BY <1>0, <3>1, BoxMembers
  <2>3. \A d \in B \ {c} : Thins(g[d], f[d], T)
    <3>1. c \notin B \ {c} /\ B \ {c} \in SUBSET Boxes(channels, as)
      OBVIOUS
    <3> QED
      BY <1>0, <1>2, <1>3, <3>1, BoxByBox
  <2>4. /\ f[b] = Hand(routerHand) /\ g[b] = Hand(routerHand)'
        /\ f[c] = toServer /\ g[c] = toServer'
    BY <1>7, <2>2 DEF Contents, Content
  <2>5. ~Lacks(Hand(routerHand), T)
    BY <1>3, <2>1 DEF Lacks
  <2>6. Lacks(toServer, T) => Few(toServer', T)
    BY <2>0, <2>1, Appending
  <2>7. /\ ~Lacks(f[b], T) /\ (Few(f[b], T) => Lacks(g[b], T))
        /\ Lacks(f[c], T) => Few(g[c], T)
    BY <1>3, <2>4, <2>5, <2>6
  <2> HIDE DEF f, g, B, b, c
  <2>8. Kept(g, f, B, T)
    BY <1>7, <2>2, <2>3, <2>7, Moved
  <2> QED
    BY <2>8 DEF f, g, B
<1> QED
  BY <1>5, <1>6, <1>7

\* No step of the transport or of an agent adds a token.
LEMMA NetKeeps ==
  ASSUME NetTypeOK, NEW channels, NEW as, NEW orders, NEW T,
         Closed(channels, as, orders, T), Signed(orders), NEW out, NetNext
  PROVE  Kept(Contents(Boxes(channels, as), out)', Contents(Boxes(channels, as), out),
              Boxes(channels, as), T)
<1>1. ASSUME NEW a \in Agent, AgentStep(a)
      PROVE  Kept(Contents(Boxes(channels, as), out)', Contents(Boxes(channels, as), out),
                  Boxes(channels, as), T)
  <2>1. CASE AgentRoute(a)
    BY <2>1, RouteShape, RoutedKeeps
  <2>2. ASSUME NEW k \in DOMAIN calls[a], CallStep(a, k)
        PROVE  Kept(Contents(Boxes(channels, as), out)', Contents(Boxes(channels, as), out),
                    Boxes(channels, as), T)
    BY <2>2, RequestShape, RequestedKeeps
  <2>3. CASE Join(a) \/ Listen(a) \/ Disconnect(a)
    BY <2>3, StreamKeeps
  <2> QED
    BY <1>1, <2>1, <2>2, <2>3 DEF AgentStep
<1> QED
  BY <1>1, ForwardKeeps, DispatchKeeps DEF NetNext

\* Nor does the jobs goroutine when it sends the next of its commands.
LEMMA SendKeeps ==
  ASSUME NetTypeOK, NEW channels \in SUBSET Channels, NEW as \in SUBSET Agent, NEW T,
         {"jobs", "toClients"} \subseteq channels,
         NEW before \in Seq(Message), before # <<>>,
         toClients' = Append(toClients, Head(before)),
         UNCHANGED <<routerHand, toServer, agentVars>>
  PROVE  Kept(Contents(Boxes(channels, as), Tail(before))', Contents(Boxes(channels, as), before),
              Boxes(channels, as), T)
<1> DEFINE B == Boxes(channels, as)
           f == Contents(B, before)
           g == Contents(B, Tail(before))'
           b == <<"jobs", Server>>
           c == <<"toClients", Server>>
<1> USE DEF NetTypeOK
<1>1. /\ Thins(Hand(routerHand)', Hand(routerHand), T)
      /\ Thins(toServer', toServer, T) /\ Thins(Tail(before), before, T)
  BY ThinSame, ThinTail DEF Hand
<1>2. \A a \in as : /\ Thins(toAgent'[a], toAgent[a], T)
                    /\ Thins(fromAgent'[a], fromAgent[a], T)
                    /\ Thins(calls'[a], calls[a], T)
  BY ThinSame DEF agentVars
<1>3. b \in B /\ c \in B /\ b # c
  BY BoxMembers
<1>4. \A d \in B \ {c} : Thins(g[d], f[d], T)
  <2>1. c \notin B \ {c} /\ B \ {c} \in SUBSET Boxes(channels, as)
    OBVIOUS
  <2> QED
    BY <1>1, <1>2, <2>1, BoxByBox
<1>5. f[b] = before /\ g[b] = Tail(before) /\ f[c] = toClients /\ g[c] = toClients'
  BY <1>3 DEF Contents, Content
<1>6. \/ Thins(toClients', toClients, T)
      \/ /\ ~Lacks(before, T) /\ (Few(before, T) => Lacks(Tail(before), T))
         /\ Lacks(toClients, T) => Few(toClients', T)
  <2>1. CASE Head(before) \in T
    BY <2>1, ThinTail, Appending
  <2>2. CASE Head(before) \notin T
    BY <2>2, Appending
  <2> QED
    BY <2>1, <2>2
<1>7. \/ Thins(g[c], f[c], T)
      \/ /\ ~Lacks(f[b], T) /\ (Few(f[b], T) => Lacks(g[b], T))
         /\ Lacks(f[c], T) => Few(g[c], T)
  BY <1>5, <1>6
<1> HIDE DEF f, g, B, b, c
<1>8. Kept(g, f, B, T)
  BY <1>3, <1>4, <1>7, Moved
<1> QED
  BY <1>8 DEF f, g, B

\* The jobs draw up new orders, and may take a message from ToServer.
LEMMA DrawKeeps ==
  ASSUME NetTypeOK, NEW channels \in SUBSET Channels, NEW as \in SUBSET Agent, NEW T,
         "jobs" \in channels, NEW before, NEW after,
         UNCHANGED <<toClients, routerHand, agentVars>>,
         toServer' = toServer \/ (toServer # <<>> /\ toServer' = Tail(toServer))
  PROVE  LET B == Boxes(channels, as)
             f == Contents(B, before)
             g == Contents(B, after)'
         IN  /\ Void(f, B, T) /\ Lacks(after, T) => Void(g, B, T)
             /\ Void(f, B, T) /\ Few(after, T) => Single(g, B, T)
             /\ Single(f, B, T) /\ Lacks(after, T) => Single(g, B, T)
             /\ "toServer" \in channels /\ Single(f, B, T)
                /\ toServer # <<>> /\ toServer' = Tail(toServer) /\ Head(toServer) \in T =>
                  /\ Lacks(after, T) => Void(g, B, T)
                  /\ Few(after, T) => Single(g, B, T)
<1> DEFINE B == Boxes(channels, as)
           f == Contents(B, before)
           g == Contents(B, after)'
           b == <<"jobs", Server>>
           c == <<"toServer", Server>>
<1> USE DEF NetTypeOK
<1>1. toServer \in Seq(Message) /\ Thins(toServer', toServer, T)
  <2>1. toServer \in Seq(Message)
    OBVIOUS
  <2>2. CASE toServer' = toServer
    BY <2>1, <2>2, ThinSame
  <2>3. CASE toServer # <<>> /\ toServer' = Tail(toServer)
    BY <2>1, <2>3, ThinTail
  <2> QED
    BY <2>2, <2>3
<1>2. /\ Thins(toClients', toClients, T) /\ Thins(Hand(routerHand)', Hand(routerHand), T)
      /\ \A a \in as : /\ Thins(toAgent'[a], toAgent[a], T)
                       /\ Thins(fromAgent'[a], fromAgent[a], T)
                       /\ Thins(calls'[a], calls[a], T)
  BY ThinSame DEF Hand, agentVars
<1>3. b \in B /\ g[b] = after
  <2>1. b \in B
    BY BoxMembers
  <2> QED
    BY <2>1 DEF Contents, Content
<1>4. \A d \in B \ {b} : Thins(g[d], f[d], T)
  <2>1. b \notin B \ {b} /\ B \ {b} \in SUBSET Boxes(channels, as)
    OBVIOUS
  <2> QED
    BY <1>1, <1>2, <2>1, BoxByBox
<1>5. ASSUME "toServer" \in channels, Single(f, B, T),
             toServer # <<>>, toServer' = Tail(toServer), Head(toServer) \in T
      PROVE  /\ Lacks(after, T) => Void(g, B, T)
             /\ Few(after, T) => Single(g, B, T)
  <2>1. c \in B /\ b # c
    BY <1>5, BoxMembers
  <2>2. f[c] = toServer /\ g[c] = toServer'
    BY <2>1 DEF Contents, Content
  <2>3. ~Lacks(f[c], T) /\ (Few(f[c], T) => Lacks(g[c], T))
    BY <1>1, <1>5, <2>2, ThinTail
  <2> HIDE DEF f, g, B, b, c
  <2> QED
    BY <1>3, <1>4, <1>5, <2>1, <2>3, Removed
<1>6. /\ Void(f, B, T) /\ Lacks(after, T) => Void(g, B, T)
      /\ Void(f, B, T) /\ Few(after, T) => Single(g, B, T)
      /\ Single(f, B, T) /\ Lacks(after, T) => Single(g, B, T)
  <2> HIDE DEF f, g, B, b
  <2> QED
    BY <1>3, <1>4, Replaced
<1> QED
  BY <1>5, <1>6

-----------------------------------------------------------------------------
(* The orders of the jobs, by what they make an agent do.                  *)

LEMMA NotBoth == \A m \in Message : m \notin Call
<1> SUFFICES ASSUME NEW m \in Message, m \in Call PROVE FALSE
  OBVIOUS
<1>1. "to" \in DOMAIN m
  BY DEF Message
<1>2. "to" \notin DOMAIN m
  BY DEF Call
<1> QED
  BY <1>1, <1>2

\* Orders to agents of as that make them neither speak nor ask.
PlainOrders(as) ==
  {m \in Orders : m.to \in as /\ m.cmd \notin Asking \cup {"SendInitialMessage"}}

LEMMA PlainMore ==
  ASSUME NEW ts, NEW us, ts \subseteq us
  PROVE  \A s \in Seq(PlainOrders(ts)) : s \in Seq(PlainOrders(us))
<1>1. PlainOrders(ts) \subseteq PlainOrders(us)
  BY DEF PlainOrders
<1> QED
  BY <1>1

PlainCommands == {c \in CommandOf : c.cmd \notin Asking \cup {"SendInitialMessage"}}

LEMMA OrderFields ==
  ASSUME NEW a \in Agent, NEW cmd \in Command, NEW about \in SUBSET Layer
  PROVE  /\ Order(a, cmd, about) \in Orders
         /\ Order(a, cmd, about).from = Server /\ Order(a, cmd, about).to = a
         /\ Order(a, cmd, about).cmd = cmd
  BY MsgType DEF Order, Orders, Msg

\* What is sent is made of the commands sent to each agent.
LEMMA SendsOrders ==
  ASSUME NEW as \in Seq(Agent), NEW commands \in Seq(CommandOf), NEW P,
         \A j \in DOMAIN as, k \in DOMAIN commands :
           Order(as[j], commands[k].cmd, commands[k].about) \in P
  PROVE  SendCommands(as, commands) \in Seq(P)
<1>1. PICK n : n = Len(commands)
  OBVIOUS
<1>2. PICK l : l = Len(as)
  OBVIOUS
<1>3. n \in Nat /\ l \in Nat /\ DOMAIN as = 1 .. l /\ DOMAIN commands = 1 .. n
  BY <1>1, <1>2, LenProperties
<1> DEFINE order(i) == Order(as[1 + ((i - 1) \div n)],
                             commands[1 + ((i - 1) % n)].cmd,
                             commands[1 + ((i - 1) % n)].about)
<1>4. ASSUME NEW i \in 1 .. l * n PROVE order(i) \in P
  <2>1. PICK j : j = 1 + ((i - 1) \div n)
    OBVIOUS
  <2>2. PICK k : k = 1 + ((i - 1) % n)
    OBVIOUS
  <2>3. j \in 1 .. l /\ k \in 1 .. n
    BY <1>3, <2>1, <2>2, DivMod
  <2>4. Order(as[j], commands[k].cmd, commands[k].about) \in P
    BY <1>3, <2>3
  <2> QED
    BY <2>1, <2>2, <2>4, Zenon
<1>5. SendCommands(as, commands) = [i \in 1 .. l * n |-> order(i)]
  BY <1>1, <1>2 DEF SendCommands
<1> HIDE DEF order
<1>6. [i \in 1 .. l * n |-> order(i)] \in [1 .. l * n -> P]
  BY <1>4
<1>7. l * n \in Nat
  BY <1>3
<1> QED
  BY <1>5, <1>6, <1>7, SegmentIsSeq, Zenon

LEMMA SendsPlain ==
  ASSUME NEW ts, ts \subseteq Agent, NEW rs, rs \in Seq(ts),
         NEW commands, commands \in Seq(PlainCommands)
  PROVE  SendCommands(rs, commands) \in Seq(PlainOrders(ts))
<1>1. rs \in Seq(Agent) /\ commands \in Seq(CommandOf)
  <2>1. PlainCommands \subseteq CommandOf
    BY DEF PlainCommands
  <2> QED
    BY <2>1
<1>2. ASSUME NEW j \in DOMAIN rs, NEW k \in DOMAIN commands
      PROVE  Order(rs[j], commands[k].cmd, commands[k].about) \in PlainOrders(ts)
  <2>0. rs[j] \in ts
    BY ElementOfSeq
  <2>1. commands[k] \in PlainCommands
    BY ElementOfSeq
  <2>2. /\ commands[k].cmd \in Command /\ commands[k].about \in SUBSET Layer
        /\ commands[k].cmd \notin Asking \cup {"SendInitialMessage"}
    BY <2>1 DEF PlainCommands, CommandOf
  <2>3. rs[j] \in Agent
    BY <2>0
  <2> QED
    BY <2>0, <2>2, <2>3, OrderFields DEF PlainOrders
<1> QED
  BY <1>1, <1>2, SendsOrders

\* Commands to a single agent are as many orders.
LEMMA SendsToOne ==
  ASSUME NEW a \in Agent, NEW cs \in Seq(CommandOf)
  PROVE  SendCommands(<<a>>, cs) =
           [i \in 1 .. Len(cs) |-> Order(a, cs[i].cmd, cs[i].about)]
<1>1. PICK n : n = Len(cs)
  OBVIOUS
<1>2. n \in Nat /\ Len(<<a>>) = 1 /\ 1 * n = n
  BY <1>1, LenProperties
<1>3. ASSUME NEW i \in 1 .. n
      PROVE  /\ <<a>>[1 + ((i - 1) \div n)] = a
             /\ 1 + ((i - 1) % n) = i
  <2>1. (i - 1) \div n = 0 /\ (i - 1) % n = i - 1
    <3>1. i - 1 \in 0 .. n - 1 /\ n > 0
      BY <1>2
    <3> QED
      BY <1>2, <3>1
  <2> QED
    BY <1>2, <2>1
<1> DEFINE order(i) == Order(<<a>>[1 + ((i - 1) \div n)],
                             cs[1 + ((i - 1) % n)].cmd, cs[1 + ((i - 1) % n)].about)
           one(i) == Order(a, cs[i].cmd, cs[i].about)
<1>4. \A i \in 1 .. n : order(i) = one(i)
  BY <1>3, Zenon
<1>5. SendCommands(<<a>>, cs) = [i \in 1 .. n |-> order(i)]
  BY <1>1, <1>2 DEF SendCommands
<1> HIDE DEF order, one
<1>6. [i \in 1 .. n |-> order(i)] = [i \in 1 .. n |-> one(i)]
  BY <1>4
<1> QED
  BY <1>1, <1>5, <1>6 DEF one

\* One more command is one more order.
LEMMA SendsLast ==
  ASSUME NEW a \in Agent, NEW commands \in Seq(CommandOf), NEW c \in CommandOf
  PROVE  SendCommands(<<a>>, commands \o <<c>>) =
           SendCommands(<<a>>, commands) \o <<Order(a, c.cmd, c.about)>>
<1>1. \A cs \in Seq(CommandOf) :
        SendCommands(<<a>>, cs) = [i \in 1 .. Len(cs) |-> Order(a, cs[i].cmd, cs[i].about)]
  BY SendsToOne
<1>2. PICK n \in Nat : n = Len(commands)
  OBVIOUS
<1>3. /\ commands \o <<c>> \in Seq(CommandOf) /\ Len(commands \o <<c>>) = n + 1
      /\ \A i \in 1 .. n : (commands \o <<c>>)[i] = commands[i]
      /\ (commands \o <<c>>)[n + 1] = c
  BY <1>2
<1> DEFINE all == commands \o <<c>>
           f == [i \in 1 .. n + 1 |-> Order(a, all[i].cmd, all[i].about)]
           g == [i \in 1 .. n |-> Order(a, commands[i].cmd, commands[i].about)]
           last == Order(a, c.cmd, c.about)
<1>4. SendCommands(<<a>>, all) = f /\ SendCommands(<<a>>, commands) = g
  BY <1>1, <1>2, <1>3, Zenon
<1>5. /\ DOMAIN f = 1 .. n + 1 /\ DOMAIN g = 1 .. n
      /\ \A i \in 1 .. n : f[i] = g[i]
      /\ f[n + 1] = last
  <2>1. n + 1 \in 1 .. n + 1 /\ \A i \in 1 .. n : i \in 1 .. n + 1
    OBVIOUS
  <2> QED
    BY <1>3, <2>1, Zenon
<1>6. g \in Seq({g[i] : i \in 1 .. n}) /\ Len(g) = n
  BY <1>5
<1>7. /\ g \o <<last>> = [i \in 1 .. n + 1 |-> IF i <= n THEN g[i] ELSE last]
  <2> HIDE DEF g, last
  <2> QED
    BY <1>6
<1>8. f = [i \in 1 .. n + 1 |-> f[i]]
  OBVIOUS
<1>9. [i \in 1 .. n + 1 |-> f[i]] = [i \in 1 .. n + 1 |-> IF i <= n THEN g[i] ELSE last]
  <2> HIDE DEF f, g, last
  <2> QED
    BY <1>5
<1> QED
  BY <1>4, <1>7, <1>8, <1>9, Zenon

\* A token is at most the last of what is sent, behind plain orders.
LEMMA LastFew ==
  ASSUME NEW ts, NEW s \in Seq(PlainOrders(ts)), NEW m, NEW T,
         PlainOrders(ts) \cap T = {}
  PROVE  /\ Lacks(s, T) /\ Few(s \o <<m>>, T)
         /\ m \notin T => Lacks(s \o <<m>>, T)
<1>1. Lacks(s, T)
  BY ElementOfSeq DEF Lacks
<1>2. s \o <<m>> = Append(s, m)
  OBVIOUS
<1>3. Few(Append(s, m), T) /\ (m \notin T => Lacks(Append(s, m), T))
  BY <1>1, Appending
<1> QED
  BY <1>1, <1>2, <1>3

\* The places of the tokens.
LEMMA PlacesFew ==
  ASSUME NEW B, NEW out, NEW T, NEW P, P \subseteq Places(B, out, T)
  PROVE  /\ Void(Contents(B, out), B, T) => P = {} /\ Cardinality(P) = 0
         /\ Single(Contents(B, out), B, T) =>
              /\ Cardinality(P) \in Nat /\ Cardinality(P) <= 1
              /\ P # {} => Cardinality(P) = 1
<1>1. ASSUME NEW p \in P
      PROVE  \E b \in B : \E i \in DOMAIN Contents(B, out)[b] :
               p = <<b, i>> /\ Contents(B, out)[b][i] \in T
  <2>1. PICK b \in B : p \in {b} \X {i \in DOMAIN Content(b, out) : Content(b, out)[i] \in T}
    BY <1>1 DEF Places
  <2>2. PICK i \in {i \in DOMAIN Content(b, out) : Content(b, out)[i] \in T} : p = <<b, i>>
    BY <2>1
  <2> QED
    BY <2>2 DEF Contents
<1> DEFINE f == Contents(B, out)
<1> HIDE DEF f
<1>2. ASSUME Void(f, B, T) PROVE P = {}
  BY <1>1, <1>2 DEF Void, Lacks, f
<1>3. ASSUME Single(f, B, T), NEW p \in P, NEW q \in P PROVE p = q
  <2>1. /\ \E b \in B : \E i \in DOMAIN f[b] : p = <<b, i>> /\ f[b][i] \in T
        /\ \E c \in B : \E j \in DOMAIN f[c] : q = <<c, j>> /\ f[c][j] \in T
    BY <1>1 DEF f
  <2>2. PICK b \in B, c \in B : /\ \E i \in DOMAIN f[b] : p = <<b, i>> /\ f[b][i] \in T
                               /\ \E j \in DOMAIN f[c] : q = <<c, j>> /\ f[c][j] \in T
    BY <2>1
  <2>4. PICK i \in DOMAIN f[b], j \in DOMAIN f[c] :
          /\ p = <<b, i>> /\ f[b][i] \in T
          /\ q = <<c, j>> /\ f[c][j] \in T
    BY <2>2
  <2>3. b = c /\ i = j
    BY <1>3, <2>4, SingleSame
  <2> QED
    BY <2>3, <2>4
<1>4. ASSUME Single(f, B, T)
      PROVE  /\ Cardinality(P) \in Nat /\ Cardinality(P) <= 1
             /\ P # {} => Cardinality(P) = 1
  <2>1. CASE P = {}
    BY <2>1, FS_EmptySet
  <2>2. CASE P # {}
    <3>1. PICK p : p \in P
      BY <2>2
    <3>2. P = {p}
      BY <1>3, <1>4, <3>1
    <3>3. Cardinality({p}) = 1
      BY FS_Singleton
    <3> QED
      BY <3>2, <3>3
  <2> QED
    BY <2>1, <2>2
<1> QED
  BY <1>2, <1>4, FS_EmptySet DEF f

\* Nothing is anywhere at the start.
LEMMA NothingYet ==
  ASSUME NetInit, NEW channels \in SUBSET Channels, NEW as \in SUBSET Agent, NEW T
  PROVE  Void(Contents(Boxes(channels, as), <<>>), Boxes(channels, as), T)
<1>1. ASSUME NEW b \in Boxes(channels, as) PROVE Content(b, <<>>) = <<>>
  <2>1. CASE \E n \in channels : b = <<n, Server>>
    BY <2>1 DEF NetInit, Content, Hand, Channels
  <2>2. CASE \E a \in as : b \in {<<"toAgent", a>>, <<"fromAgent", a>>, <<"calls", a>>}
    <3>1. PICK a \in as : b = <<"toAgent", a>> \/ b = <<"fromAgent", a>> \/ b = <<"calls", a>>
      BY <2>2
    <3>2. toAgent[a] = <<>> /\ fromAgent[a] = <<>> /\ calls[a] = <<>>
      BY DEF NetInit
    <3> QED
      BY <3>1, <3>2 DEF Content
  <2> QED
    BY <2>1, <2>2 DEF Boxes
<1> QED
  BY <1>1, EmptyLacks DEF Void, Contents

\* Whatever is in a box was said by an agent, ordered by the jobs or is a
\* request.
LEMMA WhatIsThere ==
  ASSUME NetTypeOK, NEW orders, Signed(orders), NEW out \in Seq(orders),
         NEW channels \in SUBSET Channels, NEW as \in SUBSET Agent,
         NEW b \in Boxes(channels, as), NEW i \in DOMAIN Content(b, out)
  PROVE  Content(b, out)[i] \in Speech \cup orders \cup Call
<1>1. CASE b = <<"jobs", Server>>
  BY <1>1 DEF Content
<1>2. CASE b = <<"toClients", Server>>
  BY <1>2 DEF Content, Signed
<1>3. CASE b = <<"routerHand", Server>>
  BY <1>3 DEF Content, Signed, Hand
<1>4. CASE b = <<"toServer", Server>>
  <2>1. toServer[i] \in {m \in Speech : LayerOf[m.from] = 0}
    BY <1>4 DEF Content, Signed
  <2> QED
    BY <1>4, <2>1 DEF Content
<1>5. CASE \E a \in as : b \in {<<"toAgent", a>>, <<"fromAgent", a>>, <<"calls", a>>}
  <2>1. PICK a \in as : b = <<"toAgent", a>> \/ b = <<"fromAgent", a>> \/ b = <<"calls", a>>
    BY <1>5
  <2>2. CASE b = <<"toAgent", a>>
    <3>1. toAgent[a] \in Seq(To(a, orders)) /\ Content(b, out) = toAgent[a]
      BY <2>2 DEF Signed, Content
    <3>2. toAgent[a][i] \in To(a, orders)
      BY <3>1
    <3> QED
      BY <3>1, <3>2 DEF To
  <2>3. CASE b = <<"fromAgent", a>>
    <3>1. fromAgent[a] \in Seq(Said(a)) /\ Content(b, out) = fromAgent[a]
      BY <2>3 DEF Signed, Content
    <3>2. fromAgent[a][i] \in Said(a)
      BY <3>1
    <3> QED
      BY <3>1, <3>2 DEF Said
  <2>4. CASE b = <<"calls", a>>
    <3>1. calls[a] \in Seq(Call) /\ Content(b, out) = calls[a]
      BY <2>4 DEF NetTypeOK, Content
    <3> QED
      BY <3>1
  <2> QED
    BY <2>1, <2>2, <2>3, <2>4
<1>6. \/ \E n \in channels : b = <<n, Server>>
      \/ \E a \in as : b \in {<<"toAgent", a>>, <<"fromAgent", a>>, <<"calls", a>>}
  BY DEF Boxes
<1> QED
  BY <1>1, <1>2, <1>3, <1>4, <1>5, <1>6 DEF Channels

LEMMA PlacesMore ==
  ASSUME NEW C, NEW B, NEW out, NEW M, NEW T, C \subseteq B,
         \A b \in C : \A i \in DOMAIN Content(b, out) :
           Content(b, out)[i] \in M => Content(b, out)[i] \in T
  PROVE  Places(C, out, M) \subseteq Places(B, out, T)
<1> SUFFICES ASSUME NEW p \in Places(C, out, M) PROVE p \in Places(B, out, T)
  OBVIOUS
<1>1. PICK b \in C : p \in {b} \X {i \in DOMAIN Content(b, out) : Content(b, out)[i] \in M}
  BY DEF Places
<1>2. {i \in DOMAIN Content(b, out) : Content(b, out)[i] \in M}
        \subseteq {i \in DOMAIN Content(b, out) : Content(b, out)[i] \in T}
  OBVIOUS
<1>3. p \in {b} \X {i \in DOMAIN Content(b, out) : Content(b, out)[i] \in T}
  BY <1>1, <1>2
<1> QED
  BY <1>3 DEF Places

-----------------------------------------------------------------------------
(***************************************************************************)
(* Nothing follows a token: while one is under way, no other message comes *)
(* to an agent of as, so none of their requests is cancelled.              *)
(***************************************************************************)

NoneAfter(s, T, Q) == \A i, j \in DOMAIN s : i < j /\ s[i] \in T => s[j] \notin Q

ToAny(as) == {m \in Message : m.to \in as}

\* The agent has a token, wherever.
Busy(a, T) == ~Lacks(toAgent[a], T) \/ calls[a] # <<>> \/ ~Lacks(fromAgent[a], T)

\* out: what the jobs have yet to send.
QuietQueues(as, T, out) ==
  /\ NoneAfter(out, T, ToAny(as))
  /\ NoneAfter(toClients, T, ToAny(as))
  /\ Lacks(toClients, T) \/ Lacks(out, ToAny(as))

QuietAgent(a, as, T, out) ==
  /\ Busy(a, T) => Lacks(toClients, ToAny(as)) /\ Lacks(out, ToAny(as))
  /\ NoneAfter(toAgent[a], T, Message)
  /\ calls[a] # <<>> => toAgent[a] = <<>>
  /\ \A k \in DOMAIN calls[a] : ~calls[a][k].cancelled

Quiet(as, T, out) == /\ QuietQueues(as, T, out)
                     /\ \A a \in as : QuietAgent(a, as, T, out)

LEMMA NoneTail ==
  ASSUME NEW U, NEW s \in Seq(U), s # <<>>, NEW T, NEW Q
  PROVE  /\ Lacks(s, Q) => Lacks(Tail(s), Q)
         /\ NoneAfter(s, T, Q) => NoneAfter(Tail(s), T, Q)
         /\ NoneAfter(s, T, Q) /\ Head(s) \in T => Lacks(Tail(s), Q)
         /\ Head(s) \in Q => ~Lacks(s, Q)
<1>1. /\ DOMAIN Tail(s) = 1 .. Len(s) - 1 /\ DOMAIN s = 1 .. Len(s) /\ Len(s) \in Nat
      /\ Len(s) # 0 /\ Head(s) = s[1] /\ \A i \in 1 .. Len(s) - 1 : Tail(s)[i] = s[i + 1]
  OBVIOUS
<1>2. \A i \in DOMAIN Tail(s) : i \in Nat /\ i + 1 \in DOMAIN s /\ Tail(s)[i] = s[i + 1]
  BY <1>1
<1>3. ASSUME NoneAfter(s, T, Q) PROVE NoneAfter(Tail(s), T, Q)
  BY <1>2, <1>3 DEF NoneAfter
<1>4. ASSUME NoneAfter(s, T, Q), Head(s) \in T PROVE Lacks(Tail(s), Q)
  <2> SUFFICES ASSUME NEW i \in DOMAIN Tail(s) PROVE Tail(s)[i] \notin Q
    BY DEF Lacks
  <2>1. i + 1 \in DOMAIN s /\ 1 \in DOMAIN s /\ 1 < i + 1 /\ s[1] \in T
    BY <1>1, <1>4
  <2> QED
    BY <1>2, <1>4, <2>1 DEF NoneAfter
<1> QED
  BY <1>1, <1>2, <1>3, <1>4 DEF Lacks

LEMMA NoneAppended ==
  ASSUME NEW U, NEW s \in Seq(U), NEW y, NEW T, NEW Q
  PROVE  /\ NoneAfter(s, T, Q) /\ (Lacks(s, T) \/ y \notin Q) => NoneAfter(Append(s, y), T, Q)
         /\ Lacks(s, Q) /\ y \notin Q => Lacks(Append(s, y), Q)
<1>1. /\ DOMAIN Append(s, y) = 1 .. Len(s) + 1 /\ DOMAIN s = 1 .. Len(s) /\ Len(s) \in Nat
      /\ \A i \in 1 .. Len(s) : Append(s, y)[i] = s[i]
      /\ Append(s, y)[Len(s) + 1] = y
  OBVIOUS
<1>2. ASSUME NoneAfter(s, T, Q), Lacks(s, T) \/ y \notin Q,
             NEW i \in DOMAIN Append(s, y), NEW j \in DOMAIN Append(s, y), i < j,
             Append(s, y)[i] \in T
      PROVE  Append(s, y)[j] \notin Q
  <2>1. i \in DOMAIN s /\ s[i] \in T
    BY <1>1, <1>2
  <2>2. CASE j \in DOMAIN s
    BY <1>1, <1>2, <2>1, <2>2 DEF NoneAfter
  <2>3. CASE j = Len(s) + 1
    BY <1>1, <1>2, <2>1, <2>3 DEF Lacks
  <2> QED
    BY <1>1, <2>2, <2>3
<1>3. ASSUME NoneAfter(s, T, Q), Lacks(s, T) \/ y \notin Q
      PROVE  NoneAfter(Append(s, y), T, Q)
  BY <1>2, <1>3 DEF NoneAfter
<1> QED
  BY <1>3, Appending

LEMMA NobodyThere ==
  ASSUME NEW U, NEW s \in Seq(U), Lacks(s, U)
  PROVE  s = <<>>
<1>1. ASSUME s # <<>> PROVE 1 \in DOMAIN s /\ s[1] \in U
  BY <1>1
<1> QED
  BY <1>1 DEF Lacks

\* An agent with a token leaves none for ToClients.
LEMMA BusyAlone ==
  ASSUME NEW channels, NEW as, NEW T, Call \subseteq T, "toClients" \in channels,
         NetTypeOK, NetTypeOK', as \subseteq Agent, NEW out, NEW a \in as
  PROVE  LET B == Boxes(channels, as)
         IN  /\ Single(Contents(B, out), B, T) /\ Busy(a, T) => Lacks(toClients, T)
             /\ Single(Contents(B, out)', B, T) /\ Busy(a, T)' => Lacks(toClients', T)
<1> DEFINE B == Boxes(channels, as)
           c == <<"toClients", Server>>
           b1 == <<"toAgent", a>>
           b2 == <<"fromAgent", a>>
           b3 == <<"calls", a>>
<1>1. c \in B /\ b1 \in B /\ b2 \in B /\ b3 \in B
  BY BoxMembers
<1>2. c # b1 /\ c # b2 /\ c # b3
  OBVIOUS
<1>3. ASSUME NEW s \in Seq(Call), s # <<>> PROVE ~Lacks(s, T)
  <2>1. 1 \in DOMAIN s /\ s[1] \in Call
    BY <1>3
  <2> QED
    BY <2>1 DEF Lacks
<1>4. ASSUME Single(Contents(B, out), B, T), Busy(a, T) PROVE Lacks(toClients, T)
  <2>1. /\ Contents(B, out)[c] = toClients /\ Contents(B, out)[b1] = toAgent[a]
        /\ Contents(B, out)[b2] = fromAgent[a] /\ Contents(B, out)[b3] = calls[a]
    BY <1>1 DEF Contents, Content
  <2>2. calls[a] # <<>> => ~Lacks(calls[a], T)
    BY <1>3 DEF NetTypeOK
  <2> HIDE DEF B, c, b1, b2, b3
  <2> QED
    BY <1>1, <1>2, <1>4, <2>1, <2>2 DEF Single, Busy
<1>5. ASSUME Single(Contents(B, out)', B, T), Busy(a, T)' PROVE Lacks(toClients', T)
  <2>1. /\ Contents(B, out)'[c] = toClients' /\ Contents(B, out)'[b1] = toAgent'[a]
        /\ Contents(B, out)'[b2] = fromAgent'[a] /\ Contents(B, out)'[b3] = calls'[a]
    BY <1>1 DEF Contents, Content
  <2>2. calls'[a] # <<>> => ~Lacks(calls'[a], T)
    BY <1>3 DEF NetTypeOK
  <2>3. PICK g : g = Contents(B, out)'
    OBVIOUS
  <2> HIDE DEF B, c, b1, b2, b3
  <2> QED
    BY <1>1, <1>2, <1>5, <2>1, <2>2, <2>3 DEF Single, Busy
<1> QED
  BY <1>4, <1>5

LEMMA QuietRoute ==
  ASSUME NetTypeOK, NEW channels, NEW as, NEW orders, NEW T,
         Closed(channels, as, orders, T), Signed(orders), NEW out, Quiet(as, T, out),
         NEW b \in Agent, Routed(b)
  PROVE  Quiet(as, T, out)'
<1> USE DEF NetTypeOK
<1>1. QuietQueues(as, T, out)'
  <2>1. UNCHANGED toClients
    BY DEF Routed, queueVars
  <2> QED
    BY <2>1 DEF Quiet, QuietQueues
<1>2. ASSUME NEW a \in as, a # b PROVE QuietAgent(a, as, T, out)'
  <2>1. UNCHANGED <<toClients, toAgent[a], fromAgent[a], calls[a]>>
    BY <1>2 DEF Routed, queueVars, CancelPrevious, Spawn, Closed
  <2> QED
    BY <1>2, <2>1 DEF Quiet, QuietAgent, Busy
<1>3. ASSUME b \in as PROVE QuietAgent(b, as, T, out)'
  <2>1. QuietAgent(b, as, T, out) /\ b \in Agent /\ UNCHANGED toClients
    BY <1>3 DEF Quiet, Routed, queueVars
  <2>2. PICK s \in Seq(Message) : s = toAgent[b]
    OBVIOUS
  <2>3. s # <<>> /\ toAgent'[b] = Tail(s) /\ Inbox(b) = Head(s) /\ calls[b] = <<>>
    BY <2>1, <2>2 DEF Routed, Inbox, QuietAgent
  <2>4. NoneAfter(s, T, Message) /\ NoneAfter(Tail(s), T, Message)
    BY <2>1, <2>2, <2>3, NoneTail DEF QuietAgent
  <2>5. Lacks(s, T) => Lacks(Tail(s), T)
    BY <2>3, NoneTail
  <2>6. Cancelled(calls[b]) = <<>>
    BY <2>3 DEF Cancelled
  <2>7. CASE CancelPrevious(b)
    <3>1. calls'[b] = <<>>
      BY <2>6, <2>7 DEF CancelPrevious
    <3>2. ASSUME ~Lacks(fromAgent'[b], T) PROVE Busy(b, T)
      <4>1. CASE UNCHANGED fromAgent
        BY <3>2, <4>1 DEF Busy
      <4>2. CASE Inbox(b).cmd = "SendInitialMessage"
        <5>1. toAgent[b] \in Seq(To(b, orders)) /\ Head(s) \in To(b, orders)
          BY <2>2, <2>3 DEF Signed
        <5>2. Head(s) \in T
          BY <1>3, <2>3, <4>2, <5>1 DEF Closed, To
        <5>3. ~Lacks(s, T)
          BY <2>3, <5>2, NoneTail
        <5> QED
          BY <2>2, <5>3 DEF Busy
      <4>3. CASE Inbox(b).cmd \in Asking
        BY <3>2, <4>1, <4>3 DEF Routed
      <4> QED
        BY <4>1, <4>2, <4>3 DEF Routed
    <3>3. ASSUME Busy(b, T)' PROVE Busy(b, T)
      BY <2>2, <2>3, <2>5, <3>1, <3>2, <3>3 DEF Busy
    <3> QED
      BY <2>1, <2>3, <2>4, <3>1, <3>3 DEF QuietAgent
  <2>8. CASE Inbox(b).cmd \in Asking /\ \E c \in Call : ~c.cancelled /\ Spawn(b, c)
    <3>1. PICK c \in Call : ~c.cancelled /\ Spawn(b, c)
      BY <2>8
    <3>2. calls'[b] = <<c>>
      BY <2>6, <3>1 DEF Spawn
    <3>3. Head(s) \in T
      <4>1. toAgent[b] \in Seq(To(b, orders)) /\ Head(s) \in To(b, orders)
        BY <2>2, <2>3 DEF Signed
      <4> QED
        BY <1>3, <2>3, <2>8, <4>1 DEF Closed, To
    <3>4. Lacks(Tail(s), Message) /\ ~Lacks(s, T)
      BY <2>3, <2>4, <3>3, NoneTail
    <3>5. Tail(s) = <<>>
      <4>1. Tail(s) \in Seq(Message)
        BY <2>3
      <4> QED
        BY <3>4, <4>1, NobodyThere
    <3>6. Busy(b, T)
      BY <2>2, <3>4 DEF Busy
    <3> QED
      BY <2>1, <2>3, <2>4, <3>1, <3>2, <3>5, <3>6 DEF QuietAgent
  <2> QED
    BY <2>7, <2>8 DEF Routed
<1> QED
  BY <1>1, <1>2, <1>3 DEF Quiet

LEMMA QuietRequest ==
  ASSUME NetTypeOK, NEW as, NEW T, Call \subseteq T, as \subseteq Agent,
         NEW out, Quiet(as, T, out),
         NEW b \in Agent, NEW k \in DOMAIN calls[b], Requested(b, k)
  PROVE  Quiet(as, T, out)'
<1> USE DEF NetTypeOK
<1>1. QuietQueues(as, T, out)' /\ UNCHANGED toClients
  <2>1. UNCHANGED toClients
    BY DEF Requested, queueVars
  <2> QED
    BY <2>1 DEF Quiet, QuietQueues
<1>2. ASSUME NEW a \in as, a # b PROVE QuietAgent(a, as, T, out)'
  <2>1. UNCHANGED <<toClients, toAgent[a], fromAgent[a], calls[a]>>
    BY <1>2 DEF Requested, queueVars, Die, Quit, Becomes
  <2> QED
    BY <1>2, <2>1 DEF Quiet, QuietAgent, Busy
<1>3. ASSUME b \in as PROVE QuietAgent(b, as, T, out)'
  <2>0. calls[b] \in Seq(Call) /\ calls[b] # <<>> /\ k \in 1 .. Len(calls[b])
    OBVIOUS
  <2>1. /\ Lacks(toClients', ToAny(as)) /\ Lacks(out, ToAny(as)) /\ toAgent[b] = <<>>
        /\ \A j \in DOMAIN calls[b] : ~calls[b][j].cancelled
    BY <1>1, <1>3, <2>0 DEF Quiet, QuietAgent, Busy
  <2>2. toAgent'[b] = <<>>
    BY <2>1 DEF Requested, Die
  <2>3. ASSUME NEW j \in DOMAIN calls'[b] PROVE ~calls'[b][j].cancelled
    <3>1. CASE Die(b)
      BY <3>1, <2>3 DEF Die
    <3>2. CASE Quit(b, k)
      <4>1. calls'[b] = Without(calls[b], k)
        BY <3>2 DEF Quit
      <4>2. j \in 1 .. Len(calls[b]) - 1
        BY <2>0, <2>3, <4>1 DEF Without
      <4>3. calls'[b][j] = IF j < k THEN calls[b][j] ELSE calls[b][j + 1]
        BY <4>1, <4>2 DEF Without
      <4>4. j \in DOMAIN calls[b] /\ j + 1 \in DOMAIN calls[b]
        BY <2>0, <4>2
      <4> QED
        BY <2>1, <4>3, <4>4
    <3>3. ASSUME NEW c \in Call, c.cancelled = calls[b][k].cancelled, Becomes(b, k, c)
          PROVE  ~calls'[b][j].cancelled
      <4>1. calls'[b] = [calls[b] EXCEPT ![k] = c]
        BY <3>3 DEF Becomes
      <4>2. j \in DOMAIN calls[b] /\ calls'[b][j] = IF j = k THEN c ELSE calls[b][j]
        BY <2>0, <2>3, <4>1
      <4> QED
        BY <2>1, <3>3, <4>2
    <3> QED
      BY <3>1, <3>2, <3>3 DEF Requested
  <2>4. NoneAfter(toAgent'[b], T, Message)
    BY <2>2 DEF NoneAfter
  <2> QED
    BY <2>1, <2>2, <2>3, <2>4 DEF QuietAgent
<1> QED
  BY <1>1, <1>2, <1>3 DEF Quiet

\* Who is heard by as speaks for as.
Apart(as, T) ==
  \A m \in Speech : /\ m.to \in as => m.from \in as
                    /\ m.from \in as => m \in T

LEMMA QuietStream ==
  ASSUME NetTypeOK, NEW channels, NEW as, NEW orders, NEW T,
         Closed(channels, as, orders, T), Signed(orders), Apart(as, T),
         NEW out, Quiet(as, T, out),
         NEW b \in Agent, Join(b) \/ Listen(b) \/ Disconnect(b),
         Single(Contents(Boxes(channels, as), out), Boxes(channels, as), T)
  PROVE  Quiet(as, T, out)'
<1> USE DEF NetTypeOK
<1>0. /\ as \subseteq Agent /\ Call \subseteq T /\ "toClients" \in channels
      /\ toClients \in Seq(Message) /\ fromAgent[b] \in Seq(Message)
      /\ NetTypeOK /\ NetTypeOK'
  BY JoinTyped DEF Closed
<1>1. CASE Join(b)
  <2>1. UNCHANGED <<toClients, toAgent, fromAgent, calls>>
    BY <1>1 DEF Join, queueVars, agentVars
  <2> QED
    BY <2>1 DEF Quiet, QuietQueues, QuietAgent, Busy
<1>2. CASE Disconnect(b)
  <2>1. UNCHANGED <<toClients, toAgent, calls>>
    BY <1>2 DEF Disconnect, queueVars
  <2>2. ASSUME NEW a \in as, Busy(a, T)' PROVE Busy(a, T)
    <3>1. fromAgent'[a] = fromAgent[a] \/ fromAgent'[a] = <<>>
      BY <1>0, <1>2 DEF Disconnect
    <3>2. ~Lacks(fromAgent'[a], T) => ~Lacks(fromAgent[a], T)
      BY <3>1, EmptyLacks
    <3> QED
      BY <2>1, <2>2, <3>2 DEF Busy
  <2> QED
    BY <2>1, <2>2 DEF Quiet, QuietQueues, QuietAgent
<1>3. CASE Listen(b)
  <2> DEFINE m == Head(fromAgent[b])
             Q == ToAny(as)
  <2>1. /\ fromAgent[b] # <<>> /\ toClients' = Append(toClients, m)
        /\ fromAgent' = [fromAgent EXCEPT ![b] = Tail(@)]
        /\ UNCHANGED <<toAgent, calls>>
    BY <1>3 DEF Listen
  <2>2. m \in Said(b) /\ m \in Speech /\ m.from = b /\ m \in Message
    <3>1. fromAgent[b] \in Seq(Said(b))
      BY DEF Signed
    <3>2. m \in Said(b)
      BY <2>1, <3>1
    <3> QED
      BY <3>2 DEF Said, Speech
  <2>3. \A a \in as : Busy(a, T)' => Busy(a, T)
    <3> SUFFICES ASSUME NEW a \in as, Busy(a, T)' PROVE Busy(a, T)
      OBVIOUS
    <3>1. Lacks(fromAgent[a], T) => Lacks(fromAgent'[a], T)
      BY <1>0, <2>1, NoneTail
    <3> QED
      BY <2>1, <3>1 DEF Busy
  <2> HIDE DEF m
  <2>4. CASE b \in as
    <3>1. m \in T /\ ~Lacks(fromAgent[b], T)
      <4>1. m \in T
        BY <2>2, <2>4 DEF Apart
      <4> QED
        BY <1>0, <2>1, <4>1, NoneTail DEF m
    <3>2. Busy(b, T)
      BY <3>1 DEF Busy
    <3>3. Lacks(toClients, T) /\ Lacks(out, Q)
      BY <1>0, <2>4, <3>2, BusyAlone DEF Quiet, QuietAgent
    <3>4. NoneAfter(toClients', T, Q)
      BY <1>0, <2>1, <3>3, NoneAppended DEF Quiet, QuietQueues
    <3>5. \A a \in as : ~Busy(a, T)'
      <4>1. Single(Contents(Boxes(channels, as), out)', Boxes(channels, as), T)
        BY StreamKeeps DEF Kept
      <4>2. ~Lacks(toClients', T)
        BY <1>0, <2>1, <3>1, Appending
      <4> QED
        BY <1>0, <4>1, <4>2, BusyAlone
    <3> QED
      BY <2>1, <3>3, <3>4, <3>5 DEF Quiet, QuietQueues, QuietAgent
  <2>5. CASE b \notin as
    <3>1. m \notin Q /\ m \notin T
      BY <2>2, <2>5 DEF Apart, ToAny, Closed
    <3>2. /\ NoneAfter(toClients', T, Q)
          /\ Lacks(toClients, T) => Lacks(toClients', T)
          /\ Lacks(toClients, Q) => Lacks(toClients', Q)
      BY <1>0, <2>1, <3>1, NoneAppended, Appending DEF Quiet, QuietQueues
    <3> QED
      BY <2>1, <2>3, <3>2 DEF Quiet, QuietQueues, QuietAgent
  <2> QED
    BY <2>4, <2>5
<1> QED
  BY <1>1, <1>2, <1>3

LEMMA QuietForward ==
  ASSUME NetTypeOK, NEW as, NEW T, as \subseteq Agent,
         NEW out, Quiet(as, T, out), RouterForward
  PROVE  Quiet(as, T, out)'
<1> USE DEF NetTypeOK
<1> DEFINE m == Head(toClients)
           Q == ToAny(as)
<1>1. /\ toClients # <<>> /\ toClients' = Tail(toClients) /\ toClients \in Seq(Message)
      /\ toAgent' = IF Reachable(m.to) THEN [toAgent EXCEPT ![m.to] = Append(@, m)]
                    ELSE toAgent
      /\ UNCHANGED <<fromAgent, calls>>
  BY DEF RouterForward
<1>2. m \in Message
  BY <1>1
<1> HIDE DEF m
<1>3. /\ NoneAfter(toClients', T, Q)
      /\ Lacks(toClients, T) => Lacks(toClients', T)
      /\ Lacks(toClients, Q) => Lacks(toClients', Q)
      /\ m \in T => Lacks(toClients', Q) /\ ~Lacks(toClients, T)
      /\ m \in Q => ~Lacks(toClients, Q)
  BY <1>1, NoneTail DEF Quiet, QuietQueues, m
<1>4. ASSUME NEW a \in as, ~(Reachable(m.to) /\ m.to = a)
      PROVE  QuietAgent(a, as, T, out)'
  <2>1. UNCHANGED toAgent[a]
    BY <1>1, <1>4
  <2> QED
    BY <1>1, <1>3, <2>1 DEF Quiet, QuietAgent, Busy
<1>5. ASSUME NEW a \in as, Reachable(m.to), m.to = a
      PROVE  QuietAgent(a, as, T, out)'
  <2>1. toAgent'[a] = Append(toAgent[a], m) /\ toAgent[a] \in Seq(Message) /\ a \in Agent
    BY <1>1, <1>5
  <2>2. m \in Q /\ ~Busy(a, T)
    BY <1>2, <1>3, <1>5 DEF ToAny, Quiet, QuietAgent
  <2>3. Lacks(toAgent[a], T) /\ calls'[a] = <<>> /\ Lacks(fromAgent'[a], T)
    BY <1>1, <2>2 DEF Busy
  <2>4. NoneAfter(toAgent'[a], T, Message)
    BY <2>1, <2>3, NoneAppended DEF Quiet, QuietAgent
  <2>5. Busy(a, T)' => m \in T
    BY <2>1, <2>3, Appending DEF Busy
  <2>6. m \in T => Lacks(toClients', Q) /\ Lacks(out, Q)
    BY <1>3 DEF Quiet, QuietQueues
  <2>7. \A k \in DOMAIN calls'[a] : ~calls'[a][k].cancelled
    BY <2>3
  <2>8. Busy(a, T)' => Lacks(toClients', Q) /\ Lacks(out, Q)
    BY <2>5, <2>6
  <2> HIDE DEF Q
  <2> QED
    BY <2>3, <2>4, <2>7, <2>8 DEF QuietAgent, Q
<1> QED
  BY <1>3, <1>4, <1>5 DEF Quiet, QuietQueues

\* The transport and the agents keep the quiet.
LEMMA NetQuiet ==
  ASSUME NetTypeOK, NEW channels, NEW as, NEW orders, NEW T,
         Closed(channels, as, orders, T), Signed(orders), Apart(as, T),
         NEW out, Quiet(as, T, out), NetNext,
         Single(Contents(Boxes(channels, as), out), Boxes(channels, as), T)
  PROVE  Quiet(as, T, out)'
<1>0. as \subseteq Agent /\ Call \subseteq T
  BY DEF Closed
<1>1. ASSUME NEW a \in Agent, AgentStep(a) PROVE Quiet(as, T, out)'
  <2>1. CASE AgentRoute(a)
    BY <2>1, RouteShape, QuietRoute
  <2>2. CASE \E k \in DOMAIN calls[a] : CallStep(a, k)
    BY <1>0, <2>2, RequestShape, QuietRequest
  <2>3. CASE Join(a) \/ Listen(a) \/ Disconnect(a)
    BY <2>3, QuietStream
  <2> QED
    BY <1>1, <2>1, <2>2, <2>3 DEF AgentStep
<1>2. CASE RouterForward
  BY <1>0, <1>2, QuietForward
<1>3. CASE RouterDispatch
  <2>1. UNCHANGED <<toClients, toAgent, fromAgent, calls>>
    BY <1>3 DEF RouterDispatch, agentVars
  <2> QED
    BY <2>1 DEF Quiet, QuietQueues, QuietAgent, Busy
<1> QED
  BY <1>1, <1>2, <1>3 DEF NetNext

\* The jobs send their next order.
LEMMA SendQuiet ==
  ASSUME NetTypeOK, NEW as, NEW T, NEW out \in Seq(Message), out # <<>>,
         Quiet(as, T, out), toClients' = Append(toClients, Head(out)),
         UNCHANGED <<toAgent, fromAgent, calls>>
  PROVE  Quiet(as, T, Tail(out))'
<1> DEFINE m == Head(out)
           Q == ToAny(as)
<1>1. toClients \in Seq(Message)
  BY DEF NetTypeOK
<1>2. /\ NoneAfter(Tail(out), T, Q)
      /\ Lacks(out, Q) => Lacks(Tail(out), Q) /\ m \notin Q
      /\ m \in T => Lacks(Tail(out), Q)
  BY NoneTail DEF Quiet, QuietQueues
<1>3. PICK y : y = m
  OBVIOUS
<1>4. /\ NoneAfter(toClients', T, Q)
      /\ Lacks(toClients, T) /\ y \notin T => Lacks(toClients', T)
      /\ Lacks(toClients, Q) /\ y \notin Q => Lacks(toClients', Q)
  <2>1. toClients' = Append(toClients, y)
    BY <1>3
  <2> HIDE DEF m
  <2>2. Lacks(toClients, T) \/ y \notin Q
    BY <1>2, <1>3 DEF Quiet, QuietQueues
  <2>3. NoneAfter(toClients, T, Q)
    BY DEF Quiet, QuietQueues
  <2>4. NoneAfter(toClients', T, Q)
    BY <1>1, <2>1, <2>2, <2>3, NoneAppended
  <2>5. Lacks(toClients, T) /\ y \notin T => Lacks(toClients', T)
    BY <1>1, <2>1, Appending
  <2>6. Lacks(toClients, Q) /\ y \notin Q => Lacks(toClients', Q)
    BY <1>1, <2>1, NoneAppended
  <2> QED
    BY <2>4, <2>5, <2>6
<1> HIDE DEF m
<1>5. PICK rest : rest = Tail(out)
  OBVIOUS
<1>6. QuietQueues(as, T, rest)'
  BY <1>2, <1>3, <1>4, <1>5 DEF Quiet, QuietQueues
<1>7. \A a \in as : QuietAgent(a, as, T, rest)'
  BY <1>2, <1>3, <1>4, <1>5 DEF Quiet, QuietAgent, Busy
<1> QED
  BY <1>5, <1>6, <1>7 DEF Quiet

\* The jobs draw up orders when there is no token anywhere else, or none of
\* them is for as.
LEMMA DrawQuiet ==
  ASSUME NEW as, NEW T, NEW before, NEW after, Quiet(as, T, before),
         UNCHANGED <<toClients, toAgent, fromAgent, calls>>,
         \/ Lacks(after, ToAny(as))
         \/ /\ NoneAfter(after, T, ToAny(as)) /\ Lacks(toClients, T)
            /\ \A a \in as : ~Busy(a, T)
  PROVE  Quiet(as, T, after)'
<1>1. NoneAfter(after, T, ToAny(as))
  BY DEF NoneAfter, Lacks
<1>2. QuietQueues(as, T, after)'
  BY <1>1 DEF Quiet, QuietQueues
<1>3. \A a \in as : QuietAgent(a, as, T, after)'
  BY DEF Quiet, QuietAgent, Busy
<1> QED
  BY <1>2, <1>3 DEF Quiet

\* When the tokens are all in one channel, nobody has one.
LEMMA NobodyBusy ==
  ASSUME NetTypeOK, NEW channels, NEW as, NEW T, Call \subseteq T, as \subseteq Agent,
         "toClients" \in channels, NEW out, NEW n \in Channels \ {"toClients"},
         \A b \in Boxes(channels, as) :
           b # <<n, Server>> => Lacks(Contents(Boxes(channels, as), out)[b], T)
  PROVE  Lacks(toClients, T) /\ \A a \in as : ~Busy(a, T)
<1> DEFINE B == Boxes(channels, as)
<1>1. Lacks(toClients, T)
  <2>1. <<"toClients", Server>> \in B /\ <<"toClients", Server>> # <<n, Server>>
    BY BoxMembers
  <2>2. Contents(B, out)[<<"toClients", Server>>] = toClients
    BY <2>1 DEF Contents, Content
  <2> HIDE DEF B
  <2> QED
    BY <2>1, <2>2 DEF B
<1>2. ASSUME NEW a \in as PROVE ~Busy(a, T)
  <2> DEFINE b1 == <<"toAgent", a>>
             b2 == <<"fromAgent", a>>
             b3 == <<"calls", a>>
  <2>1. b1 \in B /\ b2 \in B /\ b3 \in B
    BY BoxMembers
  <2>2. /\ Contents(B, out)[b1] = toAgent[a] /\ Contents(B, out)[b2] = fromAgent[a]
        /\ Contents(B, out)[b3] = calls[a]
    BY <2>1 DEF Contents, Content
  <2>3. b1 # <<n, Server>> /\ b2 # <<n, Server>> /\ b3 # <<n, Server>>
    BY DEF Channels
  <2>4. Lacks(toAgent[a], T) /\ Lacks(fromAgent[a], T) /\ Lacks(calls[a], T)
    <3> HIDE DEF B, b1, b2, b3
    <3> QED
      BY <2>1, <2>2, <2>3 DEF B
  <2>5. calls[a] \in Seq(Call) /\ Lacks(calls[a], Call)
    BY <2>4 DEF NetTypeOK, Lacks
  <2> QED
    BY <2>4, <2>5, NobodyThere DEF Busy
<1> QED
  BY <1>1, <1>2

\* The token is the last of the orders.
LEMMA LastNone ==
  ASSUME NEW U, NEW s \in Seq(U), NEW T, Lacks(s, T), NEW m, NEW Q
  PROVE  NoneAfter(s \o <<m>>, T, Q) /\ NoneAfter(s, T, Q)
<1>1. s \o <<m>> = Append(s, m)
  OBVIOUS
<1>2. NoneAfter(s, T, Q)
  BY DEF Lacks, NoneAfter
<1> QED
  BY <1>1, <1>2, NoneAppended

-----------------------------------------------------------------------------
(***************************************************************************)
(* A kickoff finds its agent unlatched: on the way to the agent, through   *)
(* what the jobs have yet to send (u), ToClients (t) and the stream down   *)
(* (s), no latch comes before it and an unlatch does.                      *)
(***************************************************************************)

Led(s, U, K) == \A j \in DOMAIN s : s[j] \in K => \E i \in DOMAIN s : i < j /\ s[i] \in U

InOrder(s, t, u, L, K) ==
  /\ NoneAfter(s, L, K) /\ NoneAfter(t, L, K) /\ NoneAfter(u, L, K)
  /\ Lacks(s, L) \/ (Lacks(t, K) /\ Lacks(u, K))
  /\ Lacks(t, L) \/ Lacks(u, K)

LedBy(s, t, u, U, K) ==
  /\ Led(s, U, K)
  /\ Lacks(s, U) => Led(t, U, K)
  /\ Lacks(s, U) /\ Lacks(t, U) => Led(u, U, K)

Latches(a)   == {m \in Orders : m.to = a /\ m.cmd = "Latch"}
Unlatches(a) == {m \in Orders : m.to = a /\ m.cmd = "Unlatch"}
Kickoffs(a)  == {m \in Orders : m.to = a /\ m.cmd = "SendInitialMessage"}

Awake(a, out) ==
  /\ InOrder(toAgent[a], toClients, out, Latches(a), Kickoffs(a))
  /\ alive[a] /\ latch[a] => LedBy(toAgent[a], toClients, out, Unlatches(a), Kickoffs(a))
  /\ alive[a] => a \in connected \/ (Lacks(toClients, Kickoffs(a)) /\ Lacks(out, Kickoffs(a)))
  /\ alive[a] \/ toAgent[a] = <<>>

\* Nothing on the way latches the agent.
Unthreatened(a, out) ==
  /\ Lacks(toAgent[a], Latches(a)) /\ Lacks(toClients, Latches(a)) /\ Lacks(out, Latches(a))

LEMMA LedLacks ==
  ASSUME NEW s, NEW U, NEW K, Lacks(s, K)
  PROVE  Led(s, U, K)
  BY DEF Lacks, Led

LEMMA LedTail ==
  ASSUME NEW S, NEW s \in Seq(S), s # <<>>, NEW U, NEW K, Led(s, U, K)
  PROVE  /\ Head(s) \notin K
         /\ Head(s) \notin U => Led(Tail(s), U, K)
<1>1. /\ DOMAIN Tail(s) = 1 .. Len(s) - 1 /\ DOMAIN s = 1 .. Len(s) /\ Len(s) \in Nat \ {0}
      /\ Head(s) = s[1] /\ \A i \in 1 .. Len(s) - 1 : Tail(s)[i] = s[i + 1]
  OBVIOUS
<1>2. Head(s) \notin K
  BY <1>1 DEF Led
<1>3. ASSUME Head(s) \notin U, NEW j \in DOMAIN Tail(s), Tail(s)[j] \in K
      PROVE  \E i \in DOMAIN Tail(s) : i < j /\ Tail(s)[i] \in U
  <2>1. j + 1 \in DOMAIN s /\ s[j + 1] \in K /\ j \in Nat
    BY <1>1, <1>3
  <2>2. PICK i \in DOMAIN s : i < j + 1 /\ s[i] \in U
    BY <2>1 DEF Led
  <2>3. i # 1
    BY <1>1, <1>3, <2>2
  <2>4. i - 1 \in DOMAIN Tail(s) /\ i - 1 < j /\ Tail(s)[i - 1] = s[i]
    BY <1>1, <2>1, <2>2, <2>3
  <2> QED
    BY <2>2, <2>4
<1> QED
  BY <1>2, <1>3 DEF Led

LEMMA LedAppend ==
  ASSUME NEW S, NEW s \in Seq(S), NEW y, NEW U, NEW K, Led(s, U, K),
         y \notin K \/ ~Lacks(s, U)
  PROVE  Led(Append(s, y), U, K)
<1>1. /\ DOMAIN Append(s, y) = 1 .. Len(s) + 1 /\ DOMAIN s = 1 .. Len(s) /\ Len(s) \in Nat
      /\ \A i \in 1 .. Len(s) : Append(s, y)[i] = s[i]
      /\ Append(s, y)[Len(s) + 1] = y
  OBVIOUS
<1> SUFFICES ASSUME NEW j \in DOMAIN Append(s, y), Append(s, y)[j] \in K
             PROVE  \E i \in DOMAIN Append(s, y) : i < j /\ Append(s, y)[i] \in U
  BY DEF Led
<1>2. PICK i \in DOMAIN s : i < j /\ s[i] \in U
  <2>1. CASE j \in DOMAIN s
    BY <1>1, <2>1 DEF Led
  <2>2. CASE j = Len(s) + 1
    <3>1. PICK i \in DOMAIN s : s[i] \in U
      BY <1>1, <2>2 DEF Lacks
    <3> QED
      BY <1>1, <2>2, <3>1
  <2> QED
    BY <1>1, <2>1, <2>2
<1> QED
  BY <1>1, <1>2

LEMMA NoneLeft ==
  ASSUME NEW S, NEW s \in Seq(S), s # <<>>, NEW U, Head(s) \notin U, Lacks(Tail(s), U)
  PROVE  Lacks(s, U)
<1>1. /\ DOMAIN Tail(s) = 1 .. Len(s) - 1 /\ DOMAIN s = 1 .. Len(s) /\ Len(s) \in Nat \ {0}
      /\ Head(s) = s[1] /\ \A i \in 1 .. Len(s) - 1 : Tail(s)[i] = s[i + 1]
  OBVIOUS
<1> SUFFICES ASSUME NEW i \in DOMAIN s, i # 1 PROVE s[i] \notin U
  BY <1>1 DEF Lacks
<1>2. i - 1 \in DOMAIN Tail(s) /\ Tail(s)[i - 1] = s[i]
  BY <1>1
<1> QED
  BY <1>2 DEF Lacks

\* The agent takes a message.
LEMMA OrderTaken ==
  ASSUME NEW S, NEW s \in Seq(S), s # <<>>, NEW t, NEW u, NEW L, NEW U, NEW K,
         InOrder(s, t, u, L, K)
  PROVE  /\ InOrder(Tail(s), t, u, L, K)
         /\ Head(s) \in L => LedBy(Tail(s), t, u, U, K)
         /\ Head(s) \notin U /\ LedBy(s, t, u, U, K) => LedBy(Tail(s), t, u, U, K)
<1>1. /\ NoneAfter(Tail(s), L, K)
      /\ Lacks(s, L) => Lacks(Tail(s), L)
      /\ Head(s) \in L => Lacks(Tail(s), K) /\ ~Lacks(s, L)
  BY NoneTail DEF InOrder
<1>2. InOrder(Tail(s), t, u, L, K)
  BY <1>1 DEF InOrder
<1>3. ASSUME Head(s) \in L PROVE LedBy(Tail(s), t, u, U, K)
  BY <1>1, <1>3, LedLacks DEF InOrder, LedBy
<1>4. ASSUME Head(s) \notin U, LedBy(s, t, u, U, K) PROVE LedBy(Tail(s), t, u, U, K)
  <2>1. Lacks(Tail(s), U) => Lacks(s, U)
    BY <1>4, NoneLeft
  <2> QED
    BY <1>4, <2>1, LedTail DEF LedBy
<1> QED
  BY <1>2, <1>3, <1>4

\* A message that is none of these, or that is lost, leaves a queue (t).
LEMMA OrderDropped ==
  ASSUME NEW S, NEW s, NEW t \in Seq(S), t # <<>>, NEW u, NEW L, NEW U, NEW K,
         InOrder(s, t, u, L, K)
  PROVE  /\ InOrder(s, Tail(t), u, L, K)
         /\ Head(t) \notin U /\ LedBy(s, t, u, U, K) => LedBy(s, Tail(t), u, U, K)
         /\ Led(s, U, K) /\ Lacks(t, K) /\ Lacks(u, K) => LedBy(s, Tail(t), u, U, K)
         /\ Lacks(t, K) => Lacks(Tail(t), K)
         /\ Lacks(t, L) => Lacks(Tail(t), L)
<1>1. /\ NoneAfter(Tail(t), L, K)
      /\ Lacks(t, L) => Lacks(Tail(t), L)
      /\ Lacks(t, K) => Lacks(Tail(t), K)
  BY NoneTail DEF InOrder
<1>2. InOrder(s, Tail(t), u, L, K)
  BY <1>1 DEF InOrder
<1>3. ASSUME Head(t) \notin U, LedBy(s, t, u, U, K) PROVE LedBy(s, Tail(t), u, U, K)
  <2>1. Lacks(Tail(t), U) => Lacks(t, U)
    BY <1>3, NoneLeft
  <2> QED
    BY <1>3, <2>1, LedTail DEF LedBy
<1>4. ASSUME Led(s, U, K), Lacks(t, K), Lacks(u, K) PROVE LedBy(s, Tail(t), u, U, K)
  BY <1>1, <1>4, LedLacks DEF LedBy
<1> QED
  BY <1>1, <1>2, <1>3, <1>4

\* A message goes from one queue (t) to the next (s).
LEMMA OrderForwarded ==
  ASSUME NEW S, NEW s \in Seq(S), NEW t \in Seq(S), t # <<>>, NEW u,
         NEW L, NEW U, NEW K,
         InOrder(s, t, u, L, K)
  PROVE  /\ InOrder(Append(s, Head(t)), Tail(t), u, L, K)
         /\ U \cap K = {} /\ LedBy(s, t, u, U, K) =>
              LedBy(Append(s, Head(t)), Tail(t), u, U, K)
<1>1. PICK y : y = Head(t)
  OBVIOUS
<1>2. /\ NoneAfter(Tail(t), L, K)
      /\ Lacks(t, L) => Lacks(Tail(t), L) /\ y \notin L
      /\ Lacks(t, K) => Lacks(Tail(t), K) /\ y \notin K
      /\ y \in L => Lacks(Tail(t), K)
  BY <1>1, NoneTail DEF InOrder
<1>3. /\ Lacks(Append(s, y), L) <=> Lacks(s, L) /\ y \notin L
      /\ Lacks(Append(s, y), U) <=> Lacks(s, U) /\ y \notin U
  BY Appending
<1>4. NoneAfter(Append(s, y), L, K)
  BY <1>2, NoneAppended DEF InOrder
<1>5. InOrder(Append(s, y), Tail(t), u, L, K)
  BY <1>2, <1>3, <1>4 DEF InOrder
<1>6. ASSUME U \cap K = {}, LedBy(s, t, u, U, K) PROVE LedBy(Append(s, y), Tail(t), u, U, K)
  <2>1. y \in K => ~Lacks(s, U)
    BY <1>1, <1>6, LedTail DEF LedBy
  <2>2. Led(Append(s, y), U, K)
    BY <1>6, <2>1, LedAppend DEF LedBy
  <2>3. y \notin U => (Lacks(Tail(t), U) => Lacks(t, U))
    BY <1>1, NoneLeft
  <2>4. Lacks(s, U) /\ y \notin U => Led(Tail(t), U, K)
    BY <1>1, <1>6, LedTail DEF LedBy
  <2> QED
    BY <1>3, <1>6, <2>2, <2>3, <2>4 DEF LedBy
<1> QED
  BY <1>1, <1>5, <1>6

\* The jobs' next message goes to ToClients, from u to t.
LEMMA OrderSent ==
  ASSUME NEW S, NEW s, NEW t \in Seq(S), NEW u \in Seq(S), u # <<>>,
         NEW L, NEW U, NEW K, U \cap K = {},
         InOrder(s, t, u, L, K)
  PROVE  /\ InOrder(s, Append(t, Head(u)), Tail(u), L, K)
         /\ LedBy(s, t, u, U, K) => LedBy(s, Append(t, Head(u)), Tail(u), U, K)
         /\ Lacks(t, K) /\ Lacks(u, K) => Lacks(Append(t, Head(u)), K) /\ Lacks(Tail(u), K)
         /\ Lacks(t, L) /\ Lacks(u, L) => Lacks(Append(t, Head(u)), L) /\ Lacks(Tail(u), L)
<1>1. PICK y : y = Head(u)
  OBVIOUS
<1>2. /\ NoneAfter(Tail(u), L, K)
      /\ Lacks(u, L) => Lacks(Tail(u), L) /\ y \notin L
      /\ Lacks(u, K) => Lacks(Tail(u), K) /\ y \notin K
      /\ y \in L => Lacks(Tail(u), K)
  BY <1>1, NoneTail DEF InOrder
<1>3. /\ Lacks(Append(t, y), L) <=> Lacks(t, L) /\ y \notin L
      /\ Lacks(Append(t, y), U) <=> Lacks(t, U) /\ y \notin U
      /\ Lacks(Append(t, y), K) <=> Lacks(t, K) /\ y \notin K
  BY Appending
<1>4. NoneAfter(Append(t, y), L, K)
  BY <1>2, NoneAppended DEF InOrder
<1>5. InOrder(s, Append(t, y), Tail(u), L, K)
  BY <1>2, <1>3, <1>4 DEF InOrder
<1>6. ASSUME LedBy(s, t, u, U, K) PROVE LedBy(s, Append(t, y), Tail(u), U, K)
  <2>1. Lacks(s, U) /\ y \in K => ~Lacks(t, U)
    BY <1>1, <1>6, LedTail DEF LedBy
  <2>2. Lacks(s, U) => Led(Append(t, y), U, K)
    BY <1>6, <2>1, LedAppend DEF LedBy
  <2>4. Lacks(s, U) /\ Lacks(t, U) /\ y \notin U => Led(Tail(u), U, K)
    BY <1>1, <1>6, LedTail DEF LedBy
  <2> QED
    BY <1>3, <1>6, <2>2, <2>4 DEF LedBy
<1> QED
  BY <1>1, <1>2, <1>3, <1>5, <1>6

\* A message that is none of these joins ToClients (t).
LEMMA OrderJoined ==
  ASSUME NEW S, NEW s, NEW t \in Seq(S), NEW u, NEW y,
         NEW L, NEW U, NEW K, y \notin L \cup U \cup K,
         InOrder(s, t, u, L, K)
  PROVE  /\ InOrder(s, Append(t, y), u, L, K)
         /\ LedBy(s, t, u, U, K) => LedBy(s, Append(t, y), u, U, K)
         /\ Lacks(t, K) => Lacks(Append(t, y), K)
         /\ Lacks(t, L) => Lacks(Append(t, y), L)
<1>1. /\ Lacks(Append(t, y), L) <=> Lacks(t, L)
      /\ Lacks(Append(t, y), U) <=> Lacks(t, U)
      /\ Lacks(Append(t, y), K) <=> Lacks(t, K)
  BY Appending
<1>2. NoneAfter(Append(t, y), L, K)
  BY NoneAppended DEF InOrder
<1>3. LedBy(s, t, u, U, K) /\ Lacks(s, U) => Led(Append(t, y), U, K)
  BY LedAppend DEF LedBy
<1> QED
  BY <1>1, <1>2, <1>3 DEF InOrder, LedBy

\* What a routed message does to the latch.
LEMMA LatchShape ==
  ASSUME NEW a \in Agent, AgentRoute(a)
  PROVE  \/ Inbox(a).cmd = "Latch" /\ latch' = [latch EXCEPT ![a] = TRUE]
         \/ Inbox(a).cmd = "Unlatch" /\ latch' = [latch EXCEPT ![a] = FALSE]
         \/ Inbox(a).cmd \notin {"Latch", "Unlatch"} /\ UNCHANGED latch
<1> USE DEF Receives
<1>1. CASE OnAppendInstructions(a)
  BY <1>1 DEF OnAppendInstructions
<1>2. CASE OnSetInstructions(a)
  BY <1>2 DEF OnSetInstructions
<1>3. CASE OnResetInstructions(a)
  BY <1>3 DEF OnResetInstructions
<1>4. CASE OnClearMemory(a)
  BY <1>4 DEF OnClearMemory
<1>5. CASE OnLatch(a)
  BY <1>5 DEF OnLatch
<1>6. CASE OnUnlatch(a)
  BY <1>6 DEF OnUnlatch
<1>7. CASE OnSendInitialMessage(a)
  BY <1>7 DEF OnSendInitialMessage
<1>8. CASE OnRequest(a)
  BY <1>8 DEF OnRequest, TypedRequest
<1>9. CASE OnText(a)
  BY <1>9 DEF OnText
<1> QED
  BY <1>1, <1>2, <1>3, <1>4, <1>5, <1>6, <1>7, <1>8, <1>9 DEF AgentRoute

LEMMA OrdersApart ==
  ASSUME NEW a
  PROVE  /\ Latches(a) \cap Kickoffs(a) = {} /\ Unlatches(a) \cap Kickoffs(a) = {}
         /\ \A m \in Speech : m \notin Latches(a) \cup Unlatches(a) \cup Kickoffs(a)
         /\ \A m : m \in Latches(a) \cup Unlatches(a) \cup Kickoffs(a) => m.to = a
  BY DEF Latches, Unlatches, Kickoffs, Speech

\* The latch follows what the agent takes; another agent's steps are nothing
\* to it.
LEMMA AwakeRoute ==
  ASSUME NetTypeOK, NEW orders \in SUBSET Orders, Signed(orders),
         NEW a \in Agent, NEW b \in Agent, NEW out, AgentRoute(b)
  PROVE  /\ Awake(a, out) => Awake(a, out)'
         /\ Unthreatened(a, out) => Unthreatened(a, out)'
<1>1. /\ alive[b] /\ toAgent[b] # <<>> /\ toAgent' = [toAgent EXCEPT ![b] = Tail(@)]
      /\ UNCHANGED <<connected, toClients, alive>>
      /\ toAgent \in [Agent -> Seq(Message)] /\ latch \in [Agent -> BOOLEAN]
  BY RouteShape DEF Routed, queueVars, NetTypeOK
<1>2. CASE a # b
  <2>1. toAgent'[a] = toAgent[a] /\ latch'[a] = latch[a]
    BY <1>1, <1>2, LatchShape
  <2> QED
    BY <1>1, <2>1 DEF Awake, Unthreatened
<1>3. CASE a = b
  <2>1. /\ toAgent'[a] = Tail(toAgent[a]) /\ toAgent[a] \in Seq(Message) /\ toAgent[a] # <<>>
    BY <1>1, <1>3
  <2>2. PICK s, m : s = toAgent[a] /\ m = Head(s)
    OBVIOUS
  <2>3. \/ m \in Latches(a) /\ latch'[a] = TRUE
        \/ m \in Unlatches(a) /\ latch'[a] = FALSE
        \/ m \notin Latches(a) \cup Unlatches(a) /\ latch'[a] = latch[a]
    <3>1. /\ toAgent[a] \in Seq(To(a, orders))
      BY DEF Signed
    <3>2. m \in To(a, orders)
      BY <2>1, <2>2, <3>1
    <3>3. m.to = a /\ (m.cmd \in {"Latch", "Unlatch"} => m \in Orders)
      BY <3>2 DEF To, Speech
    <3>4. m.cmd = Inbox(a).cmd
      BY <2>2 DEF Inbox
    <3> QED
      BY <1>1, <1>3, <3>3, <3>4, LatchShape DEF Latches, Unlatches
  <2>4. ASSUME Awake(a, out) PROVE Awake(a, out)'
    <3>1. /\ InOrder(Tail(s), toClients, out, Latches(a), Kickoffs(a))
          /\ m \in Latches(a) => LedBy(Tail(s), toClients, out, Unlatches(a), Kickoffs(a))
          /\ m \notin Unlatches(a) /\ LedBy(s, toClients, out, Unlatches(a), Kickoffs(a)) =>
               LedBy(Tail(s), toClients, out, Unlatches(a), Kickoffs(a))
      BY <2>1, <2>2, <2>4, OrderTaken DEF Awake
    <3>2. m \notin Latches(a) \/ m \notin Unlatches(a)
      BY DEF Latches, Unlatches
    <3>3. latch'[a] => LedBy(Tail(s), toClients, out, Unlatches(a), Kickoffs(a))
      BY <1>1, <1>3, <2>2, <2>3, <2>4, <3>1, <3>2 DEF Awake
    <3> QED
      BY <1>1, <1>3, <2>1, <2>2, <2>4, <3>1, <3>3 DEF Awake
  <2>5. ASSUME Unthreatened(a, out) PROVE Unthreatened(a, out)'
    BY <1>1, <2>1, <2>5, NoneTail DEF Unthreatened
  <2> QED
    BY <2>4, <2>5
<1> QED
  BY <1>2, <1>3

LEMMA AwakeDies ==
  ASSUME NetTypeOK, NEW a \in Agent, NEW out, Awake(a, out), UNCHANGED toClients,
         alive'[a] = FALSE, toAgent'[a] = <<>>
  PROVE  Awake(a, out)'
  BY EmptyLacks DEF Awake, InOrder, NoneAfter

LEMMA AwakeRequest ==
  ASSUME NetTypeOK, NEW a \in Agent, NEW b \in Agent, NEW k, NEW out, Requested(b, k)
  PROVE  /\ Awake(a, out) => Awake(a, out)'
         /\ Unthreatened(a, out) => Unthreatened(a, out)'
<1>1. UNCHANGED <<connected, toClients, latch>>
  BY DEF Requested, queueVars
<1>2. CASE toAgent'[a] = toAgent[a] /\ alive'[a] = alive[a]
  BY <1>1, <1>2 DEF Awake, Unthreatened
<1>3. CASE alive'[a] = FALSE /\ toAgent'[a] = <<>>
  BY <1>1, <1>3, AwakeDies, EmptyLacks DEF Unthreatened
<1>4. \/ toAgent'[a] = toAgent[a] /\ alive'[a] = alive[a]
      \/ alive'[a] = FALSE /\ toAgent'[a] = <<>>
  BY DEF Requested, Die, NetTypeOK
<1> QED
  BY <1>2, <1>3, <1>4

\* Connections come and go with their agents; speech joins ToClients.
LEMMA AwakeStream ==
  ASSUME NetTypeOK, NEW orders \in SUBSET Orders, Signed(orders),
         NEW a \in Agent, NEW b \in Agent, NEW out,
         Join(b) \/ Listen(b) \/ Disconnect(b)
  PROVE  /\ Awake(a, out) => Awake(a, out)'
         /\ Unthreatened(a, out) => Unthreatened(a, out)'
<1>1. CASE Join(b)
  <2>1. /\ UNCHANGED <<toClients, toAgent, latch, alive>>
        /\ connected \subseteq connected'
    BY <1>1 DEF Join, queueVars, agentVars
  <2> QED
    BY <2>1 DEF Awake, Unthreatened
<1>2. CASE Disconnect(b)
  <2>1. /\ UNCHANGED <<toClients, toAgent, latch, alive>>
        /\ alive[a] /\ a \in connected => a \in connected'
    BY <1>2 DEF Disconnect, queueVars
  <2> QED
    BY <2>1 DEF Awake, Unthreatened
<1>3. CASE Listen(b)
  <2>1. PICK y : y = Head(fromAgent[b])
    OBVIOUS
  <2>2. /\ UNCHANGED <<toAgent, latch, alive, connected>>
        /\ toClients' = Append(toClients, y) /\ toClients \in Seq(Message)
    BY <1>3, <2>1 DEF Listen, NetTypeOK
  <2>3. y \in Speech
    <3>1. fromAgent[b] \in Seq(Said(b)) /\ fromAgent[b] # <<>>
      BY <1>3 DEF Signed, Listen
    <3>2. y \in Said(b)
      BY <2>1, <3>1
    <3> QED
      BY <3>2 DEF Said
  <2>4. y \notin Latches(a) \cup Unlatches(a) \cup Kickoffs(a)
    BY <2>3, OrdersApart
  <2>5. ASSUME Awake(a, out) PROVE Awake(a, out)'
    <3>1. /\ InOrder(toAgent[a], Append(toClients, y), out, Latches(a), Kickoffs(a))
          /\ LedBy(toAgent[a], toClients, out, Unlatches(a), Kickoffs(a)) =>
               LedBy(toAgent[a], Append(toClients, y), out, Unlatches(a), Kickoffs(a))
          /\ Lacks(toClients, Kickoffs(a)) => Lacks(Append(toClients, y), Kickoffs(a))
      BY <2>2, <2>4, <2>5, OrderJoined DEF Awake
    <3> QED
      BY <2>2, <2>5, <3>1 DEF Awake
  <2>6. ASSUME Unthreatened(a, out) PROVE Unthreatened(a, out)'
    BY <2>2, <2>4, <2>6, Appending DEF Unthreatened
  <2> QED
    BY <2>5, <2>6
<1> QED
  BY <1>1, <1>2, <1>3

\* The Router forwards a message to its receiver or drops it.
LEMMA AwakeForward ==
  ASSUME NetTypeOK, NEW a \in Agent, NEW out, RouterForward
  PROVE  /\ Awake(a, out) => Awake(a, out)'
         /\ Unthreatened(a, out) => Unthreatened(a, out)'
<1>1. PICK m : m = Head(toClients)
  OBVIOUS
<1>2. /\ toClients # <<>> /\ toClients' = Tail(toClients)
      /\ toClients \in Seq(Message) /\ toAgent \in [Agent -> Seq(Message)]
      /\ UNCHANGED <<connected, latch, alive>>
      /\ toAgent' = IF Reachable(m.to) THEN [toAgent EXCEPT ![m.to] = Append(@, m)] ELSE toAgent
  BY <1>1 DEF RouterForward, NetTypeOK
<1>3. CASE m.to = a /\ Reachable(a)
  <2>1. toAgent'[a] = Append(toAgent[a], m) /\ toAgent[a] \in Seq(Message) /\ alive[a]
    BY <1>2, <1>3 DEF Reachable
  <2>2. ASSUME Awake(a, out) PROVE Awake(a, out)'
    <3>1. /\ InOrder(Append(toAgent[a], m), Tail(toClients), out, Latches(a), Kickoffs(a))
          /\ LedBy(toAgent[a], toClients, out, Unlatches(a), Kickoffs(a)) =>
               LedBy(Append(toAgent[a], m), Tail(toClients), out, Unlatches(a), Kickoffs(a))
      BY <1>1, <1>2, <2>1, <2>2, OrdersApart, OrderForwarded DEF Awake
    <3> QED
      BY <1>2, <1>3, <2>1, <2>2, <3>1 DEF Awake, Reachable
  <2>3. ASSUME Unthreatened(a, out) PROVE Unthreatened(a, out)'
    <3>1. m \notin Latches(a) /\ Lacks(Tail(toClients), Latches(a))
      BY <1>1, <1>2, <2>3, NoneTail DEF Unthreatened
    <3> QED
      BY <1>2, <2>1, <2>3, <3>1, Appending DEF Unthreatened
  <2> QED
    BY <2>2, <2>3
<1>4. CASE ~(m.to = a /\ Reachable(a))
  <2>1. toAgent'[a] = toAgent[a]
    BY <1>2, <1>4
  <2>2. ASSUME Awake(a, out) PROVE Awake(a, out)'
    <3>1. /\ InOrder(toAgent[a], Tail(toClients), out, Latches(a), Kickoffs(a))
          /\ m \notin Unlatches(a) /\ LedBy(toAgent[a], toClients, out, Unlatches(a), Kickoffs(a)) =>
               LedBy(toAgent[a], Tail(toClients), out, Unlatches(a), Kickoffs(a))
          /\ Led(toAgent[a], Unlatches(a), Kickoffs(a)) /\ Lacks(toClients, Kickoffs(a)) /\ Lacks(out, Kickoffs(a)) =>
               LedBy(toAgent[a], Tail(toClients), out, Unlatches(a), Kickoffs(a))
          /\ Lacks(toClients, Kickoffs(a)) => Lacks(Tail(toClients), Kickoffs(a))
      BY <1>1, <1>2, <2>2, OrderDropped DEF Awake
    <3>2. m \in Unlatches(a) /\ alive[a] => Lacks(toClients, Kickoffs(a)) /\ Lacks(out, Kickoffs(a))
      BY <1>4, <2>2, OrdersApart DEF Awake, Reachable
    <3>3. alive[a] /\ latch[a] => LedBy(toAgent[a], Tail(toClients), out, Unlatches(a), Kickoffs(a))
      BY <2>2, <3>1, <3>2 DEF Awake, LedBy
    <3> QED
      BY <1>2, <2>1, <2>2, <3>1, <3>3 DEF Awake
  <2>3. ASSUME Unthreatened(a, out) PROVE Unthreatened(a, out)'
    BY <1>2, <2>1, <2>3, NoneTail DEF Unthreatened
  <2> QED
    BY <2>2, <2>3
<1> QED
  BY <1>3, <1>4

LEMMA NetAwake ==
  ASSUME NetTypeOK, NEW orders \in SUBSET Orders, Signed(orders),
         NEW a \in Agent, NEW out, NetNext
  PROVE  /\ Awake(a, out) => Awake(a, out)'
         /\ Unthreatened(a, out) => Unthreatened(a, out)'
<1>1. ASSUME NEW b \in Agent, AgentStep(b)
      PROVE  /\ Awake(a, out) => Awake(a, out)'
             /\ Unthreatened(a, out) => Unthreatened(a, out)'
  <2>1. CASE AgentRoute(b)
    BY <2>1, AwakeRoute
  <2>2. CASE \E k \in DOMAIN calls[b] : CallStep(b, k)
    BY <2>2, RequestShape, AwakeRequest
  <2>3. CASE Join(b) \/ Listen(b) \/ Disconnect(b)
    BY <2>3, AwakeStream
  <2> QED
    BY <1>1, <2>1, <2>2, <2>3 DEF AgentStep
<1>2. CASE RouterForward
  BY <1>2, AwakeForward
<1>3. CASE RouterDispatch
  <2>1. UNCHANGED <<toClients, toAgent, latch, alive, connected>>
    BY <1>3 DEF RouterDispatch, agentVars
  <2> QED
    BY <2>1 DEF Awake, Unthreatened
<1> QED
  BY <1>1, <1>2, <1>3 DEF NetNext

\* The jobs send their next order.
LEMMA SendAwake ==
  ASSUME NetTypeOK, NEW a \in Agent, NEW out \in Seq(Message), out # <<>>,
         toClients' = Append(toClients, Head(out)),
         UNCHANGED <<toAgent, latch, alive, connected>>
  PROVE  /\ Awake(a, out) => Awake(a, Tail(out))'
         /\ Unthreatened(a, out) => Unthreatened(a, Tail(out))'
<1>1. toClients \in Seq(Message)
  BY DEF NetTypeOK
<1>2. PICK rest, grown : rest = Tail(out) /\ grown = Append(toClients, Head(out))
  OBVIOUS
<1>3. ASSUME Awake(a, out) PROVE Awake(a, rest)'
  <2>1. /\ InOrder(toAgent[a], grown, rest, Latches(a), Kickoffs(a))
        /\ LedBy(toAgent[a], toClients, out, Unlatches(a), Kickoffs(a)) =>
             LedBy(toAgent[a], grown, rest, Unlatches(a), Kickoffs(a))
        /\ Lacks(toClients, Kickoffs(a)) /\ Lacks(out, Kickoffs(a)) =>
             Lacks(grown, Kickoffs(a)) /\ Lacks(rest, Kickoffs(a))
    BY <1>1, <1>2, <1>3, OrdersApart, OrderSent DEF Awake
  <2> QED
    BY <1>2, <1>3, <2>1 DEF Awake
<1>4. ASSUME Unthreatened(a, out) PROVE Unthreatened(a, rest)'
  <2>1. Head(out) \notin Latches(a) /\ Lacks(rest, Latches(a))
    BY <1>2, <1>4, NoneTail DEF Unthreatened
  <2> QED
    BY <1>1, <1>2, <1>4, <2>1, Appending DEF Unthreatened
<1> QED
  BY <1>2, <1>3, <1>4

\* The jobs draw up orders that kick nobody off, or an unlatch and a kickoff
\* for an agent that nothing latches on the way.
LEMMA DrawAwake ==
  ASSUME NEW a \in Agent, NEW before, NEW after, Awake(a, before), before = <<>>,
         UNCHANGED <<toClients, toAgent, latch, alive, connected>>,
         \/ Lacks(after, Kickoffs(a))
         \/ /\ Unthreatened(a, before) /\ a \in connected
            /\ Lacks(after, Latches(a)) /\ Led(after, Unlatches(a), Kickoffs(a))
  PROVE  Awake(a, after)'
<1>1. CASE Lacks(after, Kickoffs(a))
  <2>1. Led(after, Unlatches(a), Kickoffs(a))
    BY <1>1, LedLacks
  <2>2. NoneAfter(after, Latches(a), Kickoffs(a))
    BY <1>1 DEF NoneAfter, Lacks
  <2> QED
    BY <1>1, <2>1, <2>2 DEF Awake, InOrder, LedBy
<1>2. CASE /\ Unthreatened(a, before) /\ a \in connected
           /\ Lacks(after, Latches(a)) /\ Led(after, Unlatches(a), Kickoffs(a))
  <2>1. NoneAfter(after, Latches(a), Kickoffs(a))
    BY <1>2 DEF NoneAfter, Lacks
  <2> QED
    BY <1>2, <2>1 DEF Awake, InOrder, LedBy, Unthreatened
<1> QED
  BY <1>1, <1>2

\* So the kickoff an agent takes finds it unlatched.
LEMMA AwakeHears ==
  ASSUME NetTypeOK, NEW orders \in SUBSET Orders, Signed(orders),
         NEW a \in Agent, NEW out, Awake(a, out),
         toAgent[a] # <<>>, Inbox(a).cmd = "SendInitialMessage"
  PROVE  ~latch[a]
<1>1. toAgent[a] \in Seq(To(a, orders)) /\ toAgent[a] \in Seq(Message)
  BY DEF Signed, NetTypeOK
<1>2. Head(toAgent[a]) \in To(a, orders)
  BY <1>1
<1>3. Head(toAgent[a]) \in Kickoffs(a)
  BY <1>2 DEF To, Speech, Kickoffs, Inbox
<1>4. ~Led(toAgent[a], Unlatches(a), Kickoffs(a))
  BY <1>1, <1>3, LedTail
<1> QED
  BY <1>4 DEF Awake, LedBy

\* Every command is sent to every agent.
LEMMA EveryoneTold ==
  ASSUME NEW as \in Seq(Agent), NEW commands \in Seq(CommandOf),
         NEW j \in DOMAIN as, NEW k \in DOMAIN commands
  PROVE  \E i \in DOMAIN SendCommands(as, commands) :
           SendCommands(as, commands)[i] = Order(as[j], commands[k].cmd, commands[k].about)
<1>1. PICK n : n = Len(commands)
  OBVIOUS
<1>2. PICK l : l = Len(as)
  OBVIOUS
<1>3. n \in Nat /\ l \in Nat /\ j \in 1 .. l /\ k \in 1 .. n
  BY <1>1, <1>2, LenProperties
<1>4. PICK i : i = (j - 1) * n + k
  OBVIOUS
<1>5. i \in 1 .. l * n
  <2>1. (j - 1) * n >= 0
    BY <1>3
  <2>2. (j - 1) * n + n = j * n
    BY <1>3
  <2>3. j * n <= l * n
    BY <1>3
  <2>4. (j - 1) * n \in Int /\ j * n \in Int /\ l * n \in Int
    BY <1>3
  <2>5. PICK x \in Int, y \in Int, z \in Int : x = (j - 1) * n /\ y = j * n /\ z = l * n
    BY <2>4
  <2>6. x >= 0 /\ x + n = y /\ y <= z /\ i = x + k
    BY <1>4, <2>1, <2>2, <2>3, <2>5
  <2>7. i \in 1 .. z
    BY <1>3, <2>6
  <2> QED
    BY <2>5, <2>7
<1>6. 1 + ((i - 1) \div n) = j /\ 1 + ((i - 1) % n) = k
  <2> DEFINE q == (i - 1) \div n
             r == (i - 1) % n
  <2>1. q \in Int /\ r \in 0 .. n - 1 /\ i - 1 = n * q + r /\ n > 0
    BY <1>3, <1>5
  <2>2. i - 1 = n * (j - 1) + (k - 1)
    BY <1>3, <1>4
  <2> HIDE DEF q, r
  <2>3. ~(q >= j)
    <3> SUFFICES ASSUME q >= j PROVE FALSE
      OBVIOUS
    <3>1. n * q >= n * j
      BY <1>3, <2>1
    <3>2. n * j = n * (j - 1) + n
      BY <1>3
    <3>3. PICK x \in Int, y \in Int, z \in Int : x = n * q /\ y = n * j /\ z = n * (j - 1)
      BY <1>3, <2>1
    <3>4. x >= y /\ y = z + n /\ i - 1 = x + r /\ i - 1 = z + (k - 1)
      BY <2>1, <2>2, <3>1, <3>2, <3>3
    <3>5. r \in Int /\ n \in Int /\ k \in Int /\ i \in Int /\ r >= 0 /\ k <= n
      BY <1>3, <1>5, <2>1
    <3> QED
      BY <3>4, <3>5
  <2>4. ~(q <= j - 2)
    <3> SUFFICES ASSUME q <= j - 2 PROVE FALSE
      OBVIOUS
    <3>1. n * q <= n * (j - 2)
      BY <1>3, <2>1
    <3>2. n * (j - 1) = n * (j - 2) + n
      BY <1>3
    <3>3. PICK x \in Int, y \in Int, z \in Int : x = n * q /\ y = n * (j - 2) /\ z = n * (j - 1)
      BY <1>3, <2>1
    <3>4. x <= y /\ z = y + n /\ i - 1 = x + r /\ i - 1 = z + (k - 1)
      BY <2>1, <2>2, <3>1, <3>2, <3>3
    <3>5. r \in Int /\ n \in Int /\ k \in Int /\ i \in Int /\ r <= n - 1 /\ k >= 1
      BY <1>3, <1>5, <2>1
    <3> QED
      BY <3>4, <3>5
  <2>5. q = j - 1
    BY <1>3, <2>1, <2>3, <2>4
  <2>6. r = k - 1
    <3>1. PICK x \in Int : x = n * q /\ x = n * (j - 1)
      BY <1>3, <2>5
    <3>2. i - 1 = x + r /\ i - 1 = x + (k - 1) /\ r \in Int /\ k \in Int
      BY <1>3, <2>1, <2>2, <3>1
    <3> QED
      BY <3>2
  <2> QED
    BY <1>3, <2>5, <2>6 DEF q, r
<1> DEFINE order(x) == Order(as[1 + ((x - 1) \div n)],
                             commands[1 + ((x - 1) % n)].cmd,
                             commands[1 + ((x - 1) % n)].about)
<1>7. SendCommands(as, commands) = [x \in 1 .. l * n |-> order(x)]
  BY <1>1, <1>2 DEF SendCommands
<1>8. order(i) = Order(as[j], commands[k].cmd, commands[k].about)
  BY <1>6, Zenon
<1> HIDE DEF order
<1> QED
  BY <1>5, <1>7, <1>8

-----------------------------------------------------------------------------
(***************************************************************************)
(* Where nothing of a set of orders is on the way (Nowhere), or nothing of *)
(* a set of answers (Unsaid); what is on the way to one agent.             *)
(***************************************************************************)

Nowhere(S, out) ==
  /\ Lacks(out, S) /\ Lacks(toClients, S) /\ \A a \in Agent : Lacks(toAgent[a], S)

Unsaid(S) ==
  /\ Lacks(toClients, S) /\ Lacks(Hand(routerHand), S) /\ Lacks(toServer, S)
  /\ \A a \in Agent : Lacks(fromAgent[a], S)

Mine(a) == {m \in Orders : m.to = a}

\* Nothing of S is on its way to a; no member of K comes after one of L; a
\* member of U comes before every member of K.
Gone(a, S, out)      == Lacks(toAgent[a], S) /\ Lacks(toClients, S) /\ Lacks(out, S)
Sorted(a, L, K, out) == InOrder(toAgent[a], toClients, out, L, K)
Ahead(a, U, K, out)  == LedBy(toAgent[a], toClients, out, U, K)

\* What a step does to the queues between the Router and the agents.
LEMMA NetMoves ==
  ASSUME NetTypeOK, NEW orders \in SUBSET Orders, Signed(orders), NEW a \in Agent, NetNext
  PROVE  \/ /\ AgentRoute(a) /\ UNCHANGED toClients
            /\ toAgent[a] # <<>> /\ toAgent'[a] = Tail(toAgent[a])
         \/ ~alive'[a] /\ toAgent'[a] = <<>> /\ UNCHANGED toClients
         \/ toAgent'[a] = toAgent[a] /\ UNCHANGED toClients
         \/ /\ toAgent'[a] = toAgent[a]
            /\ \E y \in Speech : toClients' = Append(toClients, y)
         \/ /\ toClients # <<>> /\ toClients' = Tail(toClients) /\ UNCHANGED alive
            /\ \/ Reachable(a) /\ toAgent'[a] = Append(toAgent[a], Head(toClients))
               \/ /\ toAgent'[a] = toAgent[a]
                  /\ Head(toClients).to = a => ~Reachable(a)
<1>0. toAgent \in [Agent -> Seq(Message)] /\ alive \in [Agent -> BOOLEAN]
  BY DEF NetTypeOK
<1>1. ASSUME NEW b \in Agent, AgentRoute(b)
      PROVE  \/ /\ AgentRoute(a) /\ UNCHANGED toClients
                /\ toAgent[a] # <<>> /\ toAgent'[a] = Tail(toAgent[a])
             \/ toAgent'[a] = toAgent[a] /\ UNCHANGED toClients
  <2>1. /\ toAgent[b] # <<>> /\ toAgent' = [toAgent EXCEPT ![b] = Tail(@)]
        /\ UNCHANGED toClients
    BY <1>1, RouteShape DEF Routed, queueVars
  <2> QED
    BY <1>0, <1>1, <2>1
<1>2. ASSUME NEW b \in Agent, NEW k \in DOMAIN calls[b], CallStep(b, k)
      PROVE  \/ ~alive'[a] /\ toAgent'[a] = <<>> /\ UNCHANGED toClients
             \/ toAgent'[a] = toAgent[a] /\ UNCHANGED toClients
  <2>1. Requested(b, k)
    BY <1>2, RequestShape
  <2> QED
    BY <1>0, <2>1 DEF Requested, Die, queueVars
<1>3. ASSUME NEW b \in Agent, Join(b) \/ Disconnect(b)
      PROVE  toAgent'[a] = toAgent[a] /\ UNCHANGED toClients
  BY <1>3 DEF Join, Disconnect, queueVars, agentVars
<1>4. ASSUME NEW b \in Agent, Listen(b)
      PROVE  /\ toAgent'[a] = toAgent[a]
             /\ \E y \in Speech : toClients' = Append(toClients, y)
  <2>1. fromAgent[b] \in Seq(Said(b)) /\ fromAgent[b] # <<>>
    BY <1>4 DEF Signed, Listen
  <2>2. Head(fromAgent[b]) \in Said(b)
    BY <2>1
  <2> QED
    BY <1>4, <2>2 DEF Listen, Said
<1>5. ASSUME RouterForward
      PROVE  /\ toClients # <<>> /\ toClients' = Tail(toClients) /\ UNCHANGED alive
             /\ \/ Reachable(a) /\ toAgent'[a] = Append(toAgent[a], Head(toClients))
                \/ /\ toAgent'[a] = toAgent[a]
                   /\ Head(toClients).to = a => ~Reachable(a)
  <2>1. PICK m : m = Head(toClients)
    OBVIOUS
  <2>2. /\ toClients # <<>> /\ toClients' = Tail(toClients) /\ UNCHANGED alive
        /\ toAgent' = IF Reachable(m.to) THEN [toAgent EXCEPT ![m.to] = Append(@, m)] ELSE toAgent
    BY <1>5, <2>1 DEF RouterForward
  <2>3. CASE m.to = a /\ Reachable(a)
    <3>1. toAgent'[a] = Append(toAgent[a], m)
      BY <1>0, <2>2, <2>3
    <3> QED
      BY <2>1, <2>2, <2>3, <3>1
  <2>4. CASE ~(m.to = a /\ Reachable(a))
    <3>1. toAgent'[a] = toAgent[a]
      BY <1>0, <2>2, <2>4
    <3> QED
      BY <2>1, <2>2, <2>4, <3>1
  <2> QED
    BY <2>3, <2>4
<1>6. ASSUME RouterDispatch PROVE toAgent'[a] = toAgent[a] /\ UNCHANGED toClients
  BY <1>6 DEF RouterDispatch, agentVars
<1> QED
  BY <1>1, <1>2, <1>3, <1>4, <1>5, <1>6 DEF NetNext, AgentStep

\* Only the jobs send orders.
LEMMA NetNowhere ==
  ASSUME NetTypeOK, NEW orders \in SUBSET Orders, Signed(orders),
         NEW S, S \cap Speech = {}, NEW out, Nowhere(S, out), NetNext
  PROVE  Nowhere(S, out)'
<1>1. toClients \in Seq(Message) /\ \A a \in Agent : toAgent[a] \in Seq(Message)
  BY DEF NetTypeOK
<1>2. ASSUME NEW a \in Agent PROVE Lacks(toClients', S) /\ Lacks(toAgent'[a], S)
  <2>1. Lacks(toClients, S) /\ Lacks(toAgent[a], S) /\ Lacks(<<>>, S)
    BY EmptyLacks DEF Nowhere
  <2>2. ASSUME NEW y, y \notin S PROVE Lacks(Append(toClients, y), S) /\ Lacks(Append(toAgent[a], y), S)
    BY <1>1, <2>1, <2>2, Appending
  <2>3. /\ toClients # <<>> => Lacks(Tail(toClients), S) /\ Head(toClients) \notin S
        /\ toAgent[a] # <<>> => Lacks(Tail(toAgent[a]), S)
    BY <1>1, <2>1, NoneTail
  <2> QED
    BY <2>1, <2>2, <2>3, NetMoves
<1>3. CASE Agent # {}
  BY <1>2, <1>3 DEF Nowhere
<1>4. CASE Agent = {}
  <2>1. UNCHANGED toClients \/ (toClients # <<>> /\ toClients' = Tail(toClients))
    BY <1>4 DEF NetNext, RouterForward, RouterDispatch
  <2>2. toClients # <<>> /\ Lacks(toClients, S) => Lacks(Tail(toClients), S)
    BY <1>1, NoneTail
  <2> QED
    BY <1>4, <2>1, <2>2 DEF Nowhere
<1> QED
  BY <1>3, <1>4

LEMMA SendNowhere ==
  ASSUME NetTypeOK, NEW out \in Seq(Message), out # <<>>, NEW S, Nowhere(S, out),
         toClients' = Append(toClients, Head(out)), UNCHANGED toAgent
  PROVE  Nowhere(S, Tail(out))'
<1>1. toClients \in Seq(Message)
  BY DEF NetTypeOK
<1>2. PICK rest, grown : rest = Tail(out) /\ grown = Append(toClients, Head(out))
  OBVIOUS
<1>3. Lacks(rest, S) /\ Head(out) \notin S
  BY <1>2, NoneTail DEF Nowhere
<1>4. Lacks(grown, S)
  BY <1>1, <1>2, <1>3, Appending DEF Nowhere
<1>5. Nowhere(S, rest)'
  BY <1>2, <1>3, <1>4 DEF Nowhere
<1> QED
  BY <1>2, <1>5

\* What a step does to the stream up from an agent: it may say something.
LEMMA WhatIsSaid ==
  ASSUME NetTypeOK, NEW a \in Agent, NetNext
  PROVE  \/ fromAgent'[a] \in {fromAgent[a], <<>>}
         \/ fromAgent[a] # <<>> /\ fromAgent'[a] = Tail(fromAgent[a])
         \/ /\ toAgent[a] # <<>> /\ Inbox(a).cmd = "SendInitialMessage"
            /\ fromAgent'[a] = Append(fromAgent[a], Opening(a))
         \/ \E k \in DOMAIN calls[a], json \in BOOLEAN :
              /\ Answer(a, k)
              /\ fromAgent'[a] = Append(fromAgent[a], Reply(a, calls[a][k], json))
<1>0. fromAgent \in [Agent -> Seq(Message)]
  BY DEF NetTypeOK
<1>1. ASSUME NEW b \in Agent, AgentRoute(b)
      PROVE  \/ fromAgent'[a] = fromAgent[a]
             \/ /\ toAgent[a] # <<>> /\ Inbox(a).cmd = "SendInitialMessage"
                /\ fromAgent'[a] = Append(fromAgent[a], Opening(a))
  <2>1. Routed(b)
    BY <1>1, RouteShape
  <2> QED
    BY <1>0, <2>1 DEF Routed
<1>2. ASSUME NEW b \in Agent, NEW k \in DOMAIN calls[b], CallStep(b, k)
      PROVE  \/ fromAgent'[a] = fromAgent[a]
             \/ \E j \in DOMAIN calls[a], json \in BOOLEAN :
                  /\ Answer(a, j)
                  /\ fromAgent'[a] = Append(fromAgent[a], Reply(a, calls[a][j], json))
  <2>1. CASE Answer(b, k)
    <3>1. PICK json \in BOOLEAN :
            fromAgent' = [fromAgent EXCEPT ![b] = Append(@, Reply(b, calls[b][k], json))]
      BY <2>1 DEF Answer
    <3>2. CASE a = b
      BY <1>0, <2>1, <3>1, <3>2
    <3>3. CASE a # b
      BY <1>0, <3>1, <3>3
    <3> QED
      BY <3>2, <3>3
  <2>2. CASE ~Answer(b, k)
    <3>1. UNCHANGED fromAgent
      BY <1>2, <2>2 DEF CallStep, StartTyped, SaveTyped, Retrieve, Post, GiveUp,
         CancelKills, LlmFails
    <3> QED
      BY <3>1
  <2> QED
    BY <2>1, <2>2
<1>3. ASSUME NEW b \in Agent, Join(b) \/ Disconnect(b)
      PROVE  fromAgent'[a] \in {fromAgent[a], <<>>}
  BY <1>0, <1>3 DEF Join, Disconnect, agentVars
<1>4. ASSUME NEW b \in Agent, Listen(b)
      PROVE  \/ fromAgent'[a] = fromAgent[a]
             \/ fromAgent[a] # <<>> /\ fromAgent'[a] = Tail(fromAgent[a])
  BY <1>0, <1>4 DEF Listen
<1>5. ASSUME RouterForward \/ RouterDispatch PROVE fromAgent'[a] = fromAgent[a]
  BY <1>5 DEF RouterForward, RouterDispatch, agentVars
<1> QED
  BY <1>1, <1>2, <1>3, <1>4, <1>5 DEF NetNext, AgentStep

\* What no agent says reaches neither the Router nor the jobs.
LEMMA NetUnsaid ==
  ASSUME NetTypeOK, NEW S, Unsaid(S), NetNext, \A a \in Agent : Lacks(fromAgent'[a], S)
  PROVE  Unsaid(S)'
<1>1. toClients \in Seq(Message) /\ toServer \in Seq(Message)
      /\ \A a \in Agent : fromAgent[a] \in Seq(Message)
  BY DEF NetTypeOK
<1>2. Lacks(<<>>, S)
  BY EmptyLacks
<1>3. ASSUME NEW b \in Agent, AgentRoute(b)
      PROVE  UNCHANGED <<toClients, routerHand, toServer>>
  BY <1>3, RouteShape DEF Routed, queueVars
<1>4. ASSUME NEW b \in Agent, NEW k \in DOMAIN calls[b], CallStep(b, k)
      PROVE  UNCHANGED <<toClients, routerHand, toServer>>
  BY <1>4, RequestShape DEF Requested, queueVars
<1>5. ASSUME NEW b \in Agent, Join(b) \/ Disconnect(b)
      PROVE  UNCHANGED <<toClients, routerHand, toServer>>
  BY <1>5 DEF Join, Disconnect, queueVars
<1>6. CASE UNCHANGED <<toClients, routerHand, toServer>>
  BY <1>6 DEF Unsaid, Hand
<1>7. ASSUME NEW b \in Agent, Listen(b) PROVE Unsaid(S)'
  <2>1. PICK y : y = Head(fromAgent[b])
    OBVIOUS
  <2>2. /\ fromAgent[b] # <<>> /\ toClients' = Append(toClients, y)
        /\ UNCHANGED <<routerHand, toServer>>
    BY <1>7, <2>1 DEF Listen
  <2>3. y \notin S
    BY <1>1, <2>1, <2>2, NoneTail DEF Unsaid
  <2>4. Lacks(Append(toClients, y), S)
    BY <1>1, <2>3, Appending DEF Unsaid
  <2> QED
    BY <2>2, <2>4 DEF Unsaid, Hand
<1>8. CASE RouterForward
  <2>1. PICK m : m = Head(toClients)
    OBVIOUS
  <2>2. /\ toClients # <<>> /\ toClients' = Tail(toClients) /\ UNCHANGED toServer
        /\ routerHand' \in {m, NoMsg}
    BY <1>8, <2>1 DEF RouterForward
  <2>3. m \notin S /\ Lacks(Tail(toClients), S)
    BY <1>1, <2>1, <2>2, NoneTail DEF Unsaid
  <2>4. Lacks(Hand(routerHand)', S)
    BY <1>2, <2>2, <2>3 DEF Hand, Lacks
  <2> QED
    BY <2>2, <2>3, <2>4 DEF Unsaid
<1>9. CASE RouterDispatch
  <2>1. PICK m : m = routerHand
    OBVIOUS
  <2>2. /\ m # NoMsg /\ routerHand' = NoMsg /\ UNCHANGED toClients
        /\ toServer' = toServer \/ toServer' = Append(toServer, m)
    BY <1>9, <2>1 DEF RouterDispatch
  <2>3. m \notin S
    <3>1. Hand(routerHand) = <<m>> /\ 1 \in DOMAIN <<m>> /\ <<m>>[1] = m
      BY <2>1, <2>2 DEF Hand
    <3> QED
      BY <3>1 DEF Unsaid, Lacks
  <2>4. Lacks(Append(toServer, m), S)
    BY <1>1, <2>3, Appending DEF Unsaid
  <2>5. Lacks(Hand(routerHand)', S)
    BY <1>2, <2>2 DEF Hand
  <2> QED
    BY <2>2, <2>4, <2>5 DEF Unsaid
<1> QED
  BY <1>3, <1>4, <1>5, <1>6, <1>7, <1>8, <1>9 DEF NetNext, AgentStep

\* Orders keep their order on the way to an agent that lives and that the
\* Router finds, and none is lost.
LEMMA PathKept ==
  ASSUME NetTypeOK, NEW orders \in SUBSET Orders, Signed(orders), NEW a \in Agent,
         NEW out, NetNext, alive'[a], ~AgentRoute(a),
         (alive[a] => a \in connected) \/ Lacks(toClients, Mine(a)),
         NEW L, NEW U, NEW K, L \subseteq Mine(a), U \subseteq Mine(a), K \subseteq Mine(a)
  PROVE  /\ Sorted(a, L, K, out) => Sorted(a, L, K, out)'
         /\ U \cap K = {} /\ Sorted(a, L, K, out) /\ Ahead(a, U, K, out) => Ahead(a, U, K, out)'
         /\ Gone(a, L, out) <=> Gone(a, L, out)'
<1>0. /\ toClients \in Seq(Message) /\ toAgent[a] \in Seq(Message)
      /\ L \cap Speech = {} /\ U \cap Speech = {} /\ K \cap Speech = {}
  <2>1. Mine(a) \cap Speech = {}
    BY AgentAssumption DEF Mine, Orders, Speech
  <2> QED
    BY <2>1 DEF NetTypeOK
<1>1. PICK s, t : s = toAgent[a] /\ t = toClients
  OBVIOUS
<1>2. PICK s1, t1 : s1 = toAgent'[a] /\ t1 = toClients'
  OBVIOUS
<1>3. \/ s1 = s /\ t1 = t
      \/ s1 = s /\ \E y \in Speech : t1 = Append(t, y)
      \/ t # <<>> /\ t1 = Tail(t) /\ s1 = Append(s, Head(t))
      \/ t # <<>> /\ t1 = Tail(t) /\ s1 = s /\ Head(t) \notin Mine(a)
  <2>1. ASSUME t # <<>>, Head(t).to = a => ~Reachable(a), UNCHANGED alive
        PROVE  Head(t) \notin Mine(a)
    <3>1. Lacks(t, Mine(a)) => Head(t) \notin Mine(a)
      BY <1>0, <1>1, <2>1, NoneTail
    <3> QED
      BY <1>1, <2>1, <3>1 DEF Mine, Reachable
  <2> QED
    BY <1>1, <1>2, <2>1, NetMoves
<1>4. /\ InOrder(s, t, out, L, K) => InOrder(s1, t1, out, L, K)
      /\ U \cap K = {} /\ InOrder(s, t, out, L, K) /\ LedBy(s, t, out, U, K)
           => LedBy(s1, t1, out, U, K)
      /\ Lacks(s, L) /\ Lacks(t, L) <=> Lacks(s1, L) /\ Lacks(t1, L)
  <2>1. CASE s1 = s /\ t1 = t
    BY <2>1
  <2>2. CASE s1 = s /\ \E y \in Speech : t1 = Append(t, y)
    <3>1. PICK y \in Speech : t1 = Append(t, y)
      BY <2>2
    <3>2. y \notin L \cup U \cup K
      BY <1>0
    <3>3. /\ InOrder(s, t, out, L, K) => InOrder(s, t1, out, L, K)
          /\ InOrder(s, t, out, L, K) /\ LedBy(s, t, out, U, K) => LedBy(s, t1, out, U, K)
      BY <1>0, <1>1, <3>1, <3>2, OrderJoined
    <3>4. Lacks(t, L) <=> Lacks(t1, L)
      BY <1>0, <1>1, <3>1, <3>2, Appending
    <3> QED
      BY <2>2, <3>3, <3>4
  <2>3. CASE t # <<>> /\ t1 = Tail(t) /\ s1 = Append(s, Head(t))
    <3>1. /\ InOrder(s, t, out, L, K) => InOrder(s1, t1, out, L, K)
          /\ U \cap K = {} /\ InOrder(s, t, out, L, K) /\ LedBy(s, t, out, U, K)
               => LedBy(s1, t1, out, U, K)
      BY <1>0, <1>1, <2>3, OrderForwarded
    <3>3. PICK y : y = Head(t)
      OBVIOUS
    <3>4. Lacks(s1, L) <=> Lacks(s, L) /\ y \notin L
      BY <1>0, <1>1, <2>3, <3>3, Appending
    <3>5. Lacks(t, L) => Lacks(t1, L) /\ y \notin L
      BY <1>0, <1>1, <2>3, <3>3, NoneTail
    <3>6. Lacks(t1, L) /\ y \notin L => Lacks(t, L)
      BY <1>0, <1>1, <2>3, <3>3, NoneLeft
    <3> QED
      BY <3>1, <3>4, <3>5, <3>6
  <2>4. CASE t # <<>> /\ t1 = Tail(t) /\ s1 = s /\ Head(t) \notin Mine(a)
    <3>1. Head(t) \notin L /\ Head(t) \notin U
      BY <2>4
    <3>2. /\ InOrder(s, t, out, L, K) => InOrder(s, t1, out, L, K)
          /\ InOrder(s, t, out, L, K) /\ LedBy(s, t, out, U, K) => LedBy(s, t1, out, U, K)
      BY <1>0, <1>1, <2>4, <3>1, OrderDropped
    <3>3. Lacks(t, L) <=> Lacks(t1, L)
      BY <1>0, <1>1, <2>4, <3>1, NoneTail, NoneLeft
    <3> QED
      BY <2>4, <3>2, <3>3
  <2> QED
    BY <1>3, <2>1, <2>2, <2>3, <2>4
<1>5. /\ Sorted(a, L, K, out) <=> InOrder(s, t, out, L, K)
      /\ Ahead(a, U, K, out) <=> LedBy(s, t, out, U, K)
      /\ Gone(a, L, out) <=> Lacks(s, L) /\ Lacks(t, L) /\ Lacks(out, L)
  BY <1>1 DEF Sorted, Ahead, Gone
<1>6. /\ Sorted(a, L, K, out)' <=> InOrder(s1, t1, out, L, K)
      /\ Ahead(a, U, K, out)' <=> LedBy(s1, t1, out, U, K)
      /\ Gone(a, L, out)' <=> Lacks(s1, L) /\ Lacks(t1, L) /\ Lacks(out, L)
  BY <1>2 DEF Sorted, Ahead, Gone
<1> QED
  BY <1>4, <1>5, <1>6

LEMMA AheadKept ==
  ASSUME NetTypeOK, NEW orders \in SUBSET Orders, Signed(orders), NEW a \in Agent,
         NEW out, NetNext, alive'[a], ~AgentRoute(a),
         (alive[a] => a \in connected) \/ Lacks(toClients, Mine(a)),
         NEW U, NEW K, U \subseteq Mine(a), K \subseteq Mine(a), U \cap K = {},
         Ahead(a, U, K, out)
  PROVE  Ahead(a, U, K, out)'
<1>1. PICK E : E = {}
  OBVIOUS
<1>2. Sorted(a, E, K, out) /\ E \subseteq Mine(a)
  BY <1>1 DEF Sorted, InOrder, NoneAfter, Lacks
<1> QED
  BY <1>2, PathKept

\* The agent takes the first of its orders.
LEMMA PathTaken ==
  ASSUME NetTypeOK, NEW a \in Agent, AgentRoute(a), NEW out,
         NEW m, m = Head(toAgent[a]), NEW L, NEW U, NEW K
  PROVE  /\ Sorted(a, L, K, out) => Sorted(a, L, K, out)' /\ (m \in L => Gone(a, K, out)')
         /\ Ahead(a, U, K, out) => m \notin K /\ (m \notin U => Ahead(a, U, K, out)')
         /\ m \notin L => (Gone(a, L, out) <=> Gone(a, L, out)')
<1>1. PICK s, t : s = toAgent[a] /\ t = toClients
  OBVIOUS
<1>2. /\ s \in Seq(Message) /\ s # <<>> /\ m = Head(s)
      /\ toAgent'[a] = Tail(s) /\ toClients' = t
  BY <1>1, RouteShape DEF Routed, NetTypeOK, queueVars
<1>3. ASSUME InOrder(s, t, out, L, K)
      PROVE  /\ InOrder(Tail(s), t, out, L, K)
             /\ m \in L => Lacks(Tail(s), K) /\ Lacks(t, K) /\ Lacks(out, K)
  <2>1. /\ NoneAfter(s, L, K) /\ m \in L => Lacks(Tail(s), K)
        /\ m \in L => ~Lacks(s, L)
    BY <1>2, NoneTail
  <2>2. InOrder(Tail(s), t, out, L, K)
    BY <1>2, <1>3, OrderTaken
  <2> QED
    BY <1>3, <2>1, <2>2 DEF InOrder
<1>4. ASSUME LedBy(s, t, out, U, K)
      PROVE  m \notin K /\ (m \notin U => LedBy(Tail(s), t, out, U, K))
  <2>1. Led(s, U, K)
    BY <1>4 DEF LedBy
  <2>2. m \notin K /\ (m \notin U => Led(Tail(s), U, K))
    BY <1>2, <2>1, LedTail
  <2>3. m \notin U /\ Lacks(Tail(s), U) => Lacks(s, U)
    BY <1>2, NoneLeft
  <2> QED
    BY <1>4, <2>2, <2>3 DEF LedBy
<1>5. m \notin L => (Lacks(s, L) <=> Lacks(Tail(s), L))
  BY <1>2, NoneTail, NoneLeft
<1>6. /\ Sorted(a, L, K, out) <=> InOrder(s, t, out, L, K)
      /\ Ahead(a, U, K, out) <=> LedBy(s, t, out, U, K)
      /\ Gone(a, L, out) <=> Lacks(s, L) /\ Lacks(t, L) /\ Lacks(out, L)
  BY <1>1 DEF Sorted, Ahead, Gone
<1>7. /\ Sorted(a, L, K, out)' <=> InOrder(Tail(s), t, out, L, K)
      /\ Ahead(a, U, K, out)' <=> LedBy(Tail(s), t, out, U, K)
      /\ Gone(a, L, out)' <=> Lacks(Tail(s), L) /\ Lacks(t, L) /\ Lacks(out, L)
      /\ Gone(a, K, out)' <=> Lacks(Tail(s), K) /\ Lacks(t, K) /\ Lacks(out, K)
  BY <1>2 DEF Sorted, Ahead, Gone
<1> QED
  BY <1>3, <1>4, <1>5, <1>6, <1>7

\* The jobs send their next order.
LEMMA PathSent ==
  ASSUME NetTypeOK, NEW a \in Agent, NEW out \in Seq(Message), out # <<>>,
         toClients' = Append(toClients, Head(out)), UNCHANGED toAgent,
         NEW L, NEW U, NEW K
  PROVE  /\ Sorted(a, L, K, out) => Sorted(a, L, K, Tail(out))'
         /\ U \cap K = {} /\ Ahead(a, U, K, out) => Ahead(a, U, K, Tail(out))'
         /\ Gone(a, L, out) <=> Gone(a, L, Tail(out))'
<1>1. PICK s, t, E, y : s = toAgent[a] /\ t = toClients /\ E = {} /\ y = Head(out)
  OBVIOUS
<1>2. PICK rest, grown : rest = Tail(out) /\ grown = Append(t, y)
  OBVIOUS
<1>3. t \in Seq(Message) /\ toAgent'[a] = s /\ toClients' = grown
  BY <1>1, <1>2 DEF NetTypeOK
<1>4. ASSUME InOrder(s, t, out, L, K) PROVE InOrder(s, grown, rest, L, K)
  <2>1. E \cap K = {}
    BY <1>1
  <2> QED
    BY <1>1, <1>2, <1>3, <1>4, <2>1, OrderSent
<1>5. ASSUME U \cap K = {}, LedBy(s, t, out, U, K) PROVE LedBy(s, grown, rest, U, K)
  <2>1. InOrder(s, t, out, E, K)
    BY <1>1 DEF InOrder, NoneAfter, Lacks
  <2> QED
    BY <1>1, <1>2, <1>3, <1>5, <2>1, OrderSent
<1>6. Lacks(t, L) /\ Lacks(out, L) <=> Lacks(grown, L) /\ Lacks(rest, L)
  <2>1. Lacks(grown, L) <=> Lacks(t, L) /\ y \notin L
    BY <1>2, <1>3, Appending
  <2>2. Lacks(out, L) => Lacks(rest, L) /\ y \notin L
    BY <1>1, <1>2, NoneTail
  <2>3. Lacks(rest, L) /\ y \notin L => Lacks(out, L)
    BY <1>1, <1>2, NoneLeft
  <2> QED
    BY <2>1, <2>2, <2>3
<1>7. /\ Sorted(a, L, K, rest)' <=> InOrder(s, grown, rest, L, K)
      /\ Ahead(a, U, K, rest)' <=> LedBy(s, grown, rest, U, K)
      /\ Gone(a, L, rest)' <=> Lacks(s, L) /\ Lacks(grown, L) /\ Lacks(rest, L)
  BY <1>3 DEF Sorted, Ahead, Gone
<1> QED
  BY <1>1, <1>2, <1>4, <1>5, <1>6, <1>7 DEF Sorted, Ahead, Gone

\* An agent changes by what it takes and by its requests.
LEMMA LeftAlone ==
  ASSUME NetTypeOK, NEW a \in Agent, NetNext, ~AgentRoute(a),
         \A k \in DOMAIN calls[a] : ~CallStep(a, k)
  PROVE  stm'[a] = stm[a] /\ instr'[a] = instr[a] /\ calls'[a] = calls[a] /\ alive'[a] = alive[a]
<1>0. /\ stm \in [Agent -> SUBSET Layer] /\ instr \in [Agent -> SUBSET Layer]
      /\ calls \in [Agent -> Seq(Call)] /\ alive \in [Agent -> BOOLEAN]
  BY DEF NetTypeOK
<1>1. ASSUME NEW b \in Agent, AgentRoute(b)
      PROVE  stm'[a] = stm[a] /\ instr'[a] = instr[a] /\ calls'[a] = calls[a] /\ alive'[a] = alive[a]
  <2>1. a # b
    BY <1>1
  <2>2. UNCHANGED alive /\ (\E x : calls' = [calls EXCEPT ![b] = x])
    BY <1>1, RouteShape DEF Routed, CancelPrevious, Spawn
  <2>3. (\E x : stm' = [stm EXCEPT ![b] = x]) \/ UNCHANGED stm
    BY <1>1 DEF AgentRoute, OnAppendInstructions, OnSetInstructions, OnResetInstructions,
       OnClearMemory, OnLatch, OnUnlatch, OnSendInitialMessage, OnRequest, OnText
  <2>4. (\E x : instr' = [instr EXCEPT ![b] = x]) \/ UNCHANGED instr
    BY <1>1 DEF AgentRoute, OnAppendInstructions, OnSetInstructions, OnResetInstructions,
       OnClearMemory, OnLatch, OnUnlatch, OnSendInitialMessage, OnRequest, OnText
  <2> QED
    BY <1>0, <2>1, <2>2, <2>3, <2>4
<1>2. ASSUME NEW b \in Agent, NEW k \in DOMAIN calls[b], CallStep(b, k)
      PROVE  stm'[a] = stm[a] /\ instr'[a] = instr[a] /\ calls'[a] = calls[a] /\ alive'[a] = alive[a]
  <2>1. a # b
    BY <1>2
  <2>2. Requested(b, k)
    BY <1>2, RequestShape
  <2>3. calls'[a] = calls[a] /\ alive'[a] = alive[a]
    BY <1>0, <2>1, <2>2 DEF Requested, Die, Quit, Becomes
  <2>4. UNCHANGED instr /\ ((\E x : stm' = [stm EXCEPT ![b] = x]) \/ UNCHANGED stm)
    BY <1>2 DEF CallStep, StartTyped, SaveTyped, Retrieve, Post, Answer, GiveUp,
       CancelKills, LlmFails
  <2> QED
    BY <1>0, <2>1, <2>3, <2>4
<1>3. ASSUME NEW b \in Agent, Join(b) \/ Listen(b) \/ Disconnect(b)
      PROVE  UNCHANGED <<stm, instr, calls, alive>>
  BY <1>3 DEF Join, Listen, Disconnect, agentVars
<1>4. ASSUME RouterForward \/ RouterDispatch PROVE UNCHANGED <<stm, instr, calls, alive>>
  BY <1>4 DEF RouterForward, RouterDispatch, agentVars
<1> QED
  BY <1>1, <1>2, <1>3, <1>4 DEF NetNext, AgentStep

\* What a routed message does to the memory, the instructions and the
\* requests.
LEMMA RouteEffects ==
  ASSUME NetTypeOK, NEW a \in Agent, AgentRoute(a)
  PROVE  \/ /\ Inbox(a).cmd = "AppendInstructions"
            /\ instr'[a] = instr[a] \cup Inbox(a).about /\ UNCHANGED stm
         \/ Inbox(a).cmd = "ResetInstructions" /\ instr'[a] = {} /\ UNCHANGED stm
         \/ Inbox(a).cmd = "ClearMemory" /\ stm'[a] = {} /\ UNCHANGED instr
         \/ Inbox(a).cmd \in {"Latch", "Unlatch"} /\ UNCHANGED <<stm, instr>>
         \/ Inbox(a).cmd \in {"SetInstructions", "SendInitialMessage"} \cup TypedRequest
         \/ /\ Inbox(a).cmd = "NoCommand"
            /\ stm'[a] = stm[a] \cup Inbox(a).about /\ UNCHANGED instr
            /\ calls'[a] = Append(Cancelled(calls[a]), Spawned(FALSE, {}))
<1> USE DEF Receives
<1>0. /\ stm \in [Agent -> SUBSET Layer] /\ instr \in [Agent -> SUBSET Layer]
      /\ calls \in [Agent -> Seq(Call)]
  BY DEF NetTypeOK
<1>1. CASE OnAppendInstructions(a)
  BY <1>0, <1>1 DEF OnAppendInstructions
<1>2. CASE OnSetInstructions(a)
  BY <1>2 DEF OnSetInstructions
<1>3. CASE OnResetInstructions(a)
  BY <1>0, <1>3 DEF OnResetInstructions
<1>4. CASE OnClearMemory(a)
  BY <1>0, <1>4 DEF OnClearMemory
<1>5. CASE OnLatch(a)
  BY <1>5 DEF OnLatch
<1>6. CASE OnUnlatch(a)
  BY <1>6 DEF OnUnlatch
<1>7. CASE OnSendInitialMessage(a)
  BY <1>7 DEF OnSendInitialMessage
<1>8. CASE OnRequest(a)
  BY <1>8 DEF OnRequest, TypedRequest
<1>9. CASE OnText(a)
  BY <1>0, <1>9 DEF OnText, Spawn
<1> QED
  BY <1>1, <1>2, <1>3, <1>4, <1>5, <1>6, <1>7, <1>8, <1>9 DEF AgentRoute

\* What does not start a request leaves an idle agent idle.
LEMMA IdleRoute ==
  ASSUME NetTypeOK, NEW a \in Agent, AgentRoute(a), Inbox(a).cmd \notin Asking, calls[a] = <<>>
  PROVE  calls'[a] = <<>>
<1>1. calls' = [calls EXCEPT ![a] = Cancelled(@)]
  BY RouteShape DEF Routed, CancelPrevious
<1>2. calls'[a] = Cancelled(<<>>)
  BY <1>1 DEF NetTypeOK
<1>3. Cancelled(<<>>) = <<>>
  BY DEF Cancelled
<1> QED
  BY <1>2, <1>3

\* The dead stay dead, the living connected.
LEMMA StaysConnected ==
  ASSUME NetTypeOK, NEW a \in Agent, NetNext, alive'[a]
  PROVE  alive[a] /\ (a \in connected => a \in connected')
<1>0. alive \in [Agent -> BOOLEAN]
  BY DEF NetTypeOK
<1>1. ASSUME NEW b \in Agent, AgentRoute(b) PROVE UNCHANGED <<alive, connected>>
  BY <1>1, RouteShape DEF Routed
<1>2. ASSUME NEW b \in Agent, NEW k \in DOMAIN calls[b], CallStep(b, k)
      PROVE  alive[a] /\ UNCHANGED connected
  <2>1. Requested(b, k)
    BY <1>2, RequestShape
  <2>2. UNCHANGED alive \/ alive' = [alive EXCEPT ![b] = FALSE]
    BY <2>1 DEF Requested, Die
  <2>3. alive[a]
    BY <1>0, <2>2
  <2> QED
    BY <2>1, <2>3 DEF Requested
<1>3. ASSUME NEW b \in Agent, Join(b) \/ Listen(b)
      PROVE  UNCHANGED alive /\ connected \subseteq connected'
  BY <1>3 DEF Join, Listen, agentVars
<1>4. ASSUME NEW b \in Agent, Disconnect(b)
      PROVE  UNCHANGED alive /\ ~alive[b] /\ connected' = connected \ {b}
  BY <1>4 DEF Disconnect
<1>5. ASSUME RouterForward \/ RouterDispatch PROVE UNCHANGED <<alive, connected>>
  BY <1>5 DEF RouterForward, RouterDispatch, agentVars
<1> QED
  BY <1>1, <1>2, <1>3, <1>4, <1>5 DEF NetNext, AgentStep
-----------------------------------------------------------------------------
(***************************************************************************)
(* What the orders on the way make of a flag of an agent, such as its      *)
(* latch, or that it has a request nobody cancels.                         *)
(***************************************************************************)

\* What a flag f becomes when s has been obeyed, whose members in S set it and
\* whose members in R reset it.
After(s, f, S, R) ==
  \/ \E i \in DOMAIN s : s[i] \in S /\ \A h \in DOMAIN s : i < h => s[h] \notin R
  \/ f /\ Lacks(s, R)

\* The flag is up whenever a member of K is met.
Met(s, f, S, R, K) ==
  \A j \in DOMAIN s : s[j] \in K =>
    \/ \E i \in DOMAIN s : i < j /\ s[i] \in S /\ \A h \in DOMAIN s : i < h /\ h < j => s[h] \notin R
    \/ f /\ \A h \in DOMAIN s : h < j => s[h] \notin R

LEMMA AfterEmpty ==
  ASSUME NEW f \in BOOLEAN, NEW S, NEW R, NEW K
  PROVE  (After(<<>>, f, S, R) <=> f) /\ Met(<<>>, f, S, R, K)
  BY DEF After, Lacks, Met

LEMMA AfterLast ==
  ASSUME NEW X, NEW s \in Seq(X), NEW x, NEW f \in BOOLEAN, NEW S, NEW R
  PROVE  After(Append(s, x), f, S, R) <=> x \in S \/ (After(s, f, S, R) /\ x \notin R)
<1>1. /\ DOMAIN s = 1 .. Len(s) /\ DOMAIN Append(s, x) = 1 .. Len(s) + 1 /\ Len(s) \in Nat
      /\ Append(s, x)[Len(s) + 1] = x /\ \A i \in 1 .. Len(s) : Append(s, x)[i] = s[i]
  OBVIOUS
<1> QED
  BY <1>1 DEF After, Lacks

LEMMA AfterAppend ==
  ASSUME NEW X, NEW s \in Seq(X), NEW x, NEW f \in BOOLEAN, NEW S, NEW R, NEW K
  PROVE  /\ After(Append(s, x), f, S, R) <=> x \in S \/ (After(s, f, S, R) /\ x \notin R)
         /\ Met(Append(s, x), f, S, R, K) <=>
              Met(s, f, S, R, K) /\ (x \in K => After(s, f, S, R))
<1>1. /\ DOMAIN s = 1 .. Len(s) /\ DOMAIN Append(s, x) = 1 .. Len(s) + 1 /\ Len(s) \in Nat
      /\ Append(s, x)[Len(s) + 1] = x /\ \A i \in 1 .. Len(s) : Append(s, x)[i] = s[i]
  OBVIOUS
<1>2. Met(Append(s, x), f, S, R, K) <=> Met(s, f, S, R, K) /\ (x \in K => After(s, f, S, R))
  BY <1>1 DEF After, Lacks, Met
<1> QED
  BY <1>2, AfterLast

LEMMA AfterTail ==
  ASSUME NEW X, NEW t \in Seq(X), t # <<>>, NEW f \in BOOLEAN, NEW g \in BOOLEAN,
         NEW S, NEW R, NEW K, g <=> Head(t) \in S \/ (f /\ Head(t) \notin R)
  PROVE  /\ After(t, f, S, R) <=> After(Tail(t), g, S, R)
         /\ Met(t, f, S, R, K) <=> (Head(t) \in K => f) /\ Met(Tail(t), g, S, R, K)
<1>1. /\ DOMAIN Tail(t) = 1 .. Len(t) - 1 /\ DOMAIN t = 1 .. Len(t) /\ Len(t) \in Nat \ {0}
      /\ Head(t) = t[1] /\ \A i \in 1 .. Len(t) - 1 : Tail(t)[i] = t[i + 1]
  OBVIOUS
<1> DEFINE u == Tail(t)
<1>2. /\ \A i \in DOMAIN u : i + 1 \in DOMAIN t /\ t[i + 1] = u[i] /\ i \in Nat \ {0}
      /\ \A i \in DOMAIN t : i # 1 => i - 1 \in DOMAIN u /\ t[i] = u[i - 1]
      /\ 1 \in DOMAIN t /\ \A i \in DOMAIN t : i \in Nat \ {0}
      /\ \A i \in DOMAIN u : i \in Nat \ {0}
  BY <1>1
<1>3. Lacks(t, R) <=> t[1] \notin R /\ Lacks(u, R)
  <2>1. ASSUME t[1] \notin R, Lacks(u, R), NEW i \in DOMAIN t PROVE t[i] \notin R
    BY <1>2, <2>1 DEF Lacks
  <2>2. ASSUME Lacks(t, R) PROVE t[1] \notin R /\ Lacks(u, R)
    BY <1>2, <2>2 DEF Lacks
  <2> QED
    BY <2>1, <2>2 DEF Lacks
<1>4. ASSUME After(t, f, S, R) PROVE After(u, g, S, R)
  <2>1. CASE f /\ Lacks(t, R)
    BY <1>1, <1>3, <2>1 DEF After
  <2>2. ASSUME NEW i \in DOMAIN t, t[i] \in S, \A h \in DOMAIN t : i < h => t[h] \notin R
        PROVE  After(u, g, S, R)
    <3>1. CASE i = 1
      <4>1. Lacks(u, R)
        BY <1>2, <2>2, <3>1 DEF Lacks
      <4> QED
        BY <1>1, <2>2, <3>1, <4>1 DEF After
    <3>2. CASE i # 1
      <4>1. i - 1 \in DOMAIN u /\ u[i - 1] \in S
        BY <1>2, <2>2, <3>2
      <4>2. \A h \in DOMAIN u : i - 1 < h => u[h] \notin R
        BY <1>2, <2>2
      <4> QED
        BY <4>1, <4>2 DEF After
    <3> QED
      BY <3>1, <3>2
  <2> QED
    BY <1>4, <2>1, <2>2 DEF After
<1>5. ASSUME After(u, g, S, R) PROVE After(t, f, S, R)
  <2>1. ASSUME NEW i \in DOMAIN u, u[i] \in S, \A h \in DOMAIN u : i < h => u[h] \notin R
        PROVE  After(t, f, S, R)
    <3>1. i + 1 \in DOMAIN t /\ t[i + 1] \in S
      BY <1>2, <2>1
    <3>2. ASSUME NEW h \in DOMAIN t, i + 1 < h PROVE t[h] \notin R
      <4>1. h \in Nat /\ h - 1 \in DOMAIN u /\ t[h] = u[h - 1]
        BY <1>2, <3>2
      <4> QED
        BY <1>2, <2>1, <3>2, <4>1 DEF Lacks
    <3> QED
      BY <3>1, <3>2 DEF After
  <2>2. CASE g /\ Lacks(u, R) /\ t[1] \in S
    <3>1. ASSUME NEW h \in DOMAIN t, 1 < h PROVE t[h] \notin R
      <4>1. h \in Nat /\ h - 1 \in DOMAIN u /\ t[h] = u[h - 1]
        BY <1>2, <3>1
      <4> QED
        BY <1>2, <2>2, <3>1, <4>1 DEF Lacks
    <3> QED
      BY <1>2, <2>2, <3>1 DEF After
  <2>3. CASE g /\ Lacks(u, R) /\ t[1] \notin S
    BY <1>1, <1>3, <2>3 DEF After
  <2> QED
    BY <1>5, <2>1, <2>2, <2>3 DEF After
<1>6. ASSUME Met(t, f, S, R, K) PROVE (t[1] \in K => f) /\ Met(u, g, S, R, K)
  <2>1. t[1] \in K => f
    BY <1>2, <1>6 DEF Met
  <2>2. ASSUME NEW j \in DOMAIN u, u[j] \in K
        PROVE  \/ \E i \in DOMAIN u : i < j /\ u[i] \in S
                    /\ \A h \in DOMAIN u : i < h /\ h < j => u[h] \notin R
               \/ g /\ \A h \in DOMAIN u : h < j => u[h] \notin R
    <3>1. j + 1 \in DOMAIN t /\ t[j + 1] \in K
      BY <1>2, <2>2
    <3>2. CASE f /\ \A h \in DOMAIN t : h < j + 1 => t[h] \notin R
      <4>1. t[1] \notin R /\ \A h \in DOMAIN u : h < j => u[h] \notin R
        BY <1>2, <2>2, <3>2
      <4> QED
        BY <1>1, <3>2, <4>1
    <3>3. ASSUME NEW i \in DOMAIN t, i < j + 1, t[i] \in S,
                 \A h \in DOMAIN t : i < h /\ h < j + 1 => t[h] \notin R
          PROVE  \/ \E k \in DOMAIN u : k < j /\ u[k] \in S
                      /\ \A h \in DOMAIN u : k < h /\ h < j => u[h] \notin R
                 \/ g /\ \A h \in DOMAIN u : h < j => u[h] \notin R
      <4>1. CASE i = 1
        <5>1. ASSUME NEW h \in DOMAIN u, h < j PROVE u[h] \notin R
          <6>1. h \in Nat /\ h + 1 \in DOMAIN t /\ u[h] = t[h + 1]
            BY <1>2, <5>1
          <6>2. i < h + 1 /\ h + 1 < j + 1
            BY <1>2, <6>1, <2>2, <3>3, <4>1, <5>1
          <6> QED
            BY <1>2, <2>2, <3>3, <4>1, <5>1, <6>1, <6>2 DEF Lacks
        <5> QED
          BY <1>1, <3>3, <4>1, <5>1
      <4>2. CASE i # 1
        <5>1. i - 1 \in DOMAIN u /\ i - 1 < j /\ u[i - 1] \in S
          BY <1>2, <2>2, <3>3, <4>2
        <5>2. ASSUME NEW h \in DOMAIN u, i - 1 < h, h < j PROVE u[h] \notin R
          <6>1. h \in Nat /\ h + 1 \in DOMAIN t /\ u[h] = t[h + 1]
            BY <1>2, <5>2
          <6>2. i < h + 1 /\ h + 1 < j + 1
            <7>1. i \in Nat /\ j \in Nat /\ h \in Nat
              BY <1>2
            <7> QED
              BY <5>2, <7>1
          <6> QED
            BY <1>2, <2>2, <3>3, <4>2, <5>2, <6>1, <6>2 DEF Lacks
        <5> QED
          BY <5>1, <5>2
      <4> QED
        BY <4>1, <4>2
    <3> QED
      BY <1>6, <3>1, <3>2, <3>3 DEF Met
  <2> QED
    BY <2>1, <2>2 DEF Met
<1>7. ASSUME t[1] \in K => f, Met(u, g, S, R, K) PROVE Met(t, f, S, R, K)
  <2> SUFFICES ASSUME NEW j \in DOMAIN t, t[j] \in K
               PROVE  \/ \E i \in DOMAIN t : i < j /\ t[i] \in S
                           /\ \A h \in DOMAIN t : i < h /\ h < j => t[h] \notin R
                      \/ f /\ \A h \in DOMAIN t : h < j => t[h] \notin R
    BY DEF Met
  <2>1. CASE j = 1
    BY <1>2, <1>7, <2>1
  <2>2. CASE j # 1
    <3>1. j - 1 \in DOMAIN u /\ u[j - 1] \in K
      BY <1>2, <2>2
    <3>2. ASSUME NEW i \in DOMAIN u, i < j - 1, u[i] \in S,
                 \A h \in DOMAIN u : i < h /\ h < j - 1 => u[h] \notin R
          PROVE  \E k \in DOMAIN t : k < j /\ t[k] \in S
                   /\ \A h \in DOMAIN t : k < h /\ h < j => t[h] \notin R
      <4>1. i + 1 \in DOMAIN t /\ i + 1 < j /\ t[i + 1] \in S
        BY <1>2, <3>2
      <4>2. ASSUME NEW h \in DOMAIN t, i + 1 < h, h < j PROVE t[h] \notin R
        <5>1. h \in Nat /\ h - 1 \in DOMAIN u /\ t[h] = u[h - 1]
          BY <1>2, <4>2
        <5>2. i < h - 1 /\ h - 1 < j - 1
          <6>1. i \in Nat /\ j \in Nat /\ h \in Nat
            BY <1>2
          <6> QED
            BY <4>2, <6>1
        <5> QED
          BY <1>2, <3>2, <4>2, <5>1, <5>2 DEF Lacks
      <4> QED
        BY <4>1, <4>2
    <3>3. CASE g /\ \A h \in DOMAIN u : h < j - 1 => u[h] \notin R
      <4>1. ASSUME NEW h \in DOMAIN t, 1 < h, h < j PROVE t[h] \notin R
        <5>1. h \in Nat /\ h - 1 \in DOMAIN u /\ t[h] = u[h - 1]
          BY <1>2, <2>2, <4>1
        <5> QED
          BY <1>2, <3>3, <4>1, <5>1 DEF Lacks
      <4>2. CASE t[1] \in S
        BY <1>2, <2>2, <4>1, <4>2
      <4>3. CASE t[1] \notin S
        BY <1>1, <1>2, <3>3, <4>1, <4>3
      <4> QED
        BY <4>2, <4>3
    <3> QED
      BY <1>7, <3>1, <3>2, <3>3 DEF Met
  <2> QED
    BY <2>1, <2>2
<1> QED
  BY <1>1, <1>4, <1>5, <1>6, <1>7

LEMMA AfterBoolean ==
  ASSUME NEW s, NEW f, NEW S, NEW R
  PROVE  After(s, f, S, R) \in BOOLEAN
  BY DEF After

\* The same over a sequence that is split in three: s, then t, then u.
Finally(s, t, u, f, S, R) == After(u, After(t, After(s, f, S, R), S, R), S, R)

AllMet(s, t, u, f, S, R, K) ==
  /\ Met(s, f, S, R, K)
  /\ Met(t, After(s, f, S, R), S, R, K)
  /\ Met(u, After(t, After(s, f, S, R), S, R), S, R, K)

LEMMA FlagForwarded ==
  ASSUME NEW X, NEW s \in Seq(X), NEW t \in Seq(X), t # <<>>, NEW u, NEW f \in BOOLEAN,
         NEW S, NEW R, NEW K
  PROVE  /\ Finally(s, t, u, f, S, R) = Finally(Append(s, Head(t)), Tail(t), u, f, S, R)
         /\ AllMet(s, t, u, f, S, R, K) <=> AllMet(Append(s, Head(t)), Tail(t), u, f, S, R, K)
<1> DEFINE p == After(s, f, S, R)
           q == After(Append(s, Head(t)), f, S, R)
<1>1. p \in BOOLEAN /\ q \in BOOLEAN
  BY AfterBoolean
<1>2. /\ q <=> Head(t) \in S \/ (p /\ Head(t) \notin R)
      /\ Met(Append(s, Head(t)), f, S, R, K) <=> Met(s, f, S, R, K) /\ (Head(t) \in K => p)
  <2>1. PICK x : x = Head(t)
    OBVIOUS
  <2>2. /\ After(Append(s, x), f, S, R) <=> x \in S \/ (After(s, f, S, R) /\ x \notin R)
        /\ Met(Append(s, x), f, S, R, K) <=>
             Met(s, f, S, R, K) /\ (x \in K => After(s, f, S, R))
    BY AfterAppend
  <2> QED
    BY <2>1, <2>2
<1> HIDE DEF p, q
<1>3. /\ After(t, p, S, R) <=> After(Tail(t), q, S, R)
      /\ Met(t, p, S, R, K) <=> (Head(t) \in K => p) /\ Met(Tail(t), q, S, R, K)
  BY <1>1, <1>2, AfterTail
<1>4. After(t, p, S, R) = After(Tail(t), q, S, R)
  BY <1>3, AfterBoolean
<1> QED
  BY <1>2, <1>3, <1>4 DEF Finally, AllMet, p, q

LEMMA FlagDropped ==
  ASSUME NEW X, NEW s, NEW t \in Seq(X), t # <<>>, NEW u, NEW f \in BOOLEAN,
         NEW S, NEW R, NEW K, Head(t) \notin S \cup R \cup K
  PROVE  /\ Finally(s, t, u, f, S, R) = Finally(s, Tail(t), u, f, S, R)
         /\ AllMet(s, t, u, f, S, R, K) <=> AllMet(s, Tail(t), u, f, S, R, K)
<1> DEFINE p == After(s, f, S, R)
<1>1. p \in BOOLEAN
  BY AfterBoolean
<1> HIDE DEF p
<1>3. /\ After(t, p, S, R) <=> After(Tail(t), p, S, R)
      /\ Met(t, p, S, R, K) <=> Met(Tail(t), p, S, R, K)
  BY <1>1, AfterTail
<1>4. After(t, p, S, R) = After(Tail(t), p, S, R)
  BY <1>3, AfterBoolean
<1> QED
  BY <1>3, <1>4 DEF Finally, AllMet, p

LEMMA FlagJoined ==
  ASSUME NEW X, NEW s, NEW t \in Seq(X), NEW u, NEW f \in BOOLEAN,
         NEW S, NEW R, NEW K, NEW y, y \notin S \cup R \cup K
  PROVE  /\ Finally(s, t, u, f, S, R) = Finally(s, Append(t, y), u, f, S, R)
         /\ AllMet(s, t, u, f, S, R, K) <=> AllMet(s, Append(t, y), u, f, S, R, K)
<1> DEFINE p == After(s, f, S, R)
<1>1. p \in BOOLEAN
  BY AfterBoolean
<1> HIDE DEF p
<1>3. /\ After(t, p, S, R) <=> After(Append(t, y), p, S, R)
      /\ Met(t, p, S, R, K) <=> Met(Append(t, y), p, S, R, K)
  BY <1>1, AfterAppend
<1>4. After(t, p, S, R) = After(Append(t, y), p, S, R)
  BY <1>3, AfterBoolean
<1> QED
  BY <1>3, <1>4 DEF Finally, AllMet, p

LEMMA FlagSent ==
  ASSUME NEW X, NEW s, NEW t \in Seq(X), NEW u \in Seq(X), u # <<>>, NEW f \in BOOLEAN,
         NEW S, NEW R, NEW K
  PROVE  /\ Finally(s, t, u, f, S, R) = Finally(s, Append(t, Head(u)), Tail(u), f, S, R)
         /\ AllMet(s, t, u, f, S, R, K) <=> AllMet(s, Append(t, Head(u)), Tail(u), f, S, R, K)
<1> DEFINE p == After(s, f, S, R)
           q == After(t, p, S, R)
           r == After(Append(t, Head(u)), p, S, R)
<1>1. p \in BOOLEAN /\ q \in BOOLEAN /\ r \in BOOLEAN
  BY AfterBoolean
<1> HIDE DEF p
<1>2. /\ r <=> Head(u) \in S \/ (q /\ Head(u) \notin R)
      /\ Met(Append(t, Head(u)), p, S, R, K) <=> Met(t, p, S, R, K) /\ (Head(u) \in K => q)
  BY <1>1, AfterAppend
<1> HIDE DEF q, r
<1>3. /\ After(u, q, S, R) <=> After(Tail(u), r, S, R)
      /\ Met(u, q, S, R, K) <=> (Head(u) \in K => q) /\ Met(Tail(u), r, S, R, K)
  BY <1>1, <1>2, AfterTail
<1>4. After(u, q, S, R) = After(Tail(u), r, S, R)
  BY <1>3, AfterBoolean
<1> QED
  BY <1>2, <1>3, <1>4 DEF Finally, AllMet, p, q, r

LEMMA FlagDrawn ==
  ASSUME NEW s, NEW t, NEW u, NEW f \in BOOLEAN, NEW S, NEW R, NEW K
  PROVE  /\ Finally(s, t, u, f, S, R) <=> After(u, Finally(s, t, <<>>, f, S, R), S, R)
         /\ AllMet(s, t, u, f, S, R, K) <=>
              AllMet(s, t, <<>>, f, S, R, K) /\ Met(u, Finally(s, t, <<>>, f, S, R), S, R, K)
<1> DEFINE q == After(t, After(s, f, S, R), S, R)
<1>1. q \in BOOLEAN
  BY AfterBoolean
<1> HIDE DEF q
<1>2. After(<<>>, q, S, R) <=> q
  BY <1>1, AfterEmpty
<1>3. After(<<>>, q, S, R) = q /\ Met(<<>>, q, S, R, K)
  BY <1>1, <1>2, AfterBoolean, AfterEmpty
<1> QED
  BY <1>3 DEF Finally, AllMet, q

LEMMA FinallyMore ==
  ASSUME NEW s, NEW t, NEW u, NEW f \in BOOLEAN, NEW g \in BOOLEAN, NEW S, NEW R, f => g,
         Finally(s, t, u, f, S, R)
  PROVE  Finally(s, t, u, g, S, R)
  BY DEF Finally, After

\* The flag f of agent a when everything on the way to it has been obeyed, and
\* that it is up whenever a is given an order of K.
Settled(a, f, S, R, out) == Finally(toAgent[a], toClients, out, f, S, R)
Ready(a, f, S, R, K, out) == AllMet(toAgent[a], toClients, out, f, S, R, K)

LEMMA NetFlags ==
  ASSUME NetTypeOK, NEW orders \in SUBSET Orders, Signed(orders), NEW a \in Agent, NetNext,
         alive'[a], ~AgentRoute(a), Reachable(a) \/ Lacks(toClients, Mine(a)),
         NEW S, NEW R, NEW K, S \subseteq Mine(a), R \subseteq Mine(a), K \subseteq Mine(a),
         NEW f \in BOOLEAN, NEW out
  PROVE  /\ Settled(a, f, S, R, out) <=> Settled(a, f, S, R, out)'
         /\ Ready(a, f, S, R, K, out) <=> Ready(a, f, S, R, K, out)'
<1>1. PICK s, t : s = toAgent[a] /\ t = toClients
  OBVIOUS
<1>2. PICK v, w : v = toAgent'[a] /\ w = toClients'
  OBVIOUS
<1>3. s \in Seq(Message) /\ t \in Seq(Message)
  BY <1>1 DEF NetTypeOK
<1> DEFINE Same == /\ Finally(s, t, out, f, S, R) = Finally(v, w, out, f, S, R)
                   /\ AllMet(s, t, out, f, S, R, K) <=> AllMet(v, w, out, f, S, R, K)
<1>4. Same
  <2>1. CASE toAgent'[a] = toAgent[a] /\ UNCHANGED toClients
    BY <1>1, <1>2, <2>1
  <2>2. ASSUME toAgent'[a] = toAgent[a], NEW y \in Speech, toClients' = Append(toClients, y)
        PROVE  Same
    <3>1. y \notin S \cup R \cup K
      BY AgentAssumption DEF Mine, Speech, Orders
    <3>2. v = s /\ w = Append(t, y)
      BY <1>1, <1>2, <2>2
    <3>3. /\ Finally(s, t, out, f, S, R) = Finally(s, Append(t, y), out, f, S, R)
          /\ AllMet(s, t, out, f, S, R, K) <=> AllMet(s, Append(t, y), out, f, S, R, K)
      BY <1>3, <3>1, FlagJoined
    <3> QED
      BY <3>2, <3>3
  <2>3. CASE /\ toClients # <<>> /\ toClients' = Tail(toClients)
             /\ toAgent'[a] = Append(toAgent[a], Head(toClients))
    BY <1>1, <1>2, <1>3, <2>3, FlagForwarded
  <2>4. CASE /\ toClients # <<>> /\ toClients' = Tail(toClients) /\ toAgent'[a] = toAgent[a]
             /\ Head(toClients).to = a => ~Reachable(a)
    <3>1. Head(t) \notin S \cup R \cup K
      BY <1>1, <1>3, <2>4 DEF Mine, Lacks
    <3> QED
      BY <1>1, <1>2, <1>3, <2>4, <3>1, FlagDropped
  <2> HIDE DEF Same
  <2> QED
    BY <2>1, <2>2, <2>3, <2>4, NetMoves
<1> QED
  BY <1>1, <1>2, <1>4 DEF Settled, Ready

LEMMA FlagTaken ==
  ASSUME NetTypeOK, NEW a \in Agent, AgentRoute(a), NEW m, m = Head(toAgent[a]),
         NEW S, NEW R, NEW K, NEW out,
         NEW f \in BOOLEAN, NEW g \in BOOLEAN, g <=> m \in S \/ (f /\ m \notin R)
  PROVE  Ready(a, f, S, R, K, out) <=> (m \in K => f) /\ Ready(a, g, S, R, K, out)'
<1>1. PICK s, t : s = toAgent[a] /\ t = toClients
  OBVIOUS
<1>2. /\ s # <<>> /\ toAgent'[a] = Tail(s) /\ toClients' = t /\ s \in Seq(Message)
  <2>1. toAgent[a] # <<>> /\ toAgent' = [toAgent EXCEPT ![a] = Tail(@)] /\ UNCHANGED toClients
    BY RouteShape DEF Routed, queueVars
  <2> QED
    BY <1>1, <2>1 DEF NetTypeOK
<1>3. AllMet(s, t, out, f, S, R, K) <=> (m \in K => f) /\ AllMet(Tail(s), t, out, g, S, R, K)
  <2>1. (g <=> Head(s) \in S \/ (f /\ Head(s) \notin R)) /\ m = Head(s)
    BY <1>1
  <2>2. /\ After(s, f, S, R) <=> After(Tail(s), g, S, R)
        /\ Met(s, f, S, R, K) <=> (Head(s) \in K => f) /\ Met(Tail(s), g, S, R, K)
    BY <1>2, <2>1, AfterTail
  <2>3. After(s, f, S, R) = After(Tail(s), g, S, R)
    BY <2>2, AfterBoolean
  <2> QED
    BY <2>1, <2>2, <2>3 DEF AllMet
<1> QED
  BY <1>1, <1>2, <1>3 DEF Ready

LEMMA SettledTaken ==
  ASSUME NetTypeOK, NEW a \in Agent, AgentRoute(a), NEW m, m = Head(toAgent[a]),
         NEW S, NEW R, NEW out, NEW f \in BOOLEAN, Settled(a, f, S, R, out),
         NEW g \in BOOLEAN, g <=> m \in S \/ (f /\ m \notin R)
  PROVE  Settled(a, g, S, R, out)'
<1>1. PICK s, t : s = toAgent[a] /\ t = toClients
  OBVIOUS
<1>2. /\ s # <<>> /\ toAgent'[a] = Tail(s) /\ toClients' = t /\ s \in Seq(Message)
  <2>1. toAgent[a] # <<>> /\ toAgent' = [toAgent EXCEPT ![a] = Tail(@)] /\ UNCHANGED toClients
    BY RouteShape DEF Routed, queueVars
  <2> QED
    BY <1>1, <2>1 DEF NetTypeOK
<1>3. Finally(s, t, out, f, S, R) = Finally(Tail(s), t, out, g, S, R)
  <2>1. (g <=> Head(s) \in S \/ (f /\ Head(s) \notin R)) /\ m = Head(s)
    BY <1>1
  <2>2. /\ After(s, f, S, R) <=> After(Tail(s), g, S, R)
        /\ Met(s, f, S, R, {}) <=> (Head(s) \in {} => f) /\ Met(Tail(s), g, S, R, {})
    BY <1>2, <2>1, AfterTail
  <2>3. After(s, f, S, R) = After(Tail(s), g, S, R)
    BY <2>2, AfterBoolean
  <2> QED
    BY <2>3 DEF Finally
<1> QED
  BY <1>1, <1>2, <1>3 DEF Settled

LEMMA FlagSends ==
  ASSUME NetTypeOK, NEW a \in Agent, NEW out \in Seq(Message), out # <<>>,
         toClients' = Append(toClients, Head(out)), UNCHANGED toAgent,
         NEW S, NEW R, NEW K, NEW f \in BOOLEAN
  PROVE  /\ Settled(a, f, S, R, out) <=> Settled(a, f, S, R, Tail(out))'
         /\ Ready(a, f, S, R, K, out) <=> Ready(a, f, S, R, K, Tail(out))'
<1>1. PICK s, t : s = toAgent[a] /\ t = toClients
  OBVIOUS
<1>2. t \in Seq(Message) /\ toAgent'[a] = s /\ toClients' = Append(t, Head(out))
  BY <1>1 DEF NetTypeOK
<1>3. /\ Finally(s, t, out, f, S, R) = Finally(s, Append(t, Head(out)), Tail(out), f, S, R)
      /\ AllMet(s, t, out, f, S, R, K) <=>
           AllMet(s, Append(t, Head(out)), Tail(out), f, S, R, K)
  BY <1>2, FlagSent
<1> QED
  BY <1>1, <1>2, <1>3 DEF Settled, Ready

\* New orders of the jobs come after all that are on the way.
LEMMA FlagDraws ==
  ASSUME NEW a \in Agent, NEW after, UNCHANGED <<toClients, toAgent>>,
         NEW S, NEW R, NEW K, NEW f \in BOOLEAN
  PROVE  /\ Settled(a, f, S, R, after)' <=> After(after, Settled(a, f, S, R, <<>>), S, R)
         /\ Ready(a, f, S, R, K, after)' <=>
              /\ Ready(a, f, S, R, K, <<>>)
              /\ Met(after, Settled(a, f, S, R, <<>>), S, R, K)
<1>1. PICK s, t : s = toAgent[a] /\ t = toClients
  OBVIOUS
<1>2. /\ Finally(s, t, after, f, S, R) <=> After(after, Finally(s, t, <<>>, f, S, R), S, R)
      /\ AllMet(s, t, after, f, S, R, K) <=>
           AllMet(s, t, <<>>, f, S, R, K) /\ Met(after, Finally(s, t, <<>>, f, S, R), S, R, K)
  BY FlagDrawn
<1> QED
  BY <1>1, <1>2 DEF Settled, Ready

LEMMA SettledDraws ==
  ASSUME NEW a \in Agent, NEW after, UNCHANGED <<toClients, toAgent>>,
         NEW S, NEW R, NEW f \in BOOLEAN
  PROVE  Settled(a, f, S, R, after)' <=> After(after, Settled(a, f, S, R, <<>>), S, R)
<1>1. PICK s, t : s = toAgent[a] /\ t = toClients
  OBVIOUS
<1>2. After(<<>>, After(t, After(s, f, S, R), S, R), S, R) = After(t, After(s, f, S, R), S, R)
  <2>1. PICK g \in BOOLEAN : g = After(t, After(s, f, S, R), S, R)
    BY AfterBoolean
  <2>2. After(<<>>, g, S, R) <=> g
    BY DEF After, Lacks
  <2> QED
    BY <2>1, <2>2, AfterBoolean
<1> QED
  BY <1>1, <1>2 DEF Settled, Finally
=============================================================================
