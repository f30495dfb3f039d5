------------------------------ MODULE Agents -------------------------------
(***************************************************************************)
(* The chat transport and the agents of jasima.                            *)
(*                                                                         *)
(*   agent -> stream -> listen -> ToClients -> Router -> agents            *)
(*                                                    -> procedureChan     *)
(*                                                    -> ToServer          *)
(*                                                                         *)
(* Server side: the listen loop of each connection (network/grpc.go) feeds *)
(* the ToClients channel; one Router goroutine (cmd/server/server.go)      *)
(* takes each message, forwards it to its receiver and, when it comes from *)
(* an agent, hands it to the evolution jobs: messages of a language layer  *)
(* on procedureChan, messages of the system agents on ToServer.  The       *)
(* server's own commands enter through ToClients too, so they are ordered  *)
(* with the chat.                                                          *)
(*                                                                         *)
(* Agent side (cmd/agent): a router goroutine takes one message at a time, *)
(* saves it in the short-term memory when it is plain text, cancels the    *)
(* context of the message before it and acts on it; each request to the    *)
(* LLM runs in a goroutine of its own.                                     *)
(*                                                                         *)
(* Texts are abstracted to what they are about: a set of topics, which are *)
(* layers in Iterate and words in Logogram, the jobs that drive this       *)
(* transport.                                                              *)
(***************************************************************************)
EXTENDS Integers, Sequences, FiniteSets

CONSTANTS
  Agent,      \* the agents that join
  Server,     \* the server's name, "SERVER"
  NoMsg,      \* no message
  NLayers,    \* the number of language layers (chat.LogographyLayer is 4)
  LayerOf,    \* LayerOf[a]: 0 for a system agent, 1 .. NLayers otherwise
  PeerOf,     \* PeerOf[a] = Peers[0], where a sends everything it says
  Cap,        \* the capacity of ToClients, ToServer and procedureChan (100)
  MaxInbox,   \* bound: messages on the way down to one agent
  MaxSaid,    \* bound: the messages one layer's agents send
  MaxFaults,  \* bound: the LLM requests that fail for good or are answered badly
  MaxLate     \* agents that WaitForClients does not wait for (11 of 13)

Layer == 1 .. NLayers

ASSUME LayersAssumption == NLayers \in Nat \ {0}
ASSUME AgentAssumption  ==
  /\ IsFiniteSet(Agent) /\ Server \notin Agent
  /\ LayerOf \in [Agent -> 0 .. NLayers]
  /\ PeerOf \in [Agent -> Agent \cup {Server}]
  /\ \A a \in Agent : LayerOf[a] = 0 <=> PeerOf[a] = Server
(* The agents are started in pairs, the two of a pair in the same layer    *)
(* (Taskfile.yml, lines 20-42).                                            *)
ASSUME PeerAssumption ==
  \A a \in Agent : LayerOf[a] # 0 => LayerOf[PeerOf[a]] = LayerOf[a]
ASSUME BoundAssumption  ==
  /\ Cap \in Nat \ {0} /\ MaxInbox \in Nat \ {0}
  /\ MaxSaid \in Nat /\ MaxFaults \in Nat /\ MaxLate \in Nat

VARIABLES
  connected,      \* the server's clientele: the agents it can look up
  toClients,      \* ChatServer.Channel.ToClients
  routerHand,     \* a forwarded message the Router has yet to hand over
  procedureChan,  \* ConlangServer.procedureChan
  toServer,       \* ChatServer.Channel.ToServer
  toAgent,        \* toAgent[a]: the stream down to a and a's inbound channel
  fromAgent,      \* fromAgent[a]: a's responses channel and the stream up
  alive,          \* alive[a]: a's process runs
  latch,          \* client.latch
  stm,            \* client.stm: what the remembered messages are about
  instr,          \* what has been appended to the LLM's instructions
  calls,          \* calls[a]: the LLM requests in progress, oldest first
  said,           \* said[l]: messages sent by the agents of layer l so far
  faults          \* LLM requests failed, or answered with malformed JSON, so far

queueVars == <<toClients, routerHand, procedureChan, toServer>>
agentVars == <<toAgent, fromAgent, alive, latch, stm, instr, calls>>
netVars   == <<connected, queueVars, agentVars, said, faults>>

TypedRequest ==
  {"RequestJsonDictionaryUpdate", "RequestDictionaryWordDetection",
   "RequestLogogramIteration", "RequestLogogramCritique"}
Command == TypedRequest \cup
  {"NoCommand", "AppendInstructions", "SetInstructions", "ResetInstructions",
   "ClearMemory", "Latch", "Unlatch", "SendInitialMessage"}

(* A message: command, topics, and for an LLM's answer the topics of the   *)
(* instructions it was given and whether it is JSON.                       *)
Message ==
  [from : Agent \cup {Server}, to : Agent \cup {Server}, cmd : Command,
   about : SUBSET Layer, prompt : SUBSET Layer, json : BOOLEAN]

ASSUME NoMsgAssumption == NoMsg \notin Message

Msg(from, to, cmd, about) ==
  [from |-> from, to |-> to, cmd |-> cmd, about |-> about,
   prompt |-> {}, json |-> FALSE]

(* An LLM request: its goroutine has not started ("spawned"); a typed one  *)
(* has found its context uncancelled ("started") and saved what it is      *)
(* asked ("saved"); it waits for the rate limit ("asked") or for the       *)
(* service ("posted").                                                     *)
Call ==
  [typed : BOOLEAN, phase : {"spawned", "started", "saved", "asked", "posted"},
   cancelled : BOOLEAN, about : SUBSET Layer, prompt : SUBSET Layer]

(* The evolution starts when all but MaxLate agents have joined.           *)
NetInit ==
  /\ connected \in SUBSET Agent
  /\ Cardinality(Agent \ connected) <= MaxLate
  /\ toClients = <<>> /\ routerHand = NoMsg
  /\ procedureChan = <<>> /\ toServer = <<>>
  /\ toAgent = [a \in Agent |-> <<>>]
  /\ fromAgent = [a \in Agent |-> <<>>]
  /\ alive = [a \in Agent |-> TRUE]
  /\ latch = [a \in Agent |-> TRUE]
  /\ stm = [a \in Agent |-> {}]
  /\ instr = [a \in Agent |-> {}]
  /\ calls = [a \in Agent |-> <<>>]
  /\ said = [l \in Layer |-> 0]
  /\ faults = 0

IsAgentMsg(m) == m.from # Server /\ m.cmd = "NoCommand"

-----------------------------------------------------------------------------
(***************************************************************************)
(* The server's connections and its Router                                 *)
(***************************************************************************)

(* An agent that was not there at the start connects (Chat, initClient).   *)
Join(a) ==
  /\ a \notin connected /\ alive[a]
  /\ connected' = connected \cup {a}
  /\ UNCHANGED <<queueVars, agentVars, said, faults>>

(* The listen loop of a's connection moves a received message to ToClients.*)
Listen(a) ==
  /\ a \in connected
  /\ fromAgent[a] # <<>>
  /\ Len(toClients) < Cap
  /\ toClients' = Append(toClients, Head(fromAgent[a]))
  /\ fromAgent' = [fromAgent EXCEPT ![a] = Tail(@)]
  /\ UNCHANGED <<connected, routerHand, procedureChan, toServer, toAgent, alive,
                 latch, stm, instr, calls, said, faults>>

(* The connection of a dead agent ends: Chat removes the client.  What the *)
(* stream still held is lost.                                              *)
Disconnect(a) ==
  /\ a \in connected /\ ~alive[a]
  /\ connected' = connected \ {a}
  /\ fromAgent' = [fromAgent EXCEPT ![a] = <<>>]
  /\ UNCHANGED <<queueVars, toAgent, alive, latch, stm, instr, calls, said, faults>>

(* A message reaches an agent that is registered and still there (Broadcast *)
(* with a receiver, forward).                                              *)
Reachable(a) == a \in connected /\ alive[a]

(* The Router's messageRoute.  A message for the server is not forwarded;  *)
(* one whose receiver is not connected is dropped (the error of a route is *)
(* overwritten by the next route).                                         *)
RouterForward ==
  /\ routerHand = NoMsg /\ toClients # <<>>
  /\ LET m == Head(toClients) IN
       /\ m.to \in Agent => Len(toAgent[m.to]) < MaxInbox
       /\ toAgent' = IF Reachable(m.to)
                     THEN [toAgent EXCEPT ![m.to] = Append(@, m)]
                     ELSE toAgent
       /\ routerHand' = IF IsAgentMsg(m) THEN m ELSE NoMsg
  /\ toClients' = Tail(toClients)
  /\ UNCHANGED <<connected, procedureChan, toServer, fromAgent, alive, latch,
                 stm, instr, calls, said, faults>>

(* A faulty variant: system agents' answers go to procedureChan too.       *)
DispatchAllToProcedures ==
  /\ routerHand # NoMsg /\ Len(procedureChan) < Cap
  /\ procedureChan' = Append(procedureChan, routerHand)
  /\ routerHand' = NoMsg
  /\ UNCHANGED <<connected, toClients, toServer, agentVars, said, faults>>

(* A faulty variant: the layer of the sender is not looked at.             *)
DispatchAllToServer ==
  /\ routerHand # NoMsg /\ Len(toServer) < Cap
  /\ toServer' = Append(toServer, routerHand)
  /\ routerHand' = NoMsg
  /\ UNCHANGED <<connected, toClients, procedureChan, agentVars, said, faults>>

(* The Router's procedureRoute, which blocks while its channel is full.    *)
RouterDispatch ==
  /\ routerHand # NoMsg
  /\ \/ /\ LayerOf[routerHand.from] # 0 /\ Len(procedureChan) < Cap
        /\ procedureChan' = Append(procedureChan, routerHand)
        /\ UNCHANGED toServer
     \/ /\ LayerOf[routerHand.from] = 0 /\ Len(toServer) < Cap
        /\ toServer' = Append(toServer, routerHand)
        /\ UNCHANGED procedureChan
  /\ routerHand' = NoMsg
  /\ UNCHANGED <<connected, toClients, agentVars, said, faults>>

-----------------------------------------------------------------------------
(***************************************************************************)
(* An agent's router: client.action, one action per command.  Each first   *)
(* cancels the context of the message before it; the contexts of older     *)
(* messages were cancelled when their successor was routed.                *)
(***************************************************************************)

Inbox(a) == Head(toAgent[a])

Receives(a, cmd) ==
  /\ alive[a] /\ toAgent[a] # <<>> /\ Inbox(a).cmd = cmd
  /\ toAgent' = [toAgent EXCEPT ![a] = Tail(@)]

Cancelled(cs) == [k \in DOMAIN cs |-> [cs[k] EXCEPT !.cancelled = TRUE]]

CancelPrevious(a) == calls' = [calls EXCEPT ![a] = Cancelled(@)]

Spawned(typed, about) ==
  [typed |-> typed, phase |-> "spawned", cancelled |-> FALSE,
   about |-> about, prompt |-> {}]

(* A counter per language layer; what system agents send is not counted.  *)
OneMore(counts, a) ==
  [l \in Layer |-> counts[l] + IF l = LayerOf[a] THEN 1 ELSE 0]

Spawn(a, call) == calls' = [calls EXCEPT ![a] = Append(Cancelled(@), call)]

OnAppendInstructions(a) ==
  /\ Receives(a, "AppendInstructions") /\ CancelPrevious(a)
  /\ instr' = [instr EXCEPT ![a] = @ \cup Inbox(a).about]
  /\ UNCHANGED <<connected, queueVars, fromAgent, alive, latch, stm, said, faults>>

OnSetInstructions(a) ==
  /\ Receives(a, "SetInstructions") /\ CancelPrevious(a)
  /\ instr' = [instr EXCEPT ![a] = Inbox(a).about]
  /\ UNCHANGED <<connected, queueVars, fromAgent, alive, latch, stm, said, faults>>

OnResetInstructions(a) ==
  /\ Receives(a, "ResetInstructions") /\ CancelPrevious(a)
  /\ instr' = [instr EXCEPT ![a] = {}]
  /\ UNCHANGED <<connected, queueVars, fromAgent, alive, latch, stm, said, faults>>

OnClearMemory(a) ==
  /\ Receives(a, "ClearMemory") /\ CancelPrevious(a)
  /\ stm' = [stm EXCEPT ![a] = {}]
  /\ UNCHANGED <<connected, queueVars, fromAgent, alive, latch, instr, said, faults>>

OnLatch(a) ==
  /\ Receives(a, "Latch") /\ CancelPrevious(a)
  /\ latch' = [latch EXCEPT ![a] = TRUE]
  /\ UNCHANGED <<connected, queueVars, fromAgent, alive, stm, instr, said, faults>>

OnUnlatch(a) ==
  /\ Receives(a, "Unlatch") /\ CancelPrevious(a)
  /\ latch' = [latch EXCEPT ![a] = FALSE]
  /\ UNCHANGED <<connected, queueVars, fromAgent, alive, stm, instr, said, faults>>

(* The text of a kickoff, as the agent's own.                              *)
Opening(a) ==
  [Msg(a, PeerOf[a], "NoCommand", Inbox(a).about) EXCEPT !.json = Inbox(a).json]

(* Refused while latched; otherwise the text is remembered and sent to the *)
(* peer without asking the LLM.                                            *)
OnSendInitialMessage(a) ==
  /\ Receives(a, "SendInitialMessage") /\ CancelPrevious(a)
  /\ \/ /\ latch[a]
        /\ UNCHANGED <<stm, fromAgent, said>>
     \/ /\ ~latch[a]
        /\ stm' = [stm EXCEPT ![a] = @ \cup Inbox(a).about]
        /\ fromAgent' = [fromAgent EXCEPT ![a] = Append(@, Opening(a))]
        /\ said' = OneMore(said, a)
  /\ UNCHANGED <<connected, queueVars, alive, latch, instr, faults>>

(* A typed request, whatever the latch.                                    *)
OnRequest(a) ==
  /\ \E cmd \in TypedRequest : Receives(a, cmd)
  /\ Spawn(a, Spawned(TRUE, Inbox(a).about))
  /\ UNCHANGED <<connected, queueVars, fromAgent, alive, latch, stm, instr, said, faults>>

(* Plain text: remembered, then sent to the LLM with the whole memory,     *)
(* whatever the latch (the default branch of action).                      *)
OnText(a) ==
  /\ Receives(a, "NoCommand")
  /\ stm' = [stm EXCEPT ![a] = @ \cup Inbox(a).about]
  /\ Spawn(a, Spawned(FALSE, {}))
  /\ UNCHANGED <<connected, queueVars, fromAgent, alive, latch, instr, said, faults>>

AgentRoute(a) ==
  \/ OnAppendInstructions(a)
  \/ OnSetInstructions(a)
  \/ OnResetInstructions(a)
  \/ OnClearMemory(a)
  \/ OnLatch(a)
  \/ OnUnlatch(a)
  \/ OnSendInitialMessage(a)
  \/ OnRequest(a)
  \/ OnText(a)

-----------------------------------------------------------------------------
(***************************************************************************)
(* The goroutines DispatchToLLM (plain text) and typedRequest.             *)
(***************************************************************************)

Without(cs, k) ==
  [j \in 1 .. Len(cs) - 1 |-> IF j < k THEN cs[j] ELSE cs[j + 1]]

(* What a request becomes on its way.                                      *)
Started(c)        == [c EXCEPT !.phase = "started"]
Saved(c)          == [c EXCEPT !.phase = "saved"]
Asked(c, about)   == [c EXCEPT !.phase = "asked", !.about = about]
Posted(c, prompt) == [c EXCEPT !.phase = "posted", !.prompt = prompt]

Becomes(a, k, c) == calls' = [calls EXCEPT ![a][k] = c]

Quit(a, k) == calls' = [calls EXCEPT ![a] = Without(@, k)]

(* An error other than ErrDispatchContextCancelled on the agent's errs     *)
(* channel: main stops the agent.                                          *)
Die(a) ==
  /\ alive' = [alive EXCEPT ![a] = FALSE]
  /\ calls' = [calls EXCEPT ![a] = <<>>]
  /\ toAgent' = [toAgent EXCEPT ![a] = <<>>]

(* The goroutine of a typed request starts, unless its context is already  *)
(* cancelled, and saves the request without looking at it again.           *)
StartTyped(a, k) ==
  /\ calls[a][k].phase = "spawned" /\ calls[a][k].typed
  /\ \/ calls[a][k].cancelled /\ Quit(a, k)
     \/ ~calls[a][k].cancelled /\ Becomes(a, k, Started(calls[a][k]))
  /\ UNCHANGED <<connected, queueVars, toAgent, fromAgent, alive, latch, stm,
                 instr, said, faults>>

SaveTyped(a, k) ==
  /\ calls[a][k].phase = "started"
  /\ stm' = [stm EXCEPT ![a] = @ \cup calls[a][k].about]
  /\ Becomes(a, k, Saved(calls[a][k]))
  /\ UNCHANGED <<connected, queueVars, toAgent, fromAgent, alive, latch, instr,
                 said, faults>>

(* A plain text's goroutine starts with this, a typed request's goes on:   *)
(* the whole memory is retrieved.  If it is empty, because it was cleared  *)
(* since the text was saved, the request fails (errNoContentsInRequest,    *)
(* before the context is looked at), and that is no cancellation.          *)
Retrieve(a, k) ==
  /\ calls[a][k].phase = IF calls[a][k].typed THEN "saved" ELSE "spawned"
  /\ \/ /\ stm[a] = {}
        /\ Die(a)
     \/ /\ stm[a] # {}
        /\ Becomes(a, k, Asked(calls[a][k], stm[a]))
        /\ UNCHANGED <<alive, toAgent>>
  /\ UNCHANGED <<connected, queueVars, fromAgent, latch, stm, instr, said, faults>>

(* The rate-limiting sleep ends: the request is posted with the current    *)
(* instructions.                                                           *)
Post(a, k) ==
  /\ calls[a][k].phase = "asked" /\ ~calls[a][k].cancelled
  /\ Becomes(a, k, Posted(calls[a][k], instr[a]))
  /\ UNCHANGED <<connected, queueVars, toAgent, fromAgent, alive, latch, stm,
                 instr, said, faults>>

(* The answer to a request: about what the request was about, under the    *)
(* instructions it was posted with.                                        *)
Reply(a, c, json) ==
  [Msg(a, PeerOf[a], "NoCommand", c.about)
     EXCEPT !.prompt = c.prompt, !.json = json]

Fault == faults < MaxFaults /\ faults' = faults + 1

(* The service answers: in JSON when it is a typed request, unless its     *)
(* model breaks the schema or its provider has no typed requests.  The     *)
(* answer is saved and sent without looking at the context again, so a     *)
(* cancelled request may still answer.                                     *)
Answer(a, k) ==
  /\ calls[a][k].phase = "posted"
  /\ LayerOf[a] # 0 => said[LayerOf[a]] < MaxSaid
  /\ \E json \in BOOLEAN :
       /\ \/ json = calls[a][k].typed /\ UNCHANGED faults
          \/ ~json /\ calls[a][k].typed /\ Fault
       /\ fromAgent' = [fromAgent EXCEPT ![a] = Append(@, Reply(a, calls[a][k], json))]
  /\ stm' = [stm EXCEPT ![a] = @ \cup calls[a][k].about]
  /\ said' = OneMore(said, a)
  /\ Quit(a, k)
  /\ UNCHANGED <<connected, queueVars, toAgent, alive, latch, instr>>

(* A cancelled request ends quietly: asleep with                           *)
(* ErrDispatchContextCancelled, posted either with that error or, for a    *)
(* typed request, with the context.Canceled it ignores.                    *)
GiveUp(a, k) ==
  /\ calls[a][k].cancelled /\ calls[a][k].phase \in {"asked", "posted"}
  /\ Quit(a, k)
  /\ UNCHANGED <<connected, queueVars, toAgent, fromAgent, alive, latch, stm,
                 instr, said, faults>>

(* A cancelled plain request can also come back from the service with      *)
(* context.Canceled, which main takes for a failure.                       *)
CancelKills(a, k) ==
  /\ calls[a][k].cancelled /\ calls[a][k].phase = "posted" /\ ~calls[a][k].typed
  /\ Die(a)
  /\ UNCHANGED <<connected, queueVars, fromAgent, latch, stm, instr, said, faults>>

(* The service refuses the request for good.                               *)
LlmFails(a, k) ==
  /\ calls[a][k].phase = "posted" /\ Fault
  /\ Die(a)
  /\ UNCHANGED <<connected, queueVars, fromAgent, latch, stm, instr, said>>

CallStep(a, k) ==
  \/ StartTyped(a, k)
  \/ SaveTyped(a, k)
  \/ Retrieve(a, k)
  \/ Post(a, k)
  \/ Answer(a, k)
  \/ GiveUp(a, k)
  \/ CancelKills(a, k)
  \/ LlmFails(a, k)

AgentStep(a) ==
  \/ AgentRoute(a)
  \/ \E k \in DOMAIN calls[a] : CallStep(a, k)
  \/ Join(a)
  \/ Listen(a)
  \/ Disconnect(a)

NetNext ==
  \/ \E a \in Agent : AgentStep(a)
  \/ RouterForward
  \/ RouterDispatch

-----------------------------------------------------------------------------
(***************************************************************************)
(* The commands the jobs send                                              *)
(***************************************************************************)

Order(a, cmd, about) == Msg(Server, a, cmd, about)

Cmd(cmd, about) == [cmd |-> cmd, about |-> about]

(* SendCommandBuilder: every command to the first client, then to the next.*)
SendCommands(as, commands) ==
  LET n == Len(commands)
  IN  [i \in 1 .. Len(as) * n |->
         LET c == commands[1 + ((i - 1) % n)]
         IN  Order(as[1 + ((i - 1) \div n)], c.cmd, c.about)]

(* A faulty variant: the instructions stay.                                *)
ResetMemoryOnly == <<Cmd("Latch", {}), Cmd("ClearMemory", {})>>

Reset == <<Cmd("Latch", {}), Cmd("ClearMemory", {}), Cmd("ResetInstructions", {})>>

-----------------------------------------------------------------------------
(***************************************************************************)
(* Where messages and requests are, for the properties: each channel and   *)
(* each agent's streams and requests are a box.                            *)
(***************************************************************************)

Boxes(channels, as) ==
  {<<n, Server>> : n \in channels}
  \cup UNION {{<<"toAgent", a>>, <<"fromAgent", a>>, <<"calls", a>>} : a \in as}

Hand(m) == IF m = NoMsg THEN <<>> ELSE <<m>>

(* What is in a box when the jobs goroutine has yet to send sending.       *)
Content(b, sending) ==
  CASE b[1] = "jobs"       -> sending
    [] b[1] = "toClients"  -> toClients
    [] b[1] = "routerHand" -> Hand(routerHand)
    [] b[1] = "toServer"   -> toServer
    [] b[1] = "toAgent"    -> toAgent[b[2]]
    [] b[1] = "fromAgent"  -> fromAgent[b[2]]
    [] b[1] = "calls"      -> calls[b[2]]

(* The places in boxes where there is a member of S.                       *)
Places(boxes, sending, S) ==
  UNION {{b} \X {i \in DOMAIN Content(b, sending) : Content(b, sending)[i] \in S} :
         b \in boxes}

NetTypeOK ==
  /\ connected \subseteq Agent
  /\ toClients \in Seq(Message)
  /\ routerHand \in Message \cup {NoMsg}
  /\ procedureChan \in Seq(Message)
  /\ toServer \in Seq(Message)
  /\ toAgent \in [Agent -> Seq(Message)]
  /\ fromAgent \in [Agent -> Seq(Message)]
  /\ alive \in [Agent -> BOOLEAN]
  /\ latch \in [Agent -> BOOLEAN]
  /\ stm \in [Agent -> SUBSET Layer]
  /\ instr \in [Agent -> SUBSET Layer]
  /\ calls \in [Agent -> Seq(Call)]
  /\ said \in [Layer -> Nat]
  /\ faults \in 0 .. MaxFaults
=============================================================================
