------------------------------ MODULE Iterate ------------------------------
(***************************************************************************)
(* One evolution of the language: the jobs goroutine of the server inside  *)
(* iterate, iterateUpdateDictionary and findUsedWordsAgent                 *)
(* (cmd/server/procedures.go, helpers.go), composed with the transport and *)
(* the agents.                                                             *)
(*                                                                         *)
(* iterate recurses from the last layer down and does its work on the way  *)
(* back, so layers 1 .. NLayers are visited in order.  For each of them:   *)
(*                                                                         *)
(*   "layer"     look up agent A                                           *)
(*   "clients"   list the layer's clients                                  *)
(*   "kickoff"   list them again; instruct and unlatch those of the first  *)
(*               list, kick one of the second off                          *)
(*   "exchange"  take Exchanges messages from procedureChan                *)
(*   "words"     (method "agent") after each of them, wait for agent C to  *)
(*               detect its words                                          *)
(*   "spec"      the layer reset, wait for agent A's new specification     *)
(*   "dict"      (DictionaryLayer) look up agent B                         *)
(*   "updates"   (DictionaryLayer) wait for B's dictionary updates         *)
(*                                                                         *)
(* Commands leave the goroutine one by one (swc), through outbox, and each *)
(* may find ToClients full.  A job that returns an error stops the server  *)
(* ("failed"); an index out of range crashes it ("crashed").               *)
(***************************************************************************)
EXTENDS Agents, SequencesExt

CONSTANTS
  SysA, SysB, SysC,  \* SYSTEM_AGENT_A, SYSTEM_AGENT_B, SYSTEM_AGENT_C
  Exchanges,         \* procedures.maxExchanges
  DictionaryLayer,   \* chat.DictionaryLayer
  Methods            \* the word extraction methods under study

ASSUME JobsAssumption ==
  /\ \A s \in {SysA, SysB, SysC} : s \in Agent /\ LayerOf[s] = 0
  /\ Cardinality({SysA, SysB, SysC}) = 3
  /\ Exchanges \in Nat \ {0}
  /\ DictionaryLayer \in Nat
  /\ Methods \subseteq {"regex", "agent"}

VARIABLES
  method,      \* procedures.dictionaryWordExtractionMethod
  pc,          \* where the jobs goroutine is
  layer,       \* the layer iterate is at
  clients,     \* iterate's snapshot of the layer's clients
  count,       \* exchanges taken
  outbox,      \* commands the goroutine is sending, in program order
  transcript,  \* transcript[l]: the layers whose messages were appended
  spec,        \* spec[l]: what l's new specification was written from
  dictUpdates  \* updates waiting in dictUpdatesChan (capacity 1)

jobVars == <<method, pc, layer, clients, count, outbox, transcript, spec, dictUpdates>>
vars == <<netVars, jobVars>>

NoSpec == [about |-> {}, prompt |-> {}]

Init ==
  /\ NetInit
  /\ method \in Methods
  /\ pc = "layer" /\ layer = 1 /\ count = 0
  /\ clients = <<>> /\ outbox = <<>>
  /\ transcript = [l \in Layer |-> {}]
  /\ spec = [l \in Layer |-> NoSpec]
  /\ dictUpdates = 0

Waiting(at) == pc = at /\ outbox = <<>>

(* A faulty variant: the agent is not unlatched.                           *)
InstructLatched == <<Cmd("AppendInstructions", {layer})>>

Instruct == <<Cmd("AppendInstructions", {layer}), Cmd("Unlatch", {})>>

(* A faulty variant: the agent is unlatched when it is already working.    *)
AskThenUnlatch(a, request, about) ==
  SendCommands(<<a>>, <<Cmd("Latch", {}), Cmd("AppendInstructions", {layer}),
                        Cmd(request, about), Cmd("Unlatch", {})>>)

(* Fresh instructions and a request for a system agent.                    *)
Ask(a, request, about) ==
  SendCommands(<<a>>, <<Cmd("Latch", {})>> \o Instruct \o <<Cmd(request, about)>>)

Stop(how) == /\ pc' = how
             /\ UNCHANGED <<layer, clients, count, outbox, transcript, spec, dictUpdates>>

(* swc: the next command enters ToClients.                                 *)
SendCommand ==
  /\ outbox # <<>> /\ Len(toClients) < Cap
  /\ toClients' = Append(toClients, Head(outbox))
  /\ outbox' = Tail(outbox)
  /\ UNCHANGED <<connected, routerHand, procedureChan, toServer, agentVars, said, faults,
                 method, pc, layer, clients, count, transcript, spec, dictUpdates>>

(* iterate up to the kickoff.  GetClientsByLayer returns the connected     *)
(* agents of the layer in any order, and is called twice, while agents     *)
(* come and go: the one that starts need not be the first of clients, nor  *)
(* among them.                                                             *)
LayerClients == {a \in connected : LayerOf[a] = layer}

FindSystemAgent ==
  /\ Waiting("layer")
  /\ pc' = IF SysA \in connected THEN "clients" ELSE "failed"
  /\ UNCHANGED <<netVars, method, layer, clients, count, outbox, transcript, spec,
                 dictUpdates>>

ListClients ==
  /\ Waiting("clients")
  /\ clients' \in SetToSeqs(LayerClients)
  /\ pc' = "kickoff"
  /\ UNCHANGED <<netVars, method, layer, count, outbox, transcript, spec, dictUpdates>>

(* A faulty variant: every client of the layer is kicked off.              *)
KickOffEveryone ==
  /\ Waiting("kickoff") /\ LayerClients # {}
  /\ outbox' = SendCommands(clients, Instruct) \o
               SendCommands(clients, <<Cmd("SendInitialMessage", {layer})>>)
  /\ pc' = "exchange" /\ count' = 0
  /\ UNCHANGED <<netVars, method, layer, clients, transcript, spec, dictUpdates>>

StartLayer ==
  /\ Waiting("kickoff")
  /\ \/ /\ LayerClients = {}
        /\ Stop("crashed")
     \/ /\ \E first \in LayerClients :
             outbox' = SendCommands(clients, Instruct) \o
                       <<Order(first, "SendInitialMessage", {layer})>>
        /\ pc' = "exchange" /\ count' = 0
        /\ UNCHANGED <<layer, clients, transcript, spec, dictUpdates>>
  /\ UNCHANGED <<netVars, method>>

(* What follows an exchange: the next one or, after the last, the reset of *)
(* the layer and the request to agent A.                                   *)
RequestSpec ==
  SendCommands(clients, Reset) \o
  SendCommands(<<SysA>>, Instruct \o <<Cmd("NoCommand", transcript'[layer])>>)

(* A faulty variant: the agents are instructed anew at each exchange.      *)
InstructEachExchange(before) ==
  /\ count' = count + 1
  /\ \/ /\ count' < Exchanges
        /\ pc' = "exchange" /\ outbox' = before \o SendCommands(clients, Instruct)
     \/ /\ count' = Exchanges
        /\ pc' = "spec" /\ outbox' = before \o RequestSpec

(* A faulty variant: one exchange too many.                                *)
OneExchangeMore(before) ==
  /\ count' = count + 1
  /\ \/ /\ count' <= Exchanges
        /\ pc' = "exchange" /\ outbox' = before
     \/ /\ count' = Exchanges + 1
        /\ pc' = "spec" /\ outbox' = before \o RequestSpec

AfterExchange(before) ==
  /\ count' = count + 1
  /\ \/ /\ count' < Exchanges
        /\ pc' = "exchange" /\ outbox' = before
     \/ /\ count' = Exchanges
        /\ pc' = "spec" /\ outbox' = before \o RequestSpec

TakeExchange ==
  /\ Waiting("exchange") /\ procedureChan # <<>>
  /\ procedureChan' = Tail(procedureChan)
  /\ transcript' = [transcript EXCEPT
       ![layer] = @ \cup {LayerOf[Head(procedureChan).from]}]
  /\ \/ /\ method = "regex"
        /\ AfterExchange(<<>>)
     \/ /\ method = "agent" /\ SysC \in connected
        /\ outbox' = Ask(SysC, "RequestDictionaryWordDetection",
                         {LayerOf[Head(procedureChan).from]})
        /\ pc' = "words" /\ UNCHANGED count
     \/ /\ method = "agent" /\ SysC \notin connected
        /\ pc' = "failed" /\ UNCHANGED <<outbox, count>>
  /\ UNCHANGED <<connected, toClients, routerHand, toServer, agentVars, said, faults,
                 method, layer, clients, spec, dictUpdates>>

(* An answer of a system agent, in whatever wait it is taken.              *)
TakesAnswer(at) ==
  /\ Waiting(at) /\ toServer # <<>>
  /\ toServer' = Tail(toServer)
  /\ UNCHANGED <<connected, toClients, routerHand, procedureChan, agentVars, said, faults,
                 method, clients, transcript>>

(* findUsedWordsAgent's wait: what is not JSON fails the job.              *)
TakeWords ==
  /\ TakesAnswer("words")
  /\ IF Head(toServer).json
     THEN AfterExchange(SendCommands(<<SysC>>, Reset))
     ELSE pc' = "failed" /\ UNCHANGED <<count, outbox>>
  /\ UNCHANGED <<layer, spec, dictUpdates>>

NextLayer ==
  \/ layer < NLayers /\ layer' = layer + 1 /\ pc' = "layer"
  \/ layer = NLayers /\ layer' = layer /\ pc' = "done"

TakeSpec ==
  /\ TakesAnswer("spec")
  /\ spec' = [spec EXCEPT ![layer] =
       [about |-> Head(toServer).about, prompt |-> Head(toServer).prompt]]
  /\ outbox' = SendCommands(<<SysA>>, Reset)
  /\ \/ layer = DictionaryLayer /\ pc' = "dict" /\ UNCHANGED layer
     \/ layer # DictionaryLayer /\ NextLayer
  /\ UNCHANGED <<count, dictUpdates>>

(* iterateUpdateDictionary up to its wait.                                 *)
StartUpdate ==
  /\ Waiting("dict")
  /\ \/ /\ SysB \notin connected
        /\ Stop("failed")
     \/ /\ SysB \in connected
        /\ outbox' = Ask(SysB, "RequestJsonDictionaryUpdate", transcript[layer])
        /\ pc' = "updates"
        /\ UNCHANGED <<layer, clients, count, transcript, spec, dictUpdates>>
  /\ UNCHANGED <<netVars, method>>

TakeUpdates ==
  /\ TakesAnswer("updates")
  /\ IF Head(toServer).json
     THEN /\ dictUpdates < 1 /\ dictUpdates' = dictUpdates + 1
          /\ outbox' = SendCommands(<<SysB>>, Reset)
          /\ NextLayer
     ELSE pc' = "failed" /\ UNCHANGED <<dictUpdates, outbox, layer>>
  /\ UNCHANGED <<count, spec>>

JobStep ==
  \/ SendCommand
  \/ FindSystemAgent
  \/ ListClients
  \/ StartLayer
  \/ TakeExchange
  \/ TakeWords
  \/ TakeSpec
  \/ StartUpdate
  \/ TakeUpdates

Stopped == pc \in {"failed", "crashed"}

Next ==
  /\ ~Stopped
  /\ \/ JobStep
     \/ NetNext /\ UNCHANGED jobVars

Spec == Init /\ [][Next]_vars

(***************************************************************************)
(* Fairness, one conjunct per goroutine: each is scheduled again while it  *)
(* can run and streams deliver.  Of an agent's requests, some one goes on: *)
(* the service answers a request it neither refused nor saw cancelled.     *)
(***************************************************************************)
Running(step) == ~Stopped /\ step /\ UNCHANGED jobVars

RequestStep(a) ==
  \E k \in DOMAIN calls[a] :
    \/ StartTyped(a, k) \/ SaveTyped(a, k) \/ Retrieve(a, k) \/ Post(a, k)
    \/ Answer(a, k) \/ GiveUp(a, k) \/ CancelKills(a, k)

Fairness ==
  /\ WF_vars(~Stopped /\ JobStep)
  /\ WF_vars(Running(RouterForward \/ RouterDispatch))
  /\ \A a \in Agent :
       /\ WF_vars(Running(Listen(a) \/ Disconnect(a)))
       /\ WF_vars(Running(AgentRoute(a)))
       /\ WF_vars(Running(RequestStep(a)))

FairSpec == Spec /\ Fairness

-----------------------------------------------------------------------------
(***************************************************************************)
(* Properties                                                              *)
(***************************************************************************)

\* Types of the transport, the agents and the jobs goroutine.
TypeOK ==
  /\ NetTypeOK
  /\ method \in Methods
  /\ pc \in {"layer", "clients", "kickoff", "exchange", "words", "spec", "dict", "updates",
             "done", "failed", "crashed"}
  /\ layer \in Layer
  /\ clients \in Seq(Agent)
  /\ count \in 0 .. Exchanges
  /\ outbox \in Seq(Message)
  /\ transcript \in [Layer -> SUBSET Layer]
  /\ spec \in [Layer -> [about : SUBSET Layer, prompt : SUBSET Layer]]
  /\ dictUpdates \in 0 .. 1

\* A layer's new specification is written by agent A from that layer's
\* transcript alone, under instructions about that layer alone: everything
\* A was told for earlier layers is gone by then (resetAgent after each
\* answer, procedures.go:232), through every queue in between.
SpecAnswersItsLayer ==
  \A l \in Layer :
    spec[l] # NoSpec => spec[l] = [about |-> transcript[l], prompt |-> {l}]

\* A kickoff finds its agent unlatched, or action refuses it (agent.go:258)
\* and the layer waits for a conversation nobody starts.  It is refused only
\* by an agent that was told nothing either, because it joined between the
\* two lookups of the layer's clients (procedures.go:69 and 83), and so never
\* when the server waited for all agents.
KickoffHeard ==
  \A a \in Agent :
    toAgent[a] # <<>> /\ Inbox(a).cmd = "SendInitialMessage" /\ latch[a]
      => MaxLate > 0 /\ instr[a] = {}

\* A layer's conversation is one message or one request going back and
\* forth: at no time do two of its agents speak or think at once, not even
\* after the layer was reset under it.
Speakers(l) == {a \in Agent : LayerOf[a] = l}
Talk(l) ==
  Places(Boxes({"toClients"}, Speakers(l)), outbox,
         {m \in Message : IsAgentMsg(m) /\ LayerOf[m.from] = l}
         \cup {c \in Call : ~c.typed})

OneConversation == \A l \in Layer : Cardinality(Talk(l)) <= 1

\* The jobs goroutine has at most one question open to the system agents,
\* and none when it is not waiting for one: no answer can be taken for the
\* answer to a later question (ToServer does not say what it answers).
System == {a \in Agent : LayerOf[a] = 0}
Asks ==
  {m \in Message : m.from = Server /\ m.cmd \in TypedRequest \cup {"NoCommand"}}
Replies == {m \in Message : m.from \in System}
Questions ==
  Places(Boxes({"jobs", "toClients", "routerHand"}, System), outbox,
         Asks \cup Replies \cup Call)
  \cup Places({<<"toServer", Server>>}, outbox, Message)

OneQuestion ==
  Cardinality(Questions) <= IF pc \in {"words", "spec", "updates"} THEN 1 ELSE 0

\* No message sent to a system agent cancels the request it is working on
\* (action cancels the previous context first): its answer would be lost and
\* the jobs goroutine, which has no timeout, would wait for ever.
NoAnswerLost ==
  \A a \in System : \A k \in DOMAIN calls[a] : ~calls[a][k].cancelled

\* While a layer's exchanges are being taken, nothing cancels the request of
\* one of its agents.
RoundsUndisturbed ==
  pc \in {"exchange", "words"} =>
    \A a \in Agent : LayerOf[a] = layer =>
      \A k \in DOMAIN calls[a] : ~calls[a][k].cancelled

\* When every agent is there from the start, the evolution of all layers
\* ends, unless the service refuses a request or answers it badly: no
\* goroutine is left waiting on another one.
Completes == connected = Agent => <>(pc = "done" \/ faults > 0)
=============================================================================
