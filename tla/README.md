# A TLA+ model of jasima

jasima lets language models develop a constructed language. A server (`cmd/server`)
drives thirteen agents (`cmd/agent`), each a process of its own with an LLM behind it:
two agents for each of the four language layers, which talk to each other, and five
system agents, which only answer the server. The server instructs the agents of a layer,
starts their conversation, takes a number of their messages, has a system agent write the
layer's new specification from them, resets everybody and goes on with the next layer.

This directory models the parts of that machinery where the order of events matters, and
says what has been checked and proved about them. File and line references are to `src/`.

## Inventory

| Part | State | Operations | What makes it hard |
|---|---|---|---|
| Circular queues, `pkg/utils/queue.go` | data, head, tail, size | Enqueue, Dequeue, ToSlice | wrap-around, full and empty, the copy in ToSlice |
| Registry of clients, `pkg/network/grpc.go` | two maps, a counter, a mutex | join, leave, lookup by name, by layer, total | writes in several steps, lookups without the mutex, reconnects |
| Transport and Router, `grpc.go`, `cmd/server/server.go` | `ToClients`, `ToServer`, `procedureChan`, a stream per agent | listen, forward, dispatch | bounded channels in a ring, one Router for commands and chat |
| Agent, `cmd/agent` | latch, short-term memory, instructions, requests in progress | one action per command, a goroutine per LLM request, death on error | cancellation by the next message, answers that cannot be cancelled any more |
| Evolution, `cmd/server/procedures.go` | layer, transcript, specifications, position in `iterate` | instruct, kick off, exchange, detect words, ask for the specification, update the dictionary, reset | waits without timeout for messages that carry no request identifier |
| Logograms, `procedures.go:334-531` | two Stop flags, exchange count | generator and adversary alternate | late answers, direct sends on the shared channel |
| Jobs, `server.go:342-367, 388-490` | queue of queues, the generation being built, `dictUpdatesChan` | Run, ProcessJobs, one procedure per step | capacity, aliasing of one queue and of one generation |
| Life cycle, `cmd/server/main.go` | contexts, `errs`, wait group | start, fail, stop | unbuffered errors, closed channels |
| Web events, `pkg/network/web.go` | SSE clients, recent items | Broadcast, register, replay, serve | slow readers, close after delete, unlocked queues |
| LLM services, `pkg/llms` | instructions, retry state | request, retry | retry bound, which error a cancellation becomes |
| Memory, `pkg/memory` | messages | Save, Retrieve, Clear | partial locking |

How they interact: an agent's message travels *agent -> stream -> listen -> ToClients ->
Router*. The Router forwards it to its receiver and then hands it to the jobs goroutine,
on `procedureChan` when a layer's agent sent it and on `ToServer` when a system agent did.
The commands of the jobs goroutine enter the same `ToClients`, so a command and a chat
message to one agent keep their order. Inside an agent one goroutine takes one message
at a time and starts a goroutine for every LLM request; taking a message cancels the
context of the one before it.

What makes each part correct: the queues are bounded FIFOs; the registry is a set of
clients; no answer is lost, taken twice or taken for another question's; a layer's
specification is made from that layer alone; a kickoff is heard; an evolution ends.
`PROJECT.json` lists the hazards by line with the properties that watch them.

## Modules

`RingQueue` is one queue under the calls the server makes on it (`use` says which of the
server's queues it is: `recent`, `generations`, `jobs`; `interface` would be a caller of every
call the type offers, which the server has none of, and which breaks it: see the findings). `data`, `head`, `tail`, `size` are the fields of `queue`; `reply` is
what a call returned, with `panic` for an index out of range. `BoundedFifo` is the
abstract queue: a sequence with the two policies for a full queue.

`Clientele` is the registry. A connection's `phase` is the position of its Chat handler;
every write to a map or to the counter is a step of its own, between the step that takes
the mutex and the one that releases it. `GetByLayer` needs the mutex free; a lookup by
name is a start and an end with no mutex, so that any write may fall in between, and
`fatal` is the runtime's stop over a concurrent map read and write. `Registry` is the
abstract set of clients.

`Agents` is the transport and the agents (one action per command of `client.action`, one
action per step of a request's goroutine: a typed one starts, saves what it is asked,
retrieves the memory, posts, answers, and the agent's router may take any command between
two of these; a plain one starts with the retrieval). A text is abstracted to the set of topics it
is about, layers or words. This is enough to see whose messages an answer was made from
and under which instructions, which is what can go wrong when resets, instructions and
answers race. The commands both kinds of jobs send (`Order`, `SendCommands`, `Reset`) are
here too.

`Iterate` composes `Agents` with the jobs goroutine inside `iterate`,
`iterateUpdateDictionary` and `findUsedWordsAgent`. `pc` names the wait it is in; commands
it has decided to send are in `outbox` and enter `ToClients` one at a time, each blocking
while the channel is full. What `iterate` does before a kickoff is three steps, since it looks
agents up three times (procedures.go:59, 69 and 83) while others join and leave. The recursion over layers does its work on the way back, so
the model visits layer 1 to `NLayers` in a loop.

`Logogram` composes `Agents` with the jobs goroutine inside `iterateLogograms` and
`iterateLogogram`: topics are words, and all agents are system agents (generator D,
adversary E, extractor C). `ok` holds the two Stop flags, `held` is `msg`, `exchanges` is
`i`. Every answer comes back through `ToServer` and is forwarded as a request to the other
agent, so a *turn* is a kickoff, a request, work on one, or an answer, wherever it is.

`Jobs` is the jobs goroutine as a whole (`Run` and `ProcessJobs`). A job is what it may do
to the shared `Generation` (`ng`), to `dictUpdatesChan` and to the queue of generations,
and how it may end, also when the context is cancelled or a channel was closed under it.
A generation is three facts: what it was evolved from, whether all its layers were, and
whose dictionary updates it has. `Iterate` and `Logogram` look inside the two long jobs.

`Server` extends `Jobs` by everything that starts and stops around it: main's `select`,
the context, `errs` with all who write to it (`reporting`), the wait group, both servers'
`ListenAndServe` and `Shutdown`, the Router, and the listen loops, which the gRPC library
owns and nobody waits for. `cut` and `torn` are the two places where channels are closed;
`death` is a panic that ends the process.

`Broadcaster` is one web feed: its items are made, recorded in the queue of recent items
and broadcast, in the order the feed's makers do it (`Kinds`, `AnnouncedAt`), while the
handlers of pages register, slice the queue, replay, serve and leave. The mutex is
`casting`: only a Broadcast holds it over more than one step. `Slices` says what
an unlocked `ToSlice` beside an `Enqueue` may return.

`Requests` is one LLM request: the rate-limiting sleep, the loop of attempts of Gemini and
of the OpenAI client (or Ollama's single attempt), and what `typedRequest`, `DispatchToLLM`
and the agent's main make of the error. `Call` is the abstract request, the one `Agents`
has in `Post`, `Answer`, `GiveUp`, `CancelKills` and `LlmFails`, which starts where `Retrieve`
has found something to ask; the error of an empty memory is in `Agents`. What an answer says,
and whether it is JSON, is not part of it.

How they fit together: `Logogram` and `Iterate` are two users of `Agents`; `Requests`
implements what `Agents` assumes of a request; `Jobs` takes from `Iterate` and `Logogram`
that a job ends and what it leaves in `dictUpdatesChan`; `RingQueue` gives `Broadcaster`
and `Jobs` their queues.

Abstractions that matter: the stream down to an agent and the agent's inbound channel are
one sequence (`toAgent`, at most `MaxInbox`), the responses channel and the stream up are
another (`fromAgent`). In `Iterate` and `Logogram` the contexts of the server are never
cancelled; `Jobs` has what a cancelled context makes of each job. Saving messages in
the server's own memory has no reader in the chat. `saveMessage` and the retrieval of the
whole memory in an agent are kept because they decide what an answer is about. In `Agents`
an LLM's retry is one step: it answers or fails for good; `Requests` justifies that. The answer
to a typed request may be something else than JSON, from a model that breaks its schema or a
provider without typed requests (agent.go:382-390); like a failure it counts as a fault.

## Runs

| Run | Instance | Question |
|---|---|---|
| `ring` | 3 slots, 3 items, one item per call | Is every queue of the server a bounded FIFO, without a panic? Three slots wrap in every position, full, empty and partly filled. |
| `clientele` | 3 connections in 2 layers, 2 readers | Do the maps and the counter act as one set? |
| `clientele_reconnect` (violated) | an agent's second connection before the first has ended | Is a connected agent found? No: the old handler removes it. |
| `clientele_race` (violated) | 3 connections, 1 reader | Is the map never read while it is written? It is. |
| `iterate` | 2 layers of 2 agents, 3 system agents, 2 exchanges per layer, channels of 3, dictionary in layer 2, words by regex | Does anything of one layer reach the next? |
| `round` | 1 layer, 1 exchange, 2 messages said (the conversation outlives its round), channels of 1, words by agent, up to 2 late agents, 1 request that fails or is answered with something else than JSON | Is every question answered by its own answer, which kickoffs are refused, and does the evolution end? |
| `logogram` | 2 words, cap of 1 exchange, channels of 1, both extraction methods, up to 1 late agent, 1 request that fails or is answered with something else than JSON | Is there always a turn in the dialogue, exactly one in the first word, and how can it end? |
| `server` | 2 generations, `jobsChan` of 4, 1 failure anywhere, a signal at any time, `ToClients` of 1 | What is kept as a generation, which panics are possible, does the process end? |
| `server_basis` (violated) | the same | Is each generation evolved from the one before? No: always from the initial one. |
| `web` | 2 pages (one with replay, one without), a channel of 1, a queue of 1, 2 items, the chat's feed and one of the jobs goroutine | Does a page get every item, is nobody held up, is no closed channel sent on? |
| `web_replay` (violated) | a queue of 2 and a channel of 1 | Is a page that stays served? Not if there are more recent items than the channel holds. |
| `requests` | the bound of 3 attempts, all three services, typed and plain | Is a request what the agents' model assumes, and does it end once cancelled? |

What the properties mean is said above each of them. The deeper ones:

- `SpecAnswersItsLayer`: agent A writes the specification of a layer from exactly that
  layer's transcript and under exactly that layer's instructions. Four queues lie between
  the reset after one answer and the next request.
- `OneConversation`, `RoundsUndisturbed`: a layer's talk is one token going back and
  forth, also across the layer's reset, and nobody cancels it while it is being listened to.
- `OneQuestion`, `NoAnswerLost`: `ToServer` carries no request identifier, so correctness
  rests on there being one open question at a time and on nobody cancelling it.
- `KickoffHeard`: no kickoff finds its agent latched, but for one: an agent that joins
  between `iterate`'s two lookups of the layer's clients may be kicked off without having
  been instructed or unlatched (a finding). The run `iterate` waits for all agents and has
  no exception, the run `round` has late agents and meets it.
- `Completes` (`Iterate`): from a start with all agents there, the evolution ends unless
  an LLM request fails for good or is answered badly. With late agents it need not: a layer
  may be empty, or its kickoff refused.
- `TurnNeverLost`, `OneTurnAtFirst`, `Completes` (`Logogram`): the dialogue is one turn
  going round. The word after it may meet a second one, because the last message of a word
  is forwarded although nobody waits for its answer. Two things can come of that, both
  findings and both excepted. With agent C it can end in a message that is nil. And the
  orders behind that message, the reset or the next word's fresh slate, may clear the
  agent's memory between its `Save` and its `Retrieve`: the request is then empty, which is not
  the cancellation that `typedRequest` ignores, and the agent dies. `TurnNeverLost` therefore has it as
  a premise that both agents live, and `Completes` the death of an agent as an end, after the
  first word; in the first word neither can happen without a fault, which is `OneTurnAtFirst`.
- `GenerationsFit`, `UpdatesInStep`, `WholeOnly`: one queue is sent once per generation and
  drained at its first receipt, the updates travel beside the generation, and a cancelled
  evolution returns without an error; still every generation kept is whole and has its
  own updates. It is the look at the context before each job, and the logogram job's waits
  on the closed `ToServer`, that keep a cut evolution out.
- `OnlyStoppingPanics`, `Exits`: the server closes channels others may still send on, so a
  panic is possible, but only once it is being stopped; and it always ends, except when
  the web server itself failed (a finding).
- `NoGap`: registering before slicing and recording before announcing leave no item
  between replay and live feed; the chat's Router does it the other way round, and the
  page may miss one message.
- `ImplementsCall`, `CancelledEnds`: wherever a request is cancelled, what comes out is one
  of the four ends `Agents` has.

Bounds. `Cap` is 100 in the code; 1 to 3 make senders block, which is the interesting
case. `MaxInbox` 1 makes the Router wait for an agent. `MaxSaid` bounds a layer's talk: at
`Exchanges` it stops with the round, above it the talk goes on during the reset and the
questions to the system agents (`round`). Two layers with an overrun were beyond TLC here;
what is left in `procedureChan` for the next layer is therefore a listed hazard and not a
checked property. `MaxFaults` and `MaxLate` bound failures and absent agents. In
`Logogram` the cap on exchanges is the code's own (`i <= MaxExchanges`) and 1 gives every
order of Stop flags and cap; the second word is the first that can meet left-over
messages, and a third meets the same. In `Server` two generations are the least that show
what one leaves to the next; `JobsCap` 4 is the number of queues sent, the least with which
`Evolves` holds, as 100 is for up to 98 generations. In `Broadcaster` channels and queues of
one item overflow at the second; `MaxItem` 2 lets an item be made before and after each
step of a handler. `iterate` uses the interchange of a layer's two agents as symmetry; runs with temporal properties
use none. Runs say `CHECK_DEADLOCK FALSE` where the system really stops: after the last
layer or word, after a failed job, a fatal error or main's return, when all items are made,
when the request has ended.

Fairness. `Iterate!Fairness` has one weak-fairness conjunct per goroutine: the jobs, the
Router, and for each agent its Chat handler on the server, its router, and its requests.
Each of them is a loop that runs whenever it is not blocked. Fairness of the requests is the assumption
that the service answers; `LlmFails` and the arrival of late agents are not fair. In
`Clientele` the steps that take the mutex are strongly fair, because a Go mutex hands
itself over to a starving waiter; the others are weakly fair; nobody is made to connect
or to leave.
`Logogram!Fairness` asks for less: while anybody can move, somebody does. No message there
is answered without end, so that is enough; in `Iterate` a layer's talk would go on for ever but
for `MaxSaid`, and every goroutine needs fairness of its own. In `Server` main, the signal's goroutine, the servers, the
Router and the jobs goroutine are weakly fair; a failure, a signal and an incoming message are
not. The Router may be held up in a send for as long as the server runs, so its
`RouterRoutes` is fair only once the context is cancelled and the streams are stopped. In
`Broadcaster` the makers and handlers are weakly fair and pages come and go freely. In
`Requests` timers go off and calls to a service return, with whatever result.

## Proofs

TLC shows a property for the instances above, TLAPS for all values of the constants.

`RingQueueProofs` proves `RingTyped` (types, for any `BulkSize`), `RingConsistent`
(`RingInv`, when calls carry one item), `RingImplementsFifo` and `RingSliceNeverPanics`
(when moreover the queue is one of the server's). `RingInv` together with the types is
inductive: tail is `size` slots after head, the slots in between hold items, all others
are zero, and a queue that is only sliced leaves head 0 only when it is full. The last
conjunct is what keeps `ToSlice` inside its copy. Lemmas about `At(h, k)`, the slot k places behind
head, keep the modulo arithmetic in one place: `Push` and `Pop` say what one item in and
one item out do to a ring, and all operations are built from those two. A dynamic queue that is full pops
and pushes in one call.

`ClienteleProofs` proves `ClienteleTyped`, `RegistryConsistent`, `RegistryIsExact`,
`TotalIsNearlyRight` and `ClienteleImplementsRegistry` for any finite set of connections
and any readers, under `UniqueNames` (every agent runs under a name of its own; without
it `clientele_reconnect` is a counterexample). `RegistryExact` is not inductive, because it speaks of
free mutexes only; `RegistryInv` says for every phase which of the three structures
already contain a client, and that the handler inside the critical section is the holder
of the mutex. That the counter never becomes negative needs the cardinality part of it.
`TotalNearlyRight` bounds what an unlocked reader sees and no more: while a client is leaving the
count is one too high, and `WaitForClients` may start the evolution on it, an agent short.
Refinement maps `members` to the clients found under their own names, so a client joins
at its write to `byNameMap` and leaves at its deletion from it; a lookup by layer has the
mutex and sees the two maps agree, a lookup by name needs only `byNameMap`.

`AgentsProofs` holds what the two users of `Agents` share, for any finite set of agents
and any capacities. It states no theorem about a specification, since `Agents` has none
of its own, but a lemma per step of the transport for each of the following:

- *Types*, and `RoutedInv`: what the Router holds comes from an agent, and nothing but the
  layers' talk has passed it to `procedureChan`. Types alone are not inductive, because a
  transcript collects the layer of whoever sent the message and a system agent's layer, 0,
  is none. The lemma about `SendCommands` needs a fact about division and remainder
  (`DivMod`), because the orders for several clients are laid out in one sequence.
- *Authors* (`Signed`): everything on its way is an order of the jobs or speech
  from an agent to its peer. Without it a step of the Router
  could make of a message of one kind a token of another.
- *Tokens*. All the queues and requests a token can be in are boxes, functions from
  names to sequences. `Single` says that the boxes hold one token together, `Void` that
  they hold none; no step of the transport makes two of one or one of none (`Kept`).
- *Quiet*: behind a token comes no other message for its receiver, in the inbox, in
  `ToClients` or in `outbox`, and none while its request is worked on. This is what
  keeps `action` from cancelling a request that somebody is waiting for.
- *Awake*: on the way to an agent, through all three queues, no latch comes before a kickoff,
  and an unlatch does if the agent is latched. `InOrder` and `LedBy` are these orders over
  a sequence that is split in three.
- *Nowhere*, *Unsaid*, *Sorted*: a set of orders is not on the way at all, no agent says
  anything of a set, and of two kinds of orders the first come first.
- *Flags*: what a flag of an agent (its latch, or that it works on a request) will be once
  it has obeyed everything on the way to it (`Settled`), and that it is up whenever it is
  given an order of some kind (`Ready`). Both fold the three queues from the front
  (`After`, `Met`), so a message that moves from one to the next changes nothing.

These lemmas use one assumption of `Agents`, `NoMsgAssumption`: nil is no message.

`IterateProofs` proves, for any finite set of agents, any number of layers and
exchanges and any capacities, `IterateTyped`, `OnlyTalkIsExchanged` and all the invariants
that the runs of `Iterate` check:

- `EveryAnswerIsDue` (`OneQuestion`). `QuestionsInv`: the boxes of the system agents hold
  one question or answer when `pc` is a wait for one, and none otherwise. The step that
  asks is taken outside the wait, so it finds none and leaves one (`Void`, then `Single`).
- `NobodyInterrupts` (`OneConversation`). `TalkInv`: the boxes of a layer's agents are
  `Single`, and `Void` for layers not yet visited, which makes the one kickoff safe.
- `AnswersSurvive` (`NoAnswerLost`) and `RoundsGoOn` (`RoundsUndisturbed`), by `QuietInv` and
  `RoundsInv`. The second holds only while exchanges and words are being taken: when the
  layer is reset the talk may still be going on, and is then cancelled.
- `KickoffsAreHeard` (`KickoffHeard`), by `WakeInv`: every agent is `Awake`, and nothing on the way
  latches an agent before the turn of its layer. With late agents a speaker may instead be
  one that was told nothing and never will be (`Untold`); without them nobody can join between the two
  lookups, so whoever the second one finds was in the first (`NoneMissed`), and there is no exception.
- `SpecsAreAnswers` (`SpecAnswersItsLayer`), by `BriefInv`. While `iterate` waits for a
  specification, whatever question is on its way to agent A is about the current
  transcript, no answer under way is about anything else, and A's memory and instructions
  will, once the orders in the three queues in front of the question have been
  obeyed, be those of this layer (`Prepared`). Outside that wait there is no question
  (`QuestionsInv`), and what resetAgent queued last empties A (`Idle`).

`OneConversation` rests on `PeerAssumption`: the peer of a layer's agent is in the same
layer. The code does not enforce that; it is how the agents are started (`Taskfile.yml:20-42`).
With a peer elsewhere a message would become a second turn in another layer's talk.

The attempts found two places where the model was wrong, though not in what it reached in
the runs: arms of a `CASE` overlapped in `Logogram!TakeExchange` and
`Broadcaster!AnnouncedAt`, where TLA+ then leaves the value open. They are disjoint now.

`LogogramProofs` proves all the invariants that the run of `Logogram` checks, for any finite
set of agents, any number of words and exchanges and any capacities, with any number of requests
that fail or are answered badly. All rest on `DevelopmentInv`:

- `LogogramTyped` (`TypeOK`). The bound on `exchanges` is not inductive by itself,
  because the loop that tests it is left for a wait (`words`, `forward`) before the counter
  moves; `Counted` says that there the cap has not been passed.
- `DialogueSingle` (`OneTurnAtFirst`), by `TokensInv`: while the first word is developed the
  boxes of the two agents are `Single`, and `Void` while the jobs goroutine has the turn in hand
  (`held`), so that what it forwards is again the only one. The extractor's boxes are `Single`
  as well, and empty outside the two waits for it, which is why what comes to `ToServer`
  then is the extractor's answer and what comes to `exchange` is not, and why nothing nil is
  forwarded.
- `DialogueAlive` (`TurnNeverLost`). From the second word on there may be several turns, and
  some of them are cancelled by the orders behind them, so no count is inductive.
  `GoesOnInv` says that one of them survives: either an answer of one of the two is on its
  way up, or one of them will have a request that nothing cancels when it has obeyed all
  that is on its way down (`Settled`). It needs `HearInv` (the generator, if it lives, is unlatched when it
  takes its kickoff, whatever was left behind) and `AliveInv` (an agent that lives is
  connected while orders are sent to it, and all requests of the two are typed, so a
  cancelled context alone never kills them). That both live cannot be proved, since a reset
  can kill one of them as described above; it is the theorem's premise.
- `MemoryInv` carries the part of it that does hold, and `DialogueSingle` uses it: in the first
  word, and without a fault, both agents live. The orders that clear a memory come to each of
  them before anything it is asked about the word (`Sorted`), so a request that was
  saved is still remembered when it is retrieved (`Asks`), and everything that is passed on is
  about something (`Topical`).

`BroadcasterProofs` proves `FeedTyped` and `FeedNeverSendsOnClosed` for any pages and any
capacities. `NeverSendsOnClosed` alone is not inductive; `Held` adds that the clients a
Broadcast has yet to look at are still registered, that it has an item to announce, and that
a registered client's handler has not yet taken it out. A handler deletes its client only
while no Broadcast holds the mutex, which is the step the proof turns on.
`NothingFallsBetween` (`NoGap`) needs three more facts, `GapInv`: items are numbered in the
order they are made (`Numbered`); the queue holds the last recorded ones (`Recents`); and
for a page that is in the registry, every item recorded after it registered is
announced to it, is still to be announced, or is in what it sliced (`Reached`, `Told`).
In the chat's feed one item may be announced and not yet recorded, and only one,
because the Router has one message in hand (`OneLost`).

`ServerProofs` proves `ServerTyped`, `ServerGenerationsFit`, `ServerUpdatesInStep`,
`ServerWholeOnly` and `ServerOnlyStoppingPanics` for any number of generations and any
capacities. The inductive invariant has five parts: the types of what surrounds the jobs
goroutine and of the goroutine itself; `Queued` (batches left, evolutions started and the
one about to start are never more than the generations configured); `Closing` (the
context is cancelled and channels are closed only after a signal or an error main took,
the jobs' channels only when main tears the server down); and `Owed`: the
generations kept are as many as the evolutions before the one under way, the updates of
that one are in `dictUpdatesChan` or in `ng`, and if the jobs goroutine is on its way to
keep an unfinished `ng`, the context is cancelled or a channel closed, so that it will not
get there. Steps of the rest leave the goroutine's variables alone (`SideKeepsJobs`) and the other way
round (`JobsBeside`), which halves the case analysis.

`RequestsProofs` proves `RequestTyped`, `OverloadIsSurvived` and `RequestsImplementCall`, for
any bound on attempts. Its invariant ties the error in hand to where the request is: the
loop ends with an overloaded service only by way of another attempt, and an error of the
context only exists once the request was cancelled.

Only model-checked: the liveness properties (`Completes`, `GoneIsForgotten`, `BroadcastEnds`, `ClosedIsForgotten`, `Exits`,
`Evolves`, `CancelledEnds`), which are out of the prover's reach.

## Plan

Done, in this order: queues, transport and agents, one evolution of the specifications,
registry, web feeds, logograms, jobs and life cycle, LLM requests. To come:

1. An abstract `Evolution` (layers done in order, each from its own transcript) that
   `Iterate` implements, and the left-over exchanges of one layer in the next.
2. `MemoryStore`: `Save` and `Retrieve` under the lock beside a `Clear` without it.

## Not modelled

Messages left over in `procedureChan` between layers and a full `procedureChan` (they need
a conversation longer than TLC can follow beside the rest); the memory store's unlocked
`Clear`; an agent's start-up and teardown; the debug goroutine that replays test data; the
race between `serve` marshalling a generation and the jobs goroutine writing its logography
(a data race inside one value, recorded as a finding).

The SQL store (unused), the generated gRPC code, the front end, configuration, logging,
export of JSON, the wording of prompts, and each vendor's request format.
They keep no protocol state, or are not part of this repository's logic.
