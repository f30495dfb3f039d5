------------------------------ MODULE Logogram ------------------------------
(***************************************************************************)
(* The development of logograms at the end of an evolution: the jobs       *)
(* goroutine inside iterateLogograms and iterateLogogram                   *)
(* (cmd/server/procedures.go), composed with the transport and the agents. *)
(* Topics are words here, and all the agents are system agents.            *)
(*                                                                         *)
(*   "find"      which words of the dictionary the transcript uses         *)
(*   "found"     (method "agent") wait for the extractor's answer          *)
(*   "choose"    take the first words of that answer                       *)
(*   "word"      instruct generator and adversary, kick the generator off  *)
(*   "exchange"  take one of their messages from ToServer                  *)
(*   "words"     (method "agent") wait for the words that message uses     *)
(*   "forward"   send what it says to the other of the two                 *)
(*                                                                         *)
(* The generator's kickoff and every answer come back through ToServer, to *)
(* the jobs goroutine, which forwards it as a request to the other agent:  *)
(* there should be one turn under way at a time.                           *)
(***************************************************************************)
EXTENDS Agents, SequencesExt

CONSTANTS
  Generator,     \* SYSTEM_AGENT_D
  Adversary,     \* SYSTEM_AGENT_E
  Extractor,     \* SYSTEM_AGENT_C
  MaxExchanges,  \* DefaultMaxExchanges
  Methods        \* the word extraction methods under study

ASSUME PairAssumption ==
  /\ \A s \in {Generator, Adversary, Extractor} : s \in Agent /\ LayerOf[s] = 0
  /\ Cardinality({Generator, Adversary, Extractor}) = 3
  /\ MaxExchanges \in Nat
  /\ Methods \subseteq {"regex", "agent"}

VARIABLES
  method,      \* procedures.dictionaryWordExtractionMethod
  pc,          \* where the jobs goroutine is
  word,        \* the word whose logogram is being developed
  ok,          \* generatorOk, adversaryOk: those whose last message said Stop
  held,        \* msg, what is about to be forwarded; NoMsg is nil
  exchanges,   \* i
  current,     \* the words currentSvg was drawn for
  outbox,      \* commands the goroutine is sending, in program order
  logography   \* logography[w]: the words w's logogram was drawn for

jobVars == <<method, pc, word, ok, held, exchanges, current, outbox, logography>>
vars == <<netVars, jobVars>>

\* res.Words[:3] of one evolution; they are numbered as they are taken.
Word == Layer
Pair == <<Generator, Adversary>>
Other(a) == IF a = Generator THEN Adversary ELSE Generator

Init ==
  /\ NetInit
  /\ method \in Methods
  /\ pc = "find" /\ word = 1
  /\ ok = {} /\ held = NoMsg /\ exchanges = 0 /\ current = {}
  /\ outbox = <<>>
  /\ logography = [w \in Word |-> {}]

Waiting(at) == pc = at /\ outbox = <<>>

Stop(how) == /\ pc' = how
             /\ UNCHANGED <<word, ok, held, exchanges, current, outbox, logography>>

(* swc, or the direct send of line 515: the next message enters ToClients. *)
SendCommand ==
  /\ outbox # <<>> /\ Len(toClients) < Cap
  /\ toClients' = Append(toClients, Head(outbox))
  /\ outbox' = Tail(outbox)
  /\ UNCHANGED <<connected, routerHand, procedureChan, toServer, agentVars, said, faults,
                 method, pc, word, ok, held, exchanges, current, logography>>

-----------------------------------------------------------------------------
(* findUsedWords, on the transcript or on one message.                     *)

DetectWords(about) ==
  SendCommands(<<Extractor>>,
    <<Cmd("Latch", {}), Cmd("AppendInstructions", {}), Cmd("Unlatch", {}),
      Cmd("RequestDictionaryWordDetection", about)>>)

(* From here to next, by way of the extractor when the method asks for it. *)
FindUsedWords(about, wait, next) ==
  \/ method = "regex" /\ pc' = next /\ UNCHANGED outbox
  \/ /\ method = "agent" /\ Extractor \in connected
     /\ outbox' = DetectWords(about) /\ pc' = wait
  \/ /\ method = "agent" /\ Extractor \notin connected
     /\ pc' = "failed" /\ UNCHANGED outbox

TakesAnswer(at) ==
  /\ Waiting(at) /\ toServer # <<>>
  /\ toServer' = Tail(toServer)
  /\ UNCHANGED <<connected, toClients, routerHand, procedureChan, agentVars, said, faults,
                 method, logography>>

(* Whatever comes next on ToServer is taken for the extractor's answer.    *)
TakeWords(at, next) ==
  /\ TakesAnswer(at)
  /\ IF Head(toServer).json
     THEN pc' = next /\ outbox' = SendCommands(<<Extractor>>, Reset)
     ELSE pc' = "failed" /\ UNCHANGED outbox
  /\ UNCHANGED <<word, ok, held, exchanges, current>>

FindWords ==
  /\ Waiting("find")
  /\ FindUsedWords(Word, "found", "choose")
  /\ UNCHANGED <<netVars, method, word, ok, held, exchanges, current, logography>>

(* res.Words[:3] is out of range when fewer words were found.              *)
ChooseWords ==
  /\ Waiting("choose")
  /\ Stop("word") \/ Stop("short")
  /\ UNCHANGED <<netVars, method>>

-----------------------------------------------------------------------------
(* iterateLogogram.                                                        *)

NextWord ==
  \/ word < NLayers /\ word' = word + 1 /\ pc' = "word"
  \/ word = NLayers /\ word' = word /\ pc' = "done"

\* A kickoff's text is a ResponseLogogramIteration, as the answers are.
Kickoff == [Order(Generator, "SendInitialMessage", {word}) EXCEPT !.json = TRUE]

(* A faulty variant: the kickoff overtakes the generator's Unlatch.        *)
PrepareLatched ==
  SendCommands(Pair, <<Cmd("Latch", {}), Cmd("ClearMemory", {})>>)
  \o SendCommands(Pair, <<Cmd("SetInstructions", {word})>>)
  \o <<Kickoff>> \o SendCommands(Pair, <<Cmd("Unlatch", {})>>)

(* A faulty variant: both agents are kicked off.                           *)
PrepareBoth ==
  SendCommands(Pair, <<Cmd("Latch", {}), Cmd("ClearMemory", {})>>)
  \o SendCommands(Pair, <<Cmd("SetInstructions", {word}), Cmd("Unlatch", {})>>)
  \o <<Kickoff, [Kickoff EXCEPT !.to = Adversary]>>

Prepare ==
  SendCommands(Pair, <<Cmd("Latch", {}), Cmd("ClearMemory", {})>>)
  \o SendCommands(Pair, <<Cmd("SetInstructions", {word})>>)
  \o SendCommands(Pair, <<Cmd("Unlatch", {})>>) \o <<Kickoff>>

StartWord ==
  /\ Waiting("word")
  /\ \/ /\ {Generator, Adversary} \subseteq connected
        /\ outbox' = Prepare
        /\ ok' = {} /\ exchanges' = 0 /\ current' = {}
        /\ pc' = "exchange"
        /\ UNCHANGED <<word, held, logography>>
     \/ /\ ~({Generator, Adversary} \subseteq connected)
        /\ Stop("failed")
  /\ UNCHANGED <<netVars, method>>

\* iterateLogograms skips an empty word.
SkipWord ==
  /\ Waiting("word")
  /\ NextWord
  /\ UNCHANGED <<netVars, method, ok, held, exchanges, current, outbox, logography>>

(* A faulty variant: two exchanges beyond the cap.                         *)
DevelopingLonger == ok # {Generator, Adversary} /\ exchanges <= MaxExchanges + 1

Developing == ok # {Generator, Adversary} /\ exchanges <= MaxExchanges

\* The request that hands m's content to the other agent; nil for a message
\* of anyone else.
Handover(m) ==
  CASE m.from = Generator -> Order(Adversary, "RequestLogogramCritique", m.about)
    [] m.from = Adversary -> Order(Generator, "RequestLogogramIteration", m.about)
    [] OTHER -> NoMsg

\* An answer of one of the two that does not unmarshal fails the job.
TakeExchange ==
  /\ Developing
  /\ TakesAnswer("exchange")
  /\ LET m == Head(toServer) IN
       \/ /\ m.from \in {Generator, Adversary} /\ ~m.json
          /\ pc' = "failed"
          /\ UNCHANGED <<held, ok, current, outbox>>
       \/ /\ m.from \in {Generator, Adversary} => m.json
          /\ held' = Handover(m)
          /\ \E stop \in BOOLEAN :
               /\ m.prompt = {} => ~stop   \* the kickoff's own text
               /\ ok' = IF m.from \notin {Generator, Adversary} THEN ok
                        ELSE IF stop THEN ok \cup {m.from} ELSE ok \ {m.from}
          /\ current' = IF m.from = Generator THEN m.about ELSE current
          /\ FindUsedWords(m.about, "words", "forward")
  /\ UNCHANGED <<word, exchanges>>

(* A faulty variant: the exchange is not counted.                          *)
ForwardUncounted ==
  /\ Waiting("forward") /\ held # NoMsg
  /\ outbox' = <<held>> /\ held' = NoMsg
  /\ pc' = "exchange"
  /\ UNCHANGED <<netVars, method, word, ok, exchanges, current, logography>>

(* Ten seconds later; the Router dereferences a nil message.               *)
Forward ==
  /\ Waiting("forward")
  /\ \/ /\ held # NoMsg
        /\ outbox' = <<held>> /\ held' = NoMsg
        /\ exchanges' = exchanges + 1
        /\ pc' = "exchange"
        /\ UNCHANGED <<word, ok, current, logography>>
     \/ /\ held = NoMsg
        /\ Stop("crashed")
  /\ UNCHANGED <<netVars, method>>

EndWord ==
  /\ Waiting("exchange") /\ ~Developing
  /\ outbox' = SendCommands(Pair, Reset)
  /\ logography' = [logography EXCEPT ![word] = current]
  /\ NextWord
  /\ UNCHANGED <<netVars, method, ok, held, exchanges, current>>

JobStep ==
  \/ SendCommand
  \/ FindWords
  \/ TakeWords("found", "choose")
  \/ ChooseWords
  \/ StartWord
  \/ SkipWord
  \/ TakeExchange
  \/ TakeWords("words", "forward")
  \/ Forward
  \/ EndWord

Stopped == pc \in {"failed", "short", "crashed"}

Next ==
  /\ ~Stopped
  /\ \/ JobStep
     \/ NetNext /\ UNCHANGED jobVars

Spec == Init /\ [][Next]_vars

(* Weaker than in Iterate: as long as a goroutine, a stream or the service *)
(* can move, one of them does, whichever; the service answers a request it *)
(* neither refused nor saw cancelled.  No step can be repeated for ever.   *)
RequestStep(a) ==
  \E k \in DOMAIN calls[a] :
    \/ StartTyped(a, k) \/ SaveTyped(a, k) \/ Retrieve(a, k) \/ Post(a, k)
    \/ Answer(a, k) \/ GiveUp(a, k)

Progress ==
  \/ JobStep
  \/ /\ \/ RouterForward \/ RouterDispatch
        \/ \E a \in Agent :
             Listen(a) \/ Disconnect(a) \/ AgentRoute(a) \/ RequestStep(a)
     /\ UNCHANGED jobVars

Fairness == WF_vars(~Stopped /\ Progress)

FairSpec == Spec /\ Fairness

-----------------------------------------------------------------------------
(* Properties.                                                             *)

\* Types of the transport, the agents and the jobs goroutine; an exchange
\* more than MaxExchanges is counted (i <= DefaultMaxExchanges, line 426).
TypeOK ==
  /\ NetTypeOK
  /\ method \in Methods
  /\ pc \in {"find", "found", "choose", "word", "exchange", "words", "forward",
             "done", "failed", "short", "crashed"}
  /\ word \in Word
  /\ ok \subseteq {Generator, Adversary}
  /\ held \in Message \cup {NoMsg}
  /\ exchanges \in 0 .. MaxExchanges + 1
  /\ current \subseteq Word
  /\ outbox \in Seq(Message)
  /\ logography \in [Word -> SUBSET Word]

\* The turns of generator and adversary under way: a kickoff or a request
\* that was sent, an agent working on one, an answer that was sent, a message
\* that was taken and is about to be forwarded.
Turns ==
  Places(Boxes({"jobs", "toClients", "routerHand", "toServer"}, {Generator, Adversary}),
         Hand(held) \o outbox,
         {m \in Message :
            \/ m.cmd \in {"SendInitialMessage", "RequestLogogramIteration",
                          "RequestLogogramCritique"}
            \/ m.cmd = "NoCommand" /\ m.from \in {Generator, Adversary}}
         \cup Call)

AtWork == pc \in {"exchange", "words", "forward"}

\* While a logogram is developed and both agents live there is always a turn
\* under way: no cancelled request, refused kickoff or lost message ends the
\* dialogue, for which the jobs goroutine waits without a timeout; even when
\* the word before left an answer behind, or a request that is still being
\* worked on.  Only the extractor's wait, after the first word, can swallow one.
TurnNeverLost ==
  AtWork /\ alive[Generator] /\ alive[Adversary] /\ (method = "regex" \/ word = 1)
    => Turns # {}

\* The dialogue about the first word has exactly one turn at a time, and what
\* is taken in it is a message of one of the two: nothing nil is forwarded.
\* Later words may meet what the word before left behind.
OneTurnAtFirst ==
  AtWork /\ word = 1 =>
    /\ Cardinality(Turns) \in IF faults = 0 THEN {1} ELSE {0, 1}
    /\ pc \in {"words", "forward"} => held # NoMsg

\* When the agents are there, the development of the words ends, whatever
\* they say and whatever one word leaves to the next, unless there were too
\* few words or a request failed or was answered badly.  After the first word
\* two more ends are possible.  With the extractor, an answer left behind by
\* one word can be taken for the extractor's own, whose answer is then
\* forwarded as nil.  And a reset can reach an agent that is about to work on
\* a request (one of the two on the last message of a word, the extractor
\* because it was not waited for): that clears its memory, and if it does so
\* between saving the request and retrieving the memory, the agent dies.
Completes ==
  connected = Agent =>
    <>\/ pc \in {"done", "short"} \/ faults > 0
      \/ word > 1 /\ pc = "crashed" /\ method = "agent"
      \/ word > 1 /\ \E a \in Agent : ~alive[a]
=============================================================================
