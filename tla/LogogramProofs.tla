--------------------------- MODULE LogogramProofs ---------------------------
(***************************************************************************)
(* Proofs about Logogram, for any finite set of agents, any number of      *)
(* words and any capacity of the channels.                                 *)
(***************************************************************************)
EXTENDS Logogram, AgentsProofs

Two == {Generator, Adversary}

LEMMA PairIsAgents ==
  /\ Generator \in Agent /\ Adversary \in Agent /\ Extractor \in Agent
  /\ Pair \in Seq(Agent) /\ <<Extractor>> \in Seq(Agent)
  BY PairAssumption DEF Pair

-----------------------------------------------------------------------------
(* What the jobs goroutine sends.                                          *)

LEMMA DetectWordsType ==
  ASSUME NEW about \in SUBSET Layer
  PROVE  DetectWords(about) \in Seq(Message)
<1>1. /\ Cmd("Latch", {}) \in CommandOf /\ Cmd("AppendInstructions", {}) \in CommandOf
      /\ Cmd("Unlatch", {}) \in CommandOf
      /\ Cmd("RequestDictionaryWordDetection", about) \in CommandOf
  BY CmdType DEF Command, TypedRequest
<1>2. <<Cmd("Latch", {}), Cmd("AppendInstructions", {}), Cmd("Unlatch", {}),
        Cmd("RequestDictionaryWordDetection", about)>> \in Seq(CommandOf)
  BY <1>1
<1> QED
  BY <1>2, PairIsAgents, SendCommandsType, Zenon DEF DetectWords

LEMMA KickoffType ==
  ASSUME word \in Word
  PROVE  Kickoff \in Message
<1>1. Order(Generator, "SendInitialMessage", {word}) \in Message
  <2>1. {word} \in SUBSET Layer /\ "SendInitialMessage" \in Command
    BY DEF Word, Command
  <2> QED
    BY <2>1, MsgType, PairIsAgents DEF Order
<1>2. \A m \in Message, j \in BOOLEAN : [m EXCEPT !.json = j] \in Message
  BY DEF Message
<1> QED
  BY <1>1, <1>2 DEF Kickoff

LEMMA PrepareType ==
  ASSUME word \in Word
  PROVE  Prepare \in Seq(Message)
<1>1. /\ Cmd("Latch", {}) \in CommandOf /\ Cmd("ClearMemory", {}) \in CommandOf
      /\ Cmd("SetInstructions", {word}) \in CommandOf /\ Cmd("Unlatch", {}) \in CommandOf
  BY CmdType DEF Command, Word
<1>2. /\ <<Cmd("Latch", {}), Cmd("ClearMemory", {})>> \in Seq(CommandOf)
      /\ <<Cmd("SetInstructions", {word})>> \in Seq(CommandOf)
      /\ <<Cmd("Unlatch", {})>> \in Seq(CommandOf)
  BY <1>1
<1>3. /\ SendCommands(Pair, <<Cmd("Latch", {}), Cmd("ClearMemory", {})>>) \in Seq(Message)
      /\ SendCommands(Pair, <<Cmd("SetInstructions", {word})>>) \in Seq(Message)
      /\ SendCommands(Pair, <<Cmd("Unlatch", {})>>) \in Seq(Message)
  BY <1>2, PairIsAgents, SendCommandsType, Zenon
<1>4. <<Kickoff>> \in Seq(Message)
  BY KickoffType
<1> QED
  BY <1>3, <1>4, ConcatProperties, Zenon DEF Prepare

LEMMA PairResetType ==
  /\ SendCommands(Pair, Reset) \in Seq(Message)
  /\ SendCommands(<<Extractor>>, Reset) \in Seq(Message)
  BY PairIsAgents, ResetType, SendCommandsType, Zenon

\* What is handed over to the other agent is a message of the server's.
LEMMA HandoverType ==
  ASSUME NEW m \in Message
  PROVE  Handover(m) \in Message \cup {NoMsg}
<1>1. m.about \in SUBSET Layer
  BY MessageFields
<1>2. ASSUME NEW a \in Agent,
             NEW cmd \in {"RequestLogogramCritique", "RequestLogogramIteration"}
      PROVE  Order(a, cmd, m.about) \in Message
  BY <1>1, <1>2, MsgType DEF Order, Command, TypedRequest
<1>3. Order(Adversary, "RequestLogogramCritique", m.about) \in Message
  BY <1>2, PairIsAgents
<1>4. Order(Generator, "RequestLogogramIteration", m.about) \in Message
  BY <1>2, PairIsAgents
<1> QED
  BY <1>3, <1>4, Zenon DEF Handover

-----------------------------------------------------------------------------
(* The steps of the jobs goroutine.                                        *)

\* While a message of a dialogue is being looked at there is room for one more
\* exchange: it was taken while the dialogue went on.
Counted == pc \in {"words", "forward"} => exchanges \in 0 .. MaxExchanges

IInv == TypeOK /\ RoutedInv /\ Counted

PC == {"find", "found", "choose", "word", "exchange", "words", "forward",
       "done", "failed", "short", "crashed"}

LEMMA SendCommandTyped ==
  ASSUME TypeOK, SendCommand
  PROVE  TypeOK' /\ UNCHANGED <<routerHand, procedureChan>>
<1>1. Head(outbox) \in Message /\ Tail(outbox) \in Seq(Message)
  BY DEF TypeOK, SendCommand
<1> QED
  BY <1>1 DEF TypeOK, NetTypeOK, SendCommand, agentVars

LEMMA NetUnchanged ==
  ASSUME NetTypeOK, UNCHANGED netVars
  PROVE  NetTypeOK' /\ UNCHANGED <<routerHand, procedureChan>>
  BY DEF NetTypeOK, netVars, queueVars, agentVars

LEMMA StopTyped ==
  ASSUME TypeOK, NEW how \in PC, Stop(how), UNCHANGED <<netVars, method>>
  PROVE  TypeOK' /\ UNCHANGED <<routerHand, procedureChan>>
<1>1. NetTypeOK' /\ UNCHANGED <<routerHand, procedureChan>>
  BY NetUnchanged DEF TypeOK
<1> QED
  BY <1>1 DEF TypeOK, Stop, PC

LEMMA FindUsedWordsTyped ==
  ASSUME outbox \in Seq(Message), NEW about \in SUBSET Layer, NEW wait \in PC,
         NEW next \in PC, FindUsedWords(about, wait, next)
  PROVE  pc' \in PC /\ outbox' \in Seq(Message)
<1>1. DetectWords(about) \in Seq(Message)
  BY DetectWordsType
<1> QED
  BY <1>1 DEF FindUsedWords, PC

LEMMA TakesAnswerTyped ==
  ASSUME TypeOK, NEW at, TakesAnswer(at)
  PROVE  /\ NetTypeOK' /\ Head(toServer) \in Message
         /\ UNCHANGED <<routerHand, procedureChan, method, logography>>
<1>1. Head(toServer) \in Message /\ Tail(toServer) \in Seq(Message)
  BY DEF TypeOK, NetTypeOK, TakesAnswer
<1> QED
  BY <1>1 DEF TypeOK, NetTypeOK, TakesAnswer, agentVars

LEMMA TakeWordsTyped ==
  ASSUME TypeOK, NEW at, NEW next \in PC, TakeWords(at, next)
  PROVE  TypeOK' /\ UNCHANGED <<routerHand, procedureChan>>
<1>1. /\ NetTypeOK' /\ UNCHANGED <<routerHand, procedureChan, method, logography>>
      /\ UNCHANGED <<word, ok, held, exchanges, current>>
  BY TakesAnswerTyped DEF TakeWords
<1>2. pc' \in PC /\ outbox' \in Seq(Message)
  BY PairResetType DEF TakeWords, TypeOK, PC
<1> QED
  BY <1>1, <1>2 DEF TypeOK, PC

LEMMA FindWordsTyped ==
  ASSUME TypeOK, FindWords
  PROVE  TypeOK' /\ UNCHANGED <<routerHand, procedureChan>>
<1>1. NetTypeOK' /\ UNCHANGED <<routerHand, procedureChan>>
  BY NetUnchanged DEF TypeOK, FindWords
<1>2. pc' \in PC /\ outbox' \in Seq(Message)
  <2>1. "found" \in PC /\ "choose" \in PC /\ Word \in SUBSET Layer
    BY DEF PC, Word
  <2> QED
    BY <2>1, FindUsedWordsTyped DEF FindWords, TypeOK
<1> QED
  BY <1>1, <1>2 DEF TypeOK, FindWords, PC

LEMMA NextWordTyped ==
  ASSUME word \in Word, NextWord
  PROVE  word' \in Word /\ pc' \in {"word", "done"}
  BY LayersAssumption DEF NextWord, Word, Layer

LEMMA StartWordTyped ==
  ASSUME TypeOK, StartWord
  PROVE  TypeOK' /\ UNCHANGED <<routerHand, procedureChan>>
<1>1. CASE Stop("failed")
  BY <1>1, StopTyped DEF StartWord, PC
<1>2. CASE ~Stop("failed")
  <2>1. NetTypeOK' /\ UNCHANGED <<routerHand, procedureChan>>
    BY NetUnchanged DEF TypeOK, StartWord
  <2>2. Prepare \in Seq(Message)
    BY PrepareType DEF TypeOK
  <2>3. exchanges' \in 0 .. MaxExchanges + 1
    BY <1>2, PairAssumption DEF StartWord
  <2> QED
    BY <1>2, <2>1, <2>2, <2>3 DEF TypeOK, StartWord
<1> QED
  BY <1>1, <1>2

LEMMA SkipWordTyped ==
  ASSUME TypeOK, SkipWord
  PROVE  TypeOK' /\ UNCHANGED <<routerHand, procedureChan>>
<1>1. NetTypeOK' /\ UNCHANGED <<routerHand, procedureChan>>
  BY NetUnchanged DEF TypeOK, SkipWord
<1>2. word' \in Word /\ pc' \in {"word", "done"}
  BY NextWordTyped DEF TypeOK, SkipWord
<1> QED
  BY <1>1, <1>2 DEF TypeOK, SkipWord

LEMMA TakeExchangeTyped ==
  ASSUME TypeOK, TakeExchange
  PROVE  TypeOK' /\ UNCHANGED <<routerHand, procedureChan>>
<1> DEFINE m == Head(toServer)
<1>1. /\ NetTypeOK' /\ m \in Message
      /\ UNCHANGED <<routerHand, procedureChan, method, logography>>
      /\ UNCHANGED <<word, exchanges>>
  BY TakesAnswerTyped DEF TakeExchange
<1>2. m.about \in SUBSET Layer
  BY <1>1, MessageFields
<1>3. CASE pc' = "failed" /\ UNCHANGED <<held, ok, current, outbox>>
  BY <1>1, <1>3 DEF TypeOK, PC
<1>4. CASE /\ m.from \in Two => m.json
           /\ held' = Handover(m)
           /\ ok' \in {ok, ok \cup {m.from}, ok \ {m.from}}
           /\ m.from \notin Two => ok' = ok
           /\ current' = (IF m.from = Generator THEN m.about ELSE current)
           /\ FindUsedWords(m.about, "words", "forward")
  <2>1. held' \in Message \cup {NoMsg}
    BY <1>1, <1>4, HandoverType
  <2>2. ok' \subseteq {Generator, Adversary}
    BY <1>4 DEF Two, TypeOK
  <2>3. current' \subseteq Word
    BY <1>2, <1>4 DEF TypeOK, Word
  <2>4. pc' \in PC /\ outbox' \in Seq(Message)
    <3>1. "words" \in PC /\ "forward" \in PC
      BY DEF PC
    <3> QED
      BY <1>2, <1>4, <3>1, FindUsedWordsTyped DEF TypeOK
  <2> QED
    BY <1>1, <2>1, <2>2, <2>3, <2>4 DEF TypeOK, PC
<1> QED
  BY <1>3, <1>4 DEF TakeExchange, Two

LEMMA ForwardTyped ==
  ASSUME TypeOK, Counted, Forward
  PROVE  TypeOK' /\ UNCHANGED <<routerHand, procedureChan>>
<1>1. CASE Stop("crashed")
  BY <1>1, StopTyped DEF Forward, PC
<1>2. CASE ~Stop("crashed")
  <2>1. NetTypeOK' /\ UNCHANGED <<routerHand, procedureChan>>
    BY NetUnchanged DEF TypeOK, Forward
  <2>2. <<held>> \in Seq(Message)
    BY <1>2 DEF Forward, TypeOK
  <2>3. exchanges' \in 0 .. MaxExchanges + 1
    BY <1>2, PairAssumption DEF Counted, Forward, Waiting
  <2> QED
    BY <1>2, <2>1, <2>2, <2>3 DEF TypeOK, Forward
<1> QED
  BY <1>1, <1>2

LEMMA EndWordTyped ==
  ASSUME TypeOK, EndWord
  PROVE  TypeOK' /\ UNCHANGED <<routerHand, procedureChan>>
<1>1. NetTypeOK' /\ UNCHANGED <<routerHand, procedureChan>>
  BY NetUnchanged DEF TypeOK, EndWord
<1>2. word' \in Word /\ pc' \in {"word", "done"}
  BY NextWordTyped DEF TypeOK, EndWord
<1>3. outbox' \in Seq(Message)
  BY PairResetType DEF EndWord
<1> QED
  BY <1>1, <1>2, <1>3 DEF TypeOK, EndWord

-----------------------------------------------------------------------------
(* The whole.                                                              *)

LEMMA InitTyped == Init => IInv
<1> SUFFICES ASSUME Init PROVE IInv
  OBVIOUS
<1>1. NetTypeOK /\ RoutedInv
  BY BoundAssumption DEF Init, NetInit, NetTypeOK, RoutedInv
<1>2. word \in Word /\ exchanges \in 0 .. MaxExchanges + 1
  BY LayersAssumption, PairAssumption DEF Init, Word, Layer
<1>3. Counted
  BY DEF Init, Counted
<1> QED
  BY <1>1, <1>2, <1>3 DEF Init, IInv, TypeOK

LEMMA NextCounted ==
  ASSUME TypeOK, Counted, [Next]_vars
  PROVE  Counted'
<1>0. exchanges \in Nat /\ MaxExchanges \in Nat
  BY PairAssumption DEF TypeOK
<1>1. CASE TakeExchange
  BY <1>0, <1>1 DEF Counted, TakeExchange, Developing
<1>2. CASE TakeWords("words", "forward")
  BY <1>2 DEF Counted, TakeWords, TakesAnswer, Waiting
<1>3. CASE TakeWords("found", "choose")
  BY <1>3 DEF Counted, TakeWords
<1>4. CASE SendCommand \/ (NetNext /\ UNCHANGED jobVars) \/ UNCHANGED vars
  BY <1>4 DEF Counted, SendCommand, jobVars, vars
<1>5. CASE FindWords \/ ChooseWords \/ StartWord \/ SkipWord \/ Forward \/ EndWord
  BY <1>5 DEF Counted, FindWords, FindUsedWords, ChooseWords, StartWord, SkipWord,
     Forward, EndWord, Stop, NextWord
<1> QED
  BY <1>1, <1>2, <1>3, <1>4, <1>5 DEF Next, JobStep

LEMMA NextTyped == IInv /\ [Next]_vars => IInv'
<1> SUFFICES ASSUME IInv, [Next]_vars PROVE IInv'
  OBVIOUS
<1>0. TypeOK /\ NetTypeOK /\ RoutedInv /\ Counted
  BY DEF IInv, TypeOK
<1>c. Counted'
  BY <1>0, NextCounted
<1>1. ASSUME TypeOK', UNCHANGED <<routerHand, procedureChan>> PROVE IInv'
  BY <1>0, <1>1, <1>c DEF IInv, RoutedInv
<1>2. CASE SendCommand
  BY <1>0, <1>1, <1>2, SendCommandTyped
<1>3. CASE FindWords
  BY <1>0, <1>1, <1>3, FindWordsTyped
<1>4. CASE TakeWords("found", "choose") \/ TakeWords("words", "forward")
  <2>1. "choose" \in PC /\ "forward" \in PC
    BY DEF PC
  <2> QED
    BY <1>0, <1>1, <1>4, <2>1, TakeWordsTyped
<1>5. CASE ChooseWords
  <2>1. "word" \in PC /\ "short" \in PC
    BY DEF PC
  <2> QED
    BY <1>0, <1>1, <1>5, <2>1, StopTyped DEF ChooseWords
<1>6. CASE StartWord
  BY <1>0, <1>1, <1>6, StartWordTyped
<1>7. CASE SkipWord
  BY <1>0, <1>1, <1>7, SkipWordTyped
<1>8. CASE TakeExchange
  BY <1>0, <1>1, <1>8, TakeExchangeTyped
<1>9. CASE Forward
  BY <1>0, <1>1, <1>9, ForwardTyped
<1>10. CASE EndWord
  BY <1>0, <1>1, <1>10, EndWordTyped
<1>11. CASE NetNext /\ UNCHANGED jobVars
  <2>1. NetTypeOK' /\ RoutedInv'
    BY <1>0, <1>11, NetStep
  <2> QED
    BY <1>0, <1>11, <1>c, <2>1 DEF IInv, TypeOK, jobVars
<1>12. CASE UNCHANGED vars
  BY <1>0, <1>12, <1>c DEF IInv, TypeOK, NetTypeOK, RoutedInv, vars, netVars, jobVars,
     queueVars, agentVars
<1> QED
  BY <1>2, <1>3, <1>4, <1>5, <1>6, <1>7, <1>8, <1>9, <1>10, <1>11, <1>12
  DEF Next, JobStep

\* In every state of the development the variables have their types, for any
\* number of words and agents: the word never leaves those that were chosen,
\* although two operations move it on, what is held for forwarding is nil or a
\* message, and the exchanges of one word stop at MaxExchanges + 1, although
\* the loop that counts them (line 426) is left and entered through other waits.
THEOREM LogogramTyped == Spec => []TypeOK
<1>1. IInv => TypeOK
  BY DEF IInv
<1> QED
  BY <1>1, InitTyped, NextTyped, PTL DEF Spec
-----------------------------------------------------------------------------
(***************************************************************************)
(* What the jobs goroutine does to the transport: it sends its next        *)
(* command, or it draws up new ones.                                       *)
(***************************************************************************)

Helpers == {a \in Agent : LayerOf[a] = 0} \ Two

\* What makes an agent take its turn, and what asks the extractor.
TurnCommand == {"SendInitialMessage", "RequestLogogramIteration", "RequestLogogramCritique"}
Query       == {m \in Orders : m.to = Extractor /\ m.cmd = "RequestDictionaryWordDetection"}
Handed      == {m \in Orders : \/ m.to = Generator /\ m.cmd = "RequestLogogramIteration"
                               \/ m.to = Adversary /\ m.cmd = "RequestLogogramCritique"}
KickedOff   == {m \in Orders : m.to = Generator /\ m.cmd = "SendInitialMessage"}

JobOrders == PlainOrders(Two \cup {Extractor}) \cup Query \cup Handed \cup KickedOff

Questions == \E s \in Seq(PlainOrders({Extractor})), m \in Query : outbox' = s \o <<m>>

\* On to the next place, with nothing taken and nobody asked.
Proceeds ==
  /\ UNCHANGED <<toServer, held>> /\ outbox' \in Seq(PlainOrders(Two))
  /\ outbox' = <<>> \/ pc = "exchange"
  /\ pc \in {"find", "choose", "word", "exchange", "forward"} /\ word' \in {word, word + 1}
  /\ pc' \in {"choose", "word", "done", "failed", "short", "crashed"}
  /\ pc = "forward" => pc' = "crashed"
  /\ word' = word /\ pc' \in {"choose", "word"} => pc \in {"find", "choose", "word"}

Poses ==
  /\ UNCHANGED <<toServer, held, word>>
  /\ pc = "find" /\ pc' = "found" /\ method = "agent" /\ Questions

Hears ==
  /\ toServer # <<>> /\ toServer' = Tail(toServer) /\ UNCHANGED <<held, word>>
  /\ outbox' \in Seq(PlainOrders({Extractor}))
  /\ \/ pc = "found" /\ pc' \in {"choose", "failed"}
     \/ pc = "words" /\ pc' \in {"forward", "failed"}

Begins ==
  /\ UNCHANGED <<toServer, held, word>>
  /\ pc = "word" /\ pc' = "exchange" /\ Two \subseteq connected /\ outbox' = Prepare

Takes ==
  /\ toServer # <<>> /\ toServer' = Tail(toServer) /\ UNCHANGED word
  /\ pc = "exchange"
  /\ held' = Handover(Head(toServer)) \/ (pc' = "failed" /\ UNCHANGED held)
  /\ \/ pc' = "forward" /\ method = "regex" /\ outbox' = <<>>
     \/ pc' = "words" /\ method = "agent" /\ Questions
     \/ pc' = "failed" /\ outbox' = <<>>

Hands ==
  /\ UNCHANGED <<toServer, word>>
  /\ pc = "forward" /\ pc' = "exchange"
  /\ held # NoMsg /\ held' = NoMsg /\ outbox' = <<held>>

Draws ==
  /\ outbox = <<>> /\ UNCHANGED <<connected, toClients, routerHand, agentVars, faults, method>>
  /\ Proceeds \/ Poses \/ Hears \/ Begins \/ Takes \/ Hands

LEMMA PairMembers ==
  /\ Generator # Adversary /\ Generator # Extractor /\ Adversary # Extractor
  /\ Two \subseteq Agent /\ Helpers \subseteq Agent /\ Extractor \in Helpers
  /\ Two \cap Helpers = {} /\ \A a \in Two \cup Helpers : LayerOf[a] = 0
  /\ Pair \in Seq(Two) /\ <<Extractor>> \in Seq({Extractor})
<1> DEFINE T == {Generator, Adversary, Extractor}
<1>1. \A x, y : Cardinality({x, y}) <= 2
  <2> SUFFICES ASSUME NEW x, NEW y PROVE Cardinality({x, y}) <= 2
    OBVIOUS
  <2>1. IsFiniteSet({x}) /\ Cardinality({x}) = 1
    BY FS_Singleton
  <2>2. Cardinality({x} \cup {y}) = IF y \in {x} THEN 1 ELSE 1 + 1
    BY <2>1, FS_AddElement
  <2>3. {x, y} = {x} \cup {y}
    OBVIOUS
  <2> QED
    BY <2>2, <2>3
<1>2. Cardinality({Generator, Adversary, Extractor}) = 3
  BY PairAssumption
<1>3. Generator # Adversary
  <2> SUFFICES ASSUME Generator = Adversary PROVE FALSE
    OBVIOUS
  <2>1. T = {Generator, Extractor}
    OBVIOUS
  <2>2. Cardinality({Generator, Extractor}) <= 2
    BY <1>1
  <2> QED
    BY <1>2, <2>1, <2>2
<1>4. Generator # Extractor
  <2> SUFFICES ASSUME Generator = Extractor PROVE FALSE
    OBVIOUS
  <2>1. T = {Generator, Adversary}
    OBVIOUS
  <2>2. Cardinality({Generator, Adversary}) <= 2
    BY <1>1
  <2> QED
    BY <1>2, <2>1, <2>2
<1>5. Adversary # Extractor
  <2> SUFFICES ASSUME Adversary = Extractor PROVE FALSE
    OBVIOUS
  <2>1. T = {Generator, Extractor}
    OBVIOUS
  <2>2. Cardinality({Generator, Extractor}) <= 2
    BY <1>1
  <2> QED
    BY <1>2, <2>1, <2>2
<1>6. \A s \in {Generator, Adversary, Extractor} : s \in Agent /\ LayerOf[s] = 0
  BY PairAssumption
<1> QED
  BY <1>3, <1>4, <1>5, <1>6 DEF Two, Helpers, Pair

\* What each of the commands is.
LEMMA PlainResets ==
  /\ SendCommands(Pair, Reset) \in Seq(PlainOrders(Two))
  /\ SendCommands(<<Extractor>>, Reset) \in Seq(PlainOrders({Extractor}))
<1>1. Reset \in Seq(PlainCommands)
  <2>1. /\ Cmd("Latch", {}) \in PlainCommands /\ Cmd("ClearMemory", {}) \in PlainCommands
        /\ Cmd("ResetInstructions", {}) \in PlainCommands
    BY CmdType DEF Command, Cmd, PlainCommands, Asking, TypedRequest
  <2> QED
    BY <2>1 DEF Reset
<1>2. Two \subseteq Agent /\ {Extractor} \subseteq Agent
  BY PairMembers, PairIsAgents
<1> QED
  BY <1>1, <1>2, PairMembers, SendsPlain

LEMMA DetectWordsShape ==
  ASSUME NEW about \in SUBSET Layer
  PROVE  \E s \in Seq(PlainOrders({Extractor})), m \in Query : DetectWords(about) = s \o <<m>>
<1> DEFINE cs == <<Cmd("Latch", {}), Cmd("AppendInstructions", {}), Cmd("Unlatch", {})>>
           c == Cmd("RequestDictionaryWordDetection", about)
<1>1. cs \in Seq(PlainCommands) /\ cs \in Seq(CommandOf)
  <2>1. /\ Cmd("Latch", {}) \in PlainCommands /\ Cmd("AppendInstructions", {}) \in PlainCommands
        /\ Cmd("Unlatch", {}) \in PlainCommands
    BY CmdType DEF Command, Cmd, PlainCommands, Asking, TypedRequest
  <2>2. PlainCommands \subseteq CommandOf
    BY DEF PlainCommands
  <2> QED
    BY <2>1, <2>2
<1>2. c \in CommandOf /\ "RequestDictionaryWordDetection" \in Command
  BY CmdType DEF Command, TypedRequest
<1>3. cs \o <<c>> = <<Cmd("Latch", {}), Cmd("AppendInstructions", {}), Cmd("Unlatch", {}), c>>
  <2>1. PICK x \in CommandOf, y \in CommandOf, z \in CommandOf, w \in CommandOf :
          /\ x = Cmd("Latch", {}) /\ y = Cmd("AppendInstructions", {})
          /\ z = Cmd("Unlatch", {}) /\ w = c
    BY <1>2, CmdType DEF Command
  <2>2. PICK a : a = <<x, y, z>>
    OBVIOUS
  <2>3. PICK b : b = <<w>>
    OBVIOUS
  <2>4. /\ a \in Seq(CommandOf) /\ Len(a) = 3 /\ a[1] = x /\ a[2] = y /\ a[3] = z
        /\ b \in Seq(CommandOf) /\ Len(b) = 1 /\ b[1] = w
    BY <2>1, <2>2, <2>3
  <2>5. PICK r : r = a \o b
    OBVIOUS
  <2>6. /\ r \in Seq(CommandOf) /\ Len(r) = 4
        /\ r[1] = x /\ r[2] = y /\ r[3] = z /\ r[4] = w
    <3>1. /\ r \in Seq(CommandOf) /\ Len(r) = Len(a) + Len(b)
          /\ \A i \in 1 .. Len(a) + Len(b) : r[i] = IF i <= Len(a) THEN a[i] ELSE b[i - Len(a)]
      BY <2>4, <2>5, ConcatProperties
    <3>2. Len(a) + Len(b) = 4
      BY <2>4
    <3> QED
      BY <2>4, <3>1, <3>2
  <2>7. r = <<x, y, z, w>>
    <3>1. PICK t : t = <<x, y, z, w>>
      OBVIOUS
    <3>2. /\ t \in Seq(CommandOf) /\ Len(t) = 4
          /\ t[1] = x /\ t[2] = y /\ t[3] = z /\ t[4] = w
      BY <2>1, <3>1
    <3>3. Len(r) = Len(t) /\ \A i \in 1 .. Len(r) : r[i] = t[i]
      <4>1. \A i \in 1 .. 4 : i = 1 \/ i = 2 \/ i = 3 \/ i = 4
        OBVIOUS
      <4> QED
        BY <2>6, <3>2, <4>1
    <3> QED
      BY <2>6, <3>1, <3>2, <3>3, SeqEqual
  <2> QED
    BY <2>1, <2>2, <2>3, <2>5, <2>7
<1> HIDE DEF cs
<1>4. SendCommands(<<Extractor>>, cs) \in Seq(PlainOrders({Extractor}))
  <2>1. {Extractor} \subseteq Agent /\ <<Extractor>> \in Seq({Extractor})
    BY PairIsAgents, PairMembers
  <2> QED
    BY <1>1, <2>1, SendsPlain
<1>5. SendCommands(<<Extractor>>, cs \o <<c>>) =
        SendCommands(<<Extractor>>, cs) \o <<Order(Extractor, c.cmd, c.about)>>
  BY <1>1, <1>2, PairIsAgents, SendsLast
<1>6. c.cmd = "RequestDictionaryWordDetection" /\ c.about = about
  BY DEF Cmd
<1>7. Order(Extractor, "RequestDictionaryWordDetection", about) \in Query
  BY <1>2, PairIsAgents, OrderFields DEF Query
<1> QED
  BY <1>3, <1>4, <1>5, <1>6, <1>7 DEF DetectWords

\* The kickoff comes last, after the generator's Unlatch and no Latch.
LEMMA PrepareShape ==
  ASSUME word \in Word
  PROVE  \E s \in Seq(PlainOrders(Two)), u \in Unlatches(Generator), v \in Unlatches(Adversary) :
           /\ Kickoff \in KickedOff
           /\ u \in PlainOrders(Two) /\ v \in PlainOrders(Two)
           /\ Prepare = Append(Append(Append(s, u), v), Kickoff)
<1> DEFINE c == Cmd("Unlatch", {})
           u == Order(Generator, "Unlatch", {})
           v == Order(Adversary, "Unlatch", {})
           p == SendCommands(Pair, <<Cmd("Latch", {}), Cmd("ClearMemory", {})>>)
           q == SendCommands(Pair, <<Cmd("SetInstructions", {word})>>)
<1>1. p \in Seq(PlainOrders(Two)) /\ q \in Seq(PlainOrders(Two))
  <2>1. /\ Cmd("Latch", {}) \in PlainCommands /\ Cmd("ClearMemory", {}) \in PlainCommands
        /\ Cmd("SetInstructions", {word}) \in PlainCommands
    BY CmdType DEF Command, Cmd, PlainCommands, Asking, TypedRequest, Word
  <2>2. /\ <<Cmd("Latch", {}), Cmd("ClearMemory", {})>> \in Seq(PlainCommands)
        /\ <<Cmd("SetInstructions", {word})>> \in Seq(PlainCommands)
    BY <2>1
  <2> QED
    BY <2>2, PairMembers, SendsPlain
<1>2. /\ u \in Unlatches(Generator) /\ v \in Unlatches(Adversary)
      /\ u \in PlainOrders(Two) /\ v \in PlainOrders(Two)
  <2>1. /\ u \in Orders /\ u.to = Generator /\ u.cmd = "Unlatch"
        /\ v \in Orders /\ v.to = Adversary /\ v.cmd = "Unlatch"
    <3>1. "Unlatch" \in Command /\ {} \in SUBSET Layer
      BY DEF Command
    <3> QED
      BY <3>1, PairIsAgents, OrderFields
  <2> QED
    BY <2>1 DEF Unlatches, PlainOrders, Two, Asking, TypedRequest
<1>3. SendCommands(Pair, <<c>>) = <<u, v>>
  <2>1. Len(Pair) = 2 /\ Len(<<c>>) = 1 /\ 2 * 1 = 2 /\ Pair[1] = Generator /\ Pair[2] = Adversary
        /\ <<c>>[1] = c /\ c.cmd = "Unlatch" /\ c.about = {}
    BY DEF Pair, Cmd
  <2>2. \A i \in 1 .. 2 : 1 + ((i - 1) % 1) = 1 /\ 1 + ((i - 1) \div 1) = i
    OBVIOUS
  <2> HIDE DEF c
  <2>3. SendCommands(Pair, <<c>>) = [i \in 1 .. 2 |-> Order(Pair[i], "Unlatch", {})]
    BY <2>1, <2>2 DEF SendCommands
  <2> QED
    BY <2>1, <2>3
<1>4. Kickoff \in KickedOff
  <2>1. Kickoff \in Message
    BY KickoffType
  <2>2. Kickoff.from = Server /\ Kickoff.to = Generator /\ Kickoff.cmd = "SendInitialMessage"
    BY DEF Kickoff, Order, Msg
  <2> QED
    BY <2>1, <2>2, PairIsAgents DEF KickedOff, Orders
<1> HIDE DEF p, q, u, v
<1>5. PICK s \in Seq(PlainOrders(Two)) : s = p \o q
  <2>1. p \o q \in Seq(PlainOrders(Two))
    BY <1>1, ConcatProperties
  <2> QED
    BY <2>1
<1>6. PICK k : k = Kickoff
  OBVIOUS
<1>7. ((s \o <<u, v>>) \o <<k>>) = Append(Append(Append(s, u), v), k)
  BY <1>2, <1>5
<1>8. Prepare = ((p \o q) \o <<u, v>>) \o <<Kickoff>>
  BY <1>3 DEF Prepare, p, q
<1> QED
  BY <1>2, <1>4, <1>5, <1>6, <1>7, <1>8

LEMMA NextWordShape ==
  ASSUME NextWord
  PROVE  /\ word' \in {word, word + 1} /\ pc' \in {"word", "done"}
         /\ pc' = "word" => word' = word + 1
  BY DEF NextWord

LEMMA FindUsedWordsShape ==
  ASSUME NEW about \in SUBSET Layer, NEW wait, NEW next, FindUsedWords(about, wait, next),
         outbox = <<>>
  PROVE  \/ method = "regex" /\ pc' = next /\ outbox' = <<>>
         \/ method = "agent" /\ pc' = wait /\ Questions
         \/ pc' = "failed" /\ outbox' = <<>>
<1>1. CASE outbox' = DetectWords(about) /\ method = "agent" /\ pc' = wait
  BY <1>1, DetectWordsShape DEF Questions
<1>2. CASE ~(outbox' = DetectWords(about) /\ method = "agent" /\ pc' = wait)
  BY <1>2 DEF FindUsedWords
<1> QED
  BY <1>1, <1>2

LEMMA JobShape ==
  ASSUME TypeOK, JobStep
  PROVE  SendCommand \/ Draws
<1> DEFINE Still == UNCHANGED <<connected, toClients, routerHand, agentVars, faults, method>>
<1>0. <<>> \in Seq(PlainOrders(Two)) /\ <<>> \in Seq(PlainOrders({Extractor}))
      /\ {} \in SUBSET Layer /\ word \in Nat /\ word + 1 # word
  BY LayersAssumption DEF TypeOK, Word, Layer
<1>1. CASE FindWords
  <2>1. /\ outbox = <<>> /\ pc = "find" /\ Still /\ UNCHANGED <<toServer, held, word>>
    BY <1>1 DEF FindWords, Waiting, netVars, queueVars
  <2>2. \/ method = "regex" /\ pc' = "choose" /\ outbox' = <<>>
        \/ method = "agent" /\ pc' = "found" /\ Questions
        \/ pc' = "failed" /\ outbox' = <<>>
    <3>1. Word \in SUBSET Layer
      BY DEF Word
    <3> QED
      BY <1>1, <2>1, <3>1, FindUsedWordsShape DEF FindWords
  <2>3. Proceeds \/ Poses
    BY <1>0, <2>1, <2>2 DEF Proceeds, Poses
  <2> QED
    BY <2>1, <2>3 DEF Draws
<1>2. CASE TakeWords("found", "choose") \/ TakeWords("words", "forward")
  <2>1. outbox = <<>> /\ Still
    BY <1>2 DEF TakeWords, TakesAnswer, Waiting
  <2>2. Hears
    BY <1>0, <1>2, <2>1, PlainResets DEF TakeWords, TakesAnswer, Waiting, Hears
  <2> QED
    BY <2>1, <2>2 DEF Draws
<1>3. CASE ChooseWords
  <2>1. outbox = <<>> /\ Still /\ Proceeds
    BY <1>0, <1>3 DEF ChooseWords, Waiting, Stop, Proceeds, netVars, queueVars
  <2> QED
    BY <2>1 DEF Draws
<1>4. CASE StartWord
  <2>1. outbox = <<>> /\ Still /\ pc = "word" /\ UNCHANGED toServer
    BY <1>4 DEF StartWord, Waiting, netVars, queueVars
  <2>2. CASE Stop("failed")
    <3>1. Proceeds
      BY <1>0, <2>1, <2>2 DEF Proceeds, Stop
    <3> QED
      BY <2>1, <3>1 DEF Draws
  <2>3. CASE ~Stop("failed")
    <3>1. Begins
      BY <1>4, <2>1, <2>3 DEF StartWord, Begins, Two
    <3> QED
      BY <2>1, <3>1 DEF Draws
  <2> QED
    BY <2>2, <2>3
<1>5. CASE SkipWord
  <2>1. outbox = <<>> /\ Still /\ pc = "word" /\ UNCHANGED <<toServer, held, outbox>>
    BY <1>5 DEF SkipWord, Waiting, netVars, queueVars
  <2>2. Proceeds
    BY <1>0, <1>5, <2>1, NextWordShape DEF SkipWord, Proceeds
  <2> QED
    BY <2>1, <2>2 DEF Draws
<1>6. CASE TakeExchange
  <2>1. /\ outbox = <<>> /\ pc = "exchange" /\ Still /\ UNCHANGED word
        /\ toServer # <<>> /\ toServer' = Tail(toServer)
    BY <1>6 DEF TakeExchange, TakesAnswer, Waiting
  <2>2. Head(toServer).about \in SUBSET Layer
    <3>1. Head(toServer) \in Message
      BY <2>1 DEF TypeOK, NetTypeOK
    <3> QED
      BY <3>1, MessageFields
  <2> DEFINE m == Head(toServer)
  <2>3. ASSUME pc' = "failed", UNCHANGED <<held, outbox>> PROVE Takes
    BY <2>1, <2>3 DEF Takes
  <2>4. ASSUME held' = Handover(m), FindUsedWords(m.about, "words", "forward") PROVE Takes
    <3>1. \/ method = "regex" /\ pc' = "forward" /\ outbox' = <<>>
          \/ method = "agent" /\ pc' = "words" /\ Questions
          \/ pc' = "failed" /\ outbox' = <<>>
      BY <2>1, <2>2, <2>4, FindUsedWordsShape
    <3> QED
      BY <2>1, <2>4, <3>1 DEF Takes
  <2>5. Takes
    BY <1>6, <2>3, <2>4 DEF TakeExchange
  <2> QED
    BY <2>1, <2>5 DEF Draws
<1>7. CASE Forward
  <2>1. outbox = <<>> /\ Still /\ pc = "forward" /\ UNCHANGED toServer
    BY <1>7 DEF Forward, Waiting, netVars, queueVars
  <2>2. CASE Stop("crashed")
    <3>1. Proceeds
      BY <1>0, <2>1, <2>2 DEF Proceeds, Stop
    <3> QED
      BY <2>1, <3>1 DEF Draws
  <2>3. CASE ~Stop("crashed")
    <3>1. Hands
      BY <1>7, <2>1, <2>3 DEF Forward, Hands
    <3> QED
      BY <2>1, <3>1 DEF Draws
  <2> QED
    BY <2>2, <2>3
<1>8. CASE EndWord
  <2>1. /\ outbox = <<>> /\ Still /\ pc = "exchange" /\ UNCHANGED <<toServer, held>>
        /\ outbox' = SendCommands(Pair, Reset)
    BY <1>8 DEF EndWord, Waiting, netVars, queueVars
  <2>2. Proceeds
    BY <1>0, <1>8, <2>1, NextWordShape, PlainResets DEF EndWord, Proceeds
  <2> QED
    BY <2>1, <2>2 DEF Draws
<1> QED
  BY <1>1, <1>2, <1>3, <1>4, <1>5, <1>6, <1>7, <1>8 DEF JobStep

-----------------------------------------------------------------------------
(***************************************************************************)
(* Who wrote what, in the development of logograms.                        *)
(***************************************************************************)

\* Something is held only between an exchange and its forwarding, and the
\* extractor is waited for only when it was asked.
HeldInv ==
  /\ held \in Handed \cup {NoMsg}
  /\ pc \in {"find", "found", "choose", "word", "exchange", "done"} => held = NoMsg
  /\ pc \in {"found", "words"} => method = "agent"

OrdersInv == outbox \in Seq(JobOrders) /\ Signed(JobOrders) /\ HeldInv

LEMMA JobOrdersAre ==
  /\ JobOrders \subseteq Orders /\ JobOrders \subseteq Message
  /\ \A ts \in SUBSET (Two \cup {Extractor}) : Seq(PlainOrders(ts)) \subseteq Seq(JobOrders)
<1>1. JobOrders \subseteq Orders /\ JobOrders \subseteq Message
  BY DEF JobOrders, PlainOrders, Query, Handed, KickedOff, Orders
<1>2. ASSUME NEW ts \in SUBSET (Two \cup {Extractor})
      PROVE  Seq(PlainOrders(ts)) \subseteq Seq(JobOrders)
  <2>1. PlainOrders(ts) \subseteq JobOrders
    BY DEF JobOrders, PlainOrders
  <2> QED
    BY <2>1
<1> QED
  BY <1>1, <1>2

LEMMA QuestionsOrders ==
  ASSUME Questions
  PROVE  outbox' \in Seq(JobOrders)
<1>1. PICK s \in Seq(PlainOrders({Extractor})), m \in Query : outbox' = s \o <<m>>
  BY DEF Questions
<1>2. s \in Seq(JobOrders) /\ m \in JobOrders
  BY JobOrdersAre DEF JobOrders
<1> QED
  BY <1>1, <1>2

LEMMA PrepareOrders ==
  ASSUME word \in Word
  PROVE  /\ Prepare \in Seq(PlainOrders(Two) \cup KickedOff)
         /\ Prepare \in Seq(JobOrders)
<1>1. PICK s \in Seq(PlainOrders(Two)), u \in Unlatches(Generator), v \in Unlatches(Adversary) :
        /\ Kickoff \in KickedOff /\ u \in PlainOrders(Two) /\ v \in PlainOrders(Two)
        /\ Prepare = Append(Append(Append(s, u), v), Kickoff)
  BY PrepareShape
<1> DEFINE P == PlainOrders(Two) \cup KickedOff
<1>2. s \in Seq(P)
  OBVIOUS
<1>3. PICK k \in P : k = Kickoff
  BY <1>1
<1>4. Append(Append(Append(s, u), v), k) \in Seq(P)
  BY <1>1, <1>2, <1>3
<1>5. P \subseteq JobOrders
  BY DEF JobOrders, PlainOrders
<1> HIDE DEF P
<1>6. Prepare \in Seq(P)
  BY <1>1, <1>3, <1>4
<1>7. Prepare \in Seq(JobOrders)
  BY <1>5, <1>6
<1> QED
  BY <1>6, <1>7 DEF P

LEMMA HandoverShape ==
  ASSUME NEW m \in Message
  PROVE  /\ Handover(m) \in Handed \cup {NoMsg}
         /\ m.from \in Two => Handover(m) \in Handed /\ Handover(m) # NoMsg
<1>1. m.about \in SUBSET Layer
  BY MessageFields
<1>2. /\ "RequestLogogramCritique" \in Command /\ "RequestLogogramIteration" \in Command
  BY DEF Command, TypedRequest
<1>3. /\ Order(Adversary, "RequestLogogramCritique", m.about) \in Handed
      /\ Order(Generator, "RequestLogogramIteration", m.about) \in Handed
  BY <1>1, <1>2, PairIsAgents, OrderFields DEF Handed
<1>4. \A h \in Handed : h # NoMsg
  BY NoMsgAssumption DEF Handed, Orders
<1>5. Handover(m) \in Handed \cup {NoMsg} /\ (m.from \in Two => Handover(m) \in Handed)
  BY <1>3, Zenon DEF Handover, Two
<1> QED
  BY <1>4, <1>5

LEMMA OrdersJob ==
  ASSUME TypeOK, OrdersInv, JobStep
  PROVE  OrdersInv'
<1>1. SendCommand \/ Draws
  BY JobShape
<1>2. CASE SendCommand
  <2>1. /\ outbox # <<>> /\ outbox' = Tail(outbox)
        /\ toClients' = Append(toClients, Head(outbox))
        /\ UNCHANGED <<routerHand, toServer, toAgent, fromAgent, pc, held, method>>
    BY <1>2 DEF SendCommand, agentVars
  <2>2. Head(outbox) \in JobOrders /\ Tail(outbox) \in Seq(JobOrders)
    BY <2>1 DEF OrdersInv
  <2>3. Append(toClients, Head(outbox)) \in Seq(Speech \cup JobOrders)
    BY <2>2 DEF OrdersInv, Signed
  <2> QED
    BY <2>1, <2>2, <2>3 DEF OrdersInv, Signed, HeldInv
<1>3. CASE Draws
  <2>0. /\ Two \in SUBSET (Two \cup {Extractor}) /\ {Extractor} \in SUBSET (Two \cup {Extractor})
    OBVIOUS
  <2>1. UNCHANGED <<toClients, routerHand, toAgent, fromAgent, method>>
    BY <1>3 DEF Draws, agentVars
  <2>2. toServer' = toServer \/ (toServer # <<>> /\ toServer' = Tail(toServer))
    BY <1>3 DEF Draws, Proceeds, Poses, Hears, Begins, Takes, Hands
  <2>3. toServer' \in Seq({m \in Speech : LayerOf[m.from] = 0})
    BY <2>2 DEF OrdersInv, Signed
  <2>4. outbox' \in Seq(JobOrders)
    <3>1. CASE Proceeds \/ Hears
      BY <2>0, <3>1, JobOrdersAre DEF Proceeds, Hears
    <3>2. CASE Questions
      BY <3>2, QuestionsOrders
    <3>3. CASE Begins
      BY <3>3, PrepareOrders DEF Begins, TypeOK
    <3>4. CASE Hands
      <4>1. held \in JobOrders
        BY <3>4 DEF Hands, OrdersInv, HeldInv, JobOrders
      <4> QED
        BY <3>4, <4>1 DEF Hands
    <3>5. <<>> \in Seq(JobOrders)
      OBVIOUS
    <3> QED
      BY <1>3, <3>1, <3>2, <3>3, <3>4, <3>5 DEF Draws, Takes, Poses
  <2>5. HeldInv'
    <3>1. CASE Takes
      <4>1. Head(toServer) \in Message
        BY <3>1 DEF TypeOK, NetTypeOK, Takes
      <4>2. held' \in Handed \cup {NoMsg}
        BY <3>1, <4>1, HandoverShape DEF Takes, OrdersInv, HeldInv
      <4> QED
        BY <2>1, <3>1, <4>2 DEF Takes, HeldInv
    <3>2. CASE Proceeds
      BY <2>1, <3>2 DEF Proceeds, OrdersInv, HeldInv
    <3>3. CASE Poses \/ Hears \/ Begins \/ Hands
      BY <2>1, <3>3 DEF Poses, Hears, Begins, Hands, OrdersInv, HeldInv
    <3> QED
      BY <1>3, <3>1, <3>2, <3>3 DEF Draws
  <2> QED
    BY <2>1, <2>3, <2>4, <2>5 DEF OrdersInv, Signed
<1> QED
  BY <1>1, <1>2, <1>3

LEMMA OrdersStep ==
  ASSUME TypeOK, OrdersInv, [Next]_vars
  PROVE  OrdersInv'
<1>1. CASE JobStep
  BY <1>1, OrdersJob
<1>2. CASE NetNext /\ UNCHANGED jobVars
  <2>1. Signed(JobOrders)'
    <3>1. NetTypeOK
      BY DEF TypeOK
    <3>2. JobOrders \in SUBSET Orders /\ Signed(JobOrders)
      BY JobOrdersAre DEF OrdersInv
    <3> QED
      BY <1>2, <3>1, <3>2, SignedStep
  <2> QED
    BY <1>2, <2>1 DEF OrdersInv, HeldInv, jobVars
<1>3. CASE UNCHANGED vars
  BY <1>3 DEF OrdersInv, Signed, HeldInv, vars, netVars, jobVars, queueVars, agentVars
<1> QED
  BY <1>1, <1>2, <1>3 DEF Next

LEMMA OrdersInit == Init => OrdersInv
<1> SUFFICES ASSUME Init PROVE OrdersInv
  OBVIOUS
<1>1. /\ outbox = <<>> /\ toClients = <<>> /\ routerHand = NoMsg /\ toServer = <<>>
      /\ \A a \in Agent : toAgent[a] = <<>> /\ fromAgent[a] = <<>>
      /\ pc = "find" /\ held = NoMsg
  BY DEF Init, NetInit
<1>2. \A S : <<>> \in Seq(S)
  OBVIOUS
<1>3. Signed(JobOrders)
  <2>1. /\ toClients \in Seq(Speech \cup JobOrders)
        /\ routerHand \in Speech \cup {NoMsg}
        /\ toServer \in Seq({m \in Speech : LayerOf[m.from] = 0})
    BY <1>1, <1>2
  <2>2. ASSUME NEW a \in Agent
        PROVE  /\ toAgent[a] \in Seq(To(a, JobOrders))
               /\ fromAgent[a] \in Seq(Said(a))
    BY <1>1, <1>2
  <2> QED
    BY <2>1, <2>2 DEF Signed
<1> QED
  BY <1>1, <1>2, <1>3 DEF OrdersInv, HeldInv

-----------------------------------------------------------------------------
(***************************************************************************)
(* One turn and one question at a time.                                    *)
(***************************************************************************)

TurnBox == Boxes(Channels, Two)
HelpBox == Boxes(Channels, Helpers)

\* A turn of the dialogue, wherever it is, and a question to the extractor, its
\* request or its answer.
Turn ==
  {m \in Message : m.cmd \in TurnCommand \/ (m.cmd = "NoCommand" /\ m.from \in Two)} \cup Call
Help ==
  {m \in Orders : m.to \in Helpers /\ m.cmd \in Asking}
  \cup {m \in Speech : m.from \in Helpers} \cup Call

\* What comes next on ToServer cannot be taken for something else: nothing is
\* left over from a word before, or the extractor is never asked.
Sound == method = "regex" \/ word = 1

HelpInv ==
  Sound => /\ Single(Contents(HelpBox, outbox), HelpBox, Help)
           /\ pc \in {"found", "words"} \/ Void(Contents(HelpBox, outbox), HelpBox, Help)

TurnInv ==
  word = 1 => /\ Single(Contents(TurnBox, outbox), TurnBox, Turn)
              /\ pc \in {"find", "found", "choose", "word", "words", "forward"} =>
                   Void(Contents(TurnBox, outbox), TurnBox, Turn)

Forwards == Sound /\ pc \in {"words", "forward"} => held # NoMsg

TokensInv == HelpInv /\ TurnInv /\ Forwards

\* A system agent talks to the server.
LEMMA SpeechGoes ==
  ASSUME NEW m \in Speech
  PROVE  /\ m \in Message /\ m.from \in Agent /\ m.cmd = "NoCommand" /\ m.from # Server
         /\ m \notin Orders
         /\ m.from \in Two \cup Helpers => m.to \notin Agent
         /\ m.to \in Two \cup Helpers => FALSE
<1>1. /\ m \in Message /\ m.from \in Agent /\ m.to = PeerOf[m.from]
      /\ m.cmd = "NoCommand" /\ m.from # Server
  BY AgentAssumption DEF Speech
<1>2. m.from \in Two \cup Helpers => m.to \notin Agent
  BY <1>1, AgentAssumption, PairMembers
<1>3. m.to \in Two \cup Helpers => FALSE
  BY <1>1, AgentAssumption, PeerAssumption, PairMembers
<1> QED
  BY <1>1, <1>2, <1>3 DEF Orders

LEMMA ClosedTurns == Closed(Channels, Two, JobOrders, Turn)
<1>1. ASSUME NEW m \in Speech, m \in Turn PROVE m.from \in Two /\ m.to \notin Agent
  <2>1. m \in Message /\ m.cmd = "NoCommand" /\ m \notin Call
    BY SpeechGoes, NotBoth
  <2>2. m.from \in Two
    BY <1>1, <2>1 DEF Turn, TurnCommand
  <2> QED
    BY <2>2, SpeechGoes
<1>2. ASSUME NEW m \in Speech \cup JobOrders, m.to \in Two,
             m.cmd \in Asking \cup {"SendInitialMessage"}
      PROVE  m \in Turn
  <2>1. m \in JobOrders /\ m \in Message
    BY <1>2, SpeechGoes, JobOrdersAre
  <2>2. m.cmd \in TurnCommand
    BY <1>2, <2>1, PairMembers DEF JobOrders, PlainOrders, Query, Handed, KickedOff, TurnCommand, Two
  <2> QED
    BY <2>1, <2>2 DEF Turn
<1>3. /\ Call \subseteq Turn /\ Channels \subseteq Channels /\ Two \subseteq Agent
      /\ JobOrders \subseteq Orders
      /\ "toClients" \in Channels /\ "routerHand" \in Channels /\ "toServer" \in Channels
  BY JobOrdersAre, PairMembers DEF Turn, Channels
<1> QED
  BY <1>1, <1>2, <1>3 DEF Closed

LEMMA ClosedHelp == Closed(Channels, Helpers, JobOrders, Help)
<1>1. ASSUME NEW m \in Speech, m \in Help PROVE m.from \in Helpers /\ m.to \notin Agent
  <2>1. m \notin Orders /\ m \notin Call
    BY SpeechGoes, NotBoth
  <2>2. m.from \in Helpers
    BY <1>1, <2>1 DEF Help
  <2> QED
    BY <2>2, SpeechGoes
<1>2. ASSUME NEW m \in Speech \cup JobOrders, m.to \in Helpers,
             m.cmd \in Asking \cup {"SendInitialMessage"}
      PROVE  m \in Help
  <2>1. m \in JobOrders /\ m \in Orders
    BY <1>2, SpeechGoes, JobOrdersAre
  <2>2. m.cmd \in Asking
    BY <1>2, <2>1, PairMembers DEF JobOrders, PlainOrders, Query, Handed, KickedOff, Asking,
       TypedRequest, Two
  <2> QED
    BY <1>2, <2>1, <2>2 DEF Help
<1>3. /\ Call \subseteq Help /\ Channels \subseteq Channels /\ Helpers \subseteq Agent
      /\ JobOrders \subseteq Orders
      /\ "toClients" \in Channels /\ "routerHand" \in Channels /\ "toServer" \in Channels
  BY JobOrdersAre, PairMembers DEF Help, Channels
<1> QED
  BY <1>1, <1>2, <1>3 DEF Closed

\* The orders that are no token.
LEMMA OrdersNoToken ==
  /\ \A ts : PlainOrders(ts) \cap Turn = {} /\ PlainOrders(ts) \cap Help = {}
  /\ Query \cap Turn = {} /\ KickedOff \cap Help = {} /\ Handed \cap Help = {}
<1>1. ASSUME NEW m \in Orders PROVE m \in Message /\ m \notin Call /\ m \notin Speech
  BY NotBoth, SpeechGoes DEF Orders
<1>2. ASSUME NEW m \in Orders, m \in Turn PROVE m.cmd \in TurnCommand
  <2>1. m.from \notin Two
    BY AgentAssumption, PairMembers DEF Orders
  <2> QED
    BY <1>1, <1>2, <2>1 DEF Turn
<1>3. ASSUME NEW m \in Orders, m \in Help PROVE m.to \in Helpers /\ m.cmd \in Asking
  BY <1>1, <1>3 DEF Help
<1>4. ASSUME NEW ts, NEW m \in PlainOrders(ts) PROVE m \notin Turn /\ m \notin Help
  BY <1>2, <1>3 DEF PlainOrders, TurnCommand, Asking, TypedRequest
<1>5. Query \cap Turn = {}
  BY <1>2 DEF Query, TurnCommand
<1>6. KickedOff \cap Help = {} /\ Handed \cap Help = {}
  BY <1>3, PairMembers DEF KickedOff, Handed, Two
<1> QED
  BY <1>4, <1>5, <1>6

\* What a step does to the tokens.
LEMMA OutboxNow ==
  ASSUME NEW B, NEW out
  PROVE  /\ outbox' = out => Contents(B, outbox)' = Contents(B, out)'
         /\ outbox = out => Contents(B, outbox) = Contents(B, out)
<1>1. ASSUME outbox' = out
      PROVE  Contents(B, outbox)' = Contents(B, out)'
  <2>1. \A b \in B : Content(b, outbox)' = Content(b, out)'
    BY <1>1, Zenon DEF Content
  <2> QED
    BY <2>1 DEF Contents
<1> QED
  BY <1>1 DEF Contents

LEMMA SendTokens ==
  ASSUME TypeOK, SendCommand, NEW as \in SUBSET Agent, NEW T
  PROVE  Kept(Contents(Boxes(Channels, as), outbox)', Contents(Boxes(Channels, as), outbox),
              Boxes(Channels, as), T)
<1>1. PICK before : before = outbox
  OBVIOUS
<1>2. /\ before \in Seq(Message) /\ before # <<>> /\ outbox' = Tail(before)
      /\ toClients' = Append(toClients, Head(before))
      /\ UNCHANGED <<routerHand, toServer, agentVars>>
  BY <1>1 DEF SendCommand, TypeOK
<1>3. Channels \in SUBSET Channels /\ {"jobs", "toClients"} \subseteq Channels /\ NetTypeOK
  BY DEF Channels, TypeOK
<1>4. Kept(Contents(Boxes(Channels, as), Tail(before))', Contents(Boxes(Channels, as), before),
           Boxes(Channels, as), T)
  BY <1>2, <1>3, SendKeeps
<1>5. /\ Contents(Boxes(Channels, as), outbox)' = Contents(Boxes(Channels, as), Tail(before))'
      /\ Contents(Boxes(Channels, as), outbox) = Contents(Boxes(Channels, as), before)
  BY <1>1, <1>2, OutboxNow
<1> QED
  BY <1>4, <1>5

LEMMA NetTokens ==
  ASSUME TypeOK, OrdersInv, NetNext, UNCHANGED jobVars, NEW as, NEW T,
         Closed(Channels, as, JobOrders, T)
  PROVE  Kept(Contents(Boxes(Channels, as), outbox)', Contents(Boxes(Channels, as), outbox),
              Boxes(Channels, as), T)
<1>1. PICK out : out = outbox
  OBVIOUS
<1>2. /\ Contents(Boxes(Channels, as), outbox)' = Contents(Boxes(Channels, as), out)'
      /\ Contents(Boxes(Channels, as), outbox) = Contents(Boxes(Channels, as), out)
  BY <1>1, OutboxNow DEF jobVars
<1>3. Kept(Contents(Boxes(Channels, as), out)', Contents(Boxes(Channels, as), out),
           Boxes(Channels, as), T)
  BY NetKeeps DEF TypeOK, OrdersInv
<1> QED
  BY <1>2, <1>3

LEMMA DrawTokens ==
  ASSUME TypeOK, Draws, NEW as \in SUBSET Agent, NEW T
  PROVE  LET B == Boxes(Channels, as)
             f == Contents(B, outbox)
             g == Contents(B, outbox)'
         IN  /\ Void(f, B, T) /\ Lacks(outbox', T) => Void(g, B, T)
             /\ Void(f, B, T) /\ Few(outbox', T) => Single(g, B, T)
             /\ Single(f, B, T) /\ Lacks(outbox', T) => Single(g, B, T)
             /\ Single(f, B, T) /\ toServer # <<>> /\ toServer' = Tail(toServer)
                /\ Head(toServer) \in T =>
                  /\ Lacks(outbox', T) => Void(g, B, T)
                  /\ Few(outbox', T) => Single(g, B, T)
<1>1. PICK before : before = outbox
  OBVIOUS
<1>2. PICK after : after = outbox'
  OBVIOUS
<1>3. /\ NetTypeOK /\ Channels \in SUBSET Channels /\ "jobs" \in Channels
      /\ "toServer" \in Channels
      /\ UNCHANGED <<toClients, routerHand, agentVars>>
      /\ toServer' = toServer \/ (toServer # <<>> /\ toServer' = Tail(toServer))
  BY DEF TypeOK, Channels, Draws, Proceeds, Poses, Hears, Begins, Takes, Hands
<1>4. LET B == Boxes(Channels, as)
          f == Contents(B, before)
          g == Contents(B, after)'
      IN  /\ Void(f, B, T) /\ Lacks(after, T) => Void(g, B, T)
          /\ Void(f, B, T) /\ Few(after, T) => Single(g, B, T)
          /\ Single(f, B, T) /\ Lacks(after, T) => Single(g, B, T)
          /\ "toServer" \in Channels /\ Single(f, B, T)
             /\ toServer # <<>> /\ toServer' = Tail(toServer) /\ Head(toServer) \in T =>
               /\ Lacks(after, T) => Void(g, B, T)
               /\ Few(after, T) => Single(g, B, T)
  BY <1>3, DrawKeeps
<1>5. /\ Contents(Boxes(Channels, as), outbox)' = Contents(Boxes(Channels, as), after)'
      /\ Contents(Boxes(Channels, as), outbox) = Contents(Boxes(Channels, as), before)
  BY <1>1, <1>2, OutboxNow
<1> QED
  BY <1>2, <1>3, <1>4, <1>5

\* The next answer is of one of the two, a turn, or of a helper.
LEMMA NextAnswer ==
  ASSUME TypeOK, OrdersInv, toServer # <<>>
  PROVE  LET m == Head(toServer)
         IN  /\ m \in Message /\ (m.from \in Two \/ m.from \in Helpers)
             /\ m.from \in Two => m \in Turn
             /\ m.from \in Helpers => m \in Help
<1>1. PICK m : m = Head(toServer)
  OBVIOUS
<1>2. toServer \in Seq({x \in Speech : LayerOf[x.from] = 0})
  BY DEF OrdersInv, Signed
<1>3. m \in Speech /\ LayerOf[m.from] = 0
  BY <1>1, <1>2
<1>4. m \in Message /\ m.from \in Agent /\ m.cmd = "NoCommand"
  BY <1>3, SpeechGoes
<1>5. m.from \in Two \/ m.from \in Helpers
  BY <1>3, <1>4 DEF Helpers
<1>6. m.from \in Two => m \in Turn
  BY <1>4 DEF Turn
<1>7. m.from \in Helpers => m \in Help
  BY <1>3 DEF Help
<1> QED
  BY <1>1, <1>4, <1>5, <1>6, <1>7

LEMMA NextNoToken ==
  ASSUME TypeOK, toServer # <<>>, NEW as, NEW T,
         Void(Contents(Boxes(Channels, as), outbox), Boxes(Channels, as), T)
  PROVE  Head(toServer) \notin T
<1> DEFINE b == <<"toServer", Server>>
<1>1. b \in Boxes(Channels, as)
  BY BoxMembers DEF Channels
<1>2. Contents(Boxes(Channels, as), outbox)[b] = toServer
  BY <1>1 DEF Contents, Content
<1>3. Lacks(toServer, T)
  BY <1>1, <1>2 DEF Void
<1>4. 1 \in DOMAIN toServer /\ toServer[1] = Head(toServer)
  BY DEF TypeOK, NetTypeOK
<1> QED
  BY <1>3, <1>4 DEF Lacks

\* The tokens among what is drawn up.
LEMMA DrawnTokens ==
  ASSUME TypeOK, OrdersInv, Draws
  PROVE  /\ Few(outbox', Turn) /\ Few(outbox', Help)
         /\ ~(Begins \/ Hands) => Lacks(outbox', Turn)
         /\ ~(Poses \/ Takes) \/ pc' \notin {"found", "words"} => Lacks(outbox', Help)
<1> DEFINE Goal == /\ Few(outbox', Turn) /\ Few(outbox', Help)
                   /\ ~(Begins \/ Hands) => Lacks(outbox', Turn)
                   /\ ~(Poses \/ Takes) \/ pc' \notin {"found", "words"} => Lacks(outbox', Help)
<1>0. /\ \A ts : PlainOrders(ts) \cap Turn = {} /\ PlainOrders(ts) \cap Help = {}
      /\ Query \cap Turn = {} /\ KickedOff \cap Help = {} /\ Handed \cap Help = {}
  BY OrdersNoToken
<1>1. ASSUME NEW ts, outbox' \in Seq(PlainOrders(ts)) PROVE Goal
  <2>1. Lacks(outbox', Turn) /\ Lacks(outbox', Help)
    BY <1>0, <1>1, LastFew
  <2> QED
    BY <2>1, LacksFew
<1>2. CASE outbox' = <<>>
  <2>1. outbox' \in Seq(PlainOrders(Two))
    BY <1>2
  <2> QED
    BY <1>1, <2>1
<1>3. ASSUME Questions, Poses \/ (Takes /\ pc' = "words") PROVE Goal
  <2>1. PICK q \in Seq(PlainOrders({Extractor})), m \in Query : outbox' = q \o <<m>>
    BY <1>3 DEF Questions
  <2>2. PICK after : after = outbox'
    OBVIOUS
  <2>3. after = q \o <<m>> /\ m \notin Turn
    BY <1>0, <2>1, <2>2
  <2>4. Lacks(after, Turn) /\ Few(after, Help)
    BY <1>0, <2>3, LastFew
  <2>5. pc' \in {"found", "words"}
    BY <1>3 DEF Poses
  <2> QED
    BY <1>3, <2>2, <2>4, <2>5, LacksFew
<1>4. CASE Begins
  <2>1. PICK q \in Seq(PlainOrders(Two)), u \in PlainOrders(Two), v \in PlainOrders(Two),
             k \in KickedOff : outbox' = Append(Append(Append(q, u), v), k)
    BY <1>4, PrepareShape DEF Begins, TypeOK
  <2>2. PICK t : t = Append(Append(q, u), v)
    OBVIOUS
  <2>3. t \in Seq(PlainOrders(Two)) /\ k \notin Help
    BY <1>0, <2>1, <2>2
  <2>4. Lacks(t, Turn) /\ Lacks(t, Help)
    BY <1>0, <2>3, LastFew
  <2>5. Few(Append(t, k), Turn) /\ Lacks(Append(t, k), Help)
    BY <2>3, <2>4, Appending
  <2> QED
    BY <1>4, <2>1, <2>2, <2>5, LacksFew
<1>5. CASE Hands
  <2>1. held \in Handed
    BY <1>5 DEF Hands, OrdersInv, HeldInv
  <2>2. PICK h \in Handed : h = held
    BY <2>1
  <2>3. outbox' = <<h>>
    BY <1>5, <2>2 DEF Hands
  <2>4. Few(outbox', Turn) /\ Lacks(outbox', Help)
    <3>1. DOMAIN <<h>> = {1} /\ <<h>>[1] = h
      OBVIOUS
    <3> QED
      BY <1>0, <2>3, <3>1 DEF Few, Lacks
  <2> QED
    BY <1>5, <2>4, LacksFew
<1>6. ASSUME Takes, pc' # "words" PROVE outbox' = <<>>
  BY <1>6 DEF Takes
<1>7. Poses => Questions
  BY DEF Poses
<1>8. Takes /\ pc' = "words" => Questions
  BY DEF Takes
<1>9. CASE Proceeds \/ Hears
  <2>1. \E ts : outbox' \in Seq(PlainOrders(ts))
    BY <1>9 DEF Proceeds, Hears
  <2> QED
    BY <1>1, <2>1
<1>10. CASE Poses
  BY <1>3, <1>7, <1>10
<1>11. CASE Takes
  <2>1. CASE pc' = "words"
    BY <1>3, <1>8, <1>11, <2>1
  <2>2. CASE pc' # "words"
    BY <1>2, <1>6, <1>11, <2>2
  <2> QED
    BY <2>1, <2>2
<1>12. Goal
  BY <1>4, <1>5, <1>9, <1>10, <1>11 DEF Draws
<1> QED
  BY <1>12

LEMMA SoundBefore ==
  ASSUME TypeOK, Draws
  PROVE  (word' = 1 => word = 1) /\ (Sound' => Sound)
<1>1. word \in Nat /\ word >= 1
  BY LayersAssumption DEF TypeOK, Word, Layer
<1>2. word' \in {word, word + 1} /\ method' = method
  BY DEF Draws, Proceeds, Poses, Hears, Begins, Takes, Hands
<1>3. word' = 1 => word = 1
  BY <1>1, <1>2
<1> QED
  BY <1>2, <1>3 DEF Sound

LEMMA HelpDraws ==
  ASSUME TypeOK, OrdersInv, HelpInv, TurnInv, Draws
  PROVE  HelpInv'
<1> SUFFICES ASSUME Sound'
             PROVE  /\ Single(Contents(HelpBox, outbox)', HelpBox, Help)
                    /\ pc' \in {"found", "words"} \/ Void(Contents(HelpBox, outbox)', HelpBox, Help)
  BY DEF HelpInv
<1> DEFINE f == Contents(HelpBox, outbox)
           g == Contents(HelpBox, outbox)'
<1>1. Sound
  BY SoundBefore
<1>2. Single(f, HelpBox, Help) /\ (pc \in {"found", "words"} \/ Void(f, HelpBox, Help))
  BY <1>1 DEF HelpInv
<1>3. /\ Few(outbox', Help)
      /\ ~(Poses \/ Takes) \/ pc' \notin {"found", "words"} => Lacks(outbox', Help)
  BY DrawnTokens
<1>4. /\ Void(f, HelpBox, Help) /\ Lacks(outbox', Help) => Void(g, HelpBox, Help)
      /\ Void(f, HelpBox, Help) /\ Few(outbox', Help) => Single(g, HelpBox, Help)
      /\ Single(f, HelpBox, Help) /\ toServer # <<>> /\ toServer' = Tail(toServer)
         /\ Head(toServer) \in Help =>
           (Lacks(outbox', Help) => Void(g, HelpBox, Help))
  BY DrawTokens, PairMembers DEF HelpBox
<1>5. CASE pc \notin {"found", "words"}
  <2>1. Void(f, HelpBox, Help) /\ Single(g, HelpBox, Help)
    BY <1>2, <1>3, <1>4, <1>5
  <2>2. pc' \in {"found", "words"} \/ Lacks(outbox', Help)
    BY <1>3
  <2> QED
    BY <1>4, <2>1, <2>2
<1>6. CASE pc \in {"found", "words"}
  <2>1. Hears
    BY <1>6 DEF Draws, Proceeds, Poses, Begins, Takes, Hands
  <2>2. word = 1
    BY <1>1, <1>6 DEF Sound, OrdersInv, HeldInv
  <2>3. Void(Contents(TurnBox, outbox), TurnBox, Turn)
    BY <1>6, <2>2 DEF TurnInv
  <2>4. toServer # <<>> /\ toServer' = Tail(toServer)
    BY <2>1 DEF Hears
  <2>5. Head(toServer) \notin Turn
    BY <2>3, <2>4, NextNoToken DEF TurnBox
  <2>6. Head(toServer) \in Help
    BY <2>4, <2>5, NextAnswer
  <2>7. pc' \notin {"found", "words"}
    BY <2>1 DEF Hears
  <2>8. Void(g, HelpBox, Help)
    BY <1>2, <1>3, <1>4, <2>4, <2>6, <2>7
  <2> QED
    BY <2>8, VoidSingle
<1> QED
  BY <1>5, <1>6

LEMMA TurnDraws ==
  ASSUME TypeOK, OrdersInv, HelpInv, TurnInv, Draws
  PROVE  TurnInv'
<1> SUFFICES ASSUME word' = 1
             PROVE  /\ Single(Contents(TurnBox, outbox)', TurnBox, Turn)
                    /\ pc' \in {"find", "found", "choose", "word", "words", "forward"} =>
                         Void(Contents(TurnBox, outbox)', TurnBox, Turn)
  BY DEF TurnInv
<1> DEFINE f == Contents(TurnBox, outbox)
           g == Contents(TurnBox, outbox)'
<1>1. word = 1 /\ Sound
  BY SoundBefore DEF Sound
<1>2. /\ Single(f, TurnBox, Turn)
      /\ pc \in {"find", "found", "choose", "word", "words", "forward"} => Void(f, TurnBox, Turn)
  BY <1>1 DEF TurnInv
<1>3. Few(outbox', Turn) /\ (~(Begins \/ Hands) => Lacks(outbox', Turn))
  BY DrawnTokens
<1>4. /\ Void(f, TurnBox, Turn) /\ Lacks(outbox', Turn) => Void(g, TurnBox, Turn)
      /\ Void(f, TurnBox, Turn) /\ Few(outbox', Turn) => Single(g, TurnBox, Turn)
      /\ Single(f, TurnBox, Turn) /\ Lacks(outbox', Turn) => Single(g, TurnBox, Turn)
      /\ Single(f, TurnBox, Turn) /\ toServer # <<>> /\ toServer' = Tail(toServer)
         /\ Head(toServer) \in Turn =>
           (Lacks(outbox', Turn) => Void(g, TurnBox, Turn))
  BY DrawTokens, PairMembers DEF TurnBox
<1>5. CASE Begins \/ Hands
  <2>1. pc \in {"word", "forward"} /\ pc' = "exchange"
    BY <1>5 DEF Begins, Hands
  <2> QED
    BY <1>2, <1>3, <1>4, <2>1
<1>6. CASE Poses \/ Hears
  <2>1. pc \in {"find", "found", "words"} /\ Lacks(outbox', Turn)
    BY <1>3, <1>6 DEF Poses, Hears, Begins, Hands
  <2>2. Void(g, TurnBox, Turn)
    BY <1>2, <1>4, <2>1
  <2> QED
    BY <2>2, VoidSingle
<1>7. CASE Proceeds
  <2>1. Lacks(outbox', Turn)
    BY <1>3, <1>7 DEF Proceeds, Begins, Hands
  <2>2. Single(g, TurnBox, Turn)
    BY <1>2, <1>4, <2>1
  <2>3. pc' \in {"choose", "word"} => pc \in {"find", "choose", "word"}
    BY <1>1, <1>7 DEF Proceeds
  <2>4. pc' \in {"choose", "word", "done", "failed", "short", "crashed"}
    BY <1>7 DEF Proceeds
  <2> QED
    BY <1>2, <1>4, <2>1, <2>2, <2>3, <2>4
<1>8. CASE Takes
  <2>1. Lacks(outbox', Turn) /\ pc = "exchange" /\ toServer # <<>> /\ toServer' = Tail(toServer)
    BY <1>3, <1>8 DEF Takes, Begins, Hands
  <2>2. Void(Contents(HelpBox, outbox), HelpBox, Help)
    BY <1>1, <2>1 DEF HelpInv
  <2>3. Head(toServer) \notin Help
    BY <2>1, <2>2, NextNoToken DEF HelpBox
  <2>4. Head(toServer) \in Turn
    BY <2>1, <2>3, NextAnswer
  <2>5. Void(g, TurnBox, Turn)
    BY <1>2, <1>4, <2>1, <2>4
  <2> QED
    BY <2>5, VoidSingle
<1> QED
  BY <1>5, <1>6, <1>7, <1>8 DEF Draws

LEMMA ForwardsDraws ==
  ASSUME TypeOK, OrdersInv, HelpInv, Forwards, Draws
  PROVE  Forwards'
<1> SUFFICES ASSUME Sound', pc' \in {"words", "forward"} PROVE held' # NoMsg
  BY DEF Forwards
<1>1. Sound
  BY SoundBefore
<1>2. CASE Takes
  <2>1. pc = "exchange" /\ toServer # <<>> /\ held' = Handover(Head(toServer))
    BY <1>2 DEF Takes
  <2>2. Void(Contents(HelpBox, outbox), HelpBox, Help)
    BY <1>1, <2>1 DEF HelpInv
  <2>3. Head(toServer) \notin Help
    BY <2>1, <2>2, NextNoToken DEF HelpBox
  <2>4. Head(toServer) \in Message /\ Head(toServer).from \in Two
    BY <2>1, <2>3, NextAnswer
  <2> QED
    BY <2>1, <2>4, HandoverShape
<1>3. CASE Hears
  BY <1>1, <1>3 DEF Hears, Forwards
<1>4. CASE Proceeds \/ Poses \/ Begins \/ Hands
  BY <1>4 DEF Proceeds, Poses, Begins, Hands
<1> QED
  BY <1>2, <1>3, <1>4 DEF Draws

LEMMA TokensStep ==
  ASSUME TypeOK, OrdersInv, TokensInv, [Next]_vars
  PROVE  TokensInv'
<1>1. ASSUME SendCommand \/ (NetNext /\ UNCHANGED jobVars) PROVE TokensInv'
  <2>1. /\ Kept(Contents(HelpBox, outbox)', Contents(HelpBox, outbox), HelpBox, Help)
        /\ Kept(Contents(TurnBox, outbox)', Contents(TurnBox, outbox), TurnBox, Turn)
    BY <1>1, SendTokens, NetTokens, ClosedTurns, ClosedHelp, PairMembers DEF HelpBox, TurnBox
  <2>2. UNCHANGED <<word, method, pc, held>>
    BY <1>1 DEF SendCommand, jobVars
  <2>3. (Sound' <=> Sound)
    BY <2>2 DEF Sound
  <2>4. HelpInv'
    BY <2>1, <2>2, <2>3 DEF TokensInv, HelpInv, Kept
  <2>5. TurnInv'
    BY <2>1, <2>2 DEF TokensInv, TurnInv, Kept
  <2>6. Forwards'
    BY <2>2, <2>3 DEF TokensInv, Forwards
  <2> QED
    BY <2>4, <2>5, <2>6 DEF TokensInv
<1>2. ASSUME Draws PROVE TokensInv'
  BY <1>2, HelpDraws, TurnDraws, ForwardsDraws DEF TokensInv
<1>3. CASE UNCHANGED vars
  <2>1. /\ Contents(HelpBox, outbox)' = Contents(HelpBox, outbox)
        /\ Contents(TurnBox, outbox)' = Contents(TurnBox, outbox)
        /\ UNCHANGED <<word, method, pc, held>>
    BY <1>3 DEF Contents, Content, Hand, vars, netVars, jobVars, queueVars, agentVars
  <2> QED
    BY <2>1 DEF TokensInv, HelpInv, TurnInv, Forwards, Sound
<1> QED
  BY <1>1, <1>2, <1>3, JobShape DEF Next

LEMMA TokensInit == Init => TokensInv
<1> SUFFICES ASSUME Init PROVE TokensInv
  OBVIOUS
<1>1. /\ NetInit /\ outbox = <<>> /\ pc = "find"
      /\ Channels \in SUBSET Channels /\ Two \in SUBSET Agent /\ Helpers \in SUBSET Agent
  BY PairMembers DEF Init
<1>2. /\ Void(Contents(HelpBox, <<>>), HelpBox, Help)
      /\ Void(Contents(TurnBox, <<>>), TurnBox, Turn)
  BY <1>1, NothingYet DEF HelpBox, TurnBox
<1>3. /\ Void(Contents(HelpBox, outbox), HelpBox, Help)
      /\ Void(Contents(TurnBox, outbox), TurnBox, Turn)
  BY <1>1, <1>2
<1> QED
  BY <1>1, <1>3, VoidSingle DEF TokensInv, HelpInv, TurnInv, Forwards

-----------------------------------------------------------------------------
(***************************************************************************)
(* The turn goes on: what the two agents do with what is on its way.       *)
(***************************************************************************)

Replies    == {m \in Message : m.cmd = "NoCommand" /\ m.from \in Two}
Awaited(a) == {m \in Orders : m.to = a /\ m.cmd \in TurnCommand}
Others(a)  == Mine(a) \ Awaited(a)

\* The agent has a request that will be answered, unless it fails.
Works(a) == \E k \in DOMAIN calls[a] : ~calls[a][k].cancelled

\* As long as one of the two lives, orders are only sent to it when it is
\* connected.
AliveInv ==
  \A a \in Two :
    /\ \A k \in DOMAIN calls[a] : calls[a][k].typed
    /\ alive[a] => /\ a \in connected \/ (Lacks(toClients, Mine(a)) /\ Lacks(outbox, Mine(a)))
                   /\ AtWork => a \in connected

\* The generator, if it lives, is unlatched whenever it is kicked off.
HearInv ==
  alive[Generator] =>
    Ready(Generator, ~latch[Generator], Unlatches(Generator), Latches(Generator),
          Kickoffs(Generator), outbox)

\* Somebody's answer is under way, or one of the two has a request that no
\* order on the way cancels, or will have one when it has obeyed them all.
GoingOn ==
  \/ ~Unsaid(Replies)
  \/ \E a \in Two : Settled(a, Works(a), Awaited(a), Others(a), outbox)

BothLive == alive[Generator] /\ alive[Adversary]

GoesOnInv == pc = "exchange" /\ BothLive /\ Sound => GoingOn

LEMMA AwaitedAre ==
  ASSUME NEW a \in Two
  PROVE  /\ Awaited(a) \subseteq Mine(a) /\ Others(a) \subseteq Mine(a)
         /\ Mine(a) = Awaited(a) \cup Others(a)
         /\ Latches(a) \subseteq Mine(a) /\ Unlatches(a) \subseteq Mine(a)
         /\ Kickoffs(a) \subseteq Mine(a)
  BY DEF Awaited, Others, Mine, Latches, Unlatches, Kickoffs

\* What one of the two takes is an order of the jobs.
LEMMA TakenOrder ==
  ASSUME TypeOK, OrdersInv, NEW a \in Two, AgentRoute(a)
  PROVE  /\ toAgent[a] # <<>> /\ Inbox(a) \in JobOrders /\ Inbox(a) \in Mine(a)
         /\ Inbox(a).cmd # "NoCommand"
         /\ Inbox(a).cmd = "SendInitialMessage" => a = Generator
         /\ Inbox(a) \in Awaited(a) => Inbox(a).cmd \in TypedRequest \cup {"SendInitialMessage"}
         /\ Inbox(a).cmd \in TypedRequest => Inbox(a) \in Awaited(a)
<1>0. a \in Agent
  BY PairMembers
<1>1. toAgent[a] # <<>>
  BY <1>0, RouteShape DEF Routed, TypeOK
<1>2. toAgent[a] \in Seq(To(a, JobOrders))
  BY <1>0 DEF OrdersInv, Signed
<1>3. PICK m : m = Inbox(a)
  OBVIOUS
<1>4. m \in To(a, JobOrders)
  BY <1>1, <1>2, <1>3 DEF Inbox
<1>5. m \in JobOrders /\ m.to = a /\ m \in Orders
  BY <1>4, SpeechGoes, JobOrdersAre DEF To
<1>6. m.cmd # "NoCommand" /\ (m.cmd = "SendInitialMessage" => a = Generator)
      /\ (m.cmd \in TypedRequest => m.cmd \in TurnCommand)
  BY <1>5, PairMembers DEF JobOrders, PlainOrders, Query, Handed, KickedOff, Asking,
     TypedRequest, TurnCommand, Two
<1>7. m \in Mine(a) /\ (m \in Awaited(a) <=> m.cmd \in TurnCommand)
  BY <1>5 DEF Mine, Awaited
<1>8. m.cmd \in TurnCommand => m.cmd \in TypedRequest \cup {"SendInitialMessage"}
  BY DEF TurnCommand, TypedRequest
<1> QED
  BY <1>1, <1>3, <1>5, <1>6, <1>7, <1>8

LEMMA RouteCalls ==
  ASSUME NetTypeOK, NEW a \in Agent, AgentRoute(a)
  PROVE  /\ calls'[a] = Cancelled(calls[a]) \/ \E c \in Call : calls'[a] = Append(Cancelled(calls[a]), c)
         /\ \A b \in Agent \ {a} : calls'[b] = calls[b]
         /\ Inbox(a).cmd \in TypedRequest =>
              \E c \in Call : ~c.cancelled /\ c.typed /\ calls'[a] = Append(Cancelled(calls[a]), c)
         /\ Inbox(a).cmd \notin Asking => calls'[a] = Cancelled(calls[a])
<1>0. calls \in [Agent -> Seq(Call)]
  BY DEF NetTypeOK
<1>1. Routed(a)
  BY RouteShape
<1>2. CASE Inbox(a).cmd \notin Asking
  <2>1. calls' = [calls EXCEPT ![a] = Cancelled(@)]
    BY <1>1, <1>2 DEF Routed, CancelPrevious
  <2> QED
    BY <1>0, <1>2, <2>1 DEF Asking
<1>3. CASE Inbox(a).cmd \in Asking
  <2>1. PICK c \in Call : calls' = [calls EXCEPT ![a] = Append(Cancelled(@), c)]
    BY <1>1, <1>3 DEF Routed, Spawn
  <2>2. calls'[a] = Append(Cancelled(calls[a]), c) /\ \A b \in Agent \ {a} : calls'[b] = calls[b]
    BY <1>0, <2>1
  <2>3. ASSUME Inbox(a).cmd \in TypedRequest
        PROVE  \E d \in Call : ~d.cancelled /\ d.typed /\ calls'[a] = Append(Cancelled(calls[a]), d)
    <3>1. OnRequest(a)
      BY <2>3 DEF AgentRoute, OnAppendInstructions, OnSetInstructions, OnResetInstructions,
         OnClearMemory, OnLatch, OnUnlatch, OnSendInitialMessage, OnText, Receives, TypedRequest
    <3>2. Inbox(a).about \in SUBSET Layer
      <4>1. toAgent[a] # <<>> /\ toAgent[a] \in Seq(Message)
        BY <1>1 DEF Routed, NetTypeOK
      <4>2. Inbox(a) \in Message
        BY <4>1 DEF Inbox
      <4> QED
        BY <4>2, MessageFields
    <3>3. PICK d : d = Spawned(TRUE, Inbox(a).about)
      OBVIOUS
    <3>4. d \in Call /\ ~d.cancelled /\ d.typed
      BY <3>2, <3>3, SpawnedType DEF Spawned
    <3>5. calls'[a] = Append(Cancelled(calls[a]), d)
      BY <1>0, <3>1, <3>3 DEF OnRequest, Spawn
    <3> QED
      BY <3>4, <3>5
  <2> QED
    BY <1>3, <2>2, <2>3
<1> QED
  BY <1>2, <1>3

LEMMA CancelledCalls ==
  ASSUME NEW cs \in Seq(Call)
  PROVE  /\ Cancelled(cs) \in Seq(Call) /\ DOMAIN Cancelled(cs) = DOMAIN cs
         /\ \A k \in DOMAIN cs : Cancelled(cs)[k].typed = cs[k].typed
<1>1. \A k \in DOMAIN cs : cs[k] \in Call
  BY ElementOfSeq
<1>2. \A c \in Call : [c EXCEPT !.cancelled = TRUE].typed = c.typed
  BY DEF Call
<1> QED
  BY <1>1, <1>2, CancelledType DEF Cancelled

LEMMA WithoutOne ==
  ASSUME NEW cs \in Seq(Call), NEW k \in DOMAIN cs
  PROVE  /\ \A j \in DOMAIN Without(cs, k) : \E i \in DOMAIN cs : Without(cs, k)[j] = cs[i]
         /\ \A i \in DOMAIN cs \ {k} : \E j \in DOMAIN Without(cs, k) : Without(cs, k)[j] = cs[i]
<1>1. DOMAIN cs = 1 .. Len(cs) /\ Len(cs) \in Nat
  BY LenProperties
<1>2. DOMAIN Without(cs, k) = 1 .. Len(cs) - 1
  BY DEF Without
<1>3. \A j \in DOMAIN Without(cs, k) : Without(cs, k)[j] = IF j < k THEN cs[j] ELSE cs[j + 1]
  BY DEF Without
<1>4. \A j \in DOMAIN Without(cs, k) : j \in DOMAIN cs /\ j + 1 \in DOMAIN cs
  BY <1>1, <1>2
<1>5. ASSUME NEW i \in DOMAIN cs, i # k
      PROVE  \E j \in DOMAIN Without(cs, k) : Without(cs, k)[j] = cs[i]
  <2>1. CASE i < k
    <3>1. i \in DOMAIN Without(cs, k)
      BY <1>1, <1>2, <1>5, <2>1
    <3> QED
      BY <1>3, <2>1, <3>1
  <2>2. CASE ~(i < k)
    <3>1. i - 1 \in DOMAIN Without(cs, k) /\ ~(i - 1 < k) /\ i - 1 + 1 = i
      BY <1>1, <1>2, <1>5, <2>2
    <3> QED
      BY <1>3, <3>1
  <2> QED
    BY <2>1, <2>2
<1> QED
  BY <1>3, <1>4, <1>5

\* A request of one of the two is typed, so a cancelled context does not kill
\* its agent.
LEMMA NetTypedCalls ==
  ASSUME TypeOK, OrdersInv, AliveInv, NetNext, NEW a \in Two
  PROVE  \A k \in DOMAIN calls'[a] : calls'[a][k].typed
<1>0. /\ a \in Agent /\ calls \in [Agent -> Seq(Call)] /\ calls[a] \in Seq(Call)
      /\ \A k \in DOMAIN calls[a] : calls[a][k].typed
  BY PairMembers DEF TypeOK, NetTypeOK, AliveInv
<1>1. CASE calls'[a] = calls[a]
  BY <1>0, <1>1
<1>2. CASE AgentRoute(a)
  <2>1. Inbox(a).cmd \in TypedRequest \/ Inbox(a).cmd \notin Asking
    BY <1>2, TakenOrder DEF Asking
  <2>2. /\ Cancelled(calls[a]) \in Seq(Call)
        /\ \A k \in DOMAIN Cancelled(calls[a]) : Cancelled(calls[a])[k].typed
    BY <1>0, CancelledCalls
  <2>3. CASE calls'[a] = Cancelled(calls[a])
    BY <2>2, <2>3
  <2>4. ASSUME NEW c \in Call, c.typed, calls'[a] = Append(Cancelled(calls[a]), c)
        PROVE  \A k \in DOMAIN calls'[a] : calls'[a][k].typed
    <3>1. PICK cs : cs = Cancelled(calls[a])
      OBVIOUS
    <3>2. cs \in Seq(Call) /\ \A k \in DOMAIN cs : cs[k].typed
      BY <2>2, <3>1
    <3>3. \A k \in DOMAIN Append(cs, c) : Append(cs, c)[k].typed
      BY <2>4, <3>2
    <3> QED
      BY <2>4, <3>1, <3>3
  <2> QED
    BY <1>0, <1>2, <2>1, <2>3, <2>4, RouteCalls DEF TypeOK
<1>3. ASSUME NEW k \in DOMAIN calls[a], CallStep(a, k)
      PROVE  \A j \in DOMAIN calls'[a] : calls'[a][j].typed
  <2>0. calls[a][k] \in Call /\ calls[a][k].typed
    BY <1>0, <1>3, ElementOfSeq
  <2>1. CASE Die(a)
    BY <1>0, <2>1 DEF Die
  <2>2. CASE Quit(a, k)
    <3>1. calls'[a] = Without(calls[a], k)
      BY <1>0, <2>2 DEF Quit
    <3> QED
      BY <1>0, <1>3, <3>1, WithoutOne
  <2>3. ASSUME NEW c, c.typed, Becomes(a, k, c)
        PROVE  \A j \in DOMAIN calls'[a] : calls'[a][j].typed
    <3>1. calls'[a] = [calls[a] EXCEPT ![k] = c]
      BY <1>0, <2>3 DEF Becomes
    <3> QED
      BY <1>0, <2>3, <3>1
  <2>4. CASE StartTyped(a, k) \/ SaveTyped(a, k)
    <3>1. Started(calls[a][k]).typed /\ Saved(calls[a][k]).typed
      BY <2>0 DEF Started, Saved, Call
    <3> QED
      BY <2>2, <2>3, <2>4, <3>1 DEF StartTyped, SaveTyped
  <2>5. CASE Retrieve(a, k)
    <3>1. Asked(calls[a][k], stm[a]).typed
      BY <2>0 DEF Asked, Call
    <3> QED
      BY <2>1, <2>3, <2>5, <3>1 DEF Retrieve
  <2>6. CASE Post(a, k)
    <3>1. Posted(calls[a][k], instr[a]).typed
      BY <2>0 DEF Posted, Call
    <3> QED
      BY <2>3, <2>6, <3>1 DEF Post
  <2>7. CASE Answer(a, k) \/ GiveUp(a, k) \/ CancelKills(a, k) \/ LlmFails(a, k)
    BY <2>1, <2>2, <2>7 DEF Answer, GiveUp, CancelKills, LlmFails
  <2> QED
    BY <1>3, <2>4, <2>5, <2>6, <2>7 DEF CallStep
<1>4. CASE ~AgentRoute(a) /\ \A k \in DOMAIN calls[a] : ~CallStep(a, k)
  <2>1. calls'[a] = calls[a]
    BY <1>0, <1>4, LeftAlone DEF TypeOK
  <2> QED
    BY <1>1, <2>1
<1> QED
  BY <1>2, <1>3, <1>4

LEMMA NetAlive ==
  ASSUME TypeOK, OrdersInv, AliveInv, NetNext, UNCHANGED jobVars
  PROVE  AliveInv'
<1>1. \A a \in Two : \A k \in DOMAIN calls'[a] : calls'[a][k].typed
  BY NetTypedCalls
<1>2. ASSUME NEW a \in Two, alive'[a]
      PROVE  /\ a \in connected' \/ (Lacks(toClients', Mine(a)) /\ Lacks(outbox', Mine(a)))
             /\ AtWork' => a \in connected'
  <2>0. a \in Agent /\ NetTypeOK
    BY PairMembers DEF TypeOK
  <2>1. alive[a] /\ UNCHANGED <<pc, outbox>>
    BY <1>2, <2>0, StaysConnected DEF jobVars
  <2>2. a \in connected => a \in connected'
    BY <1>2, <2>0, StaysConnected
  <2>3. Lacks(toClients, Mine(a)) => Lacks(toClients', Mine(a))
    <3>1. JobOrders \in SUBSET Orders /\ Signed(JobOrders)
      BY JobOrdersAre DEF OrdersInv
    <3>2. PICK t : t = toClients
      OBVIOUS
    <3>3. t \in Seq(Message)
      BY <2>0, <3>2 DEF NetTypeOK
    <3>4. CASE toClients' = t
      BY <3>2, <3>4
    <3>5. ASSUME NEW y \in Speech, toClients' = Append(t, y)
          PROVE  Lacks(toClients, Mine(a)) => Lacks(toClients', Mine(a))
      <4>1. y \notin Mine(a)
        BY SpeechGoes DEF Mine
      <4> QED
        BY <3>2, <3>3, <3>5, <4>1, Appending
    <3>6. CASE t # <<>> /\ toClients' = Tail(t)
      <4>1. Lacks(t, Mine(a)) => Lacks(Tail(t), Mine(a))
        BY <3>3, <3>6, NoneTail
      <4> QED
        BY <3>2, <3>6, <4>1
    <3> QED
      BY <2>0, <2>1, <3>1, <3>2, <3>4, <3>5, <3>6, NetMoves
  <2> QED
    BY <1>2, <2>1, <2>2, <2>3 DEF AliveInv, AtWork
<1> QED
  BY <1>1, <1>2 DEF AliveInv

\* A step of another leaves an agent's latch alone.
LEMMA LatchStays ==
  ASSUME NetTypeOK, NEW a \in Agent, NetNext, ~AgentRoute(a)
  PROVE  latch'[a] = latch[a]
<1>0. latch \in [Agent -> BOOLEAN]
  BY DEF NetTypeOK
<1>1. ASSUME NEW b \in Agent, AgentRoute(b) PROVE latch'[a] = latch[a]
  BY <1>0, <1>1, LatchShape
<1>2. ASSUME NEW b \in Agent, NEW k \in DOMAIN calls[b], CallStep(b, k) PROVE latch'[a] = latch[a]
  BY <1>2, RequestShape DEF Requested
<1>3. ASSUME NEW b \in Agent, Join(b) \/ Listen(b) \/ Disconnect(b) PROVE latch'[a] = latch[a]
  BY <1>3 DEF Join, Listen, Disconnect, agentVars
<1>4. CASE RouterForward \/ RouterDispatch
  BY <1>4 DEF RouterForward, RouterDispatch, agentVars
<1> QED
  BY <1>1, <1>2, <1>3, <1>4 DEF NetNext, AgentStep

\* An agent's request is answered or goes on, unless the next order cancels it.
LEMMA WorksOn ==
  ASSUME TypeOK, NetNext, NEW a \in Two, alive'[a], ~AgentRoute(a), Works(a)
  PROVE  Works(a)' \/ ~Lacks(fromAgent'[a], Replies)
<1>0. /\ a \in Agent /\ calls \in [Agent -> Seq(Call)] /\ calls[a] \in Seq(Call)
      /\ fromAgent \in [Agent -> Seq(Message)]
  BY PairMembers DEF TypeOK, NetTypeOK
<1>1. CASE calls'[a] = calls[a]
  BY <1>1 DEF Works
<1>2. ASSUME NEW k \in DOMAIN calls[a], CallStep(a, k)
      PROVE  Works(a)' \/ ~Lacks(fromAgent'[a], Replies)
  <2>0. calls[a][k] \in Call
    BY <1>0, <1>2, ElementOfSeq
  <2>1. CASE Die(a)
    <3>1. ~alive'[a]
      BY <1>0, <2>1 DEF Die, TypeOK, NetTypeOK
    <3> QED
      BY <3>1
  <2>2. CASE Quit(a, k) /\ calls[a][k].cancelled
    <3>1. calls'[a] = Without(calls[a], k)
      BY <1>0, <2>2 DEF Quit
    <3>2. PICK i \in DOMAIN calls[a] : ~calls[a][i].cancelled
      BY DEF Works
    <3>3. i # k
      BY <2>2, <3>2
    <3>4. \E j \in DOMAIN calls'[a] : calls'[a][j] = calls[a][i]
      BY <1>0, <1>2, <3>1, <3>2, <3>3, WithoutOne
    <3> QED
      BY <3>2, <3>4 DEF Works
  <2>3. ASSUME NEW c, c.cancelled = calls[a][k].cancelled, Becomes(a, k, c)
        PROVE  Works(a)'
    <3>1. calls'[a] = [calls[a] EXCEPT ![k] = c]
      BY <1>0, <2>3 DEF Becomes
    <3> QED
      BY <1>0, <2>3, <3>1 DEF Works
  <2>4. CASE Answer(a, k)
    <3>1. PICK json \in BOOLEAN :
            fromAgent' = [fromAgent EXCEPT ![a] = Append(@, Reply(a, calls[a][k], json))]
      BY <2>4 DEF Answer
    <3>2. PICK y : y = Reply(a, calls[a][k], json)
      OBVIOUS
    <3>3. y \in Replies
      <4>1. y \in Said(a)
        BY <1>0, <2>0, <3>2, SpokenInTurn
      <4> QED
        BY <4>1 DEF Said, Speech, Replies
    <3>4. fromAgent'[a] = Append(fromAgent[a], y) /\ fromAgent[a] \in Seq(Message)
      BY <1>0, <3>1, <3>2
    <3> QED
      BY <3>3, <3>4, Appending
  <2>5. CASE StartTyped(a, k) \/ SaveTyped(a, k)
    <3>1. /\ Started(calls[a][k]).cancelled = calls[a][k].cancelled
          /\ Saved(calls[a][k]).cancelled = calls[a][k].cancelled
      BY <2>0 DEF Started, Saved, Call
    <3> QED
      BY <2>2, <2>3, <2>5, <3>1 DEF StartTyped, SaveTyped
  <2>6. CASE Retrieve(a, k)
    <3>1. Asked(calls[a][k], stm[a]).cancelled = calls[a][k].cancelled
      BY <2>0 DEF Asked, Call
    <3> QED
      BY <2>1, <2>3, <2>6, <3>1 DEF Retrieve
  <2>7. CASE Post(a, k)
    <3>1. Posted(calls[a][k], instr[a]).cancelled = calls[a][k].cancelled
      BY <2>0 DEF Posted, Call
    <3> QED
      BY <2>3, <2>7, <3>1 DEF Post
  <2>8. CASE CancelKills(a, k) \/ LlmFails(a, k)
    BY <2>1, <2>8 DEF CancelKills, LlmFails
  <2>9. CASE GiveUp(a, k)
    BY <2>2, <2>9 DEF GiveUp
  <2> QED
    BY <1>2, <2>4, <2>5, <2>6, <2>7, <2>8, <2>9 DEF CallStep
<1>3. CASE \A k \in DOMAIN calls[a] : ~CallStep(a, k)
  <2>1. calls'[a] = calls[a]
    BY <1>0, <1>3, LeftAlone DEF TypeOK
  <2> QED
    BY <1>1, <2>1
<1> QED
  BY <1>2, <1>3


\* No answer of the two is lost before the jobs take it, as long as they live.
LEMMA SaidStays ==
  ASSUME TypeOK, OrdersInv, NetNext, BothLive', ~Unsaid(Replies)
  PROVE  ~Unsaid(Replies)'
<1>0. /\ NetTypeOK /\ toClients \in Seq(Message) /\ toServer \in Seq(Message)
      /\ fromAgent \in [Agent -> Seq(Message)]
      /\ \A c \in Agent : fromAgent[c] \in Seq(Message)
  BY DEF TypeOK, NetTypeOK
<1> DEFINE Holds(s, t) == ~Lacks(s, Replies) => ~Lacks(t, Replies)
           Queues == /\ Holds(toClients, toClients') /\ Holds(Hand(routerHand), Hand(routerHand)')
                     /\ Holds(toServer, toServer')
           Streams == \A c \in Agent : Holds(fromAgent[c], fromAgent'[c])
<1>1. ASSUME NEW s \in Seq(Message), NEW y PROVE Holds(s, Append(s, y))
  BY Appending
<1>2. CASE Queues /\ Streams
  BY <1>2 DEF Unsaid
<1>3. UNCHANGED queueVars => Queues
  BY DEF queueVars, Hand
<1>4. UNCHANGED fromAgent => Streams
  OBVIOUS
<1>5. ASSUME NEW b \in Agent, NEW y, fromAgent' = [fromAgent EXCEPT ![b] = Append(@, y)]
      PROVE  Streams
  <2> SUFFICES ASSUME NEW c \in Agent PROVE Holds(fromAgent[c], fromAgent'[c])
    OBVIOUS
  <2>1. Holds(fromAgent[c], Append(fromAgent[c], y))
    BY <1>0, <1>1
  <2>2. fromAgent'[c] = fromAgent[c] \/ fromAgent'[c] = Append(fromAgent[c], y)
    BY <1>0, <1>5
  <2> QED
    BY <2>1, <2>2
<1>6. ASSUME NEW b \in Agent, AgentRoute(b) PROVE Queues /\ Streams
  BY <1>0, <1>3, <1>4, <1>5, <1>6, RouteShape DEF Routed
<1>7. ASSUME NEW b \in Agent, NEW k \in DOMAIN calls[b], CallStep(b, k) PROVE Queues /\ Streams
  BY <1>0, <1>3, <1>4, <1>5, <1>7, RequestShape DEF Requested
<1>8. ASSUME NEW b \in Agent, Join(b) PROVE Queues /\ Streams
  BY <1>3, <1>4, <1>8 DEF Join, agentVars
<1>9. ASSUME NEW b \in Agent, Disconnect(b) PROVE Queues /\ Streams
  <2>1. b \notin Two
    BY <1>9 DEF Disconnect, BothLive, Two
  <2>2. fromAgent[b] \in Seq(Said(b))
    BY DEF OrdersInv, Signed
  <2>3. Lacks(fromAgent[b], Replies)
    BY <2>1, <2>2, ElementOfSeq DEF Lacks, Said, Replies
  <2>4. \A c \in Agent : c # b => fromAgent'[c] = fromAgent[c]
    BY <1>0, <1>9 DEF Disconnect
  <2> QED
    BY <1>3, <1>9, <2>3, <2>4 DEF Disconnect
<1>10. ASSUME NEW b \in Agent, Listen(b) PROVE ~Unsaid(Replies)'
  <2>1. PICK s, y : s = fromAgent[b] /\ y = Head(s)
    OBVIOUS
  <2>2. /\ s \in Seq(Message) /\ s # <<>> /\ toClients' = Append(toClients, y)
        /\ UNCHANGED <<routerHand, toServer>> /\ fromAgent' = [fromAgent EXCEPT ![b] = Tail(s)]
    BY <1>0, <1>10, <2>1 DEF Listen
  <2>3. fromAgent'[b] = Tail(s) /\ \A c \in Agent : c # b => fromAgent'[c] = fromAgent[c]
    BY <1>0, <2>2
  <2>4. Lacks(Append(toClients, y), Replies) <=> Lacks(toClients, Replies) /\ y \notin Replies
    BY <1>0, Appending
  <2>5. y \notin Replies /\ Lacks(Tail(s), Replies) => Lacks(s, Replies)
    BY <2>1, <2>2, NoneLeft
  <2>6. Hand(routerHand)' = Hand(routerHand)
    BY <2>2 DEF Hand
  <2> QED
    BY <2>1, <2>2, <2>3, <2>4, <2>5, <2>6 DEF Unsaid
<1>11. ASSUME RouterForward PROVE ~Unsaid(Replies)'
  <2>1. PICK t, m : t = toClients /\ m = Head(t)
    OBVIOUS
  <2>2. /\ routerHand = NoMsg /\ t # <<>> /\ t \in Seq(Message) /\ toClients' = Tail(t)
        /\ routerHand' = (IF IsAgentMsg(m) THEN m ELSE NoMsg) /\ UNCHANGED <<toServer, fromAgent>>
    BY <1>0, <1>11, <2>1 DEF RouterForward
  <2>3. m \notin Replies /\ Lacks(Tail(t), Replies) => Lacks(t, Replies)
    BY <2>1, <2>2, NoneLeft
  <2>4. Lacks(Hand(routerHand), Replies)
    BY <2>2, EmptyLacks DEF Hand
  <2>5. m \in Replies => ~Lacks(Hand(routerHand)', Replies)
    <3> SUFFICES ASSUME m \in Replies PROVE ~Lacks(Hand(routerHand)', Replies)
      OBVIOUS
    <3>1. IsAgentMsg(m) /\ m # NoMsg
      BY AgentAssumption, NoMsgAssumption, PairMembers DEF IsAgentMsg, Replies
    <3>2. Hand(routerHand)' = <<m>> /\ 1 \in DOMAIN <<m>> /\ <<m>>[1] = m
      BY <2>2, <3>1 DEF Hand
    <3> QED
      BY <3>2 DEF Lacks
  <2> QED
    BY <2>1, <2>2, <2>3, <2>4, <2>5 DEF Unsaid
<1>12. ASSUME RouterDispatch PROVE ~Unsaid(Replies)'
  <2>1. PICK m : m = routerHand
    OBVIOUS
  <2>2. UNCHANGED <<toClients, fromAgent>> /\ m # NoMsg /\ Hand(routerHand) = <<m>>
        /\ (toServer' = toServer \/ toServer' = Append(toServer, m))
    BY <1>12, <2>1 DEF RouterDispatch, agentVars, Hand
  <2>3. CASE m \in Replies
    <3>1. LayerOf[m.from] = 0
      BY <2>3, PairMembers DEF Replies
    <3>2. toServer' = Append(toServer, m)
      BY <1>12, <2>1, <3>1 DEF RouterDispatch
    <3> QED
      BY <1>0, <2>3, <3>2, Appending DEF Unsaid
  <2>4. CASE m \notin Replies
    <3>1. Lacks(Hand(routerHand), Replies)
      BY <2>2, <2>4 DEF Lacks
    <3>2. Holds(toServer, Append(toServer, m))
      BY <1>0, <1>1
    <3> QED
      BY <2>2, <3>1, <3>2 DEF Unsaid
  <2> QED
    BY <2>3, <2>4
<1> QED
  BY <1>2, <1>6, <1>7, <1>8, <1>9, <1>10, <1>11, <1>12 DEF NetNext, AgentStep

\* An order that is awaited gives the agent a request, or makes the generator
\* say what it is kicked off with.
LEMMA RouteTurn ==
  ASSUME TypeOK, OrdersInv, NEW a \in Two, AgentRoute(a), Inbox(a) \in Awaited(a),
         Inbox(a).cmd = "SendInitialMessage" => ~latch[a]
  PROVE  Works(a)' \/ ~Lacks(fromAgent'[a], Replies)
<1>0. /\ a \in Agent /\ NetTypeOK /\ fromAgent \in [Agent -> Seq(Message)]
      /\ fromAgent[a] \in Seq(Message) /\ calls[a] \in Seq(Call)
  BY PairMembers DEF TypeOK, NetTypeOK
<1>1. CASE Inbox(a).cmd \in TypedRequest
  <2>1. PICK c \in Call : ~c.cancelled /\ calls'[a] = Append(Cancelled(calls[a]), c)
    BY <1>0, <1>1, RouteCalls
  <2>2. PICK cs : cs = Cancelled(calls[a])
    OBVIOUS
  <2>3. cs \in Seq(Call)
    BY <1>0, <2>2, CancelledCalls
  <2>4. Len(cs) + 1 \in DOMAIN Append(cs, c) /\ Append(cs, c)[Len(cs) + 1] = c
    BY <2>3
  <2> QED
    BY <2>1, <2>2, <2>4 DEF Works
<1>2. CASE Inbox(a).cmd = "SendInitialMessage"
  <2>1. OnSendInitialMessage(a) /\ ~latch[a]
    BY <1>2 DEF AgentRoute, OnAppendInstructions, OnSetInstructions, OnResetInstructions,
       OnClearMemory, OnLatch, OnUnlatch, OnRequest, OnText, Receives, TypedRequest
  <2>2. PICK y : y = Opening(a)
    OBVIOUS
  <2>3. fromAgent' = [fromAgent EXCEPT ![a] = Append(@, y)]
    BY <2>1, <2>2 DEF OnSendInitialMessage
  <2>4. y \in Replies
    <3>1. toAgent[a] # <<>> /\ toAgent[a] \in Seq(Message)
      BY <1>0, TakenOrder DEF NetTypeOK
    <3>2. Inbox(a) \in Message
      BY <3>1 DEF Inbox
    <3>3. Inbox(a).about \in SUBSET Layer /\ Inbox(a).json \in BOOLEAN
      BY <3>2 DEF Message
    <3>4. y \in Said(a)
      BY <1>0, <2>2, <3>3, SpokenInTurn DEF Opening
    <3> QED
      BY <3>4 DEF Said, Speech, Replies
  <2>5. fromAgent'[a] = Append(fromAgent[a], y)
    BY <1>0, <2>3
  <2> QED
    BY <1>0, <2>4, <2>5, Appending
<1> QED
  BY <1>1, <1>2, TakenOrder

\* The generator is not latched when it takes its kickoff.
LEMMA KickoffTaken ==
  ASSUME TypeOK, OrdersInv, HearInv, NEW a \in Two, AgentRoute(a),
         Inbox(a).cmd = "SendInitialMessage"
  PROVE  ~latch[a]
<1>0. a \in Agent /\ NetTypeOK /\ a = Generator /\ latch \in [Agent -> BOOLEAN]
  BY PairMembers, TakenOrder DEF TypeOK, NetTypeOK
<1>a. alive[a]
  BY <1>0, RouteShape DEF Routed
<1>1. PICK m : m = Head(toAgent[a])
  OBVIOUS
<1>2. m \in Kickoffs(a)
  <2>1. m \in Mine(a)
    BY <1>1, TakenOrder DEF Inbox
  <2> QED
    BY <1>1, <2>1 DEF Mine, Kickoffs, Inbox
<1>3. PICK f \in BOOLEAN : f = ~latch[a]
  BY <1>0
<1>4. PICK out : out = outbox
  OBVIOUS
<1>5. Ready(a, f, Unlatches(a), Latches(a), Kickoffs(a), out)
  BY <1>0, <1>a, <1>3, <1>4 DEF HearInv
<1>6. PICK g \in BOOLEAN : g <=> m \in Unlatches(a) \/ (f /\ m \notin Latches(a))
  OBVIOUS
<1>7. m \in Kickoffs(a) => f
  BY <1>0, <1>1, <1>5, <1>6, FlagTaken
<1> QED
  BY <1>2, <1>3, <1>7

LEMMA NetHears ==
  ASSUME TypeOK, OrdersInv, AliveInv, HearInv, NetNext, UNCHANGED jobVars
  PROVE  HearInv'
<1> SUFFICES ASSUME alive'[Generator]
             PROVE  Ready(Generator, ~latch[Generator], Unlatches(Generator), Latches(Generator),
                          Kickoffs(Generator), outbox)'
  BY DEF HearInv
<1>0. PICK a \in Two : a = Generator
  BY DEF Two
<1>1. /\ a \in Agent /\ NetTypeOK /\ latch \in [Agent -> BOOLEAN]
      /\ JobOrders \in SUBSET Orders /\ Signed(JobOrders)
      /\ latch[a] \in BOOLEAN /\ outbox' = outbox
  BY PairMembers, JobOrdersAre DEF TypeOK, NetTypeOK, OrdersInv, jobVars
<1>a. alive'[a] /\ alive[a]
  BY <1>0, <1>1, StaysConnected
<1>2. PICK f \in BOOLEAN : f = ~latch[a]
  BY <1>1
<1>3. PICK out : out = outbox
  OBVIOUS
<1>4. Ready(a, f, Unlatches(a), Latches(a), Kickoffs(a), out)
  BY <1>0, <1>a, <1>2, <1>3 DEF HearInv
<1>5. \E g \in BOOLEAN : /\ g = ~latch'[a]
                         /\ Ready(a, g, Unlatches(a), Latches(a), Kickoffs(a), out)'
  <2>1. CASE AgentRoute(a)
    <3>1. PICK m : m = Head(toAgent[a])
      OBVIOUS
    <3>2. m \in Mine(a) /\ m = Inbox(a)
      BY <2>1, <3>1, TakenOrder DEF Inbox
    <3>3. /\ m \in Unlatches(a) <=> Inbox(a).cmd = "Unlatch"
          /\ m \in Latches(a) <=> Inbox(a).cmd = "Latch"
      BY <3>2 DEF Mine, Latches, Unlatches
    <3>4. PICK g \in BOOLEAN : g <=> m \in Unlatches(a) \/ (f /\ m \notin Latches(a))
      OBVIOUS
    <3>5. /\ Inbox(a).cmd = "Latch" => latch'[a] = TRUE
          /\ Inbox(a).cmd = "Unlatch" => latch'[a] = FALSE
          /\ Inbox(a).cmd \notin {"Latch", "Unlatch"} => latch'[a] = latch[a]
      BY <1>1, <2>1, LatchShape
    <3>6. g = ~latch'[a]
      <4>1. CASE Inbox(a).cmd = "Latch"
        BY <3>3, <3>4, <3>5, <4>1
      <4>2. CASE Inbox(a).cmd = "Unlatch"
        BY <3>3, <3>4, <3>5, <4>2
      <4>3. CASE Inbox(a).cmd \notin {"Latch", "Unlatch"}
        BY <1>2, <3>3, <3>4, <3>5, <4>3
      <4> QED
        BY <4>1, <4>2, <4>3
    <3>7. Ready(a, g, Unlatches(a), Latches(a), Kickoffs(a), out)'
      BY <1>1, <1>4, <2>1, <3>1, <3>4, FlagTaken
    <3> QED
      BY <3>6, <3>7
  <2>2. CASE ~AgentRoute(a)
    <3>1. alive[a] /\ alive'[a]
      BY <1>a
    <3>2. Reachable(a) \/ Lacks(toClients, Mine(a))
      BY <1>1, <3>1 DEF AliveInv, Reachable
    <3>3. latch'[a] = latch[a]
      BY <1>1, <2>2, LatchStays
    <3>4. /\ Unlatches(a) \subseteq Mine(a) /\ Latches(a) \subseteq Mine(a)
          /\ Kickoffs(a) \subseteq Mine(a)
      BY AwaitedAre
    <3>5. Ready(a, f, Unlatches(a), Latches(a), Kickoffs(a), out)'
      BY <1>1, <1>4, <2>2, <3>1, <3>2, <3>4, NetFlags
    <3> QED
      BY <1>2, <3>3, <3>5
  <2> QED
    BY <2>1, <2>2
<1> QED
  BY <1>0, <1>1, <1>3, <1>5 DEF Ready

LEMMA NetGoesOn ==
  ASSUME TypeOK, OrdersInv, AliveInv, HearInv, GoesOnInv, NetNext, UNCHANGED jobVars
  PROVE  GoesOnInv'
<1> SUFFICES ASSUME pc' = "exchange", BothLive', Sound' PROVE GoingOn'
  BY DEF GoesOnInv
<1>a. \A a \in Two : alive[a] /\ alive'[a]
  <2>1. \A a \in Two : alive'[a]
    BY DEF BothLive, Two
  <2> QED
    BY <2>1, PairMembers, StaysConnected DEF TypeOK
<1>0. pc = "exchange" /\ BothLive /\ Sound /\ outbox' = outbox
  BY <1>a DEF jobVars, Sound, BothLive, Two
<1>1. /\ NetTypeOK /\ JobOrders \in SUBSET Orders /\ Signed(JobOrders)
  BY JobOrdersAre DEF TypeOK, OrdersInv
<1>2. CASE ~Unsaid(Replies) \/ ~Unsaid(Replies)'
  BY <1>2, SaidStays DEF GoingOn
<1>3. CASE Unsaid(Replies) /\ Unsaid(Replies)'
  <2>1. PICK a \in Two : Settled(a, Works(a), Awaited(a), Others(a), outbox)
    BY <1>0, <1>3 DEF GoesOnInv, GoingOn
  <2>2. a \in Agent /\ Lacks(fromAgent'[a], Replies)
    BY <1>3, PairMembers DEF Unsaid
  <2>3. PICK f \in BOOLEAN : f = Works(a)
    BY DEF Works
  <2>4. PICK h \in BOOLEAN : h = Works(a)'
    BY DEF Works
  <2>5. PICK out : out = outbox
    OBVIOUS
  <2>6. Settled(a, f, Awaited(a), Others(a), out)
    BY <2>1, <2>3, <2>5
  <2>7. \E g \in BOOLEAN : (g => h) /\ Settled(a, g, Awaited(a), Others(a), out)'
    <3>1. CASE AgentRoute(a)
      <4>1. PICK m : m = Head(toAgent[a])
        OBVIOUS
      <4>2. m = Inbox(a) /\ m \in Mine(a)
        BY <3>1, <4>1, TakenOrder DEF Inbox
      <4>3. PICK g \in BOOLEAN : g <=> m \in Awaited(a)
        OBVIOUS
      <4>4. g <=> m \in Awaited(a) \/ (f /\ m \notin Others(a))
        BY <4>2, <4>3 DEF Others
      <4>5. Settled(a, g, Awaited(a), Others(a), out)'
        BY <1>1, <2>2, <2>6, <3>1, <4>1, <4>4, SettledTaken
      <4>6. g => h
        BY <1>0, <2>2, <2>4, <3>1, <4>2, <4>3, KickoffTaken, RouteTurn
      <4> QED
        BY <4>5, <4>6
    <3>2. CASE ~AgentRoute(a)
      <4>1. alive[a] /\ alive'[a]
        BY <1>a
      <4>2. Reachable(a)
        BY <1>0, <4>1 DEF AliveInv, AtWork, Reachable
      <4>3. Awaited(a) \subseteq Mine(a) /\ Others(a) \subseteq Mine(a)
        BY AwaitedAre
      <4>4. Settled(a, f, Awaited(a), Others(a), out)'
        BY <1>1, <2>2, <2>6, <3>2, <4>1, <4>2, <4>3, NetFlags
      <4>5. f => h
        BY <2>2, <2>3, <2>4, <3>2, <4>1, WorksOn
      <4> QED
        BY <4>4, <4>5
    <3> QED
      BY <3>1, <3>2
  <2>8. Settled(a, h, Awaited(a), Others(a), out)'
    <3>1. PICK g \in BOOLEAN : (g => h) /\ Settled(a, g, Awaited(a), Others(a), out)'
      BY <2>7
    <3>2. PICK s, t : s = toAgent'[a] /\ t = toClients'
      OBVIOUS
    <3>3. Finally(s, t, out, g, Awaited(a), Others(a))
      BY <3>1, <3>2 DEF Settled
    <3>4. Finally(s, t, out, h, Awaited(a), Others(a))
      BY <3>1, <3>3, FinallyMore
    <3> QED
      BY <3>2, <3>4 DEF Settled
  <2>9. Settled(a, Works(a), Awaited(a), Others(a), outbox)'
    BY <1>0, <2>4, <2>5, <2>8 DEF Settled
  <2> QED
    BY <2>9 DEF GoingOn
<1> QED
  BY <1>2, <1>3

\* A question goes to the extractor.
LEMMA QuestionsElsewhere ==
  ASSUME Questions
  PROVE  \A a \in Two : Lacks(outbox', Mine(a))
<1>1. PICK s \in Seq(PlainOrders({Extractor})), m \in Query : outbox' = s \o <<m>>
  BY DEF Questions
<1>2. \A a \in Two : a # Extractor
  BY PairMembers DEF Two
<1>3. \A i \in DOMAIN s : s[i] \in PlainOrders({Extractor})
  BY ElementOfSeq
<1>4. \A a \in Two : Lacks(s, Mine(a)) /\ m \notin Mine(a)
  BY <1>2, <1>3 DEF Lacks, PlainOrders, Query, Mine
<1>5. s \o <<m>> = Append(s, m) /\ \A S : Lacks(Append(s, m), S) <=> Lacks(s, S) /\ m \notin S
  BY Appending
<1> QED
  BY <1>1, <1>4, <1>5

\* Only the generator's kickoff is one, and only those at work are ordered
\* about.
LEMMA DrawnOrders ==
  ASSUME TypeOK, OrdersInv, Draws
  PROVE  /\ Begins \/ Lacks(outbox', Kickoffs(Generator))
         /\ AtWork \/ Begins \/ \A a \in Two : Lacks(outbox', Mine(a))
<1>1. ASSUME NEW ts, NEW m \in PlainOrders(ts)
      PROVE  m \notin Kickoffs(Generator) /\ m.to \in ts
  BY DEF PlainOrders, Kickoffs
<1>2. ASSUME NEW ts, NEW s \in Seq(PlainOrders(ts))
      PROVE  /\ Lacks(s, Kickoffs(Generator))
             /\ \A a \in Two : a \notin ts => Lacks(s, Mine(a))
  <2>1. \A i \in DOMAIN s : s[i] \in PlainOrders(ts)
    BY ElementOfSeq
  <2> QED
    BY <1>1, <2>1 DEF Lacks, Mine
<1>3. ASSUME Questions
      PROVE  Lacks(outbox', Kickoffs(Generator)) /\ \A a \in Two : Lacks(outbox', Mine(a))
  <2>1. PICK s \in Seq(PlainOrders({Extractor})), m \in Query : outbox' = s \o <<m>>
    BY <1>3 DEF Questions
  <2>2. /\ Lacks(s, Kickoffs(Generator)) /\ m \notin Kickoffs(Generator)
        /\ \A a \in Two : Lacks(s, Mine(a)) /\ m \notin Mine(a)
    <3>1. \A a \in Two : a \notin {Extractor}
      BY PairMembers DEF Two
    <3>2. m \notin Kickoffs(Generator) /\ \A a \in Two : m \notin Mine(a)
      BY <3>1 DEF Query, Kickoffs, Mine
    <3> QED
      BY <1>2, <3>1, <3>2
  <2>3. s \o <<m>> = Append(s, m)
    OBVIOUS
  <2>4. \A S : Lacks(Append(s, m), S) <=> Lacks(s, S) /\ m \notin S
    BY Appending
  <2> QED
    BY <2>1, <2>2, <2>3, <2>4
<1>4. Lacks(<<>>, Kickoffs(Generator)) /\ \A a \in Two : Lacks(<<>>, Mine(a))
  BY EmptyLacks
<1>5. CASE Proceeds
  <2>1. Lacks(outbox', Kickoffs(Generator))
    BY <1>2, <1>5 DEF Proceeds
  <2>2. outbox' = <<>> \/ AtWork
    BY <1>5 DEF Proceeds, AtWork
  <2> QED
    BY <1>4, <2>1, <2>2
<1>6. CASE Poses \/ Takes
  BY <1>3, <1>4, <1>6 DEF Poses, Takes
<1>7. CASE Hears
  <2>1. \A a \in Two : a \notin {Extractor}
    BY PairMembers DEF Two
  <2> QED
    BY <1>2, <1>7, <2>1 DEF Hears
<1>8. CASE Hands
  <2>1. PICK h : h = held
    OBVIOUS
  <2>2. outbox' = <<h>> /\ h \in Handed /\ AtWork
    BY <1>8, <2>1 DEF Hands, OrdersInv, HeldInv, AtWork
  <2>3. h \notin Kickoffs(Generator)
    BY <2>2 DEF Handed, Kickoffs
  <2>4. Lacks(<<h>>, Kickoffs(Generator))
    BY <2>3 DEF Lacks
  <2> QED
    BY <2>2, <2>4
<1> QED
  BY <1>5, <1>6, <1>7, <1>8 DEF Draws

LEMMA JobAlive ==
  ASSUME TypeOK, OrdersInv, AliveInv, JobStep
  PROVE  AliveInv'
<1>0. toClients \in Seq(Message) /\ outbox \in Seq(Message)
  BY DEF TypeOK, NetTypeOK
<1>1. CASE SendCommand
  <2>1. /\ outbox # <<>> /\ outbox' = Tail(outbox) /\ toClients' = Append(toClients, Head(outbox))
        /\ UNCHANGED <<calls, alive, connected, pc, faults>>
    BY <1>1 DEF SendCommand, agentVars
  <2>2. ASSUME NEW S, Lacks(toClients, S), Lacks(outbox, S)
        PROVE  Lacks(toClients', S) /\ Lacks(outbox', S)
    <3>1. Lacks(Tail(outbox), S) /\ Head(outbox) \notin S
      BY <1>0, <2>1, <2>2, NoneTail
    <3>2. Lacks(Append(toClients, Head(outbox)), S)
      BY <1>0, <2>2, <3>1, Appending
    <3> QED
      BY <2>1, <3>1, <3>2
  <2> QED
    BY <2>1, <2>2 DEF AliveInv, AtWork
<1>2. CASE Draws
  <2>1. UNCHANGED <<calls, alive, connected, toClients, faults>> /\ outbox = <<>>
    BY <1>2 DEF Draws, agentVars
  <2>2. Begins => Two \subseteq connected
    BY DEF Begins
  <2>3. AtWork' => AtWork \/ Begins
    BY <1>2 DEF Draws, Proceeds, Poses, Hears, Takes, Hands, AtWork
  <2>4. AtWork \/ Begins \/ \A a \in Two : Lacks(outbox', Mine(a))
    BY <1>2, DrawnOrders
  <2> QED
    BY <2>1, <2>2, <2>3, <2>4 DEF AliveInv
<1> QED
  BY <1>1, <1>2, JobShape

LEMMA JobHears ==
  ASSUME TypeOK, OrdersInv, HearInv, JobStep
  PROVE  HearInv'
<1>0. PICK a \in Two : a = Generator
  BY DEF Two
<1>1. a \in Agent /\ NetTypeOK /\ latch \in [Agent -> BOOLEAN] /\ latch[a] \in BOOLEAN
      /\ outbox \in Seq(Message)
  BY PairMembers DEF TypeOK, NetTypeOK
<1>2. PICK f \in BOOLEAN : f = ~latch[a]
  BY <1>1
<1>3. PICK U, L, K : U = Unlatches(a) /\ L = Latches(a) /\ K = Kickoffs(a)
  OBVIOUS
<1>4. CASE SendCommand
  <2>1. PICK out : out = outbox
    OBVIOUS
  <2>2. /\ out \in Seq(Message) /\ out # <<>> /\ outbox' = Tail(out)
        /\ toClients' = Append(toClients, Head(out)) /\ UNCHANGED <<toAgent, latch, alive>>
    BY <1>1, <1>4, <2>1 DEF SendCommand, agentVars
  <2>3. Ready(a, f, U, L, K, out) <=> Ready(a, f, U, L, K, Tail(out))'
    BY <1>1, <2>2, FlagSends
  <2>4. alive[a] => Ready(a, f, U, L, K, out)
    BY <1>0, <1>2, <1>3, <2>1 DEF HearInv
  <2>5. alive[a] => Ready(a, ~latch[a], U, L, K, outbox)'
    BY <1>2, <2>2, <2>3, <2>4 DEF Ready
  <2> QED
    BY <1>0, <1>3, <2>2, <2>5 DEF HearInv
<1>5. CASE Draws
  <2>1. outbox = <<>> /\ UNCHANGED <<toClients, toAgent, latch, alive>>
    BY <1>5 DEF Draws, agentVars
  <2>2. PICK after : after = outbox'
    OBVIOUS
  <2>3. PICK now \in BOOLEAN : now = Settled(a, f, U, L, <<>>)
    <3>1. Settled(a, f, U, L, <<>>) \in BOOLEAN
      BY AfterBoolean DEF Settled, Finally
    <3> QED
      BY <3>1
  <2>4. Met(after, now, U, L, K)
    <3>1. CASE Lacks(after, K)
      BY <3>1 DEF Lacks, Met
    <3>2. CASE Begins
      <4>1. word \in Word
        BY DEF TypeOK
      <4>2. PICK s \in Seq(PlainOrders(Two)), u \in Unlatches(Generator), v \in Unlatches(Adversary) :
              Prepare = Append(Append(Append(s, u), v), Kickoff)
        BY <4>1, PrepareShape
      <4>3. PICK k : k = Kickoff
        OBVIOUS
      <4>4. s \in Seq(Message)
        BY DEF PlainOrders, Orders
      <4>5. u \in Message /\ v \in Message /\ u \in U /\ v \notin L \cup K /\ u \notin K
        BY <1>0, <1>3, PairMembers DEF Unlatches, Latches, Kickoffs, Orders
      <4>6. Lacks(s, K)
        <5>1. \A i \in DOMAIN s : s[i] \in PlainOrders(Two)
          BY ElementOfSeq
        <5> QED
          BY <1>3, <5>1 DEF Lacks, PlainOrders, Kickoffs
      <4>7. PICK p, q : p = Append(s, u) /\ q = Append(p, v)
        OBVIOUS
      <4>8. p \in Seq(Message) /\ q \in Seq(Message)
        BY <4>4, <4>5, <4>7
      <4>9. Lacks(q, K)
        <5>1. Lacks(p, K)
          BY <4>4, <4>5, <4>6, <4>7, Appending
        <5> QED
          BY <4>5, <4>7, <4>8, <5>1, Appending
      <4>10. After(q, now, U, L)
        <5>1. After(p, now, U, L)
          <6>1. After(Append(s, u), now, U, L) <=> u \in U \/ (After(s, now, U, L) /\ u \notin L)
            BY <4>4, AfterLast
          <6> QED
            BY <4>5, <4>7, <6>1
        <5>2. After(Append(p, v), now, U, L) <=> v \in U \/ (After(p, now, U, L) /\ v \notin L)
          BY <4>8, AfterLast
        <5> QED
          BY <4>5, <4>7, <5>1, <5>2
      <4>11. Met(q, now, U, L, K)
        BY <4>9 DEF Lacks, Met
      <4>12. Met(Append(q, k), now, U, L, K) <=>
               Met(q, now, U, L, K) /\ (k \in K => After(q, now, U, L))
        BY <4>8, AfterAppend
      <4>13. after = Append(q, k)
        BY <2>2, <3>2, <4>2, <4>3, <4>7 DEF Begins
      <4> QED
        BY <4>10, <4>11, <4>12, <4>13
    <3> QED
      BY <1>0, <1>3, <1>5, <2>2, <3>1, <3>2, DrawnOrders
  <2>5. /\ Settled(a, f, U, L, after)' <=> After(after, Settled(a, f, U, L, <<>>), U, L)
        /\ Ready(a, f, U, L, K, after)' <=>
             /\ Ready(a, f, U, L, K, <<>>)
             /\ Met(after, Settled(a, f, U, L, <<>>), U, L, K)
    BY <1>1, <2>1, FlagDraws
  <2>6. alive[a] => Ready(a, f, U, L, K, <<>>)
    BY <1>0, <1>2, <1>3, <2>1 DEF HearInv
  <2>7. alive[a] => Ready(a, f, U, L, K, after)'
    BY <2>3, <2>4, <2>5, <2>6
  <2>8. alive[a] => Ready(a, ~latch[a], U, L, K, outbox)'
    BY <1>2, <2>1, <2>2, <2>7 DEF Ready
  <2> QED
    BY <1>0, <1>3, <2>1, <2>8 DEF HearInv
<1> QED
  BY <1>4, <1>5, JobShape

LEMMA JobGoesOn ==
  ASSUME TypeOK, OrdersInv, GoesOnInv, JobStep
  PROVE  GoesOnInv'
<1> SUFFICES ASSUME pc' = "exchange", BothLive', Sound' PROVE GoingOn'
  BY DEF GoesOnInv
<1>1. NetTypeOK /\ outbox \in Seq(Message) /\ toClients \in Seq(Message)
  BY DEF TypeOK, NetTypeOK
<1>2. CASE SendCommand
  <2>1. PICK out : out = outbox
    OBVIOUS
  <2>2. /\ out \in Seq(Message) /\ out # <<>> /\ outbox' = Tail(out)
        /\ toClients' = Append(toClients, Head(out))
        /\ UNCHANGED <<toAgent, fromAgent, calls, alive, pc, word, method, routerHand, toServer>>
    BY <1>1, <1>2, <2>1 DEF SendCommand, agentVars
  <2>3. GoingOn
    BY <2>2 DEF GoesOnInv, Sound, BothLive
  <2>4. CASE ~Unsaid(Replies)
    <3>1. Lacks(Append(toClients, Head(out)), Replies) => Lacks(toClients, Replies)
      BY <1>1, Appending
    <3> QED
      BY <2>2, <2>4, <3>1 DEF GoingOn, Unsaid, Hand
  <2>5. CASE Unsaid(Replies)
    <3>1. PICK a \in Two : Settled(a, Works(a), Awaited(a), Others(a), out)
      BY <2>1, <2>3, <2>5 DEF GoingOn
    <3>2. PICK f \in BOOLEAN : f = Works(a)
      BY DEF Works
    <3>3. PICK S, R : S = Awaited(a) /\ R = Others(a)
      OBVIOUS
    <3>4. a \in Agent
      BY PairMembers
    <3>5. /\ Settled(a, f, S, R, out) <=> Settled(a, f, S, R, Tail(out))'
          /\ Ready(a, f, S, R, {}, out) <=> Ready(a, f, S, R, {}, Tail(out))'
      BY <1>1, <2>2, <3>4, FlagSends
    <3>6. Works(a)' = Works(a)
      BY <2>2 DEF Works
    <3>7. Settled(a, Works(a), S, R, outbox)'
      BY <2>2, <3>1, <3>2, <3>3, <3>5, <3>6 DEF Settled
    <3> QED
      BY <3>3, <3>7 DEF GoingOn
  <2> QED
    BY <2>4, <2>5
<1>3. CASE Draws
  <2>1. outbox = <<>> /\ UNCHANGED <<toClients, toAgent, calls>>
    BY <1>3 DEF Draws, agentVars
  <2>2. PICK after : after = outbox'
    OBVIOUS
  <2>3. \E a \in Two, s \in Seq(Message), k \in Message : k \in Awaited(a) /\ after = Append(s, k)
    <3>1. CASE Begins
      <4>1. PICK s \in Seq(PlainOrders(Two)), u \in Unlatches(Generator), v \in Unlatches(Adversary) :
              /\ Kickoff \in KickedOff
              /\ Prepare = Append(Append(Append(s, u), v), Kickoff)
        BY PrepareShape DEF TypeOK
      <4>2. PICK k : k = Kickoff
        OBVIOUS
      <4>3. s \in Seq(Message) /\ u \in Message /\ v \in Message
        BY DEF PlainOrders, Orders, Unlatches
      <4>4. Append(Append(s, u), v) \in Seq(Message)
        BY <4>3
      <4>5. Generator \in Two /\ k \in Message /\ k \in Awaited(Generator)
        BY <4>1, <4>2 DEF Two, KickedOff, Awaited, Orders, TurnCommand
      <4> QED
        BY <2>2, <3>1, <4>1, <4>2, <4>4, <4>5 DEF Begins
    <3>2. CASE Hands
      <4>1. PICK h : h = held
        OBVIOUS
      <4>2. after = <<h>> /\ h \in Handed
        BY <2>2, <3>2, <4>1 DEF Hands, OrdersInv, HeldInv
      <4>3. h \in Message /\ h.to \in Two /\ h \in Awaited(h.to)
        BY <4>2 DEF Handed, Orders, Awaited, Two, TurnCommand
      <4>4. <<h>> = Append(<<>>, h) /\ <<>> \in Seq(Message)
        OBVIOUS
      <4> QED
        BY <4>2, <4>3, <4>4
    <3> QED
      BY <1>3, <3>1, <3>2 DEF Draws, Proceeds, Poses, Hears, Takes
  <2>4. PICK a \in Two, s \in Seq(Message), k \in Message : k \in Awaited(a) /\ after = Append(s, k)
    BY <2>3
  <2>5. PICK f \in BOOLEAN : f = Works(a)
    BY DEF Works
  <2>6. PICK S, R : S = Awaited(a) /\ R = Others(a)
    OBVIOUS
  <2>7. PICK now \in BOOLEAN : now = Settled(a, f, S, R, <<>>)
    <3>1. Settled(a, f, S, R, <<>>) \in BOOLEAN
      BY AfterBoolean DEF Settled, Finally
    <3> QED
      BY <3>1
  <2>8. After(Append(s, k), now, S, R) <=> k \in S \/ (After(s, now, S, R) /\ k \notin R)
    BY AfterLast
  <2>9. a \in Agent
    BY PairMembers
  <2>10. Settled(a, f, S, R, after)' <=> After(after, Settled(a, f, S, R, <<>>), S, R)
    BY <2>1, <2>9, SettledDraws
  <2>11. Settled(a, f, S, R, after)'
    BY <2>4, <2>6, <2>7, <2>8, <2>10
  <2>12. Works(a)' = Works(a)
    BY <2>1 DEF Works
  <2>13. Settled(a, Works(a), Awaited(a), Others(a), outbox)'
    BY <2>2, <2>5, <2>6, <2>11, <2>12 DEF Settled
  <2> QED
    BY <2>13 DEF GoingOn
<1> QED
  BY <1>2, <1>3, JobShape

LEMMA GoingInit == Init => AliveInv /\ HearInv /\ GoesOnInv
<1> SUFFICES ASSUME Init PROVE AliveInv /\ HearInv /\ GoesOnInv
  OBVIOUS
<1>1. /\ toClients = <<>> /\ outbox = <<>> /\ pc = "find"
      /\ \A a \in Two : toAgent[a] = <<>> /\ calls[a] = <<>> /\ alive[a]
  BY PairMembers DEF Init, NetInit
<1>2. AliveInv
  BY <1>1, EmptyLacks DEF AliveInv, AtWork
<1>3. HearInv
  <2>1. toAgent[Generator] = <<>>
    BY <1>1 DEF Two
  <2>2. \A f, S, R, K : Met(<<>>, f, S, R, K)
    BY DEF Met
  <2> QED
    BY <1>1, <2>1, <2>2 DEF HearInv, Ready, AllMet
<1>4. GoesOnInv
  BY <1>1 DEF GoesOnInv
<1> QED
  BY <1>2, <1>3, <1>4

LEMMA GoingStep ==
  ASSUME TypeOK, OrdersInv, AliveInv, HearInv, GoesOnInv, [Next]_vars
  PROVE  AliveInv' /\ HearInv' /\ GoesOnInv'
<1>1. CASE JobStep
  BY <1>1, JobAlive, JobHears, JobGoesOn
<1>2. CASE NetNext /\ UNCHANGED jobVars
  BY <1>2, NetAlive, NetHears, NetGoesOn
<1>3. CASE UNCHANGED vars
  <2>1. UNCHANGED <<toClients, outbox, toAgent, calls, alive, connected, latch, faults, pc, word,
                    method, routerHand, toServer, fromAgent>>
    BY <1>3 DEF vars, netVars, jobVars, queueVars, agentVars
  <2> QED
    BY <2>1 DEF AliveInv, AtWork, HearInv, Ready, GoesOnInv, BothLive, GoingOn, Sound,
       Unsaid, Hand, Settled, Works
<1> QED
  BY <1>1, <1>2, <1>3 DEF Next

-----------------------------------------------------------------------------
(***************************************************************************)
(* While the first word is developed no request finds an empty memory: the *)
(* orders that clear it come before the kickoff, and what the two are      *)
(* asked to turn to is never nothing.                                      *)
(***************************************************************************)

First ==
  word = 1 /\ pc \in {"find", "found", "choose", "word", "exchange", "words", "forward"}

BlankOrders  == {m \in Orders : m.to \in Two /\ m.cmd \in TurnCommand /\ m.about = {}}
BlankReplies == {m \in Replies : m.about = {}}
Clears(a)    == {m \in Orders : m.to = a /\ m.cmd = "ClearMemory"}

Topical ==
  /\ Nowhere(BlankOrders, outbox) /\ Unsaid(BlankReplies)
  /\ held # NoMsg => held.about # {}

\* A request about something, whose text is in the memory mem once it is saved.
Asks(c, mem) == c.about # {} /\ (c.phase = "saved" => mem # {})

Remembers(a) ==
  /\ alive[a]
  /\ Sorted(a, Awaited(a), Clears(a), outbox)
  /\ calls[a] # <<>> => Gone(a, Clears(a), outbox)
  /\ \A k \in DOMAIN calls[a] : Asks(calls[a][k], stm[a])

MemoryInv == First /\ faults = 0 => Topical /\ \A a \in Two : Remembers(a)

LEMMA ClearsAre ==
  ASSUME NEW a \in Two
  PROVE  Clears(a) \subseteq Mine(a) /\ Clears(a) \cap Awaited(a) = {}
  BY DEF Clears, Mine, Awaited, TurnCommand

LEMMA AsksMore ==
  ASSUME NEW c, NEW mem, NEW more, Asks(c, mem), mem \subseteq more
  PROVE  Asks(c, more)
  BY DEF Asks

\* Without a failed request no request fails.
LEMMA NetFaults ==
  ASSUME TypeOK, NetNext, faults' = 0
  PROVE  /\ faults = 0
         /\ \A b \in Agent : \A k \in DOMAIN calls[b] : ~LlmFails(b, k)
<1>0. faults \in Nat
  BY BoundAssumption DEF TypeOK, NetTypeOK
<1>1. ASSUME NEW b \in Agent, NEW k \in DOMAIN calls[b], LlmFails(b, k) PROVE FALSE
  BY <1>0, <1>1 DEF LlmFails, Fault
<1>2. ASSUME NEW b \in Agent, AgentStep(b) PROVE faults' \in {faults, faults + 1}
  <2>1. CASE AgentRoute(b)
    BY <2>1 DEF AgentRoute, OnAppendInstructions, OnSetInstructions, OnResetInstructions,
       OnClearMemory, OnLatch, OnUnlatch, OnSendInitialMessage, OnRequest, OnText
  <2>2. ASSUME NEW k \in DOMAIN calls[b], CallStep(b, k) PROVE faults' \in {faults, faults + 1}
    BY <2>2 DEF CallStep, StartTyped, SaveTyped, Retrieve, Post, Answer, GiveUp, CancelKills,
       LlmFails, Fault
  <2>3. CASE Join(b) \/ Listen(b) \/ Disconnect(b)
    BY <2>3 DEF Join, Listen, Disconnect
  <2> QED
    BY <1>2, <2>1, <2>2, <2>3 DEF AgentStep
<1>3. ASSUME RouterForward \/ RouterDispatch PROVE faults' = faults
  BY <1>3 DEF RouterForward, RouterDispatch
<1>4. faults' \in {faults, faults + 1}
  BY <1>2, <1>3 DEF NetNext
<1> QED
  BY <1>0, <1>1, <1>4

LEMMA RouteMemory ==
  ASSUME NetTypeOK, NEW a \in Agent, AgentRoute(a)
  PROVE  /\ Inbox(a).cmd # "ClearMemory" => stm[a] \subseteq stm'[a]
         /\ Inbox(a).cmd \in TypedRequest =>
              calls'[a] = Append(Cancelled(calls[a]), Spawned(TRUE, Inbox(a).about))
<1> USE DEF Receives
<1>0. stm \in [Agent -> SUBSET Layer] /\ calls \in [Agent -> Seq(Call)]
  BY DEF NetTypeOK
<1>1. CASE OnAppendInstructions(a) \/ OnSetInstructions(a) \/ OnResetInstructions(a)
           \/ OnLatch(a) \/ OnUnlatch(a)
  BY <1>1 DEF OnAppendInstructions, OnSetInstructions, OnResetInstructions, OnLatch, OnUnlatch,
     TypedRequest
<1>2. CASE OnClearMemory(a)
  BY <1>2 DEF OnClearMemory, TypedRequest
<1>3. CASE OnSendInitialMessage(a)
  BY <1>0, <1>3 DEF OnSendInitialMessage, TypedRequest
<1>4. CASE OnText(a)
  BY <1>0, <1>4 DEF OnText, TypedRequest
<1>5. CASE OnRequest(a)
  BY <1>0, <1>5 DEF OnRequest, Spawn
<1> QED
  BY <1>1, <1>2, <1>3, <1>4, <1>5 DEF AgentRoute

\* A request that asks for something, and finds it remembered, stays so.
LEMMA RequestMemory ==
  ASSUME NetTypeOK, NEW a \in Agent, NEW k \in DOMAIN calls[a], CallStep(a, k), ~LlmFails(a, k),
         \A j \in DOMAIN calls[a] : calls[a][j].typed /\ Asks(calls[a][j], stm[a])
  PROVE  /\ alive'[a] = alive[a]
         /\ \A j \in DOMAIN calls'[a] : Asks(calls'[a][j], stm'[a])
<1>0. /\ calls \in [Agent -> Seq(Call)] /\ calls[a] \in Seq(Call) /\ calls[a][k] \in Call
      /\ stm \in [Agent -> SUBSET Layer] /\ calls[a][k].typed /\ Asks(calls[a][k], stm[a])
  BY ElementOfSeq DEF NetTypeOK
<1>1. PICK cs, mem : cs = calls[a] /\ mem = stm[a]
  OBVIOUS
<1>2. PICK more : more = stm'[a]
  OBVIOUS
<1>3. /\ cs \in Seq(Call) /\ k \in DOMAIN cs /\ cs[k] \in Call
      /\ \A j \in DOMAIN cs : Asks(cs[j], mem)
  BY <1>0, <1>1
<1>4. ASSUME Quit(a, k), UNCHANGED alive, mem \subseteq more
      PROVE  /\ alive'[a] = alive[a]
             /\ \A j \in DOMAIN calls'[a] : Asks(calls'[a][j], stm'[a])
  <2>1. calls'[a] = Without(cs, k)
    BY <1>0, <1>1, <1>4 DEF Quit
  <2>2. \A j \in DOMAIN Without(cs, k) : \E i \in DOMAIN cs : Without(cs, k)[j] = cs[i]
    BY <1>3, WithoutOne
  <2>3. \A i \in DOMAIN cs : Asks(cs[i], more)
    BY <1>3, <1>4, AsksMore
  <2> QED
    BY <1>2, <1>4, <2>1, <2>2, <2>3
<1>5. ASSUME NEW c, Becomes(a, k, c), Asks(c, more), UNCHANGED alive, mem \subseteq more
      PROVE  /\ alive'[a] = alive[a]
             /\ \A j \in DOMAIN calls'[a] : Asks(calls'[a][j], stm'[a])
  <2>1. calls'[a] = [cs EXCEPT ![k] = c]
    BY <1>0, <1>1, <1>5 DEF Becomes
  <2>2. \A i \in DOMAIN cs : Asks(cs[i], more)
    BY <1>3, <1>5, AsksMore
  <2>3. \A j \in DOMAIN [cs EXCEPT ![k] = c] : Asks([cs EXCEPT ![k] = c][j], more)
    BY <1>3, <1>5, <2>2
  <2> QED
    BY <1>2, <1>5, <2>1, <2>3
<1>6. CASE StartTyped(a, k)
  <2>1. mem \subseteq more /\ UNCHANGED alive
    BY <1>1, <1>2, <1>6 DEF StartTyped
  <2>2. Asks(Started(calls[a][k]), more)
    BY <1>0 DEF Asks, Started, Call
  <2> QED
    BY <1>4, <1>5, <1>6, <2>1, <2>2 DEF StartTyped
<1>7. CASE SaveTyped(a, k)
  <2>1. more = mem \cup calls[a][k].about /\ UNCHANGED alive
    BY <1>0, <1>1, <1>2, <1>7 DEF SaveTyped
  <2>2. Asks(Saved(calls[a][k]), more)
    BY <1>0, <2>1 DEF Asks, Saved, Call
  <2> QED
    BY <1>5, <1>7, <2>1, <2>2 DEF SaveTyped
<1>8. CASE Retrieve(a, k)
  <2>1. mem # {}
    BY <1>0, <1>1, <1>8 DEF Retrieve, Asks
  <2>2. Becomes(a, k, Asked(calls[a][k], mem)) /\ more = mem /\ UNCHANGED alive
    BY <1>1, <1>2, <1>8, <2>1 DEF Retrieve
  <2>3. Asks(Asked(calls[a][k], mem), more)
    BY <1>0, <2>1 DEF Asks, Asked, Call
  <2> QED
    BY <1>5, <2>2, <2>3
<1>9. CASE Post(a, k)
  <2>1. more = mem /\ UNCHANGED alive
    BY <1>1, <1>2, <1>9 DEF Post
  <2>2. Asks(Posted(calls[a][k], instr[a]), more)
    BY <1>0 DEF Asks, Posted, Call
  <2> QED
    BY <1>5, <1>9, <2>1, <2>2 DEF Post
<1>10. CASE Answer(a, k)
  <2>1. mem \subseteq more /\ UNCHANGED alive
    BY <1>0, <1>1, <1>2, <1>10 DEF Answer
  <2> QED
    BY <1>4, <1>10, <2>1 DEF Answer
<1>11. CASE GiveUp(a, k)
  <2>1. mem \subseteq more /\ UNCHANGED alive
    BY <1>1, <1>2, <1>11 DEF GiveUp
  <2> QED
    BY <1>4, <1>11, <2>1 DEF GiveUp
<1>12. CASE CancelKills(a, k)
  BY <1>0, <1>12 DEF CancelKills
<1> QED
  BY <1>6, <1>7, <1>8, <1>9, <1>10, <1>11, <1>12 DEF CallStep

\* What one of the two takes is about something.
LEMMA TakenAbout ==
  ASSUME TypeOK, OrdersInv, Topical, NEW a \in Two, toAgent[a] # <<>>
  PROVE  Inbox(a).cmd \in TurnCommand => Inbox(a).about # {}
<1>0. a \in Agent /\ toAgent[a] \in Seq(To(a, JobOrders))
  BY PairMembers DEF OrdersInv, Signed
<1>1. PICK m : m = Inbox(a)
  OBVIOUS
<1>2. m \in To(a, JobOrders) /\ 1 \in DOMAIN toAgent[a] /\ m = toAgent[a][1]
  BY <1>0, <1>1 DEF Inbox
<1>3. m \notin BlankOrders
  BY <1>0, <1>2 DEF Topical, Nowhere, Lacks
<1>4. m \in Speech => m.cmd \notin TurnCommand
  BY DEF Speech, TurnCommand
<1>5. m \in Speech \/ m \in Orders
  BY <1>2, JobOrdersAre DEF To
<1>6. m.to = a
  BY <1>2 DEF To
<1> QED
  BY <1>1, <1>3, <1>4, <1>5, <1>6 DEF BlankOrders

LEMMA NetRemembers ==
  ASSUME TypeOK, OrdersInv, AliveInv, Topical, NetNext, UNCHANGED jobVars, faults' = 0,
         NEW a \in Two, Remembers(a)
  PROVE  Remembers(a)'
<1>0. /\ a \in Agent /\ NetTypeOK /\ calls \in [Agent -> Seq(Call)] /\ calls[a] \in Seq(Call)
      /\ JobOrders \in SUBSET Orders /\ Signed(JobOrders) /\ outbox' = outbox
      /\ \A k \in DOMAIN calls[a] : calls[a][k].typed /\ Asks(calls[a][k], stm[a])
  BY PairMembers, JobOrdersAre DEF TypeOK, NetTypeOK, OrdersInv, jobVars, AliveInv, Remembers
<1>1. PICK out, C, W : out = outbox /\ C = Clears(a) /\ W = Awaited(a)
  OBVIOUS
<1>2. /\ alive[a] /\ Sorted(a, W, C, out) /\ (calls[a] # <<>> => Gone(a, C, out))
      /\ C \subseteq Mine(a) /\ W \subseteq Mine(a)
  BY <1>1, ClearsAre, AwaitedAre DEF Remembers
<1>3. ASSUME /\ alive'[a] /\ Sorted(a, W, C, out)' /\ (calls'[a] # <<>> => Gone(a, C, out)')
             /\ \A k \in DOMAIN calls'[a] : Asks(calls'[a][k], stm'[a])
      PROVE  Remembers(a)'
  BY <1>0, <1>1, <1>3 DEF Remembers, Sorted, Gone
<1>4. CASE AgentRoute(a)
  <2>1. PICK m : m = Inbox(a)
    OBVIOUS
  <2>2. /\ toAgent[a] # <<>> /\ m \in Mine(a) /\ m.cmd # "NoCommand" /\ m = Head(toAgent[a])
        /\ m.cmd \in TypedRequest => m \in W
    BY <1>1, <1>4, <2>1, TakenOrder DEF Inbox
  <2>3. alive'[a]
    BY <1>0, <1>2, <1>4, RouteShape DEF Routed
  <2>4. /\ Sorted(a, W, C, out)' /\ (m \in W => Gone(a, C, out)')
        /\ m \notin C => (Gone(a, C, out) => Gone(a, C, out)')
    BY <1>0, <1>2, <1>4, <2>2, PathTaken
  <2>5. m.cmd = "ClearMemory" => m \in C
    BY <1>1, <2>2 DEF Mine, Clears
  <2>6. calls[a] # <<>> => m \notin C
    <3> SUFFICES ASSUME calls[a] # <<>> PROVE m \notin C
      OBVIOUS
    <3>1. Lacks(toAgent[a], C)
      BY <1>2 DEF Gone
    <3>2. toAgent[a] \in Seq(Message)
      BY <1>0 DEF NetTypeOK
    <3> QED
      BY <2>2, <3>1, <3>2, NoneTail
  <2>7. PICK old : old = Cancelled(calls[a])
    OBVIOUS
  <2>8. /\ old \in Seq(Call) /\ DOMAIN old = DOMAIN calls[a]
        /\ \A k \in DOMAIN old : old[k].about = calls[a][k].about /\ old[k].phase = calls[a][k].phase
    <3>1. \A k \in DOMAIN calls[a] : calls[a][k] \in Call
      BY <1>0, ElementOfSeq
    <3>2. \A c \in Call : /\ [c EXCEPT !.cancelled = TRUE].about = c.about
                          /\ [c EXCEPT !.cancelled = TRUE].phase = c.phase
      BY DEF Call
    <3>3. old \in Seq(Call) /\ DOMAIN old = DOMAIN calls[a]
      BY <1>0, <2>7, CancelledCalls
    <3>4. \A k \in DOMAIN calls[a] : old[k] = [calls[a][k] EXCEPT !.cancelled = TRUE]
      BY <2>7 DEF Cancelled
    <3> QED
      BY <3>1, <3>2, <3>3, <3>4
  <2>9. \A k \in DOMAIN old : Asks(old[k], stm'[a])
    <3> SUFFICES ASSUME NEW k \in DOMAIN old PROVE Asks(old[k], stm'[a])
      OBVIOUS
    <3>1. calls[a] # <<>>
      BY <2>8
    <3>2. stm[a] \subseteq stm'[a]
      BY <1>0, <1>4, <2>1, <2>5, <2>6, <3>1, RouteMemory
    <3>3. Asks(calls[a][k], stm[a])
      BY <1>0, <2>8
    <3> QED
      BY <2>8, <3>2, <3>3 DEF Asks
  <2>10. CASE m.cmd \in TypedRequest
    <3>1. PICK c : c = Spawned(TRUE, m.about)
      OBVIOUS
    <3>2. calls'[a] = Append(old, c)
      BY <1>0, <1>4, <2>1, <2>7, <2>10, <3>1, RouteMemory
    <3>3. m.cmd \in TurnCommand
      BY <1>1, <2>2, <2>10 DEF Awaited
    <3>4. Asks(c, stm'[a])
      <4>1. m.about # {}
        BY <2>1, <2>2, <3>3, TakenAbout
      <4> QED
        BY <3>1, <4>1 DEF Asks, Spawned
    <3>5. \A k \in DOMAIN Append(old, c) : k \in DOMAIN old \/ Append(old, c)[k] = c
      BY <2>8
    <3>6. \A k \in DOMAIN old : Append(old, c)[k] = old[k]
      BY <2>8
    <3>7. \A k \in DOMAIN Append(old, c) : Asks(Append(old, c)[k], stm'[a])
      BY <2>9, <3>4, <3>5, <3>6
    <3> QED
      BY <1>3, <2>2, <2>3, <2>4, <2>10, <3>2, <3>7
  <2>11. CASE m.cmd \notin TypedRequest
    <3>1. calls'[a] = old
      BY <1>0, <1>4, <2>1, <2>2, <2>7, <2>11, RouteCalls DEF Asking
    <3>2. calls'[a] # <<>> => calls[a] # <<>>
      BY <1>0, <2>8, <3>1
    <3> QED
      BY <1>2, <1>3, <2>3, <2>4, <2>6, <2>9, <3>1, <3>2
  <2> QED
    BY <2>10, <2>11
<1>5. CASE ~AgentRoute(a)
  <2>1. /\ alive'[a] /\ (calls'[a] # <<>> => calls[a] # <<>>)
        /\ \A k \in DOMAIN calls'[a] : Asks(calls'[a][k], stm'[a])
    <3>1. ASSUME NEW k \in DOMAIN calls[a], CallStep(a, k)
          PROVE  /\ alive'[a] /\ calls[a] # <<>>
                 /\ \A j \in DOMAIN calls'[a] : Asks(calls'[a][j], stm'[a])
      <4>1. ~LlmFails(a, k)
        BY <1>0, NetFaults
      <4>2. /\ alive'[a] = alive[a]
            /\ \A j \in DOMAIN calls'[a] : Asks(calls'[a][j], stm'[a])
        BY <1>0, <3>1, <4>1, RequestMemory
      <4> QED
        BY <1>0, <1>2, <4>2
    <3>2. CASE \A k \in DOMAIN calls[a] : ~CallStep(a, k)
      <4>1. stm'[a] = stm[a] /\ calls'[a] = calls[a] /\ alive'[a] = alive[a]
        BY <1>0, <1>5, <3>2, LeftAlone
      <4> QED
        BY <1>0, <1>2, <4>1
    <3> QED
      BY <3>1, <3>2
  <2>2. (alive[a] => a \in connected) \/ Lacks(toClients, Mine(a))
    BY DEF AliveInv
  <2>3. Sorted(a, W, C, out)'
    BY <1>0, <1>2, <1>5, <2>1, <2>2, PathKept
  <2>4. Gone(a, C, out) => Gone(a, C, out)'
    BY <1>0, <1>2, <1>5, <2>1, <2>2, PathKept
  <2> QED
    BY <1>2, <1>3, <2>1, <2>3, <2>4
<1> QED
  BY <1>4, <1>5

LEMMA NetTopical ==
  ASSUME TypeOK, OrdersInv, OrdersInv', Topical, NetNext, UNCHANGED jobVars,
         \A a \in Two : Remembers(a)
  PROVE  Topical'
<1>0. /\ NetTypeOK /\ JobOrders \in SUBSET Orders /\ Signed(JobOrders)
      /\ outbox' = outbox /\ held' = held
      /\ \A a \in Agent : fromAgent[a] \in Seq(Message)
  BY JobOrdersAre DEF TypeOK, NetTypeOK, OrdersInv, jobVars
<1>1. Nowhere(BlankOrders, outbox)'
  <2>1. BlankOrders \cap Speech = {}
    BY SpeechGoes DEF BlankOrders
  <2>2. PICK out, S : out = outbox /\ S = BlankOrders
    OBVIOUS
  <2>3. Nowhere(S, out)'
    BY <1>0, <2>1, <2>2, NetNowhere DEF Topical
  <2> QED
    BY <1>0, <2>2, <2>3 DEF Nowhere
<1>2. ASSUME NEW a \in Agent PROVE Lacks(fromAgent'[a], BlankReplies)
  <2>1. CASE a \notin Two
    <3>1. fromAgent'[a] \in Seq(Said(a))
      BY DEF OrdersInv, Signed
    <3>2. \A i \in DOMAIN fromAgent'[a] : fromAgent'[a][i] \in Said(a)
      BY <3>1, ElementOfSeq
    <3> QED
      BY <2>1, <3>2 DEF Lacks, Said, BlankReplies, Replies
  <2>2. CASE a \in Two
    <3>0. Lacks(fromAgent[a], BlankReplies) /\ Lacks(<<>>, BlankReplies)
      BY EmptyLacks DEF Topical, Unsaid
    <3>1. CASE fromAgent'[a] \in {fromAgent[a], <<>>}
      BY <3>0, <3>1
    <3>2. CASE fromAgent[a] # <<>> /\ fromAgent'[a] = Tail(fromAgent[a])
      BY <1>0, <3>0, <3>2, NoneTail
    <3>3. ASSUME NEW y, y.about # {}, fromAgent'[a] = Append(fromAgent[a], y)
          PROVE  Lacks(fromAgent'[a], BlankReplies)
      <4>1. y \notin BlankReplies
        BY <3>3 DEF BlankReplies
      <4> QED
        BY <1>0, <3>0, <3>3, <4>1, Appending
    <3>4. CASE /\ toAgent[a] # <<>> /\ Inbox(a).cmd = "SendInitialMessage"
               /\ fromAgent'[a] = Append(fromAgent[a], Opening(a))
      <4>1. Inbox(a).about # {}
        BY <2>2, <3>4, TakenAbout DEF TurnCommand
      <4>2. Opening(a).about = Inbox(a).about
        BY DEF Opening, Msg
      <4> QED
        BY <3>3, <3>4, <4>1, <4>2
    <3>5. ASSUME NEW k \in DOMAIN calls[a], NEW json \in BOOLEAN,
                 fromAgent'[a] = Append(fromAgent[a], Reply(a, calls[a][k], json))
          PROVE  Lacks(fromAgent'[a], BlankReplies)
      <4>1. calls[a][k].about # {}
        BY <2>2 DEF Remembers, Asks
      <4>2. Reply(a, calls[a][k], json).about = calls[a][k].about
        BY DEF Reply, Msg
      <4> QED
        BY <3>3, <3>5, <4>1, <4>2
    <3> QED
      BY <1>0, <3>1, <3>2, <3>4, <3>5, WhatIsSaid
  <2> QED
    BY <2>1, <2>2
<1>3. Unsaid(BlankReplies)'
  BY <1>0, <1>2, NetUnsaid DEF Topical
<1> QED
  BY <1>0, <1>1, <1>3 DEF Topical

\* The jobs send what they have drawn up.
LEMMA SendMemory ==
  ASSUME TypeOK, OrdersInv, SendCommand, Topical, \A a \in Two : Remembers(a)
  PROVE  Topical' /\ \A a \in Two : Remembers(a)'
<1>1. PICK out, y : out = outbox /\ y = Head(out)
  OBVIOUS
<1>2. /\ NetTypeOK /\ out \in Seq(Message) /\ out \in Seq(JobOrders) /\ out # <<>>
      /\ toClients \in Seq(Message) /\ outbox' = Tail(out)
      /\ toClients' = Append(toClients, Head(out))
      /\ UNCHANGED <<toAgent, fromAgent, routerHand, toServer, calls, stm, alive, held>>
  BY <1>1 DEF SendCommand, agentVars, TypeOK, NetTypeOK, OrdersInv
<1>3. Nowhere(BlankOrders, outbox)'
  <2>1. PICK S : S = BlankOrders
    OBVIOUS
  <2>2. Nowhere(S, Tail(out))'
    BY <1>1, <1>2, <2>1, SendNowhere DEF Topical
  <2> QED
    BY <1>2, <2>1, <2>2 DEF Nowhere
<1>4. Unsaid(BlankReplies)'
  <2>1. y \in Orders
    BY <1>1, <1>2, JobOrdersAre
  <2>2. y \notin BlankReplies
    BY <2>1, AgentAssumption, PairMembers DEF Orders, BlankReplies, Replies
  <2>3. Lacks(Append(toClients, y), BlankReplies)
    BY <1>2, <2>2, Appending DEF Topical, Unsaid
  <2> QED
    BY <1>1, <1>2, <2>3 DEF Topical, Unsaid, Hand
<1>5. ASSUME NEW a \in Two PROVE Remembers(a)'
  <2>0. a \in Agent
    BY PairMembers
  <2>1. PICK C, W : C = Clears(a) /\ W = Awaited(a)
    OBVIOUS
  <2>2. Sorted(a, W, C, out) /\ (calls[a] # <<>> => Gone(a, C, out))
    BY <1>1, <2>1 DEF Remembers
  <2>3. Sorted(a, W, C, Tail(out))' /\ (Gone(a, C, out) => Gone(a, C, Tail(out))')
    BY <1>2, <2>0, <2>2, PathSent
  <2> QED
    BY <1>2, <2>1, <2>2, <2>3 DEF Remembers, Sorted, Gone
<1> QED
  BY <1>2, <1>3, <1>4, <1>5 DEF Topical

\* What is drawn up during the first word: nothing about nothing, and no order
\* to forget but before the kickoff.
LEMMA DrawnMemory ==
  ASSUME TypeOK, OrdersInv, Draws, Topical, First, First'
  PROVE  /\ Lacks(outbox', BlankOrders)
         /\ Begins \/ \A a \in Two : Lacks(outbox', Clears(a))
         /\ Begins => \A a \in Two : NoneAfter(outbox', Awaited(a), Clears(a))
<1> DEFINE Goal == /\ Lacks(outbox', BlankOrders)
                   /\ Begins \/ \A a \in Two : Lacks(outbox', Clears(a))
                   /\ Begins => \A a \in Two : NoneAfter(outbox', Awaited(a), Clears(a))
<1>1. ASSUME \A a \in Two : Lacks(outbox', Mine(a)), ~Begins PROVE Goal
  <2>1. ASSUME NEW i \in DOMAIN outbox' PROVE outbox'[i] \notin BlankOrders
    BY <1>1 DEF BlankOrders, Lacks, Mine
  <2>2. \A a \in Two : Clears(a) \subseteq Mine(a)
    BY ClearsAre
  <2> QED
    BY <1>1, <2>1, <2>2 DEF Lacks
<1>2. ASSUME NEW s \in Seq(PlainOrders(Two)), NEW i \in DOMAIN s
      PROVE  /\ s[i] \notin BlankOrders /\ \A a \in Two : s[i] \notin Awaited(a)
  <2>1. s[i] \in PlainOrders(Two)
    BY ElementOfSeq
  <2> QED
    BY <2>1 DEF PlainOrders, BlankOrders, Awaited, TurnCommand, Asking, TypedRequest
<1>3. CASE Begins
  <2>1. PICK s \in Seq(PlainOrders(Two)), u \in Unlatches(Generator), v \in Unlatches(Adversary) :
          /\ Kickoff \in KickedOff
          /\ u \in PlainOrders(Two) /\ v \in PlainOrders(Two)
          /\ Prepare = Append(Append(Append(s, u), v), Kickoff)
    BY PrepareShape DEF TypeOK
  <2>2. PICK k, q : k = Kickoff /\ q = Append(Append(s, u), v)
    OBVIOUS
  <2>3. q \in Seq(PlainOrders(Two)) /\ outbox' = Append(q, k)
    BY <1>3, <2>1, <2>2 DEF Begins
  <2>4. k.about # {} /\ k.cmd = "SendInitialMessage"
    BY <2>2 DEF Kickoff, Order, Msg
  <2>5. k \notin BlankOrders /\ \A a \in Two : k \notin Clears(a)
    BY <2>4 DEF BlankOrders, Clears
  <2>6. Lacks(q, BlankOrders) /\ \A a \in Two : Lacks(q, Awaited(a))
    BY <1>2, <2>3 DEF Lacks
  <2>7. Lacks(Append(q, k), BlankOrders)
    BY <2>3, <2>5, <2>6, Appending
  <2>8. ASSUME NEW a \in Two PROVE NoneAfter(Append(q, k), Awaited(a), Clears(a))
    <3>1. NoneAfter(q, Awaited(a), Clears(a))
      BY <2>6 DEF NoneAfter, Lacks
    <3> QED
      BY <2>3, <2>5, <3>1, NoneAppended
  <2> QED
    BY <1>3, <2>3, <2>7, <2>8
<1>4. CASE Hands
  <2>1. PICK h : h = held
    OBVIOUS
  <2>2. outbox' = <<h>> /\ h \in Handed /\ h.about # {} /\ ~Begins
    BY <1>4, <2>1 DEF Hands, Begins, OrdersInv, HeldInv, Topical
  <2>3. h \notin BlankOrders /\ \A a \in Two : h \notin Clears(a)
    BY <2>2 DEF BlankOrders, Clears, Handed
  <2>4. \A i \in DOMAIN <<h>> : <<h>>[i] = h
    OBVIOUS
  <2> QED
    BY <2>2, <2>3, <2>4 DEF Lacks
<1>5. CASE Proceeds
  <2>1. outbox' = <<>> /\ ~Begins
    BY <1>5 DEF Proceeds, Begins, First
  <2> QED
    BY <1>1, <2>1, EmptyLacks
<1>6. CASE Poses \/ Hears \/ Takes
  <2>1. ~Begins
    BY <1>6 DEF Poses, Hears, Takes, Begins
  <2>2. \A a \in Two : Lacks(outbox', Mine(a))
    <3>1. ASSUME outbox' \in Seq(PlainOrders({Extractor})) PROVE \A a \in Two : Lacks(outbox', Mine(a))
      <4>1. \A i \in DOMAIN outbox' : outbox'[i] \in PlainOrders({Extractor})
        BY <3>1, ElementOfSeq
      <4>2. \A a \in Two : a # Extractor
        BY PairMembers DEF Two
      <4> QED
        BY <4>1, <4>2 DEF Lacks, PlainOrders, Mine
    <3>2. CASE Hears
      BY <3>1, <3>2 DEF Hears
    <3>3. CASE Takes
      <4>1. pc' # "failed"
        BY DEF First
      <4>2. CASE outbox' = <<>>
        BY <4>2, EmptyLacks
      <4>3. CASE Questions
        BY <4>3, QuestionsElsewhere
      <4> QED
        BY <3>3, <4>1, <4>2, <4>3 DEF Takes
    <3>4. CASE Poses
      BY <3>4, QuestionsElsewhere DEF Poses
    <3> QED
      BY <1>6, <3>2, <3>3, <3>4
  <2> QED
    BY <1>1, <2>1, <2>2
<1>7. Goal
  BY <1>3, <1>4, <1>5, <1>6 DEF Draws
<1> QED
  BY <1>7

\* What the jobs take of the two is about something, and so is what they hold.
LEMMA TakesTopical ==
  ASSUME TypeOK, OrdersInv, Draws, Topical
  PROVE  /\ Unsaid(BlankReplies)'
         /\ held' # NoMsg => held'.about # {}
<1>0. /\ toServer' = toServer \/ (toServer # <<>> /\ toServer' = Tail(toServer))
      /\ toServer \in Seq(Message)
      /\ UNCHANGED <<toClients, routerHand, fromAgent>>
  BY DEF Draws, Proceeds, Poses, Hears, Begins, Takes, Hands, agentVars, TypeOK, NetTypeOK
<1>1. Unsaid(BlankReplies)'
  <2>1. Lacks(toServer', BlankReplies)
    BY <1>0, NoneTail DEF Topical, Unsaid
  <2> QED
    BY <1>0, <2>1 DEF Topical, Unsaid, Hand
<1>2. held' # NoMsg => held'.about # {}
  <2>1. CASE held' = held \/ held' = NoMsg
    BY <2>1 DEF Topical
  <2>2. CASE Takes /\ held' # held
    <3>1. PICK m : m = Head(toServer)
      OBVIOUS
    <3>2. toServer # <<>> /\ held' = Handover(m)
      BY <2>2, <3>1 DEF Takes
    <3>3. toServer \in Seq({x \in Speech : LayerOf[x.from] = 0})
      BY DEF OrdersInv, Signed
    <3>4. m \in Speech /\ m \in Message /\ m.cmd = "NoCommand"
      <4>1. m \in {x \in Speech : LayerOf[x.from] = 0}
        BY <3>1, <3>2, <3>3
      <4> QED
        BY <4>1 DEF Speech
    <3>5. m \notin BlankReplies
      BY <1>0, <3>1, <3>2, NoneTail DEF Topical, Unsaid
    <3>6. CASE m.from \in Two
      <4>1. m.about # {}
        BY <3>4, <3>5, <3>6 DEF BlankReplies, Replies
      <4>2. /\ Order(Adversary, "RequestLogogramCritique", m.about).about = m.about
            /\ Order(Generator, "RequestLogogramIteration", m.about).about = m.about
        BY DEF Order, Msg
      <4>3. Handover(m) \in {Order(Adversary, "RequestLogogramCritique", m.about),
                             Order(Generator, "RequestLogogramIteration", m.about)}
        BY <3>6 DEF Handover, Two
      <4> QED
        BY <3>2, <4>1, <4>2, <4>3
    <3>7. CASE m.from \notin Two
      BY <3>2, <3>7 DEF Handover, Two
    <3> QED
      BY <3>6, <3>7
  <2>3. Takes \/ held' = held \/ held' = NoMsg
    BY DEF Draws, Proceeds, Poses, Hears, Begins, Hands
  <2> QED
    BY <2>1, <2>2, <2>3
<1> QED
  BY <1>1, <1>2

LEMMA DrawMemory ==
  ASSUME TypeOK, OrdersInv, TurnInv, Draws, Topical, First, First',
         \A a \in Two : Remembers(a)
  PROVE  Topical' /\ \A a \in Two : Remembers(a)'
<1>0. /\ outbox = <<>> /\ NetTypeOK
      /\ UNCHANGED <<toClients, toAgent, calls, stm, alive>>
  BY DEF Draws, agentVars, TypeOK
<1>1. /\ Lacks(outbox', BlankOrders)
      /\ Begins \/ \A a \in Two : Lacks(outbox', Clears(a))
      /\ Begins => \A a \in Two : NoneAfter(outbox', Awaited(a), Clears(a))
  BY DrawnMemory
<1>2. Topical'
  <2>1. Nowhere(BlankOrders, outbox)'
    BY <1>0, <1>1 DEF Topical, Nowhere
  <2> QED
    BY <2>1, TakesTopical DEF Topical
<1>3. ASSUME NEW a \in Two PROVE Remembers(a)'
  <2>0. a \in Agent /\ calls[a] \in Seq(Call)
    BY <1>0, PairMembers DEF NetTypeOK
  <2>1. PICK s, t, C, W : s = toAgent[a] /\ t = toClients /\ C = Clears(a) /\ W = Awaited(a)
    OBVIOUS
  <2>2. PICK after : after = outbox'
    OBVIOUS
  <2>3. InOrder(s, t, <<>>, W, C) /\ (calls[a] # <<>> => Lacks(s, C) /\ Lacks(t, C))
    BY <1>0, <2>1 DEF Remembers, Sorted, Gone
  <2>4. InOrder(s, t, after, W, C) /\ (calls[a] # <<>> => Lacks(after, C))
    <3>1. CASE ~Begins
      <4>1. Lacks(after, C)
        BY <1>1, <2>1, <2>2, <3>1
      <4> QED
        BY <2>3, <4>1 DEF InOrder, NoneAfter, Lacks
    <3>2. CASE Begins
      <4>1. Void(Contents(TurnBox, outbox), TurnBox, Turn)
        BY <3>2 DEF Begins, First, TurnInv
      <4>2. /\ <<"toAgent", a>> \in TurnBox /\ <<"toClients", Server>> \in TurnBox
            /\ <<"calls", a>> \in TurnBox
        BY BoxMembers DEF TurnBox, Channels
      <4>3. /\ Contents(TurnBox, outbox)[<<"toAgent", a>>] = s
            /\ Contents(TurnBox, outbox)[<<"toClients", Server>>] = t
            /\ Contents(TurnBox, outbox)[<<"calls", a>>] = calls[a]
        BY <2>1, <4>2 DEF Contents, Content
      <4>4. Lacks(s, Turn) /\ Lacks(t, Turn) /\ Lacks(calls[a], Turn)
        BY <4>1, <4>2, <4>3 DEF Void
      <4>5. W \subseteq Turn /\ Call \subseteq Turn
        BY <2>1 DEF Awaited, Turn, Orders
      <4>6. Lacks(s, W) /\ Lacks(t, W)
        BY <4>4, <4>5 DEF Lacks
      <4>7. calls[a] = <<>>
        <5> SUFFICES ASSUME calls[a] # <<>> PROVE FALSE
          OBVIOUS
        <5>1. 1 \in DOMAIN calls[a]
          BY <2>0
        <5>2. calls[a][1] \in Call
          BY <2>0, <5>1, ElementOfSeq
        <5> QED
          BY <4>4, <4>5, <5>1, <5>2 DEF Lacks
      <4>8. NoneAfter(after, W, C)
        BY <1>1, <2>1, <2>2, <3>2
      <4> QED
        BY <2>3, <4>6, <4>7, <4>8 DEF InOrder
    <3> QED
      BY <3>1, <3>2
  <2>5. Sorted(a, Awaited(a), Clears(a), outbox)'
    BY <1>0, <2>1, <2>2, <2>4 DEF Sorted
  <2>6. calls'[a] # <<>> => Gone(a, Clears(a), outbox)'
    BY <1>0, <2>1, <2>2, <2>3, <2>4 DEF Gone
  <2> QED
    BY <1>0, <2>5, <2>6 DEF Remembers
<1> QED
  BY <1>2, <1>3

LEMMA MemoryInit == Init => MemoryInv
<1> SUFFICES ASSUME Init PROVE MemoryInv
  OBVIOUS
<1>1. /\ toClients = <<>> /\ outbox = <<>> /\ routerHand = NoMsg /\ toServer = <<>>
      /\ held = NoMsg
      /\ \A a \in Agent : /\ toAgent[a] = <<>> /\ fromAgent[a] = <<>>
                          /\ calls[a] = <<>> /\ alive[a]
  BY DEF Init, NetInit
<1>2. Topical
  BY <1>1, EmptyLacks DEF Topical, Nowhere, Unsaid, Hand
<1>3. ASSUME NEW a \in Two PROVE Remembers(a)
  <2>1. a \in Agent
    BY PairMembers
  <2>2. \A L, K : NoneAfter(<<>>, L, K)
    BY DEF NoneAfter
  <2>3. Sorted(a, Awaited(a), Clears(a), outbox)
    BY <1>1, <2>1, <2>2, EmptyLacks DEF Sorted, InOrder
  <2> QED
    BY <1>1, <2>1, <2>3 DEF Remembers
<1> QED
  BY <1>2, <1>3 DEF MemoryInv

LEMMA MemoryStep ==
  ASSUME TypeOK, OrdersInv, OrdersInv', TurnInv, AliveInv, MemoryInv, [Next]_vars
  PROVE  MemoryInv'
<1> SUFFICES ASSUME First', faults' = 0
             PROVE  Topical' /\ \A a \in Two : Remembers(a)'
  BY DEF MemoryInv
<1>1. CASE SendCommand
  <2>1. First /\ faults = 0
    BY <1>1 DEF SendCommand, First
  <2> QED
    BY <1>1, <2>1, SendMemory DEF MemoryInv
<1>2. CASE Draws
  <2>1. First /\ faults = 0
    <3>1. word = 1
      BY <1>2, SoundBefore DEF First
    <3>2. pc \in {"find", "found", "choose", "word", "exchange", "words", "forward"}
      BY <1>2 DEF Draws, Proceeds, Poses, Hears, Begins, Takes, Hands
    <3> QED
      BY <1>2, <3>1, <3>2 DEF Draws, First
  <2> QED
    BY <1>2, <2>1, DrawMemory DEF MemoryInv
<1>3. CASE NetNext /\ UNCHANGED jobVars
  <2>1. First /\ faults = 0
    BY <1>3, NetFaults DEF First, jobVars
  <2> QED
    BY <1>3, <2>1, NetRemembers, NetTopical DEF MemoryInv
<1>4. CASE UNCHANGED vars
  <2>1. UNCHANGED <<toClients, outbox, toAgent, fromAgent, routerHand, toServer, calls, alive,
                    stm, faults, pc, word, held>>
    BY <1>4 DEF vars, netVars, jobVars, queueVars, agentVars
  <2>2. First /\ faults = 0
    BY <2>1 DEF First
  <2> QED
    BY <2>1, <2>2 DEF MemoryInv, Topical, Nowhere, Unsaid, Hand, Remembers, Sorted, Gone
<1> QED
  BY <1>1, <1>2, <1>3, <1>4, JobShape DEF Next

-----------------------------------------------------------------------------
\* Everything that is known of the development of logograms.
DevelopmentInv ==
  IInv /\ OrdersInv /\ TokensInv /\ AliveInv /\ HearInv /\ GoesOnInv /\ MemoryInv

LEMMA DevelopmentInit == Init => DevelopmentInv
  BY InitTyped, OrdersInit, TokensInit, GoingInit, MemoryInit DEF DevelopmentInv

LEMMA DevelopmentStep == DevelopmentInv /\ [Next]_vars => DevelopmentInv'
<1> SUFFICES ASSUME DevelopmentInv, [Next]_vars PROVE DevelopmentInv'
  OBVIOUS
<1>1. /\ IInv /\ TypeOK /\ OrdersInv /\ TokensInv /\ TurnInv
      /\ AliveInv /\ HearInv /\ GoesOnInv /\ MemoryInv
  BY DEF DevelopmentInv, IInv, TokensInv
<1>2. OrdersInv'
  BY <1>1, OrdersStep
<1> QED
  BY <1>1, <1>2, NextTyped, TokensStep, GoingStep, MemoryStep DEF DevelopmentInv

-----------------------------------------------------------------------------
(* The turns, from the invariant.                                          *)

LEMMA TurnsPlaces ==
  Turns = Places(TurnBox, Hand(held) \o outbox, Turn)
  BY DEF Turns, TurnBox, Channels, Two, Turn, TurnCommand

LEMMA SomePlace ==
  ASSUME NEW B, NEW out, NEW T, NEW b \in B, ~Lacks(Content(b, out), T)
  PROVE  Places(B, out, T) # {}
<1>1. PICK i \in DOMAIN Content(b, out) : Content(b, out)[i] \in T
  BY DEF Lacks
<1>2. <<b, i>> \in Places(B, out, T)
  BY <1>1 DEF Places
<1> QED
  BY <1>2

LEMMA AfterComes ==
  ASSUME NEW s, NEW f, NEW S, NEW R, After(s, f, S, R), Lacks(s, S)
  PROVE  f
  BY DEF After, Lacks

LEMMA OtherBoxes ==
  ASSUME NEW d \in TurnBox, d # <<"jobs", Server>>, NEW s, NEW t
  PROVE  Content(d, s) = Content(d, t)
<1>1. \/ \E n \in Channels : d = <<n, Server>>
      \/ \E a \in Two : \/ d = <<"toAgent", a>>
                        \/ d = <<"fromAgent", a>>
                        \/ d = <<"calls", a>>
  BY Zenon DEF TurnBox, Boxes
<1>2. CASE d = <<"toClients", Server>>
  BY <1>2 DEF Content
<1>3. CASE d = <<"routerHand", Server>>
  BY <1>3 DEF Content
<1>4. CASE d = <<"toServer", Server>>
  BY <1>4 DEF Content
<1>5. ASSUME NEW a \in Two, d = <<"toAgent", a>> PROVE Content(d, s) = Content(d, t)
  BY <1>5 DEF Content
<1>6. ASSUME NEW a \in Two, d = <<"fromAgent", a>> PROVE Content(d, s) = Content(d, t)
  BY <1>6 DEF Content
<1>7. ASSUME NEW a \in Two, d = <<"calls", a>> PROVE Content(d, s) = Content(d, t)
  BY <1>7 DEF Content
<1> QED
  BY <1>1, <1>2, <1>3, <1>4, <1>5, <1>6, <1>7 DEF Channels

\* Whenever there should be a turn there is one.
LEMMA SomeTurn ==
  ASSUME DevelopmentInv, AtWork, BothLive, Sound
  PROVE  Turns # {}
<1> DEFINE out == Hand(held) \o outbox
<1>0. /\ TypeOK /\ OrdersInv /\ HeldInv /\ Forwards /\ outbox \in Seq(Message)
      /\ \A a \in Agent : calls[a] \in Seq(Call)
  BY DEF DevelopmentInv, IInv, TypeOK, NetTypeOK, OrdersInv, TokensInv
<1>1. /\ \A n \in Channels : <<n, Server>> \in TurnBox
      /\ \A a \in Two : /\ <<"toAgent", a>> \in TurnBox /\ <<"fromAgent", a>> \in TurnBox
                        /\ <<"calls", a>> \in TurnBox
  BY BoxMembers DEF TurnBox
<1>2. /\ Replies \subseteq Turn /\ Call \subseteq Turn /\ Handed \subseteq Turn
      /\ \A a \in Two : Awaited(a) \subseteq Turn
  BY DEF Replies, Turn, Handed, Awaited, Orders, TurnCommand
<1>3. ASSUME NEW s, NEW S, S \subseteq Turn, ~Lacks(s, S) PROVE ~Lacks(s, Turn)
  BY <1>3 DEF Lacks
<1>4. ASSUME NEW b \in TurnBox, ~Lacks(Content(b, out), Turn) PROVE Turns # {}
  BY <1>4, SomePlace, TurnsPlaces
<1>5. CASE pc \in {"words", "forward"}
  <2>1. PICK h : h = held
    OBVIOUS
  <2>2. h \in Handed /\ h # NoMsg /\ h \in Message
    BY <1>0, <1>5, <2>1 DEF Forwards, HeldInv, Handed, Orders
  <2>3. out = <<h>> \o outbox
    BY <2>1, <2>2 DEF Hand
  <2>4. Lacks(<<h>> \o outbox, Turn) <=> Lacks(<<h>>, Turn) /\ Lacks(outbox, Turn)
    <3>1. PICK one : one = <<h>>
      OBVIOUS
    <3>2. one \in Seq(Message)
      BY <2>2, <3>1
    <3>3. Lacks(one \o outbox, Turn) <=> Lacks(one, Turn) /\ Lacks(outbox, Turn)
      BY <1>0, <3>2, Concatenating
    <3> QED
      BY <3>1, <3>3
  <2>5. ~Lacks(<<h>>, Turn)
    <3>1. 1 \in DOMAIN <<h>> /\ <<h>>[1] = h /\ h \in Turn
      BY <1>2, <2>2
    <3> QED
      BY <3>1 DEF Lacks
  <2>6. Content(<<"jobs", Server>>, out) = out
    BY DEF Content
  <2> QED
    BY <1>1, <1>4, <2>3, <2>4, <2>5, <2>6 DEF Channels
<1>6. CASE pc = "exchange"
  <2>1. out = outbox
    <3>1. Hand(held) = <<>>
      BY <1>0, <1>6 DEF HeldInv, Hand
    <3>2. <<>> \o outbox = outbox
      BY <1>0
    <3> QED
      BY <3>1, <3>2
  <2>2. GoingOn
    BY <1>6 DEF DevelopmentInv, GoesOnInv
  <2>3. /\ Content(<<"jobs", Server>>, out) = outbox
        /\ Content(<<"toClients", Server>>, out) = toClients
        /\ Content(<<"routerHand", Server>>, out) = Hand(routerHand)
        /\ Content(<<"toServer", Server>>, out) = toServer
        /\ \A a \in Two : /\ Content(<<"toAgent", a>>, out) = toAgent[a]
                          /\ Content(<<"fromAgent", a>>, out) = fromAgent[a]
                          /\ Content(<<"calls", a>>, out) = calls[a]
    BY <2>1 DEF Content
  <2> HIDE DEF out
  <2>4. ASSUME \/ ~Lacks(outbox, Turn) \/ ~Lacks(toClients, Turn)
               \/ ~Lacks(Hand(routerHand), Turn) \/ ~Lacks(toServer, Turn)
        PROVE  Turns # {}
    BY <1>1, <1>4, <2>3, <2>4 DEF Channels
  <2>5. ASSUME NEW a \in Two,
               \/ ~Lacks(toAgent[a], Turn) \/ ~Lacks(fromAgent[a], Turn)
               \/ ~Lacks(calls[a], Turn)
        PROVE  Turns # {}
    BY <1>1, <1>4, <2>3, <2>5
  <2>6. CASE ~Unsaid(Replies)
    <3>1. ASSUME NEW b \in Agent, ~Lacks(fromAgent[b], Replies) PROVE b \in Two
      <4>1. fromAgent[b] \in Seq(Said(b))
        BY <1>0 DEF OrdersInv, Signed
      <4>2. PICK i \in DOMAIN fromAgent[b] : fromAgent[b][i] \in Replies
        BY <3>1 DEF Lacks
      <4>3. fromAgent[b][i] \in Said(b)
        BY <4>1, <4>2, ElementOfSeq
      <4> QED
        BY <4>2, <4>3 DEF Said, Replies
    <3> QED
      BY <1>2, <1>3, <2>4, <2>5, <2>6, <3>1 DEF Unsaid
  <2>7. ASSUME NEW a \in Two, Settled(a, Works(a), Awaited(a), Others(a), outbox)
        PROVE  Turns # {}
    <3>1. CASE Works(a)
      <4>1. PICK k \in DOMAIN calls[a] : ~calls[a][k].cancelled
        BY <3>1 DEF Works
      <4>2. calls[a][k] \in Turn
        BY <1>0, <1>2, <4>1, ElementOfSeq, PairMembers
      <4>3. ~Lacks(calls[a], Turn)
        BY <4>1, <4>2 DEF Lacks
      <4> QED
        BY <2>5, <4>3
    <3>2. CASE ~Works(a)
      <4>1. \/ ~Lacks(outbox, Awaited(a)) \/ ~Lacks(toClients, Awaited(a))
            \/ ~Lacks(toAgent[a], Awaited(a))
        BY <2>7, <3>2, AfterComes DEF Settled, Finally
      <4>2. \/ ~Lacks(outbox, Turn) \/ ~Lacks(toClients, Turn) \/ ~Lacks(toAgent[a], Turn)
        BY <1>2, <1>3, <4>1
      <4> QED
        BY <2>4, <2>5, <4>2
    <3> QED
      BY <3>1, <3>2
  <2> QED
    BY <2>2, <2>6, <2>7 DEF GoingOn
<1> QED
  BY <1>5, <1>6 DEF AtWork

\* And of the first word there is at most one.
LEMMA OneTurn ==
  ASSUME DevelopmentInv, AtWork, word = 1
  PROVE  /\ Cardinality(Turns) \in Nat /\ Cardinality(Turns) <= 1
         /\ Turns # {} => Cardinality(Turns) = 1
<1> DEFINE out == Hand(held) \o outbox
           now == Contents(TurnBox, out)
           then == Contents(TurnBox, outbox)
           jobs == <<"jobs", Server>>
<1>0. /\ outbox \in Seq(Message) /\ HeldInv /\ TurnInv
  BY DEF DevelopmentInv, IInv, TypeOK, OrdersInv, TokensInv
<1>1. jobs \in TurnBox
  BY BoxMembers DEF TurnBox, Channels
<1>2. Single(now, TurnBox, Turn)
  <2>1. CASE held = NoMsg
    <3>1. out = outbox
      BY <1>0, <2>1 DEF Hand
    <3> QED
      BY <1>0, <3>1 DEF TurnInv
  <2>2. CASE held # NoMsg
    <3>1. Void(then, TurnBox, Turn)
      BY <1>0, <2>2 DEF TurnInv, HeldInv, AtWork
    <3>2. PICK h : h = held
      OBVIOUS
    <3>3. h \in Message /\ out = <<h>> \o outbox
      BY <1>0, <2>2, <3>2 DEF HeldInv, Handed, Orders, Hand
    <3>4. then[jobs] = outbox /\ now[jobs] = out
      BY <1>1 DEF Contents, Content
    <3>5. Few(<<h>> \o outbox, Turn)
      <4>1. PICK one : one = <<h>>
        OBVIOUS
      <4>2. one \in Seq(Message)
        BY <3>3, <4>1
      <4>3. Few(one, Turn)
        BY <4>1 DEF Few
      <4>4. Lacks(outbox, Turn)
        <5>1. Lacks(then[jobs], Turn)
          BY <1>1, <3>1 DEF Void
        <5> QED
          BY <3>4, <5>1
      <4>5. Few(one \o outbox, Turn)
        BY <1>0, <4>2, <4>3, <4>4, Concatenating
      <4> QED
        BY <4>1, <4>5
    <3>6. ASSUME NEW d \in TurnBox \ {jobs} PROVE now[d] = then[d]
      <4>1. Content(d, out) = Content(d, outbox)
        BY <3>6, OtherBoxes
      <4> QED
        BY <4>1 DEF Contents
    <3>7. \A d \in TurnBox \ {jobs} : Thins(now[d], then[d], Turn)
      BY <3>6 DEF Thins
    <3> HIDE DEF out, now, then, jobs
    <3> QED
      BY <1>1, <3>1, <3>3, <3>4, <3>5, <3>7, Replaced
  <2> QED
    BY <2>1, <2>2
<1>3. Turns \subseteq Places(TurnBox, out, Turn)
  BY TurnsPlaces
<1> QED
  BY <1>2, <1>3, PlacesFew

\* While a word is developed and both its agents live there is always a turn
\* under way, for any number of agents, words and messages on the way: whatever
\* the queues hold and in whatever order the agents obey, no answer is lost
\* before the jobs goroutine takes it, no order cancels a request that is not
\* replaced by another, and the generator is unlatched when its kickoff comes;
\* so ToServer, which iterateLogogram reads without a timeout (line 431), does
\* not stay empty for want of a speaker.  That both live is a premise: a reset
\* between an agent's Save and its Retrieve leaves it nothing to ask, and it
\* dies of that (agent.go:320-324).
THEOREM DialogueAlive == Spec => []TurnNeverLost
<1>1. DevelopmentInv => TurnNeverLost
  BY SomeTurn DEF TurnNeverLost, Sound, BothLive
<1> QED
  BY <1>1, DevelopmentInit, DevelopmentStep, PTL DEF Spec

\* The dialogue about the first word has one turn at a time, in all the places
\* where a turn can be, and nothing nil is forwarded in it (line 515), for any
\* number of agents and any capacity of the channels; only a failed request or
\* a malformed answer can take the one turn away.  That neither agent dies of
\* an empty memory meanwhile is MemoryInv: the resets reach an agent before what
\* it is told about the first word, and that stays until it asks.
THEOREM DialogueSingle == Spec => []OneTurnAtFirst
<1>1. DevelopmentInv => OneTurnAtFirst
  <2> SUFFICES ASSUME DevelopmentInv, AtWork, word = 1
               PROVE  /\ Cardinality(Turns) \in IF faults = 0 THEN {1} ELSE {0, 1}
                      /\ pc \in {"words", "forward"} => held # NoMsg
    BY DEF OneTurnAtFirst
  <2>1. /\ Cardinality(Turns) \in Nat /\ Cardinality(Turns) <= 1
        /\ Turns # {} => Cardinality(Turns) = 1
    BY OneTurn
  <2>2. Cardinality(Turns) \in {0, 1}
    BY <2>1
  <2>3. faults = 0 => Turns # {}
    <3>1. faults = 0 => BothLive
      BY DEF DevelopmentInv, MemoryInv, First, AtWork, Remembers, BothLive, Two
    <3> QED
      BY <3>1, SomeTurn DEF Sound
  <2>4. pc \in {"words", "forward"} => held # NoMsg
    BY DEF DevelopmentInv, TokensInv, Forwards, Sound
  <2> QED
    BY <2>1, <2>2, <2>3, <2>4
<1> QED
  BY <1>1, DevelopmentInit, DevelopmentStep, PTL DEF Spec

=============================================================================
