--------------------------- MODULE RequestsProofs ---------------------------
(***************************************************************************)
(* Proofs about Requests, for every bound on the attempts: the types, that *)
(* an overloaded service stops no agent, and that a request is what the    *)
(* agents' model takes it for.                                             *)
(***************************************************************************)
EXTENDS Requests, TLAPS

(* The loop ends only for an answer or an error that is not an overload,   *)
(* and only a cancelled request sees an error about a context.             *)
LoopInv ==
  /\ pc \in {"sleep", "attempt", "wait"} => ~done
  /\ pc = "delay" /\ done => err # "overloaded"
  /\ pc \in {"judge", "return", "ended"} => err # "overloaded"
  /\ pc = "cut" => err = "dispatch"
  /\ err \in {"dispatch", "canceled"} => cancelled

IInv == TypeOK /\ LoopInv

LEMMA InitIInv == Init => IInv
<1> SUFFICES ASSUME Init PROVE IInv
  OBVIOUS
<1>1. TypeOK
  <2>1. tries \in 0 .. MaxTries /\ (tries > 0 => done)
    BY RequestAssumption DEF Init
  <2>. QED
    BY <2>1 DEF Init, TypeOK, Error
<1>2. LoopInv
  BY DEF Init, LoopInv
<1>. QED
  BY <1>1, <1>2 DEF IInv

LEMMA NextIInv == IInv /\ [Next]_vars => IInv'
<1> SUFFICES ASSUME IInv, [Next]_vars PROVE IInv'
  OBVIOUS
<1>. USE RequestAssumption DEF IInv, TypeOK, LoopInv, Error
<1>1. CASE Cancel
  BY <1>1 DEF Cancel, loop
<1>2. CASE Sleep
  BY <1>2 DEF Sleep, Goes, loop
<1>3. CASE Attempt
  <2>1. tries = 0 /\ ~done
    BY <1>3 DEF Attempt
  <2>2. tries < MaxTries
    BY <2>1
  <2>3. CASE cancelled
    BY <1>3, <2>2, <2>3 DEF Attempt, Returns
  <2>4. CASE ~cancelled
    BY <1>3, <2>2, <2>4 DEF Attempt
  <2>. QED
    BY <2>3, <2>4
<1>4. CASE Answered
  <2>1. tries = 0
    BY <1>4 DEF Answered, Goes
  <2>2. tries' \in 0 .. MaxTries
    BY <1>4, <2>1 DEF Answered
  <2>. QED
    BY <1>4, <2>2 DEF Answered, Goes
<1>5. ASSUME NEW e \in {"overloaded", "fatal", "canceled"}, Failed(e)
      PROVE  IInv'
  <2>1. tries = 0 /\ tries' = tries
    BY <1>5 DEF Failed, Goes
  <2>2. done' \in BOOLEAN /\ retry' \in BOOLEAN /\ (err' = "overloaded" => ~done')
    BY <1>5 DEF Failed, Goes
  <2>. QED
    BY <1>5, <2>1, <2>2 DEF Failed, Goes
<1>6. CASE Delay
  BY <1>6 DEF Delay, Returns
<1>7. CASE Judge
  BY <1>7 DEF Judge, Returns, loop
<1>8. CASE OllamaAttempt
  BY <1>8 DEF OllamaAttempt, Returns, loop
<1>9. CASE OllamaReturns
  BY <1>9 DEF OllamaReturns, Returns, loop
<1>10. CASE Return
  BY <1>10 DEF Return, loop
<1>11. CASE UNCHANGED vars
  BY <1>11 DEF vars, loop
<1>. QED
  BY <1>1, <1>2, <1>3, <1>4, <1>5, <1>6, <1>7, <1>8, <1>9, <1>10, <1>11
  DEF Next, Advance

LEMMA Invariant == Spec => []IInv
<1>. QED
  BY InitIInv, NextIInv, PTL DEF Spec

(* A request keeps its types, and counts answers only, for every bound.    *)
THEOREM RequestTyped == Spec => []TypeOK
<1>1. IInv => TypeOK
  BY DEF IInv
<1>. QED
  BY Invariant, <1>1, PTL

(* No agent is ever stopped by an overloaded service (the loops of         *)
(* gemini.go and openai.go, and main of the agent).                        *)
THEOREM OverloadIsSurvived == Spec => []OverloadNeverKills
<1>. DEFINE EndInv == end # "none" => pc = "ended"
<1>1. Init => EndInv
  BY DEF Init
<1>2. IInv /\ EndInv /\ [Next]_vars => EndInv'
  BY DEF Next, Advance, Cancel, Sleep, Attempt, Answered, Failed, Delay, Judge,
         OllamaAttempt, OllamaReturns, Return, Goes, Returns, vars
<1>3. IInv /\ EndInv => OverloadNeverKills
  BY DEF IInv, LoopInv, OverloadNeverKills
<1>. QED
  BY Invariant, <1>1, <1>2, <1>3, PTL DEF Spec

(* Every step of a request is a step, or none, of the call that Agents     *)
(* models, whichever service it goes to.                                   *)
THEOREM RequestsImplementCall == Spec => ImplementsCall
<1>1. Init => AbstractCall!Init
  BY DEF Init, AbstractCall!Init
<1>2. IInv /\ [Next]_vars => [AbstractCall!Next]_AbstractCall!vars
  <2> SUFFICES ASSUME IInv, [Next]_vars
               PROVE  [AbstractCall!Next]_AbstractCall!vars
    OBVIOUS
  <2>. USE DEF AbstractCall!Next, AbstractCall!vars
  <2>1. CASE Cancel
    BY <2>1 DEF Cancel, AbstractCall!Cancel
  <2>2. CASE Sleep
    BY <2>2 DEF Sleep, Goes, AbstractCall!Post
  <2>3. CASE Attempt
    BY <2>3 DEF Attempt, Returns
  <2>4. CASE Answered
    BY <2>4 DEF Answered, Goes
  <2>5. ASSUME NEW e \in {"overloaded", "fatal", "canceled"}, Failed(e)
        PROVE  [AbstractCall!Next]_AbstractCall!vars
    BY <2>5 DEF Failed, Goes
  <2>6. CASE Delay
    BY <2>6 DEF Delay, Returns
  <2>7. CASE Judge
    BY <2>7 DEF Judge, Returns
  <2>8. CASE OllamaAttempt
    BY <2>8 DEF OllamaAttempt, Returns
  <2>9. CASE OllamaReturns
    BY <2>9 DEF OllamaReturns, Returns
  <2>10. CASE Return
    <3>1. CASE pc = "cut"
      BY <2>10, <3>1 DEF Return, IInv, LoopInv, AbstractCall!GiveUp, AbstractCall!Ends
    <3>2. CASE pc = "return" /\ err = "nil"
      BY <2>10, <3>2 DEF Return, AbstractCall!Answer, AbstractCall!Ends
    <3>3. CASE pc = "return" /\ (err = "dispatch" \/ (typed /\ err = "canceled"))
      BY <2>10, <3>3 DEF Return, IInv, LoopInv, AbstractCall!GiveUp, AbstractCall!Ends
    <3>4. CASE pc = "return" /\ err # "nil" /\ err # "dispatch"
               /\ ~(typed /\ err = "canceled")
      BY <2>10, <3>4 DEF Return, AbstractCall!LlmFails, AbstractCall!Ends
    <3>. QED
      BY <2>10, <3>1, <3>2, <3>3, <3>4 DEF Return
  <2>11. CASE UNCHANGED vars
    BY <2>11 DEF vars
  <2>. QED
    BY <2>1, <2>2, <2>3, <2>4, <2>5, <2>6, <2>7, <2>8, <2>9, <2>10, <2>11
    DEF Next, Advance
<1>. QED
  BY Invariant, <1>1, <1>2, PTL DEF Spec, ImplementsCall, AbstractCall!Spec
=============================================================================
