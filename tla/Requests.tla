------------------------------ MODULE Requests ------------------------------
(***************************************************************************)
(* One request of an agent to its LLM (pkg/llms, cmd/agent): the sleep     *)
(* that limits the rate, the service's loop of attempts, and what the      *)
(* goroutine that asked makes of the outcome.  The context may be          *)
(* cancelled at any time, by the agent's next message.                     *)
(*                                                                         *)
(* Gemini and the OpenAI client have the same loop; Ollama makes a single  *)
(* attempt, by its client or by HTTP.  An error is what the code asks of   *)
(* it: overloaded (500, 503), fatal, or the context's own.                 *)
(***************************************************************************)
EXTENDS Naturals

CONSTANT MaxTries   \* maxRequestRetries

ASSUME RequestAssumption == MaxTries \in Nat \ {0}

VARIABLES
  service,    \* "retrying", "client" or "http"
  typed,      \* the goroutine is typedRequest, not DispatchToLLM
  pc,         \* where the request is
  cancelled,  \* its context is cancelled
  dead,       \* the attempt's own context is cancelled
  tries,      \* the attempts counted
  retry,      \* the delay of the retry is not 0
  done,       \* the loop is to end
  err,        \* the error of the last attempt, and then the request's
  end         \* how it ended for the agent

loop == <<dead, tries, retry, done>>
vars == <<service, typed, pc, cancelled, loop, err, end>>

Error == {"nil", "overloaded", "fatal", "canceled", "dispatch"}

Init ==
  /\ service \in {"retrying", "client", "http"} /\ typed \in BOOLEAN
  /\ pc = "sleep" /\ cancelled = FALSE
  /\ dead = FALSE /\ tries = 0 /\ retry = FALSE /\ done = FALSE
  /\ err = "nil" /\ end = "none"

(* action: the next message cancels the context of the one before.         *)
Cancel ==
  /\ ~cancelled /\ cancelled' = TRUE
  /\ UNCHANGED <<service, typed, pc, loop, err, end>>

Goes(from, to) == pc = from /\ pc' = to

Returns(e) == pc' = "return" /\ err' = e

-----------------------------------------------------------------------------
(* llm.request: a timer against the context.                               *)
Sleep ==
  /\ \/ cancelled /\ Goes("sleep", "cut") /\ err' = "dispatch"
     \/ ~cancelled /\ Goes("sleep", "attempt") /\ UNCHANGED err
  /\ UNCHANGED <<service, typed, cancelled, loop, end>>

(* A faulty variant: the attempts share one context.                       *)
AttemptReused ==
  /\ service = "retrying" /\ pc = "attempt"
  /\ IF cancelled \/ dead THEN Returns("canceled")
     ELSE pc' = "wait" /\ UNCHANGED err
  /\ UNCHANGED <<service, typed, cancelled, loop, end>>

(* A faulty variant: a cancelled context is another reason to try again.   *)
AttemptContinues ==
  /\ service = "retrying" /\ pc = "attempt"
  /\ dead' = cancelled
  /\ pc' = (IF cancelled THEN "attempt" ELSE "wait")
  /\ UNCHANGED <<service, typed, cancelled, tries, retry, done, err, end>>

(* The loop's head: a context for this attempt, the bound on attempts, and *)
(* a look at the context before the service is asked.                      *)
Attempt ==
  /\ service = "retrying" /\ pc = "attempt"
  /\ dead' = cancelled
  /\ IF tries >= MaxTries THEN pc' = "judge" /\ done' = TRUE /\ UNCHANGED err
     ELSE /\ UNCHANGED done
          /\ IF cancelled THEN Returns("canceled")
             ELSE pc' = "wait" /\ UNCHANGED err
  /\ UNCHANGED <<service, typed, cancelled, tries, retry, end>>

(* The service answers, which ends the loop, counts the attempt and clears *)
(* err; or an attempt fails.  A context cancelled meanwhile is an error of *)
(* its own, if the service notices.                                        *)
Answered ==
  /\ service = "retrying"
  /\ Goes("wait", "judge") /\ err' = "nil"
  /\ done' = TRUE /\ tries' = tries + 1
  /\ UNCHANGED <<service, typed, cancelled, dead, retry, end>>

\* A faulty variant: a failed attempt counts.
FailedCounted(e) ==
  /\ service = "retrying" /\ Goes("wait", "delay")
  /\ e = "canceled" => cancelled
  /\ err' = e /\ retry' = (retry \/ e = "overloaded")
  /\ done' = ~retry' /\ tries' = tries + 1
  /\ UNCHANGED <<service, typed, cancelled, dead, end>>

(* An overloaded service sets the delay, and the delay decides whether     *)
(* there is another attempt; nothing sets it back.                         *)
Failed(e) ==
  /\ service = "retrying" /\ Goes("wait", "delay")
  /\ e = "canceled" => cancelled
  /\ err' = e /\ retry' = (retry \/ e = "overloaded")
  /\ done' = ~retry'
  /\ UNCHANGED <<service, typed, cancelled, dead, tries, end>>

(* The delay, 0 or minutes, against the context.  A delay of 0 is over at  *)
(* once and may beat a cancelled context.                                  *)
Delay ==
  /\ pc = "delay"
  /\ \/ cancelled /\ Returns("canceled") /\ UNCHANGED dead
     \/ /\ ~(cancelled /\ retry)
        /\ pc' = (IF done THEN "judge" ELSE "attempt")
        /\ dead' = TRUE /\ UNCHANGED err
  /\ UNCHANGED <<service, typed, cancelled, tries, retry, done, end>>

(* After the loop: a canceled error is renamed.                            *)
Judge ==
  /\ pc = "judge"
  /\ Returns(IF err = "canceled" THEN "dispatch" ELSE err)
  /\ UNCHANGED <<service, typed, cancelled, loop, end>>

(* Ollama: the context is looked at, the service asked once.  Its client   *)
(* notices a cancelled context itself, or the code does while it streams.  *)
OllamaAttempt ==
  /\ service # "retrying" /\ pc = "attempt"
  /\ IF cancelled THEN Returns("dispatch") ELSE pc' = "wait" /\ UNCHANGED err
  /\ UNCHANGED <<service, typed, cancelled, loop, end>>

OllamaReturns ==
  /\ service # "retrying" /\ pc = "wait"
  /\ \/ Returns("nil") \/ Returns("fatal")
     \/ cancelled /\ Returns("canceled")
     \/ cancelled /\ service = "client" /\ Returns("dispatch")
  /\ UNCHANGED <<service, typed, cancelled, loop, end>>

-----------------------------------------------------------------------------
(* DispatchToLLM and typedRequest: an answer is saved and sent, whatever   *)
(* has become of the context.  typedRequest ignores a canceled error, main *)
(* ignores a dispatch error and stops the agent at any other.              *)
Return ==
  /\ pc \in {"cut", "return"} /\ pc' = "ended"
  /\ end' = IF err = "nil" THEN "answered"
            ELSE IF err = "dispatch" \/ (typed /\ err = "canceled") THEN "quiet"
            ELSE "dead"
  /\ UNCHANGED <<service, typed, cancelled, loop, err>>

Advance ==
  \/ Sleep \/ Attempt \/ Answered
  \/ \E e \in {"overloaded", "fatal", "canceled"} : Failed(e)
  \/ Delay \/ Judge
  \/ OllamaAttempt \/ OllamaReturns
  \/ Return

Next == Cancel \/ Advance

Spec == Init /\ [][Next]_vars

(* Timers go off, the services' calls return and goroutines run.           *)
FairSpec == Spec /\ WF_vars(Advance)

-----------------------------------------------------------------------------
(* Properties.                                                             *)

(* Types; and the counter counts answers, not attempts, so that it is 0 as *)
(* long as the loop runs.                                                  *)
TypeOK ==
  /\ service \in {"retrying", "client", "http"} /\ typed \in BOOLEAN
  /\ pc \in {"sleep", "cut", "attempt", "wait", "delay", "judge", "return", "ended"}
  /\ cancelled \in BOOLEAN
  /\ dead \in BOOLEAN
  /\ tries \in 0 .. MaxTries /\ (tries > 0 => done)
  /\ retry \in BOOLEAN /\ done \in BOOLEAN
  /\ err \in Error
  /\ end \in {"none", "answered", "quiet", "dead"}

(* The request is what the agents' model takes it for: it ends quietly     *)
(* only if it was cancelled, and a cancelled plain request may stop the    *)
(* agent only once it was posted.                                          *)
AbstractCall ==
  INSTANCE Call WITH
    phase <- IF pc = "ended" THEN "ended"
             ELSE IF pc \in {"sleep", "cut"} THEN "asked" ELSE "posted"

ImplementsCall == AbstractCall!Spec

(* An overloaded service alone never stops an agent: it is asked until it  *)
(* says something else, however long that takes.                           *)
OverloadNeverKills == end = "dead" => err # "overloaded"

(* Once it is cancelled a request ends, even in the minutes between two    *)
(* attempts at a service that stays overloaded.                            *)
CancelledEnds == cancelled ~> end # "none"
=============================================================================
