-------------------------------- MODULE Call --------------------------------
(***************************************************************************)
(* What the agents (Agents) take an LLM request for: it waits for the rate *)
(* limit, is posted, and ends in one of four ways.                         *)
(***************************************************************************)

VARIABLES
  typed,      \* it asks for JSON (typedRequest), or for plain text
  phase,      \* "asked", "posted" or "ended"
  cancelled,  \* a later message cancelled its context
  end         \* how it ended: "answered", "quiet" or "dead"

vars == <<typed, phase, cancelled, end>>

Init ==
  /\ typed \in BOOLEAN /\ phase = "asked" /\ cancelled = FALSE /\ end = "none"

Cancel ==
  /\ ~cancelled /\ cancelled' = TRUE
  /\ UNCHANGED <<typed, phase, end>>

Post ==
  /\ phase = "asked" /\ ~cancelled /\ phase' = "posted"
  /\ UNCHANGED <<typed, cancelled, end>>

Ends(how) ==
  /\ phase' = "ended" /\ end' = how
  /\ UNCHANGED <<typed, cancelled>>

Answer == phase = "posted" /\ Ends("answered")

GiveUp == cancelled /\ phase \in {"asked", "posted"} /\ Ends("quiet")

CancelKills == cancelled /\ phase = "posted" /\ ~typed /\ Ends("dead")

LlmFails == phase = "posted" /\ Ends("dead")

Next == Cancel \/ Post \/ Answer \/ GiveUp \/ CancelKills \/ LlmFails

Spec == Init /\ [][Next]_vars
=============================================================================
