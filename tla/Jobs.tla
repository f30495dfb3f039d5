-------------------------------- MODULE Jobs --------------------------------
(***************************************************************************)
(* The jobs goroutine of the server (cmd/server/server.go, Run and         *)
(* ProcessJobs): it puts queues of job batches on jobsChan, one after the  *)
(* other, and then, in the same goroutine, takes them off and runs their   *)
(* jobs in order.  All generations are batches of the one queue gq.        *)
(*                                                                         *)
(* A job is what it may do to the generations and how it may end; Iterate  *)
(* and Logogram look inside the two long ones.  The context, the errs      *)
(* channel and what closes a channel belong to Server.                     *)
(***************************************************************************)
EXTENDS Integers, Sequences, FiniteSets

CONSTANTS
  MaxGenerations,  \* procedures.maxGenerations, not 0 (NewConlangServer)
  JobsCap,         \* the capacity of jobsChan (100)
  MaxFaults        \* bound: how many times something outside fails

ASSUME JobsAssumption == 
  MaxGenerations \in Nat \ {0} /\ JobsCap \in Nat \ {0} /\ MaxFaults \in Nat

VARIABLES
  ctxDone,      \* the context of Run is cancelled
  reporting,    \* the goroutines that wait to send on errs, which main reads once
  cut,          \* Shutdown of the chat server closed ToClients and ToServer
  torn,         \* Teardown closed procedureChan, dictUpdatesChan and jobsChan
  death,        \* why a panic ended the process, or "none"
  faults,       \* how many times something outside has failed
  pc,           \* where the jobs goroutine is
  boot,         \* the queues it has put on jobsChan
  jobsChan,     \* the queues on jobsChan, by name
  left,         \* left[q]: the batches in queue q
  batch,        \* the next job of the batch under way, running or not, or "none"
  evolution,    \* how many evolutions have started
  ng,           \* the Generation all jobs share
  generations,  \* ConlangServer.generations
  updates,      \* dictUpdatesChan (capacity 1): the evolutions whose updates wait
  joined        \* enough agents have joined

signals == <<ctxDone, reporting, cut, torn, death, faults>>
jobVars == <<pc, boot, jobsChan, left, batch, evolution, ng, generations, updates, joined>>

Queue == {"q", "gq", "eq"}

(* The batches of each queue (initializeProcs, evolveProcs, exportProcs),  *)
(* by their first job and by what follows a job.                           *)
FirstJob == [q |-> "wait-for-clients", gq |-> "iterate-specifications", eq |-> "export-data"]

After(job) ==
  CASE job = "iterate-specifications" -> "iterate-dictionary"
    [] job = "iterate-dictionary"     -> "iterate-logograms"
    [] job = "iterate-logograms"      -> "update-generations"
    [] job = "update-generations"     -> "wait-procedure"
    [] OTHER                          -> "none"

Job == {"wait-for-clients", "iterate-specifications", "iterate-dictionary",
        "iterate-logograms", "update-generations", "wait-procedure", "export-data"}

(* A generation: the number of the one it was evolved from, whether all    *)
(* its layers were, and which evolution's dictionary updates it has.       *)
Generation == [from : Nat, whole : BOOLEAN, updated : Nat]
Initial    == [from |-> 0, whole |-> TRUE, updated |-> 0]

JobsInit ==
  /\ pc = "boot" /\ boot = 0
  /\ jobsChan = << >>
  /\ left = [q \in Queue |-> 0]
  /\ batch = "none"
  /\ evolution = 0
  /\ ng = Initial
  /\ generations = <<Initial>>
  /\ updates = << >>
  /\ joined = FALSE

-----------------------------------------------------------------------------
(* The goroutine's frame.                                                  *)

(* s.errs <- err, until main takes it.                                     *)
Report == reporting' = reporting \cup {"jobs"}

Reported == "jobs" \notin reporting

(* Something outside fails, and the code notices.                          *)
Fault == faults < MaxFaults /\ faults' = faults + 1

NoFault == UNCHANGED faults

\* A faulty variant: one generation too many is queued.
NextQueueLate == IF boot = 0 THEN "q" ELSE IF boot <= MaxGenerations + 1 THEN "gq" ELSE "eq"

\* The queue that is sent next; the generations' one is sent once for each.
NextQueue == IF boot = 0 THEN "q" ELSE IF boot <= MaxGenerations THEN "gq" ELSE "eq"

\* A faulty variant: one queue more than there are.
LastQueueLate == boot = MaxGenerations + 2

LastQueue == boot = MaxGenerations + 1

(* SendWithContext: a send on a closed channel is recovered and reported   *)
(* as a success, and a cancelled context is an error.                      *)
Boot ==
  /\ pc = "boot"
  /\ \/ /\ torn \/ Len(jobsChan) < JobsCap
        /\ left' = [left EXCEPT ![NextQueue] = @ + 1]
        /\ jobsChan' = IF torn THEN jobsChan ELSE Append(jobsChan, NextQueue)
        /\ boot' = boot + 1
        /\ pc' = IF LastQueue THEN "receive" ELSE "boot"
        /\ UNCHANGED signals
     \/ /\ ctxDone
        /\ Report /\ pc' = "ended"
        /\ UNCHANGED <<left, jobsChan, boot, ctxDone, cut, torn, death, faults>>
  /\ UNCHANGED <<batch, evolution, ng, generations, updates, joined>>

(* The queue that was received stays at the head of jobsChan while it is   *)
(* drained.                                                                *)
ReceiveEnds ==
  /\ pc = "receive" /\ jobsChan = << >> /\ torn
  /\ pc' = "ended"
  /\ UNCHANGED <<signals, boot, jobsChan, left, batch, evolution, ng, generations,
                 updates, joined>>

Receive ==
  /\ pc = "receive" /\ jobsChan # << >>
  /\ \/ /\ left[Head(jobsChan)] = 0
        /\ jobsChan' = Tail(jobsChan)
        /\ UNCHANGED <<pc, left, batch>>
     \/ /\ left[Head(jobsChan)] > 0
        /\ left' = [left EXCEPT ![Head(jobsChan)] = @ - 1]
        /\ IF ctxDone
             THEN pc' = "ended" /\ UNCHANGED batch
             ELSE pc' = "batch" /\ batch' = FirstJob[Head(jobsChan)]
        /\ UNCHANGED jobsChan
  /\ UNCHANGED <<signals, boot, evolution, ng, generations, updates, joined>>

(* The context is looked at before each job.                               *)
NextJob ==
  /\ pc = "batch"
  /\ pc' = IF batch = "none" THEN "receive" ELSE IF ctxDone THEN "ended" ELSE "job"
  /\ UNCHANGED <<signals, boot, jobsChan, left, batch, evolution, ng, generations,
                 updates, joined>>

Running(job) == pc = "job" /\ batch = job

Succeeds == /\ pc' = "batch" /\ batch' = After(batch)
            /\ UNCHANGED signals

\* The job's error ends ProcessJobs once main has taken it.
Errs == /\ pc' = "ended" /\ Report
        /\ UNCHANGED <<batch, ctxDone, cut, torn, death>>

Fails == Errs /\ Fault

Gives == Errs /\ NoFault

Panics(why) == /\ death' = why /\ pc' = "ended"
               /\ UNCHANGED <<batch, ctxDone, cut, torn, reporting>>

-----------------------------------------------------------------------------
(* The jobs.                                                               *)

ClientsJoin ==
  /\ ~joined /\ joined' = TRUE
  /\ UNCHANGED <<signals, pc, boot, jobsChan, left, batch, evolution, ng, generations,
                 updates>>

(* A cancelled context may be read before or after the polling goroutine   *)
(* has written the error.                                                  *)
WaitForClients ==
  /\ Running("wait-for-clients")
  /\ \/ (joined \/ ctxDone) /\ Succeeds
     \/ ctxDone /\ Gives
  /\ UNCHANGED <<boot, jobsChan, left, evolution, ng, generations, updates, joined>>

\* The generation an evolution starts from: generations[i], where i was 0
\* when the procedures were built.
Basis == 0

\* What iterate returns.  A closed ToServer gives an empty specification.
Evolved(whole) == [from |-> Basis, whole |-> whole, updated |-> 0]

Outcomes == IF cut THEN {Evolved(TRUE), Evolved(FALSE)} ELSE {Evolved(TRUE)}

StartEvolution ==
  /\ Running("iterate-specifications")
  /\ pc' = "evolving"
  /\ evolution' = evolution + 1
  /\ UNCHANGED <<signals, boot, jobsChan, left, batch, ng, generations, updates, joined>>

(* iterate does all layers and sends the dictionary's updates on the way   *)
(* (TakeUpdates of Iterate).                                               *)
Evolve ==
  /\ pc = "evolving"
  /\ Len(updates) < 1 /\ ~torn
  /\ updates' = Append(updates, evolution)
  /\ ng' \in Outcomes /\ Succeeds
  /\ UNCHANGED <<boot, jobsChan, left, evolution, generations, joined>>

(* Something fails: the job's error, or, in iterateUpdateDictionary, one   *)
(* it reports itself before iterate goes on without updates.  An empty     *)
(* answer from a closed ToServer is no JSON.  A layer whose agents have    *)
(* all left is an index out of range.                                      *)
EvolveFails ==
  /\ pc = "evolving"
  /\ Fault \/ ((cut \/ ctxDone) /\ NoFault)
  /\ \/ /\ pc' \in {"ended", "reported"} /\ Report
        /\ UNCHANGED <<batch, ctxDone, cut, torn, death>>
     \/ Panics("short")
  /\ ng' = Evolved(FALSE)
  /\ UNCHANGED <<boot, jobsChan, left, evolution, generations, updates, joined>>

(* After its own report iterate goes on to the layers that are left, which *)
(* may fail as well, and then the job is reported a second time.           *)
EvolveReported ==
  /\ pc = "reported" /\ Reported
  /\ \/ ng' \in Outcomes /\ Succeeds
     \/ ctxDone /\ ng' = Evolved(FALSE) /\ Succeeds
     \/ /\ Fault \/ ((cut \/ ctxDone) /\ NoFault)
        /\ Errs \/ Panics("short")
        /\ ng' = Evolved(FALSE)
  /\ UNCHANGED <<boot, jobsChan, left, evolution, generations, updates, joined>>

(* A cancelled context ends iterate in the middle of a layer, and not      *)
(* always as an error, or makes it give the updates up; they may also meet *)
(* the closed channel.                                                     *)
EvolveCancelled ==
  /\ pc = "evolving" /\ ctxDone
  /\ \/ ng' = Evolved(FALSE) /\ Succeeds
     \/ ng' \in Outcomes /\ Succeeds
     \/ torn /\ Panics("closed") /\ NoFault /\ UNCHANGED ng
  /\ UNCHANGED <<boot, jobsChan, left, evolution, generations, updates, joined>>

(* A faulty variant: no updates, no waiting.                               *)
IterateDictionaryIfAny ==
  /\ Running("iterate-dictionary")
  /\ ng' = [ng EXCEPT !.updated = IF updates = << >> THEN 0 ELSE Head(updates)]
  /\ updates' = << >>
  /\ Succeeds
  /\ UNCHANGED <<boot, jobsChan, left, evolution, generations, joined>>

(* A closed dictUpdatesChan gives empty updates.                           *)
IterateDictionary ==
  /\ Running("iterate-dictionary")
  /\ \/ /\ updates # << >> /\ Succeeds
        /\ ng' = [ng EXCEPT !.updated = Head(updates)]
        /\ updates' = Tail(updates)
     \/ /\ updates = << >> /\ torn /\ Succeeds
        /\ UNCHANGED <<ng, updates>>
     \/ /\ ctxDone /\ Gives
        /\ UNCHANGED <<ng, updates>>
  /\ UNCHANGED <<boot, jobsChan, left, evolution, generations, joined>>

(* A faulty variant: no answer is waited for.                              *)
IterateLogogramsAnyway ==
  /\ Running("iterate-logograms")
  /\ Succeeds
  /\ UNCHANGED <<boot, jobsChan, left, evolution, ng, generations, updates, joined>>

(* The words are looked up, then the context is looked at, then each word  *)
(* is developed (Logogram).  Too few words are an index out of range.  A   *)
(* closed ToServer gives answers of nobody, and passing one of them on is  *)
(* a send on the closed ToClients.                                         *)
IterateLogograms ==
  /\ Running("iterate-logograms")
  /\ \/ ~ctxDone /\ ~cut /\ Succeeds
     \/ ~ctxDone /\ Fault /\ Panics("short")
     \/ cut /\ NoFault /\ Panics("closed")
     \/ Fails
     \/ (ctxDone \/ cut) /\ Gives
  /\ UNCHANGED <<boot, jobsChan, left, evolution, ng, generations, updates, joined>>

\* A faulty variant: no place for the initial generation.
GenerationsCapShort == MaxGenerations

\* The capacity of the queue of generations, which starts with one.
GenerationsCap == MaxGenerations + 1

UpdateGenerations ==
  /\ Running("update-generations")
  /\ \/ /\ Len(generations) < GenerationsCap /\ Succeeds
        /\ generations' = Append(generations, ng)
     \/ /\ Len(generations) = GenerationsCap /\ Gives
        /\ UNCHANGED generations
  /\ UNCHANGED <<boot, jobsChan, left, evolution, ng, updates, joined>>

Wait ==
  /\ Running("wait-procedure")
  /\ Succeeds \/ (ctxDone /\ Gives)
  /\ UNCHANGED <<boot, jobsChan, left, evolution, ng, generations, updates, joined>>

(* Files may fail; otherwise the goroutine goes on to wait for more jobs.  *)
ExportData ==
  /\ Running("export-data")
  /\ Succeeds \/ Fails
  /\ UNCHANGED <<boot, jobsChan, left, evolution, ng, generations, updates, joined>>

JobsStep ==
  \/ Boot \/ ReceiveEnds \/ Receive \/ NextJob
  \/ WaitForClients
  \/ StartEvolution \/ Evolve \/ EvolveFails \/ EvolveReported \/ EvolveCancelled
  \/ IterateDictionary \/ IterateLogograms \/ UpdateGenerations \/ Wait
  \/ ExportData
=============================================================================
