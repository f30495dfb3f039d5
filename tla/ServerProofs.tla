---------------------------- MODULE ServerProofs ----------------------------
(***************************************************************************)
(* Proofs about Server, for every number of generations and every          *)
(* capacity: the types, that the queue of generations is never too short,  *)
(* that the generations and the dictionary's updates keep in step, that    *)
(* nothing cut short is kept, and that only a server that is being stopped *)
(* meets a closed channel.                                                 *)
(***************************************************************************)
EXTENDS Server, TLAPS, SequenceTheorems

-----------------------------------------------------------------------------
(* The inductive invariant.                                                *)

SideTyped ==
  /\ ctxDone \in BOOLEAN /\ cut \in BOOLEAN /\ torn \in BOOLEAN
  /\ signalled \in BOOLEAN /\ webClosed \in BOOLEAN
  /\ reporting \subseteq {"jobs", "grpc", "web", "webMain"}
  /\ death \in {"none", "closed", "errs", "short"}
  /\ faults \in 0 .. MaxFaults
  /\ main \in {"select", "stop", "wait", "teardown", "close", "leaving", "exited"}
  /\ grpcServe \in {"serving", "failed", "ended"}
  /\ grpcMain \in {"up", "closed", "stopped"}
  /\ webServe \in {"serving", "failed"} /\ webMain \in {"up", "down"}
  /\ router \in {"idle", "routing", "ended"} /\ inbox \in 0 .. InboxCap

JobsTyped ==
  /\ joined \in BOOLEAN
  /\ pc \in {"boot", "receive", "batch", "job", "evolving", "reported", "ended"}
  /\ boot \in 0 .. MaxGenerations + 2
  /\ jobsChan \in Seq(Queue) /\ Len(jobsChan) <= JobsCap
  /\ left \in [Queue -> Nat]
  /\ batch \in Job \cup {"none"}
  /\ evolution \in Nat
  /\ ng \in Generation
  /\ generations \in Seq(Generation)
  /\ updates \in Seq(Nat)

\* The jobs goroutine is in the named job, or is about to be.
Stage(job) == pc \in {"batch", "job"} /\ batch = job

\* An evolution is under way, and its generation is not kept yet.
Mid ==
  \/ pc \in {"evolving", "reported"}
  \/ Stage("iterate-dictionary") \/ Stage("iterate-logograms")
  \/ Stage("update-generations")

(* No evolution starts that was not queued.                                *)
Queued ==
  /\ left["q"] <= 1 /\ left["eq"] <= 1
  /\ left["gq"] + evolution + (IF Stage("iterate-specifications") THEN 1 ELSE 0)
       <= MaxGenerations
  /\ pc = "boot" =>
       /\ evolution = 0 /\ batch = "none" /\ boot <= MaxGenerations + 1
       /\ left["q"] = IF boot = 0 THEN 0 ELSE 1
       /\ left["gq"] = IF boot = 0 THEN 0 ELSE boot - 1
       /\ left["eq"] = 0

(* Every evolution but the one under way has been kept.                    *)
Counted ==
  /\ pc # "ended" => Len(generations) = IF Mid THEN evolution ELSE evolution + 1
  /\ pc \in {"evolving", "reported"} => batch = "iterate-specifications"

(* Updates wait from the end of an evolution to the next job.              *)
InStep ==
  /\ pc # "ended" /\ updates # << >> =>
       updates = <<evolution>> /\ Stage("iterate-dictionary")
  /\ Len(updates) <= 1
  /\ \A k \in DOMAIN updates : updates[k] <= MaxGenerations
  /\ Stage("iterate-logograms") => ng.updated = evolution \/ ctxDone
  /\ Stage("update-generations") => ng.updated = evolution

Whole ==
  /\ Stage("iterate-dictionary") \/ Stage("iterate-logograms") =>
       ng.whole \/ ctxDone \/ cut
  /\ Stage("update-generations") => ng.whole

(* What is closed, when, and why.                                          *)
Stopping == signalled \/ main # "select"

Closing ==
  /\ torn => main \in {"close", "leaving", "exited"}
  /\ main \notin {"select", "stop"} => ctxDone
  /\ ctxDone \/ cut \/ grpcServe = "ended" => Stopping
  /\ grpcServe = "failed" /\ "grpc" \notin reporting => Stopping
  /\ grpcMain # "up" => cut
  /\ death \in {"closed", "errs"} => Stopping

\* What the goroutine owes the generations.
Owed == Counted /\ InStep /\ Whole /\ UpdatesInStep /\ WholeOnly

IInv == SideTyped /\ JobsTyped /\ Queued /\ Closing /\ Owed

-----------------------------------------------------------------------------
(* Steps of main, the servers and the Router leave the jobs' state alone,  *)
(* and nothing is opened again.                                            *)

SideStep ==
  \/ Signal \/ Notified \/ ErrsClosed
  \/ TakeErr \/ Halt \/ Stop \/ WaitForAll \/ Teardown \/ CloseErrs \/ Exit
  \/ GrpcFails \/ GrpcServeEnds \/ CloseChannels \/ StopGrpc
  \/ Listens
  \/ RouterTakes \/ RouterRoutes \/ RouterEnds
  \/ WebFails \/ CloseWeb

LEMMA NextSplit == Next <=> SideStep \/ Joins \/ (Beside /\ JobsStep)
  BY DEF Next, SideStep, JobsStep

LEMMA SidePreserves ==
  ASSUME SideTyped, Closing, SideStep
  PROVE  /\ SideTyped' /\ Closing'
         /\ UNCHANGED jobVars /\ (ctxDone => ctxDone') /\ (cut => cut')
<1>. USE DEF SideTyped, Closing, Stopping, MainGoes, signals, mainVars, chatVars, webVars,
             msgVars
<1>1. CASE Signal
  BY <1>1 DEF Signal
<1>2. CASE Notified
  BY <1>2 DEF Notified
<1>3. CASE ErrsClosed
  BY <1>3 DEF ErrsClosed
<1>4. CASE TakeErr
  BY <1>4 DEF TakeErr
<1>5. CASE Halt
  BY <1>5 DEF Halt
<1>6. CASE Stop
  BY <1>6 DEF Stop
<1>7. CASE WaitForAll
  BY <1>7 DEF WaitForAll
<1>8. CASE Teardown
  BY <1>8 DEF Teardown
<1>9. CASE CloseErrs
  BY <1>9 DEF CloseErrs
<1>10. CASE Exit
  BY <1>10 DEF Exit
<1>11. CASE GrpcFails
  BY <1>11, JobsAssumption DEF GrpcFails, Fault
<1>12. CASE GrpcServeEnds
  BY <1>12 DEF GrpcServeEnds
<1>13. CASE CloseChannels
  BY <1>13 DEF CloseChannels
<1>14. CASE StopGrpc
  BY <1>14 DEF StopGrpc
<1>15. CASE Listens
  BY <1>15, ServerAssumption DEF Listens
<1>16. CASE RouterTakes
  BY <1>16, ServerAssumption DEF RouterTakes
<1>17. CASE RouterRoutes
  BY <1>17 DEF RouterRoutes
<1>18. CASE RouterEnds
  BY <1>18 DEF RouterEnds
<1>19. CASE WebFails
  BY <1>19, JobsAssumption DEF WebFails, Fault, NoFault
<1>20. CASE CloseWeb
  BY <1>20 DEF CloseWeb
<1>. QED
  BY <1>1, <1>2, <1>3, <1>4, <1>5, <1>6, <1>7, <1>8, <1>9, <1>10, <1>11, <1>12, <1>13,
     <1>14, <1>15, <1>16, <1>17, <1>18, <1>19, <1>20 DEF SideStep

(* What the jobs' invariants say survives such a step: a generation that   *)
(* may be excused by a cancelled context or a closed channel stays so.     *)
LEMMA SideKeepsJobs ==
  ASSUME IInv, UNCHANGED jobVars, ctxDone => ctxDone', cut => cut'
  PROVE  JobsTyped' /\ Queued' /\ Owed'
<1>. USE DEF IInv, Owed, jobVars
<1>1. JobsTyped'
  BY DEF JobsTyped
<1>2. Stage("iterate-specifications")' = Stage("iterate-specifications")
      /\ Stage("iterate-dictionary")' = Stage("iterate-dictionary")
      /\ Stage("iterate-logograms")' = Stage("iterate-logograms")
      /\ Stage("update-generations")' = Stage("update-generations")
  BY DEF Stage
<1>3. Queued'
  BY <1>2 DEF Queued
<1>4. Counted'
  BY <1>2 DEF Counted, Mid
<1>5. InStep'
  BY <1>2 DEF InStep
<1>6. Whole'
  BY <1>2 DEF Whole
<1>7. UpdatesInStep' /\ WholeOnly'
  BY DEF UpdatesInStep, WholeOnly
<1>. QED
  BY <1>1, <1>3, <1>4, <1>5, <1>6, <1>7

-----------------------------------------------------------------------------
(* Steps of the jobs goroutine leave main and the servers alone, and open  *)
(* nothing.                                                                *)

LEMMA JobsSignals ==
  ASSUME faults \in 0 .. MaxFaults, JobsStep
  PROVE  /\ UNCHANGED <<ctxDone, cut, torn>>
         /\ reporting' = reporting \/ reporting' = reporting \cup {"jobs"}
         /\ death' = death \/ death' = "short" \/ (death' = "closed" /\ (torn \/ cut))
         /\ faults' \in 0 .. MaxFaults
<1>. USE JobsAssumption DEF signals, Succeeds, Errs, Fails, Gives, Panics, Report, Fault,
             NoFault
<1>1. CASE Boot
  BY <1>1 DEF Boot
<1>2. CASE ReceiveEnds
  BY <1>2 DEF ReceiveEnds
<1>3. CASE Receive
  BY <1>3 DEF Receive
<1>4. CASE NextJob
  BY <1>4 DEF NextJob
<1>5. CASE WaitForClients
  BY <1>5 DEF WaitForClients
<1>6. CASE StartEvolution
  BY <1>6 DEF StartEvolution
<1>7. CASE Evolve
  BY <1>7 DEF Evolve
<1>8. CASE EvolveFails
  BY <1>8 DEF EvolveFails
<1>9. CASE EvolveReported
  <2>1. CASE Succeeds
    BY <1>9, <2>1 DEF EvolveReported
  <2>2. CASE Errs
    BY <1>9, <2>2 DEF EvolveReported
  <2>3. CASE Panics("short")
    BY <1>9, <2>3 DEF EvolveReported
  <2>. QED
    BY <1>9, <2>1, <2>2, <2>3 DEF EvolveReported
<1>10. CASE EvolveCancelled
  BY <1>10 DEF EvolveCancelled
<1>11. CASE IterateDictionary
  BY <1>11 DEF IterateDictionary
<1>12. CASE IterateLogograms
  BY <1>12 DEF IterateLogograms
<1>13. CASE UpdateGenerations
  BY <1>13 DEF UpdateGenerations
<1>14. CASE Wait
  BY <1>14 DEF Wait
<1>15. CASE ExportData
  BY <1>15 DEF ExportData
<1>. QED
  BY <1>1, <1>2, <1>3, <1>4, <1>5, <1>6, <1>7, <1>8, <1>9, <1>10, <1>11, <1>12, <1>13,
     <1>14, <1>15 DEF JobsStep

LEMMA JobsBeside ==
  ASSUME SideTyped, Closing, Beside, JobsStep
  PROVE  SideTyped' /\ Closing'
<1>. USE DEF SideTyped, Closing, Stopping, Beside, mainVars, chatVars, webVars, msgVars
<1>1. /\ UNCHANGED <<ctxDone, cut, torn>>
      /\ reporting' = reporting \/ reporting' = reporting \cup {"jobs"}
      /\ death' = death \/ death' = "short" \/ (death' = "closed" /\ (torn \/ cut))
      /\ faults' \in 0 .. MaxFaults
  BY JobsSignals
<1>2. "grpc" \in reporting' <=> "grpc" \in reporting
  BY <1>1
<1>3. reporting' \subseteq {"jobs", "grpc", "web", "webMain"}
  BY <1>1
<1>4. death' \in {"none", "closed", "errs", "short"}
  BY <1>1
<1>5. death' \in {"closed", "errs"} => Stopping
  BY <1>1
<1>6. SideTyped'
  BY <1>1, <1>3, <1>4
<1>7. Closing'
  BY <1>1, <1>2, <1>5
<1>. QED
  BY <1>6, <1>7

LEMMA AfterIsAJob == \A job \in Job : After(job) \in Job \cup {"none"}
  BY DEF After, Job

LEMMA EvolvedTyped ==
  /\ Evolved(FALSE) = [from |-> 0, whole |-> FALSE, updated |-> 0]
  /\ \A g \in Outcomes : g \in Generation /\ g.updated = 0 /\ (g.whole \/ cut)
  /\ Evolved(FALSE) \in Generation
<1>1. Evolved(TRUE) \in Generation /\ Evolved(TRUE).updated = 0 /\ Evolved(TRUE).whole
  BY DEF Evolved, Basis, Generation
<1>2. Evolved(FALSE) \in Generation /\ Evolved(FALSE).updated = 0
  BY DEF Evolved, Basis, Generation
<1>. QED
  BY <1>1, <1>2 DEF Outcomes, Evolved, Basis

\* A sequence that is not empty has its head, and what follows is shorter.
LEMMA HeadTail ==
  ASSUME NEW S, NEW s \in Seq(S), s # << >>
  PROVE  /\ Head(s) \in S /\ Tail(s) \in Seq(S) /\ Len(s) > 0 /\ Head(s) = s[1]
         /\ Len(Tail(s)) = Len(s) - 1
         /\ \A k \in 1 .. Len(s) - 1 : Tail(s)[k] = s[k + 1]
  BY EmptySeq, HeadTailProperties, ElementOfSeq, LenProperties

LEMMA JobsTypedStep ==
  ASSUME JobsTyped, Queued, JobsStep
  PROVE  JobsTyped'
<1>. USE JobsAssumption DEF JobsTyped
<1>1. CASE Boot
  <2>1. NextQueue \in Queue
    BY DEF NextQueue, Queue
  <2>2. PICK n \in Queue : n = NextQueue
    BY <2>1
  <2>3. boot <= MaxGenerations + 1
    BY <1>1 DEF Boot, Queued
  <2>4. boot' \in 0 .. MaxGenerations + 2
    BY <1>1, <2>3 DEF Boot
  <2>5. left' = left \/ left' = [left EXCEPT ![n] = @ + 1]
    BY <1>1, <2>2 DEF Boot
  <2>6. left' \in [Queue -> Nat]
    <3>1. left \in [Queue -> Nat] /\ left[n] + 1 \in Nat
      OBVIOUS
    <3>. QED
      BY <2>5, <3>1, Zenon
  <2>7. jobsChan' = jobsChan \/ (Len(jobsChan) < JobsCap /\ jobsChan' = Append(jobsChan, n))
    BY <1>1, <2>2 DEF Boot
  <2>8. /\ Append(jobsChan, n) \in Seq(Queue)
        /\ Len(jobsChan) < JobsCap => Len(Append(jobsChan, n)) <= JobsCap
    BY LenProperties
  <2>9. jobsChan' \in Seq(Queue) /\ Len(jobsChan') <= JobsCap
    BY <2>7, <2>8, Zenon
  <2>. QED
    BY <1>1, <2>4, <2>6, <2>9 DEF Boot
<1>2. CASE ReceiveEnds
  BY <1>2 DEF ReceiveEnds
<1>3. CASE Receive
  <2>1. PICK q \in Queue : q = Head(jobsChan)
    BY <1>3, HeadTail DEF Receive
  <2>2. left' = left \/ (left[q] > 0 /\ left' = [left EXCEPT ![q] = @ - 1])
    BY <1>3, <2>1 DEF Receive
  <2>3. left[q] > 0 => [left EXCEPT ![q] = @ - 1] \in [Queue -> Nat]
    OBVIOUS
  <2>. HIDE DEF JobsTyped
  <2>4. left' \in [Queue -> Nat]
    BY <2>2, <2>3, Zenon DEF JobsTyped
  <2>5. jobsChan' = jobsChan \/ jobsChan' = Tail(jobsChan)
    BY <1>3 DEF Receive
  <2>6. Tail(jobsChan) \in Seq(Queue) /\ Len(Tail(jobsChan)) = Len(jobsChan) - 1
    BY <1>3, HeadTail DEF Receive, JobsTyped
  <2>7. Len(Tail(jobsChan)) <= JobsCap
    BY <2>6, LenProperties DEF JobsTyped
  <2>8. jobsChan' \in Seq(Queue) /\ Len(jobsChan') <= JobsCap
    BY <2>5, <2>6, <2>7, Zenon DEF JobsTyped
  <2>9. FirstJob[q] \in Job
    BY DEF FirstJob, Job, Queue
  <2>10. batch' \in Job \cup {"none"}
    BY <1>3, <2>1, <2>9 DEF Receive, JobsTyped
  <2>. QED
    BY <1>3, <2>4, <2>8, <2>10 DEF Receive, JobsTyped
<1>4. CASE NextJob
  BY <1>4 DEF NextJob
<1>5. ASSUME pc' = "batch" /\ batch' = After(batch), Running(batch) \/ pc \in {"evolving", "reported"}
      PROVE  batch' \in Job \cup {"none"}
  BY <1>5, AfterIsAJob DEF After
<1>. USE DEF Succeeds, Errs, Fails, Gives, Panics, Running
<1>6. CASE WaitForClients
  BY <1>6, <1>5 DEF WaitForClients
<1>7. CASE StartEvolution
  BY <1>7 DEF StartEvolution
<1>8. CASE Evolve
  BY <1>8, <1>5, EvolvedTyped DEF Evolve
<1>9. CASE EvolveFails
  BY <1>9, EvolvedTyped DEF EvolveFails
<1>10. CASE EvolveReported
  BY <1>10, <1>5, EvolvedTyped DEF EvolveReported
<1>11. CASE EvolveCancelled
  BY <1>11, <1>5, EvolvedTyped DEF EvolveCancelled
<1>12. CASE IterateDictionary
  <2>1. CASE updates # << >>
    <3>1. PICK e \in Nat : e = Head(updates)
      BY <2>1, HeadTail
    <3>2. Tail(updates) \in Seq(Nat)
      BY <2>1, HeadTail
    <3>3. [ng EXCEPT !.updated = e] \in Generation
      BY DEF Generation
    <3>4. updates' \in Seq(Nat) /\ ng' \in Generation
      BY <1>12, <2>1, <3>1, <3>2, <3>3 DEF IterateDictionary
    <3>. QED
      BY <1>12, <1>5, <3>4 DEF IterateDictionary
  <2>2. CASE updates = << >>
    BY <1>12, <1>5, <2>2 DEF IterateDictionary
  <2>. QED
    BY <2>1, <2>2
<1>13. CASE IterateLogograms
  BY <1>13, <1>5 DEF IterateLogograms
<1>14. CASE UpdateGenerations
  <2>1. generations' = generations \/ generations' = Append(generations, ng)
    BY <1>14 DEF UpdateGenerations
  <2>2. Append(generations, ng) \in Seq(Generation)
    OBVIOUS
  <2>3. generations' \in Seq(Generation)
    BY <2>1, <2>2, Zenon
  <2>. QED
    BY <1>14, <1>5, <2>3 DEF UpdateGenerations
<1>15. CASE Wait
  BY <1>15, <1>5 DEF Wait
<1>16. CASE ExportData
  BY <1>16, <1>5 DEF ExportData
<1>. QED
  BY <1>1, <1>2, <1>3, <1>4, <1>6, <1>7, <1>8, <1>9, <1>10, <1>11, <1>12, <1>13,
     <1>14, <1>15, <1>16 DEF JobsStep

\* What follows a job.
LEMMA AfterJobs ==
  /\ \A job \in Job : After(job) # "iterate-specifications"
  /\ \A job \in Job : After(job) = "iterate-dictionary" <=> job = "iterate-specifications"
  /\ \A job \in Job : After(job) = "iterate-logograms" <=> job = "iterate-dictionary"
  /\ \A job \in Job : After(job) = "update-generations" <=> job = "iterate-logograms"
  BY DEF After, Job

LEMMA JobsQueued ==
  ASSUME JobsTyped, Queued, JobsStep
  PROVE  Queued'
<1>. USE JobsAssumption
<1>1. CASE Boot
  <2>1. PICK n \in Queue : n = NextQueue
    BY DEF NextQueue, Queue
  <2>2. CASE left' = left /\ pc' = "ended" /\ UNCHANGED <<evolution, batch>>
    BY <1>1, <2>2 DEF Boot, Queued, JobsTyped, Stage
  <2>3. CASE /\ left' = [left EXCEPT ![n] = @ + 1] /\ boot' = boot + 1
             /\ pc' = IF LastQueue THEN "receive" ELSE "boot"
             /\ UNCHANGED <<evolution, batch>>
    <3>1. /\ pc = "boot" /\ evolution = 0 /\ batch = "none" /\ boot <= MaxGenerations + 1
          /\ left["q"] = IF boot = 0 THEN 0 ELSE 1
          /\ left["gq"] = IF boot = 0 THEN 0 ELSE boot - 1
          /\ left["eq"] = 0 /\ boot \in Nat
      BY <1>1 DEF Boot, Queued, JobsTyped
    <3>2. \A q \in Queue : left'[q] = IF q = n THEN left[q] + 1 ELSE left[q]
      BY <2>3 DEF JobsTyped
    <3>3. /\ left'["q"] = IF boot = 0 THEN 1 ELSE left["q"]
          /\ left'["gq"] = IF boot # 0 /\ boot <= MaxGenerations THEN left["gq"] + 1
                          ELSE left["gq"]
          /\ left'["eq"] = IF boot # 0 /\ ~(boot <= MaxGenerations) THEN left["eq"] + 1
                          ELSE left["eq"]
      BY <2>1, <3>1, <3>2 DEF Queue, NextQueue
    <3>4. Stage("iterate-specifications")' = FALSE
      BY <2>3, <3>1 DEF Stage
    <3>5. /\ left'["q"] = 1 /\ left'["eq"] <= 1
          /\ boot <= MaxGenerations => left'["gq"] = boot
      BY <3>1, <3>3
    <3>6. boot < MaxGenerations + 1 => left'["eq"] = 0
      BY <3>1, <3>3
    <3>7. CASE boot = MaxGenerations + 1
      <4>1. left'["gq"] = MaxGenerations
        BY <3>1, <3>3, <3>7
      <4>. QED
        BY <2>3, <3>1, <3>4, <3>5, <3>7, <4>1 DEF Queued, LastQueue
    <3>8. CASE boot # MaxGenerations + 1
      BY <2>3, <3>1, <3>4, <3>5, <3>6, <3>8 DEF Queued, LastQueue
    <3>. QED
      BY <3>7, <3>8
  <2>. QED
    BY <1>1, <2>1, <2>2, <2>3 DEF Boot
<1>2. CASE Receive
  <2>1. PICK q \in Queue : q = Head(jobsChan)
    BY <1>2, HeadTail DEF Receive, JobsTyped
  <2>2. pc = "receive" /\ pc' # "boot" /\ evolution' = evolution /\ evolution \in Nat
    BY <1>2 DEF Receive, JobsTyped
  <2>3. CASE left' = left /\ pc' = "receive"
    BY <2>2, <2>3 DEF Queued, Stage
  <2>4. CASE /\ left[q] > 0 /\ left' = [left EXCEPT ![q] = @ - 1]
             /\ pc' = "ended" \/ (pc' = "batch" /\ batch' = FirstJob[q])
    <3>1. \A r \in Queue : left'[r] = IF r = q THEN left[r] - 1 ELSE left[r]
      BY <2>4 DEF JobsTyped
    <3>2. left["q"] \in Nat /\ left["gq"] \in Nat /\ left["eq"] \in Nat
      BY DEF JobsTyped, Queue
    <3>3. /\ left'["q"] = IF q = "q" THEN left["q"] - 1 ELSE left["q"]
          /\ left'["eq"] = IF q = "eq" THEN left["eq"] - 1 ELSE left["eq"]
          /\ left'["gq"] = IF q = "gq" THEN left["gq"] - 1 ELSE left["gq"]
      BY <3>1, <3>2 DEF Queue
    <3>4. Stage("iterate-specifications")' => q = "gq"
      BY <2>4 DEF Stage, FirstJob, Queue
    <3>5. /\ left["q"] <= 1 /\ left["eq"] <= 1 /\ left["gq"] + evolution <= MaxGenerations
          /\ q = "gq" => left["gq"] > 0
      BY <2>2, <2>4, <3>2 DEF Queued, Stage
    <3>6. left'["q"] <= 1 /\ left'["eq"] <= 1
      BY <3>2, <3>3, <3>5
    <3>7. left'["gq"] + evolution + (IF Stage("iterate-specifications")' THEN 1 ELSE 0)
            <= MaxGenerations
      BY <2>2, <3>2, <3>3, <3>4, <3>5
    <3>. QED
      BY <2>2, <3>6, <3>7 DEF Queued
  <2>. QED
    BY <1>2, <2>1, <2>3, <2>4 DEF Receive
<1>3. CASE StartEvolution
  <2>1. Stage("iterate-specifications") /\ ~Stage("iterate-specifications")'
        /\ evolution' = evolution + 1 /\ left' = left /\ pc' # "boot"
    BY <1>3 DEF StartEvolution, Running, Stage
  <2>. QED
    BY <2>1 DEF Queued, JobsTyped, Queue
<1>4. CASE ~Boot /\ ~Receive /\ ~StartEvolution
  <2>. USE DEF Succeeds, Errs, Fails, Gives, Panics, Running
  <2>1. left' = left /\ evolution' = evolution /\ pc' # "boot"
    BY <1>4 DEF JobsStep, ReceiveEnds, NextJob, WaitForClients, Evolve, EvolveFails,
       EvolveReported, EvolveCancelled, IterateDictionary, IterateLogograms,
       UpdateGenerations, Wait, ExportData
  <2>2. \/ pc' \notin {"batch", "job"}
        \/ pc = "batch" /\ batch' = batch
        \/ batch' = After(batch)
    BY <1>4 DEF JobsStep, ReceiveEnds, NextJob, WaitForClients, Evolve, EvolveFails,
       EvolveReported, EvolveCancelled, IterateDictionary, IterateLogograms,
       UpdateGenerations, Wait, ExportData
  <2>3. After(batch) # "iterate-specifications"
    BY DEF After
  <2>4. Stage("iterate-specifications")' => Stage("iterate-specifications")
    BY <2>2, <2>3 DEF Stage
  <2>. QED
    BY <2>1, <2>4 DEF Queued, JobsTyped, Queue
<1>. QED
  BY <1>1, <1>2, <1>3, <1>4

(* What the jobs goroutine owes the generations it goes on owing, and what *)
(* it pays is right: by the steps that have nothing to do with them, then  *)
(* by each of those that have.                                             *)
LEMMA JobsOwed ==
  ASSUME IInv, JobsStep
  PROVE  Owed'
<1>. USE DEF IInv
<1>. DEFINE Evolving == {"iterate-dictionary", "iterate-logograms", "update-generations"}
<1>1. UNCHANGED <<ctxDone, cut, torn>>
  BY JobsSignals DEF SideTyped
<1>2. evolution \in Nat /\ Len(generations) \in Nat /\ ng \in Generation
  BY LenProperties DEF JobsTyped
<1>3. CASE pc' = "ended"
  <2>1. UNCHANGED <<generations, updates>>
    BY <1>3 DEF JobsStep, Boot, ReceiveEnds, Receive, NextJob, WaitForClients,
       StartEvolution, Evolve, EvolveFails, EvolveReported, EvolveCancelled,
       IterateDictionary, IterateLogograms, UpdateGenerations, Wait, ExportData, Succeeds
  <2>. QED
    BY <1>3, <2>1 DEF Owed, Counted, InStep, Whole, UpdatesInStep, WholeOnly, Stage
<1>4. ASSUME pc' # "ended", Boot \/ Receive \/ WaitForClients \/ Wait \/ ExportData
      PROVE  Owed'
  <2>1. /\ UNCHANGED <<generations, updates, ng, evolution>>
        /\ ~Mid /\ pc # "ended"
    BY <1>4 DEF Boot, Receive, WaitForClients, Wait, ExportData, Running, Mid, Stage
  <2>2. ASSUME Receive
        PROVE  pc' \notin {"evolving", "reported"} /\ ~(pc' \in {"batch", "job"} /\ batch' \in Evolving)
    <3>1. PICK q \in Queue : q = Head(jobsChan)
      BY <2>2, HeadTail DEF Receive, JobsTyped
    <3>2. FirstJob[q] \notin Evolving
      BY DEF FirstJob, Queue
    <3>3. pc' = "receive" \/ (pc' = "batch" /\ batch' = FirstJob[q])
      BY <1>4, <2>1, <2>2, <3>1 DEF Receive
    <3>. QED
      BY <3>2, <3>3
  <2>3. ASSUME ~Receive
        PROVE  pc' \notin {"evolving", "reported"} /\ ~(pc' \in {"batch", "job"} /\ batch' \in Evolving)
    <3>1. CASE Boot
      BY <1>4, <3>1 DEF Boot
    <3>2. (pc' = "batch" /\ batch' = "none") \/ Boot
      BY <1>4, <2>3 DEF WaitForClients, Wait, ExportData, Running, Succeeds, Gives, Fails,
         Errs, After
    <3>. QED
      BY <3>1, <3>2
  <2>4. pc' \notin {"evolving", "reported"} /\ ~(pc' \in {"batch", "job"} /\ batch' \in Evolving)
    BY <2>2, <2>3
  <2>5. ~Mid'
    BY <2>4 DEF Mid, Stage
  <2>6. updates = << >>
    BY <2>1 DEF Owed, InStep, Mid
  <2>7. Counted'
    BY <1>4, <2>1, <2>4, <2>5 DEF Owed, Counted
  <2>8. InStep' /\ Whole'
    BY <2>1, <2>5, <2>6 DEF Owed, Mid, InStep, Whole
  <2>. QED
    BY <2>1, <2>7, <2>8 DEF Owed, UpdatesInStep, WholeOnly
<1>5. ASSUME pc' # "ended", NextJob
      PROVE  Owed'
  BY <1>1, <1>5 DEF NextJob, Owed, Counted, Mid, Stage, InStep, Whole, UpdatesInStep,
     WholeOnly
<1>6. CASE StartEvolution
  <2>1. /\ ~Mid /\ pc # "ended" /\ pc' = "evolving" /\ evolution' = evolution + 1
        /\ UNCHANGED <<batch, generations, updates, ng>>
        /\ batch = "iterate-specifications"
    BY <1>6 DEF StartEvolution, Running, Mid, Stage
  <2>2. Mid' /\ Counted'
    BY <1>2, <2>1 DEF Owed, Counted, Mid
  <2>3. updates = << >>
    BY <2>1 DEF Owed, InStep, Mid
  <2>4. InStep' /\ Whole'
    BY <2>1, <2>3 DEF Owed, InStep, Whole, Stage
  <2>. QED
    BY <2>1, <2>2, <2>4 DEF Owed, UpdatesInStep, WholeOnly
<1>7. ASSUME pc \in {"evolving", "reported"}
      PROVE  updates = << >> /\ evolution <= MaxGenerations /\ Mid /\ pc # "ended"
             /\ Len(generations) = evolution
  <2>1. Mid /\ pc # "ended" /\ ~Stage("iterate-dictionary")
    BY <1>7 DEF Mid, Stage
  <2>2. left["gq"] \in Nat
    BY DEF JobsTyped, Queue
  <2>3. left["gq"] + evolution <= MaxGenerations
    BY <1>2, <1>7, <2>2 DEF Queued, Stage
  <2>4. evolution <= MaxGenerations
    BY <1>2, <2>2, <2>3, JobsAssumption
  <2>. QED
    BY <2>1, <2>4 DEF Owed, InStep, Counted
<1>8. ASSUME pc' # "ended", Evolve \/ EvolveReported \/ EvolveCancelled
      PROVE  Owed'
  <2>1. /\ pc \in {"evolving", "reported"} /\ pc' = "batch" /\ batch' = After(batch)
        /\ UNCHANGED <<generations, evolution>>
    BY <1>8 DEF Evolve, EvolveReported, EvolveCancelled, Succeeds, Errs, Panics
  <2>2. batch' = "iterate-dictionary"
    BY <2>1 DEF Owed, Counted, After
  <2>3. Mid' /\ Stage("iterate-dictionary")' /\ ~Stage("iterate-logograms")'
        /\ ~Stage("update-generations")'
    BY <2>1, <2>2 DEF Mid, Stage
  <2>4. Counted'
    BY <1>7, <2>1, <2>3 DEF Counted
  <2>5. updates' = << >> \/ updates' = <<evolution>>
    <3>1. Append(<< >>, evolution) = <<evolution>>
      OBVIOUS
    <3>. QED
      BY <1>7, <1>8, <2>1, <3>1 DEF Evolve, EvolveReported, EvolveCancelled
  <2>6. InStep'
    <3>1. Len(updates') <= 1
      BY <2>5
    <3>2. \A k \in DOMAIN updates' : updates'[k] <= MaxGenerations
      BY <1>7, <2>1, <2>5
    <3>. QED
      BY <2>1, <2>3, <2>5, <3>1, <3>2 DEF InStep
  <2>7. Whole'
    BY <1>1, <1>8, <2>1, <2>3, EvolvedTyped DEF Whole, Evolve, EvolveReported,
       EvolveCancelled, Errs, Panics
  <2>. QED
    BY <2>1, <2>4, <2>6, <2>7 DEF Owed, UpdatesInStep, WholeOnly
<1>9. ASSUME pc' # "ended", EvolveFails
      PROVE  Owed'
  <2>1. /\ pc = "evolving" /\ pc' = "reported"
        /\ UNCHANGED <<batch, generations, evolution, updates>>
    BY <1>9 DEF EvolveFails, Panics
  <2>2. Mid' /\ Counted'
    BY <1>7, <2>1 DEF Owed, Counted, Mid
  <2>3. InStep' /\ Whole'
    BY <1>7, <2>1 DEF InStep, Whole, Stage
  <2>. QED
    BY <2>1, <2>2, <2>3 DEF Owed, UpdatesInStep, WholeOnly
<1>10. ASSUME pc' # "ended", IterateDictionary
      PROVE  Owed'
  <2>1. /\ Stage("iterate-dictionary") /\ ~Stage("iterate-logograms")
        /\ ~Stage("update-generations") /\ Mid /\ pc # "ended"
        /\ pc' = "batch" /\ batch' = After(batch)
        /\ UNCHANGED <<generations, evolution>>
    BY <1>10 DEF IterateDictionary, Running, Succeeds, Errs, Gives, Mid, Stage
  <2>2. batch' = "iterate-logograms"
    BY <2>1 DEF After, Stage
  <2>3. Mid' /\ Stage("iterate-logograms")' /\ ~Stage("iterate-dictionary")'
        /\ ~Stage("update-generations")'
    BY <2>1, <2>2 DEF Mid, Stage
  <2>4. Counted'
    BY <2>1, <2>3 DEF Owed, Counted
  <2>5. CASE updates # << >>
    <3>1. updates = <<evolution>>
      BY <2>1, <2>5 DEF Owed, InStep
    <3>2. Head(updates) = evolution /\ Tail(updates) = << >>
      BY <3>1
    <3>3. ng' = [ng EXCEPT !.updated = evolution] /\ updates' = << >>
      BY <1>10, <2>1, <2>5, <3>2 DEF IterateDictionary, Errs, Gives
    <3>4. ng'.updated = evolution /\ ng'.whole = ng.whole
      BY <1>2, <3>3 DEF Generation
    <3>5. InStep'
      BY <2>1, <2>3, <3>3, <3>4 DEF InStep
    <3>6. Whole'
      BY <1>1, <2>1, <2>3, <3>4 DEF Owed, Whole
    <3>. QED
      BY <2>1, <2>4, <3>5, <3>6 DEF Owed, UpdatesInStep, WholeOnly
  <2>6. CASE updates = << >>
    <3>1. torn /\ UNCHANGED <<ng, updates>>
      BY <1>10, <2>6 DEF IterateDictionary, Errs, Gives
    <3>2. ctxDone
      BY <3>1 DEF Closing
    <3>3. InStep'
      BY <1>1, <2>3, <2>6, <3>1, <3>2 DEF InStep
    <3>4. Whole'
      BY <1>1, <2>3, <3>2 DEF Whole
    <3>. QED
      BY <2>1, <2>4, <3>3, <3>4 DEF Owed, UpdatesInStep, WholeOnly
  <2>. QED
    BY <2>5, <2>6
<1>11. ASSUME pc' # "ended", IterateLogograms
      PROVE  Owed'
  <2>1. /\ Stage("iterate-logograms") /\ ~Stage("iterate-dictionary") /\ Mid /\ pc # "ended"
        /\ pc' = "batch" /\ batch' = After(batch) /\ ~ctxDone /\ ~cut
        /\ UNCHANGED <<generations, evolution, ng, updates>>
    BY <1>11 DEF IterateLogograms, Running, Succeeds, Errs, Gives, Fails, Panics, Mid, Stage
  <2>2. batch' = "update-generations"
    BY <2>1 DEF After, Stage
  <2>3. Mid' /\ Stage("update-generations")' /\ ~Stage("iterate-dictionary")'
        /\ ~Stage("iterate-logograms")'
    BY <2>1, <2>2 DEF Mid, Stage
  <2>4. Counted'
    BY <2>1, <2>3 DEF Owed, Counted
  <2>5. InStep' /\ Whole'
    BY <2>1, <2>3 DEF Owed, InStep, Whole
  <2>. QED
    BY <2>1, <2>4, <2>5 DEF Owed, UpdatesInStep, WholeOnly
<1>12. ASSUME pc' # "ended", UpdateGenerations
      PROVE  Owed'
  <2>1. /\ Stage("update-generations") /\ ~Stage("iterate-dictionary") /\ Mid /\ pc # "ended"
        /\ pc' = "batch" /\ batch' = After(batch)
        /\ generations' = Append(generations, ng)
        /\ UNCHANGED <<evolution, updates, ng>>
    BY <1>12 DEF UpdateGenerations, Running, Succeeds, Errs, Gives, Mid, Stage
  <2>2. batch' = "wait-procedure"
    BY <2>1 DEF After, Stage
  <2>3. ~Mid' /\ pc' \notin {"evolving", "reported"}
    BY <2>1, <2>2 DEF Mid, Stage
  <2>4. Len(generations) = evolution /\ updates = << >> /\ ng.updated = evolution /\ ng.whole
    BY <2>1 DEF Owed, Counted, InStep, Whole
  <2>5. /\ Len(generations') = evolution + 1
        /\ \A k \in 1 .. evolution + 1 :
             generations'[k] = IF k <= evolution THEN generations[k] ELSE ng
    BY <1>2, <2>1, <2>4, AppendProperties DEF JobsTyped
  <2>6. DOMAIN generations' = 1 .. evolution + 1 /\ DOMAIN generations = 1 .. evolution
    BY <1>2, <2>1, <2>4, <2>5, LenProperties DEF JobsTyped
  <2>7. Counted' /\ InStep' /\ Whole'
    BY <2>1, <2>3, <2>4, <2>5 DEF Counted, InStep, Whole, Mid
  <2>8. UpdatesInStep'
    BY <1>2, <2>4, <2>5 DEF Owed, UpdatesInStep
  <2>9. WholeOnly'
    BY <1>2, <2>4, <2>5, <2>6 DEF Owed, WholeOnly
  <2>. QED
    BY <2>7, <2>8, <2>9 DEF Owed
<1>. QED
  BY <1>3, <1>4, <1>5, <1>6, <1>8, <1>9, <1>10, <1>11, <1>12 DEF JobsStep, ReceiveEnds

-----------------------------------------------------------------------------
(* The invariant, and what follows from it.                                *)

LEMMA InitIInv == Init => IInv
<1> SUFFICES ASSUME Init PROVE IInv
  OBVIOUS
<1>. USE DEF Init, JobsInit
<1>1. SideTyped
  <2>1. 0 \in 0 .. MaxFaults /\ 0 \in 0 .. InboxCap
    BY JobsAssumption, ServerAssumption
  <2>. QED
    BY <2>1 DEF SideTyped
<1>2. Initial \in Generation /\ Initial.whole /\ <<Initial>> \in Seq(Generation)
      /\ Len(<<Initial>>) = 1
  BY DEF Initial, Generation
<1>3. << >> \in Seq(Queue) /\ << >> \in Seq(Nat) /\ Len(<< >>) = 0
      /\ [q \in Queue |-> 0] \in [Queue -> Nat]
  OBVIOUS
<1>. USE JobsAssumption
<1>4. JobsTyped
  <2>1. boot \in 0 .. MaxGenerations + 2 /\ 0 <= JobsCap
    OBVIOUS
  <2>. QED
    BY <1>2, <1>3, <2>1 DEF JobsTyped
<1>5. Queued
  BY DEF Queued, Stage, Queue
<1>6. Closing
  BY DEF Closing
<1>7. Counted /\ InStep /\ Whole
  BY <1>2 DEF Counted, InStep, Whole, Mid, Stage
<1>8. UpdatesInStep /\ WholeOnly
  BY <1>2 DEF UpdatesInStep, WholeOnly
<1>. QED
  BY <1>1, <1>4, <1>5, <1>6, <1>7, <1>8 DEF IInv, Owed

LEMMA NextIInv == IInv /\ [Next]_vars => IInv'
<1> SUFFICES ASSUME IInv, [Next]_vars PROVE IInv'
  OBVIOUS
<1>1. CASE UNCHANGED vars
  <2>1. UNCHANGED jobVars /\ UNCHANGED ctxDone /\ UNCHANGED cut
    BY <1>1 DEF vars, signals
  <2>2. JobsTyped' /\ Queued' /\ Owed'
    BY <2>1, SideKeepsJobs
  <2>3. SideTyped' /\ Closing'
    BY <1>1 DEF IInv, SideTyped, Closing, Stopping, vars, signals, mainVars, chatVars,
       webVars, msgVars
  <2>. QED
    BY <2>2, <2>3 DEF IInv
<1>2. CASE SideStep
  <2>1. /\ SideTyped' /\ Closing'
        /\ UNCHANGED jobVars /\ (ctxDone => ctxDone') /\ (cut => cut')
    BY <1>2, SidePreserves DEF IInv
  <2>2. JobsTyped' /\ Queued' /\ Owed'
    BY <2>1, SideKeepsJobs
  <2>. QED
    BY <2>1, <2>2 DEF IInv
<1>3. CASE Joins
  <2>1. /\ joined' = TRUE
        /\ UNCHANGED <<signals, mainVars, chatVars, webVars, msgVars>>
        /\ UNCHANGED <<pc, boot, jobsChan, left, batch, evolution, ng, generations, updates>>
    BY <1>3 DEF Joins, Beside, ClientsJoin
  <2>2. SideTyped' /\ Closing'
    BY <2>1 DEF IInv, SideTyped, Closing, Stopping, signals, mainVars, chatVars, webVars,
       msgVars
  <2>3. JobsTyped' /\ Queued'
    BY <2>1 DEF IInv, JobsTyped, Queued, Stage
  <2>4. Counted' /\ InStep' /\ Whole'
    BY <2>1 DEF IInv, Owed, Counted, InStep, Whole, Mid, Stage, signals
  <2>5. UpdatesInStep' /\ WholeOnly'
    BY <2>1 DEF IInv, Owed, UpdatesInStep, WholeOnly
  <2>. QED
    BY <2>2, <2>3, <2>4, <2>5 DEF IInv, Owed
<1>4. CASE Beside /\ JobsStep
  <2>1. SideTyped' /\ Closing'
    BY <1>4, JobsBeside DEF IInv
  <2>2. JobsTyped' /\ Queued'
    BY <1>4, JobsTypedStep, JobsQueued DEF IInv
  <2>3. Owed'
    BY <1>4, JobsOwed
  <2>. QED
    BY <2>1, <2>2, <2>3 DEF IInv
<1>. QED
  BY <1>1, <1>2, <1>3, <1>4, NextSplit

LEMMA Invariant == Spec => []IInv
  BY InitIInv, NextIInv, PTL DEF Spec

(* Everything has its type; no evolution is started that was not queued,   *)
(* and jobsChan and dictUpdatesChan hold no more than they can.            *)
THEOREM ServerTyped == Spec => []TypeOK
<1>1. IInv => TypeOK
  <2> SUFFICES ASSUME IInv PROVE TypeOK
    OBVIOUS
  <2>. USE JobsAssumption DEF IInv
  <2>1. left["q"] \in Nat /\ left["gq"] \in Nat /\ left["eq"] \in Nat /\ evolution \in Nat
    BY DEF JobsTyped, Queue
  <2>2. left["gq"] + evolution <= MaxGenerations
    BY <2>1 DEF Queued, Stage
  <2>3. evolution \in 0 .. MaxGenerations /\ left["gq"] \in 0 .. MaxGenerations
    BY <2>1, <2>2
  <2>4. left["q"] \in 0 .. MaxGenerations /\ left["eq"] \in 0 .. MaxGenerations
    BY <2>1 DEF Queued
  <2>5. \A q \in Queue : left[q] \in 0 .. MaxGenerations
    BY <2>3, <2>4 DEF Queue
  <2>6. left \in [Queue -> 0 .. MaxGenerations]
    BY <2>5 DEF JobsTyped
  <2>7. \A k \in 1 .. Len(updates) : updates[k] \in 0 .. MaxGenerations
    <3>1. TAKE k \in 1 .. Len(updates)
    <3>2. updates[k] \in Nat
      BY ElementOfSeq DEF JobsTyped
    <3>3. updates[k] <= MaxGenerations
      BY <3>1, LenProperties DEF Owed, InStep, JobsTyped
    <3>. QED
      BY <3>2, <3>3
  <2>8. updates \in Seq(0 .. MaxGenerations)
    <3>1. updates \in [1 .. Len(updates) -> Nat] /\ Len(updates) \in Nat
      BY LenProperties DEF JobsTyped
    <3>2. updates \in [1 .. Len(updates) -> 0 .. MaxGenerations]
      BY <2>7, <3>1
    <3>. QED
      BY <3>1, <3>2, SeqDef
  <2>. QED
    BY <2>3, <2>6, <2>8 DEF TypeOK, SideTyped, JobsTyped, Owed, InStep
<1>. QED
  BY <1>1, Invariant, PTL

(* The queue of generations always has room for the next one.              *)
THEOREM ServerGenerationsFit == Spec => []GenerationsFit
<1>1. IInv => GenerationsFit
  <2> SUFFICES ASSUME IInv, Running("update-generations") PROVE Len(generations) < GenerationsCap
    BY DEF GenerationsFit
  <2>1. Len(generations) = evolution
    BY DEF IInv, Owed, Counted, Mid, Stage, Running
  <2>2. left["gq"] \in Nat /\ evolution \in Nat
    BY DEF IInv, JobsTyped, Queue
  <2>3. left["gq"] + evolution <= MaxGenerations
    BY <2>2, JobsAssumption DEF IInv, Queued, Stage, Running
  <2>. QED
    BY <2>1, <2>2, <2>3, JobsAssumption DEF GenerationsCap
<1>. QED
  BY <1>1, Invariant, PTL

(* Every generation has the dictionary updates of its own evolution.       *)
THEOREM ServerUpdatesInStep == Spec => []UpdatesInStep
<1>1. IInv => UpdatesInStep
  BY DEF IInv, Owed
<1>. QED
  BY <1>1, Invariant, PTL

(* What a shutdown cuts short is not kept.                                 *)
THEOREM ServerWholeOnly == Spec => []WholeOnly
<1>1. IInv => WholeOnly
  BY DEF IInv, Owed
<1>. QED
  BY <1>1, Invariant, PTL

(* No goroutine meets a closed channel in a server that goes on.           *)
THEOREM ServerOnlyStoppingPanics == Spec => []OnlyStoppingPanics
<1>1. IInv => OnlyStoppingPanics
  BY DEF IInv, Closing, Stopping, OnlyStoppingPanics
<1>. QED
  BY <1>1, Invariant, PTL
=============================================================================
