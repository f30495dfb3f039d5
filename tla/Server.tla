------------------------------- MODULE Server -------------------------------
(***************************************************************************)
(* The life of the server's process (cmd/server/main.go, server.go Run):   *)
(* main starts the chat server, the web server, the Router and the jobs    *)
(* goroutine (Jobs), waits for one error or one signal, cancels the        *)
(* context, waits for the first three, closes what is left and ends.       *)
(*                                                                         *)
(* errs is unbuffered and main reads it once.  The goroutines of a         *)
(* connection belong to the gRPC library: nobody waits for them.           *)
(***************************************************************************)
EXTENDS Jobs

CONSTANT InboxCap   \* the capacity of ToClients (100)

ASSUME ServerAssumption == InboxCap \in Nat \ {0}

VARIABLES
  main,         \* where main is
  signalled,    \* the process was signalled
  grpcServe,    \* the goroutine in grpc.Server.Serve: "serving", "failed" or "ended"
  grpcMain,     \* ChatServer.ListenAndServe: "up", "closed" or "stopped"
  webServe,     \* the goroutine in http.Serve: "serving" or "failed"
  webMain,      \* WebServer.ListenAndServe: "up" or "down"
  webClosed,    \* the web server's listener is closed
  router,       \* the Router: "idle", "routing" or "ended"
  inbox         \* how many messages wait in ToClients

chatVars == <<grpcServe, grpcMain>>
webVars  == <<webServe, webMain, webClosed>>
msgVars  == <<router, inbox>>
mainVars == <<main, signalled>>
vars == <<signals, jobVars, mainVars, chatVars, webVars, msgVars>>

Init ==
  /\ JobsInit
  /\ ctxDone = FALSE /\ reporting = {} /\ cut = FALSE /\ torn = FALSE
  /\ death = "none" /\ faults = 0
  /\ main = "select" /\ signalled = FALSE
  /\ grpcServe = "serving" /\ grpcMain = "up"
  /\ webServe = "serving" /\ webMain = "up" /\ webClosed = FALSE
  /\ router = "idle" /\ inbox = 0

\* A panic, or main's return, ends every goroutine.
Alive == death = "none" /\ main # "exited"

-----------------------------------------------------------------------------
(* main.                                                                   *)

Signal ==
  /\ Alive
  /\ ~signalled /\ signalled' = TRUE
  /\ UNCHANGED <<signals, jobVars, main, chatVars, webVars, msgVars>>

(* signal.NotifyContext cancels the context beside main.                   *)
Notified ==
  /\ Alive
  /\ signalled /\ ctxDone' = TRUE
  /\ UNCHANGED <<reporting, cut, torn, death, faults, jobVars, mainVars, chatVars,
                 webVars, msgVars>>

MainGoes(from, to) == Alive /\ main = from /\ main' = to /\ UNCHANGED signalled

TakeErr ==
  /\ MainGoes("select", "stop")
  /\ \E r \in reporting : reporting' = reporting \ {r}
  /\ UNCHANGED <<ctxDone, cut, torn, death, faults, jobVars, chatVars, webVars, msgVars>>

Halt ==
  /\ MainGoes("select", "stop") /\ signalled
  /\ UNCHANGED <<signals, jobVars, chatVars, webVars, msgVars>>

Stop ==
  /\ MainGoes("stop", "wait")
  /\ ctxDone' = TRUE
  /\ UNCHANGED <<reporting, cut, torn, death, faults, jobVars, chatVars, webVars, msgVars>>

WaitForAll ==
  /\ MainGoes("wait", "teardown")
  /\ grpcMain = "stopped" /\ router = "ended"
  /\ webMain = "down" /\ "webMain" \notin reporting
  /\ UNCHANGED <<signals, jobVars, chatVars, webVars, msgVars>>

Teardown ==
  /\ MainGoes("teardown", "close")
  /\ torn' = TRUE
  /\ UNCHANGED <<ctxDone, reporting, cut, death, faults, jobVars, chatVars, webVars, msgVars>>

CloseErrs ==
  /\ MainGoes("close", "leaving")
  /\ UNCHANGED <<signals, jobVars, chatVars, webVars, msgVars>>

(* Whoever still sends on the closed errs panics, unless main returns and  *)
(* ends the process before it runs.                                        *)
ErrsClosed ==
  /\ Alive
  /\ main = "leaving" /\ reporting # {}
  /\ death' = "errs"
  /\ UNCHANGED <<ctxDone, reporting, cut, torn, faults, jobVars, mainVars, chatVars,
                 webVars, msgVars>>

Exit ==
  /\ MainGoes("leaving", "exited")
  /\ UNCHANGED <<signals, jobVars, chatVars, webVars, msgVars>>

-----------------------------------------------------------------------------
(* The chat server.                                                        *)

(* A faulty variant: the error is sent after the context was cancelled.    *)
GrpcFailsCancelFirst ==
  /\ Alive
  /\ grpcServe = "serving" /\ Fault
  /\ grpcServe' = "ended"
  /\ reporting' = reporting \cup {"grpc"}
  /\ UNCHANGED <<ctxDone, cut, torn, death, jobVars, mainVars, grpcMain, webVars, msgVars>>

GrpcFails ==
  /\ Alive
  /\ grpcServe = "serving" /\ Fault
  /\ grpcServe' = "failed"
  /\ reporting' = reporting \cup {"grpc"}
  /\ UNCHANGED <<ctxDone, cut, torn, death, jobVars, mainVars, grpcMain, webVars, msgVars>>

(* Its deferred serverCancel runs once main has taken the error.           *)
GrpcServeEnds ==
  /\ Alive
  /\ grpcServe = "failed" /\ "grpc" \notin reporting
  /\ grpcServe' = "ended"
  /\ UNCHANGED <<signals, jobVars, mainVars, grpcMain, webVars, msgVars>>

(* A faulty variant: the channels are closed once nobody reads them.       *)
CloseChannelsUnread ==
  /\ Alive
  /\ grpcMain = "up" /\ (ctxDone \/ grpcServe = "ended") /\ router = "ended"
  /\ grpcMain' = "closed" /\ cut' = TRUE
  /\ UNCHANGED <<ctxDone, reporting, torn, death, faults, jobVars, mainVars, grpcServe,
                 webVars, msgVars>>

(* Shutdown closes the channels.                                           *)
CloseChannels ==
  /\ Alive
  /\ grpcMain = "up" /\ (ctxDone \/ grpcServe = "ended")
  /\ grpcMain' = "closed" /\ cut' = TRUE
  /\ UNCHANGED <<ctxDone, reporting, torn, death, faults, jobVars, mainVars, grpcServe,
                 webVars, msgVars>>

(* Then it stops the gRPC server, and Serve returns without an error.      *)
StopGrpc ==
  /\ Alive
  /\ grpcMain = "closed"
  /\ grpcMain' = "stopped"
  /\ grpcServe' = IF grpcServe = "serving" THEN "ended" ELSE grpcServe
  /\ UNCHANGED <<signals, jobVars, mainVars, webVars, msgVars>>

-----------------------------------------------------------------------------
(* The connections' listen loops, and the Router.                          *)

(* A loop has received a message, which may be one the transport still     *)
(* holds after Stop, and sends it on, once there is room; a bare send, it  *)
(* panics on the closed channel, even if it began before.  The jobs        *)
(* goroutine's own orders fill ToClients no differently.                   *)
Listens ==
  /\ Alive
  /\ \/ /\ ~cut /\ inbox < InboxCap
        /\ inbox' = inbox + 1
        /\ UNCHANGED death
     \/ /\ cut
        /\ death' = "closed"
        /\ UNCHANGED inbox
  /\ UNCHANGED <<ctxDone, reporting, cut, torn, faults, jobVars, mainVars, chatVars,
                 webVars, router>>

(* The context is looked at when a message has come.                       *)
RouterTakes ==
  /\ Alive
  /\ router = "idle" /\ inbox > 0
  /\ inbox' = inbox - 1
  /\ router' = IF ctxDone THEN "ended" ELSE "routing"
  /\ UNCHANGED <<signals, jobVars, mainVars, chatVars, webVars>>

RouterRoutes ==
  /\ Alive
  /\ router = "routing" /\ router' = "idle"
  /\ UNCHANGED <<signals, jobVars, mainVars, chatVars, webVars, inbox>>

RouterEnds ==
  /\ Alive
  /\ router = "idle" /\ inbox = 0 /\ cut
  /\ router' = "ended"
  /\ UNCHANGED <<signals, jobVars, mainVars, chatVars, webVars, inbox>>

-----------------------------------------------------------------------------
(* The web server.                                                         *)

(* http.Serve returns with an error and closes the listener; or it returns *)
(* because the listener was closed, which is an error to it as well.       *)
WebFails ==
  /\ Alive
  /\ webServe = "serving"
  /\ webServe' = "failed" /\ webClosed' = TRUE
  /\ IF webClosed THEN NoFault ELSE Fault
  /\ reporting' = reporting \cup {"web"}
  /\ UNCHANGED <<ctxDone, cut, torn, death, jobVars, mainVars, chatVars, webMain, msgVars>>

(* Shutdown closes the listener; closing it again is an error, which is    *)
(* sent on errs from a goroutine main waits for.                           *)
CloseWeb ==
  /\ Alive
  /\ webMain = "up" /\ (ctxDone \/ (webServe = "failed" /\ "web" \notin reporting))
  /\ webMain' = "down" /\ webClosed' = TRUE
  /\ reporting' = IF webClosed THEN reporting \cup {"webMain"} ELSE reporting
  /\ UNCHANGED <<ctxDone, cut, torn, death, faults, jobVars, mainVars, chatVars,
                 webServe, msgVars>>

-----------------------------------------------------------------------------

Main ==
  TakeErr \/ Halt \/ Stop \/ WaitForAll \/ Teardown \/ CloseErrs \/ Exit

\* A step of the jobs goroutine, or of the agents, leaves the rest alone.
Beside == Alive /\ UNCHANGED <<mainVars, chatVars, webVars, msgVars>>

JobsRun == Beside /\ JobsStep

Joins == Beside /\ ClientsJoin

Next ==
  \/ Signal \/ Notified \/ ErrsClosed
  \/ TakeErr \/ Halt \/ Stop \/ WaitForAll \/ Teardown \/ CloseErrs \/ Exit
  \/ GrpcFails \/ GrpcServeEnds \/ CloseChannels \/ StopGrpc
  \/ Listens
  \/ RouterTakes \/ RouterRoutes \/ RouterEnds
  \/ WebFails \/ CloseWeb
  \/ Joins
  \/ Beside /\ Boot
  \/ Beside /\ ReceiveEnds
  \/ Beside /\ Receive
  \/ Beside /\ NextJob
  \/ Beside /\ WaitForClients
  \/ Beside /\ StartEvolution
  \/ Beside /\ Evolve
  \/ Beside /\ EvolveFails
  \/ Beside /\ EvolveReported
  \/ Beside /\ EvolveCancelled
  \/ Beside /\ IterateDictionary
  \/ Beside /\ IterateLogograms
  \/ Beside /\ UpdateGenerations
  \/ Beside /\ Wait
  \/ Beside /\ ExportData

Spec == Init /\ [][Next]_vars

(* Goroutines that can run do, and agents come.  The Router may be held up *)
(* in a send (to an agent, or to a full procedureChan) until the context   *)
(* is cancelled and the streams are stopped.  A job ends: Iterate and      *)
(* Logogram show that of the two long ones.                                *)
Fairness ==
  /\ WF_vars(Main) /\ WF_vars(Notified)
  /\ WF_vars(GrpcServeEnds) /\ WF_vars(CloseChannels) /\ WF_vars(StopGrpc)
  /\ WF_vars(RouterTakes) /\ WF_vars(RouterEnds)
  /\ WF_vars(ctxDone /\ grpcMain = "stopped" /\ RouterRoutes)
  /\ WF_vars(CloseWeb)
  /\ WF_vars(JobsRun) /\ WF_vars(Joins)

FairSpec == Spec /\ Fairness

-----------------------------------------------------------------------------
(* Properties.                                                             *)

(* Channels and queues stay within their capacities, and no evolution is   *)
(* started that was not queued.                                            *)
TypeOK ==
  /\ ctxDone \in BOOLEAN /\ cut \in BOOLEAN /\ torn \in BOOLEAN
  /\ signalled \in BOOLEAN /\ joined \in BOOLEAN /\ webClosed \in BOOLEAN
  /\ reporting \subseteq {"jobs", "grpc", "web", "webMain"}
  /\ death \in {"none", "closed", "errs", "short"}
  /\ faults \in 0 .. MaxFaults
  /\ main \in {"select", "stop", "wait", "teardown", "close", "leaving", "exited"}
  /\ grpcServe \in {"serving", "failed", "ended"}
  /\ grpcMain \in {"up", "closed", "stopped"}
  /\ webServe \in {"serving", "failed"} /\ webMain \in {"up", "down"}
  /\ router \in {"idle", "routing", "ended"} /\ inbox \in 0 .. InboxCap
  /\ pc \in {"boot", "receive", "batch", "job", "evolving", "reported", "ended"}
  /\ boot \in 0 .. MaxGenerations + 2
  /\ jobsChan \in Seq(Queue) /\ Len(jobsChan) <= JobsCap
  /\ left \in [Queue -> 0 .. MaxGenerations]
  /\ batch \in Job \cup {"none"}
  /\ evolution \in 0 .. MaxGenerations
  /\ ng \in Generation
  /\ generations \in Seq(Generation)
  /\ updates \in Seq(0 .. MaxGenerations) /\ Len(updates) <= 1

(* There is always room for the generation that was evolved: the queue is  *)
(* as long as the number of queued evolutions, although one queue is sent  *)
(* many times and drained at its first receipt.                            *)
GenerationsFit ==
  Running("update-generations") => Len(generations) < GenerationsCap

(* A generation gets the dictionary updates of its own evolution, and      *)
(* every one gets some: an evolution that gave its updates up is not kept. *)
UpdatesInStep ==
  \A k \in 2 .. Len(generations) : generations[k].updated = k - 1

(* What a shutdown cuts short is not kept as a generation, whether the     *)
(* jobs goroutine notices the context or only a closed channel.            *)
WholeOnly == \A k \in DOMAIN generations : generations[k].whole

(* No goroutine meets a closed channel before the process was signalled or *)
(* main has taken an error: the chat server closes channels only then.     *)
OnlyStoppingPanics == death \in {"closed", "errs"} => signalled \/ main # "select"

(* A server that was signalled, or in which something failed, ends.  It    *)
(* does not if the web server closed its own listener: closing it again is *)
(* an error that nobody reads, in a goroutine that main waits for.         *)
Exits ==
  (signalled \/ reporting # {}) ~>
    (main = "exited" \/ death # "none" \/ "webMain" \in reporting)

(* Left alone, the server makes all its generations, and exports.  Every   *)
(* queue must fit in jobsChan for that, before any of them is taken off.   *)
Evolves ==
  <>\/ /\ pc = "receive" /\ jobsChan = << >> /\ boot = MaxGenerations + 2
       /\ Len(generations) = MaxGenerations + 1
    \/ signalled \/ faults > 0

(* Each generation is evolved from the one before it: "ng is the new       *)
(* generation that will be used throughout batches of jobs to evolve the   *)
(* language", "i keeps track of the current generation".                   *)
EvolvedFromTheLast ==
  \A k \in 2 .. Len(generations) : generations[k].from = k - 2
=============================================================================
