------------------------------ MODULE Lifecycle ------------------------------
(***************************************************************************)
(* The life of the process: the runner (pkg/runner), the application       *)
(* (internal/app), the supervisor with its one service, and that service   *)
(* (internal/pkg/services/vibecheck-server), which opens its dependencies, *)
(* serves two listeners, drains them and closes the database.              *)
(*                                                                         *)
(* A step of the program takes no time; what takes time is outside it:     *)
(* opening the dependencies, serving a request, a pass of the retention    *)
(* loop.  Time passes one unit per Tick, only when the program has nothing *)
(* left to do, and never past a timer that is due.  The supervisor is      *)
(* reduced to what one service without Ready or retries needs of it;       *)
(* module ServiceManager has the rest.                                     *)
(***************************************************************************)
EXTENDS Naturals, Sequences

CONSTANTS
    Requests,         \* exchanges that may be opened on either listener
    Grace,            \* DefaultShutdownDrainGrace
    ShutdownTimeout,  \* RUNNER_SHUTDOWNTIMEOUT
    DrainTimeout,     \* shutdownTimeout of one listener
    ProbeEvery        \* the period of the load balancer's readiness probe

\* The balancer probes often enough to notice within the grace period.
ASSUME TimesAssumption ==
    /\ Grace \in Nat
    /\ ShutdownTimeout \in Nat \ {0}
    /\ DrainTimeout \in Nat \ {0}
    /\ ProbeEvery \in 1 .. (Grace - 1)

Listeners == {"public", "metrics"}

\* The two calls of App.Stop: the deferred one of App.Run, and the runner's.
Stoppers == {"app", "runner"}

VARIABLES
    runner,            \* the next step of appRunner.run
    shutdownErr,       \* waitForShutdown returned an error
    result,            \* what the runner returns, the exit of the process
    signal,            \* sigCh holds a signal
    signalled,         \* a signal was received
    app,               \* the next step of App.Run
    appErr,            \* App.Run returns an error
    cancelSet,         \* a.cancel is set
    cancelled,         \* the context of the application is cancelled
    stop,              \* the next step of each App.Stop
    once,              \* the state of a.stopOnce
    manager,           \* the next step of ServiceManager.Run
    managerErr,        \* it returns an error
    managerCancelled,  \* its run context is cancelled
    managerOnce,       \* its stopOnce is used
    failure,           \* its errCh holds the error of the service
    service,           \* the next step of VibecheckServer.Run
    stopped,           \* s.stopped is closed
    runErr,            \* waitForStop returned an error
    drainErr,          \* a listener's Shutdown ran into its deadline
    database,          \* the connection the service owns
    retention,         \* the retention loop
    retentionCancelled,
    listener,          \* each http.Server
    errs,              \* the channel of capacity 2 the listeners report on
    shuttingDown,      \* Router.shuttingDown
    request,           \* the listener each exchange is in flight on
    routing,           \* the balancer sends traffic here
    probeLeft,         \* time to its next probe
    graceLeft,         \* the timers
    drainLeft,
    runnerLeft

runnerVars == <<runner, shutdownErr, result>>
signalVars == <<signal, signalled>>
appVars == <<app, appErr, cancelSet>>
stopVars == <<stop, once>>
managerVars == <<manager, managerErr>>
managerStopVars == <<managerCancelled, managerOnce, stopped>>
serviceVars == <<service, runErr, drainErr, database, shuttingDown>>
retentionVars == <<retention, retentionCancelled>>
outsideVars == <<request, routing, probeLeft>>
timerVars == <<graceLeft, drainLeft, runnerLeft>>

vars == <<runnerVars, signalVars, appVars, cancelled, stopVars, managerVars,
          managerStopVars, failure, serviceVars, retentionVars, listener,
          errs, outsideVars, timerVars>>

\* What each goroutine leaves alone, whatever it does.
notRunner == <<appVars, cancelled, managerVars, managerStopVars, failure,
               serviceVars, retentionVars, listener, errs, outsideVars,
               graceLeft, drainLeft>>
notApp == <<runnerVars, signalVars, managerErr, managerStopVars, failure,
            serviceVars, retentionVars, listener, errs, outsideVars,
            timerVars>>
notManager == <<runnerVars, signalVars, appVars, cancelled, stopVars, runErr,
                drainErr, database, shuttingDown, retentionVars, listener,
                errs, outsideVars, timerVars>>
notService == <<runnerVars, signalVars, appVars, cancelled, stopVars,
                managerVars, managerStopVars, outsideVars, runnerLeft>>
notStop == <<runnerVars, signalVars, appVars, managerVars, failure,
             serviceVars, retentionVars, listener, errs, outsideVars,
             timerVars>>
notRetention == <<runnerVars, signalVars, appVars, cancelled, stopVars,
                  managerVars, managerStopVars, failure, serviceVars,
                  retentionCancelled, listener, errs, outsideVars, timerVars>>
notListener == <<runnerVars, signalVars, appVars, cancelled, stopVars,
                 managerVars, managerStopVars, failure, serviceVars,
                 retentionVars, outsideVars, timerVars>>
notTime == <<runnerVars, appVars, cancelled, stopVars, managerVars,
             managerStopVars, failure, serviceVars, retentionVars, listener,
             errs>>
notOutside == <<notTime, timerVars>>

\* The context of the service: it ends with the application's.
ctxDone == cancelled \/ managerCancelled

InFlight(l) == {r \in Requests : request[r] = l}

Init ==
    /\ runner = "select"
    /\ shutdownErr = FALSE
    /\ result = "none"
    /\ signal = FALSE
    /\ signalled = FALSE
    /\ app = "new"
    /\ appErr = FALSE
    /\ cancelSet = FALSE
    /\ cancelled = FALSE
    /\ stop = [c \in Stoppers |-> "idle"]
    /\ once = "free"
    /\ manager = "off"
    /\ managerErr = FALSE
    /\ managerCancelled = FALSE
    /\ managerOnce = FALSE
    /\ failure = FALSE
    /\ service = "off"
    /\ stopped = FALSE
    /\ runErr = FALSE
    /\ drainErr = FALSE
    /\ database = "none"
    /\ retention = "off"
    /\ retentionCancelled = FALSE
    /\ listener = [l \in Listeners |-> "off"]
    /\ errs = <<>>
    /\ shuttingDown = FALSE
    /\ request = [r \in Requests |-> "idle"]
    /\ routing = FALSE
    /\ probeLeft = ProbeEvery
    /\ graceLeft = Grace
    /\ drainLeft = DrainTimeout
    /\ runnerLeft = ShutdownTimeout

(***************************************************************************)
(* The runner                                                              *)
(***************************************************************************)

\* gracefulShutdown calls Stop in a goroutine of its own and starts its timer.
beginShutdown(err) ==
    /\ runner' = "stopping"
    /\ shutdownErr' = err
    /\ stop' = [stop EXCEPT !["runner"] = "cancel"]
    /\ runnerLeft' = ShutdownTimeout
    /\ UNCHANGED <<notRunner, result, signalled, once>>

\* waitForShutdown takes the signal, or what Run returned.
waitForShutdown ==
    /\ runner = "select"
    /\ \/ /\ signal
          /\ signal' = FALSE
          /\ beginShutdown(FALSE)
       \/ /\ app = "returned"
          /\ beginShutdown(appErr)
          /\ UNCHANGED signal

\* Both Run and Stop have returned.
shutdownCompleted ==
    /\ runner = "stopping"
    /\ app = "returned"
    /\ stop["runner"] = "returned"
    /\ runner' = "exited"
    /\ result' = IF shutdownErr THEN "error" ELSE "ok"
    /\ UNCHANGED <<notRunner, signalVars, shutdownErr, stopVars, runnerLeft>>

\* The process goes away with whatever is still running in it.
handleShutdownTimeout ==
    /\ runner = "stopping"
    /\ runnerLeft = 0
    /\ runner' = "exited"
    /\ result' = "timeout"
    /\ UNCHANGED <<notRunner, signalVars, shutdownErr, stopVars, runnerLeft>>

(***************************************************************************)
(* The application                                                         *)
(***************************************************************************)

\* From here on Stop has something to cancel.
appSetsCancel ==
    /\ app = "new"
    /\ app' = "hooks"
    /\ cancelSet' = TRUE
    /\ UNCHANGED <<notApp, appErr, cancelled, stopVars, manager>>

\* The pre-run hooks, then the goroutine of the supervisor.
appLaunches ==
    /\ app = "hooks"
    /\ app' = "select"
    /\ manager' = "new"
    /\ UNCHANGED <<notApp, appErr, cancelSet, cancelled, stopVars>>

\* The select of App.Run: the context, or an error of the supervisor.  Its
\* deferred Stop is next.
appSelects ==
    /\ app = "select"
    /\ \/ cancelled /\ appErr' = FALSE
       \/ manager = "returned" /\ managerErr /\ appErr' = TRUE
    /\ app' = "stop"
    /\ stop' = [stop EXCEPT !["app"] = "cancel"]
    /\ UNCHANGED <<notApp, cancelSet, cancelled, once, manager>>

\* A mutant of the next definition: the deferred wait is missing.
appReturnsAtOnce ==
    /\ app = "stop"
    /\ stop["app"] = "returned"
    /\ app' = "returned"
    /\ cancelled' = TRUE
    /\ UNCHANGED <<notApp, appErr, cancelSet, stopVars, manager>>

\* The deferred Stop has returned, and so has the supervisor.
appReturns ==
    /\ app = "stop"
    /\ stop["app"] = "returned"
    /\ manager = "returned"
    /\ app' = "returned"
    /\ cancelled' = TRUE
    /\ UNCHANGED <<notApp, appErr, cancelSet, stopVars, manager>>

\* App.Stop cancels, if there is something to cancel yet.
stopCancels(c) ==
    /\ stop[c] = "cancel"
    /\ stop' = [stop EXCEPT ![c] = "once"]
    /\ cancelled' = (cancelled \/ cancelSet)
    /\ UNCHANGED <<notStop, managerStopVars, once>>

\* ServiceManager.Stop: it cancels the run context, and the first call asks
\* the service, if it was launched, to stop.
ManagerStop ==
    /\ managerCancelled' = (managerCancelled \/ manager \notin {"off", "new"})
    /\ managerOnce' = TRUE
    /\ stopped' = (stopped \/ (~managerOnce /\ service # "off"))

\* The first caller of stopOnce stops the services; another waits for it.
stopServices(c) ==
    /\ stop[c] = "once"
    /\ once = "free"
    /\ once' = "taken"
    /\ stop' = [stop EXCEPT ![c] = "wait"]
    /\ ManagerStop
    /\ UNCHANGED <<notStop, cancelled>>

\* a.wg.Wait, which finds nothing to wait for before the launch, and the
\* post-stop hooks.
stopWaits(c) ==
    /\ stop[c] = "wait"
    /\ manager \in {"off", "returned"}
    /\ once' = "done"
    /\ stop' = [stop EXCEPT ![c] = "returned"]
    /\ UNCHANGED <<notStop, cancelled, managerStopVars>>

stopAgain(c) ==
    /\ stop[c] = "once"
    /\ once = "done"
    /\ stop' = [stop EXCEPT ![c] = "returned"]
    /\ UNCHANGED <<notStop, cancelled, managerStopVars, once>>

(***************************************************************************)
(* The supervisor of the one service                                       *)
(***************************************************************************)

\* The factory parses the configuration and may refuse it.
managerRefuses ==
    /\ manager = "new"
    /\ manager' = "returned"
    /\ managerErr' = TRUE
    /\ UNCHANGED <<notManager, managerStopVars, failure, service>>

managerLaunches ==
    /\ manager = "new"
    /\ manager' = "select"
    /\ service' = "policies"
    /\ UNCHANGED <<notManager, managerErr, managerStopVars, failure>>

\* The select of Run, followed by its deferred Stop.
managerSelects ==
    /\ manager = "select"
    /\ \/ ctxDone /\ managerErr' = FALSE
       \/ failure /\ managerErr' = TRUE
    /\ manager' = "wait"
    /\ ManagerStop
    /\ UNCHANGED <<notManager, failure, service>>

managerReturns ==
    /\ manager = "wait"
    /\ service = "returned"
    /\ manager' = "returned"
    /\ UNCHANGED <<notManager, managerErr, managerStopVars, failure, service>>

(***************************************************************************)
(* The service                                                             *)
(***************************************************************************)

\* What every step of Run but the last leaves alone.
notStep == <<notService, failure>>

\* A step of build succeeds, or it fails and Run returns its error.
buildGoesOn(to) ==
    /\ service' = to
    /\ UNCHANGED <<notStep, runErr, drainErr, shuttingDown, retentionVars,
                   listener, errs, graceLeft, drainLeft>>

buildFails ==
    /\ service' = "exit"
    /\ runErr' = TRUE
    /\ UNCHANGED <<notStep, drainErr, shuttingDown, retentionVars, listener,
                   errs, graceLeft, drainLeft>>

LoadDir ==
    /\ service = "policies"
    /\ buildGoesOn("database") \/ buildFails
    /\ UNCHANGED database

\* A pool whose pragmas or migrations fail on SQLite is not closed.
Open ==
    /\ service = "database"
    /\ \/ buildGoesOn("router") /\ database' = "open"
       \/ buildFails /\ database' \in {"none", "leaked"}

\* A later step of build fails: closeAfter.
buildRouterStack ==
    /\ service = "router"
    /\ \/ buildGoesOn("listen") /\ UNCHANGED database
       \/ buildFails /\ database' = "closed"

\* The retention loop and the two listeners get their goroutines.
serviceStarts ==
    /\ service = "listen"
    /\ service' = "select"
    /\ retention' = "waiting"
    /\ listener' = [l \in Listeners |-> "starting"]
    /\ UNCHANGED <<notStep, runErr, drainErr, database, shuttingDown,
                   retentionCancelled, errs, graceLeft, drainLeft>>

\* A mutant of the next definition: the select does not watch the context.
askedByStopOnly == stopped

\* Two cases of the select of waitForStop: the context is over, or Stop came.
askedToStop == ctxDone \/ stopped

\* waitForStop: the context, Stop, or the first report of a listener; then
\* stopRetention.
waitForStop ==
    /\ service = "select"
    /\ \/ askedToStop /\ UNCHANGED <<runErr, errs>>
       \/ /\ errs # <<>>
          /\ runErr' = (Head(errs) = "failed")
          /\ errs' = Tail(errs)
    /\ service' = "retention"
    /\ retentionCancelled' = TRUE
    /\ UNCHANGED <<notStep, drainErr, database, shuttingDown, retention,
                   listener, graceLeft, drainLeft>>

\* A mutant of the next definition: the retention loop is not waited for.
drainAtOnce ==
    /\ service = "retention"
    /\ service' = "grace"
    /\ shuttingDown' = TRUE
    /\ graceLeft' = Grace
    /\ UNCHANGED <<notStep, runErr, drainErr, database, retentionVars,
                   listener, errs, drainLeft>>

\* retentionDone.Wait, then drain: readiness fails and the grace begins.
drain ==
    /\ service = "retention"
    /\ retention = "ended"
    /\ service' = "grace"
    /\ shuttingDown' = TRUE
    /\ graceLeft' = Grace
    /\ UNCHANGED <<notStep, runErr, drainErr, database, retentionVars,
                   listener, errs, drainLeft>>

\* Shutdown closes the listener at once and then waits for its exchanges.
closeListener(l) ==
    /\ listener' = [listener EXCEPT
           ![l] = IF @ \in {"starting", "serving"} THEN "closed" ELSE @]
    /\ drainLeft' = DrainTimeout

\* The grace is over, or the context is: then the public listener.
drainGrace ==
    /\ service = "grace"
    /\ graceLeft = 0 \/ ctxDone
    /\ service' = "public"
    /\ closeListener("public")
    /\ UNCHANGED <<notStep, runErr, drainErr, database, shuttingDown,
                   retentionVars, errs, graceLeft>>

\* The exchanges of l are over, or the deadline of its Shutdown is.
drained(l) ==
    /\ service = l
    /\ \/ InFlight(l) = {} /\ UNCHANGED drainErr
       \/ drainLeft = 0 /\ drainErr' = TRUE

shutdownPublic ==
    /\ drained("public")
    /\ service' = "metrics"
    /\ closeListener("metrics")
    /\ UNCHANGED <<notStep, runErr, database, shuttingDown, retentionVars,
                   errs, graceLeft>>

\* The second listener, then the deferred close of the dependencies.
shutdownMetrics ==
    /\ drained("metrics")
    /\ service' = "exit"
    /\ database' = "closed"
    /\ UNCHANGED <<notStep, runErr, shuttingDown, retentionVars, listener,
                   errs, graceLeft, drainLeft>>

\* A mutant of the next definition: the supervisor reports no failure.
runServiceReportsNothing ==
    /\ service = "exit"
    /\ service' = "returned"
    /\ UNCHANGED <<notService, failure, runErr, drainErr, database,
                   shuttingDown, retentionVars, listener, errs, graceLeft,
                   drainLeft>>

\* runService: an error counts as a failure unless the context is over.
runService ==
    /\ service = "exit"
    /\ service' = "returned"
    /\ failure' = ((runErr \/ drainErr) /\ ~ctxDone)
    /\ UNCHANGED <<notService, runErr, drainErr, database, shuttingDown,
                   retentionVars, listener, errs, graceLeft, drainLeft>>

(***************************************************************************)
(* Its retention loop and its listeners                                    *)
(***************************************************************************)

\* A pass begins on the ticker, which the select may prefer to the context.
retentionPass ==
    /\ retention = "waiting"
    /\ retention' = "pass"
    /\ UNCHANGED notRetention

retentionPassEnds ==
    /\ retention = "pass"
    /\ retention' = "waiting"
    /\ UNCHANGED notRetention

runRetention ==
    /\ retention = "waiting"
    /\ retentionCancelled \/ ctxDone
    /\ retention' = "ended"
    /\ UNCHANGED notRetention

listens(l) ==
    /\ listener[l] = "starting"
    /\ listener' = [listener EXCEPT ![l] = "serving"]
    /\ UNCHANGED <<notListener, errs>>

\* The address is taken, or accepting fails.
listenerFails(l) ==
    /\ listener[l] \in {"starting", "serving"}
    /\ listener' = [listener EXCEPT ![l] = "ended"]
    /\ errs' = Append(errs, "failed")
    /\ UNCHANGED notListener

\* A closed server is the expected end.
serve(l) ==
    /\ listener[l] = "closed"
    /\ listener' = [listener EXCEPT ![l] = "ended"]
    /\ errs' = Append(errs, "closed")
    /\ UNCHANGED notListener

(***************************************************************************)
(* Outside the program                                                     *)
(***************************************************************************)

\* SIGTERM or SIGINT; a second one while the first is pending is dropped.
signalComes ==
    /\ ~signalled
    /\ signal' = TRUE
    /\ signalled' = TRUE
    /\ UNCHANGED <<notOutside, outsideVars>>

requestComes(r, l) ==
    /\ request[r] = "idle"
    /\ listener[l] = "serving"
    /\ request' = [request EXCEPT ![r] = l]
    /\ UNCHANGED <<notOutside, signalVars, routing, probeLeft>>

requestEnds(r) ==
    /\ request[r] \in Listeners
    /\ request' = [request EXCEPT ![r] = "done"]
    /\ UNCHANGED <<notOutside, signalVars, routing, probeLeft>>

\* readyHandler, asked through the public listener.
readyHandler ==
    /\ listener["public"] = "serving"
    /\ ~shuttingDown
    /\ database = "open"

\* The balancer asks, at the latest when its period is over.
balancerProbes ==
    /\ routing' = readyHandler
    /\ probeLeft' = ProbeEvery
    /\ UNCHANGED <<notOutside, signalVars, request>>

-----------------------------------------------------------------------------

\* What the program does as soon as it can.
Program ==
    \/ waitForShutdown \/ shutdownCompleted \/ handleShutdownTimeout
    \/ appSetsCancel \/ appLaunches \/ appSelects \/ appReturns
    \/ \E c \in Stoppers :
           stopCancels(c) \/ stopServices(c) \/ stopWaits(c) \/ stopAgain(c)
    \/ managerRefuses \/ managerLaunches \/ managerSelects \/ managerReturns
    \/ serviceStarts \/ waitForStop \/ drain \/ drainGrace \/ shutdownPublic
    \/ shutdownMetrics \/ runService \/ runRetention
    \/ \E l \in Listeners : listens(l) \/ serve(l)

\* What takes its time.
Work ==
    \/ LoadDir \/ Open \/ buildRouterStack \/ retentionPassEnds

Environment ==
    \/ signalComes \/ balancerProbes \/ retentionPass
    \/ \E r \in Requests : requestEnds(r)
    \/ \E l \in Listeners :
           listenerFails(l) \/ \E r \in Requests : requestComes(r, l)

\* A timer runs while the goroutine that set it waits for it.
Left(running, left) == IF running THEN left - 1 ELSE left

\* Every goroutine is blocked: what Program does is not possible now.
RunnerBlocked ==
    /\ runner = "select" => ~signal /\ app # "returned"
    /\ runner = "stopping" =>
           /\ runnerLeft > 0
           /\ ~(app = "returned" /\ stop["runner"] = "returned")

AppBlocked ==
    /\ app \notin {"new", "hooks"}
    /\ app = "select" => ~cancelled /\ ~(manager = "returned" /\ managerErr)
    /\ app = "stop" => ~(stop["app"] = "returned" /\ manager = "returned")

StopBlocked(c) ==
    /\ stop[c] # "cancel"
    /\ stop[c] = "once" => once = "taken"
    /\ stop[c] = "wait" => manager \notin {"off", "returned"}

ManagerBlocked ==
    /\ manager # "new"
    /\ manager = "select" => ~ctxDone /\ ~failure
    /\ manager = "wait" => service # "returned"

ServiceBlocked ==
    /\ service \notin {"listen", "exit"}
    /\ service = "select" => ~askedToStop /\ errs = <<>>
    /\ service = "retention" => retention # "ended"
    /\ service = "grace" => graceLeft > 0 /\ ~ctxDone
    /\ service \in Listeners => InFlight(service) # {} /\ drainLeft > 0

\* The program has nothing to do but wait.
Quiet ==
    /\ RunnerBlocked
    /\ AppBlocked
    /\ \A c \in Stoppers : StopBlocked(c)
    /\ ManagerBlocked
    /\ ServiceBlocked
    /\ retention = "waiting" => ~retentionCancelled /\ ~ctxDone
    /\ \A l \in Listeners : listener[l] \notin {"starting", "closed"}

\* No timer that runs is due, nor is the balancer.
NothingDue ==
    /\ service = "grace" => graceLeft > 0
    /\ service \in Listeners => drainLeft > 0
    /\ runner = "stopping" => runnerLeft > 0
    /\ probeLeft > 0

Tick ==
    /\ Quiet
    /\ NothingDue
    /\ probeLeft' = probeLeft - 1
    /\ graceLeft' = Left(service = "grace", graceLeft)
    /\ drainLeft' = Left(service \in Listeners, drainLeft)
    /\ runnerLeft' = Left(runner = "stopping", runnerLeft)
    /\ UNCHANGED <<notTime, signalVars, request, routing>>

\* The process is gone.
Exited == runner = "exited" /\ UNCHANGED vars

Next ==
    \/ runner # "exited" /\ (Program \/ Work \/ Environment \/ Tick)
    \/ Exited

Spec == Init /\ [][Next]_vars

\* Goroutines run, timers fire, the balancer probes, and work that was
\* begun ends.  The select of the retention loop picks at random between the
\* ticker and the context.  Nothing is assumed of requests and signals.
Fairness ==
    /\ WF_vars(runner # "exited" /\ Program)
    /\ WF_vars(runner # "exited" /\ Work)
    /\ WF_vars(runner # "exited" /\ Tick)
    /\ WF_vars(runner # "exited" /\ balancerProbes)
    /\ SF_vars(runner # "exited" /\ runRetention)

FairSpec == Spec /\ Fairness

-----------------------------------------------------------------------------

TypeOK ==
    /\ runner \in {"select", "stopping", "exited"}
    /\ result \in {"none", "ok", "error", "timeout"}
    /\ shutdownErr \in BOOLEAN
    /\ signal \in BOOLEAN
    /\ signalled \in BOOLEAN
    /\ appErr \in BOOLEAN
    /\ cancelSet \in BOOLEAN
    /\ cancelled \in BOOLEAN
    /\ managerErr \in BOOLEAN
    /\ managerCancelled \in BOOLEAN
    /\ managerOnce \in BOOLEAN
    /\ failure \in BOOLEAN
    /\ stopped \in BOOLEAN
    /\ runErr \in BOOLEAN
    /\ drainErr \in BOOLEAN
    /\ retentionCancelled \in BOOLEAN
    /\ shuttingDown \in BOOLEAN
    /\ routing \in BOOLEAN
    /\ app \in {"new", "hooks", "select", "stop", "returned"}
    /\ stop \in [Stoppers -> {"idle", "cancel", "once", "wait", "returned"}]
    /\ once \in {"free", "taken", "done"}
    /\ manager \in {"off", "new", "select", "wait", "returned"}
    /\ service \in {"off", "policies", "database", "router", "listen",
                    "select", "retention", "grace", "public", "metrics",
                    "exit", "returned"}
    /\ database \in {"none", "open", "closed", "leaked"}
    /\ retention \in {"off", "waiting", "pass", "ended"}
    /\ listener \in [Listeners -> {"off", "starting", "serving", "closed",
                                   "ended"}]
    /\ errs \in Seq({"failed", "closed"})
    /\ Len(errs) <= 2
    /\ request \in [Requests -> Listeners \cup {"idle", "done"}]
    /\ probeLeft \in 0 .. ProbeEvery
    /\ graceLeft \in 0 .. Grace
    /\ drainLeft \in 0 .. DrainTimeout
    /\ runnerLeft \in 0 .. ShutdownTimeout

\* The deferred close of the database comes after everything that uses it:
\* the retention loop has ended, and an exchange that is still in flight is
\* one whose drain ran into its deadline, which Run reports as an error.
DatabaseOutlivesItsUsers ==
    database = "closed" =>
        /\ retention \in {"off", "ended"}
        /\ \A l \in Listeners : InFlight(l) # {} => drainErr

\* What the process started has ended: Run of the application, the supervisor
\* and the service have returned, the retention loop is over, no listener
\* accepts and the database is not open.
AllOver ==
    /\ app = "returned"
    /\ manager = "returned"
    /\ service \in {"off", "returned"}
    /\ retention \in {"off", "ended"}
    /\ \A l \in Listeners : listener[l] \notin {"starting", "serving"}
    /\ database # "open"

\* The runner reports a success only when a signal asked for the end, a failure
\* only when the service was refused or returned an error, and neither before
\* everything is over: an end that nobody asked for is no success, and a
\* shutdown that was given up is reported as that.  (A signal that is pending
\* when the application fails, or comes before it has returned, may make a
\* success of the failure: the runner reads one of the two and drops the other,
\* and runService drops an error that comes after the context is over.)
ExitIsTruthful ==
    /\ result = "ok" => AllOver /\ signalled
    /\ result = "error" => AllOver /\ (service = "off" \/ runErr \/ drainErr)

\* Stop came before Run had set what it cancels.
StopCameEarly == stop["runner"] \in {"wait", "returned"} /\ ~cancelled

\* While the runner waits for the application, time passes only because work
\* is under way, exchanges are being drained, or Stop came too early to cancel
\* anything; it never does because goroutines wait for each other.
WaitIsExplained ==
    [][runnerLeft' < runnerLeft =>
           \/ service \in {"policies", "database", "router"}
           \/ retention = "pass"
           \/ service \in Listeners /\ InFlight(service) # {}
           \/ StopCameEarly]_vars

\* A signal ends the process, and so does a service that is over, for whatever
\* reason: no process is left that serves nothing.
ProcessEnds ==
    (signalled \/ managerErr \/ service = "returned") ~> (runner = "exited")

-----------------------------------------------------------------------------

\* A claim that the code does not keep.  drainGrace: "Without it, a rolling
\* deploy races: the process stops accepting while a balancer is still routing
\* to it".  The public listener is closed only when the balancer has noticed
\* that readiness fails.
AcceptsUntilUnrouted == listener["public"] = "closed" => ~routing

=============================================================================
