--------------------------- MODULE ServiceManager ---------------------------
(***************************************************************************)
(* The in-process supervisor (internal/pkg/service-manager): Run resolves  *)
(* the order of the services, launches them group by group, waits for a    *)
(* failure or a cancellation, stops them in reverse and waits for their    *)
(* goroutines.  Stop may be called by others, at any moment, also before   *)
(* Run has got anywhere; services become ready, fail, retry and exit at    *)
(* any moment too.                                                         *)
(*                                                                         *)
(* One step is what one goroutine does between two points where another    *)
(* one can notice.                                                         *)
(***************************************************************************)
EXTENDS Naturals, Sequences, FiniteSets

CONSTANTS
    Services,    \* the services that are enabled in this process
    Graphs,      \* dependency graphs: the names each service depends on
    Notifies,    \* services with a Ready channel (ReadyNotifier)
    Allowed,     \* services whose failure is allowed (AllowedFailure)
    MaxRetries,  \* attempts after the first one (Retryable)
    Stoppers,    \* goroutines, other than Run's, that call Stop
    Runner       \* the goroutine that calls Run

ASSUME ServicesAssumption ==
    /\ IsFiniteSet(Services)
    /\ Notifies \subseteq Services
    /\ Allowed \subseteq Services
    /\ MaxRetries \in [Services -> Nat]
    /\ Runner \notin Stoppers

Callers == Stoppers \cup {Runner}

VARIABLES
    graph,        \* Dependencies() of each service
    run,          \* the next step of Run
    result,       \* what Run returns
    cancelSet,    \* s.cancel is set
    parentDone,   \* the context given to Run is cancelled
    cancelled,    \* the cancel function of the run context was called
    inDegree,     \* of topoSort
    queue,        \* of topoSort, the next group
    groups,       \* of topoSort, a sequence of sets of services
    next,         \* the group runServiceGroups is at
    listed,       \* the length of s.startGroups, a prefix of groups
    service,      \* the goroutine of each service
    attempt,      \* its failed attempts
    ready,        \* the services whose Ready channel is closed
    errCh,        \* the channel of capacity 1 holds an error
    failure,      \* the failure signal was triggered
    stop,         \* the next step of each Stop call
    once,         \* the state of s.stopOnce
    lock,         \* who holds s.startGroupsMu
    level,        \* how many groups the stopping call has yet to stop
    stopping,     \* services whose Stop has not returned yet
    stopped       \* services whose Stop was called

runVars == <<run, result, cancelSet>>
contextVars == <<parentDone, cancelled>>
orderVars == <<inDegree, queue, groups>>
startVars == <<next, listed>>
serviceVars == <<service, attempt, ready>>
signalVars == <<errCh, failure>>
stopVars == <<stop, once, level, stopping, stopped>>
vars == <<graph, runVars, contextVars, orderVars, startVars, serviceVars,
          signalVars, stopVars, lock>>

\* What the services leave alone, what Run leaves alone before its end, and
\* what Stop leaves alone.
notServices == <<graph, runVars, contextVars, orderVars, startVars, stopVars,
                 lock>>
notRun == <<graph, contextVars, serviceVars, signalVars, stopVars>>
notStop == <<graph, runVars, parentDone, orderVars, startVars, serviceVars,
             signalVars>>

\* The context of the services: it ends with its parent.
ctxDone == parentDone \/ cancelled

\* The dependencies of s in this process.  Other names are skipped.
Dependencies(s) == graph[s] \cap Services

Exited(s) == service[s] = "exited"

Placed == {s \in Services : \E i \in 1 .. Len(groups) : s \in groups[i]}

-----------------------------------------------------------------------------

Init ==
    /\ graph \in Graphs
    /\ run = "new"
    /\ result = "none"
    /\ cancelSet = FALSE
    /\ parentDone = FALSE
    /\ cancelled = FALSE
    /\ inDegree = [s \in Services |-> 0]
    /\ queue = {}
    /\ groups = <<>>
    /\ next = 1
    /\ listed = 0
    /\ service = [s \in Services |-> "off"]
    /\ attempt = [s \in Services |-> 0]
    /\ ready = {}
    /\ errCh = FALSE
    /\ failure = FALSE
    /\ stop = [c \in Callers |-> "idle"]
    /\ once = "free"
    /\ lock = "free"
    /\ level = 0
    /\ stopping = {}
    /\ stopped = {}

(***************************************************************************)
(* Run                                                                     *)
(***************************************************************************)

\* A factory fails: Run returns before it has anything to undo.
InstantiateFails ==
    /\ run = "new"
    /\ run' = "returned"
    /\ result' = "refused"
    /\ UNCHANGED <<notRun, cancelSet, orderVars, startVars, lock>>

\* The services are made, the run context exists and Stop can cancel it.
SetCancel ==
    /\ run = "new"
    /\ run' = "graph"
    /\ cancelSet' = TRUE
    /\ UNCHANGED <<notRun, result, orderVars, startVars, lock>>

\* The in-degrees, and those without a dependency as the first group.
buildDepGraph ==
    /\ run = "graph"
    /\ run' = "sort"
    /\ inDegree' = [s \in Services |-> Cardinality(Dependencies(s))]
    /\ queue' = {s \in Services : Dependencies(s) = {}}
    /\ UNCHANGED <<notRun, result, cancelSet, groups, startVars, lock>>

\* A mutant of the next definition: one edge per service and round.
DecreasedOnce(s) ==
    IF Dependencies(s) \cap queue # {} THEN inDegree[s] - 1 ELSE inDegree[s]

\* inDegree[s] is decremented for every dependency of s in the queue.
Decreased(s) == inDegree[s] - Cardinality(Dependencies(s) \cap queue)

\* One round of topoSort.
topoSort ==
    /\ run = "sort"
    /\ queue # {}
    /\ groups' = Append(groups, queue)
    /\ inDegree' = [s \in Services |-> Decreased(s)]
    /\ queue' = {s \in Services : /\ Dependencies(s) \cap queue # {}
                                  /\ Decreased(s) = 0}
    /\ UNCHANGED <<notRun, runVars, startVars, lock>>

\* There is a cycle, or there are no services.
RefuseOrder ==
    /\ run = "sort"
    /\ queue = {}
    /\ Placed # Services \/ Services = {}
    /\ run' = "stop"
    /\ result' = "refused"
    /\ UNCHANGED <<notRun, cancelSet, orderVars, startVars, lock>>

\* runServiceGroups takes the lock that Stop waits for.
LockGroups ==
    /\ run = "sort"
    /\ queue = {}
    /\ Placed = Services /\ Services # {}
    /\ lock = "free"
    /\ lock' = "run"
    /\ run' = "check"
    /\ UNCHANGED <<notRun, result, cancelSet, orderVars, startVars>>

\* A mutant of the next definition: the failure signal is not consulted.
CheckNothing ==
    /\ run = "check"
    /\ next <= Len(groups)
    /\ run' = "launch"
    /\ UNCHANGED <<notRun, result, cancelSet, orderVars, startVars, lock>>

\* The loop over the groups goes on.
CheckFailure ==
    /\ run = "check"
    /\ next <= Len(groups) /\ ~failure
    /\ run' = "launch"
    /\ UNCHANGED <<notRun, result, cancelSet, orderVars, startVars, lock>>

\* All groups are started, or a service failed: runServiceGroups returns.
EndStartup ==
    /\ run = "check"
    /\ next > Len(groups) \/ failure
    /\ run' = "select"
    /\ lock' = "free"
    /\ UNCHANGED <<notRun, result, cancelSet, orderVars, startVars>>

\* The goroutines of the group are launched.
LaunchGroup ==
    /\ run = "launch"
    /\ run' = "await"
    /\ service' = [s \in Services |->
                     IF s \in groups[next] THEN "running" ELSE service[s]]
    /\ UNCHANGED <<graph, result, cancelSet, contextVars, orderVars,
                   startVars, attempt, ready, signalVars, stopVars, lock>>

\* A mutant of the next definition: a failure does not wake the wait.
GroupSettledDeaf ==
    \/ \A s \in groups[next] \cap Notifies : s \in ready \/ Exited(s)
    \/ ctxDone

\* The services of the group that notify are ready or gone, or the wait is cut
\* short.
GroupSettled ==
    \/ \A s \in groups[next] \cap Notifies : s \in ready \/ Exited(s)
    \/ failure
    \/ ctxDone

\* A mutant of the next definition: the groups are listed when all are started.
waitGroupReadyListedLast ==
    /\ run = "await"
    /\ GroupSettled
    /\ run' = "check"
    /\ listed' = IF next = Len(groups) THEN next ELSE 0
    /\ next' = next + 1
    /\ UNCHANGED <<notRun, result, cancelSet, orderVars, lock>>

\* The wait for the group ends, and the group is listed for Stop.
waitGroupReady ==
    /\ run = "await"
    /\ GroupSettled
    /\ run' = "check"
    /\ listed' = next
    /\ next' = next + 1
    /\ UNCHANGED <<notRun, result, cancelSet, orderVars, lock>>

\* Run is told to end.  With an error waiting as well, select picks either.
SelectDone ==
    /\ run = "select"
    /\ ctxDone
    /\ run' = "stop"
    /\ result' = "ok"
    /\ UNCHANGED <<notRun, cancelSet, orderVars, startVars, lock>>

\* A service has failed for good.
SelectError ==
    /\ run = "select"
    /\ errCh
    /\ run' = "stop"
    /\ result' = "failed"
    /\ errCh' = FALSE
    /\ UNCHANGED <<graph, cancelSet, contextVars, orderVars, startVars,
                   serviceVars, failure, stopVars, lock>>

\* wg.Wait: every goroutine that was launched is done.
waitGroupDone == \A s \in Services : service[s] \in {"off", "exited"}

\* The deferred Stop and wg.Wait are over, errCh is closed and Run returns.
Return ==
    /\ run = "stop"
    /\ stop[Runner] = "done"
    /\ waitGroupDone
    /\ run' = "returned"
    /\ cancelled' = TRUE
    /\ UNCHANGED <<graph, result, cancelSet, parentDone, orderVars, startVars,
                   serviceVars, signalVars, stopVars, lock>>

Run ==
    \/ InstantiateFails
    \/ SetCancel
    \/ buildDepGraph
    \/ topoSort
    \/ RefuseOrder
    \/ LockGroups
    \/ CheckFailure
    \/ EndStartup
    \/ LaunchGroup
    \/ waitGroupReady
    \/ SelectDone
    \/ SelectError
    \/ Return

-----------------------------------------------------------------------------
(***************************************************************************)
(* Services                                                                *)
(***************************************************************************)

\* A service closes its Ready channel.
BecomeReady(s) ==
    /\ service[s] = "running"
    /\ s \in Notifies \ ready
    /\ ready' = ready \cup {s}
    /\ UNCHANGED <<notServices, service, attempt, signalVars>>

\* The goroutine of s ends without a report: s returned nil, or failed under
\* a cancelled context, or its failure is allowed.
Exit(s) ==
    /\ service' = [service EXCEPT ![s] = "exited"]
    /\ UNCHANGED <<notServices, attempt, ready, signalVars>>

\* Run of s returns nil.
ExitCleanly(s) ==
    /\ service[s] = "running"
    /\ Exit(s)

\* A mutant of the next definition: the last attempt is not made.
ExhaustedEarly(s) == attempt[s] + 1 >= MaxRetries[s]

\* No attempt is left.
Exhausted(s) == attempt[s] >= MaxRetries[s]

\* Run of s fails or panics, and nobody needs to know.
FailQuietly(s) ==
    /\ service[s] = "running"
    /\ ctxDone \/ (Exhausted(s) /\ s \in Allowed)
    /\ Exit(s)

\* Run of s fails or panics and will be called again.
FailAndRetry(s) ==
    /\ service[s] = "running"
    /\ ~ctxDone
    /\ ~Exhausted(s)
    /\ service' = [service EXCEPT ![s] = "delay"]
    /\ attempt' = [attempt EXCEPT ![s] = @ + 1]
    /\ UNCHANGED <<notServices, ready, signalVars>>

\* The retry delay is over.
Retry(s) ==
    /\ service[s] = "delay"
    /\ service' = [service EXCEPT ![s] = "running"]
    /\ UNCHANGED <<notServices, attempt, ready, signalVars>>

\* The retry delay is cut short.
CancelDelay(s) ==
    /\ service[s] = "delay"
    /\ ctxDone
    /\ Exit(s)

\* Run of s fails for good.
FailForGood(s) ==
    /\ service[s] = "running"
    /\ ~ctxDone
    /\ Exhausted(s)
    /\ s \notin Allowed
    /\ service' = [service EXCEPT ![s] = "failing"]
    /\ UNCHANGED <<notServices, attempt, ready, signalVars>>

\* A mutant of the next definition: the signal comes before the send.
handleServiceErrorSignalsFirst(s) ==
    /\ service[s] = "failing"
    /\ service' = [service EXCEPT ![s] = "reported"]
    /\ failure' = TRUE
    /\ UNCHANGED <<notServices, attempt, ready, errCh>>

\* The error is sent if there is room for it, and dropped otherwise.
handleServiceError(s) ==
    /\ service[s] = "failing"
    /\ service' = [service EXCEPT ![s] = "reported"]
    /\ errCh' = TRUE
    /\ UNCHANGED <<notServices, attempt, ready, failure>>

\* Then the failure signal wakes the startup sequence.
trigger(s) ==
    /\ service[s] = "reported"
    /\ service' = [service EXCEPT ![s] = "exited"]
    /\ failure' = TRUE
    /\ UNCHANGED <<notServices, attempt, ready, errCh>>

runService(s) ==
    \/ BecomeReady(s)
    \/ ExitCleanly(s)
    \/ FailQuietly(s)
    \/ FailAndRetry(s)
    \/ Retry(s)
    \/ CancelDelay(s)
    \/ FailForGood(s)
    \/ handleServiceError(s)
    \/ trigger(s)

-----------------------------------------------------------------------------
(***************************************************************************)
(* Stop                                                                    *)
(***************************************************************************)

\* Stop cancels the run context, if there is one yet.  Run calls it last.
StopCancel(c) ==
    /\ stop[c] = "idle"
    /\ c = Runner => run = "stop"
    /\ stop' = [stop EXCEPT ![c] = "once"]
    /\ cancelled' = (cancelled \/ cancelSet)
    /\ UNCHANGED <<notStop, once, level, stopping, stopped, lock>>

\* The first call runs the body of stopOnce.Do.
EnterOnce(c) ==
    /\ stop[c] = "once"
    /\ once = "free"
    /\ once' = "busy"
    /\ stop' = [stop EXCEPT ![c] = "lock"]
    /\ UNCHANGED <<notStop, cancelled, level, stopping, stopped, lock>>

\* Any other returns once the body has run.
SkipOnce(c) ==
    /\ stop[c] = "once"
    /\ once = "done"
    /\ stop' = [stop EXCEPT ![c] = "done"]
    /\ UNCHANGED <<notStop, cancelled, once, level, stopping, stopped, lock>>

\* A mutant of the next definition: the walk starts past the last group.
LockStopPastEnd(c) ==
    /\ stop[c] = "lock"
    /\ lock = "free"
    /\ lock' = "stop"
    /\ level' = next
    /\ stop' = [stop EXCEPT ![c] = "groups"]
    /\ UNCHANGED <<notStop, cancelled, once, stopping, stopped>>

\* The body waits for a startup under way to finish.
LockStop(c) ==
    /\ stop[c] = "lock"
    /\ lock = "free"
    /\ lock' = "stop"
    /\ level' = listed
    /\ stop' = [stop EXCEPT ![c] = "groups"]
    /\ UNCHANGED <<notStop, cancelled, once, stopping, stopped>>

\* A mutant of the next definition: the next group is not waited for.
stopGroupAtOnce(c) ==
    /\ stop[c] = "groups"
    /\ level > 0
    /\ level' = level - 1
    /\ stopping' = stopping \cup groups[level]
    /\ stopped' = stopped \cup groups[level]
    /\ UNCHANGED <<notStop, cancelled, stop, once, lock>>

\* The services of the last group left are stopped, concurrently.
stopGroup(c) ==
    /\ stop[c] = "groups"
    /\ stopping = {}
    /\ level > 0
    /\ level' = level - 1
    /\ stopping' = groups[level]
    /\ stopped' = stopped \cup groups[level]
    /\ UNCHANGED <<notStop, cancelled, stop, once, lock>>

\* Stop of a service returns, or its time is up.
stopServiceWithTimeout(s) ==
    /\ s \in stopping
    /\ stopping' = stopping \ {s}
    /\ UNCHANGED <<notStop, cancelled, stop, once, level, stopped, lock>>

\* Every group is stopped.
FinishStop(c) ==
    /\ stop[c] = "groups"
    /\ stopping = {}
    /\ level = 0
    /\ lock' = "free"
    /\ once' = "done"
    /\ stop' = [stop EXCEPT ![c] = "done"]
    /\ UNCHANGED <<notStop, cancelled, level, stopping, stopped>>

Stop(c) ==
    \/ StopCancel(c)
    \/ EnterOnce(c)
    \/ SkipOnce(c)
    \/ LockStop(c)
    \/ stopGroup(c)
    \/ FinishStop(c)

\* The caller of Run cancels its context.
CancelParent ==
    /\ ~parentDone
    /\ parentDone' = TRUE
    /\ UNCHANGED <<graph, runVars, cancelled, orderVars, startVars,
                   serviceVars, signalVars, stopVars, lock>>

-----------------------------------------------------------------------------

\* Run has returned and no Stop call is under way.
Terminated ==
    /\ run = "returned"
    /\ parentDone
    /\ \A c \in Stoppers : stop[c] = "done"
    /\ UNCHANGED vars

Next ==
    \/ Run
    \/ \E s \in Services : runService(s) \/ stopServiceWithTimeout(s)
    \/ \E c \in Callers : Stop(c)
    \/ CancelParent
    \/ Terminated

Spec == Init /\ [][Next]_vars

\* Goroutines that can go on do, timers fire, and a service returns once its
\* context is cancelled (the contract of Service.Run).  Nobody has to become
\* ready, to fail or to call Stop.
Fairness ==
    /\ WF_vars(Run)
    /\ \A c \in Callers :
         WF_vars((stop[c] # "idle" \/ c = Runner) /\ Stop(c))
    /\ \A s \in Services :
         /\ WF_vars(stopServiceWithTimeout(s))
         /\ WF_vars(ctxDone /\ (ExitCleanly(s) \/ FailQuietly(s)))
         /\ WF_vars(Retry(s) \/ CancelDelay(s))
         /\ WF_vars(handleServiceError(s) \/ trigger(s))

FairSpec == Spec /\ Fairness

-----------------------------------------------------------------------------
(***************************************************************************)
(* Properties                                                              *)
(***************************************************************************)

\* Every variable has its type; Stop never walks past the last group.
TypeOK ==
    /\ graph \in Graphs
    /\ run \in {"new", "graph", "sort", "check", "launch", "await", "select",
               "stop", "returned"}
    /\ result \in {"none", "refused", "ok", "failed"}
    /\ cancelSet \in BOOLEAN
    /\ parentDone \in BOOLEAN
    /\ cancelled \in BOOLEAN
    /\ inDegree \in [Services -> Nat]
    /\ queue \in SUBSET Services
    /\ groups \in Seq(SUBSET Services)
    /\ next \in Nat \ {0}
    /\ listed \in 0 .. Len(groups)
    /\ service \in [Services -> {"off", "running", "delay", "failing",
                                 "reported", "exited"}]
    /\ attempt \in [Services -> Nat]
    /\ ready \in SUBSET Notifies
    /\ errCh \in BOOLEAN
    /\ failure \in BOOLEAN
    /\ stop \in [Callers -> {"idle", "once", "lock", "groups", "done"}]
    /\ once \in {"free", "busy", "done"}
    /\ lock \in {"free", "run", "stop"}
    /\ level \in 0 .. Len(groups)
    /\ stopping \in SUBSET Services
    /\ stopped \in SUBSET Services

\* A set of services that wait for each other.
HasCycle ==
    \E cycle \in SUBSET Services :
      /\ cycle # {}
      /\ \A s \in cycle : Dependencies(s) \cap cycle # {}

\* topoSort places every service exactly when there is no cycle.  README of the
\* package: "Cycles among registered services return ErrCyclicDependency".
OnlyCyclesAreRefused ==
    (run = "sort" /\ queue = {}) => ((Placed = Services) <=> ~HasCycle)

\* A service is launched after its dependencies in this process, and not before
\* those that notify are ready or gone for good; unless the run context was
\* cancelled, when waitGroupReady gives up and the loop of runServiceGroups
\* goes on.  A failure before that ends the startup.
DependenciesFirst ==
    \A s \in Services : service[s] # "off" =>
      \A d \in Dependencies(s) :
        /\ service[d] # "off"
        /\ d \in Notifies => d \in ready \/ Exited(d) \/ ctxDone

\* Stop of a service is called only when Stop of everything that depends on it
\* is over, or was never launched.  README of the package: Stop "walks the
\* resolved start groups in reverse order".
StopsInReverse ==
    \A d \in stopped : \A s \in Services :
      d \in Dependencies(s) => service[s] = "off" \/ s \in stopped \ stopping

\* When a failure has ended the startup, Run finds an error to return: it is
\* sent before the signal, and no later failure takes its place.  Comment in
\* handleServiceError: "After the send, so Run finds the error in errCh once
\* startup wakes up."
FailureIsFound == (run = "select" /\ failure) => errCh

\* Run returns nil only when it was told to end, and a failure only when a
\* service whose failure is not allowed has used up its attempts.
RunTellsWhy ==
    /\ result = "ok" => parentDone \/ \E c \in Stoppers : stop[c] # "idle"
    /\ result = "failed" =>
         \E s \in Services \ Allowed :
           /\ service[s] \in {"reported", "exited"}
           /\ attempt[s] >= MaxRetries[s]

\* When nobody else calls Stop, everything that was launched has had its Stop
\* called when Run returns, however startup ended.
LaunchedIsStopped ==
    (run = "returned" /\ \A c \in Stoppers : stop[c] = "idle") =>
      \A s \in Services : service[s] # "off" => s \in stopped

\* Once a failure is signalled, or the context is cancelled, Run returns,
\* whichever services fail at the same time: no send blocks and no lock is
\* waited for in a circle (handleServiceError, Stop, wg.Wait).
RunReturns == (failure \/ (ctxDone /\ run # "new")) ~> run = "returned"

-----------------------------------------------------------------------------
(***************************************************************************)
(* What the README of the package says and the code does not keep.         *)
(***************************************************************************)

\* "Stop is called after the manager cancels its run context": every service
\* that was launched has had its Stop called when Run returns.  A Stop that
\* comes before the startup uses up stopOnce with no group listed.
EveryStartedIsStopped ==
    run = "returned" =>
      \A s \in Services : service[s] # "off" => s \in stopped

=============================================================================
