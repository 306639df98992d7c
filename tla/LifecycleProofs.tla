--------------------------- MODULE LifecycleProofs ---------------------------
(***************************************************************************)
(* Proofs about Lifecycle, for any number of exchanges and any timeouts.   *)
(***************************************************************************)
EXTENDS Lifecycle, TLAPS

Building == {"off", "policies", "database", "router", "listen"}
Over == {"exit", "returned"}
Accepting == {"starting", "serving"}

\* Where the service is tells what it has started and what it has ended.
ServiceInv ==
    /\ service \in Building =>
           /\ retention = "off"
           /\ database # "closed"
           /\ \A l \in Listeners : listener[l] = "off" /\ InFlight(l) = {}
    /\ service \in {"off", "policies", "database"} => database = "none"
    /\ service \in {"grace", "public", "metrics"} => retention = "ended"
    /\ service \in Over => retention \in {"off", "ended"} /\ database # "open"
    /\ database = "closed" => service \in Over
    /\ service \in {"public", "metrics"} \cup Over =>
           listener["public"] \notin Accepting
    /\ service \in {"metrics"} \cup Over =>
           /\ listener["metrics"] \notin Accepting
           /\ InFlight("public") # {} => drainErr
    /\ service \in Over => (InFlight("metrics") # {} => drainErr)

\* Who has called whom, and why.
ExitInv ==
    /\ signal => signalled
    /\ runner = "select" => stop["runner"] = "idle" /\ result = "none"
    /\ app \in {"new", "hooks", "select"} => stop["app"] = "idle"
    /\ app \in {"new", "hooks"} => manager = "off"
    /\ app = "returned" => manager = "returned"
    /\ app \in {"new", "hooks", "select"} /\ stop["runner"] = "idle" =>
           ~cancelled
    /\ runner # "select" /\ app # "returned" => signalled
    /\ app \in {"stop", "returned"} /\ ~appErr => signalled
    /\ runner # "select" /\ ~shutdownErr => signalled
    /\ manager \in {"off", "new"} => service = "off"
    /\ manager = "returned" => service \in {"off", "returned"}
    /\ result \in {"ok", "error"} => app = "returned" /\ runner = "exited"
    /\ result = "ok" => ~shutdownErr
    /\ result = "error" => shutdownErr

\* An error that is passed on is the service's, or a refusal to set it up.
ErrorInv ==
    /\ failure => service = "returned" /\ (runErr \/ drainErr)
    /\ managerErr =>
           /\ manager \in {"wait", "returned"}
           /\ \/ service = "off"
              \/ service = "returned" /\ (runErr \/ drainErr)
    /\ appErr => manager = "returned" /\ managerErr
    /\ shutdownErr => app = "returned" /\ appErr

\* How far each call of Stop and what it waits for have come.
StopInv ==
    /\ runner # "select" => stop["runner"] # "idle"
    /\ app \in {"stop", "returned"} => stop["app"] # "idle"
    /\ app # "new" => cancelSet
    /\ stop["app"] \in {"once", "wait", "returned"} => cancelled
    /\ once = "taken" => \E c \in Stoppers : stop[c] = "wait"
    /\ app \in {"select", "stop", "returned"} => manager # "off"
    /\ manager \in {"select", "wait"} => service # "off"
    /\ service \in {"select", "retention"} => retention # "off"

\* A listener reports once, when it has ended.
Ended(l) == IF listener[l] = "ended" THEN 1 ELSE 0

ReportsInv == Len(errs) <= Ended("public") + Ended("metrics")

Inv == TypeOK /\ ReportsInv /\ ServiceInv /\ ExitInv /\ ErrorInv /\ StopInv

\* The groups of variables, and the frame the frames are built from.
USE DEF runnerVars, signalVars, appVars, stopVars, managerVars,
        managerStopVars, serviceVars, retentionVars, outsideVars, timerVars,
        notService, notTime

\* Every step keeps the types.
LEMMA TypeStep == Inv /\ [Next]_vars => TypeOK'
<1> SUFFICES ASSUME Inv, [Next]_vars PROVE TypeOK'
    OBVIOUS
<1>1. CASE waitForShutdown
  <2>1. signal' \in BOOLEAN /\ shutdownErr' \in BOOLEAN
      BY <1>1 DEF Inv, TypeOK, waitForShutdown, notRunner, beginShutdown
  <2>2. stop' \in [Stoppers -> {"idle", "cancel", "once", "wait", "returned"}]
      BY <1>1 DEF Inv, TypeOK, Stoppers, waitForShutdown, notRunner,
         beginShutdown
  <2>3. runnerLeft' \in 0 .. ShutdownTimeout
      BY <1>1, TimesAssumption DEF Inv, TypeOK, waitForShutdown, notRunner,
         beginShutdown
  <2> QED
      BY <1>1, <2>1, <2>2, <2>3 DEF Inv, TypeOK, Listeners, Stoppers,
         waitForShutdown, notRunner, beginShutdown
<1>2. CASE shutdownCompleted
    BY <1>2 DEF Inv, TypeOK, Listeners, Stoppers, shutdownCompleted, notRunner
<1>3. CASE handleShutdownTimeout
    BY <1>3 DEF Inv, TypeOK, Listeners, Stoppers, handleShutdownTimeout,
       notRunner
<1>4. CASE appSetsCancel
    BY <1>4 DEF Inv, TypeOK, Listeners, Stoppers, appSetsCancel, notApp
<1>5. CASE appLaunches
    BY <1>5 DEF Inv, TypeOK, Listeners, Stoppers, appLaunches, notApp
<1>6. CASE appSelects
  <2>1. appErr' \in BOOLEAN
      BY <1>6 DEF Inv, TypeOK, appSelects, notApp
  <2> QED
      BY <1>6, <2>1 DEF Inv, TypeOK, Listeners, Stoppers, appSelects, notApp
<1>7. CASE appReturns
    BY <1>7 DEF Inv, TypeOK, Listeners, Stoppers, appReturns, notApp
<1>8. CASE \E c \in Stoppers : stopCancels(c)
    BY <1>8 DEF Inv, TypeOK, Listeners, Stoppers, stopCancels, notStop
<1>9. CASE \E c \in Stoppers : stopServices(c)
    BY <1>9 DEF Inv, TypeOK, Listeners, Stoppers, stopServices, notStop,
       ManagerStop
<1>10. CASE \E c \in Stoppers : stopWaits(c)
    BY <1>10 DEF Inv, TypeOK, Listeners, Stoppers, stopWaits, notStop
<1>11. CASE \E c \in Stoppers : stopAgain(c)
    BY <1>11 DEF Inv, TypeOK, Listeners, Stoppers, stopAgain, notStop
<1>12. CASE managerRefuses
    BY <1>12 DEF Inv, TypeOK, Listeners, Stoppers, managerRefuses, notManager
<1>13. CASE managerLaunches
    BY <1>13 DEF Inv, TypeOK, Listeners, Stoppers, managerLaunches, notManager
<1>14. CASE managerSelects
  <2>1. managerErr' \in BOOLEAN /\ managerCancelled' \in BOOLEAN
      BY <1>14 DEF Inv, TypeOK, managerSelects, notManager, ManagerStop
  <2>2. stopped' \in BOOLEAN
      BY <1>14 DEF Inv, TypeOK, managerSelects, notManager, ManagerStop
  <2> QED
      BY <1>14, <2>1, <2>2 DEF Inv, TypeOK, Listeners, Stoppers,
         managerSelects, notManager, ManagerStop
<1>15. CASE managerReturns
    BY <1>15 DEF Inv, TypeOK, Listeners, Stoppers, managerReturns, notManager
<1>16. CASE serviceStarts
    BY <1>16 DEF Inv, TypeOK, Listeners, Stoppers, serviceStarts, notStep
<1>17. CASE waitForStop
  <2>1. runErr' \in BOOLEAN
      BY <1>17 DEF Inv, TypeOK, waitForStop, notStep
  <2>2. errs' \in Seq({"failed", "closed"}) /\ Len(errs') <= 2
      BY <1>17 DEF Inv, TypeOK, waitForStop, notStep
  <2> QED
      BY <1>17, <2>1, <2>2 DEF Inv, TypeOK, Listeners, Stoppers,
         waitForStop, notStep
<1>18. CASE drain
  <2>1. graceLeft' \in 0 .. Grace
      BY <1>18, TimesAssumption DEF Inv, TypeOK, drain, notStep
  <2> QED
      BY <1>18, <2>1 DEF Inv, TypeOK, Listeners, Stoppers, drain, notStep
<1>19. CASE drainGrace
  <2>1. drainLeft' \in 0 .. DrainTimeout
      BY <1>19, TimesAssumption DEF Inv, TypeOK, drainGrace, notStep,
         closeListener
  <2>2. listener' \in [Listeners -> {"off", "starting", "serving", "closed", "ended"}]
      BY <1>19 DEF Inv, TypeOK, Listeners, drainGrace, notStep, closeListener
  <2> QED
      BY <1>19, <2>1, <2>2 DEF Inv, TypeOK, Listeners, Stoppers,
         drainGrace, notStep, closeListener
<1>20. CASE shutdownPublic
  <2>1. drainErr' \in BOOLEAN
      BY <1>20 DEF Inv, TypeOK, shutdownPublic, notStep, drained,
         closeListener
  <2>2. drainLeft' \in 0 .. DrainTimeout
      BY <1>20, TimesAssumption DEF Inv, TypeOK, shutdownPublic, notStep,
         drained, closeListener
  <2>3. listener' \in [Listeners -> {"off", "starting", "serving", "closed", "ended"}]
      BY <1>20 DEF Inv, TypeOK, Listeners, shutdownPublic, notStep,
         drained, closeListener
  <2> QED
      BY <1>20, <2>1, <2>2, <2>3 DEF Inv, TypeOK, Listeners, Stoppers,
         shutdownPublic, notStep, drained, closeListener
<1>21. CASE shutdownMetrics
  <2>1. drainErr' \in BOOLEAN
      BY <1>21 DEF Inv, TypeOK, shutdownMetrics, notStep, drained
  <2> QED
      BY <1>21, <2>1 DEF Inv, TypeOK, Listeners, Stoppers, shutdownMetrics,
         notStep, drained
<1>22. CASE runService
    BY <1>22 DEF Inv, TypeOK, Listeners, Stoppers, runService, notService
<1>23. CASE runRetention
    BY <1>23 DEF Inv, TypeOK, Listeners, Stoppers, runRetention, notRetention
<1>24. CASE \E l \in Listeners : listens(l)
    BY <1>24 DEF Inv, TypeOK, Listeners, Stoppers, listens, notListener
<1>25. CASE \E l \in Listeners : serve(l)
  <2> PICK l \in Listeners : serve(l)
      BY <1>25
  <2>1. errs' \in Seq({"failed", "closed"}) /\ Len(errs') <= 2
      BY DEF Inv, TypeOK, ReportsInv, Ended, Listeners, serve, notListener
  <2>2. listener' \in [Listeners -> {"off", "starting", "serving", "closed", "ended"}]
      BY DEF Inv, TypeOK, Listeners, serve, notListener
  <2> QED
      BY <2>1, <2>2 DEF Inv, TypeOK, Listeners, Stoppers, serve, notListener
<1>26. CASE LoadDir
  <2>1. runErr' \in BOOLEAN
      BY <1>26 DEF Inv, TypeOK, LoadDir, notStep, buildGoesOn, buildFails
  <2> QED
      BY <1>26, <2>1 DEF Inv, TypeOK, Listeners, Stoppers, LoadDir,
         notStep, buildGoesOn, buildFails
<1>27. CASE Open
  <2>1. runErr' \in BOOLEAN
      BY <1>27 DEF Inv, TypeOK, Open, notStep, buildGoesOn, buildFails
  <2>2. database' \in {"none", "open", "closed", "leaked"}
      BY <1>27 DEF Inv, TypeOK, Open, notStep, buildGoesOn, buildFails
  <2> QED
      BY <1>27, <2>1, <2>2 DEF Inv, TypeOK, Listeners, Stoppers, Open,
         notStep, buildGoesOn, buildFails
<1>28. CASE buildRouterStack
  <2>1. runErr' \in BOOLEAN
      BY <1>28 DEF Inv, TypeOK, buildRouterStack, notStep, buildGoesOn,
         buildFails
  <2>2. database' \in {"none", "open", "closed", "leaked"}
      BY <1>28 DEF Inv, TypeOK, buildRouterStack, notStep, buildGoesOn,
         buildFails
  <2> QED
      BY <1>28, <2>1, <2>2 DEF Inv, TypeOK, Listeners, Stoppers,
         buildRouterStack, notStep, buildGoesOn, buildFails
<1>29. CASE retentionPassEnds
    BY <1>29 DEF Inv, TypeOK, Listeners, Stoppers, retentionPassEnds,
       notRetention
<1>30. CASE signalComes
    BY <1>30 DEF Inv, TypeOK, Listeners, Stoppers, signalComes, notOutside
<1>31. CASE balancerProbes
  <2>1. routing' \in BOOLEAN
      BY <1>31 DEF Inv, TypeOK, balancerProbes, notOutside, readyHandler
  <2>2. probeLeft' \in 0 .. ProbeEvery
      BY <1>31, TimesAssumption DEF Inv, TypeOK, balancerProbes,
         notOutside, readyHandler
  <2> QED
      BY <1>31, <2>1, <2>2 DEF Inv, TypeOK, Listeners, Stoppers,
         balancerProbes, notOutside, readyHandler
<1>32. CASE retentionPass
    BY <1>32 DEF Inv, TypeOK, Listeners, Stoppers, retentionPass, notRetention
<1>33. CASE \E r \in Requests : requestEnds(r)
    BY <1>33 DEF Inv, TypeOK, Listeners, Stoppers, requestEnds, notOutside
<1>34. CASE \E l \in Listeners : listenerFails(l)
  <2> PICK l \in Listeners : listenerFails(l)
      BY <1>34
  <2>1. errs' \in Seq({"failed", "closed"}) /\ Len(errs') <= 2
      BY DEF Inv, TypeOK, ReportsInv, Ended, Listeners, listenerFails,
         notListener
  <2>2. listener' \in [Listeners -> {"off", "starting", "serving", "closed", "ended"}]
      BY DEF Inv, TypeOK, Listeners, listenerFails, notListener
  <2> QED
      BY <2>1, <2>2 DEF Inv, TypeOK, Listeners, Stoppers, listenerFails,
         notListener
<1>35. CASE \E r \in Requests, l \in Listeners : requestComes(r, l)
    BY <1>35 DEF Inv, TypeOK, Listeners, Stoppers, requestComes, notOutside
<1>36. CASE Tick
  <2>1. probeLeft' \in 0 .. ProbeEvery
      BY <1>36, TimesAssumption DEF Inv, TypeOK, Tick, notTime, NothingDue,
         Left
  <2>2. graceLeft' \in 0 .. Grace
      BY <1>36, TimesAssumption DEF Inv, TypeOK, Tick, notTime, NothingDue,
         Left
  <2>3. drainLeft' \in 0 .. DrainTimeout
      BY <1>36, TimesAssumption DEF Inv, TypeOK, Tick, notTime, NothingDue,
         Left
  <2>4. runnerLeft' \in 0 .. ShutdownTimeout
      BY <1>36, TimesAssumption DEF Inv, TypeOK, Tick, notTime, NothingDue,
         Left
  <2> QED
      BY <1>36, <2>1, <2>2, <2>3, <2>4 DEF Inv, TypeOK, Listeners,
         Stoppers, Tick, notTime, NothingDue, Left
<1>37. CASE UNCHANGED vars
    BY <1>37 DEF Inv, TypeOK, Listeners, Stoppers, vars
<1> QED
    BY <1>1, <1>2, <1>3, <1>4, <1>5, <1>6, <1>7, <1>8, <1>9, <1>10, <1>11,
       <1>12, <1>13, <1>14, <1>15, <1>16, <1>17, <1>18, <1>19, <1>20, <1>21,
       <1>22, <1>23, <1>24, <1>25, <1>26, <1>27, <1>28, <1>29, <1>30, <1>31,
       <1>32, <1>33, <1>34, <1>35, <1>36, <1>37 DEF Next, Program, Work,
       Environment, Exited

\* Every step keeps the reports to one per listener.
LEMMA ReportsStep == Inv /\ [Next]_vars => ReportsInv'
<1> SUFFICES ASSUME Inv, [Next]_vars PROVE ReportsInv'
    OBVIOUS
<1>1. ASSUME UNCHANGED <<listener, errs>> PROVE ReportsInv'
    BY <1>1 DEF Inv, TypeOK, ReportsInv, ServiceInv, Building, Ended,
       Listeners
<1>2. CASE waitForShutdown
    BY <1>1, <1>2 DEF waitForShutdown, notRunner, beginShutdown
<1>3. CASE shutdownCompleted
    BY <1>1, <1>3 DEF shutdownCompleted, notRunner
<1>4. CASE handleShutdownTimeout
    BY <1>1, <1>4 DEF handleShutdownTimeout, notRunner
<1>5. CASE appSetsCancel
    BY <1>1, <1>5 DEF appSetsCancel, notApp
<1>6. CASE appLaunches
    BY <1>1, <1>6 DEF appLaunches, notApp
<1>7. CASE appSelects
    BY <1>1, <1>7 DEF appSelects, notApp
<1>8. CASE appReturns
    BY <1>1, <1>8 DEF appReturns, notApp
<1>9. CASE \E c \in Stoppers : stopCancels(c)
    BY <1>1, <1>9 DEF stopCancels, notStop
<1>10. CASE \E c \in Stoppers : stopServices(c)
    BY <1>1, <1>10 DEF stopServices, notStop, ManagerStop
<1>11. CASE \E c \in Stoppers : stopWaits(c)
    BY <1>1, <1>11 DEF stopWaits, notStop
<1>12. CASE \E c \in Stoppers : stopAgain(c)
    BY <1>1, <1>12 DEF stopAgain, notStop
<1>13. CASE managerRefuses
    BY <1>1, <1>13 DEF managerRefuses, notManager
<1>14. CASE managerLaunches
    BY <1>1, <1>14 DEF managerLaunches, notManager
<1>15. CASE managerSelects
    BY <1>1, <1>15 DEF managerSelects, notManager, ManagerStop
<1>16. CASE managerReturns
    BY <1>1, <1>16 DEF managerReturns, notManager
<1>17. CASE serviceStarts
    BY <1>17 DEF Inv, TypeOK, ReportsInv, ServiceInv, Building, Ended,
       Listeners, serviceStarts, notStep
<1>18. CASE waitForStop
    BY <1>18 DEF Inv, TypeOK, ReportsInv, ServiceInv, Building, Ended,
       Listeners, waitForStop, notStep
<1>19. CASE drain
    BY <1>1, <1>19 DEF drain, notStep
<1>20. CASE drainGrace
    BY <1>20 DEF Inv, TypeOK, ReportsInv, ServiceInv, Building, Ended,
       Listeners, drainGrace, notStep, closeListener
<1>21. CASE shutdownPublic
    BY <1>21 DEF Inv, TypeOK, ReportsInv, ServiceInv, Building, Ended,
       Listeners, shutdownPublic, notStep, drained, closeListener
<1>22. CASE shutdownMetrics
    BY <1>1, <1>22 DEF shutdownMetrics, notStep, drained
<1>23. CASE runService
    BY <1>1, <1>23 DEF runService, notService
<1>24. CASE runRetention
    BY <1>1, <1>24 DEF runRetention, notRetention
<1>25. CASE \E l \in Listeners : listens(l)
    BY <1>25 DEF Inv, TypeOK, ReportsInv, ServiceInv, Building, Ended,
       Listeners, listens, notListener
<1>26. CASE \E l \in Listeners : serve(l)
  <2> PICK l \in Listeners : serve(l)
      BY <1>26
  <2>1. errs' = Append(errs, "closed") /\ Len(errs') = Len(errs) + 1
      BY DEF Inv, TypeOK, serve, notListener
  <2>2. listener' = [listener EXCEPT ![l] = "ended"] /\ listener[l] # "ended"
      BY DEF Inv, TypeOK, Listeners, serve, notListener
  <2> QED
      BY <2>1, <2>2 DEF Inv, TypeOK, ReportsInv, ServiceInv, Building,
         Ended, Listeners, serve, notListener
<1>27. CASE LoadDir
    BY <1>1, <1>27 DEF LoadDir, notStep, buildGoesOn, buildFails
<1>28. CASE Open
    BY <1>1, <1>28 DEF Open, notStep, buildGoesOn, buildFails
<1>29. CASE buildRouterStack
    BY <1>1, <1>29 DEF buildRouterStack, notStep, buildGoesOn, buildFails
<1>30. CASE retentionPassEnds
    BY <1>1, <1>30 DEF retentionPassEnds, notRetention
<1>31. CASE signalComes
    BY <1>1, <1>31 DEF signalComes, notOutside
<1>32. CASE balancerProbes
    BY <1>1, <1>32 DEF balancerProbes, notOutside, readyHandler
<1>33. CASE retentionPass
    BY <1>1, <1>33 DEF retentionPass, notRetention
<1>34. CASE \E r \in Requests : requestEnds(r)
    BY <1>1, <1>34 DEF requestEnds, notOutside
<1>35. CASE \E l \in Listeners : listenerFails(l)
  <2> PICK l \in Listeners : listenerFails(l)
      BY <1>35
  <2>1. errs' = Append(errs, "failed") /\ Len(errs') = Len(errs) + 1
      BY DEF Inv, TypeOK, listenerFails, notListener
  <2>2. listener' = [listener EXCEPT ![l] = "ended"] /\ listener[l] # "ended"
      BY DEF Inv, TypeOK, Listeners, listenerFails, notListener
  <2> QED
      BY <2>1, <2>2 DEF Inv, TypeOK, ReportsInv, ServiceInv, Building,
         Ended, Listeners, listenerFails, notListener
<1>36. CASE \E r \in Requests, l \in Listeners : requestComes(r, l)
    BY <1>1, <1>36 DEF requestComes, notOutside
<1>37. CASE Tick
    BY <1>1, <1>37 DEF Tick, notTime, NothingDue, Left
<1>38. CASE UNCHANGED vars
    BY <1>1, <1>38 DEF vars
<1> QED
    BY <1>2, <1>3, <1>4, <1>5, <1>6, <1>7, <1>8, <1>9, <1>10, <1>11, <1>12,
       <1>13, <1>14, <1>15, <1>16, <1>17, <1>18, <1>19, <1>20, <1>21, <1>22,
       <1>23, <1>24, <1>25, <1>26, <1>27, <1>28, <1>29, <1>30, <1>31, <1>32,
       <1>33, <1>34, <1>35, <1>36, <1>37, <1>38 DEF Next, Program, Work,
       Environment, Exited

\* Every step keeps what the service has started and ended.
LEMMA ServiceStep == Inv /\ [Next]_vars => ServiceInv'
<1> SUFFICES ASSUME Inv, [Next]_vars PROVE ServiceInv'
    OBVIOUS
<1>1. ASSUME UNCHANGED <<service, retention, database, listener, request,
        drainErr>>
      PROVE ServiceInv'
    BY <1>1 DEF Inv, TypeOK, ServiceInv, ExitInv, Building, Over,
       Accepting, InFlight, Listeners
<1>2. CASE waitForShutdown
    BY <1>1, <1>2 DEF waitForShutdown, notRunner, beginShutdown
<1>3. CASE shutdownCompleted
    BY <1>1, <1>3 DEF shutdownCompleted, notRunner
<1>4. CASE handleShutdownTimeout
    BY <1>1, <1>4 DEF handleShutdownTimeout, notRunner
<1>5. CASE appSetsCancel
    BY <1>1, <1>5 DEF appSetsCancel, notApp
<1>6. CASE appLaunches
    BY <1>1, <1>6 DEF appLaunches, notApp
<1>7. CASE appSelects
    BY <1>1, <1>7 DEF appSelects, notApp
<1>8. CASE appReturns
    BY <1>1, <1>8 DEF appReturns, notApp
<1>9. CASE \E c \in Stoppers : stopCancels(c)
    BY <1>1, <1>9 DEF stopCancels, notStop
<1>10. CASE \E c \in Stoppers : stopServices(c)
    BY <1>1, <1>10 DEF stopServices, notStop, ManagerStop
<1>11. CASE \E c \in Stoppers : stopWaits(c)
    BY <1>1, <1>11 DEF stopWaits, notStop
<1>12. CASE \E c \in Stoppers : stopAgain(c)
    BY <1>1, <1>12 DEF stopAgain, notStop
<1>13. CASE managerRefuses
    BY <1>1, <1>13 DEF managerRefuses, notManager
<1>14. CASE managerLaunches
    BY <1>14 DEF Inv, TypeOK, ServiceInv, ExitInv, Building, Over,
       Accepting, InFlight, Listeners, managerLaunches, notManager
<1>15. CASE managerSelects
    BY <1>1, <1>15 DEF managerSelects, notManager, ManagerStop
<1>16. CASE managerReturns
    BY <1>1, <1>16 DEF managerReturns, notManager
<1>17. CASE serviceStarts
    BY <1>17 DEF Inv, TypeOK, ServiceInv, ExitInv, Building, Over,
       Accepting, InFlight, Listeners, serviceStarts, notStep
<1>18. CASE waitForStop
    BY <1>18 DEF Inv, TypeOK, ServiceInv, ExitInv, Building, Over,
       Accepting, InFlight, Listeners, waitForStop, notStep
<1>19. CASE drain
    BY <1>19 DEF Inv, TypeOK, ServiceInv, ExitInv, Building, Over,
       Accepting, InFlight, Listeners, drain, notStep
<1>20. CASE drainGrace
    BY <1>20 DEF Inv, TypeOK, ServiceInv, ExitInv, Building, Over,
       Accepting, InFlight, Listeners, drainGrace, notStep, closeListener
<1>21. CASE shutdownPublic
    BY <1>21 DEF Inv, TypeOK, ServiceInv, ExitInv, Building, Over,
       Accepting, InFlight, Listeners, shutdownPublic, notStep, drained,
       closeListener
<1>22. CASE shutdownMetrics
    BY <1>22 DEF Inv, TypeOK, ServiceInv, ExitInv, Building, Over,
       Accepting, InFlight, Listeners, shutdownMetrics, notStep, drained
<1>23. CASE runService
    BY <1>23 DEF Inv, TypeOK, ServiceInv, ExitInv, Building, Over,
       Accepting, InFlight, Listeners, runService, notService
<1>24. CASE runRetention
    BY <1>24 DEF Inv, TypeOK, ServiceInv, ExitInv, Building, Over,
       Accepting, InFlight, Listeners, runRetention, notRetention
<1>25. CASE \E l \in Listeners : listens(l)
    BY <1>25 DEF Inv, TypeOK, ServiceInv, ExitInv, Building, Over,
       Accepting, InFlight, Listeners, listens, notListener
<1>26. CASE \E l \in Listeners : serve(l)
    BY <1>26 DEF Inv, TypeOK, ServiceInv, ExitInv, Building, Over,
       Accepting, InFlight, Listeners, serve, notListener
<1>27. CASE LoadDir
    BY <1>27 DEF Inv, TypeOK, ServiceInv, ExitInv, Building, Over,
       Accepting, InFlight, Listeners, LoadDir, notStep, buildGoesOn,
       buildFails
<1>28. CASE Open
    BY <1>28 DEF Inv, TypeOK, ServiceInv, ExitInv, Building, Over,
       Accepting, InFlight, Listeners, Open, notStep, buildGoesOn, buildFails
<1>29. CASE buildRouterStack
    BY <1>29 DEF Inv, TypeOK, ServiceInv, ExitInv, Building, Over,
       Accepting, InFlight, Listeners, buildRouterStack, notStep, buildGoesOn,
       buildFails
<1>30. CASE retentionPassEnds
    BY <1>30 DEF Inv, TypeOK, ServiceInv, ExitInv, Building, Over,
       Accepting, InFlight, Listeners, retentionPassEnds, notRetention
<1>31. CASE signalComes
    BY <1>1, <1>31 DEF signalComes, notOutside
<1>32. CASE balancerProbes
    BY <1>1, <1>32 DEF balancerProbes, notOutside, readyHandler
<1>33. CASE retentionPass
    BY <1>33 DEF Inv, TypeOK, ServiceInv, ExitInv, Building, Over,
       Accepting, InFlight, Listeners, retentionPass, notRetention
<1>34. CASE \E r \in Requests : requestEnds(r)
    BY <1>34 DEF Inv, TypeOK, ServiceInv, ExitInv, Building, Over,
       Accepting, InFlight, Listeners, requestEnds, notOutside
<1>35. CASE \E l \in Listeners : listenerFails(l)
    BY <1>35 DEF Inv, TypeOK, ServiceInv, ExitInv, Building, Over,
       Accepting, InFlight, Listeners, listenerFails, notListener
<1>36. CASE \E r \in Requests, l \in Listeners : requestComes(r, l)
    BY <1>36 DEF Inv, TypeOK, ServiceInv, ExitInv, Building, Over,
       Accepting, InFlight, Listeners, requestComes, notOutside
<1>37. CASE Tick
    BY <1>1, <1>37 DEF Tick, notTime, NothingDue, Left
<1>38. CASE UNCHANGED vars
    BY <1>1, <1>38 DEF vars
<1> QED
    BY <1>2, <1>3, <1>4, <1>5, <1>6, <1>7, <1>8, <1>9, <1>10, <1>11, <1>12,
       <1>13, <1>14, <1>15, <1>16, <1>17, <1>18, <1>19, <1>20, <1>21, <1>22,
       <1>23, <1>24, <1>25, <1>26, <1>27, <1>28, <1>29, <1>30, <1>31, <1>32,
       <1>33, <1>34, <1>35, <1>36, <1>37, <1>38 DEF Next, Program, Work,
       Environment, Exited

\* Every step keeps who called whom and why.
LEMMA ExitStep == Inv /\ [Next]_vars => ExitInv'
<1> SUFFICES ASSUME Inv, [Next]_vars PROVE ExitInv'
    OBVIOUS
<1>1. ASSUME UNCHANGED <<signal, signalled, runner, stop, result, app,
        manager, cancelled, appErr, shutdownErr, service>>
      PROVE ExitInv'
    BY <1>1 DEF Inv, TypeOK, ExitInv, Stoppers
<1>2. CASE waitForShutdown
    BY <1>2 DEF Inv, TypeOK, ExitInv, Stoppers, waitForShutdown, notRunner,
       beginShutdown
<1>3. CASE shutdownCompleted
    BY <1>3 DEF Inv, TypeOK, ExitInv, Stoppers, shutdownCompleted, notRunner
<1>4. CASE handleShutdownTimeout
    BY <1>4 DEF Inv, TypeOK, ExitInv, Stoppers, handleShutdownTimeout,
       notRunner
<1>5. CASE appSetsCancel
    BY <1>5 DEF Inv, TypeOK, ExitInv, Stoppers, appSetsCancel, notApp
<1>6. CASE appLaunches
    BY <1>6 DEF Inv, TypeOK, ExitInv, Stoppers, appLaunches, notApp
<1>7. CASE appSelects
    BY <1>7 DEF Inv, TypeOK, ExitInv, Stoppers, appSelects, notApp
<1>8. CASE appReturns
    BY <1>8 DEF Inv, TypeOK, ExitInv, Stoppers, appReturns, notApp
<1>9. CASE \E c \in Stoppers : stopCancels(c)
    BY <1>9 DEF Inv, TypeOK, ExitInv, Stoppers, stopCancels, notStop
<1>10. CASE \E c \in Stoppers : stopServices(c)
    BY <1>10 DEF Inv, TypeOK, ExitInv, Stoppers, stopServices, notStop,
       ManagerStop
<1>11. CASE \E c \in Stoppers : stopWaits(c)
    BY <1>11 DEF Inv, TypeOK, ExitInv, Stoppers, stopWaits, notStop
<1>12. CASE \E c \in Stoppers : stopAgain(c)
    BY <1>12 DEF Inv, TypeOK, ExitInv, Stoppers, stopAgain, notStop
<1>13. CASE managerRefuses
    BY <1>13 DEF Inv, TypeOK, ExitInv, Stoppers, managerRefuses, notManager
<1>14. CASE managerLaunches
    BY <1>14 DEF Inv, TypeOK, ExitInv, Stoppers, managerLaunches, notManager
<1>15. CASE managerSelects
    BY <1>15 DEF Inv, TypeOK, ExitInv, Stoppers, managerSelects,
       notManager, ManagerStop
<1>16. CASE managerReturns
    BY <1>16 DEF Inv, TypeOK, ExitInv, Stoppers, managerReturns, notManager
<1>17. CASE serviceStarts
    BY <1>17 DEF Inv, TypeOK, ExitInv, Stoppers, serviceStarts, notStep
<1>18. CASE waitForStop
    BY <1>18 DEF Inv, TypeOK, ExitInv, Stoppers, waitForStop, notStep
<1>19. CASE drain
    BY <1>19 DEF Inv, TypeOK, ExitInv, Stoppers, drain, notStep
<1>20. CASE drainGrace
    BY <1>20 DEF Inv, TypeOK, ExitInv, Stoppers, drainGrace, notStep,
       closeListener
<1>21. CASE shutdownPublic
    BY <1>21 DEF Inv, TypeOK, ExitInv, Stoppers, shutdownPublic, notStep,
       drained, closeListener
<1>22. CASE shutdownMetrics
    BY <1>22 DEF Inv, TypeOK, ExitInv, Stoppers, shutdownMetrics, notStep,
       drained
<1>23. CASE runService
    BY <1>23 DEF Inv, TypeOK, ExitInv, Stoppers, runService, notService
<1>24. CASE runRetention
    BY <1>1, <1>24 DEF runRetention, notRetention
<1>25. CASE \E l \in Listeners : listens(l)
    BY <1>1, <1>25 DEF listens, notListener
<1>26. CASE \E l \in Listeners : serve(l)
    BY <1>1, <1>26 DEF serve, notListener
<1>27. CASE LoadDir
    BY <1>27 DEF Inv, TypeOK, ExitInv, Stoppers, LoadDir, notStep,
       buildGoesOn, buildFails
<1>28. CASE Open
    BY <1>28 DEF Inv, TypeOK, ExitInv, Stoppers, Open, notStep,
       buildGoesOn, buildFails
<1>29. CASE buildRouterStack
    BY <1>29 DEF Inv, TypeOK, ExitInv, Stoppers, buildRouterStack, notStep,
       buildGoesOn, buildFails
<1>30. CASE retentionPassEnds
    BY <1>1, <1>30 DEF retentionPassEnds, notRetention
<1>31. CASE signalComes
    BY <1>31 DEF Inv, TypeOK, ExitInv, Stoppers, signalComes, notOutside
<1>32. CASE balancerProbes
    BY <1>1, <1>32 DEF balancerProbes, notOutside, readyHandler
<1>33. CASE retentionPass
    BY <1>1, <1>33 DEF retentionPass, notRetention
<1>34. CASE \E r \in Requests : requestEnds(r)
    BY <1>1, <1>34 DEF requestEnds, notOutside
<1>35. CASE \E l \in Listeners : listenerFails(l)
    BY <1>1, <1>35 DEF listenerFails, notListener
<1>36. CASE \E r \in Requests, l \in Listeners : requestComes(r, l)
    BY <1>1, <1>36 DEF requestComes, notOutside
<1>37. CASE Tick
    BY <1>1, <1>37 DEF Tick, notTime, NothingDue, Left
<1>38. CASE UNCHANGED vars
    BY <1>1, <1>38 DEF vars
<1> QED
    BY <1>2, <1>3, <1>4, <1>5, <1>6, <1>7, <1>8, <1>9, <1>10, <1>11, <1>12,
       <1>13, <1>14, <1>15, <1>16, <1>17, <1>18, <1>19, <1>20, <1>21, <1>22,
       <1>23, <1>24, <1>25, <1>26, <1>27, <1>28, <1>29, <1>30, <1>31, <1>32,
       <1>33, <1>34, <1>35, <1>36, <1>37, <1>38 DEF Next, Program, Work,
       Environment, Exited

\* Every step keeps track of where an error comes from.
LEMMA ErrorStep == Inv /\ [Next]_vars => ErrorInv'
<1> SUFFICES ASSUME Inv, [Next]_vars PROVE ErrorInv'
    OBVIOUS
<1>1. ASSUME UNCHANGED <<failure, service, runErr, drainErr, manager,
                         managerErr, app, appErr, shutdownErr>>
      PROVE  ErrorInv'
    BY <1>1 DEF Inv, ErrorInv
<1>2. CASE waitForShutdown
    BY <1>2 DEF Inv, ErrorInv, waitForShutdown, beginShutdown, notRunner
<1>3. CASE shutdownCompleted \/ handleShutdownTimeout
    BY <1>1, <1>3 DEF shutdownCompleted, handleShutdownTimeout, notRunner
<1>4. CASE appSetsCancel \/ appLaunches
    BY <1>4 DEF Inv, ErrorInv, ExitInv, appSetsCancel, appLaunches, notApp
<1>5. CASE appSelects
    BY <1>5 DEF Inv, ErrorInv, appSelects, notApp
<1>6. CASE appReturns
    BY <1>6 DEF Inv, ErrorInv, appReturns, notApp
<1>7. CASE \E c \in Stoppers : \/ stopCancels(c) \/ stopServices(c)
                              \/ stopWaits(c) \/ stopAgain(c)
    BY <1>1, <1>7 DEF stopCancels, stopServices, stopWaits, stopAgain, notStop
<1>8. CASE managerRefuses
    BY <1>8 DEF Inv, ErrorInv, ExitInv, managerRefuses, notManager
<1>9. CASE managerLaunches
    BY <1>9 DEF Inv, ErrorInv, ExitInv, managerLaunches, notManager
<1>10. CASE managerSelects
    BY <1>10 DEF Inv, ErrorInv, managerSelects, notManager
<1>11. CASE managerReturns
    BY <1>11 DEF Inv, ErrorInv, managerReturns, notManager
<1>12. ASSUME service \notin {"off", "returned"},
              \/ service' \notin {"off", "returned"} /\ failure' = failure
              \/ /\ service' = "returned"
                 /\ failure' => runErr' \/ drainErr',
              UNCHANGED <<manager, managerErr, app, appErr, shutdownErr>>
       PROVE  ErrorInv'
    BY <1>12 DEF Inv, ErrorInv
<1>13. CASE serviceStarts \/ waitForStop \/ drain \/ drainGrace
    BY <1>12, <1>13 DEF serviceStarts, waitForStop, drain, drainGrace, notStep
<1>14. CASE shutdownPublic \/ shutdownMetrics
    BY <1>12, <1>14 DEF shutdownPublic, shutdownMetrics, drained, notStep
<1>15. CASE runService
    BY <1>12, <1>15 DEF runService
<1>16. CASE LoadDir \/ Open \/ buildRouterStack
    BY <1>12, <1>16 DEF LoadDir, Open, buildRouterStack, buildGoesOn,
       buildFails, notStep
<1>17. CASE runRetention \/ retentionPassEnds \/ retentionPass
    BY <1>1, <1>17 DEF runRetention, retentionPassEnds, retentionPass,
       notRetention
<1>18. CASE \E l \in Listeners : listens(l) \/ serve(l) \/ listenerFails(l)
    BY <1>1, <1>18 DEF listens, serve, listenerFails, notListener
<1>19. CASE \/ signalComes \/ balancerProbes
            \/ \E r \in Requests : requestEnds(r)
            \/ \E r \in Requests, l \in Listeners : requestComes(r, l)
    BY <1>1, <1>19 DEF signalComes, balancerProbes, requestEnds, requestComes,
       notOutside
<1>20. CASE Tick
    BY <1>1, <1>20 DEF Tick
<1>21. CASE UNCHANGED vars
    BY <1>1, <1>21 DEF vars
<1> QED
    BY <1>2, <1>3, <1>4, <1>5, <1>6, <1>7, <1>8, <1>9, <1>10, <1>11, <1>13,
       <1>14, <1>15, <1>16, <1>17, <1>18, <1>19, <1>20, <1>21 DEF Next,
       Program, Work, Environment, Exited

\* Every step keeps how far the calls of Stop have come.
LEMMA StopStep == Inv /\ [Next]_vars => StopInv'
<1> SUFFICES ASSUME Inv, [Next]_vars PROVE StopInv'
    OBVIOUS
<1>1. ASSUME UNCHANGED <<runner, stop, once, app, cancelSet, cancelled,
        manager, service, retention>>
      PROVE StopInv'
    BY <1>1 DEF Inv, TypeOK, ServiceInv, ExitInv, StopInv, Building, Stoppers
<1>2. CASE waitForShutdown
    BY <1>2 DEF Inv, TypeOK, ServiceInv, ExitInv, StopInv, Building,
       Stoppers, waitForShutdown, notRunner, beginShutdown
<1>3. CASE shutdownCompleted
    BY <1>3 DEF Inv, TypeOK, ServiceInv, ExitInv, StopInv, Building,
       Stoppers, shutdownCompleted, notRunner
<1>4. CASE handleShutdownTimeout
    BY <1>4 DEF Inv, TypeOK, ServiceInv, ExitInv, StopInv, Building,
       Stoppers, handleShutdownTimeout, notRunner
<1>5. CASE appSetsCancel
    BY <1>5 DEF Inv, TypeOK, ServiceInv, ExitInv, StopInv, Building,
       Stoppers, appSetsCancel, notApp
<1>6. CASE appLaunches
    BY <1>6 DEF Inv, TypeOK, ServiceInv, ExitInv, StopInv, Building,
       Stoppers, appLaunches, notApp
<1>7. CASE appSelects
    BY <1>7 DEF Inv, TypeOK, ServiceInv, ExitInv, StopInv, Building,
       Stoppers, appSelects, notApp
<1>8. CASE appReturns
    BY <1>8 DEF Inv, TypeOK, ServiceInv, ExitInv, StopInv, Building,
       Stoppers, appReturns, notApp
<1>9. CASE \E c \in Stoppers : stopCancels(c)
    BY <1>9 DEF Inv, TypeOK, ServiceInv, ExitInv, StopInv, Building,
       Stoppers, stopCancels, notStop
<1>10. CASE \E c \in Stoppers : stopServices(c)
    BY <1>10 DEF Inv, TypeOK, ServiceInv, ExitInv, StopInv, Building,
       Stoppers, stopServices, notStop, ManagerStop
<1>11. CASE \E c \in Stoppers : stopWaits(c)
    BY <1>11 DEF Inv, TypeOK, ServiceInv, ExitInv, StopInv, Building,
       Stoppers, stopWaits, notStop
<1>12. CASE \E c \in Stoppers : stopAgain(c)
    BY <1>12 DEF Inv, TypeOK, ServiceInv, ExitInv, StopInv, Building,
       Stoppers, stopAgain, notStop
<1>13. CASE managerRefuses
    BY <1>13 DEF Inv, TypeOK, ServiceInv, ExitInv, StopInv, Building,
       Stoppers, managerRefuses, notManager
<1>14. CASE managerLaunches
    BY <1>14 DEF Inv, TypeOK, ServiceInv, ExitInv, StopInv, Building,
       Stoppers, managerLaunches, notManager
<1>15. CASE managerSelects
    BY <1>15 DEF Inv, TypeOK, ServiceInv, ExitInv, StopInv, Building,
       Stoppers, managerSelects, notManager, ManagerStop
<1>16. CASE managerReturns
    BY <1>16 DEF Inv, TypeOK, ServiceInv, ExitInv, StopInv, Building,
       Stoppers, managerReturns, notManager
<1>17. CASE serviceStarts
    BY <1>17 DEF Inv, TypeOK, ServiceInv, ExitInv, StopInv, Building,
       Stoppers, serviceStarts, notStep
<1>18. CASE waitForStop
    BY <1>18 DEF Inv, TypeOK, ServiceInv, ExitInv, StopInv, Building,
       Stoppers, waitForStop, notStep
<1>19. CASE drain
    BY <1>19 DEF Inv, TypeOK, ServiceInv, ExitInv, StopInv, Building,
       Stoppers, drain, notStep
<1>20. CASE drainGrace
    BY <1>20 DEF Inv, TypeOK, ServiceInv, ExitInv, StopInv, Building,
       Stoppers, drainGrace, notStep, closeListener
<1>21. CASE shutdownPublic
    BY <1>21 DEF Inv, TypeOK, ServiceInv, ExitInv, StopInv, Building,
       Stoppers, shutdownPublic, notStep, drained, closeListener
<1>22. CASE shutdownMetrics
    BY <1>22 DEF Inv, TypeOK, ServiceInv, ExitInv, StopInv, Building,
       Stoppers, shutdownMetrics, notStep, drained
<1>23. CASE runService
    BY <1>23 DEF Inv, TypeOK, ServiceInv, ExitInv, StopInv, Building,
       Stoppers, runService, notService
<1>24. CASE runRetention
    BY <1>24 DEF Inv, TypeOK, StopInv, runRetention, notRetention
<1>25. CASE \E l \in Listeners : listens(l)
    BY <1>1, <1>25 DEF listens, notListener
<1>26. CASE \E l \in Listeners : serve(l)
    BY <1>1, <1>26 DEF serve, notListener
<1>27. CASE LoadDir
    BY <1>27 DEF Inv, TypeOK, ServiceInv, ExitInv, StopInv, Building,
       Stoppers, LoadDir, notStep, buildGoesOn, buildFails
<1>28. CASE Open
    BY <1>28 DEF Inv, TypeOK, ServiceInv, ExitInv, StopInv, Building,
       Stoppers, Open, notStep, buildGoesOn, buildFails
<1>29. CASE buildRouterStack
    BY <1>29 DEF Inv, TypeOK, ServiceInv, ExitInv, StopInv, Building,
       Stoppers, buildRouterStack, notStep, buildGoesOn, buildFails
<1>30. CASE retentionPassEnds
    BY <1>30 DEF Inv, TypeOK, StopInv, retentionPassEnds, notRetention
<1>31. CASE signalComes
    BY <1>31 DEF Inv, TypeOK, ServiceInv, ExitInv, StopInv, Building,
       Stoppers, signalComes, notOutside
<1>32. CASE balancerProbes
    BY <1>1, <1>32 DEF balancerProbes, notOutside, readyHandler
<1>33. CASE retentionPass
    BY <1>33 DEF Inv, TypeOK, StopInv, retentionPass, notRetention
<1>34. CASE \E r \in Requests : requestEnds(r)
    BY <1>1, <1>34 DEF requestEnds, notOutside
<1>35. CASE \E l \in Listeners : listenerFails(l)
    BY <1>1, <1>35 DEF listenerFails, notListener
<1>36. CASE \E r \in Requests, l \in Listeners : requestComes(r, l)
    BY <1>1, <1>36 DEF requestComes, notOutside
<1>37. CASE Tick
    BY <1>1, <1>37 DEF Tick, notTime, NothingDue, Left
<1>38. CASE UNCHANGED vars
    BY <1>1, <1>38 DEF vars
<1> QED
    BY <1>2, <1>3, <1>4, <1>5, <1>6, <1>7, <1>8, <1>9, <1>10, <1>11, <1>12,
       <1>13, <1>14, <1>15, <1>16, <1>17, <1>18, <1>19, <1>20, <1>21, <1>22,
       <1>23, <1>24, <1>25, <1>26, <1>27, <1>28, <1>29, <1>30, <1>31, <1>32,
       <1>33, <1>34, <1>35, <1>36, <1>37, <1>38 DEF Next, Program, Work,
       Environment, Exited

\* The initial state.
LEMMA InvInit == Init => Inv
<1> SUFFICES ASSUME Init PROVE Inv
    OBVIOUS
<1>1. TypeOK
  <2>1. /\ probeLeft \in 0 .. ProbeEvery
        /\ graceLeft \in 0 .. Grace
        /\ drainLeft \in 0 .. DrainTimeout
        /\ runnerLeft \in 0 .. ShutdownTimeout
      BY TimesAssumption DEF Init
  <2>2. errs \in Seq({"failed", "closed"}) /\ Len(errs) <= 2
      BY DEF Init
  <2>3. request \in [Requests -> Listeners \cup {"idle", "done"}]
      BY DEF Init
  <2>4. /\ stop \in [Stoppers -> {"idle", "cancel", "once", "wait", "returned"}]
        /\ listener \in [Listeners -> {"off", "starting", "serving", "closed",
                                       "ended"}]
      BY DEF Init
  <2> QED
      BY <2>1, <2>2, <2>3, <2>4 DEF Init, TypeOK
<1>2. ReportsInv /\ ExitInv /\ ErrorInv /\ StopInv
    BY DEF Init, ReportsInv, Ended, ExitInv, ErrorInv, StopInv, Listeners,
       Stoppers
<1>3. \A l \in Listeners : listener[l] = "off" /\ InFlight(l) = {}
    BY DEF Init, InFlight, Listeners
<1>4. ServiceInv
    BY <1>3 DEF Init, ServiceInv, Building, Over, Accepting, Listeners
<1> QED
    BY <1>1, <1>2, <1>4 DEF Inv

\* The inductive invariant.
THEOREM LifecycleInvariant == Spec => []Inv
<1>1. Inv /\ [Next]_vars => Inv'
    BY TypeStep, ReportsStep, ServiceStep, ExitStep, ErrorStep, StopStep
       DEF Inv
<1> QED
    BY InvInit, <1>1, PTL DEF Spec

\* Type correctness: no timer runs below zero, and no report of a listener
\* ever blocks on the channel.
THEOREM LifecycleTypes == Spec => []TypeOK
BY LifecycleInvariant, PTL DEF Inv

\* The database is closed after the retention loop has ended and after every
\* exchange, except those whose drain ran into its deadline.
THEOREM DatabaseIsClosedLast == Spec => []DatabaseOutlivesItsUsers
<1>1. Inv => DatabaseOutlivesItsUsers
    BY DEF Inv, TypeOK, ServiceInv, DatabaseOutlivesItsUsers, Over, Listeners
<1> QED
    BY LifecycleInvariant, <1>1, PTL

\* A success was asked for, an error is the service's, and either way nothing
\* is left running.
THEOREM ReportedEndIsTheEnd == Spec => []ExitIsTruthful
<1>1. ASSUME Inv, app = "returned" PROVE AllOver
  <2>1. manager = "returned" /\ service \in {"off", "returned"}
      BY <1>1 DEF Inv, ExitInv
  <2>2. retention \in {"off", "ended"} /\ database # "open"
      BY <1>1, <2>1 DEF Inv, ServiceInv, Building, Over
  <2>3. \A l \in Listeners : listener[l] \notin {"starting", "serving"}
      BY <1>1, <2>1 DEF Inv, ServiceInv, Building, Over, Accepting, Listeners
  <2> QED
      BY <1>1, <2>1, <2>2, <2>3 DEF AllOver
<1>2. Inv => ExitIsTruthful
    BY <1>1 DEF Inv, ExitInv, ErrorInv, ExitIsTruthful
<1> QED
    BY LifecycleInvariant, <1>2, PTL

\* The runner's timer only runs down in a Tick.
LEMMA OnlyTicksCount ==
    ASSUME Inv, [Next]_vars, runnerLeft' < runnerLeft
    PROVE  Tick /\ runner = "stopping"
<1>1. UNCHANGED runnerLeft => FALSE
    BY DEF Inv, TypeOK
<1>2. ASSUME waitForShutdown PROVE FALSE
    BY <1>2, TimesAssumption DEF Inv, TypeOK, waitForShutdown, beginShutdown
<1>3. ASSUME \/ shutdownCompleted \/ handleShutdownTimeout
             \/ appSetsCancel \/ appLaunches \/ appSelects \/ appReturns
      PROVE  FALSE
    BY <1>1, <1>3 DEF shutdownCompleted, handleShutdownTimeout, appSetsCancel,
       appLaunches, appSelects, appReturns, notApp
<1>4. ASSUME NEW c \in Stoppers,
             \/ stopCancels(c) \/ stopServices(c) \/ stopWaits(c)
             \/ stopAgain(c)
      PROVE  FALSE
    BY <1>1, <1>4 DEF stopCancels, stopServices, stopWaits, stopAgain, notStop
<1>5. ASSUME \/ managerRefuses \/ managerLaunches \/ managerSelects
             \/ managerReturns
      PROVE  FALSE
    BY <1>1, <1>5 DEF managerRefuses, managerLaunches, managerSelects,
       managerReturns, notManager
<1>6. ASSUME \/ serviceStarts \/ waitForStop \/ drain \/ drainGrace
             \/ shutdownPublic \/ shutdownMetrics \/ runService
             \/ LoadDir \/ Open \/ buildRouterStack
      PROVE  FALSE
    BY <1>1, <1>6 DEF serviceStarts, waitForStop, drain, drainGrace,
       shutdownPublic, shutdownMetrics, runService, LoadDir, Open,
       buildRouterStack, buildGoesOn, buildFails, notStep
<1>7. ASSUME runRetention \/ retentionPassEnds \/ retentionPass PROVE FALSE
    BY <1>1, <1>7 DEF runRetention, retentionPassEnds, retentionPass,
       notRetention
<1>8. ASSUME NEW l \in Listeners, listens(l) \/ serve(l) \/ listenerFails(l)
      PROVE  FALSE
    BY <1>1, <1>8 DEF listens, serve, listenerFails, notListener
<1>9. ASSUME \/ signalComes \/ balancerProbes
             \/ \E r \in Requests : requestEnds(r)
             \/ \E r \in Requests, l \in Listeners : requestComes(r, l)
      PROVE  FALSE
    BY <1>1, <1>9 DEF signalComes, balancerProbes, requestEnds, requestComes,
       notOutside
<1>10. UNCHANGED vars => FALSE
    BY <1>1 DEF vars
<1>11. Tick
    BY <1>2, <1>3, <1>4, <1>5, <1>6, <1>7, <1>8, <1>9, <1>10 DEF Next,
       Program, Work, Environment, Exited
<1>12. Tick => runner = "stopping"
    BY <1>1 DEF Tick, Left
<1> QED
    BY <1>11, <1>12

\* A stopped application is waited for by somebody who can go on: with the
\* context over and no Stop left to come, only the service can be behind.
LEMMA ServiceIsBehind ==
    ASSUME Inv, Quiet, runner = "stopping", cancelled
    PROVE  manager = "wait" /\ service \notin {"off", "returned"}
<1>1. ctxDone
    BY DEF ctxDone
<1>2. app \in {"stop", "returned"}
    BY DEF Inv, TypeOK, Quiet, AppBlocked
<1>3. manager \in {"wait", "returned"}
    BY <1>1, <1>2 DEF Inv, TypeOK, StopInv, Quiet, ManagerBlocked
<1>4. ASSUME manager = "returned" PROVE FALSE
  <2>1. \A c \in Stoppers : stop[c] # "wait"
      BY <1>4 DEF Quiet, StopBlocked
  <2>2. once # "taken"
      BY <2>1 DEF Inv, StopInv
  <2>3. \A c \in Stoppers : stop[c] \in {"idle", "returned"}
      BY <2>1, <2>2 DEF Inv, TypeOK, Quiet, StopBlocked
  <2>4. stop["runner"] = "returned" /\ stop["app"] = "returned"
      BY <1>2, <2>3 DEF Inv, StopInv, Stoppers
  <2> QED
      BY <1>2, <1>4, <2>4 DEF Quiet, RunnerBlocked, AppBlocked
<1> QED
    BY <1>3, <1>4 DEF Inv, TypeOK, StopInv, Quiet, ManagerBlocked

\* While the runner waits, time passes only because work is under way,
\* exchanges are being drained or Stop came too early: the goroutines of the
\* process never wait for each other.
THEOREM NobodyWaitsForNothing == Spec => WaitIsExplained
<1> DEFINE Explained ==
        \/ service \in {"policies", "database", "router"}
        \/ retention = "pass"
        \/ service \in Listeners /\ InFlight(service) # {}
        \/ StopCameEarly
<1>1. ASSUME Inv, Quiet, runner = "stopping" PROVE Explained
  <2>1. CASE ~cancelled
    <3>1. once = "taken" => stop["runner"] = "wait"
        BY <1>1, <2>1 DEF Inv, StopInv, Stoppers
    <3>2. stop["runner"] \in {"wait", "returned"}
        BY <1>1, <3>1 DEF Inv, TypeOK, StopInv, Quiet, StopBlocked, Stoppers
    <3> QED
        BY <2>1, <3>2 DEF StopCameEarly
  <2>2. CASE cancelled
    <3>1. service \notin {"off", "returned"} /\ ctxDone
        BY <1>1, <2>2, ServiceIsBehind DEF ctxDone
    <3>2. service \notin {"listen", "exit", "select", "grace"}
        BY <1>1, <3>1 DEF Quiet, ServiceBlocked, askedToStop
    <3>3. service = "retention" => retention = "pass"
        BY <1>1, <3>1 DEF Inv, TypeOK, StopInv, Quiet, ServiceBlocked
    <3>4. service \in Listeners => InFlight(service) # {}
        BY <1>1 DEF Quiet, ServiceBlocked
    <3> QED
        BY <1>1, <3>1, <3>2, <3>3, <3>4 DEF Inv, TypeOK, Listeners
  <2> QED
      BY <2>1, <2>2
<1>2. ASSUME Inv, [Next]_vars
      PROVE  [runnerLeft' < runnerLeft => Explained]_vars
    BY <1>1, <1>2, OnlyTicksCount DEF Tick
<1> QED
    BY <1>2, LifecycleInvariant, PTL DEF Spec, WaitIsExplained

=============================================================================
