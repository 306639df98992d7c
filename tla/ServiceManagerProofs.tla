------------------------ MODULE ServiceManagerProofs ------------------------
(***************************************************************************)
(* Proofs about ServiceManager: types, the order of the start groups, and  *)
(* how startup, failure and the once-only Stop respect it, for any set of  *)
(* services, any dependency graph and any number of Stop calls.            *)
(***************************************************************************)
EXTENDS ServiceManagerInvariants, FiniteSetTheorems, TLAPS

(***************************************************************************)
(* Sets                                                                    *)
(***************************************************************************)

\* The dependencies left when those in q are placed as well.
LEMMA DifferenceTwice ==
  ASSUME NEW D, IsFiniteSet(D), NEW P, NEW q, q \cap P = {}
  PROVE  /\ Cardinality(D \ P) - Cardinality(D \cap q)
              = Cardinality(D \ (P \cup q))
         /\ Cardinality(D \ (P \cup q)) \in Nat
<1>1. IsFiniteSet(D \ P) /\ IsFiniteSet(D \ (P \cup q))
  BY FS_Difference
<1>2. (D \ P) \ q = D \ (P \cup q)
  OBVIOUS
<1>3. (D \ P) \cap q = D \cap q
  OBVIOUS
<1>4. Cardinality((D \ P) \ q)
        = Cardinality(D \ P) - Cardinality((D \ P) \cap q)
  BY <1>1, FS_Difference
<1>5. Cardinality(D \ (P \cup q)) \in Nat
  BY <1>1, FS_CardinalityType
<1> QED  BY <1>2, <1>3, <1>4, <1>5

\* The dependencies of a service in this process are finitely many.
LEMMA FiniteDependencies ==
  ASSUME NEW s
  PROVE  /\ IsFiniteSet(Dependencies(s))
         /\ Cardinality(Dependencies(s)) \in Nat
<1>1. Dependencies(s) \in SUBSET Services
  BY DEF Dependencies
<1>2. IsFiniteSet(Dependencies(s))
  BY <1>1, FS_Subset, ServicesAssumption
<1> QED  BY <1>2, FS_CardinalityType

-----------------------------------------------------------------------------
(***************************************************************************)
(* Frames                                                                  *)
(***************************************************************************)

\* A service's step touches services and signals only.
LEMMA ServiceFrame ==
  ASSUME NEW s \in Services, runService(s)
  PROVE  UNCHANGED notServices
BY DEF runService, BecomeReady, ExitCleanly, FailQuietly, FailAndRetry, Retry,
       CancelDelay, FailForGood, handleServiceError, trigger, Exit

\* A step of Stop touches the context, the lock and the state of Stop only.
LEMMA StopFrame ==
  ASSUME \/ \E c \in Callers : Stop(c)
         \/ \E s \in Services : stopServiceWithTimeout(s)
  PROVE  UNCHANGED notStop
BY DEF Stop, StopCancel, EnterOnce, SkipOnce, LockStop, stopGroup, FinishStop,
       stopServiceWithTimeout

-----------------------------------------------------------------------------
(***************************************************************************)
(* One round of the sort                                                   *)
(***************************************************************************)

\* The queue becomes the last group.
LEMMA RoundPlaces ==
  ASSUME TypeOK, topoSort
  PROVE  /\ Len(groups') = Len(groups) + 1
         /\ \A i \in 1 .. Len(groups) : groups'[i] = groups[i]
         /\ groups'[Len(groups) + 1] = queue
         /\ Placed' = Placed \cup queue
         /\ \A s : Dependencies(s)' = Dependencies(s)
<1>1. groups \in Seq(SUBSET Services) /\ queue \in SUBSET Services
  BY DEF TypeOK
<1>2. groups' = Append(groups, queue)
  BY DEF topoSort
<1>3. /\ Len(groups') = Len(groups) + 1
      /\ \A i \in 1 .. Len(groups) : groups'[i] = groups[i]
      /\ groups'[Len(groups) + 1] = queue
      /\ Len(groups) \in Nat
  BY <1>1, <1>2
<1>4. ASSUME NEW s \in Services
      PROVE  (\E i \in 1 .. Len(groups') : s \in groups'[i])
               <=> ((\E i \in 1 .. Len(groups) : s \in groups[i])
                      \/ s \in queue)
  <2>1. ASSUME NEW i \in 1 .. Len(groups'), s \in groups'[i]
        PROVE  (\E k \in 1 .. Len(groups) : s \in groups[k]) \/ s \in queue
    <3>1. i \in 1 .. Len(groups) \/ i = Len(groups) + 1
      BY <1>3
    <3> QED  BY <1>3, <2>1, <3>1
  <2>2. Len(groups) + 1 \in 1 .. Len(groups')
    BY <1>3
  <2>3. \A i \in 1 .. Len(groups) : i \in 1 .. Len(groups')
    BY <1>3
  <2> QED  BY <1>3, <2>1, <2>2, <2>3
<1>5. Placed' = Placed \cup queue
  BY <1>1, <1>4 DEF Placed
<1>6. graph' = graph
  BY DEF topoSort, notRun
<1> QED  BY <1>3, <1>5, <1>6 DEF Dependencies

\* What is placed rests on what is placed.
LEMMA PlacedIsClosed ==
  ASSUME TypeOK, Layers, NEW s \in Placed
  PROVE  Dependencies(s) \subseteq Placed
BY DEF Layers, Placed, Dependencies

\* A round keeps the count of missing dependencies and finds the next group.
LEMMA RoundSorts ==
  ASSUME TypeOK, Layers, Sorting, topoSort
  PROVE  Sorting' /\ inDegree' \in [Services -> Nat]
<1>1. /\ \A s \in Services :
           inDegree[s] = Cardinality(Dependencies(s) \ Placed)
      /\ queue = {s \in Services \ Placed : Dependencies(s) \subseteq Placed}
      /\ run = "sort" /\ run' = "sort"
  BY DEF Sorting, topoSort, runVars
<1>2. Placed' = Placed \cup queue /\ \A s : Dependencies(s)' = Dependencies(s)
  BY RoundPlaces
<1>3. queue \cap Placed = {}
  BY <1>1
<1>4. \A s \in Services :
        /\ Decreased(s) = Cardinality(Dependencies(s) \ Placed')
        /\ Decreased(s) \in Nat
  <2> SUFFICES ASSUME NEW s \in Services
               PROVE  /\ Decreased(s)
                           = Cardinality(Dependencies(s) \ (Placed \cup queue))
                      /\ Decreased(s) \in Nat
    BY <1>2
  <2>1. IsFiniteSet(Dependencies(s))
    BY FiniteDependencies
  <2>2. /\ Cardinality(Dependencies(s) \ Placed)
             - Cardinality(Dependencies(s) \cap queue)
             = Cardinality(Dependencies(s) \ (Placed \cup queue))
        /\ Cardinality(Dependencies(s) \ (Placed \cup queue)) \in Nat
    BY <1>3, <2>1, DifferenceTwice
  <2> QED  BY <1>1, <2>2 DEF Decreased
<1>5. inDegree' = [s \in Services |-> Decreased(s)]
  BY DEF topoSort
<1>6. \A s \in Services :
        (Decreased(s) = 0) <=> (Dependencies(s) \subseteq Placed')
  <2> SUFFICES ASSUME NEW s \in Services
               PROVE  (Decreased(s) = 0) <=> (Dependencies(s) \subseteq Placed')
    OBVIOUS
  <2>1. IsFiniteSet(Dependencies(s) \ Placed')
    BY FiniteDependencies, FS_Difference
  <2>2. (Cardinality(Dependencies(s) \ Placed') = 0)
          <=> (Dependencies(s) \ Placed' = {})
    BY <2>1, FS_EmptySet
  <2> QED  BY <1>4, <2>2
<1>7. queue' = {s \in Services : /\ Dependencies(s) \cap queue # {}
                                 /\ Decreased(s) = 0}
  BY DEF topoSort
<1>8. ASSUME NEW s \in Services
      PROVE  (s \in queue')
               <=> (s \notin Placed' /\ Dependencies(s) \subseteq Placed')
  <2>1. s \in Placed => Dependencies(s) \subseteq Placed
    BY PlacedIsClosed
  <2>2. s \in queue => Dependencies(s) \subseteq Placed
    BY <1>1
  <2>3. (s \notin Placed /\ Dependencies(s) \subseteq Placed) => s \in queue
    BY <1>1
  <2> QED  BY <1>2, <1>3, <1>6, <1>7, <2>1, <2>2, <2>3
<1>9. queue' \subseteq Services
  BY <1>7
<1>10. queue' = {s \in Services \ Placed' : Dependencies(s) \subseteq Placed'}
  BY <1>8, <1>9
<1> QED  BY <1>1, <1>2, <1>4, <1>5, <1>10 DEF Sorting

\* The new group is disjoint from the others and rests on them.
LEMMA RoundLayers ==
  ASSUME TypeOK, Layers, Sorting, topoSort
  PROVE  Layers'
<1> DEFINE n == Len(groups)
<1>1. /\ n \in Nat
      /\ Len(groups') = n + 1
      /\ \A i \in 1 .. n : groups'[i] = groups[i]
      /\ groups'[n + 1] = queue
      /\ \A s : Dependencies(s)' = Dependencies(s)
      /\ \A i \in 1 .. n + 1 : i \in 1 .. n \/ i = n + 1
      /\ \A i \in 1 .. n : i \in 1 .. n + 1 /\ i < n + 1
  BY RoundPlaces DEF TypeOK
<1>2. queue = {s \in Services \ Placed : Dependencies(s) \subseteq Placed}
  BY DEF Sorting, topoSort
<1>3. \A i \in 1 .. n : groups[i] \subseteq Placed
  BY DEF Placed, TypeOK
<1>4. \A i \in 1 .. n : groups[i] \cap queue = {}
  BY <1>2, <1>3
<1> HIDE DEF n
<1>5. \A i, j \in 1 .. n + 1 : i # j => groups'[i] \cap groups'[j] = {}
  BY <1>1, <1>4 DEF Layers, n
<1>6. ASSUME NEW i \in 1 .. n + 1, NEW s \in groups'[i],
             NEW d \in Dependencies(s)
      PROVE  \E j \in 1 .. n + 1 : j < i /\ d \in groups'[j]
  <2>1. CASE i \in 1 .. n
    <3>1. \E j \in 1 .. n : j < i /\ d \in groups[j]
      BY <1>1, <1>6, <2>1 DEF Layers, n
    <3> QED  BY <1>1, <3>1
  <2>2. CASE i = n + 1
    <3>1. d \in Placed
      BY <1>1, <1>2, <1>6, <2>2
    <3>2. \E j \in 1 .. n : d \in groups[j]
      BY <3>1 DEF Placed, n
    <3> QED  BY <1>1, <2>2, <3>2
  <2> QED  BY <1>1, <2>1, <2>2
<1> QED  BY <1>1, <1>5, <1>6 DEF Layers, n

\* A service of a cycle never enters the queue.
LEMMA RoundLeavesCycles ==
  ASSUME TypeOK, Sorting, CyclesStayOut, topoSort
  PROVE  CyclesStayOut'
<1>1. Placed' = Placed \cup queue /\ \A s : Dependencies(s)' = Dependencies(s)
  BY RoundPlaces
<1>2. queue = {s \in Services \ Placed : Dependencies(s) \subseteq Placed}
  BY DEF Sorting, topoSort
<1>3. ASSUME NEW cycle \in SUBSET Services,
             \A s \in cycle : Dependencies(s) \cap cycle # {}
      PROVE  cycle \cap (Placed \cup queue) = {}
  <2>1. cycle \cap Placed = {}
    BY <1>3 DEF CyclesStayOut
  <2>2. \A s \in cycle : s \notin queue
    BY <1>2, <1>3, <2>1
  <2> QED  BY <2>1, <2>2
<1> QED  BY <1>1, <1>3 DEF CyclesStayOut

-----------------------------------------------------------------------------
(***************************************************************************)
(* Types, order, startup and the once-only Stop are inductive together:    *)
(* the counts of the sort stay natural because of what it has placed, the  *)
(* walk of Stop stays inside the groups because of the lock.               *)
(***************************************************************************)
Base ==
    /\ TypeOK
    /\ Layers
    /\ Sorting
    /\ CyclesStayOut
    /\ Startup
    /\ OnceOnly

LEMMA InitBase == Init => Base
<1> SUFFICES ASSUME Init PROVE Base
  OBVIOUS
<1>1. groups = <<>> /\ Len(groups) = 0
  BY DEF Init
<1>2. TypeOK
  <2>1. groups \in Seq(SUBSET Services)
    BY <1>1
  <2>2. /\ inDegree \in [Services -> Nat]
        /\ attempt \in [Services -> Nat]
        /\ listed \in 0 .. Len(groups)
        /\ level \in 0 .. Len(groups)
        /\ next \in Nat \ {0}
    BY <1>1 DEF Init
  <2> QED  BY <2>1, <2>2 DEF Init, TypeOK
<1>3. Placed = {}
  BY <1>1 DEF Placed
<1>4. Layers /\ Sorting /\ CyclesStayOut
  BY <1>1, <1>3 DEF Init, Layers, Sorting, CyclesStayOut
<1>5. Startup
  BY <1>1 DEF Init, Startup, Started
<1>6. OnceOnly
  BY DEF Init, OnceOnly
<1> QED  BY <1>2, <1>4, <1>5, <1>6 DEF Base

\* Every step keeps the types.
LEMMA TypeStep ==
  ASSUME Base, [Next]_vars
  PROVE  TypeOK'
<1> USE DEF notRun, notServices, notStop, runVars, contextVars, orderVars,
            startVars, serviceVars, signalVars, stopVars
<1>0. TypeOK
  BY DEF Base
<1>1. CASE InstantiateFails
  BY <1>0, <1>1 DEF TypeOK, InstantiateFails
<1>2. CASE SetCancel
  BY <1>0, <1>2 DEF TypeOK, SetCancel
<1>3. CASE buildDepGraph
  <2>1. inDegree' \in [Services -> Nat]
    BY <1>3, FiniteDependencies DEF buildDepGraph
  <2> QED  BY <1>0, <1>3, <2>1 DEF TypeOK, buildDepGraph
<1>4. CASE topoSort
  <2>1. inDegree' \in [Services -> Nat]
    BY <1>4, RoundSorts DEF Base
  <2>2. queue' \in SUBSET Services
    BY <1>4 DEF topoSort
  <2>3. groups' \in Seq(SUBSET Services) /\ Len(groups') = Len(groups) + 1
    BY <1>0, <1>4 DEF TypeOK, topoSort
  <2>4. listed' \in 0 .. Len(groups') /\ level' \in 0 .. Len(groups')
    BY <1>0, <1>4, <2>3 DEF TypeOK, topoSort
  <2> QED  BY <1>0, <1>4, <2>1, <2>2, <2>3, <2>4 DEF TypeOK, topoSort
<1>5. CASE RefuseOrder
  BY <1>0, <1>5 DEF TypeOK, RefuseOrder
<1>6. CASE LockGroups
  BY <1>0, <1>6 DEF TypeOK, LockGroups
<1>7. CASE CheckFailure
  BY <1>0, <1>7 DEF TypeOK, CheckFailure
<1>8. CASE EndStartup
  BY <1>0, <1>8 DEF TypeOK, EndStartup
<1>9. CASE LaunchGroup
  BY <1>0, <1>9 DEF TypeOK, LaunchGroup
<1>10. CASE waitGroupReady
  BY <1>0, <1>10 DEF TypeOK, waitGroupReady, Base, Startup
<1>11. CASE SelectDone
  BY <1>0, <1>11 DEF TypeOK, SelectDone
<1>12. CASE SelectError
  BY <1>0, <1>12 DEF TypeOK, SelectError
<1>13. CASE Return
  BY <1>0, <1>13 DEF TypeOK, Return
<1>14. ASSUME NEW s \in Services, runService(s)
       PROVE  TypeOK'
  <2>1. CASE BecomeReady(s)
    BY <1>0, <2>1 DEF TypeOK, BecomeReady
  <2>2. CASE Exit(s)
    BY <1>0, <2>2 DEF TypeOK, Exit
  <2>3. CASE FailAndRetry(s)
    BY <1>0, <2>3 DEF TypeOK, FailAndRetry
  <2>4. CASE Retry(s)
    BY <1>0, <2>4 DEF TypeOK, Retry
  <2>5. CASE FailForGood(s)
    BY <1>0, <2>5 DEF TypeOK, FailForGood
  <2>6. CASE handleServiceError(s)
    BY <1>0, <2>6 DEF TypeOK, handleServiceError
  <2>7. CASE trigger(s)
    BY <1>0, <2>7 DEF TypeOK, trigger
  <2> QED  BY <1>14, <2>1, <2>2, <2>3, <2>4, <2>5, <2>6, <2>7
           DEF runService, ExitCleanly, FailQuietly, CancelDelay
<1>15. ASSUME NEW s \in Services, stopServiceWithTimeout(s)
       PROVE  TypeOK'
  BY <1>0, <1>15 DEF TypeOK, stopServiceWithTimeout
<1>16. ASSUME NEW c \in Callers, Stop(c)
       PROVE  TypeOK'
  <2>1. CASE stopGroup(c)
    <3>1. groups[level] \in SUBSET Services
      BY <1>0, <2>1 DEF TypeOK, stopGroup
    <3> QED  BY <1>0, <2>1, <3>1 DEF TypeOK, stopGroup
  <2>2. CASE StopCancel(c)
    BY <1>0, <2>2 DEF TypeOK, StopCancel
  <2>3. CASE LockStop(c)
    BY <1>0, <2>3 DEF TypeOK, LockStop
  <2>4. CASE EnterOnce(c)
    BY <1>0, <2>4 DEF TypeOK, EnterOnce
  <2>5. CASE SkipOnce(c)
    BY <1>0, <2>5 DEF TypeOK, SkipOnce
  <2>6. CASE FinishStop(c)
    BY <1>0, <2>6 DEF TypeOK, FinishStop
  <2> QED  BY <1>16, <2>1, <2>2, <2>3, <2>4, <2>5, <2>6 DEF Stop
<1>17. CASE CancelParent
  BY <1>0, <1>17 DEF TypeOK, CancelParent
<1>18. CASE UNCHANGED vars
  BY <1>0, <1>18 DEF TypeOK, vars
<1> QED  BY <1>1, <1>2, <1>3, <1>4, <1>5, <1>6, <1>7, <1>8, <1>9, <1>10,
            <1>11, <1>12, <1>13, <1>14, <1>15, <1>16, <1>17, <1>18
         DEF Next, Run, Terminated

\* Only the sort changes the order, and it runs before the startup.
LEMMA OrderStep ==
  ASSUME Base, [Next]_vars
  PROVE  Layers' /\ Sorting' /\ CyclesStayOut'
<1> USE DEF notRun, notServices, notStop, runVars, contextVars, orderVars,
            startVars, serviceVars, signalVars, stopVars
<1>1. CASE topoSort
  BY <1>1, RoundSorts, RoundLayers, RoundLeavesCycles DEF Base
<1>2. CASE buildDepGraph
  <2>1. groups = <<>> /\ groups' = <<>> /\ graph' = graph
    BY <1>2 DEF Base, Sorting, buildDepGraph
  <2>2. Placed = {} /\ Placed' = {} /\ \A s : Dependencies(s)' = Dependencies(s)
    BY <2>1 DEF Placed, Dependencies
  <2>3. Layers' /\ CyclesStayOut'
    BY <2>1, <2>2 DEF Layers, CyclesStayOut
  <2>4. /\ run' = "sort"
        /\ inDegree' = [s \in Services |-> Cardinality(Dependencies(s))]
        /\ queue' = {s \in Services : Dependencies(s) = {}}
    BY <1>2 DEF buildDepGraph
  <2>5. \A s \in Services :
          /\ Dependencies(s) \ {} = Dependencies(s)
          /\ (Dependencies(s) \subseteq {}) <=> (Dependencies(s) = {})
    OBVIOUS
  <2>6. Sorting'
    BY <2>2, <2>4, <2>5 DEF Sorting
  <2> QED  BY <2>3, <2>6
<1>3. CASE /\ UNCHANGED <<graph, orderVars>>
           /\ \/ run' = run
              \/ run' \notin {"new", "graph", "sort"}
              \/ run = "new" /\ run' = "graph"
  <2>1. Placed' = Placed /\ \A s : Dependencies(s)' = Dependencies(s)
    BY <1>3 DEF Placed, Dependencies
  <2> QED  BY <1>3, <2>1 DEF Base, Layers, Sorting, CyclesStayOut
<1>4. CASE InstantiateFails \/ SetCancel \/ RefuseOrder \/ LockGroups
           \/ CheckFailure \/ EndStartup \/ LaunchGroup \/ waitGroupReady
           \/ SelectDone \/ SelectError \/ Return
  <2>1. UNCHANGED <<graph, orderVars>>
    BY <1>4 DEF InstantiateFails, SetCancel, RefuseOrder, LockGroups,
       CheckFailure, EndStartup, LaunchGroup, waitGroupReady, SelectDone,
       SelectError, Return
  <2>2. \/ run' \notin {"new", "graph", "sort"}
        \/ run = "new" /\ run' = "graph"
    BY <1>4 DEF InstantiateFails, SetCancel, RefuseOrder, LockGroups,
       CheckFailure, EndStartup, LaunchGroup, waitGroupReady, SelectDone,
       SelectError, Return
  <2> QED  BY <1>3, <2>1, <2>2
<1>5. ASSUME NEW s \in Services, runService(s)
      PROVE  UNCHANGED <<graph, orderVars, run>>
  BY <1>5, ServiceFrame
<1>6. CASE \/ \E c \in Callers : Stop(c)
           \/ \E s \in Services : stopServiceWithTimeout(s)
  BY <1>3, <1>6, StopFrame
<1>7. CASE CancelParent \/ UNCHANGED vars
  BY <1>3, <1>7 DEF CancelParent, vars
<1> QED  BY <1>1, <1>2, <1>3, <1>4, <1>5, <1>6, <1>7 DEF Next, Run, Terminated

\* The startup moves on under its lock, and launches group after group.
LEMMA StartupStep ==
  ASSUME Base, [Next]_vars
  PROVE  Startup'
<1> USE DEF notRun, notServices, notStop, runVars, contextVars, orderVars,
            startVars, serviceVars, signalVars, stopVars
<1>0. /\ TypeOK /\ Startup /\ OnceOnly
      /\ next \in Nat /\ next >= 1 /\ Len(groups) \in Nat
      /\ lock \in {"free", "run", "stop"}
      /\ service \in [Services -> {"off", "running", "delay", "failing",
                                   "reported", "exited"}]
  BY DEF Base, TypeOK
<1>a. ASSUME UNCHANGED <<groups, startVars>>,
             (run = "await") <=> (run' = "await"),
             \A s \in Services : (service'[s] = "off") <=> (service[s] = "off"),
             run' \in {"new", "graph", "sort"} => next = 1,
             run' \in {"launch", "await"} => next <= Len(groups),
             (lock' = "run") <=> (run' \in {"check", "launch", "await"})
      PROVE  Startup'
  <2>1. Started' = Started
    BY <1>a DEF Started
  <2> QED  BY <1>0, <1>a, <2>1 DEF Startup
<1>1. CASE InstantiateFails \/ SetCancel \/ buildDepGraph \/ RefuseOrder
           \/ LockGroups \/ CheckFailure \/ EndStartup \/ SelectDone
           \/ SelectError \/ Return
  <2>1. UNCHANGED <<groups, startVars, service>>
    BY <1>1 DEF InstantiateFails, SetCancel, buildDepGraph, RefuseOrder,
       LockGroups, CheckFailure, EndStartup, SelectDone, SelectError, Return
  <2>2. /\ run # "await" /\ run' # "await"
        /\ run' \in {"new", "graph", "sort"} =>
             run \in {"new", "graph", "sort"}
        /\ run' = "launch" => next <= Len(groups)
        /\ (lock' = "run") <=> (run' \in {"check", "launch", "await"})
    BY <1>0, <1>1 DEF Startup, InstantiateFails, SetCancel, buildDepGraph,
       RefuseOrder, LockGroups, CheckFailure, EndStartup, SelectDone,
       SelectError, Return
  <2>3. run' \in {"new", "graph", "sort"} => next = 1
    BY <1>0, <2>2 DEF Startup
  <2> QED  BY <1>a, <2>1, <2>2, <2>3
<1>2. CASE topoSort
  <2>1. UNCHANGED <<startVars, service, lock, run>> /\ run = "sort"
    BY <1>2 DEF topoSort
  <2>2. next = 1 /\ Started = 0 /\ Started' = 0
    BY <1>0, <2>1 DEF Startup, Started
  <2>3. Len(groups') = Len(groups) + 1
    BY <1>0, <1>2, RoundPlaces
  <2>4. \A s \in Services : service[s] = "off"
    BY <1>0, <2>2 DEF Startup
  <2> QED  BY <1>0, <2>1, <2>2, <2>3, <2>4 DEF Startup
<1>3. CASE LaunchGroup
  <2>1. /\ UNCHANGED <<groups, startVars, lock>>
        /\ run = "launch" /\ run' = "await"
        /\ service' = [s \in Services |->
                         IF s \in groups[next] THEN "running" ELSE service[s]]
    BY <1>3 DEF LaunchGroup
  <2>2. Started = next - 1 /\ Started' = next /\ next <= Len(groups)
    BY <1>0, <2>1 DEF Startup, Started
  <2>3. \A i \in 1 .. Len(groups) : (i <= next) <=> (i <= next - 1 \/ i = next)
    BY <1>0
  <2>4. next \in 1 .. Len(groups)
    BY <1>0, <2>2
  <2>5. ASSUME NEW s \in Services
        PROVE  (service'[s] # "off") <=>
                 (\E i \in 1 .. Len(groups) : i <= next /\ s \in groups[i])
    BY <1>0, <2>1, <2>2, <2>3, <2>4 DEF Startup
  <2> QED  BY <1>0, <2>1, <2>2, <2>5 DEF Startup
<1>4. CASE waitGroupReady
  <2>1. /\ UNCHANGED <<groups, service, lock>>
        /\ run = "await" /\ run' = "check"
        /\ next' = next + 1 /\ listed' = next
    BY <1>4 DEF waitGroupReady
  <2>2. Started = next /\ Started' = next /\ next <= Len(groups)
    BY <1>0, <2>1 DEF Startup, Started
  <2> QED  BY <1>0, <2>1, <2>2 DEF Startup
<1>5. ASSUME NEW s \in Services, runService(s)
      PROVE  Startup'
  <2>1. UNCHANGED <<groups, startVars, run, lock>>
    BY <1>5, ServiceFrame
  <2>2. service[s] # "off" \/ service' = service
    BY <1>5 DEF runService, BecomeReady, ExitCleanly, FailQuietly,
       FailAndRetry, Retry, CancelDelay, FailForGood, handleServiceError,
       trigger, Exit
  <2>3. \/ service' = service
        \/ \E v \in {"running", "delay", "failing", "reported", "exited"} :
             service' = [service EXCEPT ![s] = v]
    BY <1>5 DEF runService, BecomeReady, ExitCleanly, FailQuietly,
       FailAndRetry, Retry, CancelDelay, FailForGood, handleServiceError,
       trigger, Exit
  <2>4. \A t \in Services : (service'[t] = "off") <=> (service[t] = "off")
    BY <1>0, <2>2, <2>3
  <2> QED  BY <1>0, <1>a, <2>1, <2>4 DEF Startup
<1>6. CASE \/ \E c \in Callers : Stop(c)
           \/ \E s \in Services : stopServiceWithTimeout(s)
  <2>1. UNCHANGED <<groups, startVars, run, service>>
    BY <1>6, StopFrame
  <2>2. (lock' = "run") <=> (lock = "run")
    BY <1>0, <1>6 DEF Stop, StopCancel, EnterOnce, SkipOnce, LockStop,
       stopGroup, FinishStop, stopServiceWithTimeout, OnceOnly
  <2> QED  BY <1>0, <1>a, <2>1, <2>2 DEF Startup
<1>7. CASE CancelParent \/ UNCHANGED vars
  <2>1. UNCHANGED <<groups, startVars, run, service, lock>>
    BY <1>7 DEF CancelParent, vars
  <2> QED  BY <1>0, <1>a, <2>1 DEF Startup
<1> QED  BY <1>1, <1>2, <1>3, <1>4, <1>5, <1>6, <1>7 DEF Next, Run, Terminated

\* One call passes stopOnce; the lock keeps the startup and its walk apart.
LEMMA OnceStep ==
  ASSUME Base, [Next]_vars
  PROVE  OnceOnly'
<1> USE DEF notRun, notServices, notStop, runVars, contextVars, orderVars,
            startVars, serviceVars, signalVars, stopVars
<1>0. /\ TypeOK /\ Startup /\ OnceOnly
      /\ lock \in {"free", "run", "stop"}
      /\ once \in {"free", "busy", "done"}
      /\ level \in Nat
      /\ stop \in [Callers -> {"idle", "once", "lock", "groups", "done"}]
  BY DEF Base, TypeOK
<1>a. ASSUME UNCHANGED stopVars,
             (lock' = "stop") <=> (lock = "stop"),
             run' = "returned" => next' = 1 \/ stop[Runner] = "done"
      PROVE  OnceOnly'
  BY <1>0, <1>a DEF OnceOnly
<1>1. CASE Run
  <2>1. UNCHANGED stopVars /\ ((lock' = "stop") <=> (lock = "stop"))
    BY <1>0, <1>1 DEF Run, InstantiateFails, SetCancel, buildDepGraph, topoSort,
       RefuseOrder, LockGroups, CheckFailure, EndStartup, LaunchGroup,
       waitGroupReady, SelectDone, SelectError, Return, Startup
  <2>2. run' = "returned" => next' = 1 \/ stop[Runner] = "done"
    BY <1>0, <1>1 DEF Run, InstantiateFails, SetCancel, buildDepGraph, topoSort,
       RefuseOrder, LockGroups, CheckFailure, EndStartup, LaunchGroup,
       waitGroupReady, SelectDone, SelectError, Return, Startup
  <2> QED  BY <1>a, <2>1, <2>2
<1>2. ASSUME NEW s \in Services, runService(s)
      PROVE  OnceOnly'
  BY <1>0, <1>2, <1>a, ServiceFrame DEF OnceOnly
<1>3. CASE CancelParent \/ UNCHANGED vars
  <2>1. UNCHANGED <<stopVars, lock, run, next>>
    BY <1>3 DEF CancelParent, vars
  <2> QED  BY <1>0, <1>a, <2>1 DEF OnceOnly
<1>4. ASSUME NEW s \in Services, stopServiceWithTimeout(s)
      PROVE  OnceOnly'
  <2>1. /\ UNCHANGED <<stop, once, level, stopped, lock, run, next>>
        /\ s \in stopping /\ stopping' = stopping \ {s}
    BY <1>4 DEF stopServiceWithTimeout
  <2>2. stopping = {} => stopping' = {}
    BY <2>1
  <2> QED  BY <1>0, <2>1, <2>2 DEF OnceOnly
<1>5. ASSUME NEW c \in Callers, Stop(c)
      PROVE  OnceOnly'
  <2>0. UNCHANGED <<run, next>>
    BY <1>5, StopFrame
  <2>1. CASE StopCancel(c)
    BY <1>0, <2>0, <2>1 DEF OnceOnly, StopCancel
  <2>2. CASE EnterOnce(c)
    BY <1>0, <2>0, <2>2 DEF OnceOnly, EnterOnce
  <2>3. CASE SkipOnce(c)
    BY <1>0, <2>0, <2>3 DEF OnceOnly, SkipOnce
  <2>4. CASE LockStop(c)
    BY <1>0, <2>0, <2>4 DEF OnceOnly, LockStop
  <2>5. CASE stopGroup(c)
    BY <1>0, <2>0, <2>5 DEF OnceOnly, stopGroup
  <2>6. CASE FinishStop(c)
    BY <1>0, <2>0, <2>6 DEF OnceOnly, FinishStop
  <2> QED  BY <1>5, <2>1, <2>2, <2>3, <2>4, <2>5, <2>6 DEF Stop
<1> QED  BY <1>1, <1>2, <1>3, <1>4, <1>5 DEF Next, Terminated

\* Types, order, startup and Stop keep one another.
THEOREM AlwaysBase == Spec => []Base
<1>1. Base /\ [Next]_vars => Base'
  BY TypeStep, OrderStep, StartupStep, OnceStep DEF Base
<1> QED  BY InitBase, <1>1, PTL DEF Spec

\* Every variable keeps its type, and Stop never walks past the last group.
THEOREM ManagerTypeCorrect == Spec => []TypeOK
BY AlwaysBase, PTL DEF Base

\* topoSort refuses exactly the graphs with a cycle: when its queue is empty,
\* what is left over is a set of services that wait for each other, and no such
\* service was ever placed.
THEOREM AlwaysOnlyCyclesAreRefused == Spec => []OnlyCyclesAreRefused
<1>1. Base => OnlyCyclesAreRefused
  <2> SUFFICES ASSUME Base, run = "sort", queue = {}
               PROVE  (Placed = Services) <=> ~HasCycle
    BY DEF OnlyCyclesAreRefused
  <2>1. \A s \in Services \ Placed : ~(Dependencies(s) \subseteq Placed)
    BY DEF Base, Sorting
  <2>2. \A s \in Services \ Placed :
          Dependencies(s) \cap (Services \ Placed) # {}
    BY <2>1 DEF Dependencies
  <2>3. Placed \subseteq Services
    BY DEF Placed
  <2>4. Placed # Services => HasCycle
    <3>1. Services \ Placed \in SUBSET Services
      OBVIOUS
    <3> QED  BY <2>2, <2>3, <3>1 DEF HasCycle
  <2>5. HasCycle => Placed # Services
    BY DEF HasCycle, Base, CyclesStayOut
  <2> QED  BY <2>4, <2>5
<1> QED  BY <1>1, AlwaysBase, PTL

-----------------------------------------------------------------------------
(***************************************************************************)
(* Readiness                                                               *)
(***************************************************************************)

\* What has settled stays so: a ready service stays ready, one that is gone is
\* not launched again, a context does not come back.
LEMMA SettledStays ==
  ASSUME Base, [Next]_vars, NEW n \in Int, n < next \/ run # "launch",
         Settled(n), UNCHANGED groups
  PROVE  Settled(n)'
<1> USE DEF notRun, notServices, notStop, runVars, contextVars, orderVars,
            startVars, serviceVars, signalVars, stopVars
<1>0. /\ TypeOK /\ Layers /\ Startup
      /\ next \in Nat /\ Len(groups) \in Nat
      /\ service \in [Services -> {"off", "running", "delay", "failing",
                                   "reported", "exited"}]
      /\ \A i \in 1 .. Len(groups) : groups[i] \subseteq Services
  BY DEF Base, TypeOK
<1>1. SUFFICES ASSUME ready \subseteq ready', ctxDone => ctxDone',
                      \A i \in 1 .. Len(groups) : i <= n =>
                        \A d \in groups[i] : Exited(d) => Exited(d)'
               PROVE  Settled(n)'
  <2>1. CASE LaunchGroup
    <3>1. /\ UNCHANGED <<ready, parentDone, cancelled>>
          /\ run = "launch"
          /\ service' = [s \in Services |->
                           IF s \in groups[next] THEN "running" ELSE service[s]]
      BY <2>1 DEF LaunchGroup
    <3>2. next \in 1 .. Len(groups)
      BY <1>0, <3>1 DEF Startup, Base, TypeOK
    <3>3. \A i \in 1 .. Len(groups) : i <= n => i # next
      BY <1>0, <3>1
    <3>4. \A i \in 1 .. Len(groups) : i <= n =>
            \A d \in groups[i] : d \in Services /\ d \notin groups[next]
      BY <1>0, <3>2, <3>3 DEF Layers
    <3> QED  BY <1>1, <3>1, <3>4 DEF ctxDone, Exited
  <2>2. ASSUME NEW s \in Services, runService(s)
        PROVE  /\ ready \subseteq ready' /\ (ctxDone => ctxDone')
               /\ \A d \in Services : Exited(d) => Exited(d)'
    <3>1. UNCHANGED <<parentDone, cancelled>>
      BY <2>2, ServiceFrame
    <3>2. ready \subseteq ready'
      BY <2>2 DEF runService, BecomeReady, ExitCleanly, FailQuietly,
         FailAndRetry, Retry, CancelDelay, FailForGood, handleServiceError,
         trigger, Exit
    <3>3. \/ service' = service
          \/ /\ service[s] # "exited"
             /\ \E v \in {"running", "delay", "failing", "reported", "exited"} :
                  service' = [service EXCEPT ![s] = v]
      BY <2>2 DEF runService, BecomeReady, ExitCleanly, FailQuietly,
         FailAndRetry, Retry, CancelDelay, FailForGood, handleServiceError,
         trigger, Exit
    <3>4. \A d \in Services : Exited(d) => Exited(d)'
      BY <1>0, <3>3 DEF Exited
    <3> QED  BY <3>1, <3>2, <3>4 DEF ctxDone
  <2>3. CASE \/ \E c \in Callers : Stop(c)
             \/ \E s \in Services : stopServiceWithTimeout(s)
    <3>1. UNCHANGED <<service, ready, parentDone>>
      BY <2>3, StopFrame
    <3>2. cancelled => cancelled'
      BY <2>3 DEF Stop, StopCancel, EnterOnce, SkipOnce, LockStop, stopGroup,
         FinishStop, stopServiceWithTimeout
    <3> QED  BY <1>1, <3>1, <3>2 DEF ctxDone, Exited
  <2>4. CASE CancelParent \/ UNCHANGED vars
    <3>1. UNCHANGED <<service, ready, cancelled>> /\ (parentDone => parentDone')
      BY <2>4 DEF CancelParent, vars
    <3> QED  BY <1>1, <3>1 DEF ctxDone, Exited
  <2>5. CASE Run /\ ~LaunchGroup
    <3>1. UNCHANGED <<service, ready, parentDone>> /\ (cancelled => cancelled')
      BY <2>5 DEF Run, InstantiateFails, SetCancel, buildDepGraph, topoSort,
         RefuseOrder, LockGroups, CheckFailure, EndStartup, waitGroupReady,
         SelectDone, SelectError, Return
    <3> QED  BY <1>1, <3>1 DEF ctxDone, Exited
  <2> QED  BY <1>0, <1>1, <2>1, <2>2, <2>3, <2>4, <2>5 DEF Next, Run, Terminated
<1> QED  BY <1>1 DEF Settled

\* The startup goes on only when the last group has settled.
LEMMA ReadinessStep ==
  ASSUME Base, Readiness, [Next]_vars
  PROVE  Readiness'
<1> USE DEF notRun, notServices, notStop, runVars, contextVars, orderVars,
            startVars, serviceVars, signalVars, stopVars
<1>0. /\ TypeOK /\ Startup
      /\ next \in Nat /\ next >= 1 /\ Len(groups) \in Nat
      /\ failure \in BOOLEAN
      /\ Started \in Int /\ next - 1 \in Int /\ Started - 1 \in Int
      /\ Started - 1 < next
  BY DEF Base, TypeOK, Started
<1>a. ASSUME UNCHANGED <<groups, next>>,
             (run = "await") <=> (run' = "await"),
             (run' = "launch" \/ (run' = "check" /\ ~failure')) =>
               Settled(next - 1)
      PROVE  Readiness'
  <2>1. Started' = Started
    BY <1>a DEF Started
  <2>2. Settled(Started - 1)'
    BY <1>0, <1>a, <2>1, SettledStays DEF Readiness
  <2>3. Settled(next - 1) => Settled(next - 1)'
    BY <1>0, <1>a, SettledStays
  <2> QED  BY <1>a, <2>1, <2>2, <2>3 DEF Readiness, Settled
<1>1. CASE InstantiateFails \/ SetCancel \/ buildDepGraph \/ RefuseOrder
           \/ EndStartup \/ SelectDone \/ SelectError \/ Return
  <2>1. /\ UNCHANGED <<groups, next>>
        /\ run # "await" /\ run' \notin {"await", "launch", "check"}
    BY <1>1 DEF InstantiateFails, SetCancel, buildDepGraph, RefuseOrder,
       EndStartup, SelectDone, SelectError, Return
  <2> QED  BY <1>a, <2>1
<1>2. CASE LockGroups
  <2>1. /\ UNCHANGED <<groups, next>>
        /\ run = "sort" /\ run' = "check"
    BY <1>2 DEF LockGroups
  <2>2. Settled(next - 1)
    BY <1>0, <2>1 DEF Startup, Settled
  <2> QED  BY <1>a, <2>1, <2>2
<1>3. CASE CheckFailure
  <2>1. /\ UNCHANGED <<groups, next>>
        /\ run = "check" /\ run' = "launch" /\ ~failure
    BY <1>3 DEF CheckFailure
  <2> QED  BY <1>a, <2>1 DEF Readiness
<1>4. CASE topoSort
  <2>1. run = "sort" /\ run' = "sort" /\ next' = next
    BY <1>4 DEF topoSort
  <2>2. next = 1 /\ Started' = 0
    BY <1>0, <2>1 DEF Startup, Started
  <2> QED  BY <2>1, <2>2 DEF Readiness, Settled
<1>5. CASE LaunchGroup
  <2>1. UNCHANGED <<groups, next>> /\ run = "launch" /\ run' = "await"
    BY <1>5 DEF LaunchGroup
  <2>2. Started' = next
    BY <2>1 DEF Started
  <2>3. Settled(next - 1)'
    BY <1>0, <2>1, SettledStays DEF Readiness
  <2> QED  BY <2>1, <2>2, <2>3 DEF Readiness, Settled
<1>6. CASE waitGroupReady
  <2>1. /\ UNCHANGED <<groups, service, ready, parentDone, cancelled, failure>>
        /\ run = "await" /\ run' = "check" /\ next' = next + 1
        /\ GroupSettled
    BY <1>6 DEF waitGroupReady
  <2>2. Started = next /\ Started' = next
    BY <1>0, <2>1 DEF Started
  <2>3. Settled(next - 1)
    BY <2>2 DEF Readiness
  <2>4. ~failure => Settled(next)
    <3>1. ~failure => \A d \in groups[next] \cap Notifies :
                        d \in ready \/ Exited(d) \/ ctxDone
      BY <2>1 DEF GroupSettled
    <3>2. \A i \in 1 .. Len(groups) : i <= next => i <= next - 1 \/ i = next
      BY <1>0
    <3> QED  BY <2>3, <3>1, <3>2 DEF Settled
  <2>5. next' - 1 = next
    BY <1>0, <2>1
  <2> QED  BY <2>1, <2>2, <2>3, <2>4, <2>5
           DEF Readiness, Settled, Exited, ctxDone
<1>7. ASSUME NEW s \in Services, runService(s)
      PROVE  Readiness'
  <2>1. UNCHANGED <<groups, next, run>>
    BY <1>7, ServiceFrame
  <2>2. failure => failure'
    BY <1>7 DEF runService, BecomeReady, ExitCleanly, FailQuietly,
       FailAndRetry, Retry, CancelDelay, FailForGood, handleServiceError,
       trigger, Exit
  <2> QED  BY <1>a, <2>1, <2>2 DEF Readiness
<1>8. CASE \/ \E c \in Callers : Stop(c)
           \/ \E s \in Services : stopServiceWithTimeout(s)
  <2>1. UNCHANGED <<groups, next, run, failure>>
    BY <1>8, StopFrame
  <2> QED  BY <1>a, <2>1 DEF Readiness
<1>9. CASE CancelParent \/ UNCHANGED vars
  <2>1. UNCHANGED <<groups, next, run, failure>>
    BY <1>9 DEF CancelParent, vars
  <2> QED  BY <1>a, <2>1 DEF Readiness
<1> QED  BY <1>1, <1>2, <1>3, <1>4, <1>5, <1>6, <1>7, <1>8, <1>9
         DEF Next, Run, Terminated

\* A service is launched after its dependencies, and not before those that
\* notify are ready or gone, unless the run context has ended.
THEOREM AlwaysDependenciesFirst == Spec => []DependenciesFirst
<1>1. Init => Readiness
  BY DEF Init, Readiness, Settled
<1>2. Base /\ Readiness /\ [Next]_vars => Readiness'
  BY ReadinessStep
<1>3. Base /\ Readiness => DependenciesFirst
  <2> SUFFICES ASSUME Base, Readiness, NEW s \in Services, service[s] # "off",
                      NEW d \in Dependencies(s)
               PROVE  /\ service[d] # "off"
                      /\ d \in Notifies => d \in ready \/ Exited(d) \/ ctxDone
    BY DEF DependenciesFirst
  <2>0. /\ next \in Nat /\ Len(groups) \in Nat /\ Started \in Int
        /\ d \in Services
    BY DEF Base, TypeOK, Started, Dependencies
  <2>1. PICK i \in 1 .. Len(groups) : i <= Started /\ s \in groups[i]
    BY DEF Base, Startup
  <2>2. PICK j \in 1 .. Len(groups) : j < i /\ d \in groups[j]
    BY <2>1 DEF Base, Layers
  <2>3. j <= Started /\ j <= Started - 1
    BY <2>0, <2>1, <2>2
  <2>4. service[d] # "off"
    BY <2>0, <2>2, <2>3 DEF Base, Startup
  <2> QED  BY <2>2, <2>3, <2>4 DEF Readiness, Settled
<1> QED  BY <1>1, <1>2, <1>3, AlwaysBase, PTL DEF Spec

-----------------------------------------------------------------------------
(***************************************************************************)
(* Failures and reasons                                                    *)
(***************************************************************************)

\* A group is launched once.
LEMMA LaunchedOnce ==
  ASSUME Base, LaunchGroup
  PROVE  \A s \in Services :
           /\ service'[s] = service[s] \/ service'[s] = "running"
           /\ service[s] # "off" => service'[s] = service[s]
<1>1. /\ run = "launch"
      /\ service' = [s \in Services |->
                       IF s \in groups[next] THEN "running" ELSE service[s]]
  BY DEF LaunchGroup
<1>2. next \in Nat /\ next >= 1 /\ next <= Len(groups) /\ Started = next - 1
      /\ next \in 1 .. Len(groups)
  BY <1>1 DEF Base, TypeOK, Startup, Started
<1>3. ASSUME NEW s \in Services, service[s] # "off"
      PROVE  s \notin groups[next]
  <2>1. PICK i \in 1 .. Len(groups) : i <= Started /\ s \in groups[i]
    BY <1>3 DEF Base, Startup
  <2>2. i # next
    BY <1>2, <2>1
  <2> QED  BY <1>2, <2>1, <2>2 DEF Base, Layers
<1> QED  BY <1>1, <1>3

\* What has failed for good stays so.
LEMMA FailedStays ==
  ASSUME Base, [Next]_vars, NEW s \in Services, Failed(s)
  PROVE  Failed(s)'
<1> USE DEF notRun, notServices, notStop, runVars, contextVars, orderVars,
            startVars, serviceVars, signalVars, stopVars
<1>0. /\ service \in [Services -> {"off", "running", "delay", "failing",
                                   "reported", "exited"}]
      /\ attempt \in [Services -> Nat]
  BY DEF Base, TypeOK
<1>a. ASSUME UNCHANGED attempt, service'[s] \in {"reported", "exited"}
      PROVE  Failed(s)'
  BY <1>a DEF Failed, Exhausted
<1>1. CASE LaunchGroup
  <2>1. service'[s] = service[s]
    BY <1>1, LaunchedOnce DEF Failed
  <2>2. UNCHANGED attempt
    BY <1>1 DEF LaunchGroup
  <2> QED  BY <1>a, <2>1, <2>2 DEF Failed
<1>2. ASSUME NEW t \in Services, runService(t)
      PROVE  Failed(s)'
  <2>1. /\ service[s] \in {"reported", "exited"}
        /\ attempt'[s] = attempt[s]
        /\ service'[s] \in {"reported", "exited"}
    BY <1>0, <1>2 DEF Failed, runService, BecomeReady, ExitCleanly,
       FailQuietly, FailAndRetry, Retry, CancelDelay, FailForGood,
       handleServiceError, trigger, Exit
  <2> QED  BY <2>1 DEF Failed, Exhausted
<1>3. CASE \/ \E c \in Callers : Stop(c)
           \/ \E t \in Services : stopServiceWithTimeout(t)
  BY <1>3, <1>a, StopFrame DEF Failed
<1>4. CASE CancelParent \/ UNCHANGED vars
  BY <1>4, <1>a DEF CancelParent, vars, Failed
<1>5. CASE Run /\ ~LaunchGroup
  <2>1. UNCHANGED <<service, attempt>>
    BY <1>5 DEF Run, InstantiateFails, SetCancel, buildDepGraph, topoSort,
       RefuseOrder, LockGroups, CheckFailure, EndStartup, waitGroupReady,
       SelectDone, SelectError, Return
  <2> QED  BY <1>a, <2>1 DEF Failed
<1> QED  BY <1>1, <1>2, <1>3, <1>4, <1>5 DEF Next, Run, Terminated

\* An error is sent before the signal, and taken only by Run at its end.
LEMMA ReportsStep ==
  ASSUME Base, Reports, [Next]_vars
  PROVE  Reports'
<1> USE DEF notRun, notServices, notStop, runVars, contextVars, orderVars,
            startVars, serviceVars, signalVars, stopVars
<1>0. /\ service \in [Services -> {"off", "running", "delay", "failing",
                                   "reported", "exited"}]
      /\ attempt \in [Services -> Nat]
  BY DEF Base, TypeOK
<1>1. (\E s \in Services : Failed(s)) => (\E s \in Services : Failed(s)')
  BY FailedStays
<1>2. CASE LaunchGroup
  <2>1. /\ UNCHANGED <<errCh, failure, result, attempt>>
        /\ run' \notin {"stop", "returned"} /\ run \notin {"stop", "returned"}
    BY <1>2 DEF LaunchGroup
  <2>2. \A s \in Services : service'[s] = service[s] \/ service'[s] = "running"
    BY <1>2, LaunchedOnce
  <2> QED  BY <1>1, <2>1, <2>2 DEF Reports, Exhausted
<1>3. CASE Run /\ ~LaunchGroup /\ ~SelectError
  <2>1. /\ UNCHANGED <<service, attempt, errCh, failure>>
        /\ result' = "failed" => result = "failed"
        /\ run \in {"stop", "returned"} => run' \in {"stop", "returned"}
    BY <1>3 DEF Run, InstantiateFails, SetCancel, buildDepGraph, topoSort,
       RefuseOrder, LockGroups, CheckFailure, EndStartup, waitGroupReady,
       SelectDone, Return
  <2> QED  BY <1>1, <2>1 DEF Reports, Exhausted
<1>4. CASE SelectError
  <2>1. /\ UNCHANGED <<service, attempt, failure>>
        /\ errCh /\ run' = "stop"
    BY <1>4 DEF SelectError
  <2> QED  BY <1>1, <2>1 DEF Reports, Exhausted
<1>5. ASSUME NEW t \in Services, runService(t)
      PROVE  Reports'
  <2>0. UNCHANGED <<run, result>>
    BY <1>5, ServiceFrame
  <2>1. CASE handleServiceError(t)
    <3>1. /\ service[t] = "failing" /\ service'[t] = "reported"
          /\ errCh' /\ UNCHANGED <<attempt, failure>>
          /\ \A s \in Services : s # t => service'[s] = service[s]
      BY <1>0, <2>1 DEF handleServiceError
    <3>2. t \notin Allowed /\ Exhausted(t)
      BY <3>1 DEF Reports
    <3>3. Failed(t)'
      BY <3>1, <3>2 DEF Failed, Exhausted
    <3> QED  BY <3>1, <3>2, <3>3 DEF Reports, Exhausted
  <2>2. CASE trigger(t)
    <3>1. /\ service[t] = "reported" /\ service'[t] = "exited"
          /\ UNCHANGED <<attempt, errCh>>
          /\ \A s \in Services : s # t => service'[s] = service[s]
      BY <1>0, <2>2 DEF trigger
    <3> QED  BY <1>1, <2>0, <3>1 DEF Reports, Exhausted
  <2>3. CASE FailForGood(t)
    <3>1. /\ service'[t] = "failing" /\ t \notin Allowed /\ Exhausted(t)
          /\ UNCHANGED <<attempt, errCh, failure>>
          /\ \A s \in Services : s # t => service'[s] = service[s]
      BY <1>0, <2>3 DEF FailForGood
    <3> QED  BY <1>1, <2>0, <3>1 DEF Reports, Exhausted
  <2>4. CASE ~handleServiceError(t) /\ ~trigger(t) /\ ~FailForGood(t)
    <3>1. /\ UNCHANGED <<errCh, failure>>
          /\ \A s \in Services : s # t => service'[s] = service[s]
                                          /\ attempt'[s] = attempt[s]
          /\ \/ service'[t] \notin {"failing", "reported"}
             \/ UNCHANGED <<service, attempt>>
      BY <1>0, <1>5, <2>4 DEF runService, BecomeReady, ExitCleanly,
         FailQuietly, FailAndRetry, Retry, CancelDelay, Exit
    <3> QED  BY <1>1, <2>0, <3>1 DEF Reports, Exhausted
  <2> QED  BY <2>1, <2>2, <2>3, <2>4
<1>6. CASE \/ \E c \in Callers : Stop(c)
           \/ \E t \in Services : stopServiceWithTimeout(t)
  BY <1>1, <1>6, StopFrame DEF Reports, Exhausted
<1>7. CASE CancelParent \/ UNCHANGED vars
  <2>1. UNCHANGED <<service, attempt, errCh, failure, run, result>>
    BY <1>7 DEF CancelParent, vars
  <2> QED  BY <1>1, <2>1 DEF Reports, Exhausted
<1> QED  BY <1>2, <1>3, <1>4, <1>5, <1>6, <1>7 DEF Next, Run, Terminated

\* Run is at its end when it stops, and the context ends for a reason.
LEMMA CausesStep ==
  ASSUME Base, Causes, [Next]_vars
  PROVE  Causes'
<1> USE DEF notRun, notServices, notStop, runVars, contextVars, orderVars,
            startVars, serviceVars, signalVars, stopVars
<1>0. /\ stop \in [Callers -> {"idle", "once", "lock", "groups", "done"}]
      /\ Runner \in Callers /\ Stoppers \subseteq Callers
      /\ Callers = Stoppers \cup {Runner}
  BY DEF Base, TypeOK, Callers
<1>1. CASE SelectDone
  <2>1. /\ run = "select" /\ run' = "stop" /\ ctxDone
        /\ UNCHANGED <<stop, parentDone, cancelled>>
    BY <1>1 DEF SelectDone
  <2>2. stop[Runner] = "idle"
    BY <2>1 DEF Causes
  <2>3. parentDone \/ \E c \in Stoppers : stop[c] # "idle"
    BY <1>0, <2>1, <2>2 DEF Causes, ctxDone
  <2> QED  BY <2>1, <2>3 DEF Causes
<1>2. CASE Run /\ ~SelectDone
  <2>1. /\ UNCHANGED <<stop, parentDone>>
        /\ run \in {"stop", "returned"} => run' \in {"stop", "returned"}
        /\ cancelled' = cancelled \/ run' = "returned"
        /\ run = "returned" => run' = "returned"
        /\ result' = "ok" => result = "ok"
    BY <1>2 DEF Run, InstantiateFails, SetCancel, buildDepGraph, topoSort,
       RefuseOrder, LockGroups, CheckFailure, EndStartup, LaunchGroup,
       waitGroupReady, SelectError, Return
  <2> QED  BY <2>1 DEF Causes
<1>3. ASSUME NEW t \in Services, runService(t)
      PROVE  Causes'
  BY <1>3, ServiceFrame DEF Causes
<1>4. ASSUME NEW c \in Callers, Stop(c)
      PROVE  Causes'
  <2>1. UNCHANGED <<run, result, parentDone>>
    BY <1>4, StopFrame
  <2>2. /\ stop'[c] # "idle"
        /\ \A d \in Callers : stop[d] # "idle" => stop'[d] # "idle"
        /\ \A d \in Callers : d # c => stop'[d] = stop[d]
        /\ c = Runner => run = "stop" \/ stop[c] # "idle"
    BY <1>0, <1>4 DEF Stop, StopCancel, EnterOnce, SkipOnce, LockStop,
       stopGroup, FinishStop
  <2> QED  BY <1>0, <2>1, <2>2 DEF Causes
<1>5. ASSUME NEW t \in Services, stopServiceWithTimeout(t)
      PROVE  Causes'
  BY <1>5 DEF stopServiceWithTimeout, Causes
<1>6. CASE CancelParent \/ UNCHANGED vars
  <2>1. /\ UNCHANGED <<run, result, stop, cancelled>>
        /\ parentDone => parentDone'
    BY <1>6 DEF CancelParent, vars
  <2> QED  BY <2>1 DEF Causes
<1> QED  BY <1>1, <1>2, <1>3, <1>4, <1>5, <1>6 DEF Next, Run, Terminated

\* When a failure has ended the startup, Run finds an error to return.
THEOREM AlwaysFailureIsFound == Spec => []FailureIsFound
<1>1. Init => Reports
  BY DEF Init, Reports
<1>2. Base /\ Reports /\ [Next]_vars => Reports'
  BY ReportsStep
<1>3. Reports => FailureIsFound
  BY DEF Reports, FailureIsFound
<1> QED  BY <1>1, <1>2, <1>3, AlwaysBase, PTL DEF Spec

\* Run returns nil only when it was told to end, and a failure only when a
\* service whose failure is not allowed has used up its attempts.
THEOREM AlwaysRunTellsWhy == Spec => []RunTellsWhy
<1>1. Init => Reports /\ Causes
  BY DEF Init, Reports, Causes, Callers
<1>2. Base /\ Reports /\ [Next]_vars => Reports'
  BY ReportsStep
<1>3. Base /\ Causes /\ [Next]_vars => Causes'
  BY CausesStep
<1>4. Reports /\ Causes => RunTellsWhy
  BY DEF Reports, Causes, RunTellsWhy, Failed, Exhausted
<1> QED  BY <1>1, <1>2, <1>3, <1>4, AlwaysBase, PTL DEF Spec

-----------------------------------------------------------------------------
(***************************************************************************)
(* The walk of Stop                                                        *)
(***************************************************************************)

\* The walk goes down from the last launched group.
LEMMA WalkStep ==
  ASSUME Base, Causes, Walk, OwnWalk, [Next]_vars
  PROVE  Walk' /\ OwnWalk'
<1> USE DEF notRun, notServices, notStop, runVars, contextVars, orderVars,
            startVars, serviceVars, signalVars, stopVars
<1>0. /\ TypeOK /\ Startup /\ OnceOnly
      /\ level \in Nat /\ listed \in Nat /\ Len(groups) \in Nat
      /\ level <= Len(groups) /\ listed <= Len(groups)
      /\ stop \in [Callers -> {"idle", "once", "lock", "groups", "done"}]
      /\ Runner \in Callers /\ Stoppers \subseteq Callers
      /\ Callers = Stoppers \cup {Runner}
  BY DEF Base, TypeOK, Callers
<1>a. ASSUME UNCHANGED <<groups, listed, stopVars>>,
             run \in {"select", "stop", "returned"} =>
               run' \in {"select", "stop", "returned"}
      PROVE  Walk' /\ OwnWalk'
  BY <1>a DEF Walk, OwnWalk
<1>1. CASE topoSort \/ waitGroupReady
  <2>1. /\ UNCHANGED stopVars
        /\ run \notin {"select", "stop", "returned"}
    BY <1>1 DEF topoSort, waitGroupReady
  <2>2. level = 0 /\ stopped = {} /\ stopping = {} /\ stop[Runner] = "idle"
    BY <1>0, <2>1 DEF Walk, Causes
  <2>3. listed' \in Nat
    BY <1>0, <1>1 DEF topoSort, waitGroupReady, Base, TypeOK
  <2> QED  BY <2>1, <2>2, <2>3 DEF Walk, OwnWalk
<1>2. CASE Run /\ ~topoSort /\ ~waitGroupReady
  <2>1. /\ UNCHANGED <<groups, listed, stopVars>>
        /\ run \in {"select", "stop", "returned"} =>
             run' \in {"select", "stop", "returned"}
    BY <1>2 DEF Run, InstantiateFails, SetCancel, buildDepGraph, RefuseOrder,
       LockGroups, CheckFailure, EndStartup, LaunchGroup, SelectDone,
       SelectError, Return
  <2> QED  BY <1>a, <2>1
<1>3. ASSUME NEW s \in Services, runService(s)
      PROVE  Walk' /\ OwnWalk'
  BY <1>3, <1>a, ServiceFrame
<1>4. CASE CancelParent \/ UNCHANGED vars
  BY <1>4, <1>a DEF CancelParent, vars
<1>5. ASSUME NEW s \in Services, stopServiceWithTimeout(s)
      PROVE  Walk' /\ OwnWalk'
  <2>1. /\ UNCHANGED <<run, groups, listed, stop, level, stopped>>
        /\ stopping' \subseteq stopping
    BY <1>5 DEF stopServiceWithTimeout
  <2> QED  BY <2>1 DEF Walk, OwnWalk
<1>6. ASSUME NEW c \in Callers, Stop(c)
      PROVE  Walk' /\ OwnWalk'
  <2>0. UNCHANGED <<run, groups, listed>>
    BY <1>6, StopFrame
  <2>1. CASE StopCancel(c) \/ EnterOnce(c)
    <3>1. /\ UNCHANGED <<level, stopping, stopped>>
          /\ stop' = [stop EXCEPT ![c] = "once"]
             \/ stop' = [stop EXCEPT ![c] = "lock"]
      BY <2>1 DEF StopCancel, EnterOnce
    <3>2. Walk'
      BY <2>0, <3>1 DEF Walk
    <3>3. OwnWalk'
      BY <1>0, <2>0, <3>1 DEF OwnWalk
    <3> QED  BY <3>2, <3>3
  <2>2. CASE SkipOnce(c)
    <3>1. /\ UNCHANGED <<level, stopping, stopped>>
          /\ stop[c] = "once" /\ once = "done"
          /\ stop' = [stop EXCEPT ![c] = "done"]
      BY <2>2 DEF SkipOnce
    <3>2. Walk'
      BY <2>0, <3>1 DEF Walk
    <3>3. PICK d \in Callers : stop[d] = "done"
      BY <1>0, <3>1 DEF OnceOnly
    <3>4. d # c /\ stop'[d] = "done"
      BY <1>0, <3>1, <3>3
    <3>5. OwnWalk'
      BY <1>0, <2>0, <3>1, <3>3, <3>4 DEF OwnWalk
    <3> QED  BY <3>2, <3>5
  <2>3. CASE LockStop(c)
    <3>1. /\ stop[c] = "lock" /\ lock = "free" /\ level' = listed
          /\ UNCHANGED <<stopping, stopped>>
      BY <2>3 DEF LockStop
    <3>2. stopped = {} /\ stopping = {}
      BY <1>0, <3>1 DEF OnceOnly
    <3>3. listed > 0 => run \in {"select", "stop", "returned"}
      BY <1>0, <3>1 DEF Startup, TypeOK
    <3>4. Walk'
      BY <1>0, <2>0, <3>1, <3>2, <3>3 DEF Walk
    <3>5. OwnWalk'
      BY <1>0, <2>0, <3>1 DEF OwnWalk
    <3> QED  BY <3>4, <3>5
  <2>4. CASE stopGroup(c)
    <3>1. /\ level > 0 /\ level' = level - 1
          /\ stopping' = groups[level]
          /\ stopped' = stopped \cup groups[level]
          /\ UNCHANGED stop
      BY <2>4 DEF stopGroup
    <3>2. level \in 1 .. Len(groups) /\ level <= listed /\ level' + 1 = level
      BY <1>0, <3>1 DEF Walk
    <3>3. run \in {"select", "stop", "returned"}
      BY <3>1 DEF Walk
    <3>4. \A i \in 1 .. Len(groups) :
            level' < i /\ i <= listed => groups[i] \subseteq stopped'
      <4>1. \A i \in 1 .. Len(groups) : level' < i => level < i \/ i = level
        BY <1>0, <3>1
      <4> QED  BY <3>1, <4>1 DEF Walk
    <3>5. \A s \in stopped' :
            \E i \in 1 .. Len(groups) :
              level' < i /\ i <= listed /\ s \in groups[i]
      <4>1. \A i \in 1 .. Len(groups) : level < i => level' < i
        BY <1>0, <3>1
      <4>2. level' < level
        BY <1>0, <3>1
      <4> QED  BY <3>1, <3>2, <4>1, <4>2 DEF Walk
    <3>6. level' <= listed
      BY <1>0, <3>1, <3>2
    <3>7. Walk'
      BY <2>0, <3>1, <3>2, <3>3, <3>4, <3>5, <3>6 DEF Walk
    <3>8. OwnWalk'
      BY <2>0, <3>4 DEF OwnWalk
    <3> QED  BY <3>7, <3>8
  <2>5. CASE FinishStop(c)
    <3>1. /\ UNCHANGED <<level, stopping, stopped>>
          /\ stop[c] = "groups"
          /\ stop' = [stop EXCEPT ![c] = "done"]
      BY <2>5 DEF FinishStop
    <3>2. Walk'
      BY <2>0, <3>1 DEF Walk
    <3>3. OwnWalk'
      BY <1>0, <2>0, <3>1, ServicesAssumption DEF OwnWalk
    <3> QED  BY <3>2, <3>3
  <2> QED  BY <1>6, <2>1, <2>2, <2>3, <2>4, <2>5 DEF Stop
<1> QED  BY <1>1, <1>2, <1>3, <1>4, <1>5, <1>6 DEF Next, Run, Terminated

\* The state of Stop, in every reachable state.
LEMMA AlwaysWalk == Spec => [](Base /\ Walk /\ OwnWalk)
<1>1. Init => Causes /\ Walk /\ OwnWalk
  BY DEF Init, Causes, Walk, OwnWalk, Callers
<1>2. Base /\ Causes /\ [Next]_vars => Causes'
  BY CausesStep
<1>3. Base /\ Causes /\ Walk /\ OwnWalk /\ [Next]_vars => Walk' /\ OwnWalk'
  BY WalkStep
<1> QED  BY <1>1, <1>2, <1>3, AlwaysBase, PTL DEF Spec

\* Stop of a service is called only when Stop of everything launched that
\* depends on it is over, whoever calls Stop and whenever.
THEOREM AlwaysStopsInReverse == Spec => []StopsInReverse
<1>1. Base /\ Walk => StopsInReverse
  <2> SUFFICES ASSUME Base, Walk, NEW d \in stopped, NEW s \in Services,
                      d \in Dependencies(s), service[s] # "off"
               PROVE  s \in stopped \ stopping
    BY DEF StopsInReverse
  <2>0. /\ level \in Nat /\ listed \in Nat /\ next \in Nat
        /\ Len(groups) \in Nat
    BY DEF Base, TypeOK
  <2>1. Started = listed
    BY DEF Base, Startup, Started, Walk
  <2>2. PICK i \in 1 .. Len(groups) : i <= listed /\ s \in groups[i]
    BY <2>1 DEF Base, Startup
  <2>3. PICK k \in 1 .. Len(groups) : k < i /\ d \in groups[k]
    BY <2>2 DEF Base, Layers
  <2>4. PICK j \in 1 .. Len(groups) : level < j /\ d \in groups[j]
    BY DEF Walk
  <2>5. j = k
    BY <2>3, <2>4 DEF Base, Layers
  <2>6. level < i /\ i # level + 1
    BY <2>0, <2>3, <2>4, <2>5
  <2>7. s \in stopped
    BY <2>2, <2>6 DEF Walk
  <2>8. s \notin stopping
    BY <2>2, <2>6 DEF Walk, Base, Layers
  <2> QED  BY <2>7, <2>8
<1> QED  BY <1>1, AlwaysWalk, PTL

\* When nobody else calls Stop, everything that was launched has had its Stop
\* called when Run returns.
THEOREM AlwaysLaunchedIsStopped == Spec => []LaunchedIsStopped
<1>1. Base /\ OwnWalk => LaunchedIsStopped
  <2> SUFFICES ASSUME Base, OwnWalk, run = "returned",
                      \A c \in Stoppers : stop[c] = "idle",
                      NEW s \in Services, service[s] # "off"
               PROVE  s \in stopped
    BY DEF LaunchedIsStopped
  <2>0. /\ level \in Nat /\ listed \in Nat /\ next \in Nat
        /\ Len(groups) \in Nat
        /\ lock \in {"free", "run", "stop"} /\ Runner \in Callers
    BY DEF Base, TypeOK, Callers
  <2>1. Started = listed /\ listed = next - 1
    BY DEF Base, Startup, Started
  <2>2. PICK i \in 1 .. Len(groups) : i <= listed /\ s \in groups[i]
    BY <2>1 DEF Base, Startup
  <2>3. next # 1
    BY <2>0, <2>1, <2>2
  <2>4. stop[Runner] = "done" /\ once = "done"
    BY <2>0, <2>3 DEF Base, OnceOnly
  <2>5. level = 0
    BY <2>4 DEF Base, OnceOnly
  <2>6. level < i
    BY <2>5
  <2> QED  BY <2>2, <2>4, <2>6 DEF OwnWalk
<1> QED  BY <1>1, AlwaysWalk, PTL

=============================================================================
