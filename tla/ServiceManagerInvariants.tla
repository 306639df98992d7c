---------------------- MODULE ServiceManagerInvariants ----------------------
(***************************************************************************)
(* The inductive invariants behind the safety properties of                *)
(* ServiceManager: what the sort, the startup, the services and the        *)
(* once-only Stop owe one another between two steps.                       *)
(***************************************************************************)
EXTENDS ServiceManager

\* The groups are disjoint and each rests on earlier ones.
Layers ==
    /\ \A i, j \in 1 .. Len(groups) : i # j => groups[i] \cap groups[j] = {}
    /\ \A i \in 1 .. Len(groups) : \A s \in groups[i] :
         \A d \in Dependencies(s) :
           \E j \in 1 .. Len(groups) : j < i /\ d \in groups[j]

\* What the sort knows: how many dependencies of each service are not placed,
\* and which services may be placed next.
Sorting ==
    /\ run \in {"new", "graph"} => groups = <<>>
    /\ run = "sort" =>
         /\ \A s \in Services :
              inDegree[s] = Cardinality(Dependencies(s) \ Placed)
         /\ queue = {s \in Services \ Placed : Dependencies(s) \subseteq Placed}

\* No service of a cycle is ever placed.
CyclesStayOut ==
    \A cycle \in SUBSET Services :
      (\A s \in cycle : Dependencies(s) \cap cycle # {}) =>
        cycle \cap Placed = {}

-----------------------------------------------------------------------------

\* The number of groups that were launched.
Started == IF run = "await" THEN next ELSE next - 1

\* Where the startup is, who holds its lock, and what it has launched.
Startup ==
    /\ next - 1 <= Len(groups)
    /\ listed = next - 1
    /\ run \in {"new", "graph", "sort"} => next = 1
    /\ run \in {"launch", "await"} => next <= Len(groups)
    /\ (lock = "run") <=> (run \in {"check", "launch", "await"})
    /\ \A s \in Services :
         (service[s] # "off") <=>
           (\E i \in 1 .. Len(groups) : i <= Started /\ s \in groups[i])

\* The notifying services of the groups up to n are ready or gone, or the
\* context is.
Settled(n) ==
    \A i \in 1 .. Len(groups) : i <= n =>
      \A d \in groups[i] \cap Notifies : d \in ready \/ Exited(d) \/ ctxDone

\* What was launched last may be waited for; everything before it has settled.
Readiness ==
    /\ Settled(Started - 1)
    /\ (run = "launch" \/ (run = "check" /\ ~failure)) => Settled(next - 1)

-----------------------------------------------------------------------------

\* s has failed for good, and may have been reported.
Failed(s) ==
    /\ s \notin Allowed
    /\ Exhausted(s)
    /\ service[s] \in {"reported", "exited"}

\* A report leaves an error for Run, and comes from a failure that counts.
Reports ==
    /\ (failure \/ \E s \in Services : service[s] = "reported") =>
         errCh \/ run \in {"stop", "returned"}
    /\ \A s \in Services :
         service[s] \in {"failing", "reported"} =>
           s \notin Allowed /\ Exhausted(s)
    /\ errCh \/ result = "failed" => \E s \in Services : Failed(s)

\* The run context ends with its parent, by a Stop, or when Run returns.
Causes ==
    /\ stop[Runner] # "idle" => run \in {"stop", "returned"}
    /\ cancelled => run = "returned" \/ \E c \in Callers : stop[c] # "idle"
    /\ result = "ok" => parentDone \/ \E c \in Stoppers : stop[c] # "idle"

-----------------------------------------------------------------------------

\* One call runs the body of stopOnce, and holds the lock while it walks.
OnceOnly ==
    /\ \A c \in Callers : stop[c] \in {"lock", "groups"} => once = "busy"
    /\ \A c, d \in Callers :
         /\ stop[c] \in {"lock", "groups"}
         /\ stop[d] \in {"lock", "groups"}
         => c = d
    /\ (lock = "stop") <=> (\E c \in Callers : stop[c] = "groups")
    /\ lock # "stop" => level = 0 /\ stopping = {}
    /\ (once = "free" \/ \E c \in Callers : stop[c] = "lock") => stopped = {}
    /\ once = "done" => \E c \in Callers : stop[c] = "done"
    /\ run = "returned" => next = 1 \/ stop[Runner] = "done"
    /\ \A c \in Callers : stop[c] = "done" => once = "done"

\* The walk goes down from the last launched group: what is above it is
\* stopped, and only the group just above may still be stopping.
Walk ==
    /\ level <= listed /\ stopping \subseteq stopped
    /\ level > 0 \/ stopped # {} => run \in {"select", "stop", "returned"}
    /\ level > 0 \/ stopped # {} =>
         \A i \in 1 .. Len(groups) :
           level < i /\ i <= listed => groups[i] \subseteq stopped
    /\ \A s \in stopped :
         \E i \in 1 .. Len(groups) : level < i /\ i <= listed /\ s \in groups[i]
    /\ \A s \in stopping :
         \E i \in 1 .. Len(groups) : i = level + 1 /\ s \in groups[i]

\* When nobody else calls Stop, the walk of Run starts at the last group.
OwnWalk ==
    (\A c \in Stoppers : stop[c] = "idle") =>
      (stop[Runner] \in {"groups", "done"} =>
         \A i \in 1 .. Len(groups) :
           level < i /\ i <= listed => groups[i] \subseteq stopped)

=============================================================================
