--------------------------- MODULE AuditLogProofs ---------------------------
(***************************************************************************)
(* Evaluations implements AuditLog: its initial states map to initial      *)
(* states of the log, a commit maps to Record, the delete of a retention   *)
(* pass to Retire or, when another process was faster, to a stutter, the   *)
(* clock to Tick, and every other step to a stutter.                       *)
(***************************************************************************)
EXTENDS EvaluationsProofs

\* Which steps move the clock.
LEMMA ClockTicks ==
  ASSUME [Next]_vars
  PROVE  UNCHANGED now \/ Tick
<1>1. CASE \E r \in Requests : Create(r)
  BY <1>1
  DEF Create, Receive, Refuse, ReplayMiss, ReplayFound, ReplayGet,
      EnsureSnapshot, Decide, ProviderAnswers, ProviderFails, Persist,
      PersistDuplicate, Respond, Interrupt
<1>2. CASE \E f \in Submissions : Submit(f)
  BY <1>2 DEF Submit, SubmitFeedback, CreateFeedback, InterruptFeedback
<1>3. CASE \E c \in Cleaners : Clean(c)
  BY <1>3
  DEF Clean, StartPass, ExpireIdempotency, FindExpired, DeleteFeedback,
      DeleteEvaluations, InterruptPass
<1> QED  BY <1>1, <1>2, <1>3 DEF Next, Redeploy, vars

\* A commit is the record of a new decision.
LEMMA PersistRecords ==
  ASSUME Inductive, NEW r \in Requests, Persist(r)
  PROVE  Audit!Record
<1>1. /\ pc[r] = "persist"
      /\ evaluations' = evaluations \cup {record[r]}
      /\ journal' = journal \cup {[row |-> record[r], grant |-> Grant(r)]}
      /\ UNCHANGED now
  BY DEF Persist, Goto
<1>2. /\ record[r] \in Rows
      /\ record[r].id = r
      /\ record[r].createdAt <= now
  BY <1>1 DEF Inductive, Shape, CallShape, HasRow, OwnRows
<1>3. \A j \in journal : j.row.id # r
  BY <1>1 DEF Inductive, JournalRows
<1>4. \A e \in evaluations : e.id # r
  BY <1>3 DEF Inductive, TableRows
<1>5. {j.row.id : j \in journal'} = {j.row.id : j \in journal} \cup {r}
  <2>1. PICK new : journal' = journal \cup {new} /\ new.row = record[r]
    <3> WITNESS [row |-> record[r], grant |-> Grant(r)]
    <3> QED  BY <1>1
  <2> QED  BY <1>2, <2>1
<1>6. {e.id : e \in evaluations'} = {e.id : e \in evaluations} \cup {r}
  BY <1>1, <1>2
<1>7. Retired' = Retired
  BY <1>3, <1>5, <1>6 DEF Retired
<1>8. record[r].id \notin Audit!IDs(evaluations) \cup Retired
  BY <1>2, <1>3, <1>4 DEF Audit!IDs, Retired
<1>9. record[r] \in evaluations' \ evaluations
  BY <1>1, <1>2, <1>4
<1> QED  BY <1>1, <1>2, <1>7, <1>8, <1>9 DEF Audit!Record

\* The delete of a pass retires decisions whose window is over, or none.
LEMMA DeleteRetires ==
  ASSUME Inductive, NEW c \in Cleaners, DeleteEvaluations(c)
  PROVE  Audit!Retire \/ UNCHANGED <<evaluations, Retired, now>>
<1> DEFINE old == {e \in evaluations : e.id \in pass[c].batch}
<1>1. /\ evaluations' = evaluations \ old
      /\ UNCHANGED <<now, journal>>
  BY DEF DeleteEvaluations
<1>2. CASE old = {}
  <2>1. evaluations' = evaluations
    BY <1>1, <1>2
  <2> QED  BY <1>1, <2>1 DEF Retired
<1>3. CASE old # {}
  <2>1. ASSUME NEW e \in old
        PROVE  /\ EvaluationRetention > 0
               /\ e.createdAt + EvaluationRetention < now
               /\ e.id \in {j.row.id : j \in journal}
    <3>1. PICK j \in journal : j.row = e
      BY DEF Inductive, TableRows
    <3>2. /\ EvaluationRetention > 0
          /\ Aged(j.row, pass[c].now)
          /\ pass[c].now <= now
      BY <3>1 DEF Inductive, Passes, AgedIDs
    <3>3. /\ now \in Nat /\ pass[c].now \in Nat
          /\ e.createdAt \in Nat
      BY DEF Inductive, Shape, TypeOK, Rows
    <3> QED  BY <3>1, <3>2, <3>3, ConstantsAssumption DEF Aged
  <2>2. Retired' = Retired \cup Audit!IDs(old)
    <3>1. \A e \in evaluations' : e.id \notin Audit!IDs(old)
      BY <1>1 DEF Audit!IDs
    <3>2. {e.id : e \in evaluations} =
            {e.id : e \in evaluations'} \cup Audit!IDs(old)
      BY <1>1 DEF Audit!IDs
    <3>3. Audit!IDs(old) \subseteq {j.row.id : j \in journal}
      BY <2>1 DEF Audit!IDs
    <3>4. {e.id : e \in evaluations'} \cap Audit!IDs(old) = {}
      BY <3>1
    <3> HIDE DEF old
    <3> QED  BY <1>1, <3>2, <3>3, <3>4 DEF Retired
  <2>3. old \in SUBSET evaluations
    OBVIOUS
  <2> HIDE DEF old
  <2>4. PICK e \in old : TRUE
    BY <1>3
  <2> QED  BY <1>1, <1>3, <2>1, <2>2, <2>3, <2>4 DEF Audit!Retire
<1> QED  BY <1>2, <1>3

\* The evaluations table, under any interleaving of calls, failures and
\* retention passes of any number of processes, is an audit log.
THEOREM TableImplementsAuditLog == Spec => ImplementsAuditLog
<1>1. Init => Audit!Init
  BY DEF Init, Audit!Init, Retired
<1>2. Inductive /\ [Next]_vars => [Audit!Next]_(Audit!vars)
  <2> SUFFICES ASSUME Inductive, [Next]_vars
               PROVE  Audit!Next \/ UNCHANGED <<evaluations, Retired, now>>
    BY DEF Audit!vars
  <2>1. CASE \E r \in Requests : Persist(r)
    BY <2>1, PersistRecords DEF Audit!Next
  <2>2. CASE \E c \in Cleaners : DeleteEvaluations(c)
    BY <2>2, DeleteRetires DEF Audit!Next
  <2>3. CASE UNCHANGED <<journal, evaluations>>
    <3>1. Retired' = Retired
      BY <2>3 DEF Retired
    <3>2. CASE UNCHANGED now
      BY <2>3, <3>1, <3>2
    <3>3. CASE Tick
      BY <2>3, <3>1, <3>3 DEF Tick, Audit!Next, Audit!Tick
    <3> QED  BY <3>2, <3>3, ClockTicks
  <2>4. UNCHANGED journal \/ \E r \in Requests : Persist(r)
    BY Writers
  <2>5. \/ UNCHANGED evaluations
        \/ \E r \in Requests : Persist(r)
        \/ \E c \in Cleaners : DeleteEvaluations(c)
    BY Writers
  <2> QED  BY <2>1, <2>2, <2>3, <2>4, <2>5
<1> QED
  BY <1>1, <1>2, AlwaysInductive, PTL DEF Spec, Audit!Spec, ImplementsAuditLog

=============================================================================
