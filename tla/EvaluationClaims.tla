-------------------------- MODULE EvaluationClaims --------------------------
(***************************************************************************)
(* Statements of the documentation and of comments about the evaluation    *)
(* core that the code does not keep.  Each is the only property of a run   *)
(* that TLC is expected to refute; the README says what each trace shows.  *)
(***************************************************************************)
EXTENDS Evaluations

\* docs/api.md: "Same key, same request: the original evaluation is returned.
\* The provider is not called again."  A call whose key is live for the very
\* same request is answered with the original; it is not failed.
SameRequestIsReplayed ==
    \A r \in Requests :
      pc[r] = "duplicate" =>
        ~ \E k \in idempotency :
            /\ k.key = input[r].key
            /\ k.hash = CanonicalHash(input[r])
            /\ ~Expired(k, now)

\* idempotency.go, in replay, about a key whose evaluation is gone: "Treat the
\* key as unused rather than failing a request that can simply be evaluated
\* again"; an expired key is treated alike.  A call that replay let pass
\* although it read a record of its key does not fail on that same record.
StaleKeyIsUnused ==
    \A r \in Requests :
      pc[r] = "duplicate" /\ lookup[r] # None => lookup[r] \notin idempotency

\* docs/api.md: "feedback is a separate row pointing at it", and retention.go:
\* deleting feedback by its own age "would leave those rows pointing at
\* evaluations that are already gone".  Feedback never outlives its decision.
FeedbackPointsAtItsEvaluation ==
    \A g \in feedback : \E e \in evaluations : e.id = g.evaluationID

=============================================================================
