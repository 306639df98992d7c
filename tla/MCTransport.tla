---------------------------- MODULE MCTransport ----------------------------
(***************************************************************************)
(* Small instances of Transport for TLC.                                   *)
(***************************************************************************)
EXTENDS Transport, TLC

CONSTANTS w, o, x

Good(surface, op, body) ==
    [surface |-> surface, op |-> op, bound |-> TRUE, token |-> "right",
     body |-> body]

ListCall == Good("api", "ListEvaluations", "none")
CreateCall == Good("api", "CreateEvaluation", "good")
EvaluateCall == Good("mcp", "CreateEvaluation", "good")

PolicyCalls ==
    {Good("api", "ListPolicies", "none"), Good("mcp", "ListPolicies", "good")}

\* Every other operation of every surface, and every way to be refused.
MixedCalls ==
    {ListCall,
     Good("api", "GetEvaluation", "none"),
     Good("api", "SubmitFeedback", "good"),
     Good("api", "ListPolicies", "none"),
     Good("api", "GetPolicy", "none"),
     Good("api", "ValidatePolicy", "good"),
     Good("probe", "Ready", "none"),
     [Good("mcp", "GetEvaluation", "good") EXCEPT !.bound = FALSE],
     [CreateCall EXCEPT !.bound = FALSE],
     [CreateCall EXCEPT !.token = "wrong"],
     [EvaluateCall EXCEPT !.token = "none"],
     [CreateCall EXCEPT !.body = "large"],
     [EvaluateCall EXCEPT !.body = "bad"],
     [ListCall EXCEPT !.body = "bad"]}

\* A walk over the pages while another client creates; a tool that creates
\* beside a REST call; and two clients that share the limiters and the gauges,
\* one of them making every other kind of call.
MCTraffics ==
    {(w :> {ListCall}) @@ (o :> {CreateCall}) @@ (x :> {}),
     (w :> {}) @@ (o :> {EvaluateCall}) @@ (x :> {Good("api", "ListPolicies", "none")}),
     (w :> {}) @@ (o :> MixedCalls) @@ (x :> PolicyCalls)}

\* Two rows of the same moment.
MCRows == {[id |-> i, at |-> 0] : i \in {1, 3}}

=============================================================================
