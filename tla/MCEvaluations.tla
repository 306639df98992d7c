--------------------------- MODULE MCEvaluations ---------------------------
(***************************************************************************)
(* Small instances of Evaluations for TLC.                                 *)
(*                                                                         *)
(* Policies p1 and p2 are two versions of the text of one policy file: the *)
(* same name and version, different content and outcomes.                  *)
(***************************************************************************)
EXTENDS EvaluationClaims, TLC

CONSTANTS p1, p2, ref, ok, no, odd

MCPolicies == {p1, p2}
MCRefOf == [p \in MCPolicies |-> ref]

\* odd is an outcome that no policy declares.
MCOutcomes == {ok, no, odd}
MCDeclares == (p1 :> {ok}) @@ (p2 :> {ok, no})

\* One deployment, or an edit of the policy file between two starts.
OneDeployment == {{p1}}
TwoDeployments == {{p1}, {p2}}

\* One body for each phase, named for it.
AllBodies == Phases
AskOnly == {"model"}
SettledOnly == {"pre_rule"}

\* Calls are interchangeable: no action or property tells them apart.
CallSymmetry == Permutations(Requests)

MCPhase == [x \in Policies \X Bodies |-> x[2]]

=============================================================================
