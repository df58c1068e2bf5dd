------------------------------- MODULE MCHost -------------------------------
(* Instances of Host, for three runners of two repositories. *)
EXTENDS Host, TLC

CONSTANTS p1, p2, p3, agentsMd, claudeMd, role, both, noClaude, newRole

TwoBudgets == (p1 :> 2) @@ (p2 :> 2) @@ (p3 :> 1)

\* All passes on the first tree; on the second two cases are skipped; the third
\* claims a condition its map leaves out, and its ledger fails.
ThreeTrees == 1..3
ClaimsOf == [t \in 1..3 |-> IF t = 3 THEN {"a", "b"} ELSE {"a"}]
MapOf == [t \in 1..3 |-> {[condition |-> "a", tests |-> {<<"f", "t">>}]}]
Cases == {<<"f", "t", 1>>, <<"f", "t", 2>>, <<"bypass", "x">>, <<"mutation", "y">>}
AnswersOf == [t \in 1..3 |-> [n \in Cases |->
  IF t = 2 /\ n \in {<<"f", "t", 2>>, <<"mutation", "y">>} THEN "skipped" ELSE "passed"]]

\* Trees that differ in the harnesses enforced, in a role.
RenderedBy ==
  both :> {agentsMd, claudeMd, role} @@ noClaude :> {agentsMd} @@ newRole :> {agentsMd, role}
=============================================================================
