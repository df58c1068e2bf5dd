----------------------------- MODULE MCEffects -----------------------------
(* Instances of Effects: two runs of one order publish the same branch under *)
(* one approval; and an inbox line asks, under the approval of a run's stage, *)
(* for the very effect of that stage.                                        *)
EXTENDS Effects

CONSTANTS c1, x1, x2,    \* batches: a commit, and two that one item binds
          w1,            \* the push of an earlier stage
          br, i1, i2, s1, s2, s3

\* What the stage that publishes names, a comment last; the same in either run.
Publication == <<"push", "open-pr", "comment">>

\* Run 1 commits and publishes, run 2 publishes: one branch, one approval.
TwoRuns == {c1, x1, x2}
TwoRunsWork == (c1 :> <<"commit">>) @@ (x1 :> Publication) @@ (x2 :> Publication)
TwoRunsKeys == << <<x1, "open-pr">>, <<c1, "commit">>, <<x2, "push">>, <<x1, "push">>,
                  <<x2, "open-pr">>, <<x2, "comment">>, <<x1, "comment">> >>

\* A run pushes in one stage and opens the pull request in the next; an inbox
\* line asks for the same pull request and names the approval of that stage.
RunAndInbox == {w1, x1, x2}
RunAndInboxWork == (w1 :> <<"push">>) @@ (x1 :> <<"open-pr">>) @@ (x2 :> <<"open-pr">>)
RunAndInboxKeys == << <<w1, "push">>, <<x1, "open-pr">>, <<x2, "open-pr">> >>

AllStage == [b \in Batches |-> CASE b = x2 -> s2 [] b = w1 -> s3 [] OTHER -> s1]
AllBranch == [b \in Batches |-> br]
\* Commit 0 is the one the branch forked at, 1 the first of its own.
FirstCommit == [b \in Batches |-> 1]
ForkCommit == [b \in Batches |-> 0]
AllItem == [b \in Batches |-> IF b = w1 THEN i2 ELSE i1]
AllBinds == [i \in Items |-> IF i = i2 THEN {w1} ELSE {x1, x2}]
=============================================================================
