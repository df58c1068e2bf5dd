----------------------------- MODULE MCDispatch -----------------------------
(* Instances of Dispatch: one stage that spawns agents by prompt, one that
   runs a registered Workflow script. *)
EXTENDS Dispatch, TLC

CONSTANTS build, plan, script, chat, s1, s2

TwoStages == (build :> <<>>) @@ (plan :> <<script>>)
EachTool == [s \in Sessions |-> Tools]
CallSymmetry == Permutations(Calls) \cup Permutations(Tokens) \cup Permutations({s1, s2})
=============================================================================
