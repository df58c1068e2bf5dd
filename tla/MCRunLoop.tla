----------------------------- MODULE MCRunLoop -----------------------------
(* Instances of RunLoop: the order pipeline, shortened to one stage of each    *)
(* kind and a sign-off that its `when` may skip.                               *)
EXTENDS RunLoop

CONSTANTS build, signoff, gate, publish, land

OrderPipeline == <<build, signoff, gate, publish, land>>
OrderKind == (build :> "agent") @@ (signoff :> "agent") @@ (gate :> "gate")
               @@ (publish :> "effect") @@ (land :> "human")
OrderDepends == (build :> {}) @@ (signoff :> {build}) @@ (gate :> {build, signoff})
                  @@ (publish :> {gate}) @@ (land :> {publish})
OrderGates == [s \in Stages |-> IF s = gate THEN 2 ELSE IF s = build THEN 1 ELSE 0]
OrderRetry == [s \in Stages |-> IF s = gate THEN 2 ELSE 0]
Asking == [s \in Stages |-> s # signoff]
NoCrossTeam == [s \in Stages |-> s # signoff]
OrderCommits == [s \in Stages |-> s = publish]
OrderRest == [s \in Stages |-> IF s = publish THEN <<"push", "open-pr">> ELSE <<>>]
OrderMerges == [s \in Stages |-> s = land]
=============================================================================
