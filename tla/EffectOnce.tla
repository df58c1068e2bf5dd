---------------------------- MODULE EffectOnce ----------------------------
(***************************************************************************)
(* What the effect journal promises its callers, with no process, crash or *)
(* journal in sight: an effect is asked for, the world comes to show it,   *)
(* and only then is it answered; an answer is never taken back.            *)
(***************************************************************************)
CONSTANT Requests

VARIABLES asked, performed, answered   \* sets of requests

Init == asked = {} /\ performed = {} /\ answered = {}

Ask(r) == /\ asked' = asked \cup {r}
          /\ UNCHANGED <<performed, answered>>

\* One change of the world may be what several requests asked for; it is made
\* for one that was asked for and is not yet answered.
Perform(S) == /\ S \cap (asked \ answered) # {}
              /\ performed' = performed \cup S
              /\ UNCHANGED <<asked, answered>>

Answer(r) == /\ r \in asked \cap performed
             /\ answered' = answered \cup {r}
             /\ UNCHANGED <<asked, performed>>

Next == \/ \E r \in Requests : Ask(r) \/ Answer(r)
        \/ \E S \in SUBSET Requests : Perform(S)

Spec == Init /\ [][Next]_<<asked, performed, answered>>
=============================================================================
