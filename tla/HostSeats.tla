----------------------------- MODULE HostSeats -----------------------------
(***************************************************************************)
(* What leases.acquire and release promise a stage or an inbox line that   *)
(* runs an agent: counting the seats that are taken and taking one more is *)
(* a single step, whoever else counts, sits, leaves or is killed meanwhile.*)
(***************************************************************************)
EXTENDS Integers, FiniteSets

CONSTANTS Procs, Budget

VARIABLE seated   \* who has a seat

Init == seated = {}

\* Budgets are of repositories, so that the next to sit down may have a lesser one.
Enter(p) == /\ p \notin seated /\ Cardinality(seated) < Budget[p]
            /\ seated' = seated \cup {p}

Leave(p) == p \in seated /\ seated' = seated \ {p}

Next == \E p \in Procs : Enter(p) \/ Leave(p)

Spec == Init /\ [][Next]_seated
=============================================================================
