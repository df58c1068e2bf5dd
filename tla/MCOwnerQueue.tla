---------------------------- MODULE MCOwnerQueue ----------------------------
(* What is asked: a question of an escalation, and an approval that is signed  *)
(* on the host or given by a review before it expires.                         *)
EXTENDS OwnerQueue, TLC

CONSTANTS merge, deploy, p1, p2

Commands == Permutations({p1, p2})

Asked ==
  {[kind |-> "question", action |-> merge, revision |-> 1, pull |-> FALSE,
    lasts |-> 0, source |-> 1],
   [kind |-> "approval", action |-> merge, revision |-> 1, pull |-> TRUE,
    lasts |-> 1, source |-> None]}
=============================================================================
