---------------------------- MODULE MCRepository ----------------------------
(* Two orders with a file each; the first touches a file of the second's team. *)
(* A record, one that contradicts it, and one that supersedes it.              *)
EXTENDS Repository, TLC

CONSTANTS api, docs, web, fa, fd, bob, rita, mona, old, rival, new

OwnFile == (api :> {fa}) @@ (docs :> {fd})
ApiCrosses == (api :> {web}) @@ (docs :> {})
BobBuilds == (api :> bob) @@ (docs :> bob)
MonaManages == (web :> mona)
Families == (bob :> 1) @@ (rita :> 2) @@ (mona :> 1)

NewForOld == (old :> NoRec) @@ (rival :> NoRec) @@ (new :> old)
OldOrRival == {<<old, rival>>, <<rival, old>>}
ProcSymmetry == Permutations(Procs)
=============================================================================
