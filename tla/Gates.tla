------------------------------- MODULE Gates -------------------------------
(***************************************************************************)
(* The gates of the runner (Runner.gate, runner.py).  A receipt names a    *)
(* revision, and says what a recipe answered that ran in the checkout.     *)
(* Nothing locks the checkout: run loops and the threads of the server     *)
(* gate side by side, their recipes write to the tree, agents edit and     *)
(* commit, and what a recipe that ran out of time had started goes on.     *)
(* What the runner has is two looks, one before and one after, each in two *)
(* steps: is the tree clean, and what is HEAD.                             *)
(*                                                                         *)
(* A tree is a model value and a commit is the tree it holds.              *)
(***************************************************************************)
EXTENDS Naturals, FiniteSets

CONSTANTS
  Askers,      \* run loops and server threads that gate this checkout
  Trees,
  NoTree,
  Passes,      \* the trees the recipe passes on
  MaxChanges   \* bound on what changes the tree or HEAD

VARIABLES
  tree, head,  \* the checkout, and the commit HEAD names
  gate,        \* per asker: its gate under way
  orphans,     \* a recipe was given up on, and what it had started runs on
  receipts,    \* those issued
  changed      \* how often the tree or HEAD was changed

vars == <<tree, head, gate, orphans, receipts, changed>>

Verdict(t) == IF t \in Passes THEN "pass" ELSE "fail"

\* Where a gate is, the revision its receipt will name, what the recipe answered,
\* and history: how often the checkout changed since the first look.
Idle == [at |-> "idle", rev |-> NoTree, exit |-> "none", moved |-> 0]
Gating(a) == gate[a].at \notin {"idle", "status"}

TypeOK ==
  /\ tree \in Trees /\ head \in Trees
  /\ gate \in [Askers ->
       [at : {"idle", "status", "head", "recipe", "statusAfter", "headAfter"},
        rev : Trees \cup {NoTree}, exit : {"none", "pass", "fail", "late"},
        moved : 0..MaxChanges]]
  /\ orphans \in BOOLEAN
  /\ receipts \subseteq [rev : Trees, exit : {"pass", "fail", "late"},
                         moved : 0..MaxChanges]
  /\ changed \in 0..MaxChanges

Init ==
  /\ tree \in Trees /\ head = tree
  /\ gate = [a \in Askers |-> Idle]
  /\ orphans = FALSE /\ receipts = {} /\ changed = 0

-----------------------------------------------------------------------------
(* The checkout changes *)

Change(t, h) ==
  /\ changed < MaxChanges /\ changed' = changed + 1
  /\ tree' = t /\ head' = h /\ <<t, h>> # <<tree, head>>
  /\ gate' = [a \in Askers |-> IF Gating(a) THEN [gate[a] EXCEPT !.moved = @ + 1]
                                            ELSE gate[a]]
  /\ UNCHANGED <<orphans, receipts>>

\* Someone edits, commits or resets, or checks another commit out.
Edit     == \E t \in Trees : Change(t, head)
Move     == \E h \in Trees : Change(tree, h)
Checkout == \E t \in Trees : Change(t, t)

\* confined: a recipe, and what it leaves running, writes the tree, never HEAD.
RecipeWrites(a) == gate[a].at = "recipe" /\ \E t \in Trees : Change(t, head)
OrphanWrites    == orphans /\ \E t \in Trees : Change(t, head)

-----------------------------------------------------------------------------
(* Runner.gate *)

At(a, place) == gate[a].at = place
GoOn(a, g) == gate' = [gate EXCEPT ![a] = g]
World == <<tree, head, orphans, changed>>

Ask(a) == At(a, "idle") /\ GoOn(a, [Idle EXCEPT !.at = "status"]) /\ UNCHANGED <<World, receipts>>

\* clean_revision: git status, then rev-parse HEAD.
Status(a) ==
  /\ At(a, "status")
  /\ GoOn(a, IF tree = head THEN [gate[a] EXCEPT !.at = "head"] ELSE Idle)
  /\ UNCHANGED <<World, receipts>>
Resolve(a) ==
  /\ At(a, "head")
  /\ GoOn(a, [gate[a] EXCEPT !.at = "recipe", !.rev = head])
  /\ UNCHANGED <<World, receipts>>

\* The recipe reads the tree and answers.
Judge(a) ==
  /\ At(a, "recipe") /\ gate[a].exit = "none"
  /\ GoOn(a, [gate[a] EXCEPT !.exit = Verdict(tree)])
  /\ UNCHANGED <<World, receipts>>
Ends(a) ==
  /\ At(a, "recipe") /\ gate[a].exit # "none"
  /\ GoOn(a, [gate[a] EXCEPT !.at = "statusAfter"])
  /\ UNCHANGED <<World, receipts>>
\* GATE_TIMEOUT_S: `just` is killed, not what it had started.
TimesOut(a) ==
  /\ At(a, "recipe")
  /\ GoOn(a, [gate[a] EXCEPT !.at = "statusAfter", !.exit = "late"])
  /\ orphans' = TRUE
  /\ UNCHANGED <<tree, head, changed, receipts>>

StatusAfter(a) ==
  /\ At(a, "statusAfter")
  /\ GoOn(a, IF tree = head THEN [gate[a] EXCEPT !.at = "headAfter"] ELSE Idle)
  /\ UNCHANGED <<World, receipts>>
\* Mutant: the look after the recipe is not compared with the one before.
MovedNever(a) == FALSE
\* The gate moved HEAD, or it is signed.
Moved(a) == head # gate[a].rev
Sign(a) ==
  /\ At(a, "headAfter")
  /\ GoOn(a, Idle)
  /\ receipts' = IF Moved(a) THEN receipts
                 ELSE receipts \cup
                   {[rev |-> gate[a].rev, exit |-> gate[a].exit, moved |-> gate[a].moved]}
  /\ UNCHANGED World

\* The runner is killed: its recipe goes on without it.
Kill(a) ==
  /\ ~At(a, "idle") /\ GoOn(a, Idle)
  /\ orphans' = (orphans \/ At(a, "recipe"))
  /\ UNCHANGED <<tree, head, changed, receipts>>

Next ==
  \/ Edit \/ Move \/ Checkout \/ OrphanWrites
  \/ \E a \in Askers :
       Ask(a) \/ Status(a) \/ Resolve(a) \/ RecipeWrites(a) \/ Judge(a) \/ Ends(a)
         \/ TimesOut(a) \/ StatusAfter(a) \/ Sign(a) \/ Kill(a)

Spec == Init /\ [][Next]_vars

-----------------------------------------------------------------------------
\* runner.py, gate: the receipt names a revision, so the gate must have judged
\* exactly that.  One change of the checkout between the two looks, whoever makes
\* it and at whatever step, costs the receipt or is in what it names; it takes two
\* (there and back) for a receipt to say of a revision what another tree answered.
ReceiptIsOfItsRevision ==
  \A r \in receipts :
    r.exit # "late" /\ r.moved <= 1 => r.exit = Verdict(r.rev)
=============================================================================
