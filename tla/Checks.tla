-------------------------------- MODULE Checks --------------------------------
(***************************************************************************)
(* The measurements of one order (work.run_check, repair; hook_stop).  A   *)
(* tree stands for its key, the exact state of the checkout.  A run takes  *)
(* the key, looks for a result it may reuse, asks which files are strays   *)
(* against the base, and runs the order's commands, which take a while;    *)
(* meanwhile others edit, the base moves and other runs begin and end.     *)
(* What happens is a sequence of events; saw and base in a result are what *)
(* its commands ran on and its strays were asked against.                  *)
(***************************************************************************)
EXTENDS Naturals, Sequences

CONSTANTS
  Fine,      \* trees on which every command passes
  Outside,   \* pairs of a tree and a base that has strays
  Runners    \* who runs checks: a builder, a reviewer, a stop hook

Trees == Nat \ {0}
Bases == Nat

\* Edits, moves of the base, and what is done by whom; a run may be slow.
Events ==
  [is : {"edit"}, tree : Trees] \cup [is : {"base"}, base : Bases]
    \cup [is : {"check"}, by : Runners, how : {"check", "force", "hurried"}]
    \cup [is : {"repair", "kill"}, by : Runners]
    \cup [is : {"go"}, by : Runners, slow : BOOLEAN]

NoResult == [key |-> 0]
Idle == [at |-> "idle"]

Start == [tree |-> 1, base |-> 1, result |-> NoResult,
          runs |-> [p \in Runners |-> Idle], answers |-> <<>>]

\* An answer, or the failures that `tac work repair` hands to the builder.
Says(store, what, how, result) ==
  [store EXCEPT !.answers = Append(@, [what |-> what, how |-> how, of |-> result,
                                       tree |-> store.tree, base |-> store.base])]

Goes(store, p, run) == [store EXCEPT !.runs[p] = run]

\* The key first, then the strays, then the commands.
Measure(store, p, how) ==
  Goes(store, p, [at |-> "commands", how |-> how, key |-> store.tree, base |-> store.base,
                  strays |-> <<store.tree, store.base>> \in Outside])

\* The cache: the tree it saw is the tree there is, and it passed.
Reuses(store) ==
  store.result # NoResult /\ store.result.key = store.tree /\ store.result.ok

RunCheck(store, p, how) ==
  IF how # "force" /\ Reuses(store)
  THEN Says(store, "cached", how, store.result)
  ELSE Measure(store, p, how)

\* The failures go to repair.md and to the builder, whose turn begins.
HandOver(store, p, result) ==
  Goes(Says(store, "handed", "repair", result), p, [at |-> "turn"])

\* repair: the last result, if it is of this tree; else a run of its own.
Repair(store, p) ==
  IF store.result = NoResult \/ store.result.key # store.tree
  THEN Measure(store, p, "repair")
  ELSE IF store.result.ok THEN Says(store, "cached", "repair", store.result)
  ELSE HandOver(store, p, store.result)

\* Every command; a hook's time limit may end one before it is done.
Commands(store, p, slow) ==
  LET run == store.runs[p] IN
  Goes(store, p,
    [at |-> "write", how |-> run.how,
     result |-> [key |-> run.key, base |-> run.base, saw |-> store.tree,
                 ok |-> /\ ~run.strays /\ store.tree \in Fine
                        /\ ~(run.how = "hurried" /\ slow)]])

\* Mutant: a hurried run is the measurement as well.
KeptAlways(store, run) == [store EXCEPT !.result = run.result]
\* A run hurried by a hook's time limit is not the measurement.
Kept(store, run) == IF run.how = "hurried" THEN store ELSE [store EXCEPT !.result = run.result]

Write(store, p) ==
  LET run  == store.runs[p]
      then == Goes(Kept(store, run), p, Idle)
  IN IF run.how = "repair" /\ ~run.result.ok THEN HandOver(then, p, run.result)
     ELSE Says(then, "measured", run.how, run.result)

\* What a process does next.
Go(store, p, slow) ==
  CASE store.runs[p].at = "commands" -> Commands(store, p, slow)
    [] store.runs[p].at = "write"    -> Write(store, p)
    [] store.runs[p].at = "turn"     -> RunCheck(store, p, "force")
    [] OTHER -> store

\* Killed, perhaps while it wrote the result: what is left does not parse, and
\* last_result takes it for none.
Kill(store, p) ==
  LET run == store.runs[p] IN
  Goes(IF run.at = "write" THEN Kept(store, [run EXCEPT !.result = NoResult]) ELSE store,
       p, Idle)

After(store, event) ==
  CASE event.is = "edit"   -> [store EXCEPT !.tree = event.tree]
    [] event.is = "base"   -> [store EXCEPT !.base = event.base]
    [] event.is = "go"     -> Go(store, event.by, event.slow)
    [] event.is = "kill"   -> Kill(store, event.by)
    [] event.is = "repair" -> IF store.runs[event.by] # Idle THEN store
                              ELSE Repair(store, event.by)
    [] event.is = "check"  -> IF store.runs[event.by] # Idle THEN store
                              ELSE RunCheck(store, event.by, event.how)

Measured(events) ==
  LET store[i \in 0..Len(events)] ==
        IF i = 0 THEN Start ELSE After(store[i - 1], events[i])
  IN store[Len(events)]

(***************************************************************************)
(* What an answer has to mean.                                             *)
(***************************************************************************)
Holds(tree, base) == tree \in Fine /\ <<tree, base>> \notin Outside

\* An answer from the cache is of the tree there is.  And where nobody edited under
\* the commands and the base has not moved, whatever is said, to a caller or to the
\* builder a failure is handed to, is what the order does on the tree at hand, but
\* for a hook that ran out of time.
ResultsAreOfTheTree(store) ==
  \A i \in DOMAIN store.answers :
    LET said == store.answers[i]
        undisturbed == said.of.saw = said.tree /\ said.of.key = said.tree
                       /\ said.of.base = said.base
    IN /\ said.what = "cached" => said.of.key = said.tree /\ said.of.ok
       /\ said.of.ok /\ undisturbed => Holds(said.tree, said.base)
       /\ ~said.of.ok /\ undisturbed /\ said.how # "hurried" => ~Holds(said.tree, said.base)
=============================================================================
