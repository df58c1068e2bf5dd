------------------------------ MODULE Decisions ------------------------------
(***************************************************************************)
(* Decisions that are functions of what they read: what becomes of a       *)
(* result that came in for a stage, which pull requests the receipts in    *)
(* them let pass, what standards stand after changes to them, what the     *)
(* checks of an order answer, what a stage is told of the memory, in which *)
(* groups the orders of a goal are launched, and how a pipeline runs if it *)
(* is let.  Each is asked of one input and answers.                        *)
(***************************************************************************)
EXTENDS Integers, Sequences, FiniteSets

CONSTANTS
  PullRequests,                          \* Receipts
  Versions, MaxHappenings,                   \* Handoff: of a contract; what happens to a stage
  Kind, Strict, Words, Parts, Liftable,  \* Standards
  Subjects, MaxChanges,                  \* what it starts with, what is proposed and when
  Fine, Outside, Runners, Steps, MaxSteps, \* Checks: what happens to an order's checks
  Memories,                              \* Selection: what is remembered, happened and asked
  Goals, RepositoryPaths,                \* Plan: what a goal may be, and the files there are
  Flows                                  \* Pipelines: what a pipeline may be

VARIABLES asked, input, answer
asking == <<asked, input, answer>>

Judging   == INSTANCE Receipts
Contracts == INSTANCE Handoff
Law       == INSTANCE Standards
Measuring == INSTANCE Checks
Recall    == INSTANCE Selection
Planning  == INSTANCE Plan
Flow      == INSTANCE Pipelines

\* What happens to a stage that was dispatched: its contract is amended, a result
\* of it comes in, it is dispatched again.
StageEvents ==
  [is : {"amend"}, version : Versions] \cup [is : {"result"}, result : SUBSET Versions]
    \cup [is : {"render"}]

ASSUME PullRequestsAssumption ==
  \A pr \in PullRequests : Judging!WellFormed(pr)

ASSUME StageAssumption == 1 \in Versions /\ MaxHappenings \in Nat

ASSUME StandardsAssumption ==
  /\ Law!RulesAssumption /\ Liftable \subseteq Parts
  /\ \A s \in Subjects :
       /\ \A tree \in s.starts \cup s.trees : Law!IsTree(tree)
       /\ s.days \subseteq Int
  /\ MaxChanges \in Nat

ASSUME ChecksAssumption ==
  /\ Steps \subseteq Measuring!Events
  /\ MaxSteps \in Nat

ASSUME MemoriesAssumption ==
  \A m \in Memories :
    /\ \A records \in m.records : Recall!AreRecords(records)
    /\ \A events \in m.events : Recall!AreEvents(events)

GoalsOf(g) ==
  [orders : g.orders, files : g.files, landed : g.landed, budget : g.budgets, cap : g.caps]

ASSUME GoalsAssumption == \A g \in Goals : \A goal \in GoalsOf(g) : Planning!IsGoal(goal)

ASSUME FlowsAssumption == \A f \in Flows : \A stages \in f.stages : Flow!AreStages(stages)

Answered(what) == asked = what /\ answer # <<>>

Answer(what, given) ==
  /\ answer = <<>> /\ asked = what
  /\ answer' = <<given>>
  /\ UNCHANGED <<asked, input>>

DecisionsInit ==
  /\ answer = <<>>
  /\ \/ asked = "receipts" /\ input \in PullRequests
     \/ asked = "handoff" /\ \E n \in 0..MaxHappenings : input \in [1..n -> StageEvents]
     \/ /\ asked = "standards"
        /\ \E s \in Subjects, n \in 0..MaxChanges :
             input \in [start : s.starts, changes : [1..n -> [tree : s.trees, day : s.days]]]
     \/ asked = "checks" /\ \E n \in 0..MaxSteps : input \in [1..n -> Steps]
     \/ /\ asked = "memory"
        /\ \E m \in Memories :
             input \in [store : [records : m.records, events : m.events], ask : m.asks]
     \/ asked = "plan" /\ \E g \in Goals : input \in GoalsOf(g)
     \/ asked = "pipeline" /\ \E f \in Flows : input \in [stages : f.stages, entry : f.entries]

DecisionsNext ==
  \/ Answer("receipts", Judging!Passes(input))
  \/ Answer("handoff", Contracts!Handled(input))
  \/ Answer("standards", Law!Merged(input.start, input.changes))
  \/ Answer("checks", Measuring!Measured(input))
  \/ Answer("memory", Recall!Select(input.store, input.ask))
  \/ Answer("plan", Planning!Plan(input))
  \/ Answer("pipeline", Flow!Checked(input))

DecisionsSpec == DecisionsInit /\ [][DecisionsNext]_asking

\* receipts.verify_committed: a pull request whose receipts all verify was judged
\* by the runner at its very head, for each order it touches and its head does
\* not call an example.
ReceiptsAreOfTheHead ==
  Answered("receipts") => Judging!ReceiptsAreOfTheHead(input, answer[1])

\* handoff.validate and upstream: what a later stage is given was the first result
\* that met the contract of its dispatch, after one repair at most, and still
\* meets the contract, whatever was amended in between; nothing else is handed on.
HandoffMeetsContract ==
  Answered("handoff") => Contracts!HandoffMeetsContract(input, answer[1])

\* standards, floor_check, commits.rules: whatever green changes are merged, what an
\* earlier floor asked is asked of every later tree and commit message, short of a
\* waiver that held when it came and can lift it; and `tac config explain` says what applies and why.
StandardsOnlyTighten ==
  Answered("standards") => Law!StandardsOnlyTighten(input.start, input.changes, answer[1])

\* work.run_check and repair: an answer from the cache is of the tree there is, and
\* where nobody wrote in between it and a failure handed to the builder are true.
ResultsAreOfTheTree ==
  Answered("checks") => Measuring!ResultsAreOfTheTree(answer[1])

\* memory.select and derive: a stage is told every rule it is under and nothing that
\* does not stand; what was left out had no room; where the rules alone have none it
\* is refused; and asking of a past moment gives what was given then.
SelectionIsRight ==
  Answered("memory") => Recall!SelectionIsRight(input.store, input.ask, answer[1])

\* work.plan: whatever the goal, a plan that is not refused starts every order
\* that can start, once, after what it needs, next to no order that owns one of
\* its files, within the budget and its team's cap; and it is refused for a cycle
\* only when orders that could start wait on each other.
PlanIsSafe ==
  Answered("plan") => Planning!PlanIsSafe(input, answer[1], RepositoryPaths)

\* pipelines.pipeline_problems and run._inputs: a pipeline the check accepts runs
\* in an order its edges allow, hands every stage the payload its file means, and
\* reaches no effect but after a gate; one it refuses has the fault it is refused for.
PipelineIsSound ==
  Answered("pipeline") => Flow!PipelineIsSound(input, answer[1])
=============================================================================
