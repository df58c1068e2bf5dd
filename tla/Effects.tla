------------------------------ MODULE Effects ------------------------------
(***************************************************************************)
(* The effect journal of tac/effects.py: how the host runner authorises,   *)
(* journals, performs, receipts and, after a crash, reconciles the commits *)
(* pushes and pull requests that leave a trace outside the sandbox.        *)
(*                                                                         *)
(* A batch is what one caller authorises and performs together: the commit *)
(* of an effect stage, the push and pull request of that stage, or one     *)
(* inbox line.  A request is a batch's effect, so it stands for one        *)
(* idempotency key.  Processes (`tac run`, `tac inbox watch`) interleave,  *)
(* crash between any two writes and are started again; the world (the work *)
(* tree, the remote branch, GitHub) moves under them.                      *)
(***************************************************************************)
EXTENDS Integers, Sequences, FiniteSets, SequencesExt

CONSTANTS
  Procs,              \* host processes
  Batches,            \* batches of effects
  Branches,           \* branches of work orders
  Items,              \* approval items of the owner's queue
  Stages,             \* (run, stage) pairs; an inbox run is one too
  NoBatch,            \* "no batch in hand"
  Work,               \* [Batches -> Seq(Kinds)]: the effects, in order
  StageOf,            \* [Batches -> Stages]
  BranchOf,           \* [Batches -> Branches]
  ShaOf,              \* [Batches -> Nat]: the commit a push names
  ItemOf,             \* [Batches -> Items]: the approval presented
  Binds,              \* [Items -> SUBSET Batches]: whose tool and arguments
                      \* an item records
  Keys,               \* Seq(Requests): the journal files, sorted by name
  RunnerOnly,         \* the kinds policy.toml leaves to the runner
  ApprovalsAsked,     \* BOOLEAN: approvals = "external-effects"
  Exclusive,          \* BOOLEAN: one process per (run, stage) at a time
  LateKinds,          \* kinds whose command may fail after it took effect
  Expiring,           \* items whose signature may run out
  MaxFaults, MaxEdits, MaxClosed   \* bounds on what the environment does

Performed == {"commit", "push", "open-pr"}
FromM4 == {"comment"}          \* journaled and refused until M4
Kinds == Performed \cup FromM4
External == {"push", "open-pr", "comment"}
Requests == {r \in Batches \X Kinds : r[2] \in Range(Work[r[1]])}
NoRef == -1           \* the remote has no such branch

ASSUME EffectsAssumption ==
  /\ NoBatch \notin Batches
  /\ Work \in [Batches -> Seq(Kinds)]
  /\ StageOf \in [Batches -> Stages]
  /\ BranchOf \in [Batches -> Branches]
  /\ ShaOf \in [Batches -> Nat]
  /\ ItemOf \in [Batches -> Items]
  /\ Binds \in [Items -> SUBSET Batches]
  /\ Keys \in Seq(Requests)
  /\ RunnerOnly \subseteq Kinds
  /\ {ApprovalsAsked, Exclusive} \subseteq BOOLEAN
  /\ LateKinds \subseteq Kinds
  /\ Expiring \subseteq Items
  /\ {MaxFaults, MaxEdits, MaxClosed} \subseteq Nat

\* authorize compares the item's tool and arguments with the batch's: the batches one
\* item is good for are the same effects, on the same branch, of the same commit.
ASSUME BindsAssumption ==
  \A i \in Items : \A b, c \in Binds[i] :
    Work[b] = Work[c] /\ BranchOf[b] = BranchOf[c] /\ ShaOf[b] = ShaOf[c]

VARIABLES
  journal,    \* state of each entry; "reconciled" is done by reconcile_entry
  receipts,   \* requests with a signed effect receipt
  consumed,   \* approvals/consumed.jsonl: <<item, stage>> records
  items,      \* what the owner's queue says of each approval item
  tree,       \* per branch, {"edited", "staged"} changes of its work tree
  log,        \* per branch, the Tac-Effect trailers of its commits
  remote,     \* per branch, the commit the remote holds, or NoRef
  pr,         \* per branch, its latest pull request
  pc, batch, at,             \* per process: step, batch in hand, position
  faults, edits, closed,     \* how often the environment interfered
  shown,      \* history: requests whose effect the world has shown
  acts        \* history: how often a request changed the world

store   == <<journal, receipts, consumed>>
world   == <<tree, log, remote, pr>>
local   == <<pc, batch, at>>
history == <<shown, acts>>
vars    == <<store, items, world, local, faults, edits, closed, history>>

TypeOK ==
  /\ journal \in [Requests -> {"none", "pending", "failed", "done", "reconciled"}]
  /\ receipts \subseteq Requests
  /\ consumed \subseteq Items \X Stages
  /\ items \in [Items -> {"asked", "signed", "rejected", "expired"}]
  /\ tree \in [Branches -> SUBSET {"edited", "staged"}]
  /\ log \in [Branches -> Seq(Requests)]
  /\ remote \in [Branches -> Nat \cup {NoRef}]
  /\ pr \in [Branches -> {"none", "open", "closed"}]
  /\ pc \in [Procs -> {"off", "sweep", "query", "settle", "up", "append",
                       "lookup", "journal", "run", "create", "receipt",
                       "record", "fail"}]
  /\ batch \in [Procs -> Batches \cup {NoBatch}]
  /\ at \in [Procs -> Nat]
  /\ faults \in 0..MaxFaults /\ edits \in 0..MaxEdits /\ closed \in 0..MaxClosed
  /\ shown \subseteq Requests
  /\ acts \in [Requests -> Nat]

Init ==
  /\ journal = [r \in Requests |-> "none"]
  /\ receipts = {} /\ consumed = {}
  /\ items = [i \in Items |-> "asked"]
  /\ tree = [b \in Branches |-> {"edited"}]
  /\ log = [b \in Branches |-> <<>>]
  /\ remote = [b \in Branches |-> NoRef]
  /\ pr = [b \in Branches |-> "none"]
  /\ pc = [p \in Procs |-> "off"]
  /\ batch = [p \in Procs |-> NoBatch]
  /\ at = [p \in Procs |-> 0]
  /\ faults = 0 /\ edits = 0 /\ closed = 0
  /\ shown = {}
  /\ acts = [r \in Requests |-> 0]

IsDone(r) == journal[r] \in {"done", "reconciled"}

\* The request a process has in hand: the sweep walks the journal's files, a
\* batch walks its own effects.
Cur(p) == IF batch[p] = NoBatch THEN Keys[at[p]]
                                ELSE <<batch[p], Work[batch[p]][at[p]]>>
Br(r) == BranchOf[r[1]]

\* What reconcile_entry, a push, a commit or an open-pr looks for in the world.
Visible(r) ==
  \/ r[2] = "push" /\ remote[Br(r)] = ShaOf[r[1]]
  \/ r[2] = "commit" /\ r \in Range(log[Br(r)])
  \/ r[2] = "open-pr" /\ pr[Br(r)] = "open"

-----------------------------------------------------------------------------
(* Control flow of one process *)

GoTo(p, label) == /\ pc' = [pc EXCEPT ![p] = label]
                  /\ UNCHANGED <<batch, at>>
Return(p, label) == /\ pc' = [pc EXCEPT ![p] = label]
                    /\ batch' = [batch EXCEPT ![p] = NoBatch]
                    /\ at' = [at EXCEPT ![p] = 0]
NextRequest(p) ==
  IF batch[p] = NoBatch
  THEN /\ pc' = [pc EXCEPT ![p] = "sweep"]
       /\ at' = [at EXCEPT ![p] = @ + 1]
       /\ UNCHANGED batch
  ELSE IF at[p] < Len(Work[batch[p]])
  THEN /\ pc' = [pc EXCEPT ![p] = "lookup"]
       /\ at' = [at EXCEPT ![p] = @ + 1]
       /\ UNCHANGED batch
  ELSE Return(p, "up")
Fault == faults < MaxFaults /\ faults' = faults + 1
NoFault == UNCHANGED faults

-----------------------------------------------------------------------------
(* A process starts, reconciles the whole journal, and may die anywhere *)

\* `tac run --resume` and `tac inbox watch` reconcile before they do anything.
Start(p) ==
  /\ pc[p] = "off"
  /\ pc' = [pc EXCEPT ![p] = "sweep"]
  /\ at' = [at EXCEPT ![p] = 1]
  /\ UNCHANGED <<store, items, world, batch, faults, edits, closed, history>>

SweepNext(p) ==
  /\ pc[p] = "sweep" /\ at[p] <= Len(Keys)
  /\ IF journal[Keys[at[p]]] = "pending" THEN GoTo(p, "query")
                                         ELSE NextRequest(p)
  /\ UNCHANGED <<store, items, world, faults, edits, closed, history>>

SweepEnd(p) ==
  /\ pc[p] = "sweep" /\ at[p] > Len(Keys)
  /\ Return(p, "up")
  /\ UNCHANGED <<store, items, world, faults, edits, closed, history>>

\* Mutant: what is still pending after a crash is taken for done unseen.
QueryTrusting(p) ==
  /\ pc[p] = "query"
  /\ GoTo(p, "settle")
  /\ UNCHANGED <<store, items, world, faults, edits, closed, history>>

\* reconcile_entry looks at the world.  An error, or nothing to see, leaves the
\* entry pending: the sweep goes on, perform goes on to run the effect.
Query(p) ==
  /\ pc[p] = "query"
  /\ \/ Visible(Cur(p)) /\ GoTo(p, "settle") /\ NoFault
     \/ /\ (~Visible(Cur(p)) /\ NoFault) \/ Fault
        /\ IF batch[p] = NoBatch THEN NextRequest(p) ELSE GoTo(p, "journal")
  /\ UNCHANGED <<store, items, world, edits, closed, history>>

\* ... and marks the entry done with observed["reconciled"], without a receipt.
Settle(p) ==
  /\ pc[p] = "settle"
  /\ journal' = [journal EXCEPT ![Cur(p)] = "reconciled"]
  /\ NextRequest(p)
  /\ UNCHANGED <<receipts, consumed, items, world, faults, edits, closed, history>>

\* The process is killed, or a subprocess.TimeoutExpired or a ReceiptError
\* escapes every handler: what it held in memory is gone.
Crash(p) ==
  /\ pc[p] \notin {"off", "up"}
  /\ Fault
  /\ Return(p, "off")
  /\ UNCHANGED <<store, items, world, edits, closed, history>>

Exit(p) ==
  /\ pc[p] = "up"
  /\ Return(p, "off")
  /\ UNCHANGED <<store, items, world, faults, edits, closed, history>>

-----------------------------------------------------------------------------
(* Effects.authorize *)

NeedsApproval(b) ==
  ApprovalsAsked /\ Range(Work[b]) \cap External # {}

\* Mutant: the comparison with the stage is the wrong way round.
SpentHere(stage) == {c[1] : c \in {d \in consumed : d[2] = stage}}

\* Ids already acted on, less the ones spent for exactly this stage.
Spent(stage) == {c[1] : c \in {d \in consumed : d[2] # stage}}
Mine(b) == <<ItemOf[b], StageOf[b]>> \in consumed

\* Mutant: a closed item is taken for an approved one.
AcceptedOnceDecided(b) ==
  /\ items[ItemOf[b]] # "asked"
  /\ b \in Binds[ItemOf[b]]
  /\ ItemOf[b] \notin Spent(StageOf[b])

\* verify_signed on the item this batch names: signed, unexpired, for these
\* effects with these arguments, and not used by another stage.
Accepted(b) ==
  /\ items[ItemOf[b]] = "signed"
  /\ b \in Binds[ItemOf[b]]
  /\ ItemOf[b] \notin Spent(StageOf[b])

\* A caller runs one stage of a run at a time; nothing in the code stops a
\* second `tac run --resume` of the same run, so Exclusive is the owner's habit.
StageFree(b) ==
  Exclusive => \A q \in Procs :
                  batch[q] # NoBatch => StageOf[batch[q]] # StageOf[b]

Authorize(p, b) ==
  /\ pc[p] = "up" /\ Work[b] # <<>> /\ StageFree(b)
  /\ Range(Work[b]) \subseteq RunnerOnly
  /\ NeedsApproval(b) => Accepted(b)
  /\ pc' = [pc EXCEPT ![p] = IF NeedsApproval(b) /\ ~Mine(b)
                             THEN "append" ELSE "lookup"]
  /\ batch' = [batch EXCEPT ![p] = b]
  /\ at' = [at EXCEPT ![p] = 1]
  /\ UNCHANGED <<store, items, world, faults, edits, closed, history>>

\* The record is appended in a later write than the read that judged it.
Consume(p) ==
  /\ pc[p] = "append"
  /\ consumed' = consumed \cup {<<ItemOf[batch[p]], StageOf[batch[p]]>>}
  /\ GoTo(p, "lookup")
  /\ UNCHANGED <<journal, receipts, items, world, faults, edits, closed, history>>

-----------------------------------------------------------------------------
(* Effects.perform *)

\* Mutant: a pending entry is left to whoever wrote it.
LookupSkipsPending(p) ==
  /\ pc[p] = "lookup"
  /\ IF IsDone(Cur(p)) \/ journal[Cur(p)] = "pending"
     THEN NextRequest(p) ELSE GoTo(p, "journal")
  /\ UNCHANGED <<store, items, world, faults, edits, closed, history>>

\* A done entry is answered from the journal, a pending one reconciled first.
Lookup(p) ==
  /\ pc[p] = "lookup"
  /\ \/ IsDone(Cur(p)) /\ NextRequest(p)
     \/ journal[Cur(p)] = "pending" /\ GoTo(p, "query")
     \/ journal[Cur(p)] \in {"none", "failed"} /\ GoTo(p, "journal")
  /\ UNCHANGED <<store, items, world, faults, edits, closed, history>>

WritePending(p) ==
  /\ pc[p] = "journal"
  /\ journal' = [journal EXCEPT ![Cur(p)] = "pending"]
  /\ GoTo(p, "run")
  /\ UNCHANGED <<receipts, consumed, items, world, faults, edits, closed, history>>

\* The world changed for r: every request it now shows is recorded.
Acted(r) ==
  /\ acts' = [acts EXCEPT ![r] = @ + 1]
  /\ shown' = shown \cup {q \in Requests : Visible(q)'}

\* A command that took effect answers, or fails all the same (a time-out of
\* git push or gh, an answer that does not parse, a rev-parse that fails).
Answers(p, kind) ==
  \/ GoTo(p, "receipt") /\ NoFault
  \/ kind \in LateKinds /\ Fault /\ GoTo(p, "fail")

\* An effect of M4 is refused after its entry is written.
Refuse(p) ==
  /\ pc[p] = "run" /\ Cur(p)[2] \notin Performed
  /\ GoTo(p, "fail")
  /\ UNCHANGED <<store, items, world, faults, edits, closed, history>>

\* A command that fails before it has any effect.
Fails(p) ==
  /\ pc[p] \in {"run", "create"}
  /\ Fault
  /\ GoTo(p, "fail")
  /\ UNCHANGED <<store, items, world, edits, closed, history>>

\* git push <sha>:refs/heads/<branch>: refused unless the commit exists and the
\* remote fast-forwards to it.
Push(p) ==
  LET r == Cur(p)  n == ShaOf[r[1]]  b == Br(r) IN
  /\ pc[p] = "run" /\ r[2] = "push"
  /\ UNCHANGED <<store, items, tree, log, pr, edits, closed>>
  /\ IF n <= Len(log[b]) /\ remote[b] <= n
     THEN /\ remote' = [remote EXCEPT ![b] = n]
          /\ IF remote[b] # n THEN Acted(r)
             ELSE /\ shown' = shown \cup {r}
                  /\ UNCHANGED acts
          /\ Answers(p, "push")
     ELSE /\ GoTo(p, "fail") /\ NoFault
          /\ UNCHANGED <<remote, history>>

\* git add -A, then git diff --cached: nothing staged is an answer of its own.
CommitStage(p) ==
  LET b == Br(Cur(p)) IN
  /\ pc[p] = "run" /\ Cur(p)[2] = "commit"
  /\ IF tree[b] = {}
     THEN /\ GoTo(p, "receipt")
          /\ shown' = shown \cup {Cur(p)}
          /\ UNCHANGED tree
     ELSE /\ GoTo(p, "create")
          /\ tree' = [tree EXCEPT ![b] = {"staged"}]
          /\ UNCHANGED shown
  /\ UNCHANGED <<store, items, log, remote, pr, faults, edits, closed, acts>>

\* git commit with the Tac-Effect trailer; it fails when another process took
\* what was staged.
Commit(p) ==
  LET r == Cur(p)  b == Br(r) IN
  /\ pc[p] = "create" /\ r[2] = "commit"
  /\ UNCHANGED <<store, items, remote, pr, edits, closed>>
  /\ IF "staged" \in tree[b]
     THEN /\ log' = [log EXCEPT ![b] = Append(@, r)]
          /\ tree' = [tree EXCEPT ![b] = @ \ {"staged"}]
          /\ Acted(r)
          /\ Answers(p, "commit")
     ELSE /\ GoTo(p, "fail") /\ NoFault
          /\ UNCHANGED <<tree, log, history>>

\* gh pr list: an open pull request of the branch is the answer.
ListPR(p) ==
  LET r == Cur(p) IN
  /\ pc[p] = "run" /\ r[2] = "open-pr"
  /\ IF pr[Br(r)] = "open"
     THEN GoTo(p, "receipt") /\ shown' = shown \cup {r}
     ELSE GoTo(p, "create") /\ UNCHANGED shown
  /\ UNCHANGED <<store, items, world, faults, edits, closed, acts>>

\* gh pr create: GitHub refuses a second open pull request of one head and a
\* head branch that does not exist.
CreatePR(p) ==
  LET r == Cur(p)  b == Br(r) IN
  /\ pc[p] = "create" /\ r[2] = "open-pr"
  /\ UNCHANGED <<store, items, tree, log, remote, edits, closed>>
  /\ IF pr[b] # "open" /\ remote[b] # NoRef
     THEN /\ pr' = [pr EXCEPT ![b] = "open"]
          /\ Acted(r)
          /\ Answers(p, "open-pr")
     ELSE /\ GoTo(p, "fail") /\ NoFault
          /\ UNCHANGED <<pr, history>>

\* The receipt is signed before the entry is marked done; when it cannot be
\* signed, the error leaves the entry pending.
Receipt(p) ==
  /\ pc[p] = "receipt"
  /\ \/ /\ receipts' = receipts \cup {Cur(p)}
        /\ GoTo(p, "record") /\ NoFault
     \/ /\ Fault /\ Return(p, "up")
        /\ UNCHANGED receipts
  /\ UNCHANGED <<journal, consumed, items, world, edits, closed, history>>

WriteDone(p) ==
  /\ pc[p] = "record"
  /\ journal' = [journal EXCEPT ![Cur(p)] = "done"]
  /\ NextRequest(p)
  /\ UNCHANGED <<receipts, consumed, items, world, faults, edits, closed, history>>

\* The failure is journaled and the rest of the batch is not performed.
WriteFailed(p) ==
  /\ pc[p] = "fail"
  /\ journal' = [journal EXCEPT ![Cur(p)] = "failed"]
  /\ Return(p, "up")
  /\ UNCHANGED <<receipts, consumed, items, world, faults, edits, closed, history>>

-----------------------------------------------------------------------------
(* The owner and the agents *)

\* `tac approve`, either way, and the end of a signature's life.
Decide(i) ==
  /\ \/ items[i] = "asked" /\ items' \in {[items EXCEPT ![i] = "signed"],
                                          [items EXCEPT ![i] = "rejected"]}
     \/ /\ items[i] = "signed" /\ i \in Expiring
        /\ items' = [items EXCEPT ![i] = "expired"]
  /\ UNCHANGED <<store, world, local, faults, edits, closed, history>>

\* An agent writes in the work tree.
Edit(b) ==
  /\ edits < MaxEdits /\ "edited" \notin tree[b]
  /\ tree' = [tree EXCEPT ![b] = @ \cup {"edited"}]
  /\ edits' = edits + 1
  /\ UNCHANGED <<store, items, log, remote, pr, local, faults, closed, history>>

\* The owner merges or closes the pull request; GitHub may delete its branch.
ClosePR(b) ==
  /\ closed < MaxClosed /\ pr[b] = "open"
  /\ pr' = [pr EXCEPT ![b] = "closed"]
  /\ remote' \in {remote, [remote EXCEPT ![b] = NoRef]}
  /\ closed' = closed + 1
  /\ UNCHANGED <<store, items, tree, log, local, faults, edits, history>>

-----------------------------------------------------------------------------
Step(p) ==
  \/ SweepNext(p) \/ SweepEnd(p) \/ Query(p) \/ Settle(p)
  \/ Consume(p) \/ Lookup(p) \/ WritePending(p)
  \/ Refuse(p) \/ Push(p) \/ CommitStage(p) \/ Commit(p) \/ ListPR(p) \/ CreatePR(p)
  \/ Fails(p) \/ Receipt(p) \/ WriteDone(p) \/ WriteFailed(p)

Next ==
  \/ \E p \in Procs : Start(p) \/ Step(p) \/ Crash(p) \/ Exit(p)
  \/ \E p \in Procs, b \in Batches : Authorize(p, b)
  \/ \E i \in Items : Decide(i)
  \/ \E b \in Branches : Edit(b) \/ ClosePR(b)

Spec == Init /\ [][Next]_vars

\* A running process goes on, and the owner restarts a run or a watch and
\* resumes each of its batches for as long as one is refused or interrupted.
Fairness ==
  /\ \A p \in Procs : WF_vars(Start(p)) /\ WF_vars(Step(p))
  /\ \A b \in Batches : SF_vars(\E p \in Procs : Authorize(p, b))
FairSpec == Spec /\ Fairness

-----------------------------------------------------------------------------
(* Properties *)

\* A journal entry that says done never lies: at some moment the world showed
\* that effect, however often the process died and whoever else acted.
DoneShown == \A r \in Requests : IsDone(r) => r \in shown

\* Nothing leaves the machine under an approval that was not signed for exactly
\* these effects and already marked used for this stage; a crash between the
\* mark and the effect, or between two effects, never separates them.
ActsOnlyOnConsent ==
  \A r \in Requests :
    r[2] \in External /\ NeedsApproval(r[1]) /\ acts[r] > 0 =>
      /\ items[ItemOf[r[1]]] \in {"signed", "expired"}
      /\ r[1] \in Binds[ItemOf[r[1]]]
      /\ Mine(r[1])

\* One approval, one stage: two stages never both act outside under one item.
OneStagePerApproval ==
  \A q, r \in Requests :
    /\ {q[2], r[2]} \subseteq External
    /\ NeedsApproval(q[1]) /\ NeedsApproval(r[1])
    /\ acts[q] > 0 /\ acts[r] > 0 /\ ItemOf[q[1]] = ItemOf[r[1]]
    => StageOf[q[1]] = StageOf[r[1]]

\* The receipt comes first: no entry perform marked done lacks one.
ReceiptBeforeDone == \A r \in Requests : journal[r] = "done" => r \in receipts

\* What perform and reconcile leave is true: what is done was shown, and what is
\* done without having been found so by the reconciliation has its receipt.
JournalIsTrue == DoneShown /\ ReceiptBeforeDone

\* The journal never takes back a done.
DoneIsFinal ==
  [][\A r \in Requests : IsDone(r) => IsDone(r)']_vars

\* Written before it runs: the world never changes for a request whose entry
\* does not say pending at that moment.
WrittenAhead ==
  [][\A r \in Requests : acts'[r] > acts[r] => journal[r] = "pending"]_vars

\* What the journal promises: Effects implements EffectOnce when one process at
\* a time works on the store.
Once == INSTANCE EffectOnce
          WITH asked     <- {r \in Requests : journal[r] # "none"},
               performed <- shown,
               answered  <- {r \in Requests : IsDone(r)}
ImplementsEffectOnce == Once!Spec

\* No entry stays pending: a run that is resumed settles what a crash left.  Only
\* a signature that ran out in between keeps the entry of an effect from it.
PendingSettles ==
  \A r \in Requests :
    journal[r] = "pending" ~>
      journal[r] # "pending" \/ (NeedsApproval(r[1]) /\ items[ItemOf[r[1]]] = "expired")
=============================================================================
