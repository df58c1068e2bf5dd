------------------------------ MODULE RunLoop ------------------------------
(***************************************************************************)
(* One run of a pipeline by `tac run` (tac/run.py): stage by stage, with a *)
(* checkpoint after every transition, stopped at the first stage that      *)
(* blocks, fails or waits for the owner, and resumed from the checkpoint.  *)
(*                                                                         *)
(* A process works on its own copy of the state and writes the whole copy  *)
(* at each save.  Agents, gates, effects and the owner answer as they      *)
(* please; the effect journal answers an effect once performed (Effects),  *)
(* a lease is given or refused (Leases).  Contents of the work tree are    *)
(* versions, so that what was gated and what was published can be told.    *)
(* "reviewed" and "verified" are both counted as "complete"; nothing in the *)
(* code sets "cancelled".                                                  *)
(***************************************************************************)
EXTENDS Integers, Sequences, FiniteSets, SequencesExt

CONSTANTS
  Procs,          \* `tac run` processes of this run
  Stages,
  Order,          \* Seq(Stages): pipelines.order
  Kind,           \* [Stages -> {"agent", "gate", "effect", "human"}]
  DependsOn,      \* [Stages -> SUBSET Stages]
  Gates,          \* [Stages -> Nat]: how many gates the stage has
  RetryMax,       \* [Stages -> Nat]: retry.max, 0 without a retry
  AsksOnFail,     \* [Stages -> BOOLEAN]: on_fail is not "stop"
  Applies,        \* [Stages -> BOOLEAN]: its `when` holds
  Commits,        \* [Stages -> BOOLEAN]: its effects begin with a commit
  Rest,           \* [Stages -> Seq(External)]: its other effects
  Merges,         \* [Stages -> BOOLEAN]: a human stage that merges
  ApprovalsAsked, \* BOOLEAN: approvals = "external-effects"
  Stall,          \* loop.blocks_no_progress
  MaxVersion,     \* bound on the versions of the work tree
  MaxEdits,       \* bound on the changes nobody in the run made
  MaxCrashes

External == {"push", "open-pr"}
NoSha == 0        \* versions count from 1
Asks == Stages \X {"question", "escalation"}

ASSUME RunLoopAssumption ==
  /\ Order \in Seq(Stages) /\ Range(Order) = Stages
  /\ Kind \in [Stages -> {"agent", "gate", "effect", "human"}]
  /\ DependsOn \in [Stages -> SUBSET Stages]
  /\ Gates \in [Stages -> Nat] /\ RetryMax \in [Stages -> Nat]
  /\ AsksOnFail \in [Stages -> BOOLEAN] /\ Applies \in [Stages -> BOOLEAN]
  /\ Commits \in [Stages -> BOOLEAN] /\ Merges \in [Stages -> BOOLEAN]
  /\ Rest \in [Stages -> Seq(External)]
  /\ ApprovalsAsked \in BOOLEAN
  /\ MaxVersion \in Nat \ {0} /\ {Stall, MaxEdits, MaxCrashes} \subseteq Nat

Versions == 1..MaxVersion
Satisfied == {"skipped", "complete"}
StageStates == Satisfied \cup {"ready", "running", "blocked", "waiting-human", "failed"}

\* state.json: per stage its state, whether it names a human item, the commit
\* its approval item is for, the commit and the other effects it observed; and
\* the status of the run.
State == [st : [Stages -> StageStates], asked : [Stages -> BOOLEAN],
          signing : [Stages -> 0..MaxVersion], sha : [Stages -> 0..MaxVersion],
          observed : [Stages -> SUBSET External],
          status : {"running", "blocked", "waiting-human", "failed", "complete"}]

VARIABLES
  disk, mem,         \* the checkpoint, and each process's copy
  pc, pos,           \* per process: step, and position in Order
  failed, reruns, stalled,   \* per process: the gate loop of _gated
  head_of, turn,     \* per process: the commit and the effect it performs
  items,             \* the owner's queue: per stage, its question or step, and
                     \* the escalation of its handoff
  approvals,         \* ... and its approval item for each commit
  committed, did,    \* the effect journal: commits, and the other effects
  work, head, gated, \* versions: the work tree, the branch, what gates passed
  edits, crashes

loop    == <<failed, reruns, stalled>>
acting  == <<head_of, turn>>
owner   == <<items, approvals>>
journal == <<committed, did>>
tree    == <<work, head, gated>>
bounds  == <<edits, crashes>>
vars == <<disk, mem, pc, pos, loop, acting, owner, journal, tree, bounds>>

TypeOK ==
  /\ disk \in State /\ mem \in [Procs -> State]
  /\ pc \in [Procs -> {"off", "advance", "agent", "dispatch", "repair", "gates",
                       "judge", "effect", "perform", "human", "settle", "stop"}]
  /\ pos \in [Procs -> 1..(Len(Order) + 1)]
  /\ failed \in [Procs -> Nat] /\ reruns \in [Procs -> Nat] /\ stalled \in [Procs -> Nat]
  /\ head_of \in [Procs -> 0..MaxVersion] /\ turn \in [Procs -> Nat]
  /\ items \in [Asks -> {"none", "open", "answered", "cancel"}]
  /\ approvals \in [Stages \X Versions ->
                      {"none", "open", "signed", "rejected", "expired"}]
  /\ committed \in [Stages -> 0..MaxVersion]
  /\ did \subseteq Stages \X External \X Versions
  /\ work \in Versions /\ head \in Versions /\ gated \subseteq Versions
  /\ edits \in 0..MaxEdits /\ crashes \in 0..MaxCrashes

Fresh == [st |-> [s \in Stages |-> "ready"], asked |-> [s \in Stages |-> FALSE],
          signing |-> [s \in Stages |-> NoSha], sha |-> [s \in Stages |-> NoSha],
          observed |-> [s \in Stages |-> {}], status |-> "running"]

Init ==
  /\ disk = Fresh /\ mem = [p \in Procs |-> Fresh]
  /\ pc = [p \in Procs |-> "off"] /\ pos = [p \in Procs |-> 1]
  /\ failed = [p \in Procs |-> 0] /\ reruns = [p \in Procs |-> 0]
  /\ stalled = [p \in Procs |-> 0]
  /\ head_of = [p \in Procs |-> NoSha] /\ turn = [p \in Procs |-> 1]
  /\ items = [a \in Asks |-> "none"]
  /\ approvals = [a \in Stages \X Versions |-> "none"]
  /\ committed = [s \in Stages |-> NoSha] /\ did = {}
  /\ work = 1 /\ head = 1 /\ gated = {}
  /\ edits = 0 /\ crashes = 0

\* Mutant: a skipped stage is looked at again.
RetriedToo == {"running", "blocked", "failed", "skipped"}
\* The states a resume tries again.
Retried == {"running", "blocked", "failed"}

Cur(p) == Order[pos[p]]
Goto(p, label) == pc' = [pc EXCEPT ![p] = label]

\* set_stage in memory: the stage is over and advance will settle it.
Becomes(p, state) ==
  /\ mem' = [mem EXCEPT ![p].st[Cur(p)] = state]
  /\ Goto(p, "settle")
Save(p) == disk' = mem'[p]

\* The stage raises, or catches what it called raising.
Fails(p) == Becomes(p, "failed") /\ UNCHANGED <<disk, owner>>

\* _ask: an item that exists, open or answered, is not asked again.
Ask(queue, key) == IF queue[key] = "none" THEN [queue EXCEPT ![key] = "open"]
                                          ELSE queue
WaitForItem(p, kind) ==
  /\ items' = Ask(items, <<Cur(p), kind>>)
  /\ mem' = [mem EXCEPT ![p].st[Cur(p)] = "waiting-human", ![p].asked[Cur(p)] = TRUE]
  /\ Goto(p, "settle")
  /\ UNCHANGED <<disk, approvals>>

\* What may happen to the work tree while somebody else's program runs in it.
Touched ==
  \/ UNCHANGED <<work, head>>
  \/ /\ work < MaxVersion /\ work' = work + 1
     /\ head' \in {head, work'}
  \/ head # work /\ head' = work /\ UNCHANGED work

-----------------------------------------------------------------------------
(* resume and advance *)

\* `tac run` and `tac run --resume`: the checkpoint, with what was left running,
\* blocked or failed ready again, saved as running.
Start(p) ==
  /\ pc[p] = "off"
  /\ mem' = [mem EXCEPT ![p] = [disk EXCEPT !.status = "running",
       !.st = [s \in Stages |-> IF disk.st[s] \in Retried
                                THEN "ready" ELSE disk.st[s]]]]
  /\ Save(p)
  /\ Goto(p, "advance")
  /\ pos' = [pos EXCEPT ![p] = 1]
  /\ UNCHANGED <<loop, acting, owner, journal, tree, bounds>>

End(p, status) == /\ disk' = [mem[p] EXCEPT !.status = status]
                  /\ Goto(p, "off")
                  /\ UNCHANGED <<mem, pos>>
NextStage(p) == pos' = [pos EXCEPT ![p] = @ + 1]

Unmet(p) == {d \in DependsOn[Cur(p)] : mem[p].st[d] \notin Satisfied}

\* The head of advance's loop.
Advance(p) ==
  /\ pc[p] = "advance"
  /\ IF pos[p] > Len(Order) THEN End(p, "complete")
     ELSE IF mem[p].st[Cur(p)] \in Satisfied
     THEN NextStage(p) /\ UNCHANGED <<disk, mem, pc>>
     ELSE IF Unmet(p) # {} THEN End(p, "blocked")
     ELSE IF ~Applies[Cur(p)]
     THEN /\ mem' = [mem EXCEPT ![p].st[Cur(p)] = "skipped"]
          /\ Save(p) /\ NextStage(p) /\ UNCHANGED pc
     ELSE /\ Goto(p, IF Kind[Cur(p)] = "gate" THEN "gates" ELSE Kind[Cur(p)])
          /\ UNCHANGED <<disk, mem, pos>>
  /\ UNCHANGED <<loop, acting, owner, journal, tree, bounds>>

\* Mutant: a stage that does not pass is tried again at once.
SettleOrRetry(p) ==
  /\ pc[p] = "settle"
  /\ disk' = mem[p]
  /\ IF mem[p].st[Cur(p)] \in Satisfied THEN NextStage(p) ELSE UNCHANGED pos
  /\ Goto(p, "advance")
  /\ UNCHANGED <<mem, loop, acting, owner, journal, tree, bounds>>

\* ... and its tail: the checkpoint of the stage, then the next one or the end.
Settle(p) ==
  /\ pc[p] = "settle"
  /\ disk' = mem[p]
  /\ IF mem[p].st[Cur(p)] \in Satisfied
     THEN NextStage(p) /\ Goto(p, "advance")
     ELSE Goto(p, "stop") /\ UNCHANGED pos
  /\ UNCHANGED <<mem, loop, acting, owner, journal, tree, bounds>>

Stop(p) ==
  /\ pc[p] = "stop"
  /\ End(p, IF mem[p].st[Cur(p)] \in {"waiting-human", "blocked"}
            THEN mem[p].st[Cur(p)] ELSE "failed")
  /\ UNCHANGED <<loop, acting, owner, journal, tree, bounds>>

Crash(p) ==
  /\ pc[p] # "off" /\ Goto(p, "off")
  /\ crashes < MaxCrashes /\ crashes' = crashes + 1
  /\ UNCHANGED <<disk, mem, pos, loop, acting, owner, journal, tree, edits>>

-----------------------------------------------------------------------------
(* agent_stage *)

\* Usage (Decisions), then a seat (Leases), then the checkpoint that says running.
AgentStage(p) ==
  /\ pc[p] = "agent"
  /\ \/ Becomes(p, "blocked") /\ UNCHANGED disk
     \/ Becomes(p, "failed") /\ UNCHANGED disk
     \/ /\ mem' = [mem EXCEPT ![p].st[Cur(p)] = "running"]
        /\ Save(p) /\ Goto(p, "dispatch")
  /\ UNCHANGED <<pos, loop, acting, owner, journal, tree, bounds>>

\* The result holds its contract: the stage's gates, if it has any.
Accept(p) ==
  /\ IF Gates[Cur(p)] = 0 THEN Becomes(p, "complete") /\ UNCHANGED disk
     ELSE UNCHANGED mem /\ Save(p) /\ Goto(p, "gates")
  /\ UNCHANGED owner

\* A headless session edits and commits as it likes.  Its result holds, does
\* not and gets one repair pass, or the stage raises.
Dispatch(p) ==
  /\ pc[p] = "dispatch" /\ Touched
  /\ \/ Accept(p) \/ Fails(p)
     \/ Goto(p, "repair") /\ UNCHANGED <<disk, mem, owner>>
  /\ UNCHANGED <<pos, loop, acting, journal, gated, bounds>>

\* _escalate: any item of this run and stage will do, a question it asked before.
Escalate(p) ==
  IF items[<<Cur(p), "question">>] = "none" THEN WaitForItem(p, "escalation")
                                            ELSE WaitForItem(p, "question")

\* The repair pass, in a session of its own.
Repair(p) ==
  /\ pc[p] = "repair" /\ Touched
  /\ Accept(p) \/ Fails(p) \/ Escalate(p)
  /\ UNCHANGED <<pos, loop, acting, journal, gated, bounds>>

-----------------------------------------------------------------------------
(* _gated: the gates of an agent stage or a gate stage *)

\* Mutant: the tree may have changes nobody committed.
CleanOrNot == TRUE
\* clean_revision: nothing is uncommitted.
Clean == head = work

\* One round of gates: n of them fail.  Each refuses a tree with uncommitted
\* changes, and refuses its own verdict when it changed the tree or moved HEAD.
Round(p, n) ==
  /\ Clean /\ UNCHANGED <<work, head>>
  /\ failed' = [failed EXCEPT ![p] = n]
  /\ gated' = IF n = 0 /\ Kind[Cur(p)] = "gate" THEN gated \cup {head} ELSE gated
  /\ Goto(p, "judge")

\* Any other end of a round: no receipt, and the stage fails.
NoVerdict(p) ==
  /\ IF Clean THEN Touched ELSE UNCHANGED <<work, head>>
  /\ Fails(p)
  /\ UNCHANGED <<failed, gated>>

RunGates(p) ==
  /\ pc[p] = "gates"
  /\ \/ NoVerdict(p)
     \/ \E n \in 0..Gates[Cur(p)] : Round(p, n) /\ UNCHANGED <<disk, mem, owner>>
  /\ reruns' = [reruns EXCEPT ![p] = 0]
  /\ stalled' = [stalled EXCEPT ![p] = 0]
  /\ UNCHANGED <<pos, acting, journal, bounds>>

MayRerun(p) == reruns[p] < RetryMax[Cur(p)] /\ stalled[p] < Stall

\* retry.on_failure is run as a gate too, so it is refused when it changes the
\* tree; then the gates again.
Rerun(p) ==
  /\ pc[p] = "judge" /\ failed[p] > 0 /\ MayRerun(p)
  /\ \/ NoVerdict(p) /\ UNCHANGED <<reruns, stalled>>
     \/ \E n \in 0..Gates[Cur(p)] :
          /\ Round(p, n)
          /\ reruns' = [reruns EXCEPT ![p] = @ + 1]
          /\ stalled' = [stalled EXCEPT ![p] = IF n < failed[p] THEN 0 ELSE @ + 1]
          /\ UNCHANGED <<mem, owner>> /\ Save(p)
  /\ UNCHANGED <<pos, acting, journal, bounds>>

\* The gates hold, or on_fail decides.
Judge(p) ==
  /\ pc[p] = "judge"
  /\ \/ failed[p] = 0 /\ Becomes(p, "complete") /\ UNCHANGED <<disk, owner>>
     \/ /\ failed[p] > 0 /\ ~MayRerun(p)
        /\ IF AsksOnFail[Cur(p)] THEN WaitForItem(p, "question") ELSE Fails(p)
  /\ UNCHANGED <<pos, loop, acting, journal, tree, bounds>>

-----------------------------------------------------------------------------
(* effect_stage *)

\* The commit, once per stage: the journal answers a second call.
CommitEffect(p) ==
  LET s == Cur(p)  v == IF committed[s] # NoSha THEN committed[s] ELSE work IN
  /\ pc[p] = "effect" /\ Commits[s] /\ mem[p].sha[s] = NoSha
  /\ \/ /\ committed' = [committed EXCEPT ![s] = v]
        /\ head' = IF committed[s] # NoSha THEN head ELSE work
        /\ mem' = [mem EXCEPT ![p].sha[s] = v]
        /\ Save(p)
        /\ UNCHANGED <<pc, owner>>
     \/ Fails(p) /\ head' \in {head, work} /\ UNCHANGED committed
  /\ UNCHANGED <<pos, loop, acting, did, work, gated, bounds>>

NeedsApproval(s) == ApprovalsAsked /\ Rest[s] # <<>>

\* The commit the stage publishes.
Sha(p) == IF Commits[Cur(p)] THEN mem[p].sha[Cur(p)] ELSE head

\* Mutant: whatever the owner decided will do.
RefusedIfOther(s, w, v) == w # v
\* Effects.authorize on the approval item for commit w.
Refused(s, w, v) == w # v \/ approvals[<<s, w>>] # "signed"

\* The rest, for one commit: done already, to be asked for, waiting, refused, or
\* authorized.
EffectStage(p) ==
  LET s == Cur(p)
      v == Sha(p)
      w == mem[p].signing[s]
  IN
  /\ pc[p] = "effect" /\ v # NoSha
  /\ \/ /\ Range(Rest[s]) \subseteq mem[p].observed[s]
        /\ Becomes(p, "complete") /\ UNCHANGED <<approvals, acting>>
     \/ /\ ~(Range(Rest[s]) \subseteq mem[p].observed[s])
        /\ NeedsApproval(s) /\ w = NoSha
        /\ approvals' = Ask(approvals, <<s, v>>)
        /\ mem' = [mem EXCEPT ![p].st[s] = "waiting-human", ![p].signing[s] = v]
        /\ Goto(p, "settle") /\ UNCHANGED acting
     \/ /\ ~(Range(Rest[s]) \subseteq mem[p].observed[s])
        /\ NeedsApproval(s) /\ w # NoSha /\ approvals[<<s, w>>] = "open"
        /\ Becomes(p, "waiting-human") /\ UNCHANGED <<approvals, acting>>
     \/ /\ ~(Range(Rest[s]) \subseteq mem[p].observed[s])
        /\ NeedsApproval(s) /\ w # NoSha /\ approvals[<<s, w>>] # "open"
        /\ Refused(s, w, v)
        /\ Becomes(p, "failed") /\ UNCHANGED <<approvals, acting>>
     \/ /\ ~(Range(Rest[s]) \subseteq mem[p].observed[s])
        /\ NeedsApproval(s) =>
             w # NoSha /\ approvals[<<s, w>>] # "open" /\ ~Refused(s, w, v)
        /\ head_of' = [head_of EXCEPT ![p] = v]
        /\ turn' = [turn EXCEPT ![p] = 1]
        /\ Goto(p, "perform") /\ UNCHANGED <<mem, approvals>>
  /\ UNCHANGED <<disk, pos, loop, items, journal, tree, bounds>>

\* Each effect in turn, a checkpoint after each; the done ones are answered
\* from the journal.  One that fails may have taken effect (Effects).
Perform(p) ==
  LET s == Cur(p)  e == Rest[s][turn[p]]  act == <<s, e, head_of[p]>> IN
  /\ pc[p] = "perform" /\ turn[p] <= Len(Rest[s])
  /\ \/ /\ did' = did \cup {act}
        /\ mem' = [mem EXCEPT ![p].observed[s] = @ \cup {e}]
        /\ Save(p)
        /\ turn' = [turn EXCEPT ![p] = @ + 1]
        /\ UNCHANGED <<pc, owner>>
     \/ /\ e \notin mem[p].observed[s] /\ did' \in {did, did \cup {act}}
        /\ Fails(p) /\ UNCHANGED turn
  /\ UNCHANGED <<pos, loop, head_of, committed, tree, bounds>>

PerformEnds(p) ==
  /\ pc[p] = "perform" /\ turn[p] > Len(Rest[Cur(p)])
  /\ Becomes(p, "complete")
  /\ UNCHANGED <<disk, pos, loop, acting, owner, journal, tree, bounds>>

-----------------------------------------------------------------------------
(* human_stage *)

\* _pull_request: a pull request and a pushed head among what was observed.
PullRequest(p) == \E s \in Stages : External \subseteq mem[p].observed[s]

\* Mutant: any item will do.
ItemMissing(p) == items[<<Cur(p), "question">>] = "none"
ItemOpen(p) == items[<<Cur(p), "question">>] = "open"

HumanStage(p) ==
  /\ pc[p] = "human"
  /\ IF mem[p].asked[Cur(p)]
     THEN /\ Becomes(p, IF ItemOpen(p) THEN "waiting-human" ELSE "complete")
          /\ UNCHANGED <<disk, owner>>
     ELSE IF Merges[Cur(p)] /\ ~PullRequest(p) THEN Fails(p)
     ELSE WaitForItem(p, "question")
  /\ UNCHANGED <<pos, loop, acting, journal, tree, bounds>>

-----------------------------------------------------------------------------
(* The owner, and whoever else edits the work tree *)

\* Any answer closes an item; the question of a failed stage offers to cancel.
Answer(a) ==
  /\ items[a] = "open"
  /\ \/ items' = [items EXCEPT ![a] = "answered"]
     \/ /\ a[2] = "question" /\ Kind[a[1]] # "human"
        /\ items' = [items EXCEPT ![a] = "cancel"]
  /\ UNCHANGED <<disk, mem, pc, pos, loop, acting, approvals, journal, tree, bounds>>

\* `tac approve`, either way, and the end of a signature's life.
Decide(a) ==
  /\ \/ approvals[a] = "open" /\ approvals' \in {[approvals EXCEPT ![a] = "signed"],
                                                 [approvals EXCEPT ![a] = "rejected"]}
     \/ approvals[a] = "signed" /\ approvals' = [approvals EXCEPT ![a] = "expired"]
  /\ UNCHANGED <<disk, mem, pc, pos, loop, acting, items, journal, tree, bounds>>

Edit ==
  /\ edits < MaxEdits /\ edits' = edits + 1
  /\ Touched /\ <<work, head>>' # <<work, head>>
  /\ UNCHANGED <<disk, mem, pc, pos, loop, acting, owner, journal, gated,
                 crashes>>

-----------------------------------------------------------------------------
Step(p) ==
  \/ Advance(p) \/ Settle(p) \/ Stop(p)
  \/ AgentStage(p) \/ Dispatch(p) \/ Repair(p)
  \/ RunGates(p) \/ Rerun(p) \/ Judge(p)
  \/ CommitEffect(p) \/ EffectStage(p) \/ Perform(p) \/ PerformEnds(p)
  \/ HumanStage(p)

Next ==
  \/ \E p \in Procs : Start(p) \/ Step(p) \/ Crash(p)
  \/ \E a \in Asks : Answer(a)
  \/ \E a \in Stages \X Versions : Decide(a)
  \/ Edit

Spec == Init /\ [][Next]_vars

\* A running process goes on: every call it makes has a time-out.
FairSpec == Spec /\ \A p \in Procs : WF_vars(Step(p))

-----------------------------------------------------------------------------
(* Properties *)

\* No stage is ever past "ready" in the checkpoint before all it depends on is
\* done, over crashes, failures and resumes.
DependenciesFirst ==
  \A s \in Stages : disk.st[s] # "ready" =>
    \A d \in DependsOn[s] : disk.st[d] \in Satisfied

\* The checkpoint never forgets what is done: no resume reruns a done stage,
\* or drops the commit and the effects a stage observed.
DoneIsKept ==
  [][\A s \in Stages :
       /\ disk.st[s] \in Satisfied => disk'.st[s] = disk.st[s]
       /\ disk.sha[s] # NoSha => disk'.sha[s] = disk.sha[s]
       /\ disk.observed[s] \subseteq disk'.observed[s]]_vars

\* Unless someone outside the run edits the tree, what is published is exactly a
\* version a gate stage passed, whatever the agents, failed repairs and restarts
\* in between left in it.
PublishedWasGated ==
  edits = 0 => \A d \in did : d[2] = "push" => d[3] \in gated

\* Nothing leaves the machine that the owner did not sign for that very commit.
NoEffectUnsigned ==
  \A d \in did : ApprovalsAsked => approvals[<<d[1], d[3]>>] \in {"signed", "expired"}

\* Exit 0 means done: every stage that applies completed, every effect was
\* performed and every step of the owner's was answered.
CompleteMeansDone ==
  disk.status = "complete" =>
    \A s \in Stages :
      /\ disk.st[s] = IF Applies[s] THEN "complete" ELSE "skipped"
      /\ Kind[s] = "effect" /\ Applies[s] => Range(Rest[s]) \subseteq {d[2] : d \in did}
      /\ Kind[s] = "human" /\ Applies[s] => items[<<s, "question">>] = "answered"

\* What the checkpoint says, of a stage on the way and of the run at its end, is so.
CheckpointIsTrue == DependenciesFirst /\ CompleteMeansDone

\* Every `tac run` comes to an end: the gate loop and the repair pass are bounded.
RunEnds == \A p \in Procs : pc[p] # "off" ~> pc[p] = "off"

=============================================================================
