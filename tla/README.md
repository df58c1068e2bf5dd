# TLA+ models of TAC

TAC (`tac`) runs agents over a repository: it starts headless sessions of two
vendors' clients, gates what they build, asks the owner for consent, and
performs the effects that leave the machine itself. The product is
`src/src/tac`; `.agents/lib/tac` is a stamped copy of it, byte for byte, so that
every line of the product exists twice in the repository and is modelled once.
This directory models the parts where the order of events matters: what is
written before what, who else acts in between, and what a restart finds; and the
decisions that many other steps lean on.

Nothing is a daemon with shared memory. Every actor is a process of its own
(`tac run`, `tac inbox watch`, an agent, a client's hook, the owner's `tac
approve`), and they meet in files: the controller store (journal, checkpoints,
tokens, consumed approvals), the worker store (inbox, envelopes, sessions), the
host's leases, the owner's queue in the checkout, the work tree, the remote and
GitHub. A process can be killed between any two writes.

## The system's parts

| part | code | state | operations | what is hard, and what must hold |
|---|---|---|---|---|
| effect journal | `effects.py` | one file per idempotency key, receipts, `approvals/consumed.jsonl` | authorize, perform (commit, push, open-pr), reconcile | kills between writes, commands that take effect and then fail, two processes; a done entry is true, one approval serves one stage, nothing leaves unsigned |
| host leases | `leases.py` | one file per seat, one lock | acquire, release, reclaim | dead holders, half-written files, a release without the lock; no seat lost, none given twice |
| worker inbox | `inbox.py` | `inbox.jsonl`, outcomes, a cursor | watch | half-written and over-long lines, kills between effect, outcome and cursor; every line is answered and acts once |
| run loop | `run.py` | a checkpoint per run | advance, resume, four kinds of stage | resumes over crashes and the owner's answers; dependencies, gates and consent hold for what is published; a run ends |
| runner | `runner.py`, `runner_cli.py` | the key, dispatch tokens, the receipt server and its socket | gate, probe, issue and consume a token, init, serve | a checkout that changes under a gate, recipes that outlive their runner, servers that start while others close; one token, one spawn; a gate judges exactly one revision |
| keychain | `keychain.py`, `runner_cli.py` | the login keychain's item | import, read, write | the key moves from a file to the keychain in steps that fail or are killed; one key for ever |
| approvals | `approvals.py` | the signature in an item, a copy in the store | approve, verify_signed, verify_github | kills between the item and its copy, expiry, a changed action, a push or a review between two calls to GitHub; only the owner's consent counts, for what was asked |
| human queue | `human.py`, `human_cli.py` | one JSON file per item, the rendered page | ask, answer, verify | two commands on one item, a kill between or in the middle of writes; no item, answer or decision is lost |
| usage | `usage.py` | one sample per provider | record, judge, spawn_state | resets and thresholds |
| pipelines | `pipelines.py` | none (files) | order, find_cycle, check | an order that respects dependencies, an effect behind a gate, a payload from the stage the file means |
| handoffs | `handoff.py`, `contracts.py` | envelopes | render, validate, upstream | contracts amended in between; one repair, then the owner; what is handed on met its contract |
| memory | `memory.py` | records, events, an index | add, promote, derive, select, lint | append under a lock, torn lines, a promotion cut short; what an agent is told stands, and every rule is told |
| work orders | `work.py`, `work_cli.py` | a folder per order, its reviews, branches, the last result of its checks | packet, review, sign-off, acceptance, sweep, plan, CI, check, repair | people commit while others read, cars carry several orders, main is merged back, a tree is edited while it is measured; what lands is what was accepted, by the right people |
| standards | `standards.py`, `config.py`, `commits.py` | the floor's file, the project's, waivers | apply_floor, floor_check, explain, rules | a candidate judged by its base's floor, values one file leaves out, waivers that run out; nothing an earlier floor asked is lost |
| receipts | `receipts.py` | signed files | verify_committed | which receipts bind which revision; a green check judged the head |
| session logs | `session.py`, `session_cli.py` | a file per session and day, a roll-up, purged files, an audit | log, index, purge | two locks, an open file that is moved, one temporary name; no event is lost |
| sync | `sync.py`, `adapters.py` | generated files, `generated.lock` | sync, check | inputs read twice, files written in place, kills, lost locks; check passes renders only |
| hooks | `hook.py`, `hooks/run.py` | none | one verdict per event | fails closed |
| GitHub gate | `github.py`, `github_cli.py` | the repository's rulesets, on GitHub | apply, judge | people change settings between the calls of one judgement, calls fail or hide what only the owner may see; a gate that never held is not reported to hold |
| proof | `proof.py`, `proof_cli.py` | outcomes and reports in `dev/out` | coverage, dev | a checkout looked at once, outcomes an earlier proof left, two proofs at once; what succeeded was given by the revision it names |
| launcher, linters | see `PROJECT.json` | | | I/O, parsing or text without a state of their own |

`PROJECT.json` lists every part with what is modelled of it, and the hazards of
the code at their lines.

## Modules

| module | models | states and actions |
|---|---|---|
| `Effects` | `effects.py` | `journal`, `receipts`, `consumed` are the store; `tree`, `log`, `remote`, `pr` the world. One action per write or command of `authorize`, `perform`, `_run` and `reconcile`; `pc` is where a process is between two of them. `shown` and `acts` are history variables |
| `EffectOnce` | what the journal promises | asked, performed, answered |
| `EffectsProofs` | theorems of `Effects` | |
| `Leases` | `leases.py` | `file` is the folder, `lock` the flock; `Judge` is one turn of the scan, `Take` and `Write` the two steps of writing a lease |
| `HostSeats` | what `acquire` and `release` promise | `seated`; to enter, which counts and takes a seat at once, and to leave |
| `Gates` | `gate` and `clean_revision` of `runner.py` | `tree` and `head` are the checkout, `gate` where each gate is and what it saw, `orphans` what a recipe that ran out of time left running; one action per look (status, then rev-parse), verdict and change of the checkout; `moved` is history |
| `Runner` | the key and the socket of `runner.py`, `runner_cli.py`, `keychain.py` | `file` and `chain` hold the key, `lock` and `sock` the server's; one action per look, write and read-back of `init`, `keychain import` and `serve`; `mixed` is history |
| `GitHub` | `github.py`, its check in `doctor.py` | `rulesets` and `default` are the settings, `call` what the command under way has read; one action per call of `apply_ruleset` and `judge_rulesets` and per change by hand; `gateHeld` and `gateFailed` are history |
| `Proof` | `coverage` and `dev` of `proof.py` | `work` and `head` are the checkout, `junit` the outcomes file of each kind, `prove` where a command is and what it saw; one action per look, derivation, run and write; `disturbed` and `crossed` are history |
| `Host` | what a host has one of: `Leases`, `Gates`, `Runner`, `GitHub`, `Proof` and `Sync`, which share no state | `part` is the one that goes on in a behaviour; one action per part |
| `HostProofs` | theorems of `Host` and its six parts | |
| `Dispatch` | `dispatch` of `run.py`, the tokens of `runner.py`, the spawn guard of `hook.py` | what the runner issued and spent, the two copies of what a session was dispatched as (record and marker), and each spawn call on its way through the guard; the loop, the guard and the token server are actors of their own |
| `DispatchProofs` | theorems of `Dispatch` | |
| `Memory` | `memory.py` | `records`, `events`, `quarantined` are the live journal, `page`, `promoted`, `index` the checkout; a command decides under the lock (`Add`, `AppendEvent`, `Promote`), holds the fragments it found (`Hold`, `toHold`), then writes one line a step (`Write`, `todo`), and is killed between two lines (`Kill`) or in one (`Tear`) |
| `Inbox` | `inbox.py` | the file as a sequence of pieces as they were written, so that an offset in the middle of a line exists; one action per line read, judged, performed, answered, saved |
| `InboxProofs` | theorems of `Inbox` | |
| `RunLoop` | `run.py`, the clean tree of `Runner.gate` | `disk` is the checkpoint, `mem` the copy of a process; one action per step of `advance` and of the four stage functions that saves, asks or acts |
| `RunLoopProofs` | theorems of `RunLoop` | |
| `WorkOrders` | `work.py`, `work_cli.py` | branches as sequences of commits, a commit as its tree and the state of main it stands on; a ruling is read (`Packet`) and written (`Rule`) while others commit, merge main back (`Sync`), load a car (`Load`), sweep (`Sweep`), run `CI` and merge (`Merge`) |
| `Repository` | what a repository carries: `WorkOrders` and `Memory`, which share no state | `part` is the one that goes on in a behaviour; one action per part |
| `RepositoryProofs` | theorems of `Repository` and its two parts, and of `Decisions` | |
| `OwnerQueue` | `human.py`, `approvals.py`, `human_cli.py` | `queue` are the items, `copies` the controller store, `cmd` what a command read and has still to write; `Open` and `Fill` are the two steps of `write_item`, between which the file is empty, and which a kill or another writer leaves empty or torn; `VerifyPull` and `VerifyReviews` are the two calls of one `tac human verify`; `decided` and `shared` are history variables |
| `OwnerQueueProofs` | theorems of `OwnerQueue` | |
| `Sync` | `sync.py` | `disk` names each generated file by the tree it was rendered from, `lock` holds a tree and such names; one action per file removed or written, `Clean` is `check_tree`; `stray` and `quiet` are history variables |
| `Sessions` | `session.py`, `append_line` and `locked` of `memory.py` | `files` by place, `audit`, `index` and its temporary file, the two locks; one action per open, look, write, move, audit line, roll-up; `crossed`, history, are the days whose last command met one under the other lock or was killed |
| `SessionsProofs` | theorems of `Sessions` | |
| `Plan` | `plan`, `overlap` and `collisions` of `work.py` | operators: the groups a goal's orders are launched in, and what such a plan has to mean |
| `Pipelines` | `pipelines.py`, `_inputs` of `run.py` | operators: the search for a cycle (`find_cycle` recurses; `Visit` is one step of it, with the trail it is on and the stages it has closed), the order, the ancestors, the check, the stage a read is answered from |
| `Receipts` | `verify_committed` of `receipts.py` | operators: which receipts of a pull request verify, and what is missing |
| `Handoff` | `validate` and `upstream` of `handoff.py` | operators: what becomes of an envelope over results, amendments and new dispatches, and what a later stage is given after each |
| `Selection` | `select` and `derive` of `memory.py` | operators: what a record is at a moment, and the lines a stage is given within its room |
| `Standards` | `standards.py`, `_apply_standards` and `floor_check` of `config.py`, `rules` of `commits.py` | operators: values under a floor, the check of a change, what stands after several changes |
| `Checks` | `run_check` and `repair` of `work.py`, the stop hook | operators: the recorded result and the answers given, over edits, a moving base, kills and two runs at a time |
| `Decisions` | composition of `Plan`, `Pipelines`, `Receipts`, `Handoff`, `Selection`, `Standards` and `Checks` | one of the seven is asked of one input (`asked`, `input`) and answers (`answer`); the inputs are goals, pipelines, pull requests, what happens to a stage, a memory and what is asked of it, changes to the standards, what happens to an order's checks |
| `MC*` | instances for TLC | constants: the values of the parameters, and for `Decisions` the sets of inputs |

`RunLoop` stands on `Effects`, `Leases` and `Dispatch`: its `Perform` takes from
`Effects` that a done effect is answered and not repeated, its `AgentStage` from
`Leases` that a seat is given or refused, and its order from `Pipelines`. `Inbox`
takes one step for `Effects.perform`. What an approval allows in `Effects` and
`RunLoop` is what `OwnerQueue` says of a verified item. A mutant of an operator
(`\* Mutant:`) stands before it and is used by no specification; it says which
slip of the code each property notices.

### What is abstracted

- A request stands for its idempotency key; messages, titles and arguments are
  what `Binds` compares: the batches one item is good for are the same effects on the
  same branch and commit (`BindsAssumption`), as `authorize` refuses any other. Commits of a branch are numbered in the order they are made.
- Work trees are versions (`RunLoop`) or a set of changes (`Effects`).
- What an agent, a gate, a contract check, usage or the owner answers is a
  choice, any of them at any time. A failing command may have taken effect
  (`LateKinds`) or not.
- In `Memory`, which records contradict or supersede which is a constant; validity
  windows, topics, decay levels and the evidence behind a strong basis are left
  to choices. A record's file and the index are written in one step or torn.
- Time is the expiry of a signature: in `Effects`, `Decide` may let a signed item
  run out; in `OwnerQueue` it is a clock of two ticks.
- In `WorkOrders` a patch is what a path held before and after; two patches are
  the same when they lead from the same to the same. One ruling is read at a time.
  An `order.toml` of its own branch may say `reference = true` (`Example`); CI then
  skips the order, as the code does.
- In `OwnerQueue` a file that no item can be read from stays so: somebody has to mend or
  remove it. The copy in the controller store has a name of its own; one whose writer is
  killed in the middle of it is nobody's record and is left out. `RunLoop` takes its own
  asks as whole.
- In `Sync` a file's text is named by the tree it was rendered from; any other
  text is `Foreign`. In `Sessions` an event is its number, a hash what it is of.
- In `Plan` and `Pipelines` orders and stages are lists, as they are read; a goal's budget
  below zero is none. In `Pipelines` the shape of a stage is left out, so that a stage
  depends on itself or on nothing there only where the check says so (`Strays`).
- In `Handoff` a result is the set of the contract's versions it meets. In
  `Receipts` keys, repositories and the policy's hash are one bit, `signed`, and
  `reference` are the orders whose `order.toml` in the head says they are examples.
- In `Selection` a line is the room it takes, a time a number, and ids sort as the
  records are numbered; levels, which decay, are not asked for. In `Standards` a
  list is the set of what it holds, an enum's value its place in the order; of the keys the
  commit check reads (`Parts`) a waiver lifts only some one by one (`Liftable`: not `em_dashes`).
- In `Checks` a tree stands for its key, and what the commands say is what they
  say of the tree they ran on.
- In `GitHub` a ruleset is what the judge tells apart: active, named as ours, the
  branch it covers, whether it can be bypassed, whether it asks for review and checks.
- Logging, wording, rendering and pages are left out.

## Runs

Every run is exhaustive over its bounds. Model values are the processes,
stages, items and branches.

| run | what it shows | bounds and why they suffice |
|---|---|---|
| `effects_one` | the journal is true (a done entry was shown by the world and has its receipt first), nothing acts without consent, one approval serves one stage; one process at a time, two runs that publish one branch under one approval, an inbox effect of M4; the refinement of `EffectOnce`; a crash is settled in the end | 3 faults (a crash, a failure that took effect and a failing look can meet in one retry), 1 later edit, 1 closed pull request |
| `effects_race` | violated: a run's stage and an inbox line that ask for the same pull request both act under one approval | 2 processes, no faults; the pull request is closed once, without which the second would find the first's and act no more |
| `host` | seats are neither lost nor over-given, as if counting and taking one were a single step (the refinement of `HostSeats`); a receipt is of the revision it names; one key is ever handed out, and the serving runner is reached at the socket; a report on the rulesets was true while they were read, and only the owner is told that they hold; a proof that succeeds was given by the revision it names; what check passes is what a sync would write, and an undisturbed sync repairs whatever it finds (six systems that share no state, one to a behaviour) | 3 runners with budgets 2, 2, 1; 4 pids and files, 2 kills. 2 gates, 2 trees, 2 changes: one to move the checkout, one to bring it back, which is the case the property excepts. 3 runners' commands, 4 starts, 4 keys: an init against an init, each against an import and a server, and one after all of them. 2 rulesets, 2 changes by hand, one more than a true report is promised under; every viewer. 2 proofs of either kind, 3 trees, 1 change of the checkout, so that the second proof finds what the first one left. 3 trees that render different sets of 3 files, one of them in a folder generated whole; 3 edits of inputs, outputs or lock and 2 kills of a sync: enough to lose the lock, put a file by hand and change the inputs around a sync that was killed |
| `inbox_one` | lines are answered, truly, and act once; each is answered in the end | 3 pieces of 5 kinds, 1 crash, the inbox cut once |
| `runloop_one` | safety of a whole pipeline, agent to merge, with approvals; every `tac run` ends | one stage of each kind and one skipped; 2 versions of the tree, so that it can change between build, gate and publication; 1 outside edit, 1 crash |
| `dispatch_tokens` | a token starts one agent, the one it was issued for; a spawn is what was dispatched, with its evidence written before; only the owner's chat spawns without | 2 dispatched sessions and the chat, 2 tokens, 2 calls (two are enough to race), a killed server, abandoned dispatches, an edited record; symmetric in what is only compared |
| `repository` | an order's files reach main as its reviewer and its cross teams' managers accepted them, and its branch leaves the files of others alone, unless the merged tip calls the order an example; the memory journals are true (numbers dense, fragments held, events name what is known), and only the confirmed is promoted (two systems that share no state, one to a behaviour) | 2 orders, one of which crosses a team, and a car; a builder, a reviewer of the other provider and a manager; 2 edits, rulings and merges, 6 commits: a ruling can go stale, be renewed, and be carried by the car. 2 memory commands, 3 records (one contradicts, one supersedes the first), 3 events, 1 kill, 1 fresh clone; symmetric in the commands |
| `owner_queue` | an item is verified as approved only by what the owner decided for it; no decision or answer goes but with a writer killed in the middle of `write_item`; a copy is what its item carries | 2 commands, 2 items (a question, an approval that a review may give), 2 revisions, 2 actions, the expiry; any 2 of: push, review, dismissal, edit by hand, kill, two commands on one item, a command under a verify; symmetric in the commands |
| `owner_queue_race` | violated: of two asks that take one id the later overwrites the earlier | as `owner_queue` |
| `session_log` | every event is in one file, in order, and audits are true; the roll-up is right after any log or purge that met none of the other kind and ran to its end | 2 commands, 2 sessions one of whose ids looks like a purged copy's name, 2 days, 2 events, 3 purges, 1 kill; symmetric in the commands |
| `decisions` | seven pure decisions agree with what they have to mean on every input | goals of 3 orders with any needs among them and an outside one, 2 teams, overlapping folders and files, a budget of nobody, of two and of all; pipelines of 3 stages of every kind in every graph, every graph of 4 stages that do nothing, and 2 that depend on themselves or on nothing there; 3 commits and 2 receipts of 2 orders; 6 events of a stage; 3 memory records with 4 sets of reviews and 2 more remarks at 2 moments; 2 changes to a key of each kind of rule, each on a waiver's last day or the next, in either order; 6 events of an order's checks, 2 runs at a time |

Properties are about hazards and not about single assignments: each relates the
store to the world, an earlier state to a later one, or two actors. Deadlock is
checked where a process that stopped can be started again. In `dispatch_tokens`,
`repository`, `owner_queue`, `owner_queue_race`, `session_log` and
`decisions` it is not: calls, events, edits and commits are a finite supply
there, and once it is used up nothing is left to do.

These properties make an exception that the code's design makes:
`ReceiptIsOfItsRevision` excepts a checkout that was changed twice between two
looks, there and back, and receipts of a timeout, `ReportIsTrue` a reading during which more than one setting changed, `ProofIsOfItsRevision` a checkout that changed under a proof (`disturbed`; nothing looks again) and a proof of the same kind that overlapped (`crossed`), `OneKey` an init that overlaps
an import (`mixed`; see the divergences), `PublishedWasGated` runs whose tree someone else edits, `ItemsAreKept` (its halves
`NothingLost` and `CopyIsTheItems`) items two commands had at once (`shared`: the queue has no lock;
`ConsentIsTheOwners` needs no such exception, and `owner_queue_race` is about them) and items whose
writer is killed with the file open, `LandedAsRuled` and `OthersFilesKept` orders the
merged tip calls examples, as `ReceiptsAreOfTheHead` those the head does,
`IndexIsTheDays` days on which the last command met one under the other lock or was killed
(`crossed`; the next one by itself mends the roll-up), `CleanIsRendered`
files put there by hand or whose lock line was lost (`stray`), and `PlanIsSafe` a goal whose
budget is of nobody, which the code reports as a cycle. The runs contain
the excepted cases, so the other half of each property is checked next to them.

### Fairness

- `Effects.FairSpec`: a running process goes on (every command has a timeout),
  a stopped one is started, and a batch that can be authorised again and again
  is in the end (strong fairness: the owner resumes a run until it is through).
  `PendingSettles` needs it, and excepts a signature that ran out.
- `Inbox.FairSpec`: the watch loops and is started again.
- `RunLoop.FairSpec`: only steps of a running process; nothing is assumed of the
  owner, usage or restarts, since `RunEnds` says that a started process stops.

## Proofs

`tlapm` proves in the `*Proofs` modules, for every value of the constants that
satisfies the modules' assumptions:

- `Effects`, any number of processes: `TypeOK`, `JournalIsTrue`
  (`DoneShown` and `ReceiptBeforeDone`), `ActsOnlyOnConsent`. The inductive invariant `IInv` adds
  to the types what a process knows at each step: where it is implies what it
  holds (`Control`, `LocalOK`), what the world showed when it passed on to the
  receipt, and that a batch past `append` has its record in `consumed`. It is
  needed because the properties speak of the store only, while the reason they
  hold sits in what a process remembers between its steps. What nobody takes
  back (`consumed`, `shown`, a decision) is collected in `Monotone`, so that
  what one process knows survives the steps of the others.
- `Effects`, one process (`OneProcess`): `OneStagePerApproval`, `DoneIsFinal`,
  `WrittenAhead`, and the refinement of `EffectOnce`. For two processes the
  first is refuted by `effects_race`; the others fail too, since nothing locks
  an entry.
- `Dispatch`, any number of loops, sessions, tokens and calls: all
  properties of the run. The inductive invariant is named by what
  it is about: `TokensOK` (an issued token is bound to a session of its own, no
  chat), `MarkersOK` (a marker names the stage of the session's token and stands
  before the session runs), `LoopsOK` (what a loop remembers agrees with its
  token), `RecordsOK` (a record names an issued token), `CallersOK` (a caller is
  a chat or has its marker), `GuardsOK` (what a guard holds at each of its
  steps) and `WinnersOK` (a token is renamed away by one call only, and granted
  only where it fits). The last is what carries
  `OneSpawnPerToken`: the rename decides, and everything between it and the
  spawn must remember who won, over a dead server and a guard that gave up.
- `OwnerQueue`, any number of commands, items and turns: `CopyIsTheItems`,
  `NothingLost` and `ConsentIsTheOwners`. `Alone` says that what the one command
  that has an item will store succeeds what is there, and that a file it has open is empty;
  `ItemFirst` that a record is in its item before it is copied; `SignedByOwner` that every signature in the
  queue or in a command's hand was given by the owner. Both properties of what is kept
  speak of the item that stands (`Standing`): the file's, or that of the command that has the file open;
  `Open` and `Fill` pass it from the one to the other, and only a kill between them, which is
  excepted, leaves none. Only these two need the exception for items two commands had. The review GitHub's answer turns on is the
  latest of the owner's, which the lemma `Greatest` finds by well-foundedness.

- `RunLoop`, any number of processes of a run: `TypeOK`, `CheckpointIsTrue`
  (`DependenciesFirst` and `CompleteMeansDone`) and `NoEffectUnsigned`; for one
  process `DoneIsKept`. The
  properties speak of the checkpoint, but what is saved is the whole copy of some
  process, so the invariant says the same of every copy (`CopyOK`), and what a
  process holds at each step about the one stage it is at (`Control`), which is
  what makes the copy right again at the next save. It never takes back what the
  world did (`did`, an answered question, a signature), so that a copy read long
  ago stays true of it. `DoneIsKept` adds that the process's copy is no older than
  the checkpoint (`Keeps`), which a second process would refute. `PublishedWasGated` is
  proved for one process and pipelines in which a gate guards each push
  (`PushesAreGuarded`): whatever edits the tree is done before that gate passes or
  begins after the push. The shipped pipelines `order` and `release` are so; the check of
  `pipelines.py` asks less (see the divergences), and without the assumption the property
  is false. The invariant (`TreeOK`) follows the tree: from the gate's pass until the push is done the
  tree is committed and passed (`GatedIsSealed`), over kills and resumes, because whoever
  could change it is known from the checkpoint to be done or not yet begun.

- `Host`, of each of its six parts; `PartsAreThemselves` says that a behaviour of the
  host is one of each part, so that what is proved of a part holds in the run:
  - `Leases`, any number of runners, kills, and pid reuse: `SeatKept`,
    `BudgetKept` and the refinement of `HostSeats` (`ImplementsSeats`), which the run
    checks and from which the second follows. The invariant says that live pids differ, that a seated runner's
    lease is on disk under its pid, and that a scan under the lock has counted or
    has still to judge each seated runner's lease; hence who passed the count is within its
    budget until its lease is written (`RoomLeft`), and the write is the one step that
    enters. `RefusedOnlyWhenFull` is proved for a
    kernel that does not give a pid out again (`PidReuse = FALSE`): then a lease on disk
    whose pid is alive is its owner's, and every lease a scan counts was of a runner
    seated when it began.
  - `Gates`, any askers, trees and number of changes: `ReceiptIsOfItsRevision`. A
    wrong answer needs a change under the recipe, and `MovedOnce` says what one change
    cannot take back: the tree or HEAD is no longer the revision's, and once the second
    look found the tree clean it is HEAD that gives it away.
  - `Runner`, any processes, commands and keys, given that nobody is not a process and
    no key is not a key (`Names`): `SocketIsTheServers`, since whatever touches the path
    holds the lock (`SockInv`), and `OneKey`. For the latter, what can be read from the
    keychain or the file is one key (`OneStored`), whatever anybody holds can be read
    there (`HeldIsStored`), and only an init that still finds the keychain empty writes
    another (`Maker`).
  - `GitHub`, any number of rulesets and changes: `ReportIsTrue`. While nothing changes,
    what a judgement listed is what enforces (`FreshLook`); and one change cannot make an
    answer false, since whatever a ruleset still to be read will say was true before the
    change or is now (`OneChange`).
  - `Proof`, any provers, trees and outcomes: `ProofIsOfItsRevision`. A proof of a clean
    checkout that nobody changed is, at each of its steps, about the revision it names
    (`OfItsRevision`): the map it derived, the outcomes it took and, unless it was crossed,
    the outcomes file it reads back.
  - `Sync`, any trees, files, edits and kills: `CleanIsRendered` and `SyncRepairs`.
    The invariant (`RenderInv`) says where a generated file can come from: the lock lists
    it, a hand put it there, or the sync under way has just written it; that what the old
    lock lists and the render lacks is removed or still to be removed; and that,
    undisturbed, the picture the sync took is the inputs. Only the last write, the
    lock's, makes the three agree, which is why `CleanIsRendered` alone does not
    carry over a step.
- `Inbox`, any number of watchers, pieces, cuts and kills: `NoLineLost` and `DoneOnce`. The
  invariant says that, as long as the agents only append, every line before the cursor, on disk or in a
  watcher's hand, has its outcome (`LinesKept`), and that the journal is what the world was asked to do
  (`JournalIsWhatWasDone`), which is what makes a line read again harmless.
- `Repository`, of both its parts; `PartsAreThemselves` says of it what it says of the host:
  - `WorkOrders`, any number of orders, teams, people, commits and rulings:
    `LandedAsRuled` and `OthersFilesKept`. CI passes a tip at one moment and the merge comes
    later; the invariant (`VerdictStands`) is that what CI found of an open branch stays
    true until somebody commits to it. It rests on histories that only grow, on rulings that
    name their order and role (`Written`), on order branches that leave each other's folders
    alone (`OwnFolder`), and on `FolderStays`: while an order's branch is open nothing takes
    its review off main again. The last is where the proof uses that there is one car, which
    closes as it lands: with a second one, a sweep between CI and merge could take away the
    review on account of which CI had not judged the branch.
  - `Memory`, any number of commands, records, events, kills and clones: `JournalsAreTrue` and
    `PromotedWhenConfirmed`. What the two say of the files was decided when a command read
    them, some writes earlier; so the invariant (`MemoryInv`) says it of what is still to be written.
    Who holds the lock alone writes journals (`Alone`) and has held, or has still to hold, every
    fragment there is (`FragmentsKnown`); its lines are numbered one after the other from the
    next number on (`InTurn`); an event names what is known by its turn (`NamesThen`); the
    record of a page is confirmed by its turn (`ConfirmedThen`). `tac memory index`, which takes
    no lock, has to be let in between everywhere, and writes no journal. That no number has a gap needs
    that the number after the greatest is one above the last position's (`NextIsAbove`), and
    the greatest is found by well-foundedness (`Greatest`).

- `Sessions`, any number of commands, sessions, days, events and kills: `TypeOK`,
  `NothingDeleted`, `IndexIsTheDays` and `OneLogADay` (the locks do what they are for: one
  log of a day at a time, one purge at a time). A log writes to the file it has open, which a
  purge may have moved, and a purge vouches for what it read before it moved the file; so the
  invariant says that an open file is in the journal or aside and never nowhere, and that what
  a purge read is still the beginning of its file (`Opened`). A move takes a name nobody
  has (`FreeName`), which is why no file ever covers another and each event stays in one
  (`InOneFile`) and each audited file where its line says (`Vouched`). The events of a file
  rise (`InOrder`) because numbers are given out in the order written. For the roll-ups the
  invariant follows a day that is not crossed: one command is at work on it, its open file
  is in place, and what it rolled up and put in the temporary file is the day's
  (`Undisturbed`), since whatever changes the day's files holds one of the two locks and
  would have crossed it.

- `Decisions`, inputs of any length over any constants (`RepositoryProofs` holds it): all
  seven properties of the run. What the code does in a loop, or by recursion, is written as
  a recursive function over the numbers of its rounds. That such a function exists and
  obeys its equation is proved (`History`), and so is that what is so at first and kept by
  each step is so throughout (`Throughout`), both from the greatest element of a bounded set
  (`Greatest`): a first step at which it fails would have a step before it at which it held.
  - `ReceiptsAreOfTheHead`, `HandoffMeetsContract`, `StandardsOnlyTighten` and
    `ResultsAreOfTheTree`. The last three are folds over what happened, and the invariants
    over the events are: of a stage, that the envelope's status says how many of the results
    that counted for its dispatch met the contract, and which (`Verdict`); of the standards,
    that every floor keeps what the one before it asked (`Tighter`) and was proposed on a day
    its waivers held (`Stood`); of the checks, that what is recorded, still to be written or
    already said by a run that nothing hurried is right of the tree it saw, and that a
    hurried one is right when it says passed (`Measurings`).
  - `SelectionIsRight`. That the records can be sorted at all is a proof of its own: ranks
    end in the record's number, so that no two are the same, and a finite set with a strict
    order on it is a sequence (by induction on its size). A record's basis is the best that
    was given, which exists because ranks are numbers. Filling keeps two facts: what is
    picked fits, and what was passed over did not fit beside the rules and what was picked
    before it. Rooms are sums over sets that only grow.
  - `PlanIsSafe`. `Blocked` adds to a set until nothing is added; the code stops when a round
    adds nothing, the model after as many rounds as there are orders, and the proof shows by
    counting that nothing is added then, so that it is the least set of its kind: the rest
    is what can start. Each group is fine (`GroupFine`: no two of its orders collide, no team
    and not the budget exceeded, nothing needed that has not settled), and is empty only
    when nothing left is ready or nobody may work; so every round takes an order, and what is
    left after as many rounds as orders waits on itself.
  - `PipelineIsSound`. A step of the search for a cycle opens a stage, descends, closes or
    meets its own trail. Each stage is opened once and closed once: the steps taken are twice
    the stages opened less those still on the trail (`Ticks`), so that it ends within two
    steps a stage. A stage is closed when all it depends on are, so that among closed stages
    there is always one that depends on none of them, and no cycle goes through them (`Clear`). Without a cycle some stage is always ready, or those left would be one; so the
    order holds every stage after its dependencies (`WellOrdered`), and the ancestors found
    along it are everything upstream, which is the least set that holds the dependencies and
    theirs. A read then has exactly one source, the bound one or the only one, and the run
    finds the same one from its own list.

  The assumptions say what an input is, as the code that reads it ensures: receipts
  name commits and every tree the same orders, a standard has values of its rule's kind and
  a floor that is not there asks nothing, a review names a known basis, an order owns
  something (`work.py:422`) and is of a team.

`DoneIsFinal`, `WrittenAhead` and `TypeOK` of `Effects`, `RunLoop` and `WorkOrders` are proved
and have no run of their own.

With that every invariant and every action property the runs check is a theorem as well.
Only model-checked are `effects_race` and `owner_queue_race`, which are counterexamples, and the three liveness
properties `PendingSettles`, `EveryLineAnswered` and `RunEnds`: they rest on fairness, so on
`ENABLED`, which the prover does not reach.

## Divergences met while modelling

Two are shown by runs of their own, `effects_race` and `owner_queue_race`. These were met with TLC as
well, on variants of the runs, or while reading:

Journal, leases, inbox:

- A reconciled entry has no receipt (`effects.py:691`), though each effect performed gets one (`effects.py:21`).
- A pull request opened before a crash and closed before the restart is opened again (`effects.py:679`), though a retry never publishes twice (`effects.py:21`).
- A pending commit whose look-up fails is made again with what the tree holds by then (`effects.py:687`).
- A lease outlives its runner when the pid is given out again (`leases.py:48`), and an agent outlives the seat of its killed runner.
- An inbox line read again after a crash can be answered refused though it acted: authorisation comes before the journal (`inbox.py:100`).
- The tail of an over-long line that had no end yet is executed as a line of its own (`inbox.py:151`).

Runner and its key:

- An init that looked at the keychain before an import filled it, and creates the file after the import removed it, makes a second key and prints it to be trusted, though "an existing key ... is never replaced" (`runner.py:354`); the next import puts it over the first (`OneKey` without its exception is refuted so).
- An init killed between opening the key file and writing it leaves an empty file, on which every later init, import and server fails (`runner.py:368`); only `RunnerError` is caught.
- A gate that runs out of time kills `just` and not what it started (`runner.py:822`), which writes on into the gates after it; and a client gives up 30 s after the gate's limit, while the two looks may take 120 s each on top, so that a receipt can be issued whose asker is gone.

GitHub gate:

- Who may not administer is told that the gate fails where it could not be decided: only an anonymous reader's missing `bypass_actors` is unknown (`github.py:428`), though a report is undecided "as without an admin token" (`github.py:375`).
- A ruleset that was switched off after the list was read still counts as active (`github.py:418`), and an `exclude` that is a pattern is not seen (`github.py:370`).

Proof:

- The checkout is looked at before the tests and not after (`proof.py:674`): a commit made while they run is named by nobody, though a proof "binds the result to the tested revision" (`proof.py:5`); a gate looks twice.
- The outcomes file is not removed first (`proof.py:741`): when pytest stops without writing one, `coverage.json` lists this revision's conditions as passed from an earlier one's outcomes. The command exits 1, which the report does not say.
- `--require-live` fails "while any live probe is skipped", but a run is of one harness and skips the probes of the other (`proof.py:451`), and without `--live` it skips all, so that it always fails.

Run loop:

- The repair pass starts without another look at usage (`run.py:635`), though usage is checked before every dispatch (`run.py:24`).
- An agent stage that waits for the owner is dispatched again by a resume while its item is open (`run.py:912`), and a second failure reuses the answered item, so that the run waits for nothing (`run.py:437`); the owner's `cancel` is never read (`run.py:556`).
- A repair between two rounds of gates may not change the tree, so that a repair that repairs fails the stage (`run.py:535`).
- An effect stage that fails never asks the owner, whatever its `on_fail` (`run.py:764`); a gate stage skipped by `when` counts as passed (`run.py:904`).
- The pipeline check asks for a gate stage somewhere before an effect (`pipelines.py:609`): an agent stage between the two may change what was gated, and the effect publishes it.
- A read whose writer was skipped by `when` is left out without a word (`run.py:293`), though the check counted on it.

Memory, sessions:

- A promotion killed after the record's file is "promoted already" ever after (`memory.py:1086`), so the review that made it confirmed may never reach the checkout, where it then reads as unconfirmed; and an `add` killed after its record loses the supersede or conflict event it implied (`memory.py:845`).
- A fresh clone numbers its records from 1 again, and the ones it promotes repeat the numbers of promoted ones (`memory.py:813`).
- `tac memory index` takes no lock (`memory_cli.py:319`): what it read before a promotion it may write after it.
- An event appended between the purge's read and its move is moved and not in the audited hash (`session.py:237`); a purge killed between the move and the audit line leaves a move nobody audits, and its retry finds no session (`session.py:245`); the roll-up of a day a purge and a log crossed may be stale, and the second of two that share the temporary file fails on its rename (`session.py:175`).

Owner's queue:

- Two commands that overlap on one item lose the first one's write, and two that ask at once take one id, though "an id already in the queue is never overwritten" (`human.py:497`; `owner_queue_race`).
- `write_item` empties the file and then fills it (`human.py:359`), where other stores write beside and rename: a command killed in between leaves an item that cannot be read. Its answers, its decision and its signed record are gone (what an earlier signature had copied to the controller store is left without its item), and every command that loads the queue refuses until somebody mends the file (`human.py:351`). Two that write at once may leave the end of the longer text behind the shorter.

Sync:

- After a lost or conflicted lock, or a killed sync, a file of a harness that is no longer enforced stays and is not reported when it is outside the folders generated whole; a sync removes any path the old lock lists, without asking whether sync may write there (`sync.py:414`); two syncs at once can leave a file no lock lists.

Work orders:

- `goal.budget = 0` is reported as a cycle (`work.py:1141`), since `load_goal` does not check it (`PlanIsSafe` excepts it, and the run has goals like that); a goal that names an order landed and swept is refused as one without a file (`work.py:1108`).
- `run_check` records the tree from before its commands ran, so that a result measured on an edited tree is answered for the one before it; a passed result is answered again though the base has moved and the strays with it (`work.py:769`); `acceptance` with `run=True` measures what is not committed.
- An order whose `order.toml` on its own branch says `reference = true` is "read above, never judged" (`work_cli.py:249`): its code lands without a review, a sign-off or a look for strays, and without receipts (`receipts.py:396`). The flag is read from the branch that is judged, not from its base.
- A pull request that carries only a plan and an accepting review marks the order landed; a car with an order's code but not its folder is not judged for it (`work_cli.py:240`); CI does not ask whether what an order needs has landed.

Memory and standards, as decisions:

- A conflict event, confirmed by nobody, takes a policy record out of every selection without a refusal, and topics filter policy records too, though what is mandatory is "never truncated" (`memory.py`, `derive` and `select`).
- An expired waiver asks to "remove it, or the owner renews it", but `floor_check` loads the candidate under the base's floor (`config.py:965`), whose waivers are judged as well: once one has expired on the base no change passes `config check --base`, not even the one that removes or renews it.
- A floor takes a waiver for `em_dashes` (`standards.py:96` and `:102`), but the commit check asks for the rule all the same: `rules` reads that key whatever is waived (`commits.py:71`). `StandardsOnlyTighten` holds the check to it.
- A list the project sets in another order than the floor's is shown as the floor's own (`apply_floor` compares lists, not what they hold).
- The owner's answer on the command line, `tac human answer`, writes no copy to the controller store; only an approval does.

## Plan

1. Done: `Effects`, `Leases`, `Inbox`, `RunLoop`, `Dispatch`, `Memory`,
   `WorkOrders`, `OwnerQueue`, `Sync`, `Sessions`, and the decisions of `Plan`,
   `Pipelines`, `Receipts`, `Handoff`, `Selection`, `Standards` and `Checks`, then `Gates`,
   `Runner`, `GitHub` and `Proof`; every safety property of all of them proved.
2. Abstract specifications and their refinements: for `Memory` and `Sessions` a set that only grows,
   for `OwnerQueue` a register the owner alone writes.
3. The evidence behind a strong basis; the live probes of `proof.py`.

## Not modelled, and why

Launching, the live probes of `tac proof dev`, the repository's labels and the linters act once and keep no
state of their own; of the configuration only the standards are modelled, the rest is validated data; rendering, page layout and the linters of
work orders, memory and the queue are text checks, where a model would repeat the
code line for line; `usage.judge` is a comparison the model has nothing to say about; signatures, sandboxes and git are taken
to do what they promise. Two `tac run` of one run are not checked: the
checkpoint has no lock and is written whole, so that the later save drops what
the earlier recorded; the code leaves that to the owner.
