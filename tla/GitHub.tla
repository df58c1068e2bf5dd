------------------------------- MODULE GitHub -------------------------------
(***************************************************************************)
(* The gate on GitHub (github.py): the default branch is closed to all but *)
(* what the code's owners and the required checks passed.  `tac github     *)
(* apply` writes the ruleset and judges it; `tac doctor` judges.  A judge  *)
(* reads the list of rulesets, the name of the default branch and each     *)
(* ruleset by its id, one call after the other, each of which may fail;    *)
(* meanwhile people change rulesets by hand, one setting at a time.        *)
(*                                                                         *)
(* Only rulesets of branches: those of tags and pushes are passed over in  *)
(* the list.  A ruleset is its enforcement, its name (ours), the branch it *)
(* covers, whether someone may bypass it, and whether it asks for the      *)
(* review and the checks (strict).                                         *)
(***************************************************************************)
EXTENDS Naturals, FiniteSets

CONSTANTS
  Ids,         \* the ids GitHub gives to rulesets
  NoRuleset,
  Branches,
  MaxEdits,    \* bound on edits by hand
  MaxRuns      \* bound on applies and judgements

VARIABLES
  rulesets,    \* by id
  default,     \* the default branch
  call,        \* the command under way: where it is, what it read, said
  edits, runs,
  gateHeld, gateFailed   \* history: so at some moment since the list was read

vars == <<rulesets, default, call, edits, runs, gateHeld, gateFailed>>

\* Whose transport reads: the owner's gh, the gh of who may not administer, none.
Viewers == {"owner", "collaborator", "anonymous"}

\* strict: an owner's review by someone, and each of ci.yml's jobs by Actions.
Settings == [ours : BOOLEAN, active : BOOLEAN, bypass : BOOLEAN, strict : BOOLEAN,
             covers : Branches \cup {"~DEFAULT_BRANCH", "elsewhere"}]

\* desired_ruleset
Desired == [ours |-> TRUE, active |-> TRUE, bypass |-> FALSE, strict |-> TRUE,
            covers |-> "~DEFAULT_BRANCH"]

\* What is on GitHub, and what enforces.
There == {i \in Ids : rulesets[i] # NoRuleset}
Active == {i \in There : rulesets[i].active}
\* covers_branch
Covers(r, branch) == r.covers \in {"~DEFAULT_BRANCH", branch}
Holds(r) == ~r.bypass /\ r.strict

\* What the gate is: some active ruleset covers the branch and holds.
Gate == \E i \in Active : Holds(rulesets[i]) /\ Covers(rulesets[i], default)
\* What the code asks for: and every other active one holds as well.
AllHold == Gate /\ \A i \in Active : Holds(rulesets[i])

\* No command yet.
Idle == [at |-> "idle", viewer |-> "owner", todo |-> {}, branch |-> default,
         failed |-> FALSE, unknown |-> FALSE, covered |-> FALSE,
         said |-> "nothing", since |-> 0, id |-> NoRuleset]

TypeOK ==
  /\ rulesets \in [Ids -> Settings \cup {NoRuleset}]
  /\ default \in Branches
  /\ call \in [at : {"idle", "identity", "find", "put", "post", "list", "branch", "fetch"},
              viewer : Viewers, todo : SUBSET Ids, branch : Branches,
              failed : BOOLEAN, unknown : BOOLEAN, covered : BOOLEAN,
              said : {"nothing", "holds", "fails", "unknown", "refused"},
              since : 0..MaxEdits, id : Ids \cup {NoRuleset}]
  /\ edits \in 0..MaxEdits /\ runs \in 0..MaxRuns
  /\ gateHeld \in BOOLEAN /\ gateFailed \in BOOLEAN

Init ==
  /\ rulesets \in [Ids -> {NoRuleset, Desired,
                           [Desired EXCEPT !.ours = FALSE, !.covers = "elsewhere"]}]
  /\ default \in Branches
  /\ call = Idle
  /\ edits = 0 /\ runs = 0 /\ gateHeld = FALSE /\ gateFailed = FALSE

-----------------------------------------------------------------------------
(* By hand *)

Judging == call.at \in {"branch", "fetch"}
Watched ==
  /\ gateHeld'   = (gateHeld \/ (Judging /\ Gate'))
  /\ gateFailed' = (gateFailed \/ (Judging /\ ~AllHold'))

\* A command that is reading sees one more change.
Edited ==
  /\ edits < MaxEdits /\ edits' = edits + 1
  /\ call' = IF Judging THEN [call EXCEPT !.since = @ + 1] ELSE call
  /\ Watched
  /\ UNCHANGED runs

\* One click: s is r with one setting changed.
OneSetting(r, s) ==
  \/ \E b \in BOOLEAN : s \in {[r EXCEPT !.active = b], [r EXCEPT !.bypass = b],
                               [r EXCEPT !.strict = b], [r EXCEPT !.ours = b]}
  \/ \E c \in Branches \cup {"~DEFAULT_BRANCH", "elsewhere"} : s = [r EXCEPT !.covers = c]

EditRuleset ==
  /\ \E i \in Ids : \E s \in Settings :
       /\ rulesets[i] # NoRuleset /\ s # rulesets[i] /\ OneSetting(rulesets[i], s)
       /\ rulesets' = [rulesets EXCEPT ![i] = s]
  /\ UNCHANGED default /\ Edited
AddRuleset ==
  /\ \E i \in Ids \ There : rulesets' = [rulesets EXCEPT ![i] = [Desired EXCEPT !.ours = FALSE]]
  /\ UNCHANGED default /\ Edited
DeleteRuleset ==
  /\ \E i \in There : rulesets' = [rulesets EXCEPT ![i] = NoRuleset]
  /\ UNCHANGED default /\ Edited
RenameDefault ==
  /\ default' \in Branches \ {default}
  /\ UNCHANGED rulesets /\ Edited

-----------------------------------------------------------------------------
(* The commands *)

Says(word) == call' = [call EXCEPT !.at = "idle", !.said = word, !.todo = {}]
Remote == <<rulesets, default, edits, runs>>
Seen == <<gateHeld, gateFailed>>

Begin(at, viewer) ==
  /\ call.at = "idle" /\ runs < MaxRuns /\ runs' = runs + 1
  /\ call' = [Idle EXCEPT !.at = at, !.viewer = viewer]
  /\ UNCHANGED <<rulesets, default, edits, Seen>>

\* tac github apply; the check of tac doctor.
Apply  == Begin("identity", "owner")
Doctor == \E viewer \in Viewers : Begin("list", viewer)

\* identity_problems: the bot may push and no more.
Identity ==
  /\ call.at = "identity"
  /\ Says("refused") \/ call' = [call EXCEPT !.at = "find"]
  /\ UNCHANGED <<Remote, Seen>>

\* The first ruleset of that name is updated; where there is none it is created.
Find ==
  /\ call.at = "find"
  /\ \/ Says("refused")
     \/ LET mine == {i \in There : rulesets[i].ours} IN
        \/ \E i \in mine : call' = [call EXCEPT !.at = "put", !.id = i]
        \/ mine = {} /\ call' = [call EXCEPT !.at = "post"]
  /\ UNCHANGED <<Remote, Seen>>

\* A call that fails may have been done.
Write(i) ==
  /\ \/ rulesets' = [rulesets EXCEPT ![i] = Desired]
     \/ UNCHANGED rulesets
  /\ \/ rulesets'[i] = Desired /\ call' = [call EXCEPT !.at = "list"]
     \/ Says("refused")
Nothing == UNCHANGED rulesets /\ Says("refused")

\* What is gone by now cannot be updated.
Put ==
  /\ call.at = "put"
  /\ (call.id \in There /\ Write(call.id)) \/ Nothing
  /\ UNCHANGED <<default, edits, runs, Seen>>
Post ==
  /\ call.at = "post"
  /\ (\E i \in Ids \ There : Write(i)) \/ Nothing
  /\ UNCHANGED <<default, edits, runs, Seen>>

\* judge_rulesets: the active ones.
List ==
  /\ call.at = "list"
  /\ gateHeld' = Gate /\ gateFailed' = ~AllHold
  /\ \/ Says("unknown")
     \/ Active = {} /\ Says("fails")
     \/ Active # {} /\ call' = [call EXCEPT !.at = "branch", !.todo = Active]
  /\ UNCHANGED Remote

DefaultBranch ==
  /\ call.at = "branch"
  /\ Says("unknown") \/ call' = [call EXCEPT !.at = "fetch", !.branch = default]
  /\ UNCHANGED <<Remote, Seen>>

\* Mutant: what the answer leaves out is taken to be empty.
BypassEmpty(r) == call.viewer = "owner" => ~r.bypass
\* bypass_actors is shown to admins only.
Bypass(r) == call.viewer = "owner" /\ ~r.bypass

\* ruleset_problems, of one ruleset as it is by now.
Fetch(i) ==
  LET r      == rulesets[i]
      fine   == Bypass(r) /\ r.strict
      hidden == call.viewer # "owner" /\ r.strict
  IN
  /\ call.at = "fetch" /\ i \in call.todo
  /\ \/ call' = [call EXCEPT !.todo = @ \ {i}, !.unknown = TRUE]
     \/ /\ r # NoRuleset
        /\ call' = [call EXCEPT
             !.todo = @ \ {i},
             !.unknown = @ \/ (~fine /\ hidden /\ call.viewer = "anonymous"),
             !.failed  = @ \/ (~fine /\ ~(hidden /\ call.viewer = "anonymous")),
             !.covered = @ \/ ((fine \/ hidden) /\ Covers(r, call.branch))]
  /\ UNCHANGED <<Remote, Seen>>

Conclude ==
  /\ call.at = "fetch" /\ call.todo = {}
  /\ Says(CASE call.failed \/ (~call.covered /\ ~call.unknown) -> "fails"
            [] call.unknown -> "unknown"
            [] OTHER -> "holds")
  /\ UNCHANGED <<Remote, Seen>>

Next ==
  \/ EditRuleset \/ AddRuleset \/ DeleteRuleset \/ RenameDefault
  \/ Apply \/ Doctor \/ Identity \/ Find \/ Put \/ Post
  \/ List \/ DefaultBranch \/ (\E i \in Ids : Fetch(i)) \/ Conclude

Spec == Init /\ [][Next]_vars

-----------------------------------------------------------------------------
\* judge_rulesets, github.py:377: nothing locks the settings while they are read.  A
\* report that the gate holds was true at some moment of the reading, and one that
\* it fails as well, as long as no more than one setting changed meanwhile; who may
\* not see all of it is never told that it holds.
ReportIsTrue ==
  /\ call.said = "holds" => call.viewer = "owner" /\ (call.since <= 1 => gateHeld)
  /\ call.said = "fails" /\ call.viewer # "collaborator" /\ call.since <= 1 => gateFailed
=============================================================================
