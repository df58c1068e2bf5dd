----------------------------- MODULE WorkOrders -----------------------------
(***************************************************************************)
(* How a work order gets from its branch to main (work.py, work_cli.py).   *)
(* A branch is the sequence of its commits; a commit is the tree it holds  *)
(* and the state of main it forked from or merged last.  A path holds the  *)
(* number of an edit, or of a ruling, 0 when it is absent: patches of two  *)
(* commits are the same when they lead from the same to the same.  An      *)
(* order.toml may call its order a worked example.  People                 *)
(* commit, read a commit and rule on it later, while others go on.  CI     *)
(* judges the tip of a branch; the host merges a tip CI passed.            *)
(***************************************************************************)
EXTENDS Naturals, Sequences, FiniteSets, SequencesExt

CONSTANTS
  Orders, Files,
  Owns,         \* [Orders -> SUBSET Files]
  Anyone,       \* the paths every order may touch
  Teams, Cross, \* [Orders -> SUBSET Teams]: whose files it has to touch
  People, Builder, Manager, \* [Orders -> People], [Teams -> People]
  Family,       \* [People -> providers]
  Reviewer,     \* the role of who reviews; a team's manager rules as the team
  Car,          \* the branch that carries several orders at once
  Nobody, NoReading,
  MaxEdits, MaxRulings, MaxMerges, MaxCommits

Roles == {Reviewer} \cup Teams
Branches == Orders \cup {Car}
Folder(o) == {o} \cup {<<o, r>> : r \in Roles}   \* order.toml, review.toml, signoff-*.toml
Paths == Files \cup UNION {Folder(o) : o \in Orders}

ASSUME WorkAssumption ==
  /\ Owns \in [Orders -> SUBSET Files] /\ Anyone \subseteq Files
  /\ Cross \in [Orders -> SUBSET Teams]
  /\ Builder \in [Orders -> People] /\ Manager \in [Teams -> People]
  \* An order, the rulings on one and the files are different paths.
  /\ Files \cap Orders = {} /\ (Files \cup Orders) \cap (Orders \X Roles) = {}
  /\ Car \notin Paths /\ Reviewer \notin Teams
  /\ MaxEdits \in Nat \ {0} /\ MaxRulings \in Nat /\ MaxMerges \in Nat /\ MaxCommits \in Nat

VARIABLES
  mains,     \* main, state by state
  commits,   \* per branch
  loaded,    \* per order, how many of its commits the car merged
  rulings,   \* review.toml and signoff-*.toml, as written
  reading,   \* the ruling under way; one at a time is a bound
  ci,        \* the branches whose tip CI passed
  open,      \* branches not merged yet
  edits

vars == <<mains, commits, loaded, rulings, reading, ci, open, edits>>

Main == Last(mains)
Tip(b) == Last(commits[b])
From(c) == mains[c.from]
Changed(c) == {p \in Paths : c.tree[p] # From(c)[p]}

\* work.contribution: the patch of the files an order owns and of its order.toml.
Contribution(o, c) ==
  {<<p, From(c)[p], c.tree[p]>> : p \in Changed(c) \cap (Owns[o] \cup {o})}

MayTouch(o) == Owns[o] \cup Anyone \cup Folder(o)

\* work.landed: its accepting review is on main.
Landed(tree) ==
  {o \in Orders : LET n == tree[<<o, Reviewer>>] IN n # 0 /\ rulings[n].accepts}

(***************************************************************************)
(* CI                                                                      *)
(***************************************************************************)
\* How many commits of the order the branch contains.
Contained(o, b) == IF b = o THEN Len(commits[o]) ELSE IF b = Car THEN loaded[o] ELSE 0

\* Mutant: a ruling holds for whatever was committed since.
CurrentOnce(o, b, ruling) == ruling.at <= Contained(o, b)

\* _signed: the commit that was read is here, and nothing of the order changed since.
Current(o, b, ruling) ==
  /\ ruling.at <= Contained(o, b)
  /\ Contribution(o, commits[o][ruling.at]) = Contribution(o, Tip(b))

\* _signed, _other_provider and the rest of acceptance, for the ruling of a role.
Rules(o, b, role) ==
  LET n == Tip(b).tree[<<o, role>>] IN
  /\ n # 0
  /\ LET ruling == rulings[n] IN
     /\ ruling.by # Builder[o] /\ Builder[o] # Nobody
     /\ Current(o, b, ruling)
     /\ ruling.accepts
     /\ role = Reviewer => Family[ruling.by] # Family[Builder[o]]
     /\ role # Reviewer =>
          /\ ruling.by = Manager[role]
          /\ LET m == Tip(b).tree[<<o, Reviewer>>] IN m # 0 => rulings[m].by # ruling.by

Accepted(o, b) == \A role \in {Reviewer} \cup Cross[o] : Rules(o, b, role)

\* An order.toml with reference = true: a worked example of the format.
Example(edit) == MaxEdits + edit
IsExample(n) == n > MaxEdits

\* work_cli.ci: the orders a pull request carries, less those it says are examples.
Carried(b) ==
  {o \in Orders :
     /\ Tip(b).tree[o] # 0 /\ ~IsExample(Tip(b).tree[o])
     /\ Changed(Tip(b)) \cap Folder(o) # {} \/ (b = o /\ o \notin Landed(Main))}

Touches(o, b) == Changed(Tip(b)) \cap Owns[o] # {}
Built(o, b) ==
  Touches(o, b) \/ (Builder[o] # Nobody /\ Changed(Tip(b)) \cap Files # {})

\* own_files: of the order's own branch, the part this branch contains.
OwnFiles(o, b) ==
  IF Contained(o, b) = 0 THEN {} ELSE Changed(commits[o][Contained(o, b)])

\* Mutant: strays are looked for on built orders of other branches only.
StraysElsewhere(o, b) == IF b = o THEN {} ELSE OwnFiles(o, b) \ MayTouch(o)

Strays(o, b) == OwnFiles(o, b) \ MayTouch(o)

Passes(b) ==
  \A o \in Carried(b) :
    /\ Built(o, b) => Accepted(o, b)
    /\ Built(o, b) \/ b = o => Strays(o, b) = {}

(***************************************************************************)
(* The world                                                               *)
(***************************************************************************)
TypeOK ==
  /\ \A i \in 1..Len(mains) : mains[i] \in [Paths -> Nat]
  /\ \A b \in Branches : \A i \in 1..Len(commits[b]) :
       commits[b][i].tree \in [Paths -> Nat] /\ commits[b][i].from \in 1..Len(mains)
  /\ \A o \in Orders : loaded[o] \in 0..Len(commits[o])
  /\ \A i \in 1..Len(rulings) : rulings[i].at \in 1..Len(commits[rulings[i].order])
  /\ open \subseteq Branches /\ edits \in 0..MaxEdits

Init ==
  /\ mains = <<[p \in Paths |-> 0]>>
  \* Orders written by `tac work new` and committed, some of them built as well.
  /\ \E built \in SUBSET Orders :
       commits = [b \in Branches |->
         <<[tree |-> [p \in Paths |->
                        IF p = b \/ (b \in built /\ p \in Owns[b]) THEN 1 ELSE 0],
            from |-> 1]>>]
  /\ loaded = [o \in Orders |-> 0]
  /\ rulings = <<>>
  /\ reading = NoReading
  /\ ci = {}
  /\ open = Branches
  /\ edits = 1

\* A push; what CI said of the tip before is void.
Commits == FoldSet(LAMBDA b, n : n + Len(commits[b]), 0, Branches)
Commit(b, tree, from) ==
  /\ b \in open /\ Commits < MaxCommits
  /\ ci' = ci \ {b}
  /\ commits' = [commits EXCEPT ![b] = Append(@, [tree |-> tree, from |-> from])]

\* A commit to any file, or to the order itself, which may make an example of it
\* or an order of an example; on the car a loose change.
Edit(b, p) ==
  /\ p \in Files \cup (Orders \cap {b}) /\ edits < MaxEdits
  /\ \E n \in {edits + 1} \cup (IF p = b THEN {Example(edits + 1)} ELSE {}) :
       Commit(b, [Tip(b).tree EXCEPT ![p] = n], Tip(b).from)
  /\ edits' = edits + 1
  /\ UNCHANGED <<mains, loaded, rulings, reading, open>>

\* `tac work packet`: what is read, and the commit to name.
Packet(person, o, role) ==
  /\ reading = NoReading /\ Len(rulings) < MaxRulings
  /\ o \in open /\ role \in {Reviewer} \cup Cross[o]
  /\ reading' = [order |-> o, role |-> role, by |-> person, at |-> Len(commits[o])]
  /\ UNCHANGED <<mains, commits, loaded, rulings, ci, open, edits>>

Rule(accepts) ==
  LET r == reading IN
  /\ r # NoReading
  /\ Commit(r.order, [Tip(r.order).tree EXCEPT ![<<r.order, r.role>>] = Len(rulings) + 1],
            Tip(r.order).from)
  /\ rulings' = Append(rulings, [order |-> r.order, role |-> r.role, at |-> r.at,
                                 by |-> r.by, accepts |-> accepts])
  /\ reading' = NoReading
  /\ UNCHANGED <<mains, loaded, open, edits>>

\* What a branch changed, on top of another tree; a path changed on both sides
\* is in conflict.
Conflict(c, from, tree) == \E p \in Changed(c) : tree[p] \notin {from[p], c.tree[p]}
Onto(c, tree) == [p \in Paths |-> IF p \in Changed(c) THEN c.tree[p] ELSE tree[p]]

\* Merge main into the branch; who does it solves a conflict by an edit before.
Sync(b) ==
  /\ Tip(b).from < Len(mains) /\ ~Conflict(Tip(b), From(Tip(b)), Main)
  /\ Commit(b, Onto(Tip(b), Main), Len(mains))
  /\ UNCHANGED <<mains, loaded, rulings, reading, open, edits>>

\* The car merges an order's branch.
Load(o) ==
  /\ loaded[o] < Len(commits[o]) /\ Tip(o).from <= Tip(Car).from
  /\ ~Conflict(Tip(o), From(Tip(o)), Tip(Car).tree)
  /\ Commit(Car, Onto(Tip(o), Tip(Car).tree), Tip(Car).from)
  /\ loaded' = [loaded EXCEPT ![o] = Len(commits[o])]
  /\ UNCHANGED <<mains, rulings, reading, open, edits>>

\* `tac work sweep` on a release branch.
Sweep ==
  LET gone == UNION {Folder(o) : o \in Landed(Main)} IN
  /\ \E p \in gone : Tip(Car).tree[p] # 0
  /\ Commit(Car, [p \in Paths |-> IF p \in gone THEN 0 ELSE Tip(Car).tree[p]], Tip(Car).from)
  /\ UNCHANGED <<mains, loaded, rulings, reading, open, edits>>

CI(b) ==
  /\ b \in open /\ Changed(Tip(b)) # {} /\ Passes(b)
  /\ ci' = ci \cup {b}
  /\ UNCHANGED <<mains, commits, loaded, rulings, reading, open, edits>>

Merge(b) ==
  /\ b \in open /\ Len(mains) <= MaxMerges
  /\ b \in ci
  /\ ~Conflict(Tip(b), From(Tip(b)), Main)
  /\ mains' = Append(mains, Onto(Tip(b), Main))
  /\ open' = open \ {b}
  /\ UNCHANGED <<commits, loaded, rulings, reading, ci, edits>>

Next ==
  \/ \E b \in Branches, p \in Paths : Edit(b, p)
  \/ \E person \in People, o \in Orders, role \in Roles : Packet(person, o, role)
  \/ \E accepts \in BOOLEAN : Rule(accepts)
  \/ \E b \in Branches : Sync(b) \/ CI(b) \/ Merge(b)
  \/ \E o \in Orders : Load(o)
  \/ Sweep

Spec == Init /\ [][Next]_vars

(***************************************************************************)
(* Properties                                                              *)
(***************************************************************************)
\* Somebody read exactly this contribution in this role, and accepted it.
ReadAndAccepted(o, role, person, patch) ==
  \E i \in 1..Len(rulings) :
    LET r == rulings[i] IN
    /\ r.order = o /\ r.role = role /\ r.by = person /\ r.accepts
    /\ Contribution(o, commits[o][r.at]) = patch

\* Files of an order reach main, from its branch or with its folder, only as
\* someone on the other provider who did not build it read and accepted them,
\* and every cross team's manager too, whatever was committed, merged or ruled
\* meanwhile; unless the tip that is merged calls the order an example, which
\* then nobody judges.
LandedAsRuled ==
  [][\A b \in open \ open', o \in Orders \ Landed(Main) :
       LET patch == Contribution(o, Tip(b)) IN
       /\ Touches(o, b) /\ Tip(b).tree[o] # 0 /\ ~IsExample(Tip(b).tree[o])
       /\ b = o \/ Changed(Tip(b)) \cap Folder(o) # {}
       => /\ \E person \in People \ {Builder[o]} :
               /\ Family[person] # Family[Builder[o]]
               /\ ReadAndAccepted(o, Reviewer, person, patch)
          /\ \A t \in Cross[o] : ReadAndAccepted(o, t, Manager[t], patch)]_vars

\* The branch of one order never changes a file on main that another one owns,
\* unless the tip that is merged calls the order an example.
OthersFilesKept ==
  [][\A o \in (open \ open') \cap Orders, other \in Orders :
       o \notin Landed(Main) /\ ~IsExample(Tip(o).tree[o]) =>
         \A p \in Owns[other] \ (Owns[o] \cup Anyone) : Last(mains')[p] = Main[p]]_vars

=============================================================================
