--------------------------------- MODULE Plan ---------------------------------
(***************************************************************************)
(* The launch groups of a goal (work.plan).  A goal is a record: orders is *)
(* the sequence it names, files what each order file says (an order with   *)
(* none has no entry), landed the orders that are done, budget the lesser  *)
(* of the goal's and the host's, cap the workers a team may run (0 when    *)
(* teams.toml names none).                                                 *)
(***************************************************************************)
EXTENDS Naturals, Sequences, FiniteSets, Functions

Starts(path, other) ==
  Len(path) <= Len(other) /\ \A i \in 1..Len(path) : path[i] = other[i]

\* An owned entry is a path, and whether it is written as a folder (`dir/`).
\* load_order refuses globs in owns, so a pattern matches itself or a prefix.
Covers(a, b) == a = b \/ (a.folder /\ Starts(a.path, b.path))

Overlap(a, b) == Covers(a, b) \/ Covers(b, a)

\* collisions and plan: two orders that own the same file.
Collide(x, y) == \E a \in x.owns, b \in y.owns : Overlap(a, b)

Planned(goal) == Range(goal.orders) \ goal.landed

\* What cannot start yet: it needs an order that is neither done nor of this
\* goal, or one that cannot start either.  Until nothing is added.
Blocked(goal, ours) ==
  LET blocked[i \in 0..Cardinality(ours)] ==
        IF i = 0 THEN {}
        ELSE blocked[i - 1] \cup
               {o \in ours : \E n \in goal.files[o].needs \ goal.landed :
                               n \notin ours \/ n \in blocked[i - 1]}
  IN blocked[Cardinality(ours)]

Team(goal, group, t) == Cardinality({i \in 1..Len(group) : goal.files[group[i]].team = t})

Cap(goal, t) == IF goal.cap[t] = 0 THEN goal.budget ELSE goal.cap[t]

\* Mutant: an order may start next to what it needs.
JoinsToo(goal, settled, group, o) ==
  LET order == goal.files[o] IN
  /\ order.needs \subseteq settled \cup Range(group)
  /\ \A i \in 1..Len(group) : ~Collide(goal.files[group[i]], order)
  /\ Team(goal, group, order.team) < Cap(goal, order.team)
  /\ Len(group) < goal.budget

\* ready, free, room and the budget.
Joins(goal, settled, group, o) ==
  LET order == goal.files[o] IN
  /\ order.needs \subseteq settled
  /\ \A i \in 1..Len(group) : ~Collide(goal.files[group[i]], order)
  /\ Team(goal, group, order.team) < Cap(goal, order.team)
  /\ Len(group) < goal.budget

\* The orders of the goal, in turn: those left that can join.
Group(goal, settled, left) ==
  LET group[i \in 0..Len(goal.orders)] ==
        IF i = 0 THEN <<>>
        ELSE IF goal.orders[i] \in left /\ Joins(goal, settled, group[i - 1], goal.orders[i])
        THEN Append(group[i - 1], goal.orders[i]) ELSE group[i - 1]
  IN group[Len(goal.orders)]

Settled(goal, plan) == goal.landed \cup UNION {Range(plan.groups[j]) : j \in 1..Len(plan.groups)}

\* The `while todo` loop: one group a round, until none is left or none can join.
Round(goal, plan) ==
  LET group == Group(goal, Settled(goal, plan), plan.left) IN
  IF group = <<>> THEN plan
  ELSE [groups |-> Append(plan.groups, group), left |-> plan.left \ Range(group)]

Groups(goal, todo) ==
  LET plan[i \in 0..Cardinality(todo)] ==
        IF i = 0 THEN [groups |-> <<>>, left |-> todo] ELSE Round(goal, plan[i - 1])
  IN plan[Cardinality(todo)]

\* work.plan: why the goal is refused, else the groups and what waits.
Plan(goal) ==
  LET ours    == Planned(goal)
      blocked == Blocked(goal, ours)
      plan    == Groups(goal, ours \ blocked)
      Refuse(why) == [refused |-> why, groups |-> <<>>, blocked |-> {}]
  IN IF \E o \in Range(goal.orders) : o \notin DOMAIN goal.files THEN Refuse("missing")
     ELSE IF \E o \in ours : \E n \in goal.files[o].needs :
               n \notin DOMAIN goal.files \cup goal.landed
       THEN Refuse("unknown")
     ELSE IF plan.left # {} THEN Refuse("cycle")
     ELSE [refused |-> "no", groups |-> plan.groups, blocked |-> blocked]

\* load_order and load_teams: an order owns something, and no number is below zero
\* (a goal's budget may be, load_goal does not look; it is like none).
IsGoal(goal) ==
  /\ Len(goal.orders) \in Nat /\ DOMAIN goal.orders = 1..Len(goal.orders)
  /\ goal.budget \in Nat /\ \A t \in DOMAIN goal.cap : goal.cap[t] \in Nat
  /\ \A o \in DOMAIN goal.files :
       /\ goal.files[o].owns # {} /\ goal.files[o].team \in DOMAIN goal.cap
       /\ \A a \in goal.files[o].owns :
            /\ a = [path |-> a.path, folder |-> a.folder]
            /\ Len(a.path) \in Nat /\ a.folder \in BOOLEAN

(***************************************************************************)
(* What a plan has to be, said without the loops.                          *)
(***************************************************************************)
\* The paths of a repository that an order owns.
Owned(order, paths) ==
  {p \in paths : \E a \in order.owns : IF a.folder THEN Starts(a.path, p) ELSE a.path = p}

\* Orders that need nothing outside them that is not done.
SelfSufficient(goal, orders) ==
  \A o \in orders : goal.files[o].needs \ goal.landed \subseteq orders

CanStart(goal, ours) ==
  {o \in ours : \E some \in SUBSET ours : o \in some /\ SelfSufficient(goal, some)}

Circular(goal, orders) ==
  \E some \in SUBSET orders : some # {} /\ \A o \in some : goal.files[o].needs \cap some # {}

\* Every order of the goal that is not done is in one group, or waits for one
\* that cannot start; a group holds no two workers of one file, no more than the
\* budget and than its teams may run, and needs only what is done or ran before.
Launchable(goal, plan, paths) ==
  LET ours == Range(goal.orders) \ goal.landed
      In(k) == Range(plan.groups[k])
      Groupings == DOMAIN plan.groups
  IN
  /\ plan.blocked = ours \ CanStart(goal, ours)
  /\ plan.blocked \cup UNION {In(k) : k \in Groupings} = ours
  /\ \A k, l \in Groupings : k # l => In(k) \cap In(l) = {}
  /\ \A k \in Groupings :
       /\ plan.groups[k] # <<>> /\ In(k) \cap plan.blocked = {}
       /\ Len(plan.groups[k]) = Cardinality(In(k)) /\ Len(plan.groups[k]) <= goal.budget
       /\ \A t \in DOMAIN goal.cap : goal.cap[t] # 0 =>
            Cardinality({o \in In(k) : goal.files[o].team = t}) <= goal.cap[t]
       /\ \A o, other \in In(k) : o # other =>
            Owned(goal.files[o], paths) \cap Owned(goal.files[other], paths) = {}
       /\ \A o \in In(k) : goal.files[o].needs \subseteq
            goal.landed \cup UNION {In(l) : l \in {m \in Groupings : m < k}}

Unknown(goal, o) ==
  \/ o \notin DOMAIN goal.files
  \/ ~(goal.files[o].needs \subseteq DOMAIN goal.files \cup goal.landed)

\* A plan is launchable, and refused for a cycle only when there is one, or when the
\* goal has a budget of nobody.
PlanIsSafe(goal, plan, paths) ==
  CASE plan.refused = "no"    -> Launchable(goal, plan, paths)
    [] plan.refused = "cycle" ->
         goal.budget = 0 \/ Circular(goal, CanStart(goal, Range(goal.orders) \ goal.landed))
    [] OTHER                  -> \E o \in Range(goal.orders) : Unknown(goal, o)
=============================================================================
