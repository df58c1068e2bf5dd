------------------------------- MODULE Standards -------------------------------
(***************************************************************************)
(* The standards, their floor and its waivers (standards.py), what loading *)
(* a configuration makes of them (config.py), what CI asks of a change to  *)
(* them (floor_check), and what a commit message is then held to           *)
(* (commits.rules).  A tree is its floor file and the project's values, by *)
(* key; a key not set is not in the domain.  A value is what its rule can  *)
(* compare: an enum's place in its order, a list as a set.                 *)
(***************************************************************************)
EXTENDS Integers, Sequences, FiniteSets

CONSTANTS
  Kind,      \* FLOOR_RULES: a key's rule, "bool", "enum", "set", "max" or "min"
  Strict,    \* of a bool rule, the stricter value
  Words,     \* what a list may hold
  Parts,     \* the keys commits.rules reads
  Liftable   \* those of them a waiver lifts one by one

Keys == DOMAIN Kind
Values(key) ==
  CASE Kind[key] = "bool" -> BOOLEAN
    [] Kind[key] = "set"  -> SUBSET Words
    [] OTHER -> Int

\* A bool rule has its stricter value.
RulesAssumption == \A key \in Keys : Kind[key] = "bool" => Strict[key] \in BOOLEAN

\* A floor file there is: the values of its [floor] table and its waivers, each a
\* gate (a key, or "commits", the whole check) and its last day.
NoFile == [file |-> FALSE, values |-> <<>>, waivers |-> {}]

\* Rule.stricter and Rule.looser.
Stricter(key, bound, value) ==
  CASE Kind[key] = "bool" -> IF Strict[key] \in {bound, value} THEN Strict[key] ELSE value
    [] Kind[key] = "set"  -> bound \cup value
    [] Kind[key] = "max"  -> IF bound < value THEN bound ELSE value
    [] OTHER              -> IF bound > value THEN bound ELSE value

Looser(key, value, bound) ==
  IF Kind[key] = "set" THEN ~(bound \subseteq value)
  ELSE Stricter(key, bound, value) # value

\* Mutant: only what both set is compared.
LoosenedWhereBoth(base, head) ==
  {key \in DOMAIN base \cap DOMAIN head : Looser(key, head[key], base[key])}

\* loosened: a key that was dropped, or asks less.
Loosened(base, head) ==
  {key \in DOMAIN base : key \notin DOMAIN head \/ Looser(key, head[key], base[key])}

\* waiver_problems: until its day is over a waiver holds; after that it fails.
Expired(floor, today) == {w \in floor.waivers : today > w.expires}

\* apply_floor.
Applied(project, floor) ==
  [key \in DOMAIN project \cup DOMAIN floor.values |->
     IF key \notin DOMAIN floor.values THEN project[key]
     ELSE IF key \notin DOMAIN project THEN floor.values[key]
     ELSE Stricter(key, floor.values[key], project[key])]

Overridden(project, floor) ==
  {key \in DOMAIN floor.values :
     key \notin DOMAIN project \/ Applied(project, floor)[key] # project[key]}

\* _apply_standards: what `tac config explain` shows, and which file it names.
Shown(project, floor) ==
  [key \in DOMAIN project \cup DOMAIN floor.values |->
     IF key \in Overridden(project, floor)
     THEN [value |-> Applied(project, floor)[key], source |-> "floor"]
     ELSE [value |-> project[key], source |-> "project"]]

\* load_config: a configuration without a floor, or with an expired waiver, does
\* not load.
Loads(floor, today) == floor.file /\ Expired(floor, today) = {}

\* config check --base: the candidate loads; the base's floor, where there is one,
\* loads with the candidate's files, and is not loosened.
Passes(base, head, today) ==
  /\ Loads(head.floor, today)
  /\ base.floor.file => /\ Loosened(base.floor.values, head.floor.values) = {}
                        /\ Expired(base.floor, today) = {}

\* commits.rules: what is left to ask once the waivers have lifted their part;
\* a waiver of another key, em_dashes say, leaves it asked.
CommitRules(tree) ==
  LET lifted == {w.gate : w \in tree.floor.waivers}
      asked  == IF "commits" \in lifted THEN {} ELSE Parts \ (lifted \cap Liftable)
  IN [key \in asked \cap DOMAIN Applied(tree.project, tree.floor) |->
        Applied(tree.project, tree.floor)[key]]

\* Changes proposed one after the other, each merged when its check is green.
Merged(start, changes) ==
  LET main[i \in 0..Len(changes)] ==
        IF i = 0 THEN start
        ELSE IF Passes(main[i - 1], changes[i].tree, changes[i].day)
             THEN changes[i].tree ELSE main[i - 1]
  IN main

IsSetting(values) ==
  DOMAIN values \subseteq Keys /\ \A key \in DOMAIN values : values[key] \in Values(key)

IsTree(tree) ==
  /\ IsSetting(tree.floor.values) /\ IsSetting(tree.project)
  /\ tree.floor.file \in BOOLEAN
  /\ ~tree.floor.file => DOMAIN tree.floor.values = {}
  /\ \A w \in tree.floor.waivers : w.expires \in Int

(***************************************************************************)
(* What the floor has to mean, said by what a value allows.                *)
(***************************************************************************)
\* Nothing the bound refuses is allowed by the value.
Keeps(key, value, bound) ==
  CASE Kind[key] = "bool" -> bound = Strict[key] => value = Strict[key]
    [] Kind[key] = "set"  -> bound \subseteq value
    [] Kind[key] = "max"  -> value <= bound
    [] OTHER              -> value >= bound

\* Whatever is merged, what an earlier floor asked is still asked, and by the
\* commit check too, unless a waiver lifts it that held on the day it was merged,
\* which of the check's keys only those that can be lifted are;
\* and what is shown is what is applied, named by the file that decides it.
StandardsOnlyTighten(start, changes, main) ==
  \A i \in 0..Len(changes) : \A j \in i..Len(changes) :
    LET asked == main[i].floor.values
        now   == Applied(main[j].project, main[j].floor)
        rules == CommitRules(main[j])
        lifted == {w.gate : w \in main[j].floor.waivers}
    IN /\ main[i].floor.file => main[j].floor.file
       /\ \A key \in DOMAIN asked :
            /\ key \in DOMAIN now /\ Keeps(key, now[key], asked[key])
            /\ key \in Parts /\ "commits" \notin lifted /\ key \notin lifted \cap Liftable =>
                 key \in DOMAIN rules /\ Keeps(key, rules[key], asked[key])
       /\ \A key \in DOMAIN main[j].project :
            key \in DOMAIN now /\ Keeps(key, now[key], main[j].project[key])
       /\ \A key \in DOMAIN now :
            LET shown == Shown(main[j].project, main[j].floor)[key] IN
            /\ shown.value = now[key]
            /\ shown.source = "project" <=>
                 key \in DOMAIN main[j].project /\ main[j].project[key] = now[key]
       /\ \A w \in main[j].floor.waivers :
            w \in start.floor.waivers \/
            \E k \in DOMAIN changes : changes[k].tree = main[j] /\ changes[k].day <= w.expires
=============================================================================
