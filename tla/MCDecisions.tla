----------------------------- MODULE MCDecisions -----------------------------
(***************************************************************************)
(* The decisions of Decisions, each asked of every input of a small set    *)
(* and compared with what it has to mean.                                  *)
(***************************************************************************)
EXTENDS Decisions, SequencesExt

(***************************************************************************)
(* Goals: three orders of two teams, over a folder, a file in it and one   *)
(* beside it; any needs among them and of a fourth, which nobody wrote, is *)
(* of another goal, or has landed and was swept.                           *)
(***************************************************************************)
Src  == [path |-> <<"src">>, folder |-> TRUE]
File == [path |-> <<"src", "a">>, folder |-> FALSE]
Doc  == [path |-> <<"doc">>, folder |-> FALSE]
SomePaths == {<<"src", "a">>, <<"src", "b">>, <<"doc">>}

OrderFiles(o) ==
  {[owns |-> {entry}, needs |-> needs, team |-> IF o = 3 THEN "web" ELSE "core"] :
     entry \in {IF o = 1 THEN Src ELSE File, Doc}, needs \in SUBSET ((1..4) \ {o})}

Elsewhere == [owns |-> {Doc}, needs |-> {}, team |-> "web"]

Writes(written, first, second, third) ==
  [o \in written |->
     CASE o = 1 -> first [] o = 2 -> second [] o = 3 -> third [] OTHER -> Elsewhere]

AGoal ==
  {[orders |-> {<<2, 1, 3>>}, landed |-> {{}, {2}, {4}}, budgets |-> {0, 2, 3},
    caps |-> {[core |-> cap, web |-> 0] : cap \in 0..1},
    files |-> {Writes(written, first, second, third) :
                 written \in {{1, 2, 3}, {1, 2, 3, 4}, {1, 3}},
                 first \in OrderFiles(1), second \in OrderFiles(2), third \in OrderFiles(3)}]}

(***************************************************************************)
(* Pipelines: every kind of stage in every graph of three, and every graph *)
(* of four stages that do nothing.                                         *)
(***************************************************************************)
Stage(kind, after, reads, writes, bind) ==
  [kind |-> kind, after |-> after, reads |-> reads, writes |-> writes, bind |-> bind]

Binds == {<<>>} \cup {[c \in {"c"} |-> s] : s \in 1..3}
ReadsAndBinds == {<<{}, <<>>>>} \cup {<<{"c"}, bind>> : bind \in Binds}

Stages(after) ==
  {Stage("gate", after, {}, "none", <<>>), Stage("effect", after, {}, "none", <<>>)}
    \cup {Stage("agent", after, rb[1], "c", rb[2]) : rb \in ReadsAndBinds}
    \cup {Stage("human", after, rb[1], "none", rb[2]) : rb \in ReadsAndBinds}

Afters(s, n) == {SetToSeq(some) : some \in SUBSET ((1..n) \ {s})}

Idle(after) == Stage("gate", after, {}, "none", <<>>)
Astray == {<<1>>, <<2, 5>>}

AFlow ==
  {[stages |-> {<<x, y, z>> : x \in Stages(a), y \in Stages(b), z \in Stages(c)},
    entries |-> {{}, {"c"}}] : a \in Afters(1, 3), b \in Afters(2, 3), c \in Afters(3, 3)}
   \cup {[stages |-> {<<Idle(a), Idle(b), Idle(c), Idle(d)>> :
                        a \in Afters(1, 4) \cup Astray, b \in Afters(2, 4),
                        c \in Afters(3, 4), d \in Afters(4, 4)},
          entries |-> {{}}]}

(***************************************************************************)
(* Pull requests: three commits, each of an edit of the sources or of an   *)
(* order's file, and a few receipts.                                       *)
(***************************************************************************)
Edits == {"none", "src", "a", "b"}
Edited(tree, edit) ==
  CASE edit = "src"    -> [tree EXCEPT !.src = @ + 1]
    [] edit = "revert" -> [tree EXCEPT !.src = 0]
    [] edit \in {"a", "b"} -> [tree EXCEPT !.orders[edit] = @ + 1]
    [] edit = "sweep"  -> [tree EXCEPT !.orders["a"] = 0]
    [] OTHER -> tree

Forked == [src |-> 0, orders |-> [o \in {"a", "b"} |-> IF o = "a" THEN 1 ELSE 0]]
History(edits) ==
  FoldLeft(LAMBDA trees, edit : Append(trees, Edited(Last(trees), edit)), <<Forked>>, edits)

OrdersOf(tree) == {o \in {"a", "b"} : tree.orders[o] # 0}

Committed(folder, order, revision, stage, passed, signed) ==
  [folder |-> folder,
   receipt |-> [order |-> order, revision |-> revision, stage |-> stage,
                passed |-> passed, signed |-> signed]]

ReceiptFiles ==
  {Committed(o, o, revision, stage, passed, TRUE) :
     o \in {"a", "b"}, revision \in 0..3, stage \in {"gate", "probe"}, passed \in BOOLEAN}
   \cup {Committed("a", "b", revision, "gate", TRUE, TRUE) : revision \in 1..3}
   \cup {Committed("a", "a", revision, "gate", TRUE, FALSE) : revision \in 1..3}

APullRequest ==
  {[trees |-> History(edits), files |-> files, held |-> held, forked |-> held,
    required |-> {"gate"}, stages |-> {"gate", "probe"},
    reference |-> examples \cap OrdersOf(Last(History(edits)))] :
     examples \in {{}, {"a"}}, edits \in Edits \X Edits \X (Edits \cup {"revert", "sweep"}),
     held \in {{}, {Committed("a", "a", 1, "gate", TRUE, TRUE)}},
     files \in {{x, y} : x, y \in ReceiptFiles} \cup {{}}}

(***************************************************************************)
(* Memory: three records, a policy, a decision and a note, and whatever    *)
(* was said of them.                                                       *)
(***************************************************************************)
Record(kind, topics, scope, order, paths, from, until, size) ==
  [kind |-> kind, topics |-> topics, scope |-> scope, order |-> order, paths |-> paths,
   from |-> from, until |-> until, size |-> size, repository |-> "here", sourced |-> TRUE]

Policies  == {Record("rule", {"policy"}, "project", "none", {}, 0, 2, 1),
              Record("rule", {"policy"}, "project", "none", {}, 0, Recall!Always, 2)}
DecisionRecords == {Record("decision", {topic}, "order", "a", {}, 0, Recall!Always, 1) :
                topic \in {"policy", "build"}}
             \cup {Record("decision", {"build"}, "order", "b", {}, 0, Recall!Always, 1)}
Notes     == {Record("fact", {"build"}, "team", "none", {"src"}, from, Recall!Always, size) :
                from \in 0..1, size \in 1..2}
             \cup {Record("fact", {"build"}, "session", "none", {"src"}, 0, Recall!Always, 1)}

Said(id, at, kind, r, o, basis) ==
  [id |-> id, at |-> at, kind |-> kind, record |-> r, other |-> o, basis |-> basis]

Reviews == {{Said(r, 1, "review", r, 0, "reviewed") : r \in rs} :
              rs \in {{}, {1, 2}, {2, 3}, {1, 2, 3}}}
Later   == {Said(3 + at, at, kind, r, o, "none") :
              at \in 1..2, kind \in {"supersede", "conflict"}, r, o \in 1..3}
           \cup {Said(6, at, "review", r, 0, basis) :
                   at \in 1..2, r \in 1..3, basis \in {"owner", "inferred"}}
Remarks == {e \in Later : e.record # e.other}

AMemory ==
  {[records |-> {<<policy, decision, note>> :
                   policy \in Policies, decision \in DecisionRecords, note \in Notes},
    events  |-> {reviews \cup {x, y} : reviews \in Reviews, x, y \in Remarks},
    asks    |-> [now : 1..2, cap : 2..3, order : {"a"}, paths : {{"src"}},
                 topics : {{}, {"build"}}, repository : {"here"}]]}

(***************************************************************************)
(* Standards: two changes, to one key and its waivers.                    *)
(***************************************************************************)
KindOf == [dates |-> "enum", em_dashes |-> "bool", max_subject |-> "max",
           trailers |-> "set", coverage |-> "min"]
StrictOf == [em_dashes |-> FALSE]

Asking == [dates |-> 0..1, em_dashes |-> BOOLEAN, max_subject |-> 1..2, coverage |-> 1..2,
           trailers |-> SUBSET {"run", "order"}]

Settings(key) == {<<>>} \cup {[k \in {key} |-> v] : v \in Asking[key]}

Floors(key) ==
  {Law!NoFile}
    \cup {[file |-> TRUE, values |-> values, waivers |-> waivers] : values \in Settings(key),
           waivers \in {{}} \cup {{[gate |-> gate, expires |-> 1]} : gate \in {key, "commits"}}}

Trees(key) == {[floor |-> floor, project |-> project] :
                 floor \in Floors(key), project \in Settings(key)}

ASubject ==
  {[starts |-> {[floor |-> floor, project |-> <<>>] : floor \in Floors(key)},
    trees |-> Trees(key), days |-> 1..2] : key \in DOMAIN Asking}

(***************************************************************************)
(* The checks of an order: two who run them, while its tree is edited.  On *)
(* the first tree all passes, on the second a command fails; the first has *)
(* a stray once the base has moved.                                        *)
(***************************************************************************)
StrayOnceMoved == {<<1, 2>>}

AStep ==
  {[is |-> "edit", tree |-> t] : t \in 1..2} \cup {[is |-> "base", base |-> 2]}
    \cup {[is |-> "check", by |-> "p", how |-> how] : how \in {"check", "force"}}
    \cup {[is |-> "check", by |-> "q", how |-> "hurried"], [is |-> "repair", by |-> "q"]}
    \cup {[is |-> "go", by |-> p, slow |-> p = "q"] : p \in {"p", "q"}}
    \cup {[is |-> "kill", by |-> "p"]}
=============================================================================
