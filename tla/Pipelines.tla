------------------------------- MODULE Pipelines -------------------------------
(***************************************************************************)
(* What `tac check` says of a pipeline (pipelines.py), and what a run of   *)
(* it hands each stage (run.py _inputs).  A pipeline is the sequence of    *)
(* its stages and the contracts it enters with.  A stage is a record: kind *)
(* of "agent", "gate", "effect" or "human", after (depends_on, a sequence  *)
(* of stage numbers), reads, writes (NoContract unless an agent), and bind *)
(* from some of what it reads to a stage.  The shape of a stage, and the   *)
(* files it names, are left out.                                           *)
(***************************************************************************)
EXTENDS Naturals, Sequences, FiniteSets, FiniteSetsExt, Functions

NoContract == "none"
Entry == 0       \* where a contract the pipeline enters with comes from
Nowhere == "nowhere"

After(stages, s) == Range(stages[s].after)

\* pipeline_problems: a stage depends on itself, or on no stage here.
Strays(stages) == \E s \in DOMAIN stages : ~(After(stages, s) \subseteq DOMAIN stages \ {s})

\* find_cycle: where in depends_on are those to look at, itself left out.
ToVisit(stages, node, closed) ==
  {i \in DOMAIN stages[node].after : stages[node].after[i] \notin closed \cup {node}}

\* A step of find_cycle's visit, depth first: trail is the path to where it is,
\* closed are the stages no cycle goes through.
Visit(stages, at) ==
  LET n    == Len(at.trail)
      node == at.trail[n]
      deps == ToVisit(stages, node, at.closed)
      dep  == stages[node].after[Min(deps)]
      met  == {k \in 1..n : at.trail[k] = dep}
      left == DOMAIN stages \ at.closed
  IN IF at.cycle # <<>> THEN at
     ELSE IF n = 0 THEN IF left = {} THEN at ELSE [at EXCEPT !.trail = <<Min(left)>>]
     ELSE IF deps = {}
       THEN [at EXCEPT !.trail = SubSeq(@, 1, n - 1), !.closed = @ \cup {node}]
     ELSE IF met = {} THEN [at EXCEPT !.trail = Append(@, dep)]
     ELSE [at EXCEPT !.cycle = Append(SubSeq(at.trail, Min(met), n), dep)]

\* The first cycle through depends_on, as the stages around it; empty if none.
\* A stage is visited and closed once, so twice as many steps are enough.
FindCycle(stages) ==
  LET at[i \in 0..(2 * Len(stages))] ==
        IF i = 0 THEN [trail |-> <<>>, closed |-> {}, cycle |-> <<>>]
        ELSE Visit(stages, at[i - 1])
  IN at[2 * Len(stages)].cycle

\* order: the first stage of the file whose dependencies are done.
Next(stages, done) ==
  Append(done, Min({s \in DOMAIN stages : s \notin Range(done)
                                          /\ After(stages, s) \subseteq Range(done)}))

\* A topological order; ties keep the file's order.
Order(stages) ==
  LET done[i \in 0..Len(stages)] == IF i = 0 THEN <<>> ELSE Next(stages, done[i - 1])
  IN done[Len(stages)]

\* Mutant: what a stage depends on directly.
AncestorsNear(stages) == [s \in DOMAIN stages |-> After(stages, s)]

\* What each stage transitively depends on, found along the order.
Ancestors(stages) ==
  LET order == Order(stages)
      Find(found, s) == [found EXCEPT ![s] = UNION {{d} \cup found[d] : d \in After(stages, s)}]
      found[i \in 0..Len(stages)] ==
        IF i = 0 THEN [s \in DOMAIN stages |-> {}] ELSE Find(found[i - 1], order[i])
  IN found[Len(stages)]

\* stage_problems: a bind to what is no source, and a read with none or several.
BadBind(pipeline, s, up) ==
  LET stage == pipeline.stages[s] IN
  \E c \in DOMAIN stage.bind :
    \/ c \notin stage.reads
    \/ stage.bind[c] \notin up
    \/ pipeline.stages[stage.bind[c]].writes # c

Writers(pipeline, up, c) == {u \in up : pipeline.stages[u].writes = c}

BadRead(pipeline, s, up) ==
  LET stage == pipeline.stages[s] IN
  \E c \in stage.reads \ DOMAIN stage.bind :
    Cardinality(Writers(pipeline, up, c)) + (IF c \in pipeline.entry THEN 1 ELSE 0) # 1

\* pipeline_problems: an effect with no gate stage upstream.
Ungated(pipeline, s, up) ==
  pipeline.stages[s].kind = "effect" /\ \A u \in up : pipeline.stages[u].kind # "gate"

Problem(pipeline) ==
  LET up == Ancestors(pipeline.stages) IN
  \E s \in DOMAIN pipeline.stages :
    \/ BadBind(pipeline, s, up[s])
    \/ BadRead(pipeline, s, up[s])
    \/ Ungated(pipeline, s, up[s])

\* run._inputs: the stage a contract is taken from.
Source(pipeline, s, c) ==
  LET stage   == pipeline.stages[s]
      writers == Writers(pipeline, Ancestors(pipeline.stages)[s], c)
  IN IF c \in DOMAIN stage.bind THEN stage.bind[c]
     ELSE IF writers # {}
     THEN LET order == Order(pipeline.stages)
          IN order[Max({i \in DOMAIN order : order[i] \in writers})]
     ELSE IF c \in pipeline.entry THEN Entry
     ELSE Nowhere

\* check_pipelines, and for a clean pipeline what `tac run` makes of it.
Checked(pipeline) ==
  LET stages == pipeline.stages
      cycle  == FindCycle(stages)
  IN IF Strays(stages) THEN [refused |-> "stray"]
     ELSE IF cycle # <<>> THEN [refused |-> "cycle", cycle |-> cycle]
     ELSE IF Problem(pipeline) THEN [refused |-> "problem"]
     ELSE [refused |-> "no", order |-> Order(stages),
           given |-> [s \in DOMAIN stages |->
                       [c \in stages[s].reads |-> Source(pipeline, s, c)]]]

\* read_pipeline: the stages are a list, and what a stage depends on is one.
AreStages(stages) ==
  /\ Len(stages) \in Nat /\ DOMAIN stages = 1..Len(stages)
  /\ \A s \in DOMAIN stages :
       Len(stages[s].after) \in Nat /\ DOMAIN stages[s].after = 1..Len(stages[s].after)

(***************************************************************************)
(* What the check has to mean, said by the graph alone.                    *)
(***************************************************************************)
Upstream(stages, s) ==
  {u \in DOMAIN stages : \A some \in SUBSET DOMAIN stages :
     (After(stages, s) \subseteq some
        /\ \A t \in some : After(stages, t) \subseteq some) => u \in some}

Sources(pipeline, s, c) ==
  Writers(pipeline, Upstream(pipeline.stages, s), c)
    \cup (IF c \in pipeline.entry THEN {Entry} ELSE {})

\* What the file meant: the bound source, or the only one there is.
Meant(pipeline, s, c, source) ==
  /\ source \in Sources(pipeline, s, c)
  /\ IF c \in DOMAIN pipeline.stages[s].bind THEN source = pipeline.stages[s].bind[c]
     ELSE Sources(pipeline, s, c) = {source}

Runnable(pipeline) ==
  \A s \in DOMAIN pipeline.stages :
    LET stage == pipeline.stages[s] IN
    /\ DOMAIN stage.bind \subseteq stage.reads
    /\ \A c \in stage.reads :
         \E source \in Sources(pipeline, s, c) : Meant(pipeline, s, c, source)
    /\ \A c \in DOMAIN stage.bind : stage.bind[c] # Entry
    /\ stage.kind = "effect" =>
         \E u \in Upstream(pipeline.stages, s) : pipeline.stages[u].kind = "gate"

Circular(stages) ==
  \E some \in SUBSET DOMAIN stages :
    some # {} /\ \A s \in some : After(stages, s) \cap some # {}

\* From a stage back to it, each depending on the one that follows.
GoesAround(stages, cycle) ==
  LET n == Len(cycle) IN
  /\ n > 2 /\ cycle[1] = cycle[n]
  /\ \A i \in 1..(n - 1) : cycle[i + 1] \in After(stages, cycle[i])

\* Every stage comes after those it depends on, is given what the file means, and
\* an effect comes after a gate it depends on.
RunsAsMeant(pipeline, answer) ==
  LET stages == pipeline.stages
      Before(x, y) == \E i, j \in DOMAIN stages :
                        i < j /\ answer.order[i] = x /\ answer.order[j] = y
  IN
  /\ Range(answer.order) = DOMAIN stages /\ Len(answer.order) = Len(stages)
  /\ \A s \in DOMAIN stages :
       /\ \A d \in After(stages, s) : Before(d, s)
       /\ \A c \in stages[s].reads :
            /\ Meant(pipeline, s, c, answer.given[s][c])
            /\ answer.given[s][c] # Entry => Before(answer.given[s][c], s)
       /\ stages[s].kind = "effect" =>
            \E u \in Upstream(stages, s) : stages[u].kind = "gate" /\ Before(u, s)

\* A pipeline is refused for a cycle that is one, or for a stage that could not
\* run as its file means; else it runs as the file means.
PipelineIsSound(pipeline, answer) ==
  LET stages == pipeline.stages IN
  CASE answer.refused = "stray" ->
         \E s \in DOMAIN stages : s \in After(stages, s) \/ After(stages, s) \ DOMAIN stages # {}
    [] answer.refused = "cycle" -> GoesAround(stages, answer.cycle)
    [] answer.refused = "problem" -> ~Circular(stages) /\ ~Runnable(pipeline)
    [] OTHER -> ~Circular(stages) /\ RunsAsMeant(pipeline, answer)
=============================================================================
