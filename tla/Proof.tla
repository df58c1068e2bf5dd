------------------------------- MODULE Proof -------------------------------
(***************************************************************************)
(* `tac proof coverage` and `tac proof dev` (proof.py): what the harness   *)
(* claims is mapped to tests, the tests are run in the checkout, and the   *)
(* result names the revision HEAD had at the start.  Outcomes reach the    *)
(* command through a file in dev/out that every command of its kind writes *)
(* and none removes; the checkout is locked by nobody, and looked at once. *)
(*                                                                         *)
(* A commit is the tree it holds.  A test's id is a path: a file, a test   *)
(* in it, a case of that; live probes and their receipts are left out.     *)
(***************************************************************************)
EXTENDS Naturals, FiniteSets, SequencesExt

CONSTANTS
  Provers,     \* processes that run a proof
  Trees, NoTree,
  Claims,      \* per tree: the conditions its configuration and source claim
  Entries,     \* per tree: its map, a set of [condition, tests]
  Says,        \* per tree: what each test case answers
  Ledger,      \* the trees whose ledger gates pass
  MaxShifts,   \* bound on changes of the checkout
  MaxProofs    \* bound on proofs begun

VARIABLES
  work, head,  \* the checkout, and the commit HEAD names
  prove,       \* per prover: its command
  junit,       \* per kind: the outcomes in dev/out
  proved,      \* the proofs that ended with exit 0
  shifts, begun

vars == <<work, head, prove, junit, proved, shifts, begun>>

Kinds == {"coverage", "dev"}
Nodes(t) == DOMAIN Says[t]
AllNodes == UNION {Nodes(t) : t \in Trees}
AreOutcomes(f) ==
  DOMAIN f \subseteq AllNodes /\ \A n \in DOMAIN f : f[n] \in {"passed", "failed", "skipped"}
Nothing == [n \in {} |-> "passed"]

\* disturbed and crossed are history: the checkout changed under the proof, another
\* command wrote its outcomes file.
Idle == [at |-> "idle", kind |-> "dev", rev |-> NoTree, of |-> NoTree, clean |-> TRUE,
         sound |-> TRUE, took |-> Nothing, code |-> 0, disturbed |-> FALSE, crossed |-> FALSE]

TypeOK ==
  /\ work \in Trees /\ head \in Trees
  /\ \A p \in Provers :
       /\ prove[p].at \in {"idle", "status", "derive", "ledger", "collect", "run", "write", "judge"}
       /\ prove[p].kind \in Kinds /\ {prove[p].rev, prove[p].of} \subseteq Trees \cup {NoTree}
       /\ AreOutcomes(prove[p].took)
  /\ \A k \in Kinds : AreOutcomes(junit[k])
  /\ proved \subseteq [kind : Kinds, rev : Trees, clean : BOOLEAN, disturbed : BOOLEAN,
                       crossed : BOOLEAN]

Init ==
  /\ work \in Trees /\ head = work
  /\ prove = [p \in Provers |-> Idle]
  /\ junit = [k \in Kinds |-> Nothing]
  /\ proved = {} /\ shifts = 0 /\ begun = 0

-----------------------------------------------------------------------------
(* What is asked of tests *)

Covers(id, node) == IsPrefix(id, node)
Matching(id, nodes) == {n \in nodes : Covers(id, n)}

\* outcome_of: something ran, and all of it passed; a skip proves nothing.
Passed(id, outcomes) ==
  LET found == Matching(id, DOMAIN outcomes) IN
  found # {} /\ \A n \in found : outcomes[n] = "passed"

\* map_problems: one entry for each condition and for nothing else, and only tests
\* that collect.
MapFits(t, collected) ==
  /\ {e.condition : e \in Entries[t]} = Claims[t]
  /\ \A e, f \in Entries[t] : e.condition = f.condition => e = f
  /\ \A e \in Entries[t] : \A id \in e.tests : Matching(id, collected) # {}

ProofTests == {<<"bypass">>, <<"mutation">>}
IdsOf(c) == IF c.kind = "dev" THEN ProofTests ELSE UNION {e.tests : e \in Entries[c.of]}

-----------------------------------------------------------------------------
(* The checkout changes *)

Shift(t, h) ==
  /\ shifts < MaxShifts /\ shifts' = shifts + 1
  /\ work' = t /\ head' = h /\ <<t, h>> # <<work, head>>
  /\ prove' = [p \in Provers |->
                 IF prove[p].at = "idle" THEN Idle ELSE [prove[p] EXCEPT !.disturbed = TRUE]]
  /\ UNCHANGED <<junit, proved, begun>>
Edit     == \E t \in Trees : Shift(t, head)
Checkout == \E t \in Trees : Shift(t, t)

-----------------------------------------------------------------------------
(* The commands *)

Goes(p, from, c) == prove[p].at = from /\ prove' = [prove EXCEPT ![p] = c]
Here == <<work, head, shifts>>

\* revision_of: rev-parse, then status; a dirty tree only with --allow-dirty.
Begin(p, kind) ==
  /\ begun < MaxProofs /\ begun' = begun + 1
  /\ Goes(p, "idle", [Idle EXCEPT !.at = "status", !.kind = kind, !.rev = head])
  /\ UNCHANGED <<Here, junit, proved>>
Status(p) ==
  LET c == prove[p] IN
  /\ \/ Goes(p, "status", [c EXCEPT !.at = IF c.kind = "dev" THEN "ledger" ELSE "derive",
                                    !.clean = (work = head)])
     \/ work # head /\ Goes(p, "status", Idle)
  /\ UNCHANGED <<Here, junit, proved, begun>>

\* conditions and load_map, then pytest --collect-only.
Derive(p) ==
  /\ Goes(p, "derive", [prove[p] EXCEPT !.at = "collect", !.of = work])
  /\ UNCHANGED <<Here, junit, proved, begun>>
Collect(p) ==
  /\ Goes(p, "collect", IF MapFits(prove[p].of, Nodes(work)) THEN [prove[p] EXCEPT !.at = "run"]
                                                             ELSE Idle)
  /\ UNCHANGED <<Here, junit, proved, begun>>

\* dev: the ledger's gates, and the rendering, which may fail of itself.
LedgerGates(p) ==
  /\ \E rendered \in BOOLEAN :
       Goes(p, "ledger", [prove[p] EXCEPT !.at = "run", !.sound = work \in Ledger /\ rendered])
  /\ UNCHANGED <<Here, junit, proved, begun>>

\* pytest runs what was asked of the tree as it is; it may stop before the end.
Asked(c, t) == {n \in Nodes(t) : \E id \in IdsOf(c) : Covers(id, n)}
Run(p) ==
  /\ prove[p].at = "run"
  /\ \E ran \in SUBSET Asked(prove[p], work) :
       LET took  == [n \in ran |-> Says[work][n]]
           whole == ran = Asked(prove[p], work) /\ ran # {}
                      /\ \A n \in ran : took[n] # "failed" IN
       Goes(p, "run", [prove[p] EXCEPT !.at = "write", !.took = took,
                                       !.code = IF whole THEN 0 ELSE 1])
  /\ UNCHANGED <<Here, junit, proved, begun>>

\* The outcomes are written at its end, or it dies with none written.
WriteJunit(p) ==
  LET c == prove[p]  kind == c.kind IN
  /\ c.at = "write"
  /\ \/ /\ junit' = [junit EXCEPT ![kind] = c.took]
        /\ prove' = [q \in Provers |->
             IF q = p THEN [c EXCEPT !.at = "judge", !.took = Nothing]
             ELSE [prove[q] EXCEPT !.crossed = @ \/ (prove[q].kind = kind /\ prove[q].at = "judge")]]
     \/ Goes(p, "write", [c EXCEPT !.at = "judge", !.took = Nothing, !.code = 1])
        /\ UNCHANGED junit
  /\ UNCHANGED <<Here, proved, begun>>

\* Mutant: the exit code is that of the outcomes in the file.
Unasked(c) == TRUE
Answered(c) == c.code = 0
\* Every condition's tests, or each of dev's two files, in what the file says.
AllPassed(c) == \A id \in IdsOf(c) : Passed(id, junit[c.kind])
\* The file is read, the report written.
Judge(p) ==
  LET c == prove[p]  ok == c.sound /\ Answered(c) /\ AllPassed(c) IN
  /\ Goes(p, "judge", Idle)
  /\ proved' = IF ok THEN proved \cup {[kind |-> c.kind, rev |-> c.rev, clean |-> c.clean,
                                        disturbed |-> c.disturbed, crossed |-> c.crossed]}
                     ELSE proved
  /\ UNCHANGED <<Here, junit, begun>>

Next ==
  \/ Edit \/ Checkout
  \/ \E p \in Provers :
       \/ \E kind \in Kinds : Begin(p, kind)
       \/ Status(p) \/ Derive(p) \/ Collect(p) \/ LedgerGates(p) \/ Run(p) \/ WriteJunit(p)
       \/ Judge(p)

Spec == Init /\ [][Next]_vars

-----------------------------------------------------------------------------
\* What a proof of a revision has to mean.
Proves(kind, t) ==
  LET entries == IF kind = "dev" THEN {[condition |-> kind, tests |-> ProofTests]}
                                 ELSE Entries[t] IN
  /\ kind = "coverage" => \A c \in Claims[t] : \E e \in entries : e.condition = c
  /\ kind = "dev" => t \in Ledger
  /\ \A e \in entries : \A id \in e.tests : Passed(id, Says[t])

\* proof.py, coverage and dev: the result is bound to the tested revision.  A proof
\* that succeeds was given by that revision: each condition it claims has tests, and
\* every case of each passed on it, whatever outcomes earlier proofs left behind; but
\* for a checkout that changed under it and a proof of its kind that overlapped.
ProofIsOfItsRevision ==
  \A r \in proved : r.clean /\ ~r.disturbed /\ ~r.crossed => Proves(r.kind, r.rev)
=============================================================================
