------------------------------- MODULE Receipts -------------------------------
(***************************************************************************)
(* What `tac receipt verify-tree` says of a pull request                   *)
(* (receipts.verify_committed).  A pull request is a record: the trees of  *)
(* its commits from the one it forked at, src the sources and orders what  *)
(* each order.toml holds (0 where there is none), the state of main it is  *)
(* judged against (held are the receipts main has), and files, the         *)
(* receipts in its head, by the order whose folder they are in; reference  *)
(* are the orders its head's own order.toml calls an example.  A commit    *)
(* is its number, Fork the one it forked at, Ahead one of main's after.    *)
(* A receipt is what the runner signed: the order, the revision, the       *)
(* stage, and whether it saw the expected command pass.  Keys, the         *)
(* repository and the policy hash are left out: a receipt with another one *)
(* is refused, as is one whose signature does not fit.                     *)
(***************************************************************************)
EXTENDS Naturals, Sequences

Fork == 1
Ahead == 0

Tip(pr) == Len(pr.trees)

\* There is a commit, each tree says of the same orders what it holds, and an
\* example is an order the head has.
WellFormed(pr) ==
  /\ Tip(pr) \in Nat \ {0} /\ DOMAIN pr.trees = 1..Tip(pr)
  /\ \A commit \in 1..Tip(pr) : DOMAIN pr.trees[commit].orders = DOMAIN pr.trees[Fork].orders
  /\ pr.reference \subseteq {o \in DOMAIN pr.trees[Fork].orders : pr.trees[Tip(pr)].orders[o] # 0}

InHead(pr, revision) == revision \in 1..Tip(pr)

\* Whether the base's history has it: the fork does, main's own commits do.
OnBase(pr, revision) == revision \in {Fork, Ahead}

\* Mutant: the sources alone.
SameSources(pr, revision) == pr.trees[revision].src = pr.trees[Tip(pr)].src

\* changed_besides_receipts is empty.
SameBesidesReceipts(pr, revision) == pr.trees[revision] = pr.trees[Tip(pr)]

\* unchanged_since: the base holds this very file.
Held(pr, file) == file \in pr.held

\* expectation_problem, for a receipt of a stage the base's receipts.toml names.
Expected(pr, receipt) == receipt.stage \in pr.stages /\ receipt.passed

\* Whether a receipt in the head is accepted where it is.
Verified(pr, file) ==
  LET receipt == file.receipt IN
  /\ receipt.signed
  /\ receipt.order = file.folder
  /\ InHead(pr, receipt.revision)
  /\ ~Held(pr, file) =>
       /\ ~OnBase(pr, receipt.revision)
       /\ SameBesidesReceipts(pr, receipt.revision)
       /\ Expected(pr, receipt)

\* orders_changed: since the fork, folders touched and orders still there, less
\* the examples.
OrdersChanged(pr) ==
  {o \in DOMAIN pr.trees[Fork].orders :
     /\ pr.trees[Tip(pr)].orders[o] # 0 /\ o \notin pr.reference
     /\ \/ pr.trees[Tip(pr)].orders[o] # pr.trees[Fork].orders[o]
        \/ {f \in pr.files : f.folder = o} # {f \in pr.forked : f.folder = o}}

Missing(pr, order) ==
  {stage \in pr.required :
     ~\E f \in pr.files : Verified(pr, f) /\ ~Held(pr, f)
                            /\ f.folder = order /\ f.receipt.stage = stage}

\* verify_committed, with no problem found.
Passes(pr) ==
  /\ \A f \in pr.files : Verified(pr, f)
  /\ \A o \in OrdersChanged(pr) : Missing(pr, o) = {}

(***************************************************************************)
(* What a green check has to mean.                                         *)
(***************************************************************************)
\* The runner saw this stage pass for this order on the head's code, in a
\* revision this pull request brought.
Judged(pr, order, stage) ==
  \E f \in pr.files :
    /\ f.receipt.signed /\ f.receipt.passed
    /\ f.receipt.order = order /\ f.receipt.stage = stage
    /\ f.receipt.revision \in 2..Tip(pr)
    /\ pr.trees[f.receipt.revision] = pr.trees[Tip(pr)]

\* A pull request passes only if the runner judged its very head for every order
\* it touches, less those its head calls examples, and every receipt in it is
\* the runner's, in the order it is of.
ReceiptsAreOfTheHead(pr, passes) ==
  passes =>
    /\ \A f \in pr.files : f.receipt.signed /\ f.receipt.order = f.folder
    /\ \A o \in DOMAIN pr.trees[Tip(pr)].orders :
         LET Of(commit, files) == <<pr.trees[commit].orders[o], {f \in files : f.folder = o}>>
         IN \/ pr.trees[Tip(pr)].orders[o] = 0 \/ o \in pr.reference
            \/ Of(Tip(pr), pr.files) = Of(Fork, pr.forked)
            \/ \A stage \in pr.required : Judged(pr, o, stage)
=============================================================================
