----------------------------- MODULE Repository -----------------------------
(***************************************************************************)
(* What a repository carries from clone to clone, composed: the orders of  *)
(* WorkOrders, with their rulings, and the store of Memory.  They share no *)
(* state, so a behaviour is one of one of the two (part), the other at     *)
(* rest.                                                                   *)
(***************************************************************************)
EXTENDS WorkOrders

CONSTANTS                                \* Memory
  Procs, Recs, Supersedes, Contradicts, EventKinds, NoProc, NoRec, Torn,
  MaxEvents, MaxKills, MaxClones

VARIABLES
  part,
  records, events, quarantined, page, promoted, index, lock, busy, toHold, todo,
  ids, kills, clones

M == INSTANCE Memory

ASSUME RecordsAssumption == M!MemoryAssumption

memory == <<records, events, quarantined, page, promoted, index, lock, busy, toHold, todo,
            ids, kills, clones>>
allVars == <<vars, memory, part>>

RepositoryInit ==
  /\ part \in {"work", "memory"}
  /\ Init /\ M!Init
  /\ part # "work" => \A o \in Orders : \A f \in Owns[o] : Tip(o).tree[f] = 0

Working      == part = "work"   /\ Next   /\ UNCHANGED <<memory, part>>
Remembering  == part = "memory" /\ M!Next /\ UNCHANGED <<vars, part>>
RepositoryNext == Working \/ Remembering
RepositorySpec == RepositoryInit /\ [][RepositoryNext]_allVars

\* Memory, append_line and promote: the journals can be trusted after any kill.
JournalsAreTrue == M!JournalsAreTrue
\* Memory, promote: a record enters the checkout only while both stores together call
\* it confirmed.
PromotedWhenConfirmed == M!PromotedWhenConfirmed
=============================================================================
