-------------------------- MODULE RepositoryProofs --------------------------
(***************************************************************************)
(* What a repository carries, for any number of orders, people, records    *)
(* and commands: that a behaviour of Repository is one of each of its      *)
(* parts, and the proofs about WorkOrders and Memory.  Of WorkOrders, that *)
(* what lands is what was accepted: between a reading and a merge          *)
(* everybody goes on, and nothing of what CI looked at can change without  *)
(* a commit to the branch it passed.  Of Memory, that what a command found *)
(* under the lock is still so when it writes, and that whoever dies leaves *)
(* journals the next one can go on from.  And of Decisions, which are      *)
(* folds over whatever happened, that what they answer is right for        *)
(* histories of any length.                                                *)
(***************************************************************************)
EXTENDS Repository, Decisions, FiniteSetTheorems, WellFoundedInduction, TLAPS

-----------------------------------------------------------------------------
(* The parts *)

\* Whatever is done in a repository, each part goes its own way or rests: what is
\* proved of a part's specification holds of the repository.
THEOREM PartsAreThemselves == RepositorySpec => Spec /\ M!Spec
<1>1. RepositoryInit => Init /\ M!Init
  BY DEF RepositoryInit
<1> USE DEF RepositoryNext, Working, Remembering, allVars, memory
<1>2. [RepositoryNext]_allVars => [Next]_vars
  BY DEF vars
<1>3. [RepositoryNext]_allVars => [M!Next]_(M!vars)
  BY DEF M!vars, M!live, M!store
<1> QED
  BY <1>1, <1>2, <1>3, PTL DEF RepositorySpec, Spec, M!Spec

-----------------------------------------------------------------------------
(* WorkOrders *)


Trees == [Paths -> Nat]
Rulings == [order : Orders, role : Roles, at : Nat, by : People, accepts : BOOLEAN]
Readings == [order : Orders, role : Roles, by : People, at : Nat]

BranchTypes ==
  /\ mains \in Seq(Trees) /\ mains # <<>>
  /\ commits \in [Branches -> Seq([tree : Trees, from : Nat])]
  /\ \A b \in Branches : commits[b] # <<>>
  /\ \A b \in Branches : \A i \in 1..Len(commits[b]) : commits[b][i].from \in 1..Len(mains)

RulingTypes ==
  /\ rulings \in Seq(Rulings)
  /\ \A i \in 1..Len(rulings) : rulings[i].at \in 1..Len(commits[rulings[i].order])
  /\ reading # NoReading =>
       reading \in Readings /\ reading.at \in 1..Len(commits[reading.order])

RestTypes ==
  /\ loaded \in [Orders -> Nat] /\ \A o \in Orders : loaded[o] <= Len(commits[o])
  /\ ci \subseteq Branches /\ open \subseteq Branches /\ edits \in 0..MaxEdits

Types == BranchTypes /\ RulingTypes /\ RestTypes

\* A review or a sign-off in a tree is one that was written, of that order and role.
Written(tree) ==
  \A o \in Orders, role \in Roles :
    tree[<<o, role>>] # 0 =>
      /\ tree[<<o, role>>] \in 1..Len(rulings)
      /\ rulings[tree[<<o, role>>]].order = o
      /\ rulings[tree[<<o, role>>]].role = role

AllWritten ==
  /\ \A i \in 1..Len(mains) : Written(mains[i])
  /\ \A b \in Branches : Written(Tip(b).tree)

\* The branch of an order changes no other order's folder.
OwnFolder ==
  \A b \in Orders : \A o \in Orders \ {b} : \A p \in Folder(o) :
    Tip(b).tree[p] = From(Tip(b))[p]

\* While an order's branch is open its folder comes to main with the car alone, and
\* what has come stays.
FolderStays ==
  \A o \in open \cap Orders : \A p \in Folder(o) :
    /\ Car \in open => \A i \in 1..Len(mains) : mains[i][p] = 0
    /\ \A i, j \in 1..Len(mains) :
         i <= j /\ mains[i][p] # 0 => mains[j][p] = mains[i][p]

HasItsOrder == \A o \in open \cap Orders : Tip(o).tree[o] # 0

\* What CI said of an open branch is true for as long as it stands.
VerdictStands == \A b \in ci \cap open : Passes(b)

IInv == Types /\ AllWritten /\ OwnFolder /\ FolderStays /\ HasItsOrder /\ VerdictStands

-----------------------------------------------------------------------------
(* What a step leaves of a verdict *)

\* Histories grow at their end.
Extends(new, old) == Len(old) <= Len(new) /\ \A i \in 1..Len(old) : new[i] = old[i]

HistoryGrows ==
  /\ Extends(mains', mains) /\ Extends(rulings', rulings)
  /\ \A b \in Branches : Extends(commits'[b], commits[b])

\* What is recorded of a branch is what it was.
Untouched(b) == commits'[b] = commits[b] /\ (b = Car => loaded' = loaded)

LEMMA LastOne ==
  ASSUME NEW S, NEW s \in Seq(S), s # <<>>
  PROVE  Len(s) \in Nat \ {0} /\ s[Len(s)] \in S
  OBVIOUS

LEMMA EachOne ==
  ASSUME NEW S, NEW s \in Seq(S) PROVE \A i \in 1..Len(s) : s[i] \in S
  OBVIOUS

LEMMA TipTypes ==
  ASSUME BranchTypes, NEW b \in Branches
  PROVE  /\ Tip(b) \in [tree : Trees, from : Nat] /\ Tip(b).from \in 1..Len(mains)
         /\ Tip(b) = commits[b][Len(commits[b])] /\ Len(commits[b]) \in Nat \ {0}
         /\ From(Tip(b)) = mains[Tip(b).from] /\ From(Tip(b)) \in Trees
         /\ Main = mains[Len(mains)] /\ Len(mains) \in Nat \ {0} /\ Main \in Trees
<1>1. Len(commits[b]) \in Nat \ {0} /\ Len(mains) \in Nat \ {0}
  BY DEF BranchTypes
<1>2. commits[b][Len(commits[b])] \in [tree : Trees, from : Nat]
  <2>1. commits[b] \in Seq([tree : Trees, from : Nat])
    BY DEF BranchTypes
  <2> QED  BY <2>1, LastOne DEF BranchTypes
<1>3. commits[b][Len(commits[b])].from \in 1..Len(mains)
  <2>1. Len(commits[b]) \in 1..Len(commits[b])
    BY <1>1
  <2> QED  BY <2>1 DEF BranchTypes
<1> QED  BY <1>1, <1>2, <1>3 DEF Tip, Last, From, Main, BranchTypes

LEMMA PathTypes ==
  /\ Orders \subseteq Branches /\ Car \in Branches /\ Orders \subseteq Paths /\ Files \subseteq Paths
  /\ \A o \in Orders, role \in Roles : <<o, role>> \in Paths /\ <<o, role>> \in Folder(o)
  /\ \A o \in Orders : o \in Folder(o) /\ Folder(o) \subseteq Paths /\ Owns[o] \subseteq Paths
  /\ \A o \in Orders : Folder(o) \cap Files = {}
  /\ \A o, q \in Orders : o # q => Folder(o) \cap Folder(q) = {}
  /\ \A o, q \in Orders, r, t \in Roles : <<o, r>> # q /\ (<<o, r>> = <<q, t>> => o = q /\ r = t)
<1>1. \A o \in Orders : Folder(o) = {o} \cup {<<o, r>> : r \in Roles}
  BY DEF Folder
<1>2. Paths = Files \cup UNION {Folder(o) : o \in Orders}
  BY DEF Paths
<1>3. \A o, q \in Orders, r \in Roles : <<o, r>> # q /\ <<o, r>> \notin Files
  BY WorkAssumption
<1>4. \A o \in Orders : o \notin Files /\ Owns[o] \subseteq Files
  BY WorkAssumption
<1> QED  BY <1>1, <1>2, <1>3, <1>4 DEF Branches

\* What a branch changed is told from its tip and the history of main.
LEMMA ChangedStays ==
  ASSUME BranchTypes, HistoryGrows, NEW b \in Branches, NEW i \in 1..Len(commits[b])
  PROVE  /\ commits'[b][i] = commits[b][i]
         /\ From(commits[b][i])' = From(commits[b][i])
         /\ Changed(commits[b][i])' = Changed(commits[b][i])
         /\ \A o \in Orders : Contribution(o, commits[b][i])' = Contribution(o, commits[b][i])
<1>1. commits'[b][i] = commits[b][i] /\ commits[b][i].from \in 1..Len(mains)
  BY DEF HistoryGrows, Extends, BranchTypes
<1>2. From(commits[b][i])' = From(commits[b][i])
  BY <1>1 DEF From, HistoryGrows, Extends
<1>3. Changed(commits[b][i])' = Changed(commits[b][i])
  BY <1>1, <1>2 DEF Changed
<1>4. \A o \in Orders : Contribution(o, commits[b][i])' = Contribution(o, commits[b][i])
  BY <1>1, <1>2, <1>3 DEF Contribution
<1> QED  BY <1>1, <1>2, <1>3, <1>4

LEMMA TipStays ==
  ASSUME BranchTypes, HistoryGrows, NEW b \in Branches, commits'[b] = commits[b]
  PROVE  /\ Tip(b)' = Tip(b) /\ From(Tip(b))' = From(Tip(b))
         /\ Changed(Tip(b))' = Changed(Tip(b))
         /\ \A o \in Orders : Contribution(o, Tip(b))' = Contribution(o, Tip(b))
<1>1. Tip(b)' = Tip(b)
  BY DEF Tip, Last
<1>2. Len(commits[b]) \in 1..Len(commits[b]) /\ Tip(b) = commits[b][Len(commits[b])]
  BY TipTypes
<1>3. Tip(b).from \in 1..Len(mains)
  BY TipTypes
<1>4. From(Tip(b))' = From(Tip(b))
  BY <1>1, <1>3 DEF From, HistoryGrows, Extends
<1>5. Changed(Tip(b))' = Changed(Tip(b))
  BY <1>1, <1>4 DEF Changed
<1>6. \A o \in Orders : Contribution(o, Tip(b))' = Contribution(o, Tip(b))
  BY <1>1, <1>4, <1>5 DEF Contribution
<1> QED  BY <1>1, <1>4, <1>5, <1>6

LEMMA ContainedStays ==
  ASSUME BranchTypes, RestTypes, HistoryGrows, NEW b \in Branches, Untouched(b), NEW o \in Orders
  PROVE  /\ Contained(o, b)' = Contained(o, b) /\ Contained(o, b) \in 0..Len(commits[o])
         /\ OwnFiles(o, b)' = OwnFiles(o, b)
<1>1. Len(commits[o]) \in Nat
  BY TipTypes, PathTypes
<1>2. Contained(o, b) \in 0..Len(commits[o])
  BY <1>1 DEF Contained, RestTypes
<1>3. Contained(o, b)' = Contained(o, b)
  BY DEF Contained, Untouched
<1>4. CASE Contained(o, b) = 0
  BY <1>2, <1>3, <1>4 DEF OwnFiles
<1>5. CASE Contained(o, b) # 0
  <2>1. PICK i \in 1..Len(commits[o]) : i = Contained(o, b)
    BY <1>1, <1>2, <1>5
  <2>2. Changed(commits[o][i])' = Changed(commits[o][i])
    BY ChangedStays, PathTypes
  <2>3. OwnFiles(o, b) = Changed(commits[o][i])
    BY <1>5, <2>1 DEF OwnFiles
  <2>4. OwnFiles(o, b)' = Changed(commits[o][i])'
    BY <1>3, <1>5, <2>1 DEF OwnFiles
  <2> QED  BY <1>2, <1>3, <2>2, <2>3, <2>4
<1> QED  BY <1>4, <1>5

LEMMA RulesStay ==
  ASSUME Types, HistoryGrows, NEW b \in Branches, Untouched(b), Written(Tip(b).tree),
         NEW o \in Orders, NEW role \in Roles, Rules(o, b, role)
  PROVE  Rules(o, b, role)'
<1> USE DEF Types
<1>1. /\ Tip(b)' = Tip(b) /\ Contribution(o, Tip(b))' = Contribution(o, Tip(b))
      /\ Contained(o, b)' = Contained(o, b) /\ Contained(o, b) \in 0..Len(commits[o])
      /\ Len(commits[o]) \in Nat
  BY TipStays, TipTypes, ContainedStays, PathTypes DEF Untouched
<1> DEFINE n == Tip(b).tree[<<o, role>>]
           m == Tip(b).tree[<<o, Reviewer>>]
<1>2. n \in 1..Len(rulings) /\ rulings[n].order = o /\ rulings'[n] = rulings[n]
  BY DEF Rules, Written, HistoryGrows, Extends
<1>3. rulings[n].at \in 1..Len(commits[o])
  BY <1>2 DEF RulingTypes
<1>4. PICK i \in 1..Len(commits[o]) : i = rulings[n].at
  BY <1>3
<1>5. Contribution(o, commits[o][i])' = Contribution(o, commits[o][i])
  BY ChangedStays, PathTypes
<1>6. m # 0 => rulings'[m] = rulings[m]
  BY DEF Written, HistoryGrows, Extends, Roles
<1>7. Current(o, b, rulings[n])
  BY DEF Rules
<1>8. Current(o, b, rulings[n])'
  BY <1>1, <1>2, <1>4, <1>5, <1>7 DEF Current
<1> QED  BY <1>1, <1>2, <1>6, <1>8 DEF Rules

\* A verdict stands while its branch is left alone, unless what had landed is
\* taken off main.
LEMMA PassesStay ==
  ASSUME Types, HistoryGrows, NEW b \in Branches, Untouched(b), Written(Tip(b).tree),
         b \in Orders \cap Landed(Main) => b \in Landed(Main)', Passes(b)
  PROVE  Passes(b)'
<1> USE DEF Types
<1>1. Tip(b)' = Tip(b) /\ Changed(Tip(b))' = Changed(Tip(b))
  BY TipStays DEF Untouched
<1>2. Carried(b)' \subseteq Carried(b)
  BY <1>1 DEF Carried
<1>3. SUFFICES ASSUME NEW o \in Carried(b)'
      PROVE  /\ Built(o, b)' => Accepted(o, b)'
             /\ Built(o, b)' \/ b = o => Strays(o, b)' = {}
  BY DEF Passes
<1>4. o \in Orders /\ o \in Carried(b)
  BY <1>2, <1>3 DEF Carried
<1>5. Built(o, b)' <=> Built(o, b)
  BY <1>1 DEF Built, Touches
<1>6. Strays(o, b)' = Strays(o, b)
  BY <1>4, ContainedStays DEF Strays
<1>7. ASSUME Accepted(o, b) PROVE Accepted(o, b)'
  <2>1. \A role \in {Reviewer} \cup Cross[o] : role \in Roles
    BY <1>4, WorkAssumption DEF Roles
  <2> QED  BY <1>4, <1>7, <2>1, RulesStay DEF Accepted
<1> QED  BY <1>4, <1>5, <1>6, <1>7 DEF Passes

-----------------------------------------------------------------------------
(* A commit *)

\* A commit disturbs its own branch only, whose verdict it voids.
LEMMA CommitIsAppended ==
  ASSUME BranchTypes, NEW b \in Branches, NEW tree \in Trees, NEW from \in 1..Len(mains),
         Commit(b, tree, from), UNCHANGED mains
  PROVE  /\ BranchTypes'
         /\ \A c \in Branches : Extends(commits'[c], commits[c])
         /\ Tip(b)' = [tree |-> tree, from |-> from]
         /\ \A c \in Branches \ {b} : commits'[c] = commits[c]
         /\ ci' \subseteq ci \ {b}
<1> DEFINE e == [tree |-> tree, from |-> from]
           Cs == [tree : Trees, from : Nat]
<1>1. Len(mains) \in Nat /\ e \in Cs
  BY TipTypes
<1>2. commits \in [Branches -> Seq(Cs)]
  BY DEF BranchTypes
<1>3. /\ commits' = [commits EXCEPT ![b] = Append(commits[b], e)]
      /\ ci' = ci \ {b}
  BY DEF Commit
<1> HIDE DEF e, Cs
<1>4. /\ Append(commits[b], e) \in Seq(Cs)
      /\ Len(commits[b]) \in Nat /\ Len(Append(commits[b], e)) = Len(commits[b]) + 1
      /\ Append(commits[b], e)[Len(commits[b]) + 1] = e
      /\ \A i \in 1..Len(commits[b]) : Append(commits[b], e)[i] = commits[b][i]
  <2>1. commits[b] \in Seq(Cs)
    BY <1>2
  <2> QED  BY <1>1, <2>1
<1>5. /\ commits' \in [Branches -> Seq(Cs)]
      /\ commits'[b] = Append(commits[b], e)
      /\ \A c \in Branches \ {b} : commits'[c] = commits[c]
  BY <1>2, <1>3, <1>4
<1>6. Len(commits'[b]) = Len(commits[b]) + 1 /\ commits'[b] # <<>>
  BY <1>4, <1>5
<1>7. \A c \in Branches : Extends(commits'[c], commits[c])
  <2> SUFFICES ASSUME NEW c \in Branches PROVE Extends(commits'[c], commits[c])
    OBVIOUS
  <2>1. CASE c = b
    BY <1>4, <1>5, <1>6, <2>1 DEF Extends
  <2>2. CASE c # b
    <3>1. Len(commits[c]) \in Nat
      BY TipTypes
    <3> QED  BY <1>5, <2>2, <3>1 DEF Extends
  <2> QED  BY <2>1, <2>2
<1>8. \A c \in Branches : \A i \in 1..Len(commits'[c]) : commits'[c][i].from \in 1..Len(mains)
  <2> SUFFICES ASSUME NEW c \in Branches, NEW i \in 1..Len(commits'[c])
               PROVE  commits'[c][i].from \in 1..Len(mains)
    OBVIOUS
  <2>1. CASE c # b
    BY <1>5, <2>1 DEF BranchTypes
  <2>2. CASE c = b /\ i = Len(commits[b]) + 1
    BY <1>4, <1>5, <2>2 DEF e
  <2>3. CASE c = b /\ i # Len(commits[b]) + 1
    <3>1. i \in 1..Len(commits[b]) /\ commits'[c][i] = commits[b][i]
      BY <1>4, <1>5, <1>6, <2>3
    <3> QED  BY <3>1 DEF BranchTypes
  <2> QED  BY <2>1, <2>2, <2>3
<1>9. BranchTypes'
  BY <1>5, <1>6, <1>8 DEF BranchTypes, Cs
<1> QED  BY <1>3, <1>4, <1>5, <1>6, <1>7, <1>9 DEF Tip, Last, e

LEMMA CommitKeeps ==
  ASSUME IInv, NEW b \in Branches, NEW tree \in Trees, NEW from \in 1..Len(mains),
         Commit(b, tree, from), UNCHANGED <<mains, open>>,
         RulingTypes', RestTypes', Extends(rulings', rulings), b # Car => UNCHANGED loaded,
         Written(tree)',
         \A o \in Orders \ {b} : \A p \in Folder(o) : b \in Orders => tree[p] = mains[from][p],
         b \in Orders => tree[b] # 0
  PROVE  IInv'
<1>1. /\ Types /\ Types'
      /\ HistoryGrows
      /\ Tip(b)' = [tree |-> tree, from |-> from]
      /\ \A c \in Branches \ {b} : commits'[c] = commits[c]
      /\ ci' \subseteq ci \ {b}
  <2>1. Extends(mains', mains)
    BY TipTypes DEF Extends, IInv, Types, Branches
  <2> QED  BY <2>1, CommitIsAppended DEF IInv, Types, HistoryGrows
<1>2. \A c \in Branches \ {b} : Tip(c)' = Tip(c) /\ From(Tip(c))' = From(Tip(c))
  BY <1>1, TipStays DEF Types
<1>3. \A t \in Trees : Written(t) => Written(t)'
  BY <1>1 DEF Written, HistoryGrows, Extends, Types, RulingTypes
<1>4. AllWritten'
  <2>1. \A i \in 1..Len(mains) : Written(mains[i])'
    BY <1>1, <1>3 DEF IInv, AllWritten, Types, BranchTypes
  <2>2. \A c \in Branches \ {b} : Written(Tip(c).tree)'
    <3> SUFFICES ASSUME NEW c \in Branches \ {b} PROVE Written(Tip(c).tree)'
      OBVIOUS
    <3>1. Tip(c).tree \in Trees /\ Written(Tip(c).tree)
      BY <1>1, TipTypes DEF IInv, AllWritten, Types
    <3>2. PICK t \in Trees : t = Tip(c).tree
      BY <3>1
    <3>3. t = Tip(c)'.tree /\ Written(t)'
      BY <1>2, <1>3, <3>1, <3>2
    <3> QED  BY <3>3 DEF Written
  <2>3. Written(Tip(b).tree)'
    BY <1>1 DEF Written
  <2> QED  BY <2>1, <2>2, <2>3 DEF AllWritten
<1>5. OwnFolder'
  <2> SUFFICES ASSUME NEW c \in Orders, NEW o \in Orders \ {c}, NEW p \in Folder(o)
               PROVE  Tip(c)'.tree[p] = From(Tip(c))'[p]
    BY DEF OwnFolder, Folder
  <2>1. CASE c = b
    BY <1>1, <2>1 DEF From
  <2>2. CASE c # b
    BY <1>2, <2>2, PathTypes DEF IInv, OwnFolder
  <2> QED  BY <2>1, <2>2
<1>6. FolderStays'
  BY DEF IInv, FolderStays, Folder
<1>7. HasItsOrder'
  <2> SUFFICES ASSUME NEW o \in open \cap Orders PROVE Tip(o)'.tree[o] # 0
    BY DEF HasItsOrder
  <2> QED  BY <1>1, <1>2, PathTypes DEF IInv, HasItsOrder
<1>8. VerdictStands'
  <2> SUFFICES ASSUME NEW c \in ci' \cap open PROVE Passes(c)'
    BY DEF VerdictStands
  <2>1. c \in Branches \ {b} /\ c \in ci \cap open
    BY <1>1 DEF Types, RestTypes
  <2>2. Untouched(c)
    BY <1>1, <2>1 DEF Untouched
  <2>3. Landed(Main) \subseteq Landed(Main)'
    <3>1. Written(Main) /\ Main' = Main
      BY <1>1, TipTypes, PathTypes DEF IInv, AllWritten, Types, Main, Last
    <3> QED  BY <1>1, <3>1 DEF Landed, Written, Roles, HistoryGrows, Extends
  <2> QED  BY <1>1, <2>1, <2>2, <2>3, PassesStay DEF IInv, VerdictStands, AllWritten
<1> QED  BY <1>1, <1>4, <1>5, <1>6, <1>7, <1>8 DEF IInv

-----------------------------------------------------------------------------
(* The actions *)

LEMMA ARuling ==
  ASSUME RulingTypes, NEW i \in 1..Len(rulings)
  PROVE  rulings[i] \in Rulings /\ rulings[i].order \in Orders /\ rulings[i].by \in People
<1>1. rulings \in Seq(Rulings)
  BY DEF RulingTypes
<1>2. rulings[i] \in Rulings
  BY <1>1
<1> QED  BY <1>2 DEF Rulings

LEMMA OthersTypes ==
  ASSUME Types, \A c \in Branches : Extends(commits'[c], commits[c]), BranchTypes'
  PROVE  /\ UNCHANGED <<rulings, reading>> => RulingTypes'
         /\ ci' \subseteq ci /\ edits' \in 0..MaxEdits /\ UNCHANGED <<open, loaded>> => RestTypes'
<1>1. \A c \in Branches : Len(commits[c]) \in Nat /\ Len(commits'[c]) \in Nat
  BY TipTypes DEF Types, BranchTypes
<1>2. ASSUME UNCHANGED <<rulings, reading>> PROVE RulingTypes'
  <2>1. \A o \in Orders : Len(commits[o]) <= Len(commits'[o])
    BY PathTypes DEF Extends
  <2>2. \A i \in 1..Len(rulings) : rulings[i].order \in Orders
    BY ARuling DEF Types
  <2>3. \A i \in 1..Len(rulings) : rulings[i].at \in 1..Len(commits'[rulings[i].order])
    BY <1>1, <2>1, <2>2, PathTypes DEF Types, RulingTypes
  <2>4. reading # NoReading =>
          reading \in Readings /\ reading.at \in 1..Len(commits'[reading.order])
    BY <1>1, <2>1, PathTypes DEF Types, RulingTypes, Readings
  <2> QED  BY <1>2, <2>3, <2>4 DEF Types, RulingTypes
<1>3. ASSUME ci' \subseteq ci, edits' \in 0..MaxEdits, UNCHANGED <<open, loaded>>
      PROVE  RestTypes'
  <2>1. \A o \in Orders : loaded[o] <= Len(commits'[o])
    BY <1>1, PathTypes DEF Types, RestTypes, Extends
  <2> QED  BY <1>3, <2>1 DEF Types, RestTypes
<1> QED  BY <1>2, <1>3

LEMMA RulingPaths ==
  \A o \in Orders, role \in Roles : <<o, role>> \in Paths /\ <<o, role>> \notin Files \cup Orders
<1>1. \A o \in Orders, role \in Roles : <<o, role>> \in Orders \X Roles
  OBVIOUS
<1> QED  BY <1>1, PathTypes, WorkAssumption

LEMMA SameRulings ==
  ASSUME UNCHANGED rulings, NEW t PROVE Written(t)' <=> Written(t)
  BY DEF Written

LEMMA EditKeeps ==
  ASSUME IInv, NEW b \in Branches, NEW p \in Paths, Edit(b, p) PROVE IInv'
<1>0. PICK n \in {edits + 1, Example(edits + 1)} :
        Commit(b, [Tip(b).tree EXCEPT ![p] = n], Tip(b).from)
  BY DEF Edit
<1>tree. PICK tree : tree = [Tip(b).tree EXCEPT ![p] = n]
  OBVIOUS
<1>1. /\ p \in Files \cup (Orders \cap {b}) /\ edits < MaxEdits
      /\ Commit(b, tree, Tip(b).from)
      /\ edits' = edits + 1
      /\ UNCHANGED <<mains, loaded, rulings, reading, open>>
  BY <1>0, <1>tree DEF Edit
<1>2. Types /\ Tip(b).tree \in Trees /\ Tip(b).from \in 1..Len(mains) /\ edits \in Nat
  BY TipTypes DEF IInv, Types, RestTypes
<1>positive. n \in Nat \ {0}
  BY <1>0, <1>2, WorkAssumption DEF Example
<1>3. /\ tree \in Trees /\ tree[p] # 0
      /\ \A q \in Paths \ {p} : tree[q] = Tip(b).tree[q]
  BY <1>tree, <1>positive, <1>2 DEF Trees
<1>4. RulingTypes' /\ RestTypes'
  <2>1. edits' \in 0..MaxEdits
    BY <1>1, <1>2, WorkAssumption
  <2> QED  BY <1>1, <1>2, <1>3, <2>1, CommitIsAppended, OthersTypes DEF Types
<1>5. Written(tree)'
  <2>1. \A o \in Orders, role \in Roles : tree[<<o, role>>] = Tip(b).tree[<<o, role>>]
    BY <1>1, <1>3, RulingPaths
  <2>2. Written(tree)
    BY <2>1 DEF Written, IInv, AllWritten
  <2> QED  BY <1>1, <2>2, SameRulings
<1>6. b \in Orders => \A o \in Orders \ {b} : \A q \in Folder(o) : tree[q] = mains[Tip(b).from][q]
  <2> SUFFICES ASSUME b \in Orders, NEW o \in Orders \ {b}, NEW q \in Folder(o)
               PROVE  tree[q] = mains[Tip(b).from][q]
    OBVIOUS
  <2>1. q \in Paths /\ q # p
    BY <1>1, PathTypes
  <2> QED  BY <1>3, <2>1 DEF IInv, OwnFolder, From
<1>7. b \in Orders => tree[b] # 0
  BY <1>1, <1>3, PathTypes DEF IInv, HasItsOrder, Commit
<1>8. Extends(rulings', rulings)
  BY <1>1, <1>2 DEF Extends, Types, RulingTypes
<1> QED  BY <1>1, <1>2, <1>3, <1>4, <1>5, <1>6, <1>7, <1>8, CommitKeeps

LEMMA RuleKeeps ==
  ASSUME IInv, NEW accepts \in BOOLEAN, Rule(accepts) PROVE IInv'
<1>0. PICK b, at, tree, ruling :
        /\ b = reading.order /\ at = <<reading.order, reading.role>>
        /\ tree = [Tip(b).tree EXCEPT ![at] = Len(rulings) + 1]
        /\ ruling = [order |-> reading.order, role |-> reading.role, at |-> reading.at,
                     by |-> reading.by, accepts |-> accepts]
  OBVIOUS
<1>1. /\ reading # NoReading /\ Commit(b, tree, Tip(b).from)
      /\ rulings' = Append(rulings, ruling) /\ reading' = NoReading
      /\ UNCHANGED <<mains, loaded, open, edits>>
  BY <1>0 DEF Rule
<1>2. /\ reading \in Readings /\ reading.at \in 1..Len(commits[b])
      /\ b \in Orders /\ reading.role \in Roles /\ at \in Paths /\ b \in Branches
  BY <1>0, <1>1, PathTypes DEF IInv, Types, RulingTypes, Readings
<1>3. /\ Types /\ Tip(b).tree \in Trees /\ Tip(b).from \in 1..Len(mains)
      /\ edits \in 0..MaxEdits /\ Len(rulings) \in Nat
  BY <1>2, TipTypes DEF IInv, Types, RestTypes, RulingTypes
<1>4. /\ tree \in Trees /\ tree[at] = Len(rulings) + 1
      /\ \A q \in Paths \ {at} : tree[q] = Tip(b).tree[q]
  BY <1>0, <1>2, <1>3 DEF Trees
<1>5. ruling \in Rulings
  BY <1>0, <1>2 DEF Rulings, Readings
<1>6. /\ ruling.order = b /\ ruling.role = reading.role /\ ruling.at = reading.at
  BY <1>0
<1>7. /\ rulings' \in Seq(Rulings) /\ Len(rulings') = Len(rulings) + 1
      /\ rulings'[Len(rulings) + 1] = ruling
      /\ \A i \in 1..Len(rulings) : rulings'[i] = rulings[i]
  <2>1. rulings \in Seq(Rulings)
    BY <1>3 DEF Types, RulingTypes
  <2> QED  BY <1>1, <1>5, <2>1
<1>8. Extends(rulings', rulings)
  BY <1>3, <1>7 DEF Extends
<1>9. BranchTypes' /\ (\A c \in Branches : Extends(commits'[c], commits[c])) /\ ci' \subseteq ci
  BY <1>1, <1>2, <1>3, <1>4, CommitIsAppended DEF Types
<1>10. RestTypes'
  BY <1>1, <1>3, <1>9, OthersTypes
<1>11. RulingTypes'
  <2>1. \A o \in Orders : Len(commits[o]) \in Nat /\ Len(commits'[o]) \in Nat
                           /\ Len(commits[o]) <= Len(commits'[o])
    BY <1>3, <1>9, TipTypes, PathTypes DEF Types, BranchTypes, Extends
  <2>2. \A i \in 1..Len(rulings') : rulings'[i].at \in 1..Len(commits'[rulings'[i].order])
    <3> SUFFICES ASSUME NEW i \in 1..Len(rulings')
                 PROVE  rulings'[i].at \in 1..Len(commits'[rulings'[i].order])
      OBVIOUS
    <3>1. CASE i = Len(rulings) + 1
      BY <1>2, <1>6, <1>7, <2>1, <3>1
    <3>2. CASE i # Len(rulings) + 1
      <4>1. i \in 1..Len(rulings) /\ rulings'[i] = rulings[i]
        BY <1>3, <1>7, <3>2
      <4>2. rulings[i].order \in Orders /\ rulings[i].at \in 1..Len(commits[rulings[i].order])
        BY <1>3, <4>1, ARuling DEF Types, RulingTypes
      <4> QED  BY <2>1, <4>1, <4>2
    <3> QED  BY <3>1, <3>2
  <2> QED  BY <1>1, <1>7, <2>2 DEF RulingTypes
<1>12. Written(tree)'
  <2> SUFFICES ASSUME NEW o \in Orders, NEW role \in Roles, tree[<<o, role>>] # 0
               PROVE  /\ tree[<<o, role>>] \in 1..Len(rulings')
                      /\ rulings'[tree[<<o, role>>]].order = o
                      /\ rulings'[tree[<<o, role>>]].role = role
    BY DEF Written
  <2>1. CASE <<o, role>> = at
    <3>1. o = b /\ role = reading.role
      BY <1>0, <2>1
    <3> QED  BY <1>3, <1>4, <1>6, <1>7, <2>1, <3>1
  <2>2. CASE <<o, role>> # at
    <3>1. tree[<<o, role>>] = Tip(b).tree[<<o, role>>] /\ Written(Tip(b).tree)
      BY <1>2, <1>4, <2>2, PathTypes DEF IInv, AllWritten
    <3> QED  BY <1>3, <1>7, <3>1 DEF Written
  <2> QED  BY <2>1, <2>2
<1>13. \A o \in Orders \ {b} : \A q \in Folder(o) : tree[q] = mains[Tip(b).from][q]
  <2> SUFFICES ASSUME NEW o \in Orders \ {b}, NEW q \in Folder(o)
               PROVE  tree[q] = mains[Tip(b).from][q]
    OBVIOUS
  <2>1. q \in Paths /\ q # at
    BY <1>0, <1>2, PathTypes
  <2> QED  BY <1>2, <1>4, <2>1 DEF IInv, OwnFolder, From
<1>14. tree[b] # 0
  BY <1>0, <1>1, <1>2, <1>4, PathTypes DEF IInv, HasItsOrder, Commit
<1> QED  BY <1>1, <1>2, <1>3, <1>4, <1>8, <1>10, <1>11, <1>12, <1>13, <1>14, CommitKeeps

\* What a branch puts on another tree is of one of the two, at every path.
LEMMA OntoTypes ==
  ASSUME NEW b \in Branches, BranchTypes, NEW t \in Trees
  PROVE  /\ Onto(Tip(b), t) \in Trees
         /\ \A p \in Paths : Onto(Tip(b), t)[p] =
              IF Tip(b).tree[p] # From(Tip(b))[p] THEN Tip(b).tree[p] ELSE t[p]
         /\ Written(Tip(b).tree) /\ Written(t) => Written(Onto(Tip(b), t))
<1>1. Tip(b).tree \in Trees
  BY TipTypes
<1>2. \A p \in Paths : Onto(Tip(b), t)[p] =
        IF Tip(b).tree[p] # From(Tip(b))[p] THEN Tip(b).tree[p] ELSE t[p]
  BY DEF Onto, Changed
<1>3. Onto(Tip(b), t) \in Trees
  BY <1>1 DEF Onto, Trees
<1>4. ASSUME Written(Tip(b).tree), Written(t) PROVE Written(Onto(Tip(b), t))
  <2>1. \A o \in Orders, role \in Roles :
          Onto(Tip(b), t)[<<o, role>>] \in {Tip(b).tree[<<o, role>>], t[<<o, role>>]}
    BY <1>2, PathTypes
  <2> QED  BY <1>4, <2>1 DEF Written
<1> QED  BY <1>2, <1>3, <1>4

\* A commit that writes no ruling, moves no edit and asks nobody.
LEMMA MachineCommit ==
  ASSUME IInv, NEW b \in Branches, NEW tree \in Trees, NEW from \in 1..Len(mains),
         Commit(b, tree, from), UNCHANGED <<mains, open, rulings, reading, edits>>,
         b # Car => UNCHANGED loaded, loaded' \in [Orders -> Nat],
         \A o \in Orders : loaded'[o] <= Len(commits[o]), Written(tree),
         \A o \in Orders \ {b} : \A p \in Folder(o) : b \in Orders => tree[p] = mains[from][p],
         b \in Orders => tree[b] # 0
  PROVE  IInv'
<1>1. Types /\ Extends(rulings', rulings)
  BY DEF IInv, Types, RulingTypes, Extends
<1>2. BranchTypes' /\ (\A c \in Branches : Extends(commits'[c], commits[c])) /\ ci' \subseteq ci
  BY <1>1, CommitIsAppended DEF Types
<1>3. RulingTypes'
  BY <1>1, <1>2, OthersTypes
<1>4. RestTypes'
  <2>1. \A o \in Orders : loaded'[o] <= Len(commits'[o])
    BY <1>1, <1>2, TipTypes, PathTypes DEF Types, BranchTypes, Extends
  <2> QED  BY <1>1, <1>2, <2>1 DEF Types, RestTypes
<1>5. Written(tree)'
  BY SameRulings
<1> QED  BY <1>1, <1>3, <1>4, <1>5, CommitKeeps

LEMMA SyncKeeps ==
  ASSUME IInv, NEW b \in Branches, Sync(b) PROVE IInv'
<1>0. PICK tree : tree = Onto(Tip(b), Main)
  OBVIOUS
<1>1. /\ Tip(b).from < Len(mains) /\ Commit(b, tree, Len(mains))
      /\ UNCHANGED <<mains, loaded, rulings, reading, open, edits>>
  BY <1>0 DEF Sync
<1>2. /\ Types /\ Main \in Trees /\ Main = mains[Len(mains)] /\ Len(mains) \in 1..Len(mains)
      /\ Tip(b).from \in 1..Len(mains) /\ From(Tip(b)) = mains[Tip(b).from]
  BY TipTypes DEF IInv, Types
<1>3. /\ tree \in Trees
      /\ \A p \in Paths : tree[p] =
           IF Tip(b).tree[p] # From(Tip(b))[p] THEN Tip(b).tree[p] ELSE Main[p]
  BY <1>0, <1>2, OntoTypes DEF Types
<1>4. Written(tree)
  <2>1. Written(Tip(b).tree) /\ Written(Main)
    BY <1>2 DEF IInv, AllWritten
  <2> QED  BY <1>0, <1>2, <2>1, OntoTypes DEF Types
<1>5. b \in Orders => \A o \in Orders \ {b} : \A p \in Folder(o) : tree[p] = mains[Len(mains)][p]
  BY <1>2, <1>3, PathTypes DEF IInv, OwnFolder
<1>6. b \in Orders => tree[b] # 0
  <2> SUFFICES ASSUME b \in Orders PROVE tree[b] # 0
    OBVIOUS
  <2>1. b \in open /\ Tip(b).tree[b] # 0 /\ b \in Paths /\ b \in Folder(b)
    BY <1>1, PathTypes DEF Commit, IInv, HasItsOrder
  <2>2. CASE Tip(b).tree[b] # From(Tip(b))[b]
    BY <1>3, <2>1, <2>2
  <2>3. CASE Tip(b).tree[b] = From(Tip(b))[b]
    <3>1. mains[Tip(b).from][b] # 0
      BY <1>2, <2>1, <2>3
    <3>2. Main[b] = mains[Tip(b).from][b]
      BY <1>1, <1>2, <2>1, <3>1 DEF IInv, FolderStays
    <3> QED  BY <1>3, <2>1, <2>3, <3>1, <3>2
  <2> QED  BY <2>2, <2>3
<1> QED  BY <1>1, <1>2, <1>3, <1>4, <1>5, <1>6, MachineCommit DEF Types, RestTypes

LEMMA CarIsNoOrder == Car \notin Orders
  BY PathTypes, WorkAssumption

LEMMA LoadKeeps ==
  ASSUME IInv, NEW o \in Orders, Load(o) PROVE IInv'
<1>0. PICK tree : tree = Onto(Tip(o), Tip(Car).tree)
  OBVIOUS
<1>1. /\ Commit(Car, tree, Tip(Car).from)
      /\ loaded' = [loaded EXCEPT ![o] = Len(commits[o])]
      /\ UNCHANGED <<mains, rulings, reading, open, edits>>
  BY <1>0 DEF Load
<1>2. /\ Types /\ o \in Branches /\ Car \in Branches /\ Car \notin Orders
      /\ Tip(Car).from \in 1..Len(mains) /\ Tip(Car).tree \in Trees /\ Len(commits[o]) \in Nat
  BY TipTypes, PathTypes, CarIsNoOrder DEF IInv, Types
<1>3. tree \in Trees
  BY <1>0, <1>2, OntoTypes DEF Types
<1>4. Written(tree)
  <2>1. Written(Tip(o).tree) /\ Written(Tip(Car).tree)
    BY <1>2 DEF IInv, AllWritten
  <2> QED  BY <1>0, <1>2, <2>1, OntoTypes DEF Types
<1>5. loaded' \in [Orders -> Nat] /\ \A q \in Orders : loaded'[q] <= Len(commits[q])
  BY <1>1, <1>2 DEF Types, RestTypes
<1> QED  BY <1>1, <1>2, <1>3, <1>4, <1>5, MachineCommit

LEMMA SweepKeeps ==
  ASSUME IInv, Sweep PROVE IInv'
<1>0. PICK tree : tree = [p \in Paths |->
        IF p \in UNION {Folder(o) : o \in Landed(Main)} THEN 0 ELSE Tip(Car).tree[p]]
  OBVIOUS
<1>1. /\ Commit(Car, tree, Tip(Car).from)
      /\ UNCHANGED <<mains, loaded, rulings, reading, open, edits>>
  BY <1>0 DEF Sweep
<1>2. /\ Types /\ Car \in Branches /\ Car \notin Orders
      /\ Tip(Car).from \in 1..Len(mains) /\ Tip(Car).tree \in Trees
  BY TipTypes, PathTypes, CarIsNoOrder DEF IInv, Types
<1>3. tree \in Trees /\ \A p \in Paths : tree[p] \in {0, Tip(Car).tree[p]}
  BY <1>0, <1>2 DEF Trees
<1>4. Written(tree)
  <2>1. Written(Tip(Car).tree)
    BY <1>2 DEF IInv, AllWritten
  <2> QED  BY <1>3, <2>1, RulingPaths DEF Written
<1> QED  BY <1>1, <1>2, <1>3, <1>4, MachineCommit DEF Types, RestTypes

\* Reading and checking change no branch.
LEMMA QuietKeeps ==
  ASSUME IInv, UNCHANGED <<mains, commits, loaded, rulings, open, edits>>,
         RulingTypes', \A b \in ci' \ ci : b \in Branches /\ Passes(b)
  PROVE  IInv'
<1>1. Types'
  BY DEF IInv, Types, BranchTypes, RestTypes
<1>2. ASSUME NEW b \in Branches, Passes(b) PROVE Passes(b)'
  <2>1. Types /\ Written(Tip(b).tree)
    BY DEF IInv, AllWritten
  <2>2. HistoryGrows
    BY <2>1, TipTypes DEF HistoryGrows, Extends, Types, RulingTypes, BranchTypes
  <2>3. Landed(Main)' = Landed(Main)
    BY DEF Landed, Main, Last
  <2> QED  BY <1>2, <2>1, <2>2, <2>3, PassesStay DEF Untouched
<1>3. VerdictStands'
  BY <1>2 DEF IInv, VerdictStands, Types, RestTypes
<1>4. AllWritten' /\ OwnFolder' /\ FolderStays' /\ HasItsOrder'
  BY DEF IInv, AllWritten, Written, OwnFolder, FolderStays, HasItsOrder, Tip, From
<1> QED  BY <1>1, <1>3, <1>4 DEF IInv

LEMMA PacketKeeps ==
  ASSUME IInv, NEW person \in People, NEW o \in Orders, NEW role \in Roles,
         Packet(person, o, role)
  PROVE  IInv'
<1>1. reading' \in Readings /\ reading'.order = o /\ reading'.at = Len(commits[o])
  BY TipTypes, PathTypes DEF Packet, Readings, IInv, Types
<1>2. Len(commits[o]) \in 1..Len(commits[o])
  BY TipTypes, PathTypes DEF IInv, Types
<1>3. RulingTypes'
  BY <1>1, <1>2 DEF Packet, IInv, Types, RulingTypes
<1> QED  BY <1>3, QuietKeeps DEF Packet

LEMMA CIKeeps ==
  ASSUME IInv, NEW b \in Branches, CI(b) PROVE IInv'
<1>1. RulingTypes'
  BY DEF CI, IInv, Types, RulingTypes
<1> QED  BY <1>1, QuietKeeps DEF CI

LEMMA MergeKeeps ==
  ASSUME IInv, NEW b \in Branches, Merge(b) PROVE IInv'
<1>0. PICK tree : tree = Onto(Tip(b), Main)
  OBVIOUS
<1>1. /\ b \in open /\ mains' = Append(mains, tree) /\ open' = open \ {b}
      /\ UNCHANGED <<commits, loaded, rulings, reading, ci, edits>>
  BY <1>0 DEF Merge
<1>2. /\ Types /\ mains \in Seq(Trees) /\ Len(mains) \in Nat \ {0} /\ Main = mains[Len(mains)]
      /\ Main \in Trees
  BY TipTypes DEF IInv, Types, BranchTypes
<1>3. /\ tree \in Trees
      /\ \A p \in Paths : tree[p] =
           IF Tip(b).tree[p] # From(Tip(b))[p] THEN Tip(b).tree[p] ELSE Main[p]
  BY <1>0, <1>2, OntoTypes DEF Types
<1>4. /\ mains' \in Seq(Trees) /\ Len(mains') = Len(mains) + 1 /\ mains'[Len(mains) + 1] = tree
      /\ \A i \in 1..Len(mains) : mains'[i] = mains[i]
      /\ mains' # <<>> /\ Main' = tree
  BY <1>1, <1>2, <1>3 DEF Main, Last
<1>5. Types'
  <2>1. BranchTypes'
    <3>1. commits' = commits /\ 1..Len(mains) \subseteq 1..Len(mains')
      BY <1>1, <1>2, <1>4
    <3>2. \A c \in Branches : \A i \in 1..Len(commits[c]) : commits[c][i].from \in 1..Len(mains')
      BY <1>2, <3>1 DEF Types, BranchTypes
    <3> QED  BY <1>2, <1>4, <3>1, <3>2 DEF Types, BranchTypes
  <2>2. RulingTypes' /\ RestTypes'
    BY <1>1 DEF IInv, Types, RulingTypes, RestTypes
  <2> QED  BY <2>1, <2>2 DEF Types
<1>6. HistoryGrows
  BY <1>1, <1>2, <1>4, TipTypes DEF HistoryGrows, Extends, Types, BranchTypes, RulingTypes
<1>7. \A c \in Branches : Tip(c)' = Tip(c) /\ From(Tip(c))' = From(Tip(c))
  BY <1>1, <1>2, <1>6, TipStays DEF Types
<1>8. Written(tree) /\ Written(Main)
  <2>1. Written(Tip(b).tree) /\ Written(Main)
    BY <1>2 DEF IInv, AllWritten
  <2> QED  BY <1>0, <1>2, <2>1, OntoTypes DEF Types
<1>9. AllWritten'
  <2>1. \A i \in 1..Len(mains') : Written(mains'[i])
    <3> SUFFICES ASSUME NEW i \in 1..Len(mains') PROVE Written(mains'[i])
      OBVIOUS
    <3>1. CASE i = Len(mains) + 1
      BY <1>4, <1>8, <3>1
    <3>2. CASE i # Len(mains) + 1
      <4>1. i \in 1..Len(mains) /\ mains'[i] = mains[i]
        BY <1>2, <1>4, <3>2
      <4> QED  BY <4>1 DEF IInv, AllWritten
    <3> QED  BY <3>1, <3>2
  <2>2. \A c \in Branches : Written(Tip(c)'.tree)
    BY <1>7 DEF IInv, AllWritten
  <2> QED  BY <1>1, <2>1, <2>2 DEF AllWritten, Written
<1>10. OwnFolder' /\ HasItsOrder'
  BY <1>1, <1>7, PathTypes DEF IInv, OwnFolder, HasItsOrder, Folder
<1>11. FolderStays'
  <2> SUFFICES ASSUME NEW o \in open' \cap Orders, NEW p \in Folder(o)
               PROVE  /\ Car \in open' => \A i \in 1..Len(mains') : mains'[i][p] = 0
                      /\ \A i, j \in 1..Len(mains') :
                           i <= j /\ mains'[i][p] # 0 => mains'[j][p] = mains'[i][p]
    BY DEF FolderStays, Folder
  <2>1. /\ o \in open /\ o # b /\ p \in Paths
        /\ Car \in open => \A i \in 1..Len(mains) : mains[i][p] = 0
        /\ \A i, j \in 1..Len(mains) :
             i <= j /\ mains[i][p] # 0 => mains[j][p] = mains[i][p]
    BY <1>1, PathTypes DEF IInv, FolderStays
  <2>2. CASE b = Car
    <3>1. Car \notin open' /\ \A i \in 1..Len(mains) : mains'[i][p] = 0
      BY <1>1, <1>4, <2>1, <2>2
    <3>2. \A i, j \in 1..Len(mains') :
            i <= j /\ mains'[i][p] # 0 => i = Len(mains) + 1 /\ j = Len(mains) + 1
      BY <1>2, <1>4, <3>1
    <3> QED  BY <3>1, <3>2
  <2>3. CASE b # Car
    <3>1. tree[p] = Main[p]
      <4>1. b \in Orders /\ o \in Orders \ {b}
        BY <2>1, <2>3 DEF Branches
      <4> QED  BY <1>3, <2>1, <4>1 DEF IInv, OwnFolder
    <3>2. \A i \in 1..Len(mains') :
            /\ i \in 1..Len(mains) \/ i = Len(mains) + 1
            /\ i \in 1..Len(mains) => mains'[i][p] = mains[i][p]
            /\ i = Len(mains) + 1 => mains'[i][p] = mains[Len(mains)][p]
      BY <1>2, <1>4, <3>1
    <3>3. Len(mains) \in 1..Len(mains) /\ \A i \in 1..Len(mains) : i <= Len(mains)
      BY <1>2
    <3>4. Car \in open' => \A i \in 1..Len(mains') : mains'[i][p] = 0
      BY <1>1, <2>1, <3>2, <3>3
    <3>5. ASSUME NEW i \in 1..Len(mains'), NEW j \in 1..Len(mains'), i <= j, mains'[i][p] # 0
          PROVE  mains'[j][p] = mains'[i][p]
      <4>1. CASE j \in 1..Len(mains)
        <5>1. i \in 1..Len(mains)
          BY <1>2, <1>4, <3>5, <4>1
        <5> QED  BY <2>1, <3>2, <3>5, <4>1, <5>1
      <4>2. CASE j = Len(mains) + 1
        BY <2>1, <3>2, <3>3, <3>5, <4>2
      <4> QED  BY <3>2, <4>1, <4>2
    <3> QED  BY <3>4, <3>5
  <2> QED  BY <2>2, <2>3
<1>12. VerdictStands'
  <2> SUFFICES ASSUME NEW c \in ci \cap open' PROVE Passes(c)'
    BY <1>1 DEF VerdictStands
  <2>1. c \in Branches /\ c \in ci \cap open /\ c # b /\ Untouched(c)
    BY <1>1, <1>2 DEF Types, RestTypes, Untouched
  <2>2. ASSUME c \in Orders \cap Landed(Main) PROVE c \in Landed(Main)'
    <3>1. PICK at \in Paths : at = <<c, Reviewer>> /\ at \in Folder(c) /\ Main[at] # 0
      BY <2>2, PathTypes DEF Landed, Roles
    <3>2. Len(mains') = Len(mains) + 1 /\ Main' = mains'[Len(mains')]
      BY <1>4
    <3>3. Main'[at] = Main[at]
      <4>1. FolderStays' /\ c \in open' \cap Orders
        BY <1>11, <2>2
      <4>2. /\ Len(mains) \in 1..Len(mains') /\ Len(mains') \in 1..Len(mains')
            /\ Len(mains) <= Len(mains') /\ mains'[Len(mains)] = Main
        BY <1>2, <1>4
      <4> QED  BY <3>1, <3>2, <4>1, <4>2 DEF FolderStays, Folder
    <3> QED  BY <1>1, <2>2, <3>1, <3>3 DEF Landed
  <2> QED  BY <1>2, <1>6, <2>1, <2>2, PassesStay DEF IInv, VerdictStands, AllWritten
<1> QED  BY <1>5, <1>9, <1>10, <1>11, <1>12 DEF IInv

-----------------------------------------------------------------------------
LEMMA InitIInv == Init => IInv
<1> SUFFICES ASSUME Init PROVE IInv
  OBVIOUS
<1> DEFINE none == [p \in Paths |-> 0]
<1>1. PICK built \in SUBSET Orders :
        commits = [b \in Branches |->
         <<[tree |-> [p \in Paths |->
                        IF p = b \/ (b \in built /\ p \in Owns[b]) THEN 1 ELSE 0],
            from |-> 1]>>]
  BY DEF Init
<1>2. /\ mains = <<none>> /\ loaded = [o \in Orders |-> 0] /\ rulings = <<>>
      /\ reading = NoReading /\ ci = {} /\ open = Branches /\ edits = 1
  BY DEF Init
<1>3. none \in Trees /\ \A p \in Paths : none[p] = 0
  BY DEF Trees
<1> HIDE DEF none
<1>4. mains \in Seq(Trees) /\ Len(mains) = 1 /\ mains[1] = none /\ Main = none /\ mains # <<>>
  BY <1>2, <1>3 DEF Main, Last
<1>5. ASSUME NEW b \in Branches
      PROVE  /\ commits[b] \in Seq([tree : Trees, from : Nat]) /\ Len(commits[b]) = 1
             /\ commits[b] # <<>> /\ commits[b][1].from = 1
             /\ Tip(b).from = 1 /\ Tip(b).tree \in Trees
             /\ \A p \in Paths : Tip(b).tree[p] =
                  IF p = b \/ (b \in built /\ p \in Owns[b]) THEN 1 ELSE 0
  <2>1. PICK tree : tree = [p \in Paths |->
                        IF p = b \/ (b \in built /\ p \in Owns[b]) THEN 1 ELSE 0]
    OBVIOUS
  <2>2. tree \in Trees
    BY <2>1 DEF Trees
  <2>3. commits[b] = <<[tree |-> tree, from |-> 1]>>
    BY <1>1, <2>1
  <2>4. /\ commits[b] \in Seq([tree : Trees, from : Nat]) /\ Len(commits[b]) = 1
        /\ commits[b] # <<>> /\ commits[b][1] = [tree |-> tree, from |-> 1]
    BY <2>2, <2>3
  <2> QED  BY <2>1, <2>2, <2>4 DEF Tip, Last
<1>6. Types
  <2>1. BranchTypes
    <3>1. commits \in [Branches -> Seq([tree : Trees, from : Nat])]
      BY <1>1, <1>5
    <3>2. ASSUME NEW b \in Branches, NEW i \in 1..Len(commits[b])
          PROVE  commits[b][i].from \in 1..Len(mains)
      <4>1. Len(commits[b]) = 1
        BY <1>5
      <4>2. i = 1
        BY <4>1
      <4> QED  BY <1>4, <1>5, <4>2
    <3> QED  BY <1>4, <1>5, <3>1, <3>2 DEF BranchTypes
  <2>2. RulingTypes
    BY <1>2 DEF RulingTypes
  <2>3. RestTypes
    BY <1>2, <1>5, WorkAssumption, PathTypes DEF RestTypes
  <2> QED  BY <2>1, <2>2, <2>3 DEF Types
<1>7. ASSUME NEW b \in Branches, NEW p \in Paths,
             \A o \in Orders : p # o, p \notin Files
      PROVE  Tip(b).tree[p] = 0
  <2>1. p # b
    BY <1>7, WorkAssumption DEF Branches
  <2>2. b \in built => p \notin Owns[b]
    BY <1>7, WorkAssumption
  <2> QED  BY <1>5, <2>1, <2>2
<1>8. AllWritten
  <2>1. \A b \in Branches : Written(Tip(b).tree)
    BY <1>7, RulingPaths DEF Written
  <2>2. Written(none)
    BY <1>3, RulingPaths DEF Written
  <2> QED  BY <1>4, <2>1, <2>2 DEF AllWritten
<1>9. OwnFolder
  <2> SUFFICES ASSUME NEW b \in Orders, NEW o \in Orders \ {b}, NEW p \in Folder(o)
               PROVE  Tip(b).tree[p] = From(Tip(b))[p]
    BY DEF OwnFolder
  <2>1. p \in Paths /\ p # b /\ p \notin Owns[b] /\ b \in Branches
    BY PathTypes, WorkAssumption
  <2> QED  BY <1>3, <1>4, <1>5, <2>1 DEF From
<1>10. FolderStays /\ HasItsOrder /\ VerdictStands
  BY <1>2, <1>3, <1>4, <1>5, PathTypes DEF FolderStays, HasItsOrder, VerdictStands
<1> QED  BY <1>6, <1>8, <1>9, <1>10 DEF IInv

LEMMA Invariance == Spec => []IInv
<1>1. IInv /\ [Next]_vars => IInv'
  <2> SUFFICES ASSUME IInv, [Next]_vars PROVE IInv'
    OBVIOUS
  <2>1. CASE UNCHANGED vars
    <3>1. RulingTypes' /\ UNCHANGED <<mains, commits, loaded, rulings, open, edits, ci>>
      BY <2>1 DEF vars, IInv, Types, RulingTypes
    <3> QED  BY <3>1, QuietKeeps
  <2> QED  BY <2>1, EditKeeps, PacketKeeps, RuleKeeps, SyncKeeps, CIKeeps, MergeKeeps,
              LoadKeeps, SweepKeeps DEF Next
<1> QED  BY <1>1, InitIInv, PTL DEF Spec

\* Only a merge closes a branch.
LEMMA ClosedByMerge ==
  ASSUME IInv, [Next]_vars, NEW b \in open \ open' PROVE b \in Branches /\ Merge(b)
<1>1. \A c \in Branches : Merge(c) => open' = open \ {c}
  BY DEF Merge
<1> QED  BY <1>1 DEF Next, Edit, Packet, Rule, Sync, CI, Load, Sweep, vars, IInv, Types, RestTypes

-----------------------------------------------------------------------------
\* work.py, the types of the repository's branches and of what is recorded of them.
THEOREM TypeCorrect == Spec => []TypeOK
<1>1. IInv => TypeOK
  <2> SUFFICES ASSUME IInv PROVE TypeOK
    OBVIOUS
  <2>1. BranchTypes /\ RulingTypes /\ RestTypes
    BY DEF IInv, Types
  <2>2. \A i \in 1..Len(mains) : mains[i] \in [Paths -> Nat]
    BY <2>1, EachOne DEF BranchTypes, Trees
  <2>3. \A b \in Branches : \A i \in 1..Len(commits[b]) :
          commits[b][i] \in [tree : Trees, from : Nat]
    BY <2>1, EachOne DEF BranchTypes
  <2> QED  BY <2>1, <2>2, <2>3, PathTypes, TipTypes
              DEF TypeOK, Trees, BranchTypes, RulingTypes, RestTypes
<1> QED  BY <1>1, Invariance, PTL

\* work.acceptance and work_cli.ci, over any number of commits, rulings, cars and sweeps
\* between the reading and the merge: what an order brings to main is what a reviewer of
\* the other provider, and every manager concerned, read and accepted, unless the tip
\* that is merged calls the order an example.
THEOREM LandsAsRuled == Spec => LandedAsRuled
<1>1. IInv /\ [Next]_vars =>
        [\A b \in open \ open', o \in Orders \ Landed(Main) :
           LET patch == Contribution(o, Tip(b)) IN
           /\ Touches(o, b) /\ Tip(b).tree[o] # 0 /\ ~IsExample(Tip(b).tree[o])
           /\ b = o \/ Changed(Tip(b)) \cap Folder(o) # {}
           => /\ \E person \in People \ {Builder[o]} :
                   /\ Family[person] # Family[Builder[o]]
                   /\ ReadAndAccepted(o, Reviewer, person, patch)
              /\ \A t \in Cross[o] : ReadAndAccepted(o, t, Manager[t], patch)]_vars
  <2> SUFFICES ASSUME IInv, [Next]_vars,
                      NEW b \in open \ open', NEW o \in Orders \ Landed(Main),
                      Touches(o, b), Tip(b).tree[o] # 0, ~IsExample(Tip(b).tree[o]),
                      b = o \/ Changed(Tip(b)) \cap Folder(o) # {}
               PROVE  /\ \E person \in People \ {Builder[o]} :
                           /\ Family[person] # Family[Builder[o]]
                           /\ ReadAndAccepted(o, Reviewer, person, Contribution(o, Tip(b)))
                      /\ \A t \in Cross[o] :
                           ReadAndAccepted(o, t, Manager[t], Contribution(o, Tip(b)))
    OBVIOUS
  <2>1. b \in Branches /\ b \in ci /\ Passes(b)
    BY ClosedByMerge DEF Merge, IInv, VerdictStands
  <2>2. Accepted(o, b)
    BY <2>1 DEF Passes, Carried, Built
  <2>3. ASSUME NEW role \in {Reviewer} \cup Cross[o]
        PROVE  \E i \in 1..Len(rulings) :
                 /\ rulings[i].order = o /\ rulings[i].role = role /\ rulings[i].accepts
                 /\ rulings[i].by \in People \ {Builder[o]}
                 /\ Contribution(o, commits[o][rulings[i].at]) = Contribution(o, Tip(b))
                 /\ role = Reviewer => Family[rulings[i].by] # Family[Builder[o]]
                 /\ role # Reviewer => rulings[i].by = Manager[role]
    <3>1. role \in Roles /\ Rules(o, b, role) /\ Written(Tip(b).tree)
      BY <2>1, <2>2, <2>3, WorkAssumption DEF Accepted, Roles, IInv, AllWritten
    <3>2. PICK i : i = Tip(b).tree[<<o, role>>]
      OBVIOUS
    <3>3. /\ i \in 1..Len(rulings) /\ rulings[i].order = o /\ rulings[i].role = role
          /\ rulings[i].by \in People
      BY <3>1, <3>2, ARuling DEF Written, Rules, IInv, Types
    <3>4. /\ rulings[i].by # Builder[o] /\ Current(o, b, rulings[i]) /\ rulings[i].accepts
          /\ role = Reviewer => Family[rulings[i].by] # Family[Builder[o]]
          /\ role # Reviewer => rulings[i].by = Manager[role]
      BY <3>1, <3>2 DEF Rules
    <3> QED  BY <3>3, <3>4 DEF Current
  <2>4. \E person \in People \ {Builder[o]} :
          /\ Family[person] # Family[Builder[o]]
          /\ ReadAndAccepted(o, Reviewer, person, Contribution(o, Tip(b)))
    BY <2>3 DEF ReadAndAccepted
  <2>5. ASSUME NEW t \in Cross[o]
        PROVE  ReadAndAccepted(o, t, Manager[t], Contribution(o, Tip(b)))
    <3>1. t # Reviewer
      BY WorkAssumption
    <3> QED  BY <2>3, <3>1 DEF ReadAndAccepted
  <2> QED  BY <2>4, <2>5
<1> QED  BY <1>1, Invariance, PTL DEF Spec, LandedAsRuled

\* work.own_files and its check in work_cli.ci: the branch of one order never changes,
\* on main, a file that another order owns, however often it merged main back, unless
\* the tip that is merged calls the order an example.
THEOREM KeepsOthersFiles == Spec => OthersFilesKept
<1>1. IInv /\ [Next]_vars =>
        [\A o \in (open \ open') \cap Orders, other \in Orders :
           o \notin Landed(Main) /\ ~IsExample(Tip(o).tree[o]) =>
             \A p \in Owns[other] \ (Owns[o] \cup Anyone) : Last(mains')[p] = Main[p]]_vars
  <2> SUFFICES ASSUME IInv, [Next]_vars, NEW o \in (open \ open') \cap Orders,
                      NEW other \in Orders, o \notin Landed(Main),
                      ~IsExample(Tip(o).tree[o]),
                      NEW p \in Owns[other] \ (Owns[o] \cup Anyone)
               PROVE  Last(mains')[p] = Main[p]
    OBVIOUS
  <2>1. o \in Branches /\ Merge(o) /\ Passes(o) /\ Tip(o).tree[o] # 0
    BY ClosedByMerge DEF Merge, IInv, VerdictStands, HasItsOrder
  <2>2. Strays(o, o) = {}
    BY <2>1 DEF Passes, Carried
  <2>3. Len(commits[o]) # 0 /\ Tip(o) = commits[o][Len(commits[o])]
    BY <2>1, TipTypes DEF IInv, Types
  <2>4. Changed(Tip(o)) \subseteq MayTouch(o)
    BY <2>2, <2>3 DEF Strays, OwnFiles, Contained
  <2>5. p \in Paths /\ p \notin MayTouch(o)
    BY PathTypes, WorkAssumption DEF MayTouch
  <2>6. Onto(Tip(o), Main)[p] = Main[p]
    BY <2>4, <2>5 DEF Onto
  <2>7. Last(mains') = Onto(Tip(o), Main)
    <3>1. PICK tree : tree = Onto(Tip(o), Main)
      OBVIOUS
    <3>2. mains' = Append(mains, tree) /\ mains \in Seq(Trees) /\ tree \in Trees
      BY <2>1, <3>1, OntoTypes, TipTypes DEF Merge, IInv, Types, BranchTypes
    <3> QED  BY <3>1, <3>2 DEF Last
  <2> QED  BY <2>6, <2>7
<1> QED  BY <1>1, Invariance, PTL DEF Spec, OthersFilesKept

-----------------------------------------------------------------------------
(* Memory *)

LEMMA RecordsAssumed ==
  /\ IsFiniteSet(Recs)
  /\ Supersedes \in [Recs -> Recs \cup {NoRec}]
  /\ \A r \in Recs : Supersedes[r] # r
  /\ Contradicts \subseteq Recs \X Recs
  /\ \A r, s \in Recs : <<r, s>> \in Contradicts <=> <<s, r>> \in Contradicts
  /\ EventKinds \subseteq M!Kinds
  /\ NoProc \notin Procs /\ NoRec \notin Recs
  /\ Torn \notin M!RecordLines \cup M!Events \cup M!Indexes
  /\ MaxEvents \in Nat /\ MaxKills \in Nat /\ MaxClones \in Nat
BY RecordsAssumption DEF M!MemoryAssumption, M!IsFiniteSet, IsFiniteSet

\* The last position bounds the numbers.
Bounded(f) == \A i \in 1..Len(f) : f[i] # Torn => f[i].seq <= i
NumbersOK(f) == M!Numbered(f) /\ Bounded(f)

AtIndex == {"build", "index"}

Alone ==
  /\ lock # NoProc => lock \in busy
  /\ \A p \in Procs :
       /\ p \notin busy => todo[p] = <<>>
       /\ p # lock => /\ toHold[p] = {}
                      /\ \A i \in 1..Len(todo[p]) : todo[p][i].to \in AtIndex

FragmentsKnown ==
  \A p \in Procs : lock = p => M!Fragments \subseteq quarantined \cup toHold[p]

\* Writes to a file are numbered one after the other, from the next number on.
Follows(t, i, next, name) ==
  t[i].to = name =>
    \/ i > 1 /\ t[i - 1].to = name /\ t[i].what.seq = t[i - 1].what.seq + 1
    \/ t[i].what.seq = next /\ \A j \in 1..(i - 1) : t[j].to # name
Turns(t, next, name) == \A i \in 1..Len(t) : Follows(t, i, next, name)
InTurn ==
  \A p \in Procs :
    /\ Turns(todo[p], M!NextSeq(records), "records")
    /\ Turns(todo[p], M!NextSeq(events), "events")
    /\ Turns(todo[p], M!NextSeq(promoted), "promoted")

\* An event to be written names what is known by then.
Before(t, i, name) == {t[j].what : j \in {k \in 1..(i - 1) : t[k].to = name}}
NamesKnown(t, known, promotedIds) ==
  \A i \in 1..Len(t) :
    /\ t[i].to = "events" =>
         {t[i].what.rec, t[i].what.other}
           \subseteq known \cup {NoRec} \cup {l.id : l \in Before(t, i, "records")}
    /\ t[i].to = "promoted" =>
         t[i].what.rec \in promotedIds \cup {l.id : l \in Before(t, i, "page")}
NamesThen == \A p \in Procs : NamesKnown(todo[p], M!Known, M!PromotedIds)

\* A record to be promoted is confirmed once the events before it are written.
Judged(t, liveIds, promotedIds, known, es) ==
  \A i \in 1..Len(t) :
    t[i].to = "page" =>
      /\ t[i].what.id \in liveIds \ promotedIds
      /\ \A j \in 1..(i - 1) : t[j].to = "events"
      /\ M!Status(t[i].what.id, known, es \cup Before(t, i, "events")) = "confirmed"
ConfirmedThen ==
  \A p \in Procs : Judged(todo[p], M!LiveIds, M!PromotedIds, M!Known, M!KnownEvents)

FilesNumbered == NumbersOK(records) /\ NumbersOK(events) /\ NumbersOK(promoted)

MemoryInv ==
  /\ M!TypeOK /\ Alone /\ FragmentsKnown /\ InTurn /\ NamesThen /\ ConfirmedThen
  /\ FilesNumbered /\ M!FragmentsHeld /\ M!EventsNameKnown

-----------------------------------------------------------------------------
\* A set of naturals with a bound has a greatest.
LEMMA Greatest ==
  ASSUME NEW n \in Nat, NEW S \in SUBSET (0..n), S # {}
  PROVE  M!Max(S) \in S /\ \A x \in S : M!Max(S) >= x
<1> DEFINE Above(x) == {y \in S : y >= x}
           T == {Above(x) : x \in S}
<1>1. S \in SUBSET Nat /\ \A x \in S : x <= n
  OBVIOUS
<1>2. IsFiniteSet(S)
  BY <1>1, FS_BoundedSetOfNaturals
<1>3. \A x \in S : IsFiniteSet(Above(x))
  BY <1>2, FS_Subset
<1>4. T \subseteq FiniteSubsetsOf(S) /\ T # {}
  BY <1>3 DEF FiniteSubsetsOf
<1>5. IsWellFoundedOn(StrictSubsetOrdering(S), FiniteSubsetsOf(S))
  BY FS_StrictSubsetOrderingWellFounded
<1>6. PICK U \in T : \A V \in T : <<V, U>> \notin StrictSubsetOrdering(S)
  <2> HIDE DEF T
  <2> QED BY <1>4, <1>5, WFMin
<1>7. PICK x \in S : U = Above(x)
  OBVIOUS
<1>8. \A y \in S : x >= y
  <2> SUFFICES ASSUME NEW y \in S, ~(x >= y) PROVE FALSE
    OBVIOUS
  <2>1. x \in Nat /\ y \in Nat /\ y > x
    BY <1>1
  <2>2. Above(y) \subseteq Above(x)
    <3> SUFFICES ASSUME NEW z \in S, z >= y PROVE z >= x
      OBVIOUS
    <3> z \in Nat
      BY <1>1
    <3> QED BY <2>1
  <2>3. x \in Above(x) /\ x \notin Above(y)
    BY <2>1
  <2>4. <<Above(y), Above(x)>> \in StrictSubsetOrdering(S)
    BY <2>2, <2>3 DEF StrictSubsetOrdering
  <2> QED BY <1>6, <1>7, <2>4
<1> QED BY <1>8 DEF M!Max

-----------------------------------------------------------------------------
(* Lines and their numbers *)

\* What a file of lines holds.
LEMMA LinesOf ==
  ASSUME NEW S, NEW f \in Seq(S \cup {Torn})
  PROVE  /\ M!Lines(f) \subseteq S
         /\ \A i \in 1..Len(f) : f[i] # Torn => f[i] \in M!Lines(f)
         /\ \A l \in M!Lines(f) : \E i \in 1..Len(f) : f[i] = l /\ l # Torn
BY DEF M!Lines, M!Range

LEMMA LinesGrow ==
  ASSUME NEW S, NEW f \in Seq(S \cup {Torn}), NEW l \in S \cup {Torn}
  PROVE  /\ Append(f, l) \in Seq(S \cup {Torn}) /\ Len(Append(f, l)) = Len(f) + 1
         /\ \A i \in 1..Len(f) : Append(f, l)[i] = f[i]
         /\ Append(f, l)[Len(f) + 1] = l
         /\ M!Lines(Append(f, l)) = M!Lines(f) \cup ({l} \ {Torn})
<1>1. /\ Append(f, l) \in Seq(S \cup {Torn}) /\ Len(Append(f, l)) = Len(f) + 1
      /\ \A i \in 1..Len(f) : Append(f, l)[i] = f[i]
      /\ Append(f, l)[Len(f) + 1] = l
  OBVIOUS
<1>2. DOMAIN Append(f, l) = 1..(Len(f) + 1) /\ DOMAIN f = 1..Len(f) /\ Len(f) \in Nat
  BY <1>1
<1>3. M!Range(Append(f, l)) = M!Range(f) \cup {l}
  <2>1. M!Range(Append(f, l)) \subseteq M!Range(f) \cup {l}
    <3> SUFFICES ASSUME NEW i \in 1..(Len(f) + 1) PROVE Append(f, l)[i] \in M!Range(f) \cup {l}
      BY <1>2 DEF M!Range
    <3>1. CASE i = Len(f) + 1
      BY <1>1, <3>1
    <3>2. CASE i # Len(f) + 1
      <4>1. i \in 1..Len(f)
        BY <1>2, <3>2
      <4> QED BY <1>1, <1>2, <4>1 DEF M!Range
    <3> QED BY <3>1, <3>2
  <2>2. M!Range(f) \subseteq M!Range(Append(f, l))
    <3> SUFFICES ASSUME NEW i \in 1..Len(f) PROVE f[i] \in M!Range(Append(f, l))
      BY <1>2 DEF M!Range
    <3>1. i \in 1..(Len(f) + 1) /\ Append(f, l)[i] = f[i]
      BY <1>1, <1>2
    <3> QED BY <1>2, <3>1 DEF M!Range
  <2>3. l \in M!Range(Append(f, l))
    <3>1. Len(f) + 1 \in 1..(Len(f) + 1)
      BY <1>2
    <3> QED BY <1>1, <1>2, <3>1 DEF M!Range
  <2> QED BY <2>1, <2>2, <2>3
<1> QED BY <1>1, <1>3 DEF M!Lines

\* The next number is above every number there is, and all below it are there.
LEMMA NextIsAbove ==
  ASSUME NEW S, \A l \in S : l.seq \in Nat, NEW f \in Seq(S \cup {Torn}), NumbersOK(f)
  PROVE  /\ M!NextSeq(f) \in 1..(Len(f) + 1)
         /\ \A l \in M!Lines(f) : l.seq \in Nat /\ l.seq < M!NextSeq(f)
         /\ \A n \in 1..(M!NextSeq(f) - 1) : \E l \in M!Lines(f) : l.seq = n
<1> DEFINE Z == {0} \cup {line.seq : line \in M!Lines(f)}
<1>1. Len(f) \in Nat
  OBVIOUS
<1>2. \A l \in M!Lines(f) : l.seq \in 0..Len(f)
  <2> SUFFICES ASSUME NEW l \in M!Lines(f) PROVE l.seq \in 0..Len(f)
    OBVIOUS
  <2>1. PICK i \in 1..Len(f) : f[i] = l /\ l # Torn
    BY LinesOf
  <2>2. l.seq \in Nat /\ l.seq <= i
    BY <2>1, LinesOf DEF NumbersOK, Bounded
  <2> QED BY <1>1, <2>2
<1>3. Z \in SUBSET (0..Len(f)) /\ Z # {}
  BY <1>1, <1>2
<1>4. M!Max(Z) \in Z /\ \A x \in Z : M!Max(Z) >= x
  <2> HIDE DEF Z
  <2> QED BY <1>1, <1>3, Greatest
<1>5. M!NextSeq(f) = M!Max(Z) + 1
  BY DEF M!NextSeq
<1>6. M!NextSeq(f) \in 1..(Len(f) + 1)
  <2>1. M!Max(Z) \in 0..Len(f)
    <3> HIDE DEF Z
    <3> QED BY <1>3, <1>4
  <2> HIDE DEF Z
  <2> QED BY <1>1, <1>5, <2>1
<1>7. \A l \in M!Lines(f) : l.seq \in Nat /\ l.seq < M!NextSeq(f)
  <2>1. M!Max(Z) \in Nat
    BY <1>3, <1>4
  <2>2. \A l \in M!Lines(f) : l.seq \in Z
    OBVIOUS
  <2> HIDE DEF Z
  <2> QED BY <1>2, <1>4, <1>5, <2>1, <2>2
<1>8. \A n \in 1..(M!NextSeq(f) - 1) : \E l \in M!Lines(f) : l.seq = n
  <2> SUFFICES ASSUME NEW n \in 1..(M!NextSeq(f) - 1) PROVE \E l \in M!Lines(f) : l.seq = n
    OBVIOUS
  <2>1. M!Max(Z) \in Nat /\ n \in 1..M!Max(Z)
    <3>1. M!Max(Z) \in 0..Len(f)
      <4> HIDE DEF Z
      <4> QED BY <1>3, <1>4
    <3> HIDE DEF Z
    <3> QED BY <1>1, <1>5, <3>1
  <2>2. PICK l \in M!Lines(f) : l.seq = M!Max(Z)
    <3>1. M!Max(Z) # 0
      <4> HIDE DEF Z
      <4> QED BY <2>1
    <3> QED BY <1>4, <3>1
  <2>3. n \in 1..l.seq
    BY <2>1, <2>2
  <2> QED BY <2>3 DEF NumbersOK, M!Numbered, M!Gapless
<1> QED BY <1>6, <1>7, <1>8

\* A line with the next number keeps a file numbered.
LEMMA NumberedOn ==
  ASSUME NEW S, \A l \in S : l.seq \in Nat, NEW f \in Seq(S \cup {Torn}), NumbersOK(f),
         NEW w \in S, w # Torn, w.seq = M!NextSeq(f)
  PROVE  NumbersOK(Append(f, w)) /\ M!NextSeq(Append(f, w)) = w.seq + 1
<1> DEFINE g == Append(f, w)
<1>1. /\ g \in Seq(S \cup {Torn}) /\ Len(g) = Len(f) + 1 /\ Len(f) \in Nat
      /\ \A i \in 1..Len(f) : g[i] = f[i]
      /\ g[Len(f) + 1] = w /\ M!Lines(g) = M!Lines(f) \cup {w}
  BY LinesGrow
<1>2. /\ M!NextSeq(f) \in 1..(Len(f) + 1)
      /\ \A l \in M!Lines(f) : l.seq \in Nat /\ l.seq < M!NextSeq(f)
      /\ \A n \in 1..(M!NextSeq(f) - 1) : \E l \in M!Lines(f) : l.seq = n
  BY NextIsAbove
<1>3. \A i \in 1..Len(f) : f[i] # Torn => f[i] \in M!Lines(f)
  BY LinesOf
<1> HIDE DEF g
<1>4. M!Rising(g)
  <2> SUFFICES ASSUME NEW i \in 1..Len(g), NEW j \in 1..Len(g), i < j, g[i] # Torn, g[j] # Torn
               PROVE  g[i].seq < g[j].seq
    BY DEF M!Rising
  <2>1. i \in 1..Len(f) /\ g[i] = f[i]
    BY <1>1
  <2>2. CASE j = Len(f) + 1
    BY <1>1, <1>2, <1>3, <2>1, <2>2
  <2>3. CASE j # Len(f) + 1
    <3>1. j \in 1..Len(f) /\ g[j] = f[j]
      BY <1>1, <2>3
    <3> QED BY <2>1, <3>1 DEF NumbersOK, M!Numbered, M!Rising
  <2> QED BY <2>2, <2>3
<1>5. M!Gapless(g)
  <2> SUFFICES ASSUME NEW l \in M!Lines(g)
               PROVE  l.seq > 0 /\ \A n \in 1..l.seq : \E k \in M!Lines(g) : k.seq = n
    BY DEF M!Gapless
  <2>1. CASE l \in M!Lines(f)
    BY <1>1, <2>1 DEF NumbersOK, M!Numbered, M!Gapless
  <2>2. CASE l = w
    <3> SUFFICES ASSUME NEW n \in 1..w.seq PROVE \E k \in M!Lines(g) : k.seq = n
      BY <1>2, <2>2
    <3>1. n = w.seq \/ n \in 1..(M!NextSeq(f) - 1)
      BY <1>2
    <3> QED BY <1>1, <1>2, <3>1
  <2> QED BY <1>1, <2>1, <2>2
<1>6. Bounded(g)
  <2> SUFFICES ASSUME NEW i \in 1..Len(g), g[i] # Torn PROVE g[i].seq <= i
    BY DEF Bounded
  <2>1. CASE i = Len(f) + 1
    BY <1>1, <1>2, <2>1
  <2>2. CASE i # Len(f) + 1
    <3>1. i \in 1..Len(f) /\ g[i] = f[i]
      BY <1>1, <2>2
    <3> QED BY <3>1 DEF NumbersOK, Bounded
  <2> QED BY <2>1, <2>2
<1>7. NumbersOK(g)
  BY <1>4, <1>5, <1>6 DEF NumbersOK, M!Numbered
<1>8. /\ M!NextSeq(g) \in 1..(Len(g) + 1) /\ \A l \in M!Lines(g) : l.seq < M!NextSeq(g)
      /\ \A n \in 1..(M!NextSeq(g) - 1) : \E l \in M!Lines(g) : l.seq = n
  BY <1>1, <1>7, NextIsAbove
<1>9. \A l \in M!Lines(g) : l.seq \in Nat /\ l.seq <= w.seq
  BY <1>1, <1>2
<1>10. ~(w.seq + 1 < M!NextSeq(g))
  <2> SUFFICES ASSUME w.seq + 1 < M!NextSeq(g) PROVE FALSE
    OBVIOUS
  <2>1. w.seq + 1 \in 1..(M!NextSeq(g) - 1)
    BY <1>2, <1>8
  <2>2. PICK l \in M!Lines(g) : l.seq = w.seq + 1
    BY <1>8, <2>1
  <2> QED BY <1>2, <1>9, <2>2
<1>11. w.seq < M!NextSeq(g)
  BY <1>1, <1>8
<1>12. M!NextSeq(g) = w.seq + 1
  BY <1>2, <1>8, <1>10, <1>11
<1> QED BY <1>7, <1>12 DEF g

\* A fragment does not count.
LEMMA FragmentOn ==
  ASSUME NEW S, \A l \in S : l.seq \in Nat, NEW f \in Seq(S \cup {Torn}), NumbersOK(f)
  PROVE  NumbersOK(Append(f, Torn)) /\ M!Lines(Append(f, Torn)) = M!Lines(f)
<1> DEFINE g == Append(f, Torn)
<1>1. /\ g \in Seq(S \cup {Torn}) /\ Len(g) = Len(f) + 1 /\ Len(f) \in Nat
      /\ \A i \in 1..Len(f) : g[i] = f[i]
      /\ g[Len(f) + 1] = Torn /\ M!Lines(g) = M!Lines(f)
  <2>1. Torn \in S \cup {Torn} /\ {Torn} \ {Torn} = {}
    OBVIOUS
  <2>2. M!Lines(g) = M!Lines(f) \cup ({Torn} \ {Torn})
    BY <2>1, LinesGrow
  <2> QED BY <2>1, <2>2, LinesGrow
<1> HIDE DEF g
<1>2. \A i \in 1..Len(g) : g[i] # Torn => i \in 1..Len(f) /\ g[i] = f[i]
  BY <1>1
<1>3. M!Rising(g) /\ Bounded(g)
  BY <1>2 DEF NumbersOK, M!Numbered, M!Rising, Bounded
<1>4. M!Gapless(g)
  BY <1>1 DEF NumbersOK, M!Numbered, M!Gapless
<1> QED BY <1>1, <1>3, <1>4 DEF NumbersOK, M!Numbered, g

-----------------------------------------------------------------------------
(* What a command has still to write *)

LEMMA WriteTyped ==
  ASSUME NEW w \in M!Writes
  PROVE  /\ w.to \in {"records", "page", "events", "promoted", "build", "index"}
         /\ w.to \in {"records", "page"} => w.what \in M!RecordLines
         /\ w.to \in {"events", "promoted"} => w.what \in M!Events
         /\ w.to = "index" => w.what \in M!Indexes
BY DEF M!Writes

LEMMA LineTyped ==
  /\ \A l \in M!RecordLines : l.seq \in Nat /\ l # Torn /\ l.id \in Recs
  /\ \A e \in M!Events : e.seq \in Nat /\ e # Torn /\ e.rec \in Recs /\ e.other \in Recs \cup {NoRec}
BY RecordsAssumed DEF M!RecordLines, M!Events

LEMMA TailOf ==
  ASSUME NEW S, NEW t \in Seq(S), t # <<>>
  PROVE  /\ Head(t) = t[1] /\ t[1] \in S /\ Tail(t) \in Seq(S) /\ Len(t) \in Nat /\ Len(t) > 0
         /\ Len(Tail(t)) = Len(t) - 1
         /\ \A i \in 1..Len(Tail(t)) : Tail(t)[i] = t[i + 1] /\ i + 1 \in 1..Len(t)
OBVIOUS

LEMMA TurnsOn ==
  ASSUME NEW t \in Seq(M!Writes), t # <<>>, NEW n \in Nat, NEW m \in Nat, NEW name,
         Turns(t, n, name), m = IF t[1].to = name THEN t[1].what.seq + 1 ELSE n
  PROVE  Turns(Tail(t), m, name)
<1> DEFINE u == Tail(t)
<1>1. /\ Len(u) \in Nat /\ Len(t) = Len(u) + 1
      /\ \A i \in 1..Len(u) : u[i] = t[i + 1]
  BY TailOf
<1> HIDE DEF u
<1> SUFFICES ASSUME NEW i \in 1..Len(u), u[i].to = name
             PROVE  \/ i > 1 /\ u[i - 1].to = name /\ u[i].what.seq = u[i - 1].what.seq + 1
                    \/ u[i].what.seq = m /\ \A j \in 1..(i - 1) : u[j].to # name
  BY DEF Turns, Follows, u
<1>2. i + 1 \in 1..Len(t) /\ t[i + 1] = u[i]
  BY <1>1
<1>3. \/ t[i].to = name /\ u[i].what.seq = t[i].what.seq + 1
      \/ u[i].what.seq = n /\ \A j \in 1..i : t[j].to # name
  <2>1. Follows(t, i + 1, n, name) /\ i + 1 > 1 /\ (i + 1) - 1 = i
    BY <1>2 DEF Turns
  <2> QED BY <1>2, <2>1 DEF Follows
<1>4. CASE t[i].to = name /\ u[i].what.seq = t[i].what.seq + 1
  <2>1. CASE i = 1
    BY <1>4, <2>1
  <2>2. CASE i # 1
    <3>1. i - 1 \in 1..Len(u) /\ (i - 1) + 1 = i /\ i > 1
      BY <1>1, <2>2
    <3>2. u[i - 1] = t[i]
      BY <1>1, <3>1
    <3> QED BY <1>4, <3>1, <3>2
  <2> QED BY <2>1, <2>2
<1>5. CASE u[i].what.seq = n /\ \A j \in 1..i : t[j].to # name
  <2>1. t[1].to # name /\ m = n
    BY <1>5
  <2>2. ASSUME NEW j \in 1..(i - 1) PROVE u[j].to # name
    <3>1. j \in 1..Len(u) /\ j + 1 \in 1..i
      BY <1>1
    <3> QED BY <1>1, <1>5, <3>1
  <2> QED BY <1>5, <2>1, <2>2
<1> QED BY <1>3, <1>4, <1>5

LEMMA BeforeOn ==
  ASSUME NEW t \in Seq(M!Writes), t # <<>>, NEW i \in 1..Len(Tail(t)), NEW name
  PROVE  Before(t, i + 1, name)
           = Before(Tail(t), i, name) \cup (IF t[1].to = name THEN {t[1].what} ELSE {})
<1> DEFINE u == Tail(t)
<1>1. /\ Len(u) \in Nat /\ Len(t) = Len(u) + 1
      /\ \A k \in 1..Len(u) : u[k] = t[k + 1]
  BY TailOf
<1> HIDE DEF u
<1>2. i \in 1..Len(u)
  BY DEF u
<1>3. ASSUME NEW k \in 1..((i + 1) - 1), t[k].to = name
      PROVE  t[k].what \in Before(u, i, name) \cup (IF t[1].to = name THEN {t[1].what} ELSE {})
  <2>1. CASE k = 1
    BY <1>3, <2>1
  <2>2. CASE k # 1
    <3>1. k - 1 \in 1..Len(u) /\ (k - 1) + 1 = k /\ k - 1 \in 1..(i - 1)
      BY <1>1, <1>2, <2>2
    <3>2. u[k - 1] = t[k]
      BY <1>1, <3>1
    <3> QED BY <1>3, <3>1, <3>2 DEF Before
  <2> QED BY <2>1, <2>2
<1>4. ASSUME NEW k \in 1..(i - 1), u[k].to = name
      PROVE  u[k].what \in Before(t, i + 1, name)
  <2>1. k \in 1..Len(u) /\ k + 1 \in 1..((i + 1) - 1)
    BY <1>1, <1>2
  <2> QED BY <1>1, <1>4, <2>1 DEF Before
<1>5. t[1].to = name => t[1].what \in Before(t, i + 1, name)
  <2>1. 1 \in 1..((i + 1) - 1)
    BY <1>1, <1>2
  <2> QED BY <2>1 DEF Before
<1>6. Before(t, i + 1, name) \subseteq Before(u, i, name) \cup (IF t[1].to = name THEN {t[1].what} ELSE {})
  BY <1>3 DEF Before
<1>7. Before(u, i, name) \subseteq Before(t, i + 1, name)
  BY <1>4 DEF Before
<1> QED BY <1>5, <1>6, <1>7 DEF u

LEMMA NamesOn ==
  ASSUME NEW t \in Seq(M!Writes), t # <<>>, NEW k, NEW b, NEW k2, NEW b2,
         NamesKnown(t, k, b), k \subseteq k2, b \subseteq b2,
         t[1].to = "records" => t[1].what.id \in k2,
         t[1].to = "page" => t[1].what.id \in b2
  PROVE  NamesKnown(Tail(t), k2, b2)
<1> SUFFICES ASSUME NEW i \in 1..Len(Tail(t))
             PROVE  LET u == Tail(t) IN
                    /\ u[i].to = "events" =>
                         {u[i].what.rec, u[i].what.other}
                           \subseteq k2 \cup {NoRec} \cup {l.id : l \in Before(u, i, "records")}
                    /\ u[i].to = "promoted" =>
                         u[i].what.rec \in b2 \cup {l.id : l \in Before(u, i, "page")}
  BY DEF NamesKnown
<1>1. i + 1 \in 1..Len(t) /\ Tail(t)[i] = t[i + 1]
  BY TailOf
<1>2. {l.id : l \in Before(t, i + 1, "records")}
        \subseteq k2 \cup {l.id : l \in Before(Tail(t), i, "records")}
  BY BeforeOn
<1>3. {l.id : l \in Before(t, i + 1, "page")}
        \subseteq b2 \cup {l.id : l \in Before(Tail(t), i, "page")}
  BY BeforeOn
<1>4. /\ t[i + 1].to = "events" =>
           {t[i + 1].what.rec, t[i + 1].what.other}
             \subseteq k \cup {NoRec} \cup {l.id : l \in Before(t, i + 1, "records")}
      /\ t[i + 1].to = "promoted" =>
           t[i + 1].what.rec \in b \cup {l.id : l \in Before(t, i + 1, "page")}
  BY <1>1 DEF NamesKnown
<1> QED BY <1>1, <1>2, <1>3, <1>4

LEMMA JudgedOn ==
  ASSUME NEW t \in Seq(M!Writes), t # <<>>, NEW a, NEW b, NEW k, NEW es, NEW a2, NEW b2, NEW k2,
         NEW es2, Judged(t, a, b, k, es),
         t[1].to = "events" => a2 = a /\ b2 = b /\ k2 = k /\ es2 = es \cup {t[1].what}
  PROVE  Judged(Tail(t), a2, b2, k2, es2)
<1> SUFFICES ASSUME NEW i \in 1..Len(Tail(t)), Tail(t)[i].to = "page"
             PROVE  LET u == Tail(t) IN
                    /\ u[i].what.id \in a2 \ b2
                    /\ \A j \in 1..(i - 1) : u[j].to = "events"
                    /\ M!Status(u[i].what.id, k2, es2 \cup Before(u, i, "events")) = "confirmed"
  BY DEF Judged
<1>1. /\ i + 1 \in 1..Len(t) /\ Tail(t)[i] = t[i + 1] /\ Len(Tail(t)) \in Nat
      /\ \A j \in 1..(i - 1) : Tail(t)[j] = t[j + 1] /\ j + 1 \in 1..((i + 1) - 1)
      /\ 1 \in 1..((i + 1) - 1)
  BY TailOf
<1>2. /\ t[i + 1].what.id \in a \ b
      /\ \A j \in 1..((i + 1) - 1) : t[j].to = "events"
      /\ M!Status(t[i + 1].what.id, k, es \cup Before(t, i + 1, "events")) = "confirmed"
  BY <1>1 DEF Judged
<1>3. t[1].to = "events"
  BY <1>1, <1>2
<1>4. es \cup Before(t, i + 1, "events") = es2 \cup Before(Tail(t), i, "events")
  <2>1. Before(t, i + 1, "events") = Before(Tail(t), i, "events") \cup {t[1].what}
    BY <1>3, BeforeOn
  <2>2. es2 = es \cup {t[1].what}
    BY <1>3
  <2> QED BY <2>1, <2>2
<1> QED BY <1>1, <1>2, <1>3, <1>4

\* A command with at most the index to write.
LEMMA IdleFine ==
  ASSUME NEW t, \A i \in 1..Len(t) : t[i].to \in AtIndex
  PROVE  /\ \A n : \A name \in {"records", "events", "promoted"} : Turns(t, n, name)
         /\ \A k, b : NamesKnown(t, k, b)
         /\ \A a, b, k, es : Judged(t, a, b, k, es)
BY DEF AtIndex, Turns, Follows, NamesKnown, Judged

-----------------------------------------------------------------------------
(* The lock is taken, the writes decided *)

LEMMA FragmentsTyped == M!Fragments \subseteq M!Held
BY DEF M!Fragments, M!Held

LEMMA NothingWritten ==
  ASSUME UNCHANGED <<M!live, M!store>>
  PROVE  /\ M!Known' = M!Known /\ M!KnownEvents' = M!KnownEvents
         /\ M!LiveIds' = M!LiveIds /\ M!PromotedIds' = M!PromotedIds
         /\ M!Fragments' = M!Fragments /\ FilesNumbered' = FilesNumbered
         /\ M!FragmentsHeld' = M!FragmentsHeld /\ M!EventsNameKnown' = M!EventsNameKnown
BY DEF M!live, M!store, M!Known, M!KnownEvents, M!LiveIds, M!PromotedIds, M!Fragments, FilesNumbered,
       M!FragmentsHeld, M!EventsNameKnown

\* What a command that has the lock is to write.
Fit(t) ==
  /\ t \in Seq(M!Writes)
  /\ Turns(t, M!NextSeq(records), "records")
  /\ Turns(t, M!NextSeq(events), "events")
  /\ Turns(t, M!NextSeq(promoted), "promoted")
  /\ NamesKnown(t, M!Known, M!PromotedIds)
  /\ Judged(t, M!LiveIds, M!PromotedIds, M!Known, M!KnownEvents)

LEMMA FitAll == MemoryInv => \A p \in Procs : Fit(todo[p])
BY DEF MemoryInv, M!TypeOK, InTurn, NamesThen, ConfirmedThen, Fit

LEMMA NothingFits == Fit(<<>>)
<1>1. \A i \in 1..Len(<<>>) : <<>>[i].to \in AtIndex
  OBVIOUS
<1>2. <<>> \in Seq(M!Writes)
  OBVIOUS
<1> HIDE DEF AtIndex
<1> QED BY <1>1, <1>2, IdleFine DEF Fit

LEMMA FitKeeps ==
  ASSUME M!TypeOK', Alone', FragmentsKnown', FilesNumbered', M!FragmentsHeld', M!EventsNameKnown',
         \A p \in Procs : Fit(todo[p])'
  PROVE  MemoryInv'
BY DEF MemoryInv, Fit, InTurn, NamesThen, ConfirmedThen

LEMMA BeginKeeps ==
  ASSUME MemoryInv, NEW p \in Procs, NEW writes, NEW n \in Nat, M!Locked(p), M!Begin(p, writes, n),
         Fit(writes)
  PROVE  MemoryInv'
<1> USE DEF MemoryInv
<1>1. UNCHANGED <<M!live, M!store>>
  BY DEF M!Begin
<1>2. lock = NoProc /\ lock' = p /\ p \notin busy /\ NoProc \notin Procs
  BY RecordsAssumed DEF M!Locked
<1>3. /\ todo' = [todo EXCEPT ![p] = writes] /\ toHold' = [toHold EXCEPT ![p] = M!Fragments \ quarantined]
      /\ todo \in [Procs -> Seq(M!Writes)] /\ toHold \in [Procs -> SUBSET M!Held]
      /\ writes \in Seq(M!Writes)
  BY DEF M!Begin, M!TypeOK, Fit
<1>4. M!TypeOK'
  <2>1. todo' \in [Procs -> Seq(M!Writes)] /\ toHold' \in [Procs -> SUBSET M!Held]
    BY <1>3, FragmentsTyped
  <2>2. ids' \in 0..MaxEvents /\ busy' \subseteq Procs
    BY RecordsAssumed DEF M!Begin, M!TypeOK
  <2>3. UNCHANGED <<records, events, quarantined, page, promoted, index, kills, clones>>
    BY <1>1 DEF M!live, M!store, M!Begin
  <2> QED BY <1>2, <2>1, <2>2, <2>3 DEF M!TypeOK
<1>5. Alone'
  <2>1. \A q \in Procs \ {p} : todo'[q] = todo[q] /\ toHold'[q] = toHold[q]
    BY <1>3
  <2>2. busy' = busy \cup {p}
    BY DEF M!Begin
  <2> QED BY <1>2, <2>1, <2>2 DEF Alone
<1>6. FragmentsKnown'
  <2>1. toHold'[p] = M!Fragments \ quarantined /\ M!Fragments' = M!Fragments /\ quarantined' = quarantined
    BY <1>1, <1>3, NothingWritten DEF M!live
  <2> QED BY <1>2, <2>1 DEF FragmentsKnown
<1>7. ASSUME NEW q \in Procs PROVE Fit(todo[q])'
  <2>1. Fit(todo'[q])
    <3>1. CASE q = p
      BY <1>3, <3>1
    <3>2. CASE q # p
      BY <1>3, <3>2, FitAll
    <3> QED BY <3>1, <3>2
  <2> QED BY <1>1, <2>1, NothingWritten DEF Fit, M!live, M!store
<1> QED BY <1>1, <1>4, <1>5, <1>6, <1>7, NothingWritten, FitKeeps

LEMMA FileTyped ==
  ASSUME NEW S, \A l \in S : l.seq \in Nat, NEW f \in Seq(S \cup {Torn}), NumbersOK(f)
  PROVE  M!NextSeq(f) \in Nat /\ M!Lines(f) \subseteq S
<1>1. M!NextSeq(f) \in 1..(Len(f) + 1)
  BY NextIsAbove
<1>2. M!Lines(f) \subseteq S
  BY LinesOf
<1> QED BY <1>1, <1>2

LEMMA FilesTyped ==
  ASSUME MemoryInv
  PROVE  /\ \A name \in {records, events, promoted} : M!NextSeq(name) \in Nat /\ NumbersOK(name)
         /\ M!LiveIds \subseteq Recs /\ M!PromotedIds \subseteq Recs /\ M!Known \subseteq Recs
         /\ M!Lines(records) \subseteq M!RecordLines
         /\ M!KnownEvents \subseteq M!Events /\ M!Lines(events) \subseteq M!Events
<1>1. /\ records \in Seq(M!RecordLines \cup {Torn}) /\ events \in Seq(M!Events \cup {Torn})
      /\ promoted \in Seq(M!Events \cup {Torn})
      /\ NumbersOK(records) /\ NumbersOK(events) /\ NumbersOK(promoted)
  BY DEF MemoryInv, M!TypeOK, FilesNumbered
<1>2. M!NextSeq(records) \in Nat /\ M!Lines(records) \subseteq M!RecordLines
  BY <1>1, FileTyped, LineTyped
<1>3. M!NextSeq(events) \in Nat /\ M!Lines(events) \subseteq M!Events
  BY <1>1, FileTyped, LineTyped
<1>4. M!NextSeq(promoted) \in Nat /\ M!Lines(promoted) \subseteq M!Events
  BY <1>1, FileTyped, LineTyped
<1> QED BY <1>1, <1>2, <1>3, <1>4, LineTyped DEF M!LiveIds, M!PromotedIds, M!Known, M!KnownEvents

\* A set of known things put in some order.
LEMMA Ordered ==
  ASSUME NEW S, IsFiniteSet(S), NEW f \in M!SetToSeqs(S)
  PROVE  f \in Seq(S)
<1>1. Cardinality(S) \in Nat
  BY FS_CardinalityType
<1>2. f \in [1..Cardinality(S) -> S]
  <2>1. M!Cardinality(S) = Cardinality(S)
    BY DEF M!Cardinality, Cardinality, M!IsFiniteSet, IsFiniteSet
  <2> QED BY <2>1 DEF M!SetToSeqs
<1> QED BY <1>1, <1>2

LEMMA FilesFinite ==
  ASSUME NEW S, NEW f \in Seq(S)
  PROVE  IsFiniteSet(M!Lines(f))
<1>1. Len(f) \in Nat /\ f \in [1..Len(f) -> S]
  OBVIOUS
<1>2. IsFiniteSet(1..Len(f))
  BY <1>1, FS_Interval
<1>3. f \in Surjection(1..Len(f), M!Range(f))
  BY <1>1 DEF Surjection, M!Range
<1>4. IsFiniteSet(M!Range(f))
  BY <1>2, <1>3, FS_Surjection
<1> QED BY <1>4, FS_Subset DEF M!Lines

LEMMA AppendEventKeeps ==
  ASSUME MemoryInv, NEW p \in Procs, NEW kind \in EventKinds, NEW r \in Recs,
         NEW o \in Recs \cup {NoRec}, M!AppendEvent(p, kind, r, o)
  PROVE  MemoryInv'
<1> DEFINE e == M!NewEvent(1, M!NextSeq(events), kind, r, o)
           t == <<[to |-> "events", what |-> e]>>
<1>0. M!Locked(p)
  BY DEF M!AppendEvent
<1>1. CASE M!Begin(p, <<>>, 0)
  BY <1>0, <1>1, NothingFits, BeginKeeps
<1>2. CASE {r, o} \subseteq M!Known \cup {NoRec} /\ M!Begin(p, t, 1)
  <2>1. e \in M!Events /\ e.seq = M!NextSeq(events) /\ {e.rec, e.other} = {r, o}
    <3>1. ids + 1 \in 1..MaxEvents
      BY <1>2, RecordsAssumed DEF M!Begin, MemoryInv, M!TypeOK
    <3> QED BY <3>1, FilesTyped, RecordsAssumed DEF M!NewEvent, M!Events
  <2>2. t \in Seq(M!Writes) /\ Len(t) = 1 /\ t[1].to = "events" /\ t[1].what = e
    BY <2>1 DEF M!Writes
  <2> HIDE DEF t, e
  <2>3. Turns(t, M!NextSeq(records), "records") /\ Turns(t, M!NextSeq(promoted), "promoted")
    BY <2>2 DEF Turns, Follows
  <2>4. Turns(t, M!NextSeq(events), "events")
    BY <2>1, <2>2 DEF Turns, Follows
  <2>5. NamesKnown(t, M!Known, M!PromotedIds)
    <3>1. {t[1].what.rec, t[1].what.other} \subseteq M!Known \cup {NoRec}
      BY <1>2, <2>1, <2>2
    <3> QED BY <2>2, <3>1 DEF NamesKnown
  <2>6. Judged(t, M!LiveIds, M!PromotedIds, M!Known, M!KnownEvents)
    BY <2>2 DEF Judged
  <2>7. Fit(t)
    BY <2>2, <2>3, <2>4, <2>5, <2>6 DEF Fit
  <2> QED BY <1>0, <1>2, <2>7, BeginKeeps
<1> QED BY <1>1, <1>2 DEF M!AppendEvent

\* One write, then those of a sequence.
LEMMA FirstAndRest ==
  ASSUME NEW S, NEW x \in S, NEW f \in Seq(S)
  PROVE  /\ <<x>> \o f \in Seq(S) /\ Len(<<x>> \o f) = 1 + Len(f) /\ (<<x>> \o f)[1] = x
         /\ \A i \in 1..Len(f) : (<<x>> \o f)[i + 1] = f[i]
OBVIOUS

\* The events a record implies name it, and what was known.
LEMMA ImpliedNames ==
  ASSUME NEW r \in Recs, NEW K \in SUBSET Recs, Supersedes[r] \in K \cup {NoRec},
         NEW rivals \in Seq(K)
  PROVE  M!Implied(r, rivals) \in Seq([kind : M!Kinds, rec : K \cup {r}, other : K \cup {r}])
<1> DEFINE S == [kind : M!Kinds, rec : K \cup {r}, other : K \cup {r}]
           a == IF Supersedes[r] = NoRec THEN <<>>
                ELSE <<[kind |-> "supersede", rec |-> Supersedes[r], other |-> r]>>
           b == [i \in 1..Len(rivals) |-> [kind |-> "conflict", rec |-> r, other |-> rivals[i]]]
<1>1. a \in Seq(S)
  <2>1. CASE Supersedes[r] = NoRec
    BY <2>1
  <2>2. CASE Supersedes[r] # NoRec
    <3>1. [kind |-> "supersede", rec |-> Supersedes[r], other |-> r] \in S
      BY <2>2 DEF M!Kinds
    <3> QED BY <2>2, <3>1
  <2> QED BY <2>1, <2>2
<1>2. b \in Seq(S)
  <2>1. Len(rivals) \in Nat /\ \A i \in 1..Len(rivals) : rivals[i] \in K
    OBVIOUS
  <2>2. \A i \in 1..Len(rivals) : [kind |-> "conflict", rec |-> r, other |-> rivals[i]] \in S
    BY <2>1 DEF M!Kinds
  <2>3. b \in [1..Len(rivals) -> S]
    BY <2>2
  <2> QED BY <2>1, <2>3
<1>3. M!Implied(r, rivals) = a \o b
  BY DEF M!Implied
<1> HIDE DEF a, b, S
<1>4. M!Implied(r, rivals) \in Seq(S)
  BY <1>1, <1>2, <1>3
<1> QED BY <1>4 DEF S

\* A record and the events it implies, numbered on from what there is.
RecordAndEvents(r, implied) ==
  <<[to |-> "records", what |-> [id |-> r, seq |-> M!NextSeq(records)]]>>
  \o [i \in 1..Len(implied) |->
        [to |-> "events",
         what |-> M!NewEvent(i, M!NextSeq(events) + i - 1, implied[i].kind,
                           implied[i].rec, implied[i].other)]]

LEMMA RecordAndEventsFit ==
  ASSUME MemoryInv, NEW r \in Recs,
         NEW implied \in Seq([kind : M!Kinds, rec : M!Known \cup {r}, other : M!Known \cup {r}]),
         ids + Len(implied) <= MaxEvents
  PROVE  Fit(RecordAndEvents(r, implied))
<1> DEFINE event(i) == M!NewEvent(i, M!NextSeq(events) + i - 1, implied[i].kind,
                                implied[i].rec, implied[i].other)
           line == [to |-> "records", what |-> [id |-> r, seq |-> M!NextSeq(records)]]
           f == [i \in 1..Len(implied) |-> [to |-> "events", what |-> event(i)]]
           t == RecordAndEvents(r, implied)
<1>1. Len(implied) \in Nat /\ ids \in Nat /\ M!NextSeq(events) \in Nat /\ M!NextSeq(records) \in Nat
  BY FilesTyped DEF MemoryInv, M!TypeOK
<1>2. line \in M!Writes
  BY <1>1 DEF M!Writes, M!RecordLines
<1>3. ASSUME NEW i \in 1..Len(implied)
      PROVE  /\ event(i) \in M!Events /\ event(i).seq = M!NextSeq(events) + i - 1
             /\ {event(i).rec, event(i).other} \subseteq M!Known \cup {r}
  <2>1. implied[i] \in [kind : M!Kinds, rec : M!Known \cup {r}, other : M!Known \cup {r}]
    <3> HIDE DEF event, f, t, line
    <3> DEFINE S == [kind : M!Kinds, rec : M!Known \cup {r}, other : M!Known \cup {r}]
    <3> HIDE DEF S
    <3>1. implied \in Seq(S)
      BY DEF S
    <3>2. implied[i] \in S
      BY <3>1
    <3> QED BY <3>2 DEF S
  <2>2. ids + i \in 1..MaxEvents /\ M!NextSeq(events) + i - 1 \in Nat
    BY <1>1, RecordsAssumed
  <2> QED BY <2>1, <2>2, FilesTyped DEF M!NewEvent, M!Events
<1>4. f \in Seq(M!Writes) /\ Len(f) = Len(implied)
  <2>1. \A i \in 1..Len(implied) : [to |-> "events", what |-> event(i)] \in M!Writes
    BY <1>3 DEF M!Writes
  <2> HIDE DEF event
  <2>2. f \in [1..Len(implied) -> M!Writes]
    BY <2>1
  <2> QED BY <1>1, <2>2
<1>5. t = <<line>> \o f
  BY DEF RecordAndEvents
<1>6. /\ t \in Seq(M!Writes) /\ Len(t) = 1 + Len(implied) /\ t[1] = line
      /\ \A i \in 1..Len(implied) : t[i + 1] = [to |-> "events", what |-> event(i)]
  <2> HIDE DEF line, f, t
  <2>1. /\ t \in Seq(M!Writes) /\ Len(t) = 1 + Len(f) /\ t[1] = line
        /\ \A i \in 1..Len(f) : t[i + 1] = f[i]
    <3>1. /\ <<line>> \o f \in Seq(M!Writes) /\ Len(<<line>> \o f) = 1 + Len(f)
          /\ (<<line>> \o f)[1] = line /\ \A i \in 1..Len(f) : (<<line>> \o f)[i + 1] = f[i]
      <4> HIDE DEF event
      <4>1. line \in M!Writes /\ f \in Seq(M!Writes)
        BY <1>2, <1>4
      <4> QED BY <4>1, FirstAndRest
    <3> QED BY <1>5, <3>1
  <2> QED BY <1>4, <2>1 DEF f
<1>7. /\ t[1].to = "records" /\ t[1].what.id = r /\ t[1].what.seq = M!NextSeq(records)
      /\ \A i \in 2..Len(t) :
           /\ t[i].to = "events" /\ t[i].what.seq = M!NextSeq(events) + i - 2
           /\ {t[i].what.rec, t[i].what.other} \subseteq M!Known \cup {r}
  <2>1. ASSUME NEW i \in 2..Len(t)
        PROVE  /\ t[i].to = "events" /\ t[i].what.seq = M!NextSeq(events) + i - 2
               /\ {t[i].what.rec, t[i].what.other} \subseteq M!Known \cup {r}
    <3>1. i - 1 \in 1..Len(implied) /\ (i - 1) + 1 = i /\ (i - 1) - 1 = i - 2
      BY <1>1, <1>6
    <3>2. t[i] = [to |-> "events", what |-> event(i - 1)]
      BY <1>6, <3>1
    <3>3. event(i - 1).seq = M!NextSeq(events) + (i - 1) - 1
      BY <1>3, <3>1
    <3>4. {event(i - 1).rec, event(i - 1).other} \subseteq M!Known \cup {r}
      BY <1>3, <3>1
    <3> HIDE DEF event, t
    <3> QED BY <1>1, <3>1, <3>2, <3>3, <3>4
  <2> QED BY <1>6, <2>1
<1> HIDE DEF t, f, line, event
<1>8. \A i \in 1..Len(t) : i = 1 \/ i \in 2..Len(t)
  BY <1>1, <1>6
<1>9. Turns(t, M!NextSeq(records), "records") /\ Turns(t, M!NextSeq(promoted), "promoted")
  BY <1>7, <1>8 DEF Turns, Follows
<1>10. Turns(t, M!NextSeq(events), "events")
  <2> SUFFICES ASSUME NEW i \in 2..Len(t) PROVE Follows(t, i, M!NextSeq(events), "events")
    BY <1>7, <1>8 DEF Turns, Follows
  <2>1. CASE i = 2
    <3>1. t[2].what.seq = M!NextSeq(events)
      BY <1>1, <1>7, <2>1
    <3>2. \A j \in 1..(2 - 1) : t[j].to # "events"
      BY <1>7
    <3> QED BY <2>1, <3>1, <3>2 DEF Follows
  <2>2. CASE i # 2
    <3>1. i - 1 \in 2..Len(t) /\ i > 1
      BY <1>1, <1>6, <2>2
    <3>2. t[i].what.seq = t[i - 1].what.seq + 1
      <4>1. /\ t[i].what.seq = M!NextSeq(events) + i - 2
            /\ t[i - 1].what.seq = M!NextSeq(events) + (i - 1) - 2
        BY <1>7, <3>1
      <4> QED BY <1>1, <4>1
    <3> QED BY <1>7, <3>1, <3>2 DEF Follows
  <2> QED BY <2>1, <2>2
<1>11. NamesKnown(t, M!Known, M!PromotedIds)
  <2> SUFFICES ASSUME NEW i \in 2..Len(t)
               PROVE  {t[i].what.rec, t[i].what.other}
                        \subseteq M!Known \cup {NoRec} \cup {l.id : l \in Before(t, i, "records")}
    BY <1>7, <1>8 DEF NamesKnown
  <2>1. 1 \in {k \in 1..(i - 1) : t[k].to = "records"}
    BY <1>7
  <2>2. t[1].what \in Before(t, i, "records")
    BY <2>1 DEF Before
  <2>3. r \in {l.id : l \in Before(t, i, "records")}
    BY <1>7, <2>2
  <2> QED BY <1>7, <2>3
<1>12. Judged(t, M!LiveIds, M!PromotedIds, M!Known, M!KnownEvents)
  BY <1>7, <1>8 DEF Judged
<1> QED BY <1>6, <1>9, <1>10, <1>11, <1>12 DEF Fit, t

LEMMA AddKeeps ==
  ASSUME MemoryInv, NEW p \in Procs, NEW r \in Recs, M!Add(p, r)
  PROVE  MemoryInv'
<1>0. M!Locked(p)
  BY DEF M!Add
<1>1. CASE M!Begin(p, <<>>, 0)
  BY <1>0, <1>1, NothingFits, BeginKeeps
<1>2. CASE \E rivals \in M!SetToSeqs(M!Contradicted(r)) :
             /\ Supersedes[r] \in M!Known \cup {NoRec}
             /\ M!Begin(p, RecordAndEvents(r, M!Implied(r, rivals)), Len(M!Implied(r, rivals)))
  <2>1. PICK rivals \in M!SetToSeqs(M!Contradicted(r)) :
          /\ Supersedes[r] \in M!Known \cup {NoRec}
          /\ M!Begin(p, RecordAndEvents(r, M!Implied(r, rivals)), Len(M!Implied(r, rivals)))
    BY <1>2
  <2>2. M!Contradicted(r) \subseteq M!Known /\ M!Known \subseteq Recs
    BY FilesTyped DEF M!Contradicted
  <2>3. rivals \in Seq(M!Known)
    <3>1. IsFiniteSet(M!Contradicted(r))
      BY <2>2, RecordsAssumed, FS_Subset
    <3>2. rivals \in Seq(M!Contradicted(r))
      BY <3>1, Ordered
    <3> QED BY <2>2, <3>2
  <2>4. M!Implied(r, rivals) \in Seq([kind : M!Kinds, rec : M!Known \cup {r}, other : M!Known \cup {r}])
    BY <2>1, <2>2, <2>3, ImpliedNames
  <2>5. ids + Len(M!Implied(r, rivals)) <= MaxEvents /\ Len(M!Implied(r, rivals)) \in Nat
    BY <2>1, <2>4 DEF M!Begin
  <2>6. Fit(RecordAndEvents(r, M!Implied(r, rivals)))
    BY <2>4, <2>5, RecordAndEventsFit
  <2> QED BY <1>0, <2>1, <2>5, <2>6, BeginKeeps
<1> QED BY <1>1, <1>2 DEF M!Add, RecordAndEvents

LEMMA TwoRestAndLast ==
  ASSUME NEW S, NEW x \in S, NEW y \in S, NEW z \in S, NEW f \in Seq(S)
  PROVE  LET t == <<x, y>> \o f \o <<z>> IN
         /\ t \in Seq(S) /\ Len(t) = Len(f) + 3 /\ t[1] = x /\ t[2] = y /\ t[Len(f) + 3] = z
         /\ \A i \in 1..Len(f) : t[i + 2] = f[i]
<1>1. /\ <<x, y>> \o f \in Seq(S) /\ Len(<<x, y>> \o f) = Len(f) + 2 /\ Len(f) \in Nat
      /\ (<<x, y>> \o f)[1] = x /\ (<<x, y>> \o f)[2] = y
      /\ \A i \in 1..Len(f) : (<<x, y>> \o f)[i + 2] = f[i]
  OBVIOUS
<1> DEFINE g == <<x, y>> \o f
<1> HIDE DEF g
<1>2. /\ g \o <<z>> \in Seq(S) /\ Len(g \o <<z>>) = Len(g) + 1 /\ (g \o <<z>>)[Len(g) + 1] = z
      /\ \A i \in 1..Len(g) : (g \o <<z>>)[i] = g[i]
  <2>1. g \in Seq(S)
    BY <1>1 DEF g
  <2> QED BY <2>1
<1>3. g \in Seq(S) /\ Len(g) = Len(f) + 2 /\ g[1] = x /\ g[2] = y /\ \A i \in 1..Len(f) : g[i + 2] = f[i]
  BY <1>1 DEF g
<1>4. Len(g) + 1 = Len(f) + 3 /\ 1 \in 1..Len(g) /\ 2 \in 1..Len(g) /\ \A i \in 1..Len(f) : i + 2 \in 1..Len(g)
  BY <1>1, <1>3
<1>5. LET t == g \o <<z>> IN
      /\ t \in Seq(S) /\ Len(t) = Len(f) + 3 /\ t[1] = x /\ t[2] = y /\ t[Len(f) + 3] = z
      /\ \A i \in 1..Len(f) : t[i + 2] = f[i]
  BY <1>2, <1>3, <1>4
<1> QED BY <1>5 DEF g

\* A review, the page and the events that travel with it, then the index.
PageAndEvents(review, record, carried) ==
  <<[to |-> "events", what |-> review], [to |-> "page", what |-> record]>>
  \o [i \in 1..Len(carried) |->
        [to |-> "promoted", what |-> [carried[i] EXCEPT !.seq = M!NextSeq(promoted) + i - 1]]]
  \o <<[to |-> "build", what |-> NoRec]>>

LEMMA PageAndEventsFit ==
  ASSUME MemoryInv, NEW r \in M!LiveIds \ M!PromotedIds, NEW review \in M!Events, NEW record \in M!RecordLines,
         review.seq = M!NextSeq(events), review.rec = r, review.other = NoRec, record.id = r,
         M!Status(r, M!Known, M!KnownEvents \cup {review}) = "confirmed",
         NEW carried \in Seq(M!Events),
         \A i \in 1..Len(carried) : carried[i].rec \in M!PromotedIds \cup {r}
  PROVE  Fit(PageAndEvents(review, record, carried))
<1> DEFINE copy(i) == [carried[i] EXCEPT !.seq = M!NextSeq(promoted) + i - 1]
           f == [i \in 1..Len(carried) |-> [to |-> "promoted", what |-> copy(i)]]
           x == [to |-> "events", what |-> review]
           y == [to |-> "page", what |-> record]
           z == [to |-> "build", what |-> NoRec]
           t == PageAndEvents(review, record, carried)
<1>1. Len(carried) \in Nat /\ M!NextSeq(promoted) \in Nat
  BY FilesTyped
<1>2. x \in M!Writes /\ y \in M!Writes /\ z \in M!Writes
  BY DEF M!Writes
<1>3. ASSUME NEW i \in 1..Len(carried)
      PROVE  /\ copy(i) \in M!Events /\ copy(i).seq = M!NextSeq(promoted) + i - 1
             /\ copy(i).rec \in M!PromotedIds \cup {r}
  <2>1. carried[i] \in M!Events /\ M!NextSeq(promoted) + i - 1 \in Nat
    BY <1>1
  <2> QED BY <2>1 DEF M!Events
<1>4. f \in Seq(M!Writes) /\ Len(f) = Len(carried)
  <2>1. \A i \in 1..Len(carried) : [to |-> "promoted", what |-> copy(i)] \in M!Writes
    BY <1>3 DEF M!Writes
  <2> HIDE DEF copy
  <2>2. f \in [1..Len(carried) -> M!Writes]
    BY <2>1
  <2> QED BY <1>1, <2>2
<1>5. t = <<x, y>> \o f \o <<z>>
  BY DEF PageAndEvents
<1>6. /\ t \in Seq(M!Writes) /\ Len(t) = Len(carried) + 3
      /\ t[1] = x /\ t[2] = y /\ t[Len(carried) + 3] = z
      /\ \A i \in 1..Len(carried) : t[i + 2] = [to |-> "promoted", what |-> copy(i)]
  <2> HIDE DEF x, y, z, f, t
  <2>1. /\ t \in Seq(M!Writes) /\ Len(t) = Len(f) + 3 /\ t[1] = x /\ t[2] = y /\ t[Len(f) + 3] = z
        /\ \A i \in 1..Len(f) : t[i + 2] = f[i]
    BY <1>2, <1>4, <1>5, TwoRestAndLast
  <2> QED BY <1>4, <2>1 DEF f
<1>7. /\ t[1].to = "events" /\ t[1].what = review /\ t[2].to = "page" /\ t[2].what = record
      /\ t[Len(t)].to = "build"
      /\ \A i \in 3..(Len(t) - 1) :
           /\ t[i].to = "promoted" /\ t[i].what.seq = M!NextSeq(promoted) + i - 3
           /\ t[i].what.rec \in M!PromotedIds \cup {r}
  <2>1. ASSUME NEW i \in 3..(Len(t) - 1)
        PROVE  /\ t[i].to = "promoted" /\ t[i].what.seq = M!NextSeq(promoted) + i - 3
               /\ t[i].what.rec \in M!PromotedIds \cup {r}
    <3>1. i - 2 \in 1..Len(carried) /\ (i - 2) + 2 = i
      BY <1>1, <1>6
    <3>2. t[i] = [to |-> "promoted", what |-> copy(i - 2)]
      BY <1>6, <3>1
    <3>3. copy(i - 2).seq = M!NextSeq(promoted) + (i - 2) - 1
      BY <1>3, <3>1
    <3>4. copy(i - 2).rec \in M!PromotedIds \cup {r}
      BY <1>3, <3>1
    <3> HIDE DEF copy, t
    <3> QED BY <1>1, <3>1, <3>2, <3>3, <3>4
  <2>2. t[Len(t)] = z
    <3> HIDE DEF t, z
    <3> QED BY <1>6
  <2> QED BY <1>6, <2>1, <2>2
<1> HIDE DEF t, f, x, y, z, copy
<1>8. Len(t) \in Nat /\ Len(t) > 2
      /\ \A i \in 1..Len(t) : i \in {1, 2} \/ i \in 3..(Len(t) - 1) \/ i = Len(t)
  BY <1>1, <1>6
<1>9. Turns(t, M!NextSeq(records), "records")
  BY <1>7, <1>8 DEF Turns, Follows
<1>10. Turns(t, M!NextSeq(events), "events")
  <2> SUFFICES ASSUME NEW i \in 1..Len(t) PROVE Follows(t, i, M!NextSeq(events), "events")
    BY DEF Turns
  <2>1. CASE i = 1
    BY <1>7, <2>1 DEF Follows
  <2>2. CASE i # 1
    BY <1>7, <1>8, <2>2 DEF Follows
  <2> QED BY <2>1, <2>2
<1>11. Turns(t, M!NextSeq(promoted), "promoted")
  <2> SUFFICES ASSUME NEW i \in 1..Len(t) PROVE Follows(t, i, M!NextSeq(promoted), "promoted")
    BY DEF Turns
  <2>1. CASE i \notin 3..(Len(t) - 1)
    BY <1>7, <1>8, <2>1 DEF Follows
  <2>2. CASE i \in 3..(Len(t) - 1) /\ i = 3
    <3>1. t[3].what.seq = M!NextSeq(promoted)
      BY <1>1, <1>7, <2>2
    <3>2. \A j \in 1..(3 - 1) : t[j].to # "promoted"
      BY <1>7
    <3> QED BY <2>2, <3>1, <3>2 DEF Follows
  <2>3. CASE i \in 3..(Len(t) - 1) /\ i # 3
    <3>1. i - 1 \in 3..(Len(t) - 1) /\ i > 1
      BY <1>8, <2>3
    <3>2. t[i].what.seq = t[i - 1].what.seq + 1
      <4>1. /\ t[i].what.seq = M!NextSeq(promoted) + i - 3
            /\ t[i - 1].what.seq = M!NextSeq(promoted) + (i - 1) - 3
        BY <1>7, <2>3, <3>1
      <4> QED BY <1>1, <4>1
    <3> QED BY <1>7, <3>1, <3>2 DEF Follows
  <2> QED BY <2>1, <2>2, <2>3
<1>12. NamesKnown(t, M!Known, M!PromotedIds)
  <2>1. ASSUME NEW i \in 1..Len(t), t[i].to = "events"
        PROVE  {t[i].what.rec, t[i].what.other}
                 \subseteq M!Known \cup {NoRec} \cup {l.id : l \in Before(t, i, "records")}
    <3>1. i = 1
      BY <1>7, <1>8, <2>1
    <3> QED BY <1>7, <3>1 DEF M!Known
  <2>2. ASSUME NEW i \in 1..Len(t), t[i].to = "promoted"
        PROVE  t[i].what.rec \in M!PromotedIds \cup {l.id : l \in Before(t, i, "page")}
    <3>1. i \in 3..(Len(t) - 1)
      BY <1>7, <1>8, <2>2
    <3>2. 2 \in {k \in 1..(i - 1) : t[k].to = "page"}
      BY <1>7, <3>1
    <3>3. record \in Before(t, i, "page")
      BY <1>7, <3>2 DEF Before
    <3>4. r \in {l.id : l \in Before(t, i, "page")}
      BY <3>3
    <3> QED BY <1>7, <3>1, <3>4
  <2> QED BY <2>1, <2>2 DEF NamesKnown
<1>13. Judged(t, M!LiveIds, M!PromotedIds, M!Known, M!KnownEvents)
  <2> SUFFICES ASSUME NEW i \in 1..Len(t), t[i].to = "page"
               PROVE  /\ t[i].what.id \in M!LiveIds \ M!PromotedIds
                      /\ \A j \in 1..(i - 1) : t[j].to = "events"
                      /\ M!Status(t[i].what.id, M!Known, M!KnownEvents \cup Before(t, i, "events")) = "confirmed"
    BY DEF Judged
  <2>1. i = 2
    BY <1>7, <1>8
  <2>2. Before(t, 2, "events") = {review}
    BY <1>7 DEF Before
  <2>3. t[i].what.id = r /\ \A j \in 1..(i - 1) : t[j].to = "events"
    BY <1>7, <2>1
  <2>4. M!KnownEvents \cup Before(t, i, "events") = M!KnownEvents \cup {review}
    BY <2>1, <2>2
  <2> QED BY <2>3, <2>4
<1>14. t \in Seq(M!Writes)
  BY <1>6
<1> QED BY <1>9, <1>10, <1>11, <1>12, <1>13, <1>14 DEF Fit, t

LEMMA PromoteKeeps ==
  ASSUME MemoryInv, NEW p \in Procs, NEW r \in Recs, NEW strong \in BOOLEAN, M!Promote(p, r, strong)
  PROVE  MemoryInv'
<1> DEFINE review == M!NewEvent(1, M!NextSeq(events), "review", r, NoRec)
           record == CHOOSE line \in M!Lines(records) : line.id = r
<1>0. M!Locked(p)
  BY DEF M!Promote
<1>1. CASE M!Begin(p, <<>>, 0)
  BY <1>0, <1>1, NothingFits, BeginKeeps
<1>2. CASE /\ M!MayPromote(r, M!KnownEvents \cup {review})
           /\ \E carried \in M!SetToSeqs(M!Carried(r, review)) :
                M!Begin(p, PageAndEvents(review, record, carried), 1)
  <2>1. PICK carried \in M!SetToSeqs(M!Carried(r, review)) :
          M!Begin(p, PageAndEvents(review, record, carried), 1)
    BY <1>2
  <2>2. /\ r \in M!LiveIds \ M!PromotedIds
        /\ M!Status(r, M!Known, M!KnownEvents \cup {review}) = "confirmed"
    BY <1>2 DEF M!MayPromote
  <2>3. review \in M!Events /\ review.seq = M!NextSeq(events) /\ review.rec = r /\ review.other = NoRec
    <3>1. ids + 1 \in 1..MaxEvents
      BY <2>1, RecordsAssumed DEF M!Begin, MemoryInv, M!TypeOK
    <3> QED BY <3>1, FilesTyped DEF M!NewEvent, M!Events, M!Kinds
  <2>4. record \in M!RecordLines /\ record.id = r
    <3>1. \E line \in M!Lines(records) : line.id = r
      BY <2>2 DEF M!LiveIds
    <3> QED BY <3>1, FilesTyped
  <2> HIDE DEF review, record
  <2>5. /\ carried \in Seq(M!Events)
        /\ \A i \in 1..Len(carried) : carried[i].rec \in M!PromotedIds \cup {r}
    <3>1. M!Carried(r, review) \subseteq M!Lines(events) \cup {review}
      BY DEF M!Carried
    <3>2. IsFiniteSet(M!Lines(events) \cup {review})
      <4>1. IsFiniteSet(M!Lines(events))
        BY FilesFinite DEF MemoryInv, M!TypeOK
      <4> QED BY <4>1, FS_AddElement
    <3>3. carried \in Seq(M!Carried(r, review))
      BY <3>1, <3>2, FS_Subset, Ordered
    <3>4. \A e \in M!Carried(r, review) : e \in M!Events /\ e.rec \in M!PromotedIds \cup {r}
      BY <2>3, FilesTyped DEF M!Carried
    <3> QED BY <3>3, <3>4
  <2>6. Fit(PageAndEvents(review, record, carried))
    BY <2>2, <2>3, <2>4, <2>5, PageAndEventsFit
  <2> QED BY <1>0, <2>1, <2>6, BeginKeeps
<1> QED BY <1>1, <1>2 DEF M!Promote, PageAndEvents

-----------------------------------------------------------------------------
(* A command goes on, ends, or is killed *)

\* Nothing is written, and the writes left are those there were, or at most the index's.
LEMMA QuietCommand ==
  ASSUME MemoryInv, UNCHANGED <<records, events, page, promoted>>, M!TypeOK', Alone', FragmentsKnown',
         M!FragmentsHeld',
         \A p \in Procs : \/ todo'[p] = todo[p]
                          \/ \A i \in 1..Len(todo'[p]) : todo'[p][i].to \in AtIndex
  PROVE  MemoryInv'
<1>1. /\ M!Known' = M!Known /\ M!KnownEvents' = M!KnownEvents /\ M!LiveIds' = M!LiveIds
      /\ M!PromotedIds' = M!PromotedIds /\ FilesNumbered' /\ M!EventsNameKnown'
  BY DEF MemoryInv, M!Known, M!KnownEvents, M!LiveIds, M!PromotedIds, FilesNumbered, M!EventsNameKnown
<1>2. ASSUME NEW p \in Procs PROVE Fit(todo[p])'
  <2>1. todo'[p] \in Seq(M!Writes)
    BY DEF M!TypeOK
  <2>2. Fit(todo'[p])
    <3>1. CASE todo'[p] = todo[p]
      BY <3>1, FitAll
    <3>2. CASE \A i \in 1..Len(todo'[p]) : todo'[p][i].to \in AtIndex
      <4> HIDE DEF AtIndex
      <4> QED BY <2>1, <3>2, IdleFine DEF Fit
    <3> QED BY <3>1, <3>2
  <2> QED BY <1>1, <2>2 DEF Fit
<1> QED BY <1>1, <1>2, FitKeeps DEF MemoryInv

LEMMA HoldKeeps ==
  ASSUME MemoryInv, NEW p \in Procs, NEW h \in toHold[p], M!Hold(p, h)
  PROVE  MemoryInv'
<1>1. /\ UNCHANGED <<records, events, page, promoted, index, lock, busy, todo, ids, kills, clones>>
      /\ toHold' = [toHold EXCEPT ![p] = @ \ {h}] /\ quarantined' = quarantined \cup {h}
  BY DEF M!Hold, M!store
<1>2. M!TypeOK /\ toHold[p] \subseteq M!Held
  BY DEF MemoryInv, M!TypeOK
<1>3. M!TypeOK'
  <2>1. toHold' \in [Procs -> SUBSET M!Held] /\ quarantined' \subseteq M!Held
    BY <1>1, <1>2 DEF M!TypeOK
  <2> QED BY <1>1, <1>2, <2>1 DEF M!TypeOK
<1>4. \A q \in Procs : toHold'[q] = IF q = p THEN toHold[p] \ {h} ELSE toHold[q]
  BY <1>1, <1>2 DEF M!TypeOK
<1>5. Alone' /\ FragmentsKnown'
  BY <1>1, <1>4 DEF MemoryInv, Alone, FragmentsKnown, M!Fragments
<1>6. M!FragmentsHeld'
  BY <1>1 DEF MemoryInv, M!FragmentsHeld
<1> QED BY <1>1, <1>3, <1>5, <1>6, QuietCommand

LEMMA ReindexKeeps ==
  ASSUME MemoryInv, NEW p \in Procs, M!Reindex(p)
  PROVE  MemoryInv'
<1> DEFINE t == <<[to |-> "build", what |-> NoRec]>>
<1>1. /\ UNCHANGED <<records, events, quarantined, page, promoted, index, lock, toHold,
                     ids, kills, clones>>
      /\ p \notin busy /\ busy' = busy \cup {p} /\ todo' = [todo EXCEPT ![p] = t]
  BY DEF M!Reindex, M!live, M!store
<1>2. M!TypeOK /\ Alone /\ FragmentsKnown
  BY DEF MemoryInv
<1>3. t \in Seq(M!Writes) /\ \A i \in 1..Len(t) : t[i].to \in AtIndex
  <2>1. [to |-> "build", what |-> NoRec] \in M!Writes
    BY DEF M!Writes
  <2> QED BY <2>1 DEF AtIndex
<1> HIDE DEF t
<1>4. todo' \in [Procs -> Seq(M!Writes)] /\ \A q \in Procs : todo'[q] = IF q = p THEN t ELSE todo[q]
  BY <1>1, <1>2, <1>3 DEF M!TypeOK
<1>5. M!TypeOK'
  BY <1>1, <1>2, <1>4 DEF M!TypeOK
<1>6. Alone' /\ FragmentsKnown' /\ M!FragmentsHeld'
  BY <1>1, <1>2, <1>3, <1>4 DEF MemoryInv, Alone, FragmentsKnown, M!Fragments, M!FragmentsHeld
<1> QED BY <1>1, <1>3, <1>4, <1>5, <1>6, QuietCommand

LEMMA BuildTyped == \A rs, es : M!Build(rs, es) \in M!Indexes
BY DEF M!Build, M!Status, M!Statuses, M!Indexes

LEMMA ReadForIndexKeeps ==
  ASSUME MemoryInv, NEW p \in Procs, M!ReadForIndex(p)
  PROVE  MemoryInv'
<1> DEFINE t == <<[to |-> "index", what |-> M!Build(M!PromotedIds, M!Lines(promoted))]>>
<1>1. /\ UNCHANGED <<records, events, quarantined, page, promoted, index, lock, busy, toHold,
                     ids, kills, clones>>
      /\ todo[p] # <<>> /\ todo' = [todo EXCEPT ![p] = t]
  BY DEF M!ReadForIndex, M!live, M!store
<1>2. M!TypeOK /\ Alone /\ FragmentsKnown
  BY DEF MemoryInv
<1>3. t \in Seq(M!Writes) /\ \A i \in 1..Len(t) : t[i].to \in AtIndex
  <2>1. [to |-> "index", what |-> M!Build(M!PromotedIds, M!Lines(promoted))] \in M!Writes
    BY BuildTyped DEF M!Writes
  <2> QED BY <2>1 DEF AtIndex
<1> HIDE DEF t
<1>4. todo' \in [Procs -> Seq(M!Writes)] /\ \A q \in Procs : todo'[q] = IF q = p THEN t ELSE todo[q]
  BY <1>1, <1>2, <1>3 DEF M!TypeOK
<1>5. M!TypeOK'
  BY <1>1, <1>2, <1>4 DEF M!TypeOK
<1>6. Alone' /\ FragmentsKnown' /\ M!FragmentsHeld'
  BY <1>1, <1>2, <1>3, <1>4 DEF MemoryInv, Alone, FragmentsKnown, M!Fragments, M!FragmentsHeld
<1> QED BY <1>1, <1>3, <1>4, <1>5, <1>6, QuietCommand

LEMMA LeaveTyped ==
  ASSUME MemoryInv, NEW p \in Procs, M!Leave(p)
  PROVE  /\ busy' \subseteq Procs /\ lock' \in Procs \cup {NoProc}
         /\ toHold' \in [Procs -> SUBSET M!Held] /\ todo' \in [Procs -> Seq(M!Writes)]
         /\ \A q \in Procs : /\ todo'[q] = IF q = p THEN <<>> ELSE todo[q]
                             /\ toHold'[q] = IF q = p THEN {} ELSE toHold[q]
         /\ lock' # p /\ (lock' # NoProc => lock' = lock)
         /\ Alone'
<1>1. M!TypeOK /\ Alone /\ NoProc \notin Procs
  BY RecordsAssumed DEF MemoryInv
<1>2. <<>> \in Seq(M!Writes)
  OBVIOUS
<1>3. /\ toHold' \in [Procs -> SUBSET M!Held] /\ todo' \in [Procs -> Seq(M!Writes)]
      /\ \A q \in Procs : /\ todo'[q] = IF q = p THEN <<>> ELSE todo[q]
                          /\ toHold'[q] = IF q = p THEN {} ELSE toHold[q]
  BY <1>1, <1>2 DEF M!Leave, M!TypeOK
<1>4. /\ busy' \subseteq Procs /\ lock' \in Procs \cup {NoProc}
      /\ lock' # p /\ (lock' # NoProc => lock' = lock) /\ busy' = busy \ {p}
      /\ (lock = p \/ lock' = lock)
  BY <1>1 DEF M!Leave, M!TypeOK
<1>5. Alone'
  <2>1. lock' # NoProc => lock' \in busy'
    BY <1>1, <1>4 DEF Alone
  <2>2. \A q \in Procs : q \notin busy' => todo'[q] = <<>>
    BY <1>1, <1>3, <1>4 DEF Alone
  <2>3. ASSUME NEW q \in Procs, q # lock'
        PROVE  toHold'[q] = {} /\ \A i \in 1..Len(todo'[q]) : todo'[q][i].to \in AtIndex
    <3>1. CASE q = p
      BY <1>3, <3>1
    <3>2. CASE q # p
      BY <1>1, <1>3, <1>4, <2>3, <3>2 DEF Alone
    <3> QED BY <3>1, <3>2
  <2> QED BY <2>1, <2>2, <2>3 DEF Alone
<1> QED BY <1>3, <1>4, <1>5

\* Left without a write.
LEMMA LeaveKeeps ==
  ASSUME MemoryInv, NEW p \in Procs, M!Leave(p), UNCHANGED <<M!live, M!store, ids, clones>>,
         kills' \in 0..MaxKills
  PROVE  MemoryInv'
<1>1. UNCHANGED <<records, events, quarantined, page, promoted, index>>
  BY DEF M!live, M!store
<1>2. M!TypeOK'
  BY <1>1, LeaveTyped DEF MemoryInv, M!TypeOK
<1>3. FragmentsKnown' /\ M!FragmentsHeld'
  <2>1. \A q \in Procs : lock' = q => lock = q /\ toHold'[q] = toHold[q]
    BY LeaveTyped, RecordsAssumed
  <2> QED BY <1>1, <2>1 DEF MemoryInv, FragmentsKnown, M!Fragments, M!FragmentsHeld
<1>4. \A q \in Procs : \/ todo'[q] = todo[q]
                       \/ \A i \in 1..Len(todo'[q]) : todo'[q][i].to \in AtIndex
  BY LeaveTyped
<1> QED BY <1>1, <1>2, <1>3, <1>4, LeaveTyped, QuietCommand

LEMMA FreshCloneKeeps ==
  ASSUME MemoryInv, M!FreshClone
  PROVE  MemoryInv'
<1>1. /\ records' = <<>> /\ events' = <<>> /\ quarantined' = {} /\ busy = {}
      /\ UNCHANGED <<page, promoted, index, lock, busy, toHold, todo, ids, kills>>
  BY DEF M!FreshClone, M!store
<1>2. M!TypeOK'
  <2>1. clones' \in 0..MaxClones
    BY RecordsAssumed DEF M!FreshClone, MemoryInv, M!TypeOK
  <2>2. records' \in Seq(M!RecordLines \cup {Torn}) /\ events' \in Seq(M!Events \cup {Torn})
    BY <1>1
  <2> QED BY <1>1, <2>1, <2>2 DEF MemoryInv, M!TypeOK
<1>3. Alone' /\ \A p \in Procs : todo'[p] = <<>>
  BY <1>1 DEF MemoryInv, Alone
<1>4. lock' \notin Procs
  BY <1>1, RecordsAssumed DEF MemoryInv, M!TypeOK, Alone
<1>5. FragmentsKnown' /\ M!FragmentsHeld'
  <2>1. Len(<<>>) = 0
    OBVIOUS
  <2> QED BY <1>1, <1>4, <2>1 DEF FragmentsKnown, M!FragmentsHeld
<1>6. M!Lines(events)' = {} /\ M!PromotedIds' = M!PromotedIds
  BY <1>1 DEF M!Lines, M!Range, M!PromotedIds
<1>7. FilesNumbered' /\ M!EventsNameKnown'
  <2>1. NumbersOK(<<>>)
    BY DEF NumbersOK, M!Numbered, M!Rising, M!Gapless, Bounded, M!Lines, M!Range
  <2>2. M!EventsNameKnown'
    BY <1>1, <1>6 DEF MemoryInv, M!EventsNameKnown
  <2> QED BY <1>1, <2>1, <2>2 DEF MemoryInv, FilesNumbered
<1>8. ASSUME NEW p \in Procs PROVE Fit(todo[p])'
  <2>1. \A i \in 1..Len(<<>>) : <<>>[i].to \in AtIndex
    OBVIOUS
  <2>2. <<>> \in Seq(M!Writes)
    OBVIOUS
  <2> HIDE DEF AtIndex
  <2> QED BY <1>3, <2>1, <2>2, IdleFine DEF Fit
<1> QED BY <1>2, <1>3, <1>5, <1>7, <1>8, FitKeeps

-----------------------------------------------------------------------------
(* A command writes, or is killed while it does *)

\* One file after a write, and what is left to write of it.
LEMMA FileOn ==
  ASSUME NEW S \in {M!RecordLines, M!Events}, NEW f \in Seq(S \cup {Torn}), NumbersOK(f),
         NEW t \in Seq(M!Writes), t # <<>>, NEW name, Turns(t, M!NextSeq(f), name),
         t[1].to = name => t[1].what \in S
  PROVE  LET g == M!AppendTo(name, f, t[1], t[1].what) IN
         /\ g \in Seq(S \cup {Torn}) /\ NumbersOK(g) /\ Turns(Tail(t), M!NextSeq(g), name)
         /\ M!Lines(g) = M!Lines(f) \cup (IF t[1].to = name THEN {t[1].what} ELSE {})
         /\ t[1].to # name => g = f
<1> DEFINE w == t[1].what
           g == M!AppendTo(name, f, t[1], t[1].what)
<1>3. \A l \in S : l.seq \in Nat /\ l # Torn
  BY LineTyped
<1>1. CASE t[1].to = name
  <2>1. w \in S /\ w # Torn /\ w.seq \in Nat
    BY <1>1, <1>3
  <2>2. w.seq = M!NextSeq(f)
    <3>1. 1 \in 1..Len(t)
      BY TailOf
    <3>2. Follows(t, 1, M!NextSeq(f), name)
      BY <3>1 DEF Turns
    <3> QED BY <1>1, <3>2 DEF Follows
  <2>3. g = Append(f, w)
    BY <1>1 DEF M!AppendTo, M!Grown
  <2> HIDE DEF g
  <2>4. NumbersOK(g) /\ M!NextSeq(g) = w.seq + 1
    BY <2>1, <2>2, <2>3, <1>3, NumberedOn
  <2>5. g \in Seq(S \cup {Torn}) /\ M!Lines(g) = M!Lines(f) \cup {w}
    <3>1. {w} \ {Torn} = {w}
      BY <2>1
    <3>2. M!Lines(g) = M!Lines(f) \cup ({w} \ {Torn})
      BY <2>1, <2>3, LinesGrow
    <3> QED BY <2>1, <2>3, <3>1, <3>2
  <2>6. Turns(Tail(t), M!NextSeq(g), name)
    BY <1>1, <2>1, <2>2, <2>4, TurnsOn
  <2> QED BY <1>1, <2>4, <2>5, <2>6 DEF g
<1>2. CASE t[1].to # name
  <2>1. g = f
    BY <1>2 DEF M!AppendTo
  <2>2. M!NextSeq(f) \in Nat
    BY <1>3, FileTyped
  <2>3. Turns(Tail(t), M!NextSeq(f), name)
    BY <1>2, <2>2, TurnsOn
  <2> QED BY <1>2, <2>1, <2>3
<1> QED BY <1>1, <1>2

LEMMA TornOn ==
  ASSUME NEW S, \A l \in S : l.seq \in Nat, NEW f \in Seq(S \cup {Torn}), NumbersOK(f),
         NEW w, NEW name
  PROVE  LET g == M!AppendTo(name, f, w, Torn) IN
         /\ g \in Seq(S \cup {Torn}) /\ NumbersOK(g) /\ M!Lines(g) = M!Lines(f)
         /\ w.to # name => g = f
<1>1. CASE w.to = name
  <2>1. M!AppendTo(name, f, w, Torn) = Append(f, Torn)
    BY <1>1 DEF M!AppendTo, M!Grown
  <2>2. Append(f, Torn) \in Seq(S \cup {Torn})
    OBVIOUS
  <2> QED BY <1>1, <2>1, <2>2, FragmentOn
<1>2. CASE w.to # name
  <2>1. M!AppendTo(name, f, w, Torn) = f
    BY <1>2 DEF M!AppendTo
  <2> QED BY <2>1
<1> QED BY <1>1, <1>2

\* A line at the end leaves the lines before it, and their fragments, where they are.
LEMMA HeldOn ==
  ASSUME MemoryInv, NEW p \in Procs, M!Writing(p), todo[p][1].to \notin AtIndex, NEW a, NEW b,
         records' = IF todo[p][1].to = "records" THEN Append(records, a) ELSE records,
         events' = IF todo[p][1].to = "events" THEN Append(events, b) ELSE events,
         UNCHANGED quarantined
  PROVE  p = lock /\ M!Fragments \subseteq quarantined /\ M!FragmentsHeld'
<1>1. Len(todo[p]) \in Nat /\ Len(todo[p]) > 0 /\ Len(records) \in Nat /\ Len(events) \in Nat
  <2>1. todo[p] \in Seq(M!Writes) /\ todo[p] # <<>>
    BY DEF MemoryInv, M!TypeOK, M!Writing
  <2> QED BY <2>1, TailOf DEF MemoryInv, M!TypeOK
<1>2. p = lock
  BY <1>1 DEF MemoryInv, Alone
<1>3. M!Fragments \subseteq quarantined
  BY <1>2 DEF MemoryInv, FragmentsKnown, M!Writing
<1>4. ASSUME NEW i \in 1..Len(records') - 1, records'[i] = Torn
      PROVE  [file |-> "records", line |-> i] \in quarantined
  <2>1. i \in 1..Len(records) /\ records[i] = Torn
    BY <1>1, <1>4 DEF MemoryInv, M!TypeOK
  <2> QED BY <1>3, <2>1 DEF M!Fragments
<1>5. ASSUME NEW i \in 1..Len(events') - 1, events'[i] = Torn
      PROVE  [file |-> "events", line |-> i] \in quarantined
  <2>1. i \in 1..Len(events) /\ events[i] = Torn
    BY <1>1, <1>5 DEF MemoryInv, M!TypeOK
  <2> QED BY <1>3, <2>1 DEF M!Fragments
<1> QED BY <1>2, <1>3, <1>4, <1>5 DEF M!FragmentsHeld

\* What is at the head of the writes.
LEMMA HeadOf ==
  ASSUME MemoryInv, NEW p \in Procs, M!Writing(p)
  PROVE  LET t == todo[p]
             w == t[1] IN
         /\ t \in Seq(M!Writes) /\ t # <<>> /\ Head(t) = w /\ w \in M!Writes /\ 1 \in 1..Len(t)
         /\ Tail(t) \in Seq(M!Writes)
         /\ toHold[p] = {} /\ w.to # "build" /\ Fit(t)
         /\ w.to = "events" => {w.what.rec, w.what.other} \subseteq M!Known \cup {NoRec}
         /\ w.to = "promoted" => w.what.rec \in M!PromotedIds
         /\ w.to = "page" => /\ w.what.id \in M!LiveIds \ M!PromotedIds
                             /\ M!Status(w.what.id, M!Known, M!KnownEvents) = "confirmed"
<1> DEFINE t == todo[p]
           w == t[1]
<1>1. t \in Seq(M!Writes) /\ t # <<>> /\ toHold[p] = {} /\ Head(t).to # "build"
  BY DEF MemoryInv, M!TypeOK, M!Writing
<1>2. Head(t) = w /\ w \in M!Writes /\ 1 \in 1..Len(t) /\ Tail(t) \in Seq(M!Writes)
  BY <1>1, TailOf
<1>3. Fit(t)
  BY FitAll
<1>4. \A name : Before(t, 1, name) = {}
  BY DEF Before
<1> HIDE DEF t
<1>5. /\ w.to = "events" => {w.what.rec, w.what.other} \subseteq M!Known \cup {NoRec}
      /\ w.to = "promoted" => w.what.rec \in M!PromotedIds
  <2>1. NamesKnown(t, M!Known, M!PromotedIds)
    BY <1>3 DEF Fit
  <2> QED BY <1>2, <1>4, <2>1 DEF NamesKnown
<1>6. w.to = "page" => /\ w.what.id \in M!LiveIds \ M!PromotedIds
                       /\ M!Status(w.what.id, M!Known, M!KnownEvents) = "confirmed"
  <2>1. Judged(t, M!LiveIds, M!PromotedIds, M!Known, M!KnownEvents)
    BY <1>3 DEF Fit
  <2>2. M!KnownEvents \cup Before(t, 1, "events") = M!KnownEvents
    BY <1>4
  <2> QED BY <1>2, <2>1, <2>2 DEF Judged
<1> QED BY <1>1, <1>2, <1>3, <1>5, <1>6 DEF t

LEMMA WriteKeeps ==
  ASSUME MemoryInv, NEW p \in Procs, M!Write(p)
  PROVE  MemoryInv'
<1> DEFINE t == todo[p]
           w == t[1]
<1>1. /\ t \in Seq(M!Writes) /\ t # <<>> /\ Head(t) = w /\ w \in M!Writes /\ 1 \in 1..Len(t)
      /\ Tail(t) \in Seq(M!Writes)
      /\ toHold[p] = {} /\ w.to # "build" /\ Fit(t)
      /\ w.to = "events" => {w.what.rec, w.what.other} \subseteq M!Known \cup {NoRec}
      /\ w.to = "promoted" => w.what.rec \in M!PromotedIds
  BY HeadOf DEF M!Write
<1>2. /\ records' = M!AppendTo("records", records, w, w.what)
      /\ events' = M!AppendTo("events", events, w, w.what)
      /\ promoted' = M!AppendTo("promoted", promoted, w, w.what)
      /\ page' = IF w.to = "page"
                 THEN [page EXCEPT ![w.what.id] = [state |-> "whole", seq |-> w.what.seq]] ELSE page
      /\ index' = IF w.to = "index" THEN w.what ELSE index
      /\ todo' = [todo EXCEPT ![p] = Tail(t)]
      /\ UNCHANGED <<quarantined, lock, busy, toHold, ids, kills, clones>>
  BY <1>1 DEF M!Write
<1>3. M!TypeOK /\ Alone /\ FragmentsKnown /\ FilesNumbered /\ M!EventsNameKnown
  BY DEF MemoryInv
<1>4. /\ w.to \in {"records", "page"} => w.what \in M!RecordLines
      /\ w.to \in {"events", "promoted"} => w.what \in M!Events
      /\ w.to = "index" => w.what \in M!Indexes
  BY <1>1, WriteTyped
<1>5. /\ \A q \in Procs : todo'[q] = IF q = p THEN Tail(t) ELSE todo[q]
      /\ todo' \in [Procs -> Seq(M!Writes)]
  BY <1>1, <1>2, <1>3 DEF M!TypeOK
<1> HIDE DEF t
<1>6. /\ records' \in Seq(M!RecordLines \cup {Torn}) /\ NumbersOK(records')
      /\ Turns(Tail(t), M!NextSeq(records'), "records")
      /\ M!Lines(records') = M!Lines(records) \cup (IF w.to = "records" THEN {w.what} ELSE {})
      /\ w.to # "records" => records' = records
  <2>1. /\ records \in Seq(M!RecordLines \cup {Torn}) /\ NumbersOK(records)
        /\ Turns(t, M!NextSeq(records), "records")
    BY <1>1, <1>3 DEF M!TypeOK, FilesNumbered, Fit
  <2>2. (w.to = "records" => w.what \in M!RecordLines)
    BY <1>4
  <2>3. LET g == M!AppendTo("records", records, w, w.what) IN
        /\ g \in Seq(M!RecordLines \cup {Torn}) /\ NumbersOK(g) /\ Turns(Tail(t), M!NextSeq(g), "records")
        /\ M!Lines(g) = M!Lines(records) \cup (IF w.to = "records" THEN {w.what} ELSE {})
        /\ w.to # "records" => g = records
    BY <1>1, <2>1, <2>2, FileOn
  <2> QED BY <1>2, <2>3
<1>7. /\ events' \in Seq(M!Events \cup {Torn}) /\ NumbersOK(events')
      /\ Turns(Tail(t), M!NextSeq(events'), "events")
      /\ M!Lines(events') = M!Lines(events) \cup (IF w.to = "events" THEN {w.what} ELSE {})
      /\ w.to # "events" => events' = events
  <2>1. /\ events \in Seq(M!Events \cup {Torn}) /\ NumbersOK(events)
        /\ Turns(t, M!NextSeq(events), "events")
    BY <1>1, <1>3 DEF M!TypeOK, FilesNumbered, Fit
  <2>2. (w.to = "events" => w.what \in M!Events)
    BY <1>4
  <2>3. LET g == M!AppendTo("events", events, w, w.what) IN
        /\ g \in Seq(M!Events \cup {Torn}) /\ NumbersOK(g) /\ Turns(Tail(t), M!NextSeq(g), "events")
        /\ M!Lines(g) = M!Lines(events) \cup (IF w.to = "events" THEN {w.what} ELSE {})
        /\ w.to # "events" => g = events
    BY <1>1, <2>1, <2>2, FileOn
  <2> QED BY <1>2, <2>3
<1>8. /\ promoted' \in Seq(M!Events \cup {Torn}) /\ NumbersOK(promoted')
      /\ Turns(Tail(t), M!NextSeq(promoted'), "promoted")
      /\ M!Lines(promoted') = M!Lines(promoted) \cup (IF w.to = "promoted" THEN {w.what} ELSE {})
      /\ w.to # "promoted" => promoted' = promoted
  <2>1. /\ promoted \in Seq(M!Events \cup {Torn}) /\ NumbersOK(promoted)
        /\ Turns(t, M!NextSeq(promoted), "promoted")
    BY <1>1, <1>3 DEF M!TypeOK, FilesNumbered, Fit
  <2>2. (w.to = "promoted" => w.what \in M!Events)
    BY <1>4
  <2>3. LET g == M!AppendTo("promoted", promoted, w, w.what) IN
        /\ g \in Seq(M!Events \cup {Torn}) /\ NumbersOK(g) /\ Turns(Tail(t), M!NextSeq(g), "promoted")
        /\ M!Lines(g) = M!Lines(promoted) \cup (IF w.to = "promoted" THEN {w.what} ELSE {})
        /\ w.to # "promoted" => g = promoted
    BY <1>1, <2>1, <2>2, FileOn
  <2> QED BY <1>2, <2>3
<1>9. /\ M!LiveIds' = M!LiveIds \cup (IF w.to = "records" THEN {w.what.id} ELSE {})
      /\ M!PromotedIds' = M!PromotedIds \cup (IF w.to = "page" THEN {w.what.id} ELSE {})
      /\ M!Known' = M!Known \cup (IF w.to \in {"records", "page"} THEN {w.what.id} ELSE {})
      /\ M!KnownEvents' = M!KnownEvents \cup (IF w.to \in {"events", "promoted"} THEN {w.what} ELSE {})
  <2>1. M!LiveIds' = M!LiveIds \cup (IF w.to = "records" THEN {w.what.id} ELSE {})
    BY <1>6 DEF M!LiveIds
  <2>2. M!PromotedIds' = M!PromotedIds \cup (IF w.to = "page" THEN {w.what.id} ELSE {})
    <3>1. CASE w.to = "page"
      <4>1. w.what.id \in Recs
        BY <1>4, <3>1, LineTyped
      <4>2. \A r \in Recs : page'[r] = IF r = w.what.id THEN [state |-> "whole", seq |-> w.what.seq]
                                       ELSE page[r]
        BY <1>2, <1>3, <3>1 DEF M!TypeOK
      <4> QED BY <3>1, <4>1, <4>2 DEF M!PromotedIds
    <3>2. CASE w.to # "page"
      BY <1>2, <3>2 DEF M!PromotedIds
    <3> QED BY <3>1, <3>2
  <2>3. M!Known' = M!LiveIds' \cup M!PromotedIds'
    BY DEF M!Known
  <2>4. M!KnownEvents' = M!Lines(events') \cup M!Lines(promoted')
    BY DEF M!KnownEvents
  <2>5. M!KnownEvents' = M!KnownEvents \cup (IF w.to \in {"events", "promoted"} THEN {w.what} ELSE {})
    BY <1>7, <1>8, <2>4 DEF M!KnownEvents
  <2>6. M!Known' = M!Known \cup (IF w.to \in {"records", "page"} THEN {w.what.id} ELSE {})
    BY <2>1, <2>2, <2>3 DEF M!Known
  <2> QED BY <2>1, <2>2, <2>5, <2>6
<1>10. M!TypeOK'
  <2>1. page' \in [Recs -> [state : {"none", "torn", "whole"}, seq : Nat]]
    <3>1. CASE w.to = "page"
      <4>1. w.what.seq \in Nat
        BY <1>4, <3>1, LineTyped
      <4> QED BY <1>2, <1>3, <3>1, <4>1 DEF M!TypeOK
    <3> QED BY <1>2, <1>3, <3>1 DEF M!TypeOK
  <2>2. index' \in M!Indexes \cup {Torn}
    BY <1>2, <1>3, <1>4 DEF M!TypeOK
  <2> QED BY <1>2, <1>3, <1>5, <1>6, <1>7, <1>8, <2>1, <2>2 DEF M!TypeOK
<1>11. w.to \notin AtIndex => p = lock /\ M!Fragments \subseteq quarantined /\ M!FragmentsHeld'
  <2>1. /\ records' = IF w.to = "records" THEN Append(records, w.what) ELSE records
        /\ events' = IF w.to = "events" THEN Append(events, w.what) ELSE events
    BY <1>2 DEF M!AppendTo, M!Grown
  <2> QED BY <1>2, <2>1, HeldOn DEF M!Write, t
<1>12. w.to \in AtIndex => UNCHANGED <<records, events, page, promoted>>
  BY <1>2, <1>6, <1>7, <1>8 DEF AtIndex
<1>13. M!FragmentsHeld'
  <2>1. CASE w.to \in AtIndex
    BY <1>2, <1>12, <2>1 DEF MemoryInv, M!FragmentsHeld
  <2> QED BY <1>11, <2>1
<1>14. Alone'
  <2>1. ASSUME NEW i \in 1..Len(Tail(t)), p # lock
        PROVE  Tail(t)[i].to \in AtIndex
    <3>1. i + 1 \in 1..Len(t) /\ Tail(t)[i] = t[i + 1]
      BY <1>1, TailOf
    <3> QED BY <1>3, <2>1, <3>1 DEF Alone, t
  <2>2. p \in busy
    BY <1>1, <1>3 DEF Alone, t
  <2> QED BY <1>2, <1>3, <1>5, <2>1, <2>2 DEF Alone
<1>15. FragmentsKnown'
  <2>1. M!Fragments' \subseteq M!Fragments \cup (IF w.to \in AtIndex THEN {} ELSE quarantined)
    <3>1. CASE w.to \in AtIndex
      BY <1>12, <3>1 DEF M!Fragments
    <3>2. CASE w.to \notin AtIndex
      <4>1. ASSUME NEW i \in 1..Len(records'), records'[i] = Torn
            PROVE  i \in 1..Len(records) /\ records[i] = Torn
        <5>1. CASE w.to = "records"
          <6>1. w.what # Torn /\ records' = Append(records, w.what)
            BY <1>2, <1>4, <5>1, LineTyped DEF M!AppendTo, M!Grown
          <6> QED BY <1>3, <4>1, <6>1 DEF M!TypeOK
        <5> QED BY <1>6, <4>1, <5>1
      <4>2. ASSUME NEW i \in 1..Len(events'), events'[i] = Torn
            PROVE  i \in 1..Len(events) /\ events[i] = Torn
        <5>1. CASE w.to = "events"
          <6>1. w.what # Torn /\ events' = Append(events, w.what)
            BY <1>2, <1>4, <5>1, LineTyped DEF M!AppendTo, M!Grown
          <6> QED BY <1>3, <4>2, <6>1 DEF M!TypeOK
        <5> QED BY <1>7, <4>2, <5>1
      <4> QED BY <4>1, <4>2 DEF M!Fragments
    <3> QED BY <3>1, <3>2
  <2> QED BY <1>2, <1>3, <1>11, <2>1 DEF FragmentsKnown
<1>16. M!EventsNameKnown'
  <2>1. \A e \in M!Lines(events') : {e.rec, e.other} \subseteq M!Known' \cup {NoRec}
    BY <1>1, <1>3, <1>7, <1>9 DEF M!EventsNameKnown
  <2>2. \A e \in M!Lines(promoted') : e.rec \in M!PromotedIds'
    BY <1>1, <1>3, <1>8, <1>9 DEF M!EventsNameKnown
  <2> QED BY <2>1, <2>2 DEF M!EventsNameKnown
<1>17. FilesNumbered'
  BY <1>6, <1>7, <1>8 DEF FilesNumbered
<1>18. ASSUME NEW q \in Procs PROVE Fit(todo[q])'
  <2>1. CASE q = p
    <3>1. NamesKnown(Tail(t), M!Known', M!PromotedIds')
      <4>1. NamesKnown(t, M!Known, M!PromotedIds)
        BY <1>1 DEF Fit
      <4> QED BY <1>1, <1>9, <4>1, NamesOn
    <3>2. Judged(Tail(t), M!LiveIds', M!PromotedIds', M!Known', M!KnownEvents')
      <4>1. Judged(t, M!LiveIds, M!PromotedIds, M!Known, M!KnownEvents)
        BY <1>1 DEF Fit
      <4>2. w.to = "events" => /\ M!LiveIds' = M!LiveIds /\ M!PromotedIds' = M!PromotedIds
                               /\ M!Known' = M!Known /\ M!KnownEvents' = M!KnownEvents \cup {w.what}
        BY <1>9
      <4> QED BY <1>1, <4>1, <4>2, JudgedOn
    <3> QED BY <1>1, <1>5, <1>6, <1>7, <1>8, <2>1, <3>1, <3>2 DEF Fit
  <2>2. CASE q # p /\ w.to \in AtIndex
    <3>1. /\ M!Known' = M!Known /\ M!KnownEvents' = M!KnownEvents /\ M!LiveIds' = M!LiveIds
          /\ M!PromotedIds' = M!PromotedIds
      BY <1>12, <2>2 DEF M!Known, M!KnownEvents, M!LiveIds, M!PromotedIds
    <3>2. Fit(todo[q]) /\ todo'[q] = todo[q]
      BY <1>5, <2>2, FitAll
    <3> QED BY <1>12, <2>2, <3>1, <3>2 DEF Fit
  <2>3. CASE q # p /\ w.to \notin AtIndex
    <3>1. todo'[q] = todo[q] /\ todo[q] \in Seq(M!Writes)
      BY <1>3, <1>5, <2>3 DEF M!TypeOK
    <3>2. \A i \in 1..Len(todo[q]) : todo[q][i].to \in AtIndex
      BY <1>3, <1>11, <2>3 DEF Alone
    <3> HIDE DEF AtIndex
    <3> QED BY <3>1, <3>2, IdleFine DEF Fit
  <2> QED BY <2>1, <2>2, <2>3
<1> QED BY <1>10, <1>13, <1>14, <1>15, <1>16, <1>17, <1>18, FitKeeps

LEMMA TearKeeps ==
  ASSUME MemoryInv, NEW p \in Procs, M!Tear(p)
  PROVE  MemoryInv' /\ M!PromotedIds' = M!PromotedIds
<1> DEFINE w == todo[p][1]
<1>1. /\ Head(todo[p]) = w /\ w \in M!Writes /\ M!Writing(p)
      /\ w.to = "page" => w.what.id \notin M!PromotedIds
  BY HeadOf DEF M!Tear
<1>2. /\ records' = M!AppendTo("records", records, w, Torn)
      /\ events' = M!AppendTo("events", events, w, Torn)
      /\ promoted' = M!AppendTo("promoted", promoted, w, Torn)
      /\ page' = IF w.to = "page"
                 THEN [page EXCEPT ![w.what.id] = [state |-> "torn", seq |-> 0]] ELSE page
      /\ index' = IF w.to = "index" THEN Torn ELSE index
      /\ M!Leave(p) /\ kills' \in 0..MaxKills
      /\ UNCHANGED <<quarantined, ids, clones>>
  <2>1. kills' \in 0..MaxKills
    BY RecordsAssumed DEF M!Tear, MemoryInv, M!TypeOK
  <2> QED BY <1>1, <2>1 DEF M!Tear
<1> HIDE DEF w
<1>3. M!TypeOK /\ Alone /\ FragmentsKnown /\ FilesNumbered /\ M!EventsNameKnown
  BY DEF MemoryInv
<1>4. /\ records' \in Seq(M!RecordLines \cup {Torn}) /\ NumbersOK(records') /\ M!Lines(records') = M!Lines(records)
      /\ w.to # "records" => records' = records
  <2>1. records \in Seq(M!RecordLines \cup {Torn}) /\ NumbersOK(records)
    BY <1>3 DEF M!TypeOK, FilesNumbered
  <2> QED BY <1>2, <2>1, TornOn, LineTyped
<1>5. /\ events' \in Seq(M!Events \cup {Torn}) /\ NumbersOK(events') /\ M!Lines(events') = M!Lines(events)
      /\ w.to # "events" => events' = events
  <2>1. events \in Seq(M!Events \cup {Torn}) /\ NumbersOK(events)
    BY <1>3 DEF M!TypeOK, FilesNumbered
  <2> QED BY <1>2, <2>1, TornOn, LineTyped
<1>6. /\ promoted' \in Seq(M!Events \cup {Torn}) /\ NumbersOK(promoted')
      /\ M!Lines(promoted') = M!Lines(promoted)
      /\ w.to # "promoted" => promoted' = promoted
  <2>1. promoted \in Seq(M!Events \cup {Torn}) /\ NumbersOK(promoted)
    BY <1>3 DEF M!TypeOK, FilesNumbered
  <2> QED BY <1>2, <2>1, TornOn, LineTyped
<1>7. page' \in [Recs -> [state : {"none", "torn", "whole"}, seq : Nat]] /\ M!PromotedIds' = M!PromotedIds
  <2>1. CASE w.to = "page"
    <3>1. w.what.id \in Recs
      BY <1>1, <2>1, WriteTyped, LineTyped
    <3>2. \A r \in Recs : page'[r] = IF r = w.what.id THEN [state |-> "torn", seq |-> 0] ELSE page[r]
      BY <1>2, <1>3, <2>1 DEF M!TypeOK
    <3>3. page' \in [Recs -> [state : {"none", "torn", "whole"}, seq : Nat]]
      BY <1>2, <1>3, <2>1 DEF M!TypeOK
    <3> QED BY <1>1, <2>1, <3>1, <3>2, <3>3 DEF M!PromotedIds
  <2>2. CASE w.to # "page"
    BY <1>2, <1>3, <2>2 DEF M!TypeOK, M!PromotedIds
  <2> QED BY <2>1, <2>2
<1>8. M!TypeOK'
  BY <1>2, <1>3, <1>4, <1>5, <1>6, <1>7, LeaveTyped DEF M!TypeOK
<1>9. w.to \notin AtIndex => p = lock /\ M!FragmentsHeld'
  <2>1. /\ records' = IF w.to = "records" THEN Append(records, Torn) ELSE records
        /\ events' = IF w.to = "events" THEN Append(events, Torn) ELSE events
    BY <1>2 DEF M!AppendTo, M!Grown
  <2> QED BY <1>1, <1>2, <2>1, HeldOn DEF w
<1>10. w.to \in AtIndex => UNCHANGED <<records, events>>
  BY <1>4, <1>5 DEF AtIndex
<1>11. M!FragmentsHeld'
  <2>1. CASE w.to \in AtIndex
    BY <1>2, <1>10, <2>1 DEF MemoryInv, M!FragmentsHeld
  <2> QED BY <1>9, <2>1
<1>12. FragmentsKnown'
  <2> SUFFICES ASSUME NEW q \in Procs, lock' = q PROVE (M!Fragments \subseteq quarantined \cup toHold[q])'
    BY DEF FragmentsKnown
  <2>1. lock = q /\ q # p /\ toHold'[q] = toHold[q]
    BY <1>2, LeaveTyped, RecordsAssumed
  <2>2. UNCHANGED <<records, events, quarantined>>
    BY <1>2, <1>9, <1>10, <2>1
  <2> QED BY <1>3, <2>1, <2>2 DEF FragmentsKnown, M!Fragments
<1>13. M!EventsNameKnown' /\ FilesNumbered'
  <2>1. M!Known' = M!Known
    BY <1>4, <1>7 DEF M!Known, M!LiveIds
  <2>2. M!EventsNameKnown'
    <3>1. M!Lines(events)' = M!Lines(events) /\ M!Lines(promoted)' = M!Lines(promoted)
      BY <1>5, <1>6
    <3> QED BY <1>3, <1>7, <2>1, <3>1 DEF M!EventsNameKnown
  <2> QED BY <1>4, <1>5, <1>6, <2>2 DEF FilesNumbered
<1>14. ASSUME NEW q \in Procs PROVE Fit(todo[q])'
  <2>1. todo'[q] \in Seq(M!Writes)
    BY <1>8 DEF M!TypeOK
  <2>2. CASE q # p /\ w.to \in AtIndex
    <3>1. UNCHANGED <<records, events, promoted>>
      <4>1. w.to \notin {"records", "events", "promoted"}
        BY <2>2 DEF AtIndex
      <4> QED BY <1>4, <1>5, <1>6, <4>1
    <3>2. /\ M!Known' = M!Known /\ M!KnownEvents' = M!KnownEvents /\ M!LiveIds' = M!LiveIds
          /\ M!PromotedIds' = M!PromotedIds
      BY <1>7, <3>1 DEF M!Known, M!KnownEvents, M!LiveIds
    <3>3. Fit(todo[q]) /\ todo'[q] = todo[q]
      BY <1>2, <2>2, FitAll, LeaveTyped
    <3> QED BY <3>1, <3>2, <3>3 DEF Fit
  <2>3. CASE q = p \/ w.to \notin AtIndex
    <3>1. \A i \in 1..Len(todo'[q]) : todo'[q][i].to \in AtIndex
      <4>1. CASE q = p
        BY <1>2, <4>1, LeaveTyped
      <4>2. CASE q # p
        BY <1>2, <1>3, <1>9, <2>3, <4>2, LeaveTyped DEF Alone
      <4> QED BY <4>1, <4>2
    <3> HIDE DEF AtIndex
    <3> QED BY <2>1, <3>1, IdleFine DEF Fit
  <2> QED BY <2>2, <2>3
<1> QED BY <1>2, <1>7, <1>8, <1>11, <1>12, <1>13, <1>14, LeaveTyped, FitKeeps

-----------------------------------------------------------------------------
(* Every step *)

LEMMA MemoryStarts == M!Init => MemoryInv
<1> SUFFICES ASSUME M!Init PROVE MemoryInv
  OBVIOUS
<1>1. /\ records = <<>> /\ events = <<>> /\ promoted = <<>> /\ quarantined = {}
      /\ page = [r \in Recs |-> [state |-> "none", seq |-> 0]] /\ index = [r \in Recs |-> "none"]
      /\ lock = NoProc /\ busy = {}
      /\ toHold = [p \in Procs |-> {}] /\ todo = [p \in Procs |-> <<>>]
      /\ ids = 0 /\ kills = 0 /\ clones = 0
  BY DEF M!Init
<1>2. NoProc \notin Procs /\ Len(<<>>) = 0
  BY RecordsAssumed
<1>3. M!TypeOK
  <2>1. <<>> \in Seq(M!RecordLines \cup {Torn}) /\ <<>> \in Seq(M!Events \cup {Torn}) /\ <<>> \in Seq(M!Writes)
    OBVIOUS
  <2>2. index \in M!Indexes
    BY <1>1 DEF M!Indexes
  <2> QED BY <1>1, <2>1, <2>2, RecordsAssumed DEF M!TypeOK
<1>4. M!Lines(<<>>) = {} /\ NumbersOK(<<>>)
  BY DEF NumbersOK, M!Numbered, M!Rising, M!Gapless, Bounded, M!Lines, M!Range
<1>5. Alone /\ FragmentsKnown /\ M!FragmentsHeld
  BY <1>1, <1>2 DEF Alone, FragmentsKnown, M!FragmentsHeld
<1>6. FilesNumbered /\ M!EventsNameKnown
  BY <1>1, <1>4 DEF FilesNumbered, M!EventsNameKnown
<1>7. \A p \in Procs : Fit(todo[p])
  BY <1>1, NothingFits
<1> QED BY <1>3, <1>5, <1>6, <1>7 DEF MemoryInv, InTurn, NamesThen, ConfirmedThen, Fit

LEMMA MemorySteps == MemoryInv /\ [M!Next]_(M!vars) => MemoryInv'
<1> SUFFICES ASSUME MemoryInv, [M!Next]_(M!vars) PROVE MemoryInv'
  OBVIOUS
<1>1. ASSUME NEW p \in Procs, NEW r \in Recs, M!Add(p, r) PROVE MemoryInv'
  BY <1>1, AddKeeps
<1>2. ASSUME NEW p \in Procs, NEW kind \in EventKinds, NEW r \in Recs, NEW o \in Recs \cup {NoRec},
             M!AppendEvent(p, kind, r, o)
      PROVE  MemoryInv'
  BY <1>2, AppendEventKeeps
<1>3. ASSUME NEW p \in Procs, NEW r \in Recs, NEW strong \in BOOLEAN, M!Promote(p, r, strong)
      PROVE  MemoryInv'
  BY <1>3, PromoteKeeps
<1>4. ASSUME NEW p \in Procs, NEW h \in toHold[p], M!Hold(p, h) PROVE MemoryInv'
  BY <1>4, HoldKeeps
<1>5. ASSUME NEW p \in Procs, M!Reindex(p) PROVE MemoryInv'
  BY <1>5, ReindexKeeps
<1>6. ASSUME NEW p \in Procs, M!ReadForIndex(p) PROVE MemoryInv'
  BY <1>6, ReadForIndexKeeps
<1>7. ASSUME NEW p \in Procs, M!Write(p) PROVE MemoryInv'
  BY <1>7, WriteKeeps
<1>8. ASSUME NEW p \in Procs, M!Finish(p) PROVE MemoryInv'
  BY <1>8, LeaveKeeps DEF M!Finish, MemoryInv, M!TypeOK
<1>9. ASSUME NEW p \in Procs, M!Kill(p) PROVE MemoryInv'
  <2>1. kills' \in 0..MaxKills
    BY <1>9, RecordsAssumed DEF M!Kill, MemoryInv, M!TypeOK
  <2> QED BY <1>9, <2>1, LeaveKeeps DEF M!Kill
<1>10. ASSUME NEW p \in Procs, M!Tear(p) PROVE MemoryInv'
  BY <1>10, TearKeeps
<1>11. CASE M!FreshClone
  BY <1>11, FreshCloneKeeps
<1>12. CASE UNCHANGED M!vars
  <2>1. UNCHANGED <<records, events, quarantined, page, promoted, index, lock, busy, toHold, todo,
                    ids, kills, clones>>
    BY <1>12 DEF M!vars, M!live, M!store
  <2>2. M!TypeOK' /\ Alone' /\ FragmentsKnown' /\ M!FragmentsHeld'
    BY <2>1 DEF MemoryInv, M!TypeOK, Alone, FragmentsKnown, M!Fragments, M!FragmentsHeld
  <2> QED BY <2>1, <2>2, QuietCommand
<1> QED BY <1>1, <1>2, <1>3, <1>4, <1>5, <1>6, <1>7, <1>8, <1>9, <1>10, <1>11, <1>12 DEF M!Next

\* Only the write of a page promotes.
LEMMA StepPromotes ==
  MemoryInv /\ [M!Next]_(M!vars) =>
    \A r \in M!PromotedIds' \ M!PromotedIds :
      r \in M!LiveIds /\ M!Status(r, M!Known, M!KnownEvents) = "confirmed"
<1> SUFFICES ASSUME MemoryInv, [M!Next]_(M!vars), NEW r \in M!PromotedIds' \ M!PromotedIds
             PROVE  r \in M!LiveIds /\ M!Status(r, M!Known, M!KnownEvents) = "confirmed"
  OBVIOUS
<1>1. page' # page
  BY DEF M!PromotedIds
<1>2. PICK p \in Procs : M!Write(p) \/ M!Tear(p)
  <2>1. ASSUME NEW p \in Procs, NEW writes, NEW n, M!Begin(p, writes, n) PROVE FALSE
    BY <1>1, <2>1 DEF M!Begin, M!store
  <2>2. ASSUME NEW p \in Procs, NEW q \in Recs, M!Add(p, q) PROVE FALSE
    BY <2>1, <2>2 DEF M!Add
  <2>3. ASSUME NEW p \in Procs, NEW kind \in EventKinds, NEW q \in Recs, NEW o \in Recs \cup {NoRec},
               M!AppendEvent(p, kind, q, o)
        PROVE  FALSE
    BY <2>1, <2>3 DEF M!AppendEvent
  <2>4. ASSUME NEW p \in Procs, NEW q \in Recs, NEW strong \in BOOLEAN, M!Promote(p, q, strong)
        PROVE  FALSE
    BY <2>1, <2>4 DEF M!Promote
  <2>5. ASSUME NEW p \in Procs, \/ \E h \in toHold[p] : M!Hold(p, h)
                               \/ M!Reindex(p) \/ M!ReadForIndex(p) \/ M!Finish(p) \/ M!Kill(p)
        PROVE  FALSE
    BY <1>1, <2>5 DEF M!Hold, M!Reindex, M!ReadForIndex, M!Finish, M!Kill, M!store
  <2>6. ~M!FreshClone /\ ~UNCHANGED M!vars
    BY <1>1 DEF M!FreshClone, M!vars, M!store
  <2> QED BY <2>2, <2>3, <2>4, <2>5, <2>6 DEF M!Next
<1>3. M!Write(p)
  BY <1>2, TearKeeps
<1> DEFINE w == todo[p][1]
<1>4. w.to = "page" /\ page' = [page EXCEPT ![w.what.id] = [state |-> "whole", seq |-> w.what.seq]]
  BY <1>1, <1>3, HeadOf DEF M!Write
<1>5. r = w.what.id
  <2>1. \A q \in Recs : q # w.what.id => page'[q] = page[q]
    BY <1>4 DEF MemoryInv, M!TypeOK
  <2> QED BY <2>1 DEF M!PromotedIds
<1> QED BY <1>3, <1>4, <1>5, HeadOf DEF M!Write

LEMMA MemoryKept == M!Spec => []MemoryInv
BY MemoryStarts, MemorySteps, PTL DEF M!Spec

LEMMA JournalsKept == M!Spec => []M!JournalsAreTrue
<1>1. MemoryInv => M!JournalsAreTrue
  BY DEF MemoryInv, M!JournalsAreTrue, M!SequencesDense, FilesNumbered, NumbersOK
<1> QED BY <1>1, MemoryKept, PTL

LEMMA PromotionKept == M!Spec => M!PromotedWhenConfirmed
<1>1. MemoryInv /\ [M!Next]_(M!vars) =>
        [\A r \in M!PromotedIds' \ M!PromotedIds :
           r \in M!LiveIds /\ M!Status(r, M!Known, M!KnownEvents) = "confirmed"]_(M!vars)
  BY StepPromotes
<1> QED BY <1>1, MemoryKept, PTL DEF M!Spec, M!PromotedWhenConfirmed

-----------------------------------------------------------------------------
(* The repository *)

\* append_line, promote and quarantine of memory.py, for any commands, records, events,
\* kills and clones: no number is given twice or left out, no fragment is written past
\* without being held, and every event names what its readers find.
THEOREM JournalsHold == RepositorySpec => []JournalsAreTrue
<1>1. M!JournalsAreTrue => JournalsAreTrue
  BY DEF JournalsAreTrue
<1> QED BY <1>1, PartsAreThemselves, JournalsKept, PTL

\* promote of memory.py: a record is confirmed by both stores at the moment its page is
\* written, though it was judged some writes before.
THEOREM PromotionIsEarned == RepositorySpec => PromotedWhenConfirmed
BY PartsAreThemselves, PromotionKept DEF PromotedWhenConfirmed

-----------------------------------------------------------------------------
(* The decisions: histories *)

\* What is so at first, and stays so at each step, is so at every step.
LEMMA Throughout ==
  ASSUME NEW n \in Nat, NEW P, 0 \in P, \A i \in 1..n : i - 1 \in P => i \in P
  PROVE  \A i \in 0..n : i \in P
<1> SUFFICES ASSUME NEW k \in 0..n, k \notin P PROVE FALSE
  OBVIOUS
<1> DEFINE S == {n - i : i \in (0..n) \ P}
<1>1. S \in SUBSET (0..n) /\ S # {}
  OBVIOUS
<1>2. PICK x \in S : \A y \in S : x >= y
  <2> HIDE DEF S
  <2> QED BY <1>1, Greatest
<1>3. PICK i \in (0..n) \ P : x = n - i
  OBVIOUS
<1>4. i \in 1..n /\ i - 1 \in 0..n
  OBVIOUS
<1>5. i - 1 \in P
  <2> SUFFICES ASSUME i - 1 \notin P PROVE FALSE
    OBVIOUS
  <2>1. n - (i - 1) \in S
    BY <1>4
  <2>2. x >= n - (i - 1)
    BY <1>2, <2>1
  <2> QED BY <2>2, <1>3, <1>4
<1> QED BY <1>4, <1>5

\* A history of n steps, each of which F gives.
Unfolds(g, n, S, start, F) ==
  g \in [0..n -> S] /\ g[0] = start /\ \A i \in 1..n : g[i] = F[i][g[i - 1]]

LEMMA History ==
  ASSUME NEW n \in Nat, NEW S, NEW start \in S, NEW F \in [1..n -> [S -> S]]
  PROVE  \E g : Unfolds(g, n, S, start, F)
<1> DEFINE Upto(g, k) == g[0] = start /\ \A i \in 1..k : g[i] = F[i][g[i - 1]]
           P == {k \in 0..n : \E g \in [0..k -> S] : Upto(g, k)}
<1>1. 0 \in P
  <2> Upto([i \in 0..0 |-> start], 0) /\ [i \in 0..0 |-> start] \in [0..0 -> S]
    OBVIOUS
  <2> HIDE DEF Upto
  <2> QED OBVIOUS
<1>2. ASSUME NEW k \in 1..n, k - 1 \in P PROVE k \in P
  <2>1. PICK g \in [0..(k - 1) -> S] : Upto(g, k - 1)
    BY <1>2
  <2> DEFINE h == [i \in 0..k |-> IF i = k THEN F[k][g[k - 1]] ELSE g[i]]
  <2>2. F[k][g[k - 1]] \in S
    OBVIOUS
  <2>3. h \in [0..k -> S]
    BY <2>2
  <2>4. Upto(h, k)
    <3>1. h[0] = start
      BY <2>1
    <3>2. ASSUME NEW i \in 1..k PROVE h[i] = F[i][h[i - 1]]
      <4>1. CASE i = k
        BY <4>1
      <4>2. CASE i # k
        <5> i \in 1..(k - 1) /\ i - 1 \in 0..(k - 1) /\ i - 1 # k
          BY <4>2
        <5> QED BY <2>1, <4>2
      <4> QED BY <4>1, <4>2
    <3> QED BY <3>1, <3>2
  <2> HIDE DEF Upto, h
  <2> QED BY <2>3, <2>4
<1>3. n \in P
  <2> HIDE DEF P
  <2>1. \A i \in 0..n : i \in P
    BY <1>1, <1>2, Throughout
  <2> QED BY <2>1
<1> QED BY <1>3 DEF Unfolds

-----------------------------------------------------------------------------
(* Receipts *)

\* A receipt that verifies and is not main's is the runner's word on the head's tree.
LEMMA VerifiedIsJudged ==
  ASSUME NEW pr, Judging!WellFormed(pr), NEW f \in pr.files,
         Judging!Verified(pr, f), ~Judging!Held(pr, f)
  PROVE  Judging!Judged(pr, f.folder, f.receipt.stage)
<1>1. /\ f.receipt.signed /\ f.receipt.passed /\ f.receipt.order = f.folder
      /\ f.receipt.revision \in 1..Judging!Tip(pr)
      /\ f.receipt.revision \notin {Judging!Fork, Judging!Ahead}
      /\ pr.trees[f.receipt.revision] = pr.trees[Judging!Tip(pr)]
  BY DEF Judging!Verified, Judging!InHead, Judging!OnBase, Judging!SameBesidesReceipts,
         Judging!Expected
<1>2. f.receipt.revision \in 2..Judging!Tip(pr)
  <2> Judging!Tip(pr) \in Nat
    BY DEF Judging!WellFormed
  <2> QED BY <1>1 DEF Judging!Fork
<1> QED BY <1>1, <1>2 DEF Judging!Judged

LEMMA PassesMeans ==
  ASSUME NEW pr \in PullRequests
  PROVE  Judging!ReceiptsAreOfTheHead(pr, Judging!Passes(pr))
<1> SUFFICES ASSUME Judging!Passes(pr)
             PROVE  Judging!ReceiptsAreOfTheHead(pr, TRUE)
  BY DEF Judging!ReceiptsAreOfTheHead
<1> USE DEF Judging!Passes
<1>1. Judging!WellFormed(pr)
  BY PullRequestsAssumption
<1>2. ASSUME NEW f \in pr.files PROVE f.receipt.signed /\ f.receipt.order = f.folder
  BY DEF Judging!Verified
<1> DEFINE head == Judging!Tip(pr)
           OfOrder(o, commit, files) ==
             <<pr.trees[commit].orders[o], {f \in files : f.folder = o}>>
<1>3. ASSUME NEW o \in DOMAIN pr.trees[head].orders,
             pr.trees[head].orders[o] # 0, o \notin pr.reference,
             OfOrder(o, head, pr.files) # OfOrder(o, Judging!Fork, pr.forked),
             NEW stage \in pr.required
      PROVE  Judging!Judged(pr, o, stage)
  <2>1. o \in Judging!OrdersChanged(pr)
    <3>1. DOMAIN pr.trees[head].orders = DOMAIN pr.trees[Judging!Fork].orders
      BY <1>1 DEF Judging!WellFormed
    <3> QED BY <1>3, <3>1 DEF Judging!OrdersChanged
  <2>2. stage \notin Judging!Missing(pr, o)
    BY <2>1
  <2>3. PICK f \in pr.files : /\ Judging!Verified(pr, f) /\ ~Judging!Held(pr, f)
                              /\ f.folder = o /\ f.receipt.stage = stage
    BY <2>2 DEF Judging!Missing
  <2> QED BY <1>1, <2>3, VerifiedIsJudged
<1> QED BY <1>2, <1>3 DEF Judging!ReceiptsAreOfTheHead

-----------------------------------------------------------------------------
(* Standards *)

\* What main is, change by change.
LEMMA MergedSteps ==
  ASSUME NEW n \in Nat, NEW changes, Len(changes) = n, NEW start
  PROVE  LET main == Law!Merged(start, changes) IN
         /\ main[0] = start
         /\ \A i \in 1..n : main[i] = IF Law!Passes(main[i - 1], changes[i].tree, changes[i].day)
             THEN changes[i].tree ELSE main[i - 1]
<1> DEFINE Then(i, t) == IF Law!Passes(t, changes[i].tree, changes[i].day)
             THEN changes[i].tree ELSE t
           S == {start} \cup {changes[i].tree : i \in 1..n}
           F == [i \in 1..n |-> [t \in S |-> Then(i, t)]]
<1> HIDE DEF Then
<1>1. \A i \in 1..n, t \in S : Then(i, t) \in S
  BY DEF Then
<1>2. F \in [1..n -> [S -> S]]
  BY <1>1
<1>3. start \in S
  OBVIOUS
<1>4. PICK g : Unfolds(g, n, S, start, F)
  <2> HIDE DEF F, S
  <2> QED BY <1>2, <1>3, History
<1> DEFINE Is(f) == f = [i \in 0..n |-> IF i = 0 THEN start ELSE Then(i, f[i - 1])]
<1>5. Is(g)
  <2>1. \A i \in 1..n : g[i - 1] \in S /\ F[i][g[i - 1]] = Then(i, g[i - 1])
    BY <1>4 DEF Unfolds
  <2> HIDE DEF F, S
  <2> QED BY <1>4, <2>1 DEF Unfolds
<1>6. Law!Merged(start, changes) = CHOOSE f : Is(f)
  BY DEF Law!Merged, Then
<1>7. Is(Law!Merged(start, changes))
  <2> HIDE DEF Is
  <2> QED BY <1>5, <1>6
<1> QED BY <1>7 DEF Then

\* Of two values of a key, the stricter keeps both.
LEMMA StricterKeeps ==
  ASSUME NEW key \in Law!Keys, NEW a \in Law!Values(key), NEW b \in Law!Values(key)
  PROVE  /\ Law!Stricter(key, a, b) \in Law!Values(key)
         /\ Law!Keeps(key, Law!Stricter(key, a, b), a)
         /\ Law!Keeps(key, Law!Stricter(key, a, b), b)
<1> USE DEF Law!Values, Law!Stricter, Law!Keeps
<1>1. CASE Kind[key] = "bool"
  BY <1>1, StandardsAssumption DEF Law!RulesAssumption
<1>2. CASE Kind[key] = "set"
  BY <1>2
<1>3. CASE Kind[key] = "max"
  BY <1>3
<1>4. CASE Kind[key] \notin {"bool", "set", "max"}
  BY <1>4
<1> QED BY <1>1, <1>2, <1>3, <1>4

LEMMA KeepsOn ==
  ASSUME NEW key \in Law!Keys, NEW a \in Law!Values(key), NEW b \in Law!Values(key),
         NEW c \in Law!Values(key)
  PROVE  /\ Law!Keeps(key, a, a)
         /\ Law!Keeps(key, b, a) /\ Law!Keeps(key, c, b) => Law!Keeps(key, c, a)
         /\ ~Law!Looser(key, b, a) => Law!Keeps(key, b, a)
<1> USE DEF Law!Values, Law!Stricter, Law!Keeps, Law!Looser
<1>1. CASE Kind[key] = "bool"
  BY <1>1, StandardsAssumption DEF Law!RulesAssumption
<1>2. CASE Kind[key] = "set"
  BY <1>2
<1>3. CASE Kind[key] = "max"
  BY <1>3
<1>4. CASE Kind[key] \notin {"bool", "set", "max"}
  BY <1>4
<1> QED BY <1>1, <1>2, <1>3, <1>4

\* What one setting asks another asks too.
AsksAll(values, bound) ==
  \A key \in DOMAIN bound : key \in DOMAIN values /\ Law!Keeps(key, values[key], bound[key])

LEMMA AppliedKeeps ==
  ASSUME NEW project, NEW floor, Law!IsSetting(project), Law!IsSetting(floor.values)
  PROVE  /\ Law!IsSetting(Law!Applied(project, floor))
         /\ AsksAll(Law!Applied(project, floor), floor.values)
         /\ AsksAll(Law!Applied(project, floor), project)
<1> DEFINE now == Law!Applied(project, floor)
<1>1. ASSUME NEW key \in DOMAIN project \cup DOMAIN floor.values
      PROVE  /\ key \in Law!Keys /\ key \in DOMAIN now /\ now[key] \in Law!Values(key)
             /\ key \in DOMAIN project => Law!Keeps(key, now[key], project[key])
             /\ key \in DOMAIN floor.values => Law!Keeps(key, now[key], floor.values[key])
  <2>0. key \in Law!Keys
    BY DEF Law!IsSetting
  <2>1. CASE key \notin DOMAIN floor.values
    <3>1. now[key] = project[key] /\ project[key] \in Law!Values(key) /\ key \in DOMAIN now
      BY <2>1 DEF Law!Applied, Law!IsSetting
    <3> QED BY <2>0, <2>1, <3>1, KeepsOn
  <2>2. CASE key \in DOMAIN floor.values /\ key \notin DOMAIN project
    <3>1. now[key] = floor.values[key] /\ floor.values[key] \in Law!Values(key) /\ key \in DOMAIN now
      BY <2>2 DEF Law!Applied, Law!IsSetting
    <3> QED BY <2>0, <2>2, <3>1, KeepsOn
  <2>3. CASE key \in DOMAIN floor.values /\ key \in DOMAIN project
    <3>1. /\ now[key] = Law!Stricter(key, floor.values[key], project[key])
          /\ floor.values[key] \in Law!Values(key) /\ project[key] \in Law!Values(key)
          /\ key \in DOMAIN now
      BY <2>3 DEF Law!Applied, Law!IsSetting
    <3> QED BY <2>0, <2>3, <3>1, StricterKeeps
  <2> QED BY <2>1, <2>2, <2>3
<1>2. DOMAIN now = DOMAIN project \cup DOMAIN floor.values
  BY DEF Law!Applied
<1> QED BY <1>1, <1>2 DEF Law!IsSetting, AsksAll

LEMMA AsksOn ==
  ASSUME NEW f, NEW g, NEW h, Law!IsSetting(f), Law!IsSetting(g), Law!IsSetting(h)
  PROVE  /\ AsksAll(f, f)
         /\ AsksAll(g, f) /\ AsksAll(h, g) => AsksAll(h, f)
         /\ Law!Loosened(f, g) = {} => AsksAll(g, f)
<1>1. AsksAll(f, f)
  BY KeepsOn DEF AsksAll, Law!IsSetting
<1>2. ASSUME AsksAll(g, f), AsksAll(h, g), NEW key \in DOMAIN f
      PROVE  key \in DOMAIN h /\ Law!Keeps(key, h[key], f[key])
  <2>1. /\ key \in Law!Keys /\ key \in DOMAIN g /\ key \in DOMAIN h
        /\ f[key] \in Law!Values(key) /\ g[key] \in Law!Values(key) /\ h[key] \in Law!Values(key)
        /\ Law!Keeps(key, g[key], f[key]) /\ Law!Keeps(key, h[key], g[key])
    BY <1>2 DEF AsksAll, Law!IsSetting
  <2> QED BY <2>1, KeepsOn
<1>3. ASSUME Law!Loosened(f, g) = {}, NEW key \in DOMAIN f
      PROVE  key \in DOMAIN g /\ Law!Keeps(key, g[key], f[key])
  <2>1. key \in DOMAIN g /\ ~Law!Looser(key, g[key], f[key])
    BY <1>3 DEF Law!Loosened
  <2>2. key \in Law!Keys /\ f[key] \in Law!Values(key) /\ g[key] \in Law!Values(key)
    BY <2>1 DEF Law!IsSetting
  <2> QED BY <2>1, <2>2, KeepsOn
<1> QED BY <1>1, <1>2, <1>3 DEF AsksAll

\* `tac config explain` shows what applies, and names the file that decides it.
LEMMA ShownIsApplied ==
  ASSUME NEW project, NEW floor, NEW key \in DOMAIN Law!Applied(project, floor)
  PROVE  LET shown == Law!Shown(project, floor)[key]
             now == Law!Applied(project, floor)
         IN /\ shown.value = now[key]
            /\ shown.source = "project" <=> key \in DOMAIN project /\ project[key] = now[key]
<1>1. key \in DOMAIN project \cup DOMAIN floor.values
  BY DEF Law!Applied
<1> DEFINE now == Law!Applied(project, floor)
<1>2. key \notin DOMAIN floor.values => now[key] = project[key]
  BY <1>1 DEF Law!Applied
<1> HIDE DEF now
<1> QED BY <1>1, <1>2 DEF Law!Shown, Law!Overridden, now

LEMMA TightensOnly ==
  ASSUME NEW n \in Nat, NEW changes, Len(changes) = n, DOMAIN changes = 1..n,
         NEW start, Law!IsTree(start),
         \A i \in 1..n : Law!IsTree(changes[i].tree) /\ changes[i].day \in Int
  PROVE  Law!StandardsOnlyTighten(start, changes, Law!Merged(start, changes))
<1> DEFINE main == Law!Merged(start, changes)
<1>0. /\ main[0] = start
      /\ \A i \in 1..n : main[i] = IF Law!Passes(main[i - 1], changes[i].tree, changes[i].day)
                                   THEN changes[i].tree ELSE main[i - 1]
  BY MergedSteps
<1> HIDE DEF main
<1> DEFINE Proposed(tree) ==
             \E k \in 1..n : changes[k].tree = tree /\ Law!Loads(tree.floor, changes[k].day)
           Stood(j) == Law!IsTree(main[j]) /\ (main[j] = start \/ Proposed(main[j]))
<1>1. \A j \in 0..n : Stood(j)
  <2> DEFINE P == {j \in 0..n : Stood(j)}
  <2>1. 0 \in P
    BY <1>0
  <2>2. ASSUME NEW j \in 1..n, j - 1 \in P PROVE j \in P
    <3>1. CASE Law!Passes(main[j - 1], changes[j].tree, changes[j].day)
      <4>1. main[j] = changes[j].tree /\ Law!Loads(changes[j].tree.floor, changes[j].day)
        BY <1>0, <3>1 DEF Law!Passes
      <4> QED BY <4>1
    <3>2. CASE ~Law!Passes(main[j - 1], changes[j].tree, changes[j].day)
      BY <1>0, <2>2, <3>2
    <3> QED BY <3>1, <3>2
  <2>3. \A j \in 0..n : j \in P
    <3> HIDE DEF P
    <3> QED BY <2>1, <2>2, Throughout
  <2> QED BY <2>3
<1> DEFINE Tighter(base, head) ==
             /\ base.floor.file => head.floor.file
             /\ AsksAll(head.floor.values, base.floor.values)
<1>2. ASSUME NEW j \in 1..n PROVE Tighter(main[j - 1], main[j])
  <2>0. Law!IsTree(main[j - 1]) /\ Law!IsTree(main[j])
    BY <1>1
  <2>1. CASE Law!Passes(main[j - 1], changes[j].tree, changes[j].day)
    <3>1. main[j] = changes[j].tree /\ main[j].floor.file
      BY <1>0, <2>1 DEF Law!Passes, Law!Loads
    <3>2. CASE main[j - 1].floor.file
      <4>1. Law!Loosened(main[j - 1].floor.values, main[j].floor.values) = {}
        BY <2>1, <3>1, <3>2 DEF Law!Passes
      <4> QED BY <2>0, <3>1, <4>1, AsksOn DEF Law!IsTree
    <3>3. CASE ~main[j - 1].floor.file
      BY <2>0, <3>1, <3>3 DEF Law!IsTree, AsksAll
    <3> QED BY <3>2, <3>3
  <2>2. CASE ~Law!Passes(main[j - 1], changes[j].tree, changes[j].day)
    BY <1>0, <2>0, <2>2, AsksOn DEF Law!IsTree
  <2> QED BY <2>1, <2>2
<1>3. ASSUME NEW i \in 0..n, NEW k \in i..n PROVE Tighter(main[i], main[k])
  <2> DEFINE P == {j \in 0..n : j >= i => Tighter(main[i], main[j])}
  <2>1. ASSUME NEW j \in 0..n, j = i PROVE Tighter(main[i], main[j])
    BY <1>1, <2>1, AsksOn DEF Law!IsTree
  <2>2. 0 \in P
    BY <2>1
  <2>3. ASSUME NEW j \in 1..n, j - 1 \in P PROVE j \in P
    <3>1. CASE j = i
      BY <2>1, <3>1
    <3>2. CASE j > i
      <4>1. Tighter(main[i], main[j - 1]) /\ Tighter(main[j - 1], main[j])
        BY <1>2, <2>3, <3>2
      <4>2. Law!IsTree(main[i]) /\ Law!IsTree(main[j - 1]) /\ Law!IsTree(main[j])
        BY <1>1
      <4>3. Tighter(main[i], main[j])
        BY <4>1, <4>2, AsksOn DEF Law!IsTree
      <4> QED BY <4>3
    <3>3. CASE j < i
      BY <3>3
    <3> QED BY <3>1, <3>2, <3>3
  <2>4. \A j \in 0..n : j \in P
    <3> HIDE DEF P
    <3> QED BY <2>2, <2>3, Throughout
  <2>5. k \in 0..n /\ k >= i
    OBVIOUS
  <2> HIDE DEF Tighter
  <2> QED BY <2>4, <2>5
<1>4. ASSUME NEW i \in 0..n, NEW j \in i..n
      PROVE  LET bound == main[i].floor.values
                 now   == Law!Applied(main[j].project, main[j].floor)
                 rules == Law!CommitRules(main[j])
                 lifted == {w.gate : w \in main[j].floor.waivers}
             IN /\ main[i].floor.file => main[j].floor.file
                /\ \A key \in DOMAIN bound :
                     /\ key \in DOMAIN now /\ Law!Keeps(key, now[key], bound[key])
                     /\ key \in Parts /\ "commits" \notin lifted /\ key \notin lifted \cap Liftable =>
                          key \in DOMAIN rules /\ Law!Keeps(key, rules[key], bound[key])
                /\ \A key \in DOMAIN main[j].project :
                     key \in DOMAIN now /\ Law!Keeps(key, now[key], main[j].project[key])
  <2> DEFINE now == Law!Applied(main[j].project, main[j].floor)
             rules == Law!CommitRules(main[j])
             lifted == {w.gate : w \in main[j].floor.waivers}
  <2>0. j \in 0..n
    OBVIOUS
  <2>1. Law!IsTree(main[i]) /\ Law!IsTree(main[j]) /\ Tighter(main[i], main[j])
    BY <1>1, <1>3, <2>0
  <2>2. /\ Law!IsSetting(now) /\ AsksAll(now, main[j].floor.values)
        /\ AsksAll(now, main[j].project)
    BY <2>1, AppliedKeeps DEF Law!IsTree
  <2>3. AsksAll(now, main[i].floor.values)
    <3> HIDE DEF now
    <3> QED BY <2>1, <2>2, AsksOn DEF Law!IsTree
  <2>4. ASSUME NEW key \in DOMAIN main[i].floor.values, key \in Parts,
               "commits" \notin lifted, key \notin lifted \cap Liftable
        PROVE  key \in DOMAIN rules /\ rules[key] = now[key]
    <3>1. key \in DOMAIN now
      BY <2>3 DEF AsksAll
    <3>2. key \in (IF "commits" \in lifted THEN {} ELSE Parts \ (lifted \cap Liftable))
      BY <2>4
    <3> QED BY <3>1, <3>2 DEF Law!CommitRules
  <2> QED BY <2>1, <2>2, <2>3, <2>4 DEF AsksAll
<1>5. ASSUME NEW j \in 0..n, NEW w \in main[j].floor.waivers
      PROVE  \/ w \in start.floor.waivers
             \/ \E k \in DOMAIN changes : changes[k].tree = main[j] /\ changes[k].day <= w.expires
  <2>1. Stood(j)
    BY <1>1
  <2>2. CASE Proposed(main[j])
    <3>1. PICK k \in 1..n : changes[k].tree = main[j] /\ Law!Loads(main[j].floor, changes[k].day)
      BY <2>2
    <3>2. ~(changes[k].day > w.expires)
      BY <3>1 DEF Law!Loads, Law!Expired
    <3>3. changes[k].day \in Int /\ w.expires \in Int
      BY <2>1 DEF Law!IsTree
    <3> QED BY <3>1, <3>2, <3>3
  <2> QED BY <2>1, <2>2
<1>6. ASSUME NEW j \in 0..n, NEW key \in DOMAIN Law!Applied(main[j].project, main[j].floor)
      PROVE  LET shown == Law!Shown(main[j].project, main[j].floor)[key]
                 now == Law!Applied(main[j].project, main[j].floor)
             IN /\ shown.value = now[key]
                /\ shown.source = "project" <=>
                     key \in DOMAIN main[j].project /\ main[j].project[key] = now[key]
  BY ShownIsApplied
<1>7. ASSUME NEW i \in 0..n, NEW j \in i..n PROVE j \in 0..n
  OBVIOUS
<1>8. Law!StandardsOnlyTighten(start, changes, main)
  BY <1>4, <1>5, <1>6, <1>7 DEF Law!StandardsOnlyTighten
<1> QED BY <1>8 DEF main
-----------------------------------------------------------------------------
(* Handoffs *)

Envelopes ==
  [contract : Versions, status : {"dispatched", "pass", "degraded", "escalated"},
   rounds : {0, 1}, payload : SUBSET Versions]
Stores == [version : Versions, envelope : Envelopes]

LEMMA StoresOn ==
  /\ Contracts!Start \in Stores
  /\ \A s \in Stores, e \in StageEvents : Contracts!After(s, e) \in Stores
<1>1. Contracts!Start \in Stores
  BY StageAssumption
  DEF Contracts!Start, Contracts!Dispatched, Contracts!Unmet, Stores, Envelopes
<1>2. ASSUME NEW s \in Stores, NEW e \in StageEvents PROVE Contracts!After(s, e) \in Stores
  <2>1. CASE e.is = "amend"
    BY <2>1 DEF Contracts!After, StageEvents, Stores
  <2>2. CASE e.is = "render"
    BY <2>2 DEF Contracts!After, Contracts!Dispatched, Contracts!Unmet, StageEvents, Stores, Envelopes
  <2>3. CASE e.is = "result"
    <3> e.result \in SUBSET Versions
      BY <2>3 DEF StageEvents
    <3> QED BY <2>3 DEF Contracts!After, Contracts!Validate, Stores, Envelopes
  <2> QED BY <2>1, <2>2, <2>3 DEF StageEvents
<1> QED BY <1>1, <1>2

LEMMA HandledSteps ==
  ASSUME NEW n \in Nat, NEW happened \in [1..n -> StageEvents]
  PROVE  \E store \in [0..n -> Stores] :
           /\ store[0] = Contracts!Start
           /\ \A i \in 1..n : store[i] = Contracts!After(store[i - 1], happened[i])
           /\ Contracts!Handled(happened) = [i \in 0..n |-> Contracts!Given(store[i])]
<1> DEFINE Then(i, s) == Contracts!After(s, happened[i])
           F == [i \in 1..n |-> [s \in Stores |-> Then(i, s)]]
<1>1. F \in [1..n -> [Stores -> Stores]]
  BY StoresOn
<1>2. PICK g : Unfolds(g, n, Stores, Contracts!Start, F)
  <2> HIDE DEF F
  <2> QED BY <1>1, StoresOn, History
<1> HIDE DEF Then
<1> DEFINE Is(f) == f = [i \in 0..n |-> IF i = 0 THEN Contracts!Start ELSE Then(i, f[i - 1])]
           h == CHOOSE f : Is(f)
<1>3. Is(g)
  <2>1. \A i \in 1..n : g[i - 1] \in Stores /\ F[i][g[i - 1]] = Then(i, g[i - 1])
    BY <1>2 DEF Unfolds
  <2> HIDE DEF F
  <2> QED BY <1>2, <2>1 DEF Unfolds
<1>4. Len(happened) = n
  OBVIOUS
<1>5. Contracts!Handled(happened) = [i \in 0..n |-> Contracts!Given(h[i])]
  BY <1>4 DEF Contracts!Handled, Then
<1>6. Is(h)
  <2> HIDE DEF Is
  <2> QED BY <1>3
<1> HIDE DEF h
<1>7. \A i \in 0..n : h[i] \in Stores
  <2> DEFINE P == {i \in 0..n : h[i] \in Stores}
  <2>1. 0 \in P
    BY <1>6, StoresOn
  <2>2. ASSUME NEW i \in 1..n, i - 1 \in P PROVE i \in P
    BY <1>6, <2>2, StoresOn DEF Then
  <2>3. \A i \in 0..n : i \in P
    <3> HIDE DEF P
    <3> QED BY <2>1, <2>2, Throughout
  <2> QED BY <2>3
<1>8. h \in [0..n -> Stores]
  BY <1>6, <1>7
<1> QED BY <1>5, <1>6, <1>8 DEF Then

LEMMA LatestIs ==
  ASSUME NEW S \in SUBSET Nat, NEW x \in S, \A y \in S : y <= x
  PROVE  Contracts!Latest(S) = x
<1> DEFINE Top(y) == y \in S /\ \A k \in S : k <= y
<1>1. Contracts!Latest(S) = CHOOSE y : Top(y)
  BY DEF Contracts!Latest
<1>2. Top(x)
  OBVIOUS
<1> DEFINE z == Contracts!Latest(S)
<1>3. Top(z)
  <2> HIDE DEF Top
  <2> QED BY <1>1, <1>2
<1> HIDE DEF z
<1>4. z \in Nat /\ x \in Nat /\ z <= x /\ x <= z
  BY <1>2, <1>3
<1>5. z = x
  BY <1>4
<1> QED BY <1>5 DEF z

LEMMA VersionSteps ==
  ASSUME NEW n \in Nat, NEW happened \in [1..n -> StageEvents]
  PROVE  /\ Contracts!VersionAt(happened, 0) = 1
         /\ \A i \in 1..n : Contracts!VersionAt(happened, i) =
              IF happened[i].is = "amend" THEN happened[i].version
              ELSE Contracts!VersionAt(happened, i - 1)
<1> DEFINE Amends(i) == {j \in 1..i : happened[j].is = "amend"}
<1>1. \A i \in 0..n : Contracts!VersionAt(happened, i) =
        IF Amends(i) = {} THEN 1 ELSE happened[Contracts!Latest(Amends(i))].version
  BY DEF Contracts!VersionAt
<1>2. Amends(0) = {}
  OBVIOUS
<1>3. ASSUME NEW i \in 1..n, happened[i].is = "amend"
      PROVE  Contracts!Latest(Amends(i)) = i /\ Amends(i) # {}
  <2>1. i \in Amends(i) /\ Amends(i) \in SUBSET Nat /\ \A y \in Amends(i) : y <= i
    BY <1>3
  <2> HIDE DEF Amends
  <2> QED BY <2>1, LatestIs
<1>4. ASSUME NEW i \in 1..n, happened[i].is # "amend" PROVE Amends(i) = Amends(i - 1)
  <2>1. ASSUME NEW j \in 1..i, happened[j].is = "amend" PROVE j \in 1..(i - 1)
    BY <1>4, <2>1
  <2>2. ASSUME NEW j \in 1..(i - 1) PROVE j \in 1..i
    OBVIOUS
  <2> QED BY <2>1, <2>2
<1> HIDE DEF Amends
<1> QED BY <1>1, <1>2, <1>3, <1>4

LEMMA DispatchSteps ==
  ASSUME NEW n \in Nat, NEW happened \in [1..n -> StageEvents]
  PROVE  /\ Contracts!DispatchAt(happened, 0) = 0
         /\ \A i \in 1..n : Contracts!DispatchAt(happened, i) =
              IF happened[i].is = "render" THEN i ELSE Contracts!DispatchAt(happened, i - 1)
         /\ \A i \in 0..n : Contracts!DispatchAt(happened, i) \in 0..i
<1> DEFINE Renders(i) == {0} \cup {j \in 1..i : happened[j].is = "render"}
<1>1. \A i \in 0..n : Contracts!DispatchAt(happened, i) = Contracts!Latest(Renders(i))
  BY DEF Contracts!DispatchAt
<1>2. Contracts!Latest(Renders(0)) = 0
  <2>1. Renders(0) = {0}
    OBVIOUS
  <2> HIDE DEF Renders
  <2> QED BY <2>1, LatestIs
<1>3. ASSUME NEW i \in 1..n, happened[i].is = "render"
      PROVE  Contracts!Latest(Renders(i)) = i
  <2>1. i \in Renders(i) /\ Renders(i) \in SUBSET Nat /\ \A y \in Renders(i) : y <= i
    BY <1>3
  <2> HIDE DEF Renders
  <2> QED BY <2>1, LatestIs
<1>4. ASSUME NEW i \in 1..n, happened[i].is # "render" PROVE Renders(i) = Renders(i - 1)
  <2>1. ASSUME NEW j \in 1..i, happened[j].is = "render" PROVE j \in 1..(i - 1)
    BY <1>4, <2>1
  <2>2. ASSUME NEW j \in 1..(i - 1) PROVE j \in 1..i
    OBVIOUS
  <2> QED BY <2>1, <2>2
<1> HIDE DEF Renders
<1>5. /\ Contracts!DispatchAt(happened, 0) = 0
      /\ \A i \in 1..n : Contracts!DispatchAt(happened, i) =
           IF happened[i].is = "render" THEN i ELSE Contracts!DispatchAt(happened, i - 1)
  BY <1>1, <1>2, <1>3, <1>4
<1>6. \A i \in 0..n : Contracts!DispatchAt(happened, i) \in 0..i
  <2> DEFINE P == {i \in 0..n : Contracts!DispatchAt(happened, i) \in 0..i}
  <2>1. 0 \in P
    BY <1>5
  <2>2. ASSUME NEW i \in 1..n, i - 1 \in P PROVE i \in P
    BY <1>5, <2>2
  <2>3. \A i \in 0..n : i \in P
    <3> HIDE DEF P
    <3> QED BY <2>1, <2>2, Throughout
  <2> QED BY <2>3
<1> QED BY <1>5, <1>6

\* The results judged grow by what comes in while the contract stands, and start
\* over with a dispatch.
LEMMA JudgedSteps ==
  ASSUME NEW n \in Nat, NEW happened \in [1..n -> StageEvents], NEW i \in 1..n
  PROVE  Contracts!JudgedBy(happened, i) =
           IF happened[i].is = "render" THEN {}
           ELSE Contracts!JudgedBy(happened, i - 1) \cup
                (IF /\ happened[i].is = "result"
                    /\ Contracts!VersionAt(happened, i - 1) =
                         Contracts!VersionAt(happened, Contracts!DispatchAt(happened, i - 1))
                 THEN {i} ELSE {})
<1> DEFINE V(j) == Contracts!VersionAt(happened, j)
           D(j) == Contracts!DispatchAt(happened, j)
           J(k) == {j \in 1..k : happened[j].is = "result" /\ j > D(k) /\ V(j) = V(D(k))}
<1>1. Contracts!JudgedBy(happened, i) = J(i) /\ Contracts!JudgedBy(happened, i - 1) = J(i - 1)
  BY DEF Contracts!JudgedBy
<1>2. D(i - 1) \in 0..(i - 1) /\ (D(i) = IF happened[i].is = "render" THEN i ELSE D(i - 1))
  BY DispatchSteps
<1>3. happened[i].is = "result" => V(i) = V(i - 1)
  BY VersionSteps
<1> HIDE DEF V, D
<1>4. CASE happened[i].is = "render"
  BY <1>1, <1>2, <1>4
<1>5. CASE happened[i].is # "render"
  <2>1. \A j \in 1..i : j \in 1..(i - 1) \/ j = i
    OBVIOUS
  <2>2. \A j \in 1..(i - 1) : j \in 1..i /\ j # i
    OBVIOUS
  <2>3. i > D(i - 1) /\ i \in 1..i
    BY <1>2
  <2>4. J(i) = J(i - 1) \cup
               (IF happened[i].is = "result" /\ V(i - 1) = V(D(i - 1)) THEN {i} ELSE {})
    BY <1>2, <1>3, <1>5, <2>1, <2>2, <2>3
  <2> QED BY <1>1, <1>5, <2>4 DEF V, D
<1> QED BY <1>4, <1>5

\* The first two of some moments.
OnlyBefore(a, b, J) == a \in J /\ b \in J /\ a < b /\ \A k \in J : k = a \/ b <= k

\* What an envelope says of the results that were judged.
Verdict(env, happened, J) ==
  LET meets(j) == env.contract \in happened[j].result IN
  \/ env.status = "dispatched" /\ env.rounds = 0 /\ J = {}
  \/ env.status = "dispatched" /\ env.rounds = 1 /\ \E a : J = {a} /\ ~meets(a)
  \/ /\ env.status = "pass"
     /\ \E a \in J : /\ meets(a) /\ env.payload = happened[a].result
                     /\ \A k \in J : a <= k
  \/ /\ env.status = "degraded"
     /\ \E a, b \in J : /\ OnlyBefore(a, b, J) /\ ~meets(a) /\ meets(b)
                        /\ env.payload = happened[b].result
  \/ env.status = "escalated" /\ \E a, b \in J : OnlyBefore(a, b, J) /\ ~meets(a) /\ ~meets(b)

LEMMA VerdictOn ==
  ASSUME NEW n \in Nat, NEW happened \in [1..n -> StageEvents], NEW i \in 1..n,
         NEW env \in Envelopes, NEW J \in SUBSET (1..(i - 1)), Verdict(env, happened, J)
  PROVE  happened[i].is = "result" =>
           Verdict(Contracts!Validate(env, env.contract, happened[i].result), happened, J \cup {i})
<1> DEFINE now == Contracts!Validate(env, env.contract, happened[i].result)
           K == J \cup {i}
<1> SUFFICES ASSUME happened[i].is = "result" PROVE Verdict(now, happened, K)
  OBVIOUS
<1>1. i \in K /\ i \notin J /\ \A k \in J : k \in Nat /\ k < i
  OBVIOUS
<1> HIDE DEF K
<1>2. CASE env.status = "dispatched" /\ env.rounds = 0 /\ J = {}
  <2>0. K = {i}
    BY <1>2 DEF K
  <2>1. CASE env.contract \in happened[i].result
    <3>1. now = [env EXCEPT !.payload = happened[i].result, !.status = "pass"]
      BY <1>2, <2>1 DEF Contracts!Validate, Contracts!Meets
    <3>2. now.status = "pass" /\ now.payload = happened[i].result /\ now.contract = env.contract
      BY <3>1 DEF Envelopes
    <3> HIDE DEF now
    <3> QED BY <2>0, <2>1, <3>2 DEF Verdict
  <2>2. CASE env.contract \notin happened[i].result
    <3>1. now = [env EXCEPT !.rounds = 1]
      BY <1>2, <2>2 DEF Contracts!Validate, Contracts!Meets
    <3>2. now.status = "dispatched" /\ now.rounds = 1 /\ now.contract = env.contract
      BY <1>2, <3>1 DEF Envelopes
    <3> HIDE DEF now
    <3> QED BY <2>0, <2>2, <3>2 DEF Verdict
  <2> QED BY <2>1, <2>2
<1>3. CASE env.status = "dispatched" /\ env.rounds = 1
           /\ \E a : J = {a} /\ env.contract \notin happened[a].result
  <2>1. PICK a : J = {a} /\ env.contract \notin happened[a].result
    BY <1>3
  <2>2. OnlyBefore(a, i, K)
    BY <1>1, <2>1 DEF OnlyBefore, K
  <2>3. CASE env.contract \in happened[i].result
    <3>1. now = [env EXCEPT !.payload = happened[i].result, !.status = "degraded"]
      BY <1>3, <2>3 DEF Contracts!Validate, Contracts!Meets
    <3>2. now.status = "degraded" /\ now.payload = happened[i].result /\ now.contract = env.contract
      BY <3>1 DEF Envelopes
    <3> HIDE DEF now
    <3> QED BY <2>1, <2>2, <2>3, <3>2 DEF Verdict, OnlyBefore
  <2>4. CASE env.contract \notin happened[i].result
    <3>1. now = [env EXCEPT !.status = "escalated"]
      BY <1>3, <2>4 DEF Contracts!Validate, Contracts!Meets
    <3>2. now.status = "escalated" /\ now.contract = env.contract
      BY <3>1 DEF Envelopes
    <3> HIDE DEF now
    <3> QED BY <2>1, <2>2, <2>4, <3>2 DEF Verdict, OnlyBefore
  <2> QED BY <2>3, <2>4
<1>4. CASE env.status # "dispatched"
  <2>1. now = env
    BY <1>4 DEF Contracts!Validate
  <2>2. \A a, b : OnlyBefore(a, b, J) => OnlyBefore(a, b, K)
    BY <1>1 DEF OnlyBefore, K
  <2>3. \A a \in J : a \in K /\ ((\A k \in J : a <= k) => \A k \in K : a <= k)
    BY <1>1 DEF K
  <2>4. \A a, b : OnlyBefore(a, b, K) => a \in K /\ b \in K
    BY DEF OnlyBefore
  <2> HIDE DEF now
  <2>5. CASE env.status = "pass"
    BY <1>4, <2>1, <2>3, <2>5 DEF Verdict
  <2>6. CASE env.status = "degraded"
    BY <1>4, <2>1, <2>2, <2>4, <2>6 DEF Verdict
  <2>7. CASE env.status = "escalated"
    BY <1>4, <2>1, <2>2, <2>4, <2>7 DEF Verdict
  <2> QED BY <1>4, <2>5, <2>6, <2>7 DEF Verdict
<1> QED BY <1>2, <1>3, <1>4 DEF Verdict

\* What is then handed on is what the property asks.
LEMMA VerdictMeans ==
  ASSUME NEW n \in Nat, NEW happened \in [1..n -> StageEvents], NEW i \in 0..n,
         NEW store \in Stores, store.version = Contracts!VersionAt(happened, i),
         store.envelope.contract = Contracts!VersionAt(happened, Contracts!DispatchAt(happened, i)),
         Verdict(store.envelope, happened, Contracts!JudgedBy(happened, i))
  PROVE  LET met    == Contracts!Met(happened, i)
             result == IF met = {} THEN Contracts!Unmet ELSE happened[Contracts!First(met)].result
         IN Contracts!Given(store) =
              IF Contracts!VersionAt(happened, i) \in result THEN result ELSE Contracts!Unmet
<1> DEFINE env == store.envelope
           J   == Contracts!JudgedBy(happened, i)
           met == Contracts!Met(happened, i)
           meets(j) == env.contract \in happened[j].result
<1>1. met = {j \in J : meets(j) /\ \A k, l \in J : k < j /\ l < j => k = l}
  BY DEF Contracts!Met
<1>2. J \in SUBSET Nat
  BY DEF Contracts!JudgedBy
<1> HIDE DEF J, met
<1>3. ASSUME NEW a \in met, \A k \in met : a <= k PROVE Contracts!First(met) = a
  <2> DEFINE Least(y) == y \in met /\ \A k \in met : y <= k
  <2>1. Contracts!First(met) = CHOOSE y : Least(y)
    BY DEF Contracts!First
  <2>2. Least(a)
    BY <1>3
  <2> DEFINE z == Contracts!First(met)
  <2>3. Least(z)
    <3> HIDE DEF Least
    <3> QED BY <2>1, <2>2
  <2> HIDE DEF z
  <2>4. z \in Nat /\ a \in Nat /\ z <= a /\ a <= z
    BY <1>1, <1>2, <2>2, <2>3
  <2>5. z = a
    BY <2>4
  <2> QED BY <2>5 DEF z
<1>4. Contracts!Given(store) =
        IF env.status \in {"pass", "degraded"} /\ store.version \in env.payload
        THEN env.payload ELSE Contracts!Unmet
  BY DEF Contracts!Given, Contracts!MayHandOn, Contracts!Meets
<1>5. CASE env.status \notin {"pass", "degraded"}
  <2>1. met = {}
    <3>1. CASE J = {}
      BY <1>1, <3>1
    <3>2. ASSUME NEW a, J = {a}, ~meets(a) PROVE met = {}
      BY <1>1, <3>2
    <3>3. ASSUME NEW a \in J, NEW b \in J, OnlyBefore(a, b, J), ~meets(a), ~meets(b)
          PROVE  met = {}
      <4> SUFFICES ASSUME NEW j \in met PROVE FALSE
        OBVIOUS
      <4>1. j # a /\ j # b /\ b <= j
        BY <1>1, <3>3 DEF OnlyBefore
      <4>2. a < j /\ b < j /\ a # b
        BY <1>1, <1>2, <3>3, <4>1 DEF OnlyBefore
      <4> QED BY <1>1, <4>2
    <3> QED BY <1>5, <3>1, <3>2, <3>3 DEF Verdict, J
  <2> QED BY <1>4, <1>5, <2>1 DEF Contracts!Unmet, met
<1>6. CASE env.status = "pass"
  <2>1. PICK a \in J : meets(a) /\ env.payload = happened[a].result /\ \A k \in J : a <= k
    BY <1>6 DEF Verdict, J
  <2>2. a \in met
    <3>1. \A k \in J : ~(k < a)
      BY <1>2, <2>1
    <3> QED BY <1>1, <2>1, <3>1
  <2>3. Contracts!First(met) = a
    BY <1>1, <1>3, <2>1, <2>2
  <2> QED BY <1>4, <1>6, <2>1, <2>2, <2>3 DEF met
<1>7. CASE env.status = "degraded"
  <2>1. PICK a \in J, b \in J : /\ OnlyBefore(a, b, J) /\ ~meets(a) /\ meets(b)
                                /\ env.payload = happened[b].result
    BY <1>7 DEF Verdict, J
  <2>2. b \in met
    <3>1. \A k \in J : k < b => k = a
      BY <1>2, <2>1 DEF OnlyBefore
    <3> QED BY <1>1, <2>1, <3>1
  <2>3. \A k \in met : b <= k
    BY <1>1, <2>1 DEF OnlyBefore
  <2>4. Contracts!First(met) = b
    BY <1>3, <2>2, <2>3
  <2> QED BY <1>4, <1>7, <2>1, <2>2, <2>4 DEF met
<1> QED BY <1>5, <1>6, <1>7

LEMMA HandedOn ==
  ASSUME NEW n \in Nat, NEW happened \in [1..n -> StageEvents]
  PROVE  Contracts!HandoffMeetsContract(happened, Contracts!Handled(happened))
<1>1. PICK store \in [0..n -> Stores] :
        /\ store[0] = Contracts!Start
        /\ \A i \in 1..n : store[i] = Contracts!After(store[i - 1], happened[i])
        /\ Contracts!Handled(happened) = [i \in 0..n |-> Contracts!Given(store[i])]
  BY HandledSteps
<1> DEFINE V(i) == Contracts!VersionAt(happened, i)
           D(i) == Contracts!DispatchAt(happened, i)
           J(i) == Contracts!JudgedBy(happened, i)
           Agrees(i) == /\ store[i].version = V(i)
                        /\ store[i].envelope.contract = V(D(i))
                        /\ Verdict(store[i].envelope, happened, J(i))
           P == {i \in 0..n : Agrees(i)}
<1>2. 0 \in P
  <2>1. V(0) = 1 /\ D(0) = 0
    BY VersionSteps, DispatchSteps
  <2>2. J(0) = {}
    BY DEF Contracts!JudgedBy
  <2> HIDE DEF V, D, J
  <2> QED BY <1>1, <2>1, <2>2 DEF Contracts!Start, Contracts!Dispatched, Verdict
<1>3. ASSUME NEW i \in 1..n, i - 1 \in P PROVE i \in P
  <2>0. /\ Agrees(i - 1) /\ i \in 0..n /\ i - 1 \in 0..n
        /\ store[i - 1] \in Stores /\ happened[i] \in StageEvents
        /\ store[i] = Contracts!After(store[i - 1], happened[i])
    BY <1>1, <1>3
  <2>1. V(i) = IF happened[i].is = "amend" THEN happened[i].version ELSE V(i - 1)
    BY VersionSteps
  <2>2. D(i) = (IF happened[i].is = "render" THEN i ELSE D(i - 1)) /\ D(i - 1) \in 0..(i - 1)
    BY DispatchSteps, <2>0
  <2>3. J(i) = IF happened[i].is = "render" THEN {}
               ELSE J(i - 1) \cup
                    (IF happened[i].is = "result" /\ V(i - 1) = V(D(i - 1)) THEN {i} ELSE {})
    BY JudgedSteps
  <2>4. J(i - 1) \in SUBSET (1..(i - 1))
    BY DEF Contracts!JudgedBy
  <2> HIDE DEF V, D, J
  <2>5. CASE happened[i].is = "amend"
    <3>1. store[i].version = V(i) /\ store[i].envelope = store[i - 1].envelope
      BY <2>0, <2>1, <2>5 DEF Contracts!After, Stores
    <3>2. D(i) = D(i - 1) /\ J(i) = J(i - 1)
      BY <2>2, <2>3, <2>5
    <3> QED BY <2>0, <3>1, <3>2
  <2>6. CASE happened[i].is = "render"
    <3>1. /\ store[i].version = store[i - 1].version
          /\ store[i].envelope = Contracts!Dispatched(store[i - 1].version)
      BY <2>0, <2>6 DEF Contracts!After, Stores
    <3>2. V(i) = V(i - 1) /\ D(i) = i /\ J(i) = {}
      BY <2>1, <2>2, <2>3, <2>6
    <3> QED BY <2>0, <3>1, <3>2 DEF Contracts!Dispatched, Verdict
  <2>7. CASE happened[i].is = "result"
    <3> DEFINE env == store[i - 1].envelope
    <3>1. /\ store[i].version = store[i - 1].version
          /\ store[i].envelope =
               Contracts!Validate(env, store[i - 1].version, happened[i].result)
      BY <2>0, <2>7 DEF Contracts!After, Stores
    <3>2. V(i) = V(i - 1) /\ D(i) = D(i - 1)
      BY <2>1, <2>2, <2>7
    <3>3. CASE V(i - 1) = V(D(i - 1))
      <4>1. J(i) = J(i - 1) \cup {i} /\ env.contract = store[i - 1].version
        BY <2>0, <2>3, <2>7, <3>3
      <4>2. env \in Envelopes
        BY <2>0 DEF Stores
      <4>3. Verdict(store[i].envelope, happened, J(i))
        <5>1. Verdict(env, happened, J(i - 1))
          BY <2>0
        <5> HIDE DEF env
        <5>2. Verdict(Contracts!Validate(env, env.contract, happened[i].result), happened, J(i - 1) \cup {i})
          BY <2>4, <2>7, <4>2, <5>1, VerdictOn
        <5> QED BY <3>1, <4>1, <5>2
      <4>4. store[i].envelope.contract = env.contract
        BY <3>1, <4>2 DEF Contracts!Validate, Envelopes
      <4> QED BY <2>0, <3>1, <3>2, <4>3, <4>4
    <3>4. CASE V(i - 1) # V(D(i - 1))
      <4>1. J(i) = J(i - 1)
        BY <2>3, <2>7, <3>4
      <4>2. store[i].envelope = env
        BY <2>0, <3>1, <3>4 DEF Contracts!Validate
      <4> QED BY <2>0, <3>1, <3>2, <4>1, <4>2
    <3> QED BY <3>3, <3>4
  <2> QED BY <2>0, <2>5, <2>6, <2>7 DEF StageEvents
<1>4. \A i \in 0..n : i \in P
  <2> HIDE DEF P
  <2> QED BY <1>2, <1>3, Throughout
<1>5. Len(happened) = n
  OBVIOUS
<1>6. ASSUME NEW i \in 0..n
      PROVE  LET met    == Contracts!Met(happened, i)
                 result == IF met = {} THEN Contracts!Unmet
                           ELSE happened[Contracts!First(met)].result
             IN Contracts!Given(store[i]) =
                  IF Contracts!VersionAt(happened, i) \in result THEN result ELSE Contracts!Unmet
  <2>1. Agrees(i) /\ store[i] \in Stores
    BY <1>4
  <2> QED BY <2>1, VerdictMeans
<1> QED BY <1>1, <1>5, <1>6 DEF Contracts!HandoffMeetsContract
-----------------------------------------------------------------------------
(* Checks *)

\* A result that says passed is right of what it saw; one that nothing hurried is
\* right of it either way.
Hows == {"check", "force", "hurried", "repair"}
Results == [key : Measuring!Trees, base : Measuring!Bases, saw : Measuring!Trees, ok : BOOLEAN]
Found(r) == r.saw \in Fine /\ <<r.key, r.base>> \notin Outside
GoodResults == {r \in Results : r.ok => Found(r)}
TrueResults == {r \in Results : r.ok <=> Found(r)}

\* What a run holds at each of its steps.
Runs ==
  {Measuring!Idle, [at |-> "turn"]}
    \cup {r \in [at : {"commands"}, how : Hows, key : Measuring!Trees, base : Measuring!Bases,
                 strays : BOOLEAN] : r.strays <=> <<r.key, r.base>> \in Outside}
    \cup [at : {"write"}, how : {"hurried"}, result : GoodResults]
    \cup [at : {"write"}, how : Hows \ {"hurried"}, result : TrueResults]

Answers ==
  {a \in [what : {"measured", "cached", "handed"}, how : Hows, of : GoodResults,
          tree : Measuring!Trees, base : Measuring!Bases] :
     /\ a.how # "hurried" => a.of \in TrueResults
     /\ a.what = "cached" => a.of.key = a.tree /\ a.of.ok}

Measurings ==
  [tree : Measuring!Trees, base : Measuring!Bases,
   result : {Measuring!NoResult} \cup TrueResults,
   runs : [Runners -> Runs], answers : Seq(Answers)]

LEMMA TrueIsGood == TrueResults \subseteq GoodResults
BY DEF TrueResults, GoodResults

LEMMA SaysOn ==
  ASSUME NEW s \in Measurings, NEW what \in {"measured", "cached", "handed"}, NEW how \in Hows,
         NEW r \in GoodResults, how # "hurried" => r \in TrueResults,
         what = "cached" => r.key = s.tree /\ r.ok
  PROVE  Measuring!Says(s, what, how, r) \in Measurings
<1> DEFINE a == [what |-> what, how |-> how, of |-> r, tree |-> s.tree, base |-> s.base]
<1>1. a \in Answers
  BY DEF Answers, Measurings
<1>2. Measuring!Says(s, what, how, r) = [s EXCEPT !.answers = Append(s.answers, a)]
  BY DEF Measuring!Says
<1> HIDE DEF a
<1>3. s.answers \in Seq(Answers)
  BY DEF Measurings
<1>4. Append(s.answers, a) \in Seq(Answers)
  BY <1>1, <1>3
<1> QED BY <1>2, <1>4 DEF Measurings

LEMMA GoesOn ==
  ASSUME NEW s \in Measurings, NEW p \in Runners, NEW run \in Runs
  PROVE  Measuring!Goes(s, p, run) \in Measurings
BY DEF Measuring!Goes, Measurings

LEMMA MeasureOn ==
  ASSUME NEW s \in Measurings, NEW p \in Runners, NEW how \in Hows
  PROVE  Measuring!Measure(s, p, how) \in Measurings
<1> DEFINE run == [at |-> "commands", how |-> how, key |-> s.tree, base |-> s.base,
                   strays |-> <<s.tree, s.base>> \in Outside]
<1>1. run \in Runs
  <2> DEFINE strays == <<s.tree, s.base>> \in Outside
  <2>1. s.tree \in Measuring!Trees /\ s.base \in Measuring!Bases /\ strays \in BOOLEAN
    BY DEF Measurings
  <2>2. strays <=> <<s.tree, s.base>> \in Outside
    OBVIOUS
  <2>3. run = [at |-> "commands", how |-> how, key |-> s.tree, base |-> s.base,
               strays |-> strays]
    OBVIOUS
  <2> HIDE DEF strays, run
  <2> QED BY <2>1, <2>2, <2>3 DEF Runs
<1> HIDE DEF run
<1>2. Measuring!Goes(s, p, run) \in Measurings
  BY <1>1, GoesOn
<1> QED BY <1>2 DEF Measuring!Measure, run

LEMMA RunCheckOn ==
  ASSUME NEW s \in Measurings, NEW p \in Runners, NEW how \in Hows
  PROVE  Measuring!RunCheck(s, p, how) \in Measurings
<1>1. CASE how # "force" /\ Measuring!Reuses(s)
  <2>1. s.result \in TrueResults /\ s.result \in GoodResults /\ s.result.key = s.tree /\ s.result.ok
    BY <1>1, TrueIsGood DEF Measuring!Reuses, Measurings
  <2>2. Measuring!Says(s, "cached", how, s.result) \in Measurings
    BY <2>1, SaysOn
  <2> QED BY <1>1, <2>2 DEF Measuring!RunCheck
<1>2. CASE ~(how # "force" /\ Measuring!Reuses(s))
  BY <1>2, MeasureOn DEF Measuring!RunCheck
<1> QED BY <1>1, <1>2

LEMMA HandOverOn ==
  ASSUME NEW s \in Measurings, NEW p \in Runners, NEW r \in TrueResults
  PROVE  Measuring!HandOver(s, p, r) \in Measurings
<1>1. Measuring!Says(s, "handed", "repair", r) \in Measurings
  BY SaysOn, TrueIsGood DEF Hows
<1>2. [at |-> "turn"] \in Runs
  BY DEF Runs
<1> QED BY <1>1, <1>2, GoesOn DEF Measuring!HandOver

LEMMA RepairOn ==
  ASSUME NEW s \in Measurings, NEW p \in Runners
  PROVE  Measuring!Repair(s, p) \in Measurings
<1>1. CASE s.result = Measuring!NoResult \/ s.result.key # s.tree
  <2> Measuring!Measure(s, p, "repair") \in Measurings
    BY MeasureOn DEF Hows
  <2> QED BY <1>1 DEF Measuring!Repair
<1>2. CASE ~(s.result = Measuring!NoResult \/ s.result.key # s.tree)
  <2>1. s.result \in TrueResults /\ s.result \in GoodResults /\ s.result.key = s.tree
    BY <1>2, TrueIsGood DEF Measurings
  <2>2. CASE s.result.ok
    <3> Measuring!Says(s, "cached", "repair", s.result) \in Measurings
      BY <2>1, <2>2, SaysOn DEF Hows
    <3> QED BY <1>2, <2>2 DEF Measuring!Repair
  <2>3. CASE ~s.result.ok
    <3> Measuring!HandOver(s, p, s.result) \in Measurings
      BY <2>1, HandOverOn
    <3> QED BY <1>2, <2>3 DEF Measuring!Repair
  <2> QED BY <2>2, <2>3
<1> QED BY <1>1, <1>2

LEMMA CommandsOn ==
  ASSUME NEW s \in Measurings, NEW p \in Runners, NEW slow \in BOOLEAN,
         s.runs[p].at = "commands"
  PROVE  Measuring!Commands(s, p, slow) \in Measurings
<1> DEFINE run == s.runs[p]
           r == [key |-> run.key, base |-> run.base, saw |-> s.tree,
                 ok |-> ~run.strays /\ s.tree \in Fine /\ ~(run.how = "hurried" /\ slow)]
           then == [at |-> "write", how |-> run.how, result |-> r]
<1>1. /\ run.how \in Hows /\ run.key \in Measuring!Trees /\ run.base \in Measuring!Bases
      /\ run.strays \in BOOLEAN /\ s.tree \in Measuring!Trees
      /\ run.strays <=> <<run.key, run.base>> \in Outside
  <2> s.runs[p] \in Runs
    BY DEF Measurings
  <2> QED BY DEF Runs, Measuring!Idle, Measurings
<1> HIDE DEF run
<1>2. r \in GoodResults /\ (run.how # "hurried" => r \in TrueResults)
  BY <1>1 DEF GoodResults, TrueResults, Results, Found
<1> HIDE DEF r
<1>3. then \in Runs
  BY <1>1, <1>2 DEF Runs
<1> HIDE DEF then
<1>4. Measuring!Goes(s, p, then) \in Measurings
  BY <1>3, GoesOn
<1> QED BY <1>4 DEF Measuring!Commands, then, r, run

LEMMA KeptOn ==
  ASSUME NEW s \in Measurings, NEW run,
         run.how # "hurried" => run.result \in {Measuring!NoResult} \cup TrueResults
  PROVE  Measuring!Kept(s, run) \in Measurings
BY DEF Measuring!Kept, Measurings

LEMMA WriteResultOn ==
  ASSUME NEW s \in Measurings, NEW p \in Runners, s.runs[p].at = "write"
  PROVE  Measuring!Write(s, p) \in Measurings
<1> DEFINE run == s.runs[p]
           then == Measuring!Goes(Measuring!Kept(s, run), p, Measuring!Idle)
<1>1. /\ run.how \in Hows /\ run.result \in GoodResults
      /\ run.how # "hurried" => run.result \in TrueResults
  <2> s.runs[p] \in Runs
    BY DEF Measurings
  <2> QED BY TrueIsGood DEF Runs, Measuring!Idle, Hows
<1> HIDE DEF run
<1>2. then \in Measurings
  <2>1. Measuring!Kept(s, run) \in Measurings
    BY <1>1, KeptOn
  <2>2. Measuring!Idle \in Runs
    BY DEF Runs
  <2> QED BY <2>1, <2>2, GoesOn
<1> HIDE DEF then
<1>3. CASE run.how = "repair" /\ ~run.result.ok
  <2> Measuring!HandOver(then, p, run.result) \in Measurings
    BY <1>1, <1>2, <1>3, HandOverOn
  <2> QED BY <1>3 DEF Measuring!Write, then, run
<1>4. CASE ~(run.how = "repair" /\ ~run.result.ok)
  <2> Measuring!Says(then, "measured", run.how, run.result) \in Measurings
    BY <1>1, <1>2, SaysOn
  <2> QED BY <1>4 DEF Measuring!Write, then, run
<1> QED BY <1>3, <1>4

LEMMA KillOn ==
  ASSUME NEW s \in Measurings, NEW p \in Runners
  PROVE  Measuring!Kill(s, p) \in Measurings
<1> DEFINE run == s.runs[p]
           left == IF run.at = "write" THEN Measuring!Kept(s, [run EXCEPT !.result = Measuring!NoResult])
                   ELSE s
<1>1. left \in Measurings
  <2>1. CASE run.at = "write"
    <3>1. [run EXCEPT !.result = Measuring!NoResult].result = Measuring!NoResult
      <4> s.runs[p] \in Runs
        BY DEF Measurings
      <4> QED BY <2>1 DEF Runs, Measuring!Idle
    <3> QED BY <2>1, <3>1, KeptOn
  <2>2. CASE run.at # "write"
    BY <2>2
  <2> QED BY <2>1, <2>2
<1> HIDE DEF left
<1>2. Measuring!Idle \in Runs
  BY DEF Runs
<1>3. Measuring!Goes(left, p, Measuring!Idle) \in Measurings
  BY <1>1, <1>2, GoesOn
<1> QED BY <1>3 DEF Measuring!Kill, left

LEMMA MeasuringsOn ==
  ASSUME NEW s \in Measurings, NEW e \in Measuring!Events
  PROVE  Measuring!After(s, e) \in Measurings
<1> USE DEF Measuring!Events
<1>1. CASE e.is = "edit"
  BY <1>1 DEF Measuring!After, Measurings
<1>2. CASE e.is = "base"
  BY <1>2 DEF Measuring!After, Measurings
<1>3. CASE e.is = "check"
  <2>1. e.by \in Runners /\ e.how \in Hows
    BY <1>3 DEF Hows
  <2> QED BY <1>3, <2>1, RunCheckOn DEF Measuring!After
<1>4. CASE e.is = "repair"
  <2>1. e.by \in Runners
    BY <1>4
  <2> QED BY <1>4, <2>1, RepairOn DEF Measuring!After
<1>5. CASE e.is = "kill"
  <2>1. e.by \in Runners
    BY <1>5
  <2> QED BY <1>5, <2>1, KillOn DEF Measuring!After
<1>6. CASE e.is = "go"
  <2>1. e.by \in Runners /\ e.slow \in BOOLEAN
    BY <1>6
  <2>2. Measuring!After(s, e) = Measuring!Go(s, e.by, e.slow)
    BY <1>6 DEF Measuring!After
  <2>3. Measuring!RunCheck(s, e.by, "force") \in Measurings
    BY <2>1, RunCheckOn DEF Hows
  <2> QED BY <2>1, <2>2, <2>3, CommandsOn, WriteResultOn DEF Measuring!Go
<1> QED BY <1>1, <1>2, <1>3, <1>4, <1>5, <1>6

LEMMA MeasuredTyped ==
  ASSUME NEW n \in Nat, NEW happened \in [1..n -> Measuring!Events]
  PROVE  Measuring!Measured(happened) \in Measurings
<1> DEFINE Then(i, s) == Measuring!After(s, happened[i])
           F == [i \in 1..n |-> [s \in Measurings |-> Then(i, s)]]
<1>0. Measuring!Start \in Measurings
  <2>1. Measuring!Idle \in Runs /\ 1 \in Measuring!Trees /\ 1 \in Measuring!Bases
    BY DEF Runs, Measuring!Trees, Measuring!Bases
  <2> QED BY <2>1 DEF Measuring!Start, Measurings
<1>1. F \in [1..n -> [Measurings -> Measurings]]
  BY MeasuringsOn
<1>2. PICK g : Unfolds(g, n, Measurings, Measuring!Start, F)
  <2> HIDE DEF F
  <2> QED BY <1>0, <1>1, History
<1> HIDE DEF Then
<1> DEFINE Is(f) == f = [i \in 0..n |-> IF i = 0 THEN Measuring!Start ELSE Then(i, f[i - 1])]
           h == CHOOSE f : Is(f)
<1>3. Is(g)
  <2>1. \A i \in 1..n : g[i - 1] \in Measurings /\ F[i][g[i - 1]] = Then(i, g[i - 1])
    BY <1>2 DEF Unfolds
  <2> HIDE DEF F
  <2> QED BY <1>2, <2>1 DEF Unfolds
<1>4. Len(happened) = n
  OBVIOUS
<1>5. Measuring!Measured(happened) = h[n]
  BY <1>4 DEF Measuring!Measured, Then
<1>6. Is(h)
  <2> HIDE DEF Is
  <2> QED BY <1>3
<1> HIDE DEF h
<1> DEFINE P == {i \in 0..n : h[i] \in Measurings}
<1>7. 0 \in P
  BY <1>0, <1>6
<1>8. ASSUME NEW i \in 1..n, i - 1 \in P PROVE i \in P
  BY <1>6, <1>8, MeasuringsOn DEF Then
<1>9. \A i \in 0..n : i \in P
  <2> HIDE DEF P
  <2> QED BY <1>7, <1>8, Throughout
<1> QED BY <1>5, <1>9

LEMMA ResultsHold ==
  ASSUME NEW store \in Measurings
  PROVE  Measuring!ResultsAreOfTheTree(store)
<1> SUFFICES ASSUME NEW i \in DOMAIN store.answers
             PROVE  LET said == store.answers[i]
                        undisturbed == said.of.saw = said.tree /\ said.of.key = said.tree
                                       /\ said.of.base = said.base
                    IN /\ said.what = "cached" => said.of.key = said.tree /\ said.of.ok
                       /\ said.of.ok /\ undisturbed => Measuring!Holds(said.tree, said.base)
                       /\ ~said.of.ok /\ undisturbed /\ said.how # "hurried" =>
                            ~Measuring!Holds(said.tree, said.base)
  BY DEF Measuring!ResultsAreOfTheTree
<1> DEFINE said == store.answers[i]
<1>1. said \in Answers
  <2> store.answers \in Seq(Answers)
    BY DEF Measurings
  <2> QED OBVIOUS
<1> HIDE DEF said
<1>2. /\ said.of.ok => Found(said.of)
      /\ said.how # "hurried" => (said.of.ok <=> Found(said.of))
  BY <1>1 DEF Answers, GoodResults, TrueResults
<1>3. said.what = "cached" => said.of.key = said.tree /\ said.of.ok
  BY <1>1 DEF Answers
<1> QED BY <1>2, <1>3 DEF Found, Measuring!Holds, said

-----------------------------------------------------------------------------
(* Memory, what a stage is told: sorting *)

\* R orders D: of two that differ one comes first, and never both.
IsOrder(R, D) ==
  /\ \A x \in D : x \notin R[x]
  /\ \A x, y \in D : x # y => y \in R[x] \/ x \in R[y]
  /\ \A x, y, z \in D : y \in R[x] /\ z \in R[y] => z \in R[x]

Sorted(f, R, some) ==
  /\ f \in [1..Cardinality(some) -> some]
  /\ \A x \in some : \E i \in 1..Cardinality(some) : f[i] = x
  /\ \A i, j \in 1..Cardinality(some) : i < j => f[j] \in R[f[i]]

\* Of what is ordered, some is last.
LEMMA SomeLast ==
  ASSUME NEW D, NEW R, IsOrder(R, D), NEW some \in SUBSET D, IsFiniteSet(some), some # {}
  PROVE  \E x \in some : \A y \in some \ {x} : x \in R[y]
<1> DEFINE After(x) == {y \in some : y \in R[x]}
           T == {After(x) : x \in some}
<1>1. \A x \in some : IsFiniteSet(After(x))
  BY FS_Subset
<1>2. T \subseteq FiniteSubsetsOf(some) /\ T # {}
  BY <1>1 DEF FiniteSubsetsOf
<1>3. IsWellFoundedOn(StrictSubsetOrdering(some), FiniteSubsetsOf(some))
  BY FS_StrictSubsetOrderingWellFounded
<1>4. PICK U \in T : \A V \in T : <<V, U>> \notin StrictSubsetOrdering(some)
  <2> HIDE DEF T
  <2> QED BY <1>2, <1>3, WFMin
<1>5. PICK x \in some : U = After(x)
  OBVIOUS
<1>6. \A y \in some : y \notin R[x]
  <2> SUFFICES ASSUME NEW y \in some, y \in R[x] PROVE FALSE
    OBVIOUS
  <2>1. After(y) \subseteq After(x) /\ y \in After(x) /\ y \notin After(y)
    BY DEF IsOrder
  <2>2. <<After(y), After(x)>> \in StrictSubsetOrdering(some)
    BY <2>1 DEF StrictSubsetOrdering
  <2> QED BY <1>4, <1>5, <2>2
<1> QED BY <1>6 DEF IsOrder

\* Whatever is ordered can be put in order.
LEMMA Sortable ==
  ASSUME NEW D, NEW R, IsOrder(R, D), NEW some \in SUBSET D, IsFiniteSet(some)
  PROVE  \E f : Sorted(f, R, some)
<1> DEFINE n == Cardinality(some)
           P == {k \in 0..n : \A s \in SUBSET some : Cardinality(s) = k => \E f : Sorted(f, R, s)}
<1>0. n \in Nat /\ \A s \in SUBSET some : IsFiniteSet(s)
  BY FS_CardinalityType, FS_Subset
<1> HIDE DEF n
<1>1. 0 \in P
  <2> SUFFICES ASSUME NEW s \in SUBSET some, Cardinality(s) = 0 PROVE \E f : Sorted(f, R, s)
    BY <1>0
  <2>1. s = {}
    BY <1>0, FS_EmptySet
  <2>2. Sorted(<<>>, R, s)
    BY <2>1, FS_EmptySet DEF Sorted
  <2> QED BY <2>2
<1>2. ASSUME NEW k \in 1..n, k - 1 \in P PROVE k \in P
  <2> SUFFICES ASSUME NEW s \in SUBSET some, Cardinality(s) = k PROVE \E f : Sorted(f, R, s)
    BY <1>0
  <2>1. IsFiniteSet(s) /\ s # {}
    BY <1>0, FS_EmptySet
  <2>2. PICK x \in s : \A y \in s \ {x} : x \in R[y]
    BY <2>1, SomeLast
  <2> DEFINE rest == s \ {x}
  <2>3. rest \in SUBSET some /\ Cardinality(rest) = k - 1
    BY <2>1, <1>0, FS_RemoveElement
  <2>4. PICK g : Sorted(g, R, rest)
    BY <2>3, <1>2
  <2> DEFINE f == [i \in 1..k |-> IF i = k THEN x ELSE g[i]]
  <2>5. ASSUME NEW i \in 1..k, i # k PROVE i \in 1..(k - 1)
    BY <2>5
  <2>6. g \in [1..(k - 1) -> rest]
    BY <2>4, <2>3 DEF Sorted
  <2>7. \A i \in 1..k : i # k => f[i] = g[i] /\ g[i] \in rest
    BY <2>5, <2>6
  <2>8. f[k] = x /\ f \in [1..k -> s]
    BY <2>7
  <2>9. \A y \in s : \E i \in 1..k : f[i] = y
    <3> SUFFICES ASSUME NEW y \in s, y # x PROVE \E i \in 1..k : f[i] = y
      BY <2>8
    <3>1. PICK i \in 1..(k - 1) : g[i] = y
      BY <2>4, <2>3 DEF Sorted
    <3> i \in 1..k /\ i # k
      OBVIOUS
    <3> QED BY <2>7, <3>1
  <2>10. ASSUME NEW i \in 1..k, NEW j \in 1..k, i < j PROVE f[j] \in R[f[i]]
    <3>1. i # k /\ i \in 1..(k - 1)
      BY <2>10
    <3>2. CASE j = k
      BY <3>1, <3>2, <2>7, <2>8, <2>2
    <3>3. CASE j # k
      <4> j \in 1..(k - 1)
        BY <3>3
      <4>1. g[j] \in R[g[i]]
        BY <2>4, <2>3, <3>1, <2>10 DEF Sorted
      <4> QED BY <4>1, <3>1, <3>3, <2>7
    <3> QED BY <3>2, <3>3
  <2> HIDE DEF f
  <2>11. Sorted(f, R, s)
    BY <2>8, <2>9, <2>10 DEF Sorted
  <2> QED BY <2>11
<1>3. n \in P
  <2> HIDE DEF P
  <2> QED BY <1>0, <1>1, <1>2, Throughout
<1> QED BY <1>3 DEF n

-----------------------------------------------------------------------------
(* Ranks *)

Ranks == {<<a, b, c, d, e, f>> : a, b, c, d, e, f \in Int}

LEMMA RankTyped ==
  ASSUME NEW x \in Ranks PROVE DOMAIN x = 1..6 /\ \A i \in 1..6 : x[i] \in Int
BY DEF Ranks

LEMMA BelowOrders ==
  /\ \A x \in Ranks : ~Recall!Below(x, x)
  /\ \A x, y \in Ranks : x[6] # y[6] => Recall!Below(x, y) \/ Recall!Below(y, x)
  /\ \A x, y, z \in Ranks : Recall!Below(x, y) /\ Recall!Below(y, z) => Recall!Below(x, z)
<1> USE RankTyped
<1>1. \A x \in Ranks : ~Recall!Below(x, x)
  BY DEF Recall!Below
<1>2. ASSUME NEW x \in Ranks, NEW y \in Ranks, x[6] # y[6]
      PROVE  Recall!Below(x, y) \/ Recall!Below(y, x)
  <2> DEFINE P == {k \in 0..6 : \A j \in 1..k : x[j] = y[j]}
  <2>1. 6 \notin P
    BY <1>2
  <2>2. PICK k \in 1..6 : k - 1 \in P /\ k \notin P
    <3> SUFFICES ASSUME \A k \in 1..6 : k - 1 \in P => k \in P PROVE FALSE
      OBVIOUS
    <3>1. 0 \in P
      OBVIOUS
    <3> HIDE DEF P
    <3>2. \A k \in 0..6 : k \in P
      BY <3>1, Throughout
    <3> QED BY <2>1, <3>2
  <2>3. \A j \in 1..(k - 1) : x[j] = y[j]
    BY <2>2
  <2>4. x[k] # y[k]
    <3> SUFFICES ASSUME x[k] = y[k] PROVE FALSE
      OBVIOUS
    <3>1. \A j \in 1..k : x[j] = y[j]
      <4> SUFFICES ASSUME NEW j \in 1..k PROVE x[j] = y[j]
        OBVIOUS
      <4> j = k \/ j \in 1..(k - 1)
        OBVIOUS
      <4> QED BY <2>3
    <3> QED BY <3>1, <2>2
  <2>5. x[k] < y[k] \/ y[k] < x[k]
    BY <2>4
  <2> QED BY <2>3, <2>5 DEF Recall!Below
<1>3. ASSUME NEW x \in Ranks, NEW y \in Ranks, NEW z \in Ranks,
             Recall!Below(x, y), Recall!Below(y, z)
      PROVE  Recall!Below(x, z)
  <2>1. PICK i \in 1..6 : x[i] < y[i] /\ \A j \in 1..(i - 1) : x[j] = y[j]
    BY <1>3 DEF Recall!Below
  <2>2. PICK k \in 1..6 : y[k] < z[k] /\ \A j \in 1..(k - 1) : y[j] = z[j]
    BY <1>3 DEF Recall!Below
  <2> DEFINE m == IF i <= k THEN i ELSE k
  <2>3. m \in 1..6 /\ \A j \in 1..(m - 1) : j \in 1..6 /\ j \in 1..(i - 1) /\ j \in 1..(k - 1)
    OBVIOUS
  <2>4. x[m] < z[m]
    <3>1. CASE i < k
      BY <3>1, <2>1, <2>2
    <3>2. CASE i = k
      BY <3>2, <2>1, <2>2
    <3>3. CASE k < i
      BY <3>3, <2>1, <2>2
    <3> QED BY <3>1, <3>2, <3>3
  <2>5. \A j \in 1..(m - 1) : x[j] = z[j]
    BY <2>3, <2>1, <2>2
  <2> HIDE DEF m
  <2> QED BY <2>3, <2>4, <2>5 DEF Recall!Below
<1> QED BY <1>1, <1>2, <1>3

\* The bases, and how good each is.
LEMMA BasesRanked ==
  /\ Recall!Range(Recall!Bases) = {"test-receipt", "reviewed", "owner", "single-source", "inferred"}
  /\ Recall!BasisRank("test-receipt") = 1 /\ Recall!BasisRank("reviewed") = 2
  /\ Recall!BasisRank("owner") = 3 /\ Recall!BasisRank("single-source") = 4
  /\ Recall!BasisRank("inferred") = 5
<1>1. /\ Len(Recall!Bases) = 5 /\ DOMAIN Recall!Bases = 1..5
      /\ Recall!Bases[1] = "test-receipt" /\ Recall!Bases[2] = "reviewed"
      /\ Recall!Bases[3] = "owner" /\ Recall!Bases[4] = "single-source"
      /\ Recall!Bases[5] = "inferred"
  BY DEF Recall!Bases
<1>2. \A i \in 1..5 : i = 1 \/ i = 2 \/ i = 3 \/ i = 4 \/ i = 5
  OBVIOUS
<1>3. Recall!Range(Recall!Bases) = {Recall!Bases[i] : i \in 1..5}
  BY <1>1 DEF Recall!Range
<1> HIDE DEF Recall!Bases
<1>4. \A i \in 1..5 : Recall!BasisRank(Recall!Bases[i]) = i
  <2> SUFFICES ASSUME NEW i \in 1..5 PROVE Recall!BasisRank(Recall!Bases[i]) = i
    OBVIOUS
  <2>1. \A j \in 1..5 : Recall!Bases[j] = Recall!Bases[i] => j = i
    BY <1>1, <1>2
  <2> QED BY <2>1, <1>1 DEF Recall!BasisRank
<1> QED BY <1>1, <1>2, <1>3, <1>4

LEMMA SameCount == \A S : Recall!Cardinality(S) = Cardinality(S)
BY DEF Recall!Cardinality, Cardinality, Recall!IsFiniteSet, IsFiniteSet

LEMMA BasisTyped ==
  ASSUME NEW written, NEW past, Recall!AreEvents(past), NEW r
  PROVE  /\ Recall!Basis(r, written, past) \in Recall!Range(Recall!Bases)
         /\ Recall!Basis(r, written, past) \in Recall!Strong <=>
              \E e \in past : e.kind = "review" /\ e.record = r /\ e.basis \in Recall!Strong
<1> DEFINE given == {e.basis : e \in {x \in past : x.kind = "review" /\ x.record = r}} \ {"none"}
           All == {"test-receipt", "reviewed", "owner", "single-source", "inferred"}
<1>1. given \subseteq All
  BY BasesRanked DEF Recall!AreEvents
<1>2. Recall!Strong \subseteq All /\ "none" \notin Recall!Strong
  BY DEF Recall!Strong
<1>3. (\E b \in given : b \in Recall!Strong) <=>
        \E e \in past : e.kind = "review" /\ e.record = r /\ e.basis \in Recall!Strong
  BY <1>2
<1> HIDE DEF given
<1>4. CASE given = {}
  <2>1. Recall!Basis(r, written, past) = Recall!DefaultBasis(written[r])
    BY <1>4 DEF Recall!Basis, given
  <2>2. Recall!DefaultBasis(written[r]) \in {"single-source", "inferred"}
    BY DEF Recall!DefaultBasis
  <2>3. "single-source" \notin Recall!Strong /\ "inferred" \notin Recall!Strong
    BY DEF Recall!Strong
  <2> QED BY <2>1, <2>2, <2>3, <1>3, <1>4, BasesRanked
<1>5. CASE given # {}
  <2> DEFINE Best(b) == b \in given /\ \A c \in given : Recall!BasisRank(b) <= Recall!BasisRank(c)
  <2>1. Recall!Basis(r, written, past) =
          CHOOSE b \in given : \A c \in given : Recall!BasisRank(b) <= Recall!BasisRank(c)
    BY <1>5 DEF Recall!Basis, given
  <2>0. \A b \in given : Recall!BasisRank(b) \in 1..5
    BY <1>1, BasesRanked
  <2>2. \E b \in given : \A c \in given : Recall!BasisRank(b) <= Recall!BasisRank(c)
    <3> DEFINE S == {5 - Recall!BasisRank(b) : b \in given}
    <3>1. S \in SUBSET (0..5) /\ S # {}
      BY <2>0, <1>5
    <3>2. PICK x \in S : \A y \in S : x >= y
      <4> HIDE DEF S
      <4> QED BY <3>1, Greatest
    <3>3. PICK b \in given : x = 5 - Recall!BasisRank(b)
      OBVIOUS
    <3>4. ASSUME NEW c \in given PROVE Recall!BasisRank(b) <= Recall!BasisRank(c)
      <4>1. x >= 5 - Recall!BasisRank(c)
        BY <3>2
      <4> QED BY <4>1, <3>3, <2>0
    <3> QED BY <3>4
  <2>3. Best(Recall!Basis(r, written, past))
    BY <2>1, <2>2
  <2>4. \A b \in All : b \in Recall!Strong <=> Recall!BasisRank(b) <= 3
    BY BasesRanked DEF Recall!Strong
  <2>5. ASSUME NEW c \in given, c \in Recall!Strong
        PROVE  Recall!Basis(r, written, past) \in Recall!Strong
    <3> DEFINE b == Recall!Basis(r, written, past)
    <3>1. Recall!BasisRank(c) <= 3 /\ Recall!BasisRank(c) \in 1..5
      BY <2>4, <2>5, <1>1, <2>0
    <3>2. b \in given /\ Recall!BasisRank(b) <= Recall!BasisRank(c)
      BY <2>3
    <3>3. b \in All /\ Recall!BasisRank(b) \in 1..5
      BY <3>2, <2>0, <1>1
    <3> HIDE DEF b
    <3>4. Recall!BasisRank(b) <= 3
      BY <3>1, <3>2, <3>3
    <3> QED BY <3>3, <3>4, <2>4 DEF b
  <2>6. Recall!Basis(r, written, past) \in All
    BY <2>3, <1>1
  <2> QED BY <2>3, <2>5, <2>6, <1>3, BasesRanked
<1> QED BY <1>4, <1>5

\* What a selection is of: the written, and what has happened.
Remembered(written, past) == Recall!AreRecords(written) /\ Recall!AreEvents(past)

Outranking(written, past, ask) ==
  [r \in DOMAIN written |-> {s \in DOMAIN written : Recall!Outranks(written, past, ask, r, s)}]

LEMMA OutranksOrders ==
  ASSUME NEW written, NEW past, Remembered(written, past), NEW ask
  PROVE  IsOrder(Outranking(written, past, ask), DOMAIN written)
<1> DEFINE D == DOMAIN written
           k(r) == Recall!Rank(r, written, past, ask)
<1>1. \A r \in D : r \in Int /\ written[r].from \in Int
  BY DEF Remembered, Recall!AreRecords
<1>2. \A r \in D : Recall!BasisRank(Recall!Basis(r, written, past)) \in Int
  BY BasisTyped, BasesRanked DEF Remembered
<1>3. \A r \in D : k(r) \in Ranks /\ k(r)[6] = r
  <2> SUFFICES ASSUME NEW r \in D PROVE k(r) \in Ranks /\ k(r)[6] = r
    OBVIOUS
  <2>1. \A b \in BOOLEAN : (IF b THEN 0 ELSE 1) \in Int
    OBVIOUS
  <2>2. -written[r].from \in Int
    BY <1>1
  <2> QED BY <1>1, <1>2, <2>1, <2>2 DEF Ranks, Recall!Rank
<1>4. \A r, s \in D : s \in Outranking(written, past, ask)[r] <=> Recall!Below(k(r), k(s))
  <2> SUFFICES ASSUME NEW r \in D, NEW s \in D
               PROVE  s \in Outranking(written, past, ask)[r] <=> Recall!Below(k(r), k(s))
    OBVIOUS
  <2> QED BY DEF Outranking, Recall!Outranks
<1> HIDE DEF k, D
<1>5. \A r \in D : r \notin Outranking(written, past, ask)[r]
  BY <1>3, <1>4, BelowOrders
<1>6. \A r, s \in D : r # s => \/ s \in Outranking(written, past, ask)[r]
                              \/ r \in Outranking(written, past, ask)[s]
  BY <1>3, <1>4, BelowOrders
<1>7. \A r, s, t \in D :
         s \in Outranking(written, past, ask)[r] /\ t \in Outranking(written, past, ask)[s]
           => t \in Outranking(written, past, ask)[r]
  BY <1>3, <1>4, BelowOrders
<1> QED BY <1>5, <1>6, <1>7 DEF IsOrder, D

\* The sort gives all of some written, each once, in their order.
LEMMA RankedSorts ==
  ASSUME NEW written, NEW past, Remembered(written, past), NEW ask,
         NEW some \in SUBSET DOMAIN written
  PROVE  LET ranked == Recall!Ranked(written, past, ask, some) IN
         /\ IsFiniteSet(some) /\ Cardinality(some) \in Nat
         /\ ranked \in [1..Cardinality(some) -> some]
         /\ Recall!Range(ranked) = some
         /\ \A i, j \in 1..Cardinality(some) :
              i < j => Recall!Outranks(written, past, ask, ranked[i], ranked[j])
<1> DEFINE R == Outranking(written, past, ask)
           n == Cardinality(some)
           Is(f) == /\ f \in [1..n -> some]
                    /\ Recall!Range(f) = some
                    /\ \A i, j \in DOMAIN f : i < j => Recall!Outranks(written, past, ask, f[i], f[j])
<1>1. IsFiniteSet(some) /\ n \in Nat
  <2>1. IsFiniteSet(DOMAIN written)
    BY FS_Interval DEF Remembered, Recall!AreRecords
  <2> QED BY <2>1, FS_Subset, FS_CardinalityType
<1>2. PICK g : Sorted(g, R, some)
  <2> HIDE DEF R
  <2> QED BY <1>1, OutranksOrders, Sortable DEF R
<1>3. Is(g)
  <2>1. g \in [1..n -> some] /\ \A x \in some : \E i \in 1..n : g[i] = x
    BY <1>2 DEF Sorted
  <2>2. Recall!Range(g) = some
    BY <2>1 DEF Recall!Range
  <2>3. \A i, j \in 1..n : i < j => g[j] \in R[g[i]]
    BY <1>2 DEF Sorted
  <2>4. \A r, s \in some : s \in R[r] => Recall!Outranks(written, past, ask, r, s)
    BY DEF Outranking
  <2> HIDE DEF R, n
  <2> QED BY <2>1, <2>2, <2>3, <2>4
<1>4. Recall!Ranked(written, past, ask, some) = CHOOSE f : Is(f)
  BY SameCount DEF Recall!Ranked
<1> HIDE DEF n
<1>5. Is(Recall!Ranked(written, past, ask, some))
  <2> HIDE DEF Is
  <2> QED BY <1>3, <1>4
<1> QED BY <1>1, <1>5 DEF n

-----------------------------------------------------------------------------
(* What is picked *)

\* What is picked from: some written in a row, each once, the first of them reserved.
InARow(n, some, ranked, first) ==
  /\ n \in Nat /\ ranked \in [1..n -> some] /\ Recall!Range(ranked) = some
  /\ \A i, j \in 1..n : ranked[i] = ranked[j] => i = j
  /\ first \in SUBSET some

\* What is picked, record by record.
Fills(g, written, ask, n, some, ranked, first) ==
  /\ g \in [0..n -> SUBSET some] /\ g[0] = first
  /\ \A i \in 1..n : g[i] = IF Recall!Fits(written, g[i - 1] \cup {ranked[i]}, ask)
                            THEN g[i - 1] \cup {ranked[i]} ELSE g[i - 1]

LEMMA FilledSteps ==
  ASSUME NEW written, NEW ask, NEW n, NEW some, NEW ranked, NEW first,
         InARow(n, some, ranked, first)
  PROVE  \E g : /\ Fills(g, written, ask, n, some, ranked, first)
                /\ Recall!Fill(written, first, ranked, ask) = g[n]
<1> DEFINE Then(i, t) == IF Recall!Fits(written, t \cup {ranked[i]}, ask)
                         THEN t \cup {ranked[i]} ELSE t
           S == SUBSET some
           F == [i \in 1..n |-> [t \in S |-> Then(i, t)]]
<1>0. n \in Nat /\ ranked \in [1..n -> some] /\ first \in SUBSET some /\ Len(ranked) = n
  BY DEF InARow
<1> HIDE DEF Then
<1>1. \A i \in 1..n, t \in S : Then(i, t) \in S
  BY <1>0 DEF Then
<1>2. F \in [1..n -> [S -> S]]
  BY <1>1
<1>3. n \in Nat /\ first \in S
  BY <1>0
<1>4. PICK g : Unfolds(g, n, S, first, F)
  <2> HIDE DEF F, S
  <2> QED BY <1>2, <1>3, History
<1> DEFINE Is(f) == f = [i \in 0..n |-> IF i = 0 THEN first ELSE Then(i, f[i - 1])]
<1>5. \A i \in 1..n : g[i - 1] \in S /\ g[i] = Then(i, g[i - 1])
  <2>1. \A i \in 1..n : g[i - 1] \in S /\ F[i][g[i - 1]] = Then(i, g[i - 1])
    <3>1. \A i \in 1..n : i - 1 \in 0..n
      BY <1>0
    <3>2. \A i \in 1..n : g[i - 1] \in S
      BY <3>1, <1>4 DEF Unfolds
    <3> HIDE DEF S
    <3> QED BY <3>2
  <2> HIDE DEF F, S
  <2> QED BY <1>4, <2>1 DEF Unfolds
<1>6. Is(g)
  <2> HIDE DEF F, S
  <2> QED BY <1>4, <1>5 DEF Unfolds
<1> DEFINE picked == CHOOSE f : Is(f)
<1>7. Recall!Fill(written, first, ranked, ask) = picked[n]
  BY <1>0 DEF Recall!Fill, Then
<1>8. Is(picked)
  <2> HIDE DEF Is
  <2> QED BY <1>6
<1> HIDE DEF picked, F
<1>9. picked[0] = first /\ \A i \in 1..n : picked[i] = Then(i, picked[i - 1])
  BY <1>0, <1>8
<1>10. picked \in [0..n -> S]
  <2> DEFINE P == {i \in 0..n : picked[i] \in S}
  <2> HIDE DEF S
  <2>2. 0 \in P /\ \A i \in 1..n : i - 1 \in P => i \in P
    BY <1>9, <1>1, <1>3
  <2>3. \A i \in 0..n : i \in P
    <3> HIDE DEF P
    <3> QED BY <1>0, <2>2, Throughout
  <2> QED BY <1>8, <2>3
<1>11. Fills(picked, written, ask, n, some, ranked, first)
  BY <1>0, <1>9, <1>10 DEF Then, Fills
<1> QED BY <1>7, <1>11

\* Beside the first, what fits is picked in turn, and nothing else.
LEMMA FillPicks ==
  ASSUME NEW written, NEW ask, NEW n, NEW some, NEW ranked, NEW first,
         InARow(n, some, ranked, first), Recall!Fits(written, first, ask)
  PROVE  LET kept == Recall!Fill(written, first, ranked, ask)
             Ahead(i) == {ranked[j] : j \in 1..(i - 1)}
         IN /\ first \subseteq kept /\ kept \subseteq some
            /\ Recall!Fits(written, kept, ask)
            /\ \A i \in 1..n : ranked[i] \notin kept =>
                 ~Recall!Fits(written, first \cup (kept \cap Ahead(i)) \cup {ranked[i]}, ask)
<1> DEFINE kept == Recall!Fill(written, first, ranked, ask)
           Ahead(i) == {ranked[j] : j \in 1..(i - 1)}
<1>1. PICK g : Fills(g, written, ask, n, some, ranked, first) /\ kept = g[n]
  BY FilledSteps
<1> USE DEF Fills
<1>0. /\ n \in Nat /\ ranked \in [1..n -> some] /\ Recall!Range(ranked) = some
      /\ \A i, j \in 1..n : ranked[i] = ranked[j] => i = j
      /\ first \in SUBSET some
  BY DEF InARow
<1> HIDE DEF kept
<1> DEFINE P == {i \in 0..n : /\ first \subseteq g[i] /\ Recall!Fits(written, g[i], ask)
                              /\ g[i] \subseteq first \cup Ahead(i + 1)
                              /\ \A j \in 0..i : g[j] = first \cup (g[i] \cap Ahead(j + 1))}
<1>2. 0 \in P
  BY <1>0, <1>1
<1>3. ASSUME NEW i \in 1..n, i - 1 \in P PROVE i \in P
  <2> DEFINE h == g[i - 1]
  <2>0. /\ h \in SUBSET some /\ first \subseteq h /\ Recall!Fits(written, h, ask)
        /\ h \subseteq first \cup Ahead(i)
        /\ \A j \in 0..(i - 1) : g[j] = first \cup (h \cap Ahead(j + 1))
    BY <1>0, <1>1, <1>3
  <2>1. g[i] = IF Recall!Fits(written, h \cup {ranked[i]}, ask) THEN h \cup {ranked[i]} ELSE h
    BY <1>0, <1>1
  <2> HIDE DEF h
  <2>2. Ahead(i + 1) = Ahead(i) \cup {ranked[i]}
    <3>1. 1..(i + 1 - 1) = 1..(i - 1) \cup {i}
      OBVIOUS
    <3> QED BY <3>1
  <2>3. first \subseteq g[i] /\ Recall!Fits(written, g[i], ask) /\ g[i] \subseteq first \cup Ahead(i + 1)
    BY <2>0, <2>1, <2>2
  <2>4. ASSUME NEW j \in 0..i PROVE g[j] = first \cup (g[i] \cap Ahead(j + 1))
    <3>1. CASE j = i
      BY <2>3, <3>1
    <3>2. CASE j # i
      <4>1. j \in 0..(i - 1)
        BY <3>2
      <4>2. ranked[i] \notin Ahead(j + 1)
        <5> SUFFICES ASSUME NEW k \in 1..j, ranked[k] = ranked[i] PROVE FALSE
          OBVIOUS
        <5>1. k \in 1..n /\ k # i
          BY <4>1, <1>0
        <5> QED BY <5>1, <1>0
      <4>3. g[i] \cap Ahead(j + 1) = h \cap Ahead(j + 1)
        BY <4>2, <2>1
      <4> HIDE DEF Ahead
      <4> QED BY <2>0, <4>1, <4>3
    <3> QED BY <3>1, <3>2
  <2> HIDE DEF Ahead
  <2> QED BY <2>3, <2>4
<1>4. \A i \in 0..n : i \in P
  <2> HIDE DEF P
  <2> QED BY <1>0, <1>2, <1>3, Throughout
<1>5. n \in P
  <2> HIDE DEF P
  <2> QED BY <1>0, <1>4
<1>6. ASSUME NEW i \in 1..n, ranked[i] \notin kept
      PROVE  ~Recall!Fits(written, first \cup (kept \cap Ahead(i)) \cup {ranked[i]}, ask)
  <2> HIDE DEF Ahead
  <2>1. i - 1 \in 0..n /\ (i - 1) + 1 = i
    BY <1>0
  <2>2. g[i - 1] = first \cup (kept \cap Ahead(i))
    BY <1>1, <1>5, <2>1
  <2>3. g[i] = first \cup (kept \cap Ahead(i + 1))
    BY <1>1, <1>5
  <2>4. ranked[i] \in Ahead(i + 1)
    BY <1>0 DEF Ahead
  <2>5. ranked[i] \notin first
    BY <1>1, <1>5, <1>6
  <2>6. ranked[i] \notin g[i]
    BY <2>3, <2>5, <1>6
  <2>7. ~Recall!Fits(written, g[i - 1] \cup {ranked[i]}, ask)
    BY <1>1, <2>6
  <2> QED BY <2>7, <2>2
<1> HIDE DEF Ahead
<1>7. first \subseteq kept /\ kept \subseteq some /\ Recall!Fits(written, kept, ask)
  BY <1>1, <1>5
<1> QED BY <1>6, <1>7 DEF kept, Ahead

-----------------------------------------------------------------------------
(* What is told *)

\* Who is chosen is whom it concerns, and who stands.
LEMMA ChosenStand ==
  ASSUME NEW store, NEW ask, Recall!AreRecords(store.records), Recall!AreEvents(store.events)
  PROVE  LET today == Recall!SoFar(store.events, ask.now) IN
         /\ Recall!AreEvents(today)
         /\ Recall!Chosen(store.records, today, ask) =
              {r \in DOMAIN store.records :
                 Recall!Concerns(store.records[r], ask) /\ Recall!Stands(r, store, ask.now)}
<1> DEFINE written == store.records
           today == Recall!SoFar(store.events, ask.now)
           Open(r, o) == \E e \in today : e.kind = "conflict" /\ {e.record, e.other} = {r, o}
           closed(o) == \E e \in today : e.kind \in Recall!Closing /\ e.record = o
<1>1. Recall!AreEvents(today)
  BY DEF Recall!AreEvents, Recall!SoFar
<1>2. \A o : Recall!ClosedAt(o, today) = {} <=> ~closed(o)
  BY DEF Recall!ClosedAt
<1>3. ASSUME NEW r \in DOMAIN written
      PROVE  LET view == Recall!Derive(r, written, today) IN
             view.status = "confirmed" /\ Recall!ValidAt(written[r], view, ask.now)
               <=> Recall!Stands(r, store, ask.now)
  <2> DEFINE view == Recall!Derive(r, written, today)
  <2>1. view.status = "confirmed" <=>
          /\ ~closed(r) /\ Recall!OpenConflicts(r, written, today) = {}
          /\ Recall!Basis(r, written, today) \in Recall!Strong
    BY <1>2 DEF Recall!Derive
  <2>2. Recall!Basis(r, written, today) \in Recall!Strong <=>
          \E e \in today : e.kind = "review" /\ e.record = r /\ e.basis \in Recall!Strong
    BY <1>1, BasisTyped
  <2>3. ~closed(r) => view.until = written[r].until
    <3>1. ~closed(r) => view.until = Recall!Min({written[r].until})
      BY <1>2 DEF Recall!Derive
    <3>2. Recall!Min({written[r].until}) = written[r].until
      BY DEF Recall!Min, Recall!AreRecords
    <3> QED BY <3>1, <3>2
  <2>4. ~closed(r) =>
          (Recall!OpenConflicts(r, written, today) = {} <=>
             \A e \in today : e.kind = "conflict" /\ r \in {e.record, e.other} =>
               \A o \in ({e.record, e.other} \cap DOMAIN written) \ {r} : closed(o))
    <3> SUFFICES ASSUME ~closed(r)
                 PROVE  Recall!OpenConflicts(r, written, today) = {} <=>
             \A e \in today : e.kind = "conflict" /\ r \in {e.record, e.other} =>
               \A o \in ({e.record, e.other} \cap DOMAIN written) \ {r} : closed(o)
      OBVIOUS
    <3>1. Recall!OpenConflicts(r, written, today) =
            {o \in DOMAIN written \ {r} : Open(r, o) /\ ~closed(o)}
      BY <1>2 DEF Recall!OpenConflicts
    <3> HIDE DEF closed, today, written
    <3>2. ASSUME NEW o \in DOMAIN written \ {r}
          PROVE  Open(r, o) <=> \E e \in today : e.kind = "conflict" /\ r \in {e.record, e.other}
                                                 /\ o \in {e.record, e.other}
      OBVIOUS
    <3> HIDE DEF Open
    <3> QED BY <3>1, <3>2
  <2>5. Recall!Stands(r, store, ask.now) <=>
          /\ \E e \in today : e.kind = "review" /\ e.record = r /\ e.basis \in Recall!Strong
          /\ written[r].from <= ask.now /\ ask.now < written[r].until
          /\ ~closed(r)
          /\ \A e \in today : e.kind = "conflict" /\ r \in {e.record, e.other} =>
               \A o \in ({e.record, e.other} \cap DOMAIN written) \ {r} : closed(o)
    BY DEF Recall!Stands, Recall!SoFar
  <2>6. Recall!ValidAt(written[r], view, ask.now) <=>
          written[r].from <= ask.now /\ ask.now < view.until
    BY DEF Recall!ValidAt
  <2> HIDE DEF view, today, written, closed
  <2> QED BY <2>1, <2>2, <2>3, <2>4, <2>5, <2>6 DEF view
<1>4. Recall!Chosen(written, today, ask) =
        {r \in DOMAIN written : Recall!Concerns(written[r], ask) /\ Recall!Stands(r, store, ask.now)}
  BY <1>3 DEF Recall!Chosen
<1> QED BY <1>1, <1>4

\* Nothing that happens later changes what had happened.
LEMMA SoFarStands ==
  \A happened, now : Recall!SoFar(Recall!SoFar(happened, now), now) = Recall!SoFar(happened, now)
BY DEF Recall!SoFar

LEMMA SelectsRightly ==
  ASSUME NEW store, NEW ask, Recall!AreRecords(store.records), Recall!AreEvents(store.events)
  PROVE  Recall!SelectionIsRight(store, ask, Recall!Select(store, ask))
<1> DEFINE written == store.records
           today == Recall!SoFar(store.events, ask.now)
           chosen == Recall!Chosen(written, today, ask)
           first == {r \in chosen : Recall!Mandatory(written[r])}
           order == Recall!Ranked(written, today, ask, chosen)
           kept == Recall!Fill(written, first, order, ask)
           listed == Recall!Ranked(written, today, ask, kept)
           due(r) == Recall!Concerns(written[r], ask) /\ Recall!Stands(r, store, ask.now)
           given == Recall!Select(store, ask)
           n == Cardinality(chosen)
           before(r) == {s \in kept : Recall!Outranks(written, today, ask, s, r)}
<1>1. Remembered(written, today) /\ chosen = {r \in DOMAIN written : due(r)}
  BY ChosenStand DEF Remembered
<1>2. given = IF ~Recall!Fits(written, first, ask) THEN [refused |-> TRUE, ids |-> <<>>]
              ELSE [refused |-> FALSE, ids |-> listed]
  BY DEF Recall!Select, Recall!SelectFrom
<1>3. given = Recall!Select([store EXCEPT !.events = today], ask)
  <2>1. /\ [store EXCEPT !.events = today].records = written
        /\ Recall!SoFar([store EXCEPT !.events = today].events, ask.now) = today
    BY SoFarStands
  <2> QED BY <2>1 DEF Recall!Select
<1>4. first = {r \in DOMAIN written : due(r) /\ "policy" \in written[r].topics}
  BY <1>1 DEF Recall!Mandatory
<1>5. first \subseteq chosen /\ chosen \subseteq DOMAIN written /\ \A r \in chosen : due(r)
  BY <1>1
<1>6. \A r \in DOMAIN written : due(r) => r \in chosen
  BY <1>1
<1> DEFINE Right(g, told) ==
      /\ first \subseteq told
      /\ Recall!Cardinality(told) = Len(g.ids) /\ Recall!Fits(written, told, ask)
      /\ \A r \in told : due(r)
      /\ \A r \in DOMAIN written \ told : due(r) =>
           ~Recall!Fits(written,
              first \cup {s \in told : Recall!Outranks(written, today, ask, s, r)} \cup {r}, ask)
<1>13. ASSUME NEW g
       PROVE  Recall!SelectionIsRight(store, ask, g) <=>
                /\ g.refused <=> ~Recall!Fits(written, first, ask)
                /\ ~g.refused => Right(g, Recall!Range(g.ids))
                /\ g = Recall!Select([store EXCEPT !.events = today], ask)
  <2> HIDE DEF first, chosen
  <2> QED BY <1>4 DEF Recall!SelectionIsRight, Recall!SoFar
<1> HIDE DEF written, today, chosen, first, order, kept, listed, due, given, n, Right
<1>7. /\ n \in Nat /\ order \in [1..n -> chosen] /\ Recall!Range(order) = chosen
      /\ \A i, j \in 1..n : i < j => Recall!Outranks(written, today, ask, order[i], order[j])
  BY <1>1, <1>5, RankedSorts DEF order, n
<1>8. \A r \in DOMAIN written : ~Recall!Outranks(written, today, ask, r, r)
  <2> DEFINE R == Outranking(written, today, ask)
  <2>1. \A r \in DOMAIN written : r \notin R[r]
    BY <1>1, OutranksOrders DEF IsOrder
  <2> QED BY <2>1 DEF Outranking
<1>9. \A r, s \in DOMAIN written :
        ~(Recall!Outranks(written, today, ask, r, s) /\ Recall!Outranks(written, today, ask, s, r))
  <2> DEFINE R == Outranking(written, today, ask)
  <2>1. \A r, s \in DOMAIN written : ~(s \in R[r] /\ r \in R[s])
    BY <1>1, OutranksOrders DEF IsOrder
  <2> QED BY <2>1 DEF Outranking
<1>10. ASSUME NEW i \in 1..n, NEW j \in 1..n
       PROVE  /\ order[i] = order[j] => i = j
              /\ Recall!Outranks(written, today, ask, order[i], order[j]) <=> i < j
  <2>1. order[i] \in DOMAIN written /\ order[j] \in DOMAIN written
    BY <1>5, <1>7
  <2>2. i < j \/ i = j \/ j < i
    BY <1>7
  <2> QED BY <1>7, <1>8, <1>9, <2>1, <2>2
<1>11. CASE ~Recall!Fits(written, first, ask)
  <2>1. given.refused
    BY <1>2, <1>11
  <2>2. Recall!SelectionIsRight(store, ask, given)
    BY <2>1, <1>3, <1>11, <1>13
  <2> QED BY <2>2 DEF given
<1>12. CASE Recall!Fits(written, first, ask)
  <2>1. InARow(n, chosen, order, first)
    BY <1>5, <1>7, <1>10 DEF InARow
  <2>2. /\ first \subseteq kept /\ kept \subseteq chosen /\ Recall!Fits(written, kept, ask)
        /\ \A i \in 1..n : order[i] \notin kept =>
             ~Recall!Fits(written,
                first \cup (kept \cap {order[j] : j \in 1..(i - 1)}) \cup {order[i]}, ask)
    BY <2>1, <1>12, FillPicks DEF kept
  <2>3. ~given.refused /\ given.ids = listed
    BY <1>2, <1>12
  <2>4. /\ Recall!Range(listed) = kept /\ Cardinality(kept) \in Nat
        /\ listed \in [1..Cardinality(kept) -> kept]
    BY <1>1, <1>5, <2>2, RankedSorts DEF listed
  <2>5. Recall!Cardinality(kept) = Len(listed)
    BY <2>4, SameCount
  <2>6. ASSUME NEW r \in DOMAIN written \ kept, due(r)
        PROVE  ~Recall!Fits(written, first \cup before(r) \cup {r}, ask)
    <3>1. r \in chosen
      BY <2>6, <1>6
    <3>2. PICK i \in 1..n : r = order[i]
      BY <3>1, <1>7 DEF Recall!Range
    <3>3. kept \cap {order[j] : j \in 1..(i - 1)} = before(r)
      <4>1. ASSUME NEW s \in kept PROVE s \in {order[j] : j \in 1..(i - 1)} <=>
                                        Recall!Outranks(written, today, ask, s, r)
        <5>1. PICK j \in 1..n : s = order[j]
          BY <2>2, <1>7 DEF Recall!Range
        <5>2. s \in {order[k] : k \in 1..(i - 1)} <=> j \in 1..(i - 1)
          <6>1. \A k \in 1..(i - 1) : k \in 1..n
            BY <1>7
          <6> QED BY <5>1, <6>1, <1>10
        <5>3. j \in 1..(i - 1) <=> j < i
          BY <1>7
        <5> QED BY <5>1, <5>2, <5>3, <3>2, <1>10
      <4> QED BY <4>1
    <3> QED BY <2>2, <3>2, <3>3, <2>6
  <2>7. \A r \in kept : due(r)
    BY <2>2, <1>5
  <2>8. Right(given, kept)
    BY <2>2, <2>3, <2>5, <2>6, <2>7 DEF Right
  <2>9. Recall!Range(given.ids) = kept
    BY <2>3, <2>4
  <2>10. Recall!SelectionIsRight(store, ask, given)
    BY <2>3, <2>8, <2>9, <1>3, <1>12, <1>13
  <2> QED BY <2>10 DEF given
<1> QED BY <1>11, <1>12

-----------------------------------------------------------------------------
(* Work orders, the launch groups: what cannot start *)

LEMMA PlanCounts == \A S : Planning!Cardinality(S) = Cardinality(S)
BY DEF Planning!Cardinality, Cardinality, Planning!IsFiniteSet, IsFiniteSet

\* What is named in a row is finite.
LEMMA NamedFinite ==
  ASSUME NEW goal, Planning!IsGoal(goal)
  PROVE  IsFiniteSet(Planning!Range(goal.orders))
<1> DEFINE n == Len(goal.orders)
           s == goal.orders
           f == [i \in 1..n |-> s[i]]
<1>1. n \in Nat /\ DOMAIN s = 1..n
  BY DEF Planning!IsGoal
<1> HIDE DEF n, s
<1>2. Planning!Range(s) = {s[i] : i \in 1..n}
  BY <1>1 DEF Planning!Range
<1>3. f \in Surjection(1..n, {s[i] : i \in 1..n})
  BY DEF Surjection
<1>4. IsFiniteSet(1..n)
  BY <1>1, FS_Interval
<1>5. IsFiniteSet({s[i] : i \in 1..n})
  <2> HIDE DEF f
  <2> QED BY <1>3, <1>4, FS_Surjection
<1> QED BY <1>2, <1>5 DEF s

\* What is blocked once more, when some are.
Grown(goal, ours, some) ==
  some \cup {o \in ours : \E w \in goal.files[o].needs \ goal.landed : w \notin ours \/ w \in some}

Blocks(b, goal, ours) ==
  /\ b \in [0..Cardinality(ours) -> SUBSET ours] /\ b[0] = {}
  /\ \A i \in 1..Cardinality(ours) : b[i] = Grown(goal, ours, b[i - 1])

LEMMA BlockedSteps ==
  ASSUME NEW goal, NEW ours, IsFiniteSet(ours)
  PROVE  \E b : /\ Blocks(b, goal, ours)
                /\ Planning!Blocked(goal, ours) = b[Cardinality(ours)]
<1> DEFINE n == Cardinality(ours)
           Then(t) == Grown(goal, ours, t)
           S == SUBSET ours
           F == [i \in 1..n |-> [t \in S |-> Then(t)]]
<1>0. n \in Nat
  BY FS_CardinalityType
<1>n. Planning!Cardinality(ours) = n
  BY PlanCounts
<1> HIDE DEF n
<1>1. \A t \in S : Then(t) \in S
  BY DEF Grown
<1> HIDE DEF Then, S
<1>2. F \in [1..n -> [S -> S]]
  BY <1>1
<1>3. {} \in S
  BY DEF S
<1>4. PICK g : Unfolds(g, n, S, {}, F)
  <2> HIDE DEF F
  <2> QED BY <1>0, <1>2, <1>3, History
<1> DEFINE Is(f) == f = [i \in 0..n |-> IF i = 0 THEN {} ELSE Then(f[i - 1])]
<1>5. \A i \in 1..n : g[i - 1] \in S /\ g[i] = Then(g[i - 1])
  <2>1. \A i \in 1..n : i - 1 \in 0..n
    BY <1>0
  <2>2. \A i \in 1..n : g[i - 1] \in S
    BY <2>1, <1>4 DEF Unfolds
  <2>3. \A i \in 1..n : F[i][g[i - 1]] = Then(g[i - 1])
    BY <2>2
  <2> HIDE DEF F
  <2> QED BY <2>2, <2>3, <1>4 DEF Unfolds
<1>6. Is(g)
  <2> HIDE DEF F
  <2> QED BY <1>4, <1>5, <1>0 DEF Unfolds
<1> DEFINE blocked == CHOOSE f : Is(f)
<1>7. Planning!Blocked(goal, ours) = blocked[n]
  BY <1>n DEF Planning!Blocked, Then, Grown
<1>8. Is(blocked)
  <2> HIDE DEF Is
  <2> QED BY <1>6
<1> HIDE DEF blocked, F
<1>9. blocked[0] = {} /\ \A i \in 1..n : blocked[i] = Then(blocked[i - 1])
  <2>1. \A i \in 0..n : blocked[i] = IF i = 0 THEN {} ELSE Then(blocked[i - 1])
    BY <1>8
  <2> HIDE DEF Is
  <2>2. 0 \in 0..n /\ \A i \in 1..n : i \in 0..n /\ i # 0
    BY <1>0
  <2> QED BY <2>1, <2>2
<1>10. blocked \in [0..n -> S]
  <2> DEFINE P == {i \in 0..n : blocked[i] \in S}
  <2>2. 0 \in P /\ \A i \in 1..n : i - 1 \in P => i \in P
    BY <1>0, <1>9, <1>1, <1>3
  <2>3. \A i \in 0..n : i \in P
    <3> HIDE DEF P
    <3> QED BY <1>0, <2>2, Throughout
  <2> QED BY <1>8, <2>3
<1>11. Blocks(blocked, goal, ours)
  BY <1>9, <1>10 DEF Then, Blocks, S, n
<1> QED BY <1>7, <1>11 DEF n

\* As many rounds as there are orders are enough.
LEMMA BlockedEnds ==
  ASSUME NEW goal, NEW ours, IsFiniteSet(ours), NEW b, Blocks(b, goal, ours)
  PROVE  Grown(goal, ours, b[Cardinality(ours)]) = b[Cardinality(ours)]
<1> DEFINE n == Cardinality(ours)
           P == {i \in 0..n : Cardinality(b[i]) >= i \/ Grown(goal, ours, b[i]) = b[i]}
<1>0. /\ n \in Nat /\ \A s \in SUBSET ours : Grown(goal, ours, s) \in SUBSET ours
      /\ \A s : s \subseteq Grown(goal, ours, s)
      /\ \A s \in SUBSET ours : IsFiniteSet(s) /\ Cardinality(s) \in Nat /\ Cardinality(s) <= n
      /\ \A s \in SUBSET ours : Cardinality(s) = n => s = ours
  BY FS_CardinalityType, FS_Subset DEF Grown
<1>1. /\ b \in [0..n -> SUBSET ours] /\ b[0] = {}
      /\ \A i \in 1..n : b[i] = Grown(goal, ours, b[i - 1])
  BY DEF Blocks
<1> HIDE DEF n
<1>2. 0 \in P
  BY <1>1, <1>0, FS_EmptySet
<1>3. ASSUME NEW i \in 1..n, i - 1 \in P PROVE i \in P
  <2>1. /\ i - 1 \in 0..n /\ b[i - 1] \in SUBSET ours /\ b[i] \in SUBSET ours
        /\ b[i] = Grown(goal, ours, b[i - 1]) /\ b[i - 1] \subseteq b[i]
    BY <1>0, <1>1
  <2>2. CASE b[i] = b[i - 1]
    <3>0. b[i] = Grown(goal, ours, b[i - 1])
      BY <2>1
    <3>1. Grown(goal, ours, b[i]) = b[i]
      BY <3>0, <2>2, Zenon
    <3> QED BY <3>1, <1>0
  <2>3. CASE b[i] # b[i - 1]
    <3>1. Cardinality(b[i - 1]) >= i - 1
      BY <1>3, <2>1, <2>3
    <3>2. /\ Cardinality(b[i - 1]) <= Cardinality(b[i])
          /\ Cardinality(b[i - 1]) # Cardinality(b[i])
      BY <2>1, <2>3, <1>0, FS_Subset
    <3>3. Cardinality(b[i - 1]) \in Nat /\ Cardinality(b[i]) \in Nat
      BY <2>1, <1>0
    <3> QED BY <3>1, <3>2, <3>3, <1>0
  <2> QED BY <2>2, <2>3
<1>4. n \in P
  <2> HIDE DEF P
  <2>1. \A i \in 0..n : i \in P
    BY <1>0, <1>2, <1>3, Throughout
  <2> QED BY <2>1, <1>0
<1>5. CASE Grown(goal, ours, b[n]) = b[n]
  BY <1>5 DEF n
<1>6. CASE Cardinality(b[n]) >= n
  <2>1. b[n] \in SUBSET ours
    BY <1>0, <1>1
  <2>2. b[n] = ours
    BY <2>1, <1>0, <1>6
  <2>3. Grown(goal, ours, ours) = ours
    BY DEF Grown
  <2> QED BY <2>2, <2>3 DEF n
<1> QED BY <1>4, <1>5, <1>6

\* What is blocked is what cannot start, whatever is launched.
LEMMA BlockedMeans ==
  ASSUME NEW goal, NEW ours, IsFiniteSet(ours)
  PROVE  LET blocked == Planning!Blocked(goal, ours) IN
         /\ blocked \subseteq ours
         /\ Planning!CanStart(goal, ours) = ours \ blocked
         /\ Planning!SelfSufficient(goal, ours \ blocked)
<1> DEFINE n == Cardinality(ours)
           blocked == Planning!Blocked(goal, ours)
<1>0. n \in Nat
  BY FS_CardinalityType
<1>1. PICK b : Blocks(b, goal, ours) /\ blocked = b[n]
  BY BlockedSteps
<1> HIDE DEF blocked
<1>2. Grown(goal, ours, blocked) = blocked
  BY <1>1, BlockedEnds
<1>3. /\ b \in [0..n -> SUBSET ours] /\ b[0] = {}
      /\ \A i \in 1..n : b[i] = Grown(goal, ours, b[i - 1])
  BY <1>1 DEF Blocks
<1> HIDE DEF n
<1>4. blocked \subseteq ours
  BY <1>0, <1>1, <1>3
<1>5. Planning!SelfSufficient(goal, ours \ blocked)
  BY <1>2 DEF Planning!SelfSufficient, Grown
<1>6. ASSUME NEW some \in SUBSET ours, Planning!SelfSufficient(goal, some)
      PROVE  some \cap blocked = {}
  <2> DEFINE P == {i \in 0..n : some \cap b[i] = {}}
  <2>1. 0 \in P
    BY <1>3, <1>0
  <2>2. ASSUME NEW i \in 1..n, i - 1 \in P PROVE i \in P
    <3>1. b[i] = Grown(goal, ours, b[i - 1]) /\ some \cap b[i - 1] = {}
      BY <1>3, <2>2
    <3>2. some \cap b[i] = {}
      BY <3>1, <1>6 DEF Grown, Planning!SelfSufficient
    <3> QED BY <3>2
  <2>3. n \in P
    <3> HIDE DEF P
    <3>1. \A i \in 0..n : i \in P
      BY <1>0, <2>1, <2>2, Throughout
    <3> QED BY <3>1, <1>0
  <2> QED BY <2>3, <1>1
<1>7. Planning!CanStart(goal, ours) = ours \ blocked
  BY <1>4, <1>5, <1>6 DEF Planning!CanStart
<1> QED BY <1>4, <1>5, <1>7 DEF blocked

-----------------------------------------------------------------------------
(* A group *)

\* A group that may be launched beside nothing else, once some are settled.
GroupFine(goal, settled, left, g) ==
  /\ g \in Seq(left) /\ Len(g) <= goal.budget
  /\ \A k \in 1..Len(g) : goal.files[g[k]].needs \subseteq settled
  /\ \A k, l \in 1..Len(g) :
       k < l => ~Planning!Collide(goal.files[g[k]], goal.files[g[l]])
  /\ \A t \in DOMAIN goal.cap : Planning!Team(goal, g, t) <= Planning!Cap(goal, t)

TakesIn(goal, settled, left, g, i) ==
  IF goal.orders[i] \in left /\ Planning!Joins(goal, settled, g, goal.orders[i])
  THEN Append(g, goal.orders[i]) ELSE g

LEMMA GroupSteps ==
  ASSUME NEW goal, Planning!IsGoal(goal), NEW settled, NEW left
  PROVE  \E g : /\ g[0] = <<>>
                /\ \A i \in 1..Len(goal.orders) : g[i] = TakesIn(goal, settled, left, g[i - 1], i)
                /\ Planning!Group(goal, settled, left) = g[Len(goal.orders)]
<1> DEFINE n == Len(goal.orders)
           Then(i, t) == TakesIn(goal, settled, left, t, i)
           S == Seq(left)
           F == [i \in 1..n |-> [t \in S |-> Then(i, t)]]
<1>0. n \in Nat
  BY DEF Planning!IsGoal
<1> HIDE DEF n
<1>1. \A i \in 1..n, t \in S : Then(i, t) \in S
  BY DEF TakesIn
<1> HIDE DEF Then
<1>2. F \in [1..n -> [S -> S]]
  BY <1>1
<1>3. <<>> \in S
  OBVIOUS
<1> HIDE DEF S
<1>4. PICK g : Unfolds(g, n, S, <<>>, F)
  <2> HIDE DEF F
  <2> QED BY <1>0, <1>2, <1>3, History
<1> DEFINE Is(f) == f = [i \in 0..n |-> IF i = 0 THEN <<>> ELSE Then(i, f[i - 1])]
<1>5. \A i \in 1..n : g[i - 1] \in S /\ g[i] = Then(i, g[i - 1])
  <2>1. \A i \in 1..n : i - 1 \in 0..n
    BY <1>0
  <2>2. \A i \in 1..n : g[i - 1] \in S
    BY <2>1, <1>4 DEF Unfolds
  <2>3. \A i \in 1..n : F[i][g[i - 1]] = Then(i, g[i - 1])
    BY <2>2
  <2> HIDE DEF F
  <2> QED BY <2>2, <2>3, <1>4 DEF Unfolds
<1>6. Is(g)
  <2> HIDE DEF F
  <2> QED BY <1>4, <1>5, <1>0 DEF Unfolds
<1> DEFINE group == CHOOSE f : Is(f)
<1>7. Planning!Group(goal, settled, left) = group[n]
  BY DEF Planning!Group, Then, TakesIn, n
<1>8. Is(group)
  <2> HIDE DEF Is
  <2> QED BY <1>6
<1> HIDE DEF group, F
<1>9. group[0] = <<>> /\ \A i \in 1..n : group[i] = Then(i, group[i - 1])
  <2>1. \A i \in 0..n : group[i] = IF i = 0 THEN <<>> ELSE Then(i, group[i - 1])
    BY <1>8
  <2> HIDE DEF Is
  <2>2. 0 \in 0..n /\ \A i \in 1..n : i \in 0..n /\ i # 0
    BY <1>0
  <2> QED BY <2>1, <2>2
<1> QED BY <1>7, <1>9 DEF Then, n

\* How many of a group a team has, when an order joins it.
LEMMA TeamGrows ==
  ASSUME NEW goal, NEW left, NEW g \in Seq(left), NEW o \in left, NEW t
  PROVE  /\ Planning!Team(goal, g, t) \in Nat
         /\ Planning!Team(goal, <<>>, t) = 0
         /\ Planning!Team(goal, Append(g, o), t) =
              IF goal.files[o].team = t THEN Planning!Team(goal, g, t) + 1
              ELSE Planning!Team(goal, g, t)
<1> DEFINE Of(h) == {i \in 1..Len(h) : goal.files[h[i]].team = t}
           n == Len(g)
           h == Append(g, o)
<1>1. \A s : Planning!Team(goal, s, t) = Cardinality(Of(s))
  BY PlanCounts DEF Planning!Team
<1>2. n \in Nat /\ Len(h) = n + 1 /\ h[n + 1] = o /\ \A i \in 1..n : h[i] = g[i]
  OBVIOUS
<1>3. IsFiniteSet(Of(g))
  <2>1. IsFiniteSet(1..n)
    BY <1>2, FS_Interval
  <2> QED BY <2>1, FS_Subset
<1>4. Of(<<>>) = {}
  OBVIOUS
<1>5. Of(h) = IF goal.files[o].team = t THEN Of(g) \cup {n + 1} ELSE Of(g)
  <2>1. 1..(n + 1) = 1..n \cup {n + 1}
    BY <1>2
  <2> HIDE DEF h
  <2> QED BY <1>2, <2>1
<1>6. n + 1 \notin Of(g)
  BY <1>2
<1>7. Cardinality(Of(g)) \in Nat /\ Cardinality(Of(g) \cup {n + 1}) = Cardinality(Of(g)) + 1
  BY <1>3, <1>6, FS_CardinalityType, FS_AddElement
<1>8. Planning!Team(goal, <<>>, t) = 0
  BY <1>1, <1>4, FS_EmptySet
<1> HIDE DEF Of, h, n
<1>9. Planning!Team(goal, h, t) =
              IF goal.files[o].team = t THEN Planning!Team(goal, g, t) + 1
              ELSE Planning!Team(goal, g, t)
  BY <1>1, <1>5, <1>7
<1> QED BY <1>1, <1>7, <1>8, <1>9 DEF h

LEMMA CapIs ==
  ASSUME NEW goal, Planning!IsGoal(goal), NEW t \in DOMAIN goal.cap
  PROVE  Planning!Cap(goal, t) \in Nat /\ (goal.budget # 0 => Planning!Cap(goal, t) # 0)
BY DEF Planning!IsGoal, Planning!Cap

\* What joins a group leaves it fine.
LEMMA JoinsFine ==
  ASSUME NEW goal, Planning!IsGoal(goal), NEW settled, NEW left, NEW g,
         left \subseteq DOMAIN goal.files, GroupFine(goal, settled, left, g),
         NEW o \in left, Planning!Joins(goal, settled, g, o)
  PROVE  GroupFine(goal, settled, left, Append(g, o))
<1> DEFINE n == Len(g)
           h == Append(g, o)
<1>1. g \in Seq(left) /\ n \in Nat /\ goal.budget \in Nat
  BY DEF GroupFine, Planning!IsGoal
<1>2. h \in Seq(left) /\ Len(h) = n + 1 /\ h[n + 1] = o /\ \A i \in 1..n : h[i] = g[i]
  BY <1>1
<1>3. Len(h) <= goal.budget
  BY <1>1, <1>2 DEF Planning!Joins
<1>4. \A i \in 1..(n + 1) : i = n + 1 \/ i \in 1..n
  BY <1>1
<1> HIDE DEF h, n
<1>5. \A k \in 1..Len(h) : goal.files[h[k]].needs \subseteq settled
  <2>1. \A k \in 1..n : goal.files[g[k]].needs \subseteq settled
    BY DEF GroupFine, n
  <2>2. goal.files[o].needs \subseteq settled
    BY DEF Planning!Joins
  <2> QED BY <1>2, <1>4, <2>1, <2>2
<1>6. ASSUME NEW k \in 1..Len(h), NEW l \in 1..Len(h), k < l
      PROVE  ~Planning!Collide(goal.files[h[k]], goal.files[h[l]])
  <2>1. k \in 1..n
    BY <1>6, <1>1, <1>2
  <2>2. CASE l \in 1..n
    BY <2>1, <2>2, <1>6, <1>2 DEF GroupFine, n
  <2>3. CASE l = n + 1
    BY <2>1, <2>3, <1>2 DEF Planning!Joins, n
  <2> QED BY <2>2, <2>3, <1>2, <1>4
<1>7. ASSUME NEW t \in DOMAIN goal.cap
      PROVE  Planning!Team(goal, h, t) <= Planning!Cap(goal, t)
  <2>1. Planning!Team(goal, g, t) <= Planning!Cap(goal, t)
    BY DEF GroupFine
  <2>2. Planning!Team(goal, g, t) \in Nat /\ Planning!Cap(goal, t) \in Nat
    BY <1>1, TeamGrows, CapIs
  <2>3. Planning!Team(goal, h, t) =
              IF goal.files[o].team = t THEN Planning!Team(goal, g, t) + 1
              ELSE Planning!Team(goal, g, t)
    BY <1>1, TeamGrows DEF h
  <2>4. goal.files[o].team = t => Planning!Team(goal, g, t) < Planning!Cap(goal, t)
    BY DEF Planning!Joins
  <2> QED BY <2>1, <2>2, <2>3, <2>4
<1> QED BY <1>2, <1>3, <1>5, <1>6, <1>7 DEF GroupFine, h

\* The group of a round is fine, and empty only when nothing left is ready, or when
\* the budget is of nobody.
LEMMA GroupMeans ==
  ASSUME NEW goal, Planning!IsGoal(goal), NEW settled, NEW left,
         left \subseteq DOMAIN goal.files, left \subseteq Planning!Range(goal.orders)
  PROVE  LET group == Planning!Group(goal, settled, left) IN
         /\ GroupFine(goal, settled, left, group)
         /\ group = <<>> /\ goal.budget # 0 =>
              \A o \in left : ~(goal.files[o].needs \subseteq settled)
<1> DEFINE n == Len(goal.orders)
           group == Planning!Group(goal, settled, left)
<1>1. PICK g : /\ g[0] = <<>>
               /\ \A i \in 1..n : g[i] = TakesIn(goal, settled, left, g[i - 1], i)
               /\ group = g[n]
  BY GroupSteps
<1>2. n \in Nat /\ goal.budget \in Nat /\ DOMAIN goal.orders = 1..n
  BY DEF Planning!IsGoal
<1> HIDE DEF n, group
<1> DEFINE P == {i \in 0..n : GroupFine(goal, settled, left, g[i])}
<1>3. 0 \in P
  <2>1. <<>> \in Seq(left) /\ Len(<<>>) = 0
    OBVIOUS
  <2>2. ASSUME NEW t \in DOMAIN goal.cap
        PROVE  Planning!Team(goal, <<>>, t) <= Planning!Cap(goal, t)
    <3>1. Planning!Team(goal, <<>>, t) = 0
      <4>1. {i \in 1..Len(<<>>) : goal.files[<<>>[i]].team = t} = {}
        OBVIOUS
      <4> QED BY <4>1, PlanCounts, FS_EmptySet DEF Planning!Team
    <3> QED BY <3>1, CapIs
  <2>3. GroupFine(goal, settled, left, <<>>)
    BY <1>2, <2>1, <2>2 DEF GroupFine
  <2> QED BY <1>1, <1>2, <2>3
<1>4. ASSUME NEW i \in 1..n, i - 1 \in P PROVE i \in P
  <2>1. g[i] = TakesIn(goal, settled, left, g[i - 1], i) /\ GroupFine(goal, settled, left, g[i - 1])
    BY <1>1, <1>4
  <2>2. GroupFine(goal, settled, left, g[i])
    BY <2>1, JoinsFine DEF TakesIn
  <2> QED BY <2>2
<1>5. GroupFine(goal, settled, left, group)
  <2> HIDE DEF P
  <2>1. \A i \in 0..n : i \in P
    BY <1>2, <1>3, <1>4, Throughout
  <2> QED BY <2>1, <1>1, <1>2 DEF P
<1>6. ASSUME group = <<>>, goal.budget # 0, NEW o \in left, goal.files[o].needs \subseteq settled
      PROVE  FALSE
  <2>1. PICK i \in 1..n : goal.orders[i] = o
    BY <1>2 DEF Planning!Range
  <2>2. Planning!Joins(goal, settled, <<>>, o)
    <3>1. Planning!Team(goal, <<>>, goal.files[o].team) = 0
      <4>1. <<>> \in Seq(left)
        OBVIOUS
      <4> QED BY <4>1, TeamGrows
    <3>2. Planning!Cap(goal, goal.files[o].team) \in Nat \ {0}
      BY <1>6, CapIs DEF Planning!IsGoal
    <3> QED BY <1>2, <1>6, <3>1, <3>2 DEF Planning!Joins
  <2>3. ASSUME NEW s \in Seq(left), s # <<>>, NEW k \in 1..n
        PROVE  TakesIn(goal, settled, left, s, k) # <<>>
    BY <2>3 DEF TakesIn
  <2> DEFINE Q == {k \in 0..n : k < i \/ (g[k] \in Seq(left) /\ g[k] # <<>>)}
  <2>4. \A k \in 0..n : g[k] \in Seq(left)
    <3> HIDE DEF P
    <3>1. \A k \in 0..n : k \in P
      BY <1>2, <1>3, <1>4, Throughout
    <3> QED BY <3>1 DEF P, GroupFine
  <2>5. 0 \in Q
    BY <1>2
  <2>6. ASSUME NEW k \in 1..n, k - 1 \in Q PROVE k \in Q
    <3>1. k - 1 \in 0..n /\ k \in 0..n /\ g[k - 1] \in Seq(left) /\ g[k] \in Seq(left)
      BY <1>2, <2>4
    <3>2. CASE k < i
      BY <3>1, <3>2
    <3>3. CASE g[k - 1] # <<>>
      BY <3>1, <3>3, <2>3, <1>1
    <3>4. CASE k = i /\ g[k - 1] = <<>>
      <4>1. g[k] = Append(<<>>, o)
        BY <3>4, <1>1, <2>1, <2>2 DEF TakesIn
      <4>2. Append(<<>>, o) # <<>>
        OBVIOUS
      <4> QED BY <4>1, <4>2, <3>1
    <3> QED BY <3>2, <3>3, <3>4, <2>6
  <2>7. n \in Q
    <3> HIDE DEF Q
    <3>1. \A k \in 0..n : k \in Q
      BY <1>2, <2>5, <2>6, Throughout
    <3> QED BY <3>1, <1>2
  <2>8. ~(n < i)
    BY <1>2
  <2> QED BY <2>7, <2>8, <1>1, <1>6
<1> QED BY <1>5, <1>6 DEF group

-----------------------------------------------------------------------------
(* The groups *)

In(plan, k) == Planning!Range(plan.groups[k])
Done(goal, plan, k) == goal.landed \cup UNION {In(plan, l) : l \in 1..(k - 1)}

\* Groups so far, of the orders that can start, and what is left of them.
PlanFine(goal, able, plan) ==
  /\ plan = [groups |-> plan.groups, left |-> plan.left]
  /\ plan.groups \in Seq(Seq(able))
  /\ plan.left = able \ UNION {In(plan, l) : l \in 1..Len(plan.groups)}
  /\ \A k \in 1..Len(plan.groups) :
       /\ plan.groups[k] # <<>>
       /\ GroupFine(goal, Done(goal, plan, k), able, plan.groups[k])
       /\ \A l \in 1..(k - 1) : In(plan, k) \cap In(plan, l) = {}

LEMMA RangeOf ==
  ASSUME NEW s, NEW S, s \in Seq(S)
  PROVE  /\ Planning!Range(s) = {s[i] : i \in 1..Len(s)} /\ Planning!Range(s) \subseteq S
         /\ s # <<>> => Planning!Range(s) # {}
<1>1. DOMAIN s = 1..Len(s) /\ Len(s) \in Nat /\ \A i \in 1..Len(s) : s[i] \in S
  OBVIOUS
<1>2. Planning!Range(s) = {s[i] : i \in 1..Len(s)}
  BY <1>1 DEF Planning!Range
<1>3. s # <<>> => 1 \in 1..Len(s)
  BY <1>1
<1> QED BY <1>1, <1>2, <1>3

\* A round adds a fine group of what is left, or there is none that is ready.
LEMMA RoundKeeps ==
  ASSUME NEW goal, Planning!IsGoal(goal), NEW able,
         able \subseteq DOMAIN goal.files, able \subseteq Planning!Range(goal.orders),
         NEW plan, PlanFine(goal, able, plan)
  PROVE  LET next == Planning!Round(goal, plan) IN
         /\ PlanFine(goal, able, next)
         /\ \/ /\ next.left \subseteq plan.left /\ next.left # plan.left
               /\ \E o \in plan.left : goal.files[o].needs \subseteq Planning!Settled(goal, plan)
            \/ /\ next = plan
               /\ goal.budget # 0 => \A o \in plan.left :
                    ~(goal.files[o].needs \subseteq Planning!Settled(goal, plan))
<1> DEFINE n == Len(plan.groups)
           settled == Planning!Settled(goal, plan)
           group == Planning!Group(goal, settled, plan.left)
           next == Planning!Round(goal, plan)
<1>1. /\ plan.groups \in Seq(Seq(able)) /\ n \in Nat
      /\ plan.left = able \ UNION {In(plan, l) : l \in 1..n}
      /\ settled = goal.landed \cup UNION {In(plan, l) : l \in 1..n}
  BY DEF PlanFine, Planning!Settled, In
<1>2. /\ GroupFine(goal, settled, plan.left, group)
      /\ group = <<>> /\ goal.budget # 0 =>
           \A o \in plan.left : ~(goal.files[o].needs \subseteq settled)
  BY <1>1, GroupMeans
<1>3. CASE group = <<>>
  <2>1. next = plan
    BY <1>3 DEF Planning!Round
  <2> QED BY <2>1, <1>2, <1>3
<1>4. CASE group # <<>>
  <2> HIDE DEF group, settled, n
  <2>1. next = [groups |-> Append(plan.groups, group), left |-> plan.left \ Planning!Range(group)]
    BY <1>4 DEF Planning!Round, group, settled
  <2> HIDE DEF next
  <2>2. group \in Seq(plan.left) /\ group \in Seq(able)
    <3>1. group \in Seq(plan.left) /\ plan.left \subseteq able
      BY <1>1, <1>2 DEF GroupFine
    <3> QED BY <3>1
  <2>3. /\ Planning!Range(group) \subseteq plan.left /\ Planning!Range(group) # {}
    BY <2>2, <1>4, RangeOf
  <2>4. /\ next.groups \in Seq(Seq(able)) /\ Len(next.groups) = n + 1
        /\ next.groups[n + 1] = group /\ \A k \in 1..n : next.groups[k] = plan.groups[k]
        /\ next.left = plan.left \ Planning!Range(group)
    BY <2>1, <2>2, <1>1 DEF n
  <2>5. /\ \A k \in 1..n : In(next, k) = In(plan, k)
        /\ In(next, n + 1) = Planning!Range(group)
    BY <2>4 DEF In
  <2>6. \A k \in 1..(n + 1) : /\ k = n + 1 \/ k \in 1..n
                             /\ \A l \in 1..(k - 1) : l \in 1..n
    BY <1>1
  <2>7. next.left = able \ UNION {In(next, l) : l \in 1..(n + 1)}
    <3>1. 1..(n + 1) = 1..n \cup {n + 1}
      BY <1>1
    <3>2. UNION {In(next, l) : l \in 1..(n + 1)} =
            (UNION {In(plan, l) : l \in 1..n}) \cup Planning!Range(group)
      <4> HIDE DEF In
      <4> QED BY <3>1, <2>5
    <3> QED BY <3>2, <2>4, <1>1
  <2>8. \A k \in 1..(n + 1) : Done(goal, next, k) =
          IF k = n + 1 THEN settled ELSE Done(goal, plan, k)
    <3> SUFFICES ASSUME NEW k \in 1..(n + 1)
                 PROVE  Done(goal, next, k) = IF k = n + 1 THEN settled ELSE Done(goal, plan, k)
      OBVIOUS
    <3>1. {In(next, l) : l \in 1..(k - 1)} = {In(plan, l) : l \in 1..(k - 1)}
      BY <2>5, <2>6
    <3>2. k = n + 1 => 1..(k - 1) = 1..n
      BY <1>1
    <3> QED BY <3>1, <3>2, <1>1 DEF Done
  <2>9. ASSUME NEW k \in 1..(n + 1)
        PROVE  /\ next.groups[k] # <<>>
               /\ GroupFine(goal, Done(goal, next, k), able, next.groups[k])
               /\ \A l \in 1..(k - 1) : In(next, k) \cap In(next, l) = {}
    <3>1. CASE k \in 1..n
      <4>1. k # n + 1
        BY <3>1, <1>1
      <4>2. /\ plan.groups[k] # <<>>
            /\ GroupFine(goal, Done(goal, plan, k), able, plan.groups[k])
            /\ \A l \in 1..(k - 1) : In(plan, k) \cap In(plan, l) = {}
        BY <3>1 DEF PlanFine, n
      <4>3. next.groups[k] = plan.groups[k] /\ Done(goal, next, k) = Done(goal, plan, k)
        BY <4>1, <3>1, <2>4, <2>8
      <4> QED BY <4>2, <4>3, <3>1, <2>5, <2>6
    <3>2. CASE k = n + 1
      <4>1. next.groups[k] = group /\ Done(goal, next, k) = settled
        BY <3>2, <2>4, <2>8
      <4>2. GroupFine(goal, settled, able, group)
        BY <1>2, <2>2 DEF GroupFine
      <4>3. \A l \in 1..n : In(next, k) \cap In(next, l) = {}
        BY <3>2, <2>3, <2>5, <1>1
      <4> QED BY <4>1, <4>2, <4>3, <1>4, <2>6
    <3> QED BY <3>1, <3>2, <2>6
  <2>10. next = [groups |-> next.groups, left |-> next.left]
    BY <2>1
  <2>11. PlanFine(goal, able, next)
    BY <2>4, <2>7, <2>9, <2>10 DEF PlanFine
  <2>12. next.left \subseteq plan.left /\ next.left # plan.left
    BY <2>3, <2>4
  <2>13. \E o \in plan.left : goal.files[o].needs \subseteq settled
    <3>1. 1 \in 1..Len(group) /\ group[1] \in plan.left
      BY <2>2, <1>4
    <3> QED BY <3>1, <1>2 DEF GroupFine
  <2> QED BY <2>11, <2>12, <2>13 DEF next, settled
<1> QED BY <1>3, <1>4

Planned(p, goal, able) ==
  /\ p[0] = [groups |-> <<>>, left |-> able]
  /\ \A i \in 1..Cardinality(able) : p[i] = Planning!Round(goal, p[i - 1])

LEMMA PlanStarts ==
  ASSUME NEW goal, NEW able
  PROVE  PlanFine(goal, able, [groups |-> <<>>, left |-> able])
<1>1. Len(<<>>) = 0 /\ <<>> \in Seq(Seq(able))
  OBVIOUS
<1> DEFINE plan == [groups |-> <<>>, left |-> able]
<1>2. UNION {In(plan, l) : l \in 1..0} = {}
  OBVIOUS
<1> QED BY <1>1, <1>2 DEF PlanFine

LEMMA PlannedSteps ==
  ASSUME NEW goal, Planning!IsGoal(goal), NEW able, IsFiniteSet(able),
         able \subseteq DOMAIN goal.files, able \subseteq Planning!Range(goal.orders)
  PROVE  \E p : Planned(p, goal, able) /\ Planning!Groups(goal, able) = p[Cardinality(able)]
<1> DEFINE n == Cardinality(able)
           Then(t) == Planning!Round(goal, t)
           start == [groups |-> <<>>, left |-> able]
           S == {t \in [groups : Seq(Seq(able)), left : SUBSET able] : PlanFine(goal, able, t)}
           F == [i \in 1..n |-> [t \in S |-> Then(t)]]
<1>0. n \in Nat /\ Planning!Cardinality(able) = n
  BY FS_CardinalityType, PlanCounts
<1> HIDE DEF n
<1>s. ASSUME NEW t PROVE t \in S <=> PlanFine(goal, able, t)
  <2> SUFFICES ASSUME PlanFine(goal, able, t) PROVE t \in [groups : Seq(Seq(able)), left : SUBSET able]
    OBVIOUS
  <2>1. /\ t = [groups |-> t.groups, left |-> t.left]
        /\ t.groups \in Seq(Seq(able)) /\ t.left \subseteq able
    BY DEF PlanFine
  <2> QED BY <2>1
<1> HIDE DEF S
<1>1. \A t \in S : Then(t) \in S
  BY <1>s, RoundKeeps
<1> HIDE DEF Then
<1>2. F \in [1..n -> [S -> S]]
  BY <1>1
<1>3. start \in S
  BY <1>s, PlanStarts
<1> HIDE DEF start
<1>4. PICK g : Unfolds(g, n, S, start, F)
  <2> HIDE DEF F
  <2> QED BY <1>0, <1>2, <1>3, History
<1> DEFINE Is(f) == f = [i \in 0..n |-> IF i = 0 THEN start ELSE Then(f[i - 1])]
<1>5. \A i \in 1..n : g[i - 1] \in S /\ g[i] = Then(g[i - 1])
  <2>1. \A i \in 1..n : i - 1 \in 0..n
    BY <1>0
  <2>2. \A i \in 1..n : g[i - 1] \in S
    BY <2>1, <1>4 DEF Unfolds
  <2>3. \A i \in 1..n : F[i][g[i - 1]] = Then(g[i - 1])
    BY <2>2
  <2> HIDE DEF F
  <2> QED BY <2>2, <2>3, <1>4 DEF Unfolds
<1>6. Is(g)
  <2> HIDE DEF F
  <2> QED BY <1>4, <1>5, <1>0 DEF Unfolds
<1> DEFINE plan == CHOOSE f : Is(f)
<1>7. Planning!Groups(goal, able) = plan[n]
  BY <1>0 DEF Planning!Groups, Then, start
<1>8. Is(plan)
  <2> HIDE DEF Is
  <2> QED BY <1>6
<1> HIDE DEF plan, F
<1>9. plan[0] = start /\ \A i \in 1..n : plan[i] = Then(plan[i - 1])
  <2>1. \A i \in 0..n : plan[i] = IF i = 0 THEN start ELSE Then(plan[i - 1])
    BY <1>8
  <2> HIDE DEF Is
  <2>2. 0 \in 0..n /\ \A i \in 1..n : i \in 0..n /\ i # 0
    BY <1>0
  <2> QED BY <2>1, <2>2
<1>10. Planned(plan, goal, able)
  BY <1>9 DEF Planned, Then, start, n
<1> QED BY <1>7, <1>10 DEF n

\* The groups are fine, and what is left at the end waits on itself, if anybody works.
LEMMA GroupsMean ==
  ASSUME NEW goal, Planning!IsGoal(goal), NEW able, IsFiniteSet(able),
         able \subseteq DOMAIN goal.files, able \subseteq Planning!Range(goal.orders)
  PROVE  LET plan == Planning!Groups(goal, able) IN
         /\ PlanFine(goal, able, plan)
         /\ goal.budget # 0 =>
              \A o \in plan.left : ~(goal.files[o].needs \subseteq Planning!Settled(goal, plan))
<1> DEFINE n == Cardinality(able)
           plan == Planning!Groups(goal, able)
           Stuck(q) == goal.budget # 0 => \A o \in q.left : ~(goal.files[o].needs \subseteq Planning!Settled(goal, q))
<1>1. PICK p : Planned(p, goal, able) /\ plan = p[n]
  BY PlannedSteps
<1>2. n \in Nat /\ \A s \in SUBSET able : IsFiniteSet(s) /\ Cardinality(s) \in Nat
  BY FS_CardinalityType, FS_Subset
<1> HIDE DEF plan
<1> DEFINE P == {i \in 0..n : /\ PlanFine(goal, able, p[i])
                              /\ Cardinality(p[i].left) <= n - i \/ Stuck(p[i])}
<1>3. /\ p[0] = [groups |-> <<>>, left |-> able]
      /\ \A i \in 1..n : p[i] = Planning!Round(goal, p[i - 1])
  BY <1>1 DEF Planned
<1>l. \A q : PlanFine(goal, able, q) => q.left \in SUBSET able
  BY DEF PlanFine
<1>4. 0 \in P
  <2>1. PlanFine(goal, able, p[0]) /\ p[0].left = able
    BY <1>3, PlanStarts
  <2>2. Cardinality(p[0].left) = n
    BY <2>1
  <2> HIDE DEF n
  <2> QED BY <2>1, <2>2, <1>2
<1> HIDE DEF n, Stuck
<1>5. ASSUME NEW i \in 1..n, i - 1 \in P PROVE i \in P
  <2> DEFINE was == p[i - 1]
             now == p[i]
  <2>1. /\ now = Planning!Round(goal, was) /\ PlanFine(goal, able, was)
        /\ Cardinality(was.left) <= n - (i - 1) \/ Stuck(was)
    BY <1>3, <1>5
  <2> HIDE DEF was, now
  <2>2. /\ PlanFine(goal, able, now)
        /\ \/ now.left \subseteq was.left /\ now.left # was.left
              /\ (~Stuck(was) \/ Stuck(now))
           \/ now = was /\ Stuck(was)
    BY <2>1, RoundKeeps DEF Stuck
  <2>3. CASE now = was /\ Stuck(was)
    BY <2>2, <2>3, <1>2 DEF now
  <2>4. CASE now.left \subseteq was.left /\ now.left # was.left /\ (~Stuck(was) \/ Stuck(now))
    <3>1. was.left \in SUBSET able /\ now.left \in SUBSET able
      BY <2>1, <2>2, <1>l
    <3>2. /\ Cardinality(now.left) \in Nat /\ Cardinality(was.left) \in Nat
          /\ Cardinality(now.left) < Cardinality(was.left)
      <4>1. IsFiniteSet(was.left) /\ now.left \in SUBSET was.left
        BY <3>1, <1>2, <2>4
      <4>2. /\ Cardinality(now.left) <= Cardinality(was.left)
            /\ Cardinality(now.left) # Cardinality(was.left)
        BY <4>1, <2>4, FS_Subset
      <4>3. Cardinality(now.left) \in Nat /\ Cardinality(was.left) \in Nat
        BY <3>1, <1>2
      <4> QED BY <4>2, <4>3
    <3>3. CASE Cardinality(was.left) <= n - (i - 1)
      <4>1. Cardinality(now.left) <= n - i
        BY <3>2, <3>3, <1>2
      <4> QED BY <4>1, <2>2, <1>2 DEF now
    <3>4. CASE Stuck(now)
      BY <3>4, <2>2 DEF now
    <3> QED BY <2>1, <2>4, <3>3, <3>4
  <2> QED BY <2>2, <2>3, <2>4
<1>6. n \in P
  <2> HIDE DEF P
  <2>1. \A i \in 0..n : i \in P
    BY <1>2, <1>4, <1>5, Throughout
  <2> QED BY <2>1, <1>2
<1>7. PlanFine(goal, able, plan)
  BY <1>6, <1>1
<1>8. Stuck(plan)
  <2>1. CASE Cardinality(plan.left) <= 0
    <3>1. plan.left = {}
      BY <2>1, <1>2, <1>7, <1>l, FS_EmptySet
    <3> QED BY <3>1 DEF Stuck
  <2> QED BY <2>1, <1>1, <1>2, <1>6
<1> QED BY <1>7, <1>8 DEF plan, Stuck

-----------------------------------------------------------------------------
(* The plan *)

LEMMA CollideSame ==
  ASSUME NEW x, NEW y
  PROVE  /\ Planning!Collide(x, y) <=> Planning!Collide(y, x)
         /\ x.owns # {} => Planning!Collide(x, x)
BY DEF Planning!Collide, Planning!Overlap, Planning!Covers

\* Orders that do not collide own no path of the repository together.
LEMMA OwnedApart ==
  ASSUME NEW goal, Planning!IsGoal(goal), NEW paths,
         NEW o \in DOMAIN goal.files, NEW other \in DOMAIN goal.files,
         ~Planning!Collide(goal.files[o], goal.files[other])
  PROVE  Planning!Owned(goal.files[o], paths) \cap Planning!Owned(goal.files[other], paths) = {}
<1> SUFFICES ASSUME NEW p \in paths,
                    NEW a \in goal.files[o].owns, NEW b \in goal.files[other].owns,
                    IF a.folder THEN Planning!Starts(a.path, p) ELSE a.path = p,
                    IF b.folder THEN Planning!Starts(b.path, p) ELSE b.path = p
             PROVE  FALSE
  BY DEF Planning!Owned
<1>1. /\ a = [path |-> a.path, folder |-> a.folder] /\ Len(a.path) \in Nat /\ a.folder \in BOOLEAN
      /\ b = [path |-> b.path, folder |-> b.folder] /\ Len(b.path) \in Nat /\ b.folder \in BOOLEAN
  BY DEF Planning!IsGoal
<1>2. ~Planning!Covers(a, b) /\ ~Planning!Covers(b, a)
  BY DEF Planning!Collide, Planning!Overlap
<1>3. CASE ~a.folder /\ ~b.folder
  BY <1>1, <1>2, <1>3 DEF Planning!Covers
<1>4. CASE a.folder /\ ~b.folder
  BY <1>2, <1>4 DEF Planning!Covers
<1>5. CASE ~a.folder /\ b.folder
  BY <1>2, <1>5 DEF Planning!Covers
<1>6. CASE a.folder /\ b.folder
  <2>1. Planning!Starts(a.path, p) /\ Planning!Starts(b.path, p)
    BY <1>6
  <2>2. CASE Len(a.path) <= Len(b.path)
    <3>1. Planning!Starts(a.path, b.path)
      BY <1>1, <2>1, <2>2 DEF Planning!Starts
    <3> QED BY <3>1, <1>2, <1>6 DEF Planning!Covers
  <2>3. CASE Len(b.path) <= Len(a.path)
    <3>1. Planning!Starts(b.path, a.path)
      BY <1>1, <2>1, <2>3 DEF Planning!Starts
    <3> QED BY <3>1, <1>2, <1>6 DEF Planning!Covers
  <2> QED BY <1>1, <2>2, <2>3
<1> QED BY <1>1, <1>3, <1>4, <1>5, <1>6

\* Workers of a fine group are as many as its orders, and of each team no more than it may.
LEMMA GroupCounts ==
  ASSUME NEW goal, Planning!IsGoal(goal), NEW settled, NEW able, able \subseteq DOMAIN goal.files,
         NEW g, GroupFine(goal, settled, able, g)
  PROVE  /\ \A k, l \in 1..Len(g) : g[k] = g[l] => k = l
         /\ Len(g) = Planning!Cardinality(Planning!Range(g))
         /\ \A t \in DOMAIN goal.cap : goal.cap[t] # 0 =>
              Planning!Cardinality({o \in Planning!Range(g) : goal.files[o].team = t}) <= goal.cap[t]
<1> DEFINE n == Len(g)
           D == Planning!Range(g)
<1>1. /\ g \in Seq(able) /\ n \in Nat
      /\ \A k, l \in 1..n : k < l => ~Planning!Collide(goal.files[g[k]], goal.files[g[l]])
  BY DEF GroupFine
<1>2. D = {g[i] : i \in 1..n} /\ \A i \in 1..n : g[i] \in DOMAIN goal.files
  BY <1>1, RangeOf
<1>3. IsFiniteSet(1..n) /\ Cardinality(1..n) = n
  <2> HIDE DEF n
  <2>1. 1 \in Int /\ n \in Int
    BY <1>1
  <2>2. IsFiniteSet(1..n) /\ Cardinality(1..n) = IF 1 > n THEN 0 ELSE n - 1 + 1
    BY <2>1, FS_Interval
  <2>3. (IF 1 > n THEN 0 ELSE n - 1 + 1) = n
    BY <1>1
  <2> QED BY <2>2, <2>3
<1>4. ASSUME NEW k \in 1..n, NEW l \in 1..n, g[k] = g[l] PROVE k = l
  <2>1. Planning!Collide(goal.files[g[k]], goal.files[g[l]])
    BY <1>2, <1>4, CollideSame DEF Planning!IsGoal
  <2>2. Planning!Collide(goal.files[g[l]], goal.files[g[k]])
    BY <1>4, <2>1
  <2>3. ~(k < l) /\ ~(l < k)
    BY <1>1, <2>1, <2>2
  <2> QED BY <2>3, <1>1
<1>5. Cardinality(D) = n
  <2> DEFINE f == [i \in 1..n |-> g[i]]
  <2> HIDE DEF D, n
  <2>1. f \in Surjection(1..n, D)
    BY <1>2 DEF Surjection
  <2>2. f \in Injection(1..n, D)
    BY <1>2, <1>4 DEF Injection, IsInjective
  <2> HIDE DEF f
  <2> QED BY <1>3, <2>1, <2>2, FS_Surjection
<1>6. ASSUME NEW t \in DOMAIN goal.cap, goal.cap[t] # 0
      PROVE  Cardinality({o \in D : goal.files[o].team = t}) <= goal.cap[t]
  <2> DEFINE I == {i \in 1..n : goal.files[g[i]].team = t}
             T == {o \in D : goal.files[o].team = t}
             f == [i \in I |-> g[i]]
  <2>1. Cardinality(I) <= goal.cap[t]
    <3>1. Planning!Team(goal, g, t) = Cardinality(I)
      BY PlanCounts DEF Planning!Team
    <3>2. Planning!Team(goal, g, t) <= Planning!Cap(goal, t)
      BY DEF GroupFine
    <3>3. Planning!Cap(goal, t) = goal.cap[t]
      BY <1>6 DEF Planning!Cap
    <3> QED BY <3>1, <3>2, <3>3
  <2>2. IsFiniteSet(I)
    BY <1>3, FS_Subset
  <2>3. f \in Surjection(I, T)
    <3> HIDE DEF D, n
    <3>1. \A i \in I : g[i] \in T
      BY <1>2
    <3>2. \A o \in T : \E i \in I : g[i] = o
      BY <1>2
    <3> HIDE DEF I, T
    <3> QED BY <3>1, <3>2 DEF Surjection
  <2>4. IsFiniteSet(T) /\ Cardinality(T) <= Cardinality(I)
    <3> HIDE DEF f, I, T
    <3> QED BY <2>2, <2>3, FS_Surjection
  <2>5. Cardinality(T) \in Nat /\ Cardinality(I) \in Nat /\ goal.cap[t] \in Nat
    BY <2>2, <2>4, FS_CardinalityType DEF Planning!IsGoal
  <2> HIDE DEF T, I
  <2>6. Cardinality(T) <= goal.cap[t]
    BY <2>1, <2>4, <2>5
  <2> QED BY <2>6 DEF T
<1> QED BY <1>4, <1>5, <1>6, PlanCounts

LEMMA PlansSafely ==
  ASSUME NEW goal, Planning!IsGoal(goal), NEW paths
  PROVE  Planning!PlanIsSafe(goal, Planning!Plan(goal), paths)
<1> DEFINE ours == Planning!Planned(goal)
           blocked == Planning!Blocked(goal, ours)
           able == ours \ blocked
           plan == Planning!Groups(goal, able)
           missing == \E o \in Planning!Range(goal.orders) : o \notin DOMAIN goal.files
           unknown == \E o \in ours : \E w \in goal.files[o].needs :
                        w \notin DOMAIN goal.files \cup goal.landed
           Refuse(why) == [refused |-> why, groups |-> <<>>, blocked |-> {}]
           given == Planning!Plan(goal)
<1>1. given = IF missing THEN Refuse("missing") ELSE IF unknown THEN Refuse("unknown")
              ELSE IF plan.left # {} THEN Refuse("cycle")
              ELSE [refused |-> "no", groups |-> plan.groups, blocked |-> blocked]
  BY DEF Planning!Plan
<1>2. /\ ours = Planning!Range(goal.orders) \ goal.landed
      /\ ours \subseteq Planning!Range(goal.orders) /\ IsFiniteSet(ours)
  BY NamedFinite, FS_Subset DEF Planning!Planned
<1>3. /\ blocked \subseteq ours /\ Planning!CanStart(goal, ours) = able
      /\ Planning!SelfSufficient(goal, able)
  BY <1>2, BlockedMeans
<1>4. IsFiniteSet(able)
  BY <1>2, FS_Subset
<1> HIDE DEF given, plan, blocked, ours
<1>5. CASE missing
  <2>1. given.refused = "missing"
    BY <1>1, <1>5
  <2>2. \E o \in Planning!Range(goal.orders) : Planning!Unknown(goal, o)
    BY <1>5 DEF Planning!Unknown
  <2> QED BY <2>1, <2>2 DEF Planning!PlanIsSafe, given
<1>6. CASE ~missing /\ unknown
  <2>1. given.refused = "unknown"
    BY <1>1, <1>6
  <2>2. \E o \in Planning!Range(goal.orders) : Planning!Unknown(goal, o)
    BY <1>2, <1>6 DEF Planning!Unknown
  <2> QED BY <2>1, <2>2 DEF Planning!PlanIsSafe, given
<1>7. CASE ~missing /\ ~unknown
  <2>1. able \subseteq DOMAIN goal.files /\ able \subseteq Planning!Range(goal.orders)
    BY <1>2, <1>7
  <2>2. /\ PlanFine(goal, able, plan)
        /\ goal.budget # 0 =>
             \A o \in plan.left : ~(goal.files[o].needs \subseteq Planning!Settled(goal, plan))
    BY <2>1, <1>4, GroupsMean DEF plan
  <2> DEFINE n == Len(plan.groups)
  <2>3. /\ plan.groups \in Seq(Seq(able)) /\ n \in Nat /\ DOMAIN plan.groups = 1..n
        /\ plan.left = able \ UNION {In(plan, l) : l \in 1..n}
        /\ Planning!Settled(goal, plan) = goal.landed \cup UNION {In(plan, l) : l \in 1..n}
    BY <2>2 DEF PlanFine, Planning!Settled, In
  <2>4. CASE plan.left # {}
    <3>1. given.refused = "cycle"
      BY <1>1, <1>7, <2>4
    <3>2. ASSUME goal.budget # 0
          PROVE  \A o \in plan.left : goal.files[o].needs \cap plan.left # {}
      <4> SUFFICES ASSUME NEW o \in plan.left PROVE goal.files[o].needs \cap plan.left # {}
        OBVIOUS
      <4>1. PICK w \in goal.files[o].needs : w \notin Planning!Settled(goal, plan)
        BY <2>2, <3>2
      <4>2. o \in able /\ w \notin goal.landed
        BY <2>3, <4>1
      <4>3. w \in able
        BY <1>3, <4>1, <4>2 DEF Planning!SelfSufficient
      <4> QED BY <4>1, <4>3, <2>3
    <3>3. goal.budget = 0 \/ Planning!Circular(goal, able)
      BY <2>3, <2>4, <3>2 DEF Planning!Circular
    <3> QED BY <3>1, <3>3, <1>2, <1>3 DEF Planning!PlanIsSafe, given
  <2>5. CASE plan.left = {}
    <3>1. given = [refused |-> "no", groups |-> plan.groups, blocked |-> blocked]
      BY <1>1, <1>7, <2>5
    <3>2. \A k \in 1..n : In(given, k) = In(plan, k) /\ In(plan, k) \subseteq able
      BY <3>1, <2>3, RangeOf DEF In
    <3>3. blocked \cup UNION {In(given, k) : k \in 1..n} = ours
      <4>1. \A k \in 1..n : In(plan, k) \subseteq able /\ In(given, k) = In(plan, k)
        BY <3>2
      <4>2. UNION {In(given, k) : k \in 1..n} = able
        <5> HIDE DEF n
        <5>1. \A x \in able : \E k \in 1..n : x \in In(plan, k)
          BY <2>3, <2>5
        <5> QED BY <4>1, <5>1
      <4> QED BY <4>2, <1>3
    <3>4. ASSUME NEW k \in 1..n, NEW l \in 1..n, k # l PROVE In(given, k) \cap In(given, l) = {}
      <4>1. k < l \/ l < k
        BY <3>4, <2>3
      <4>2. \A i \in 1..n, j \in 1..n : j < i => In(plan, i) \cap In(plan, j) = {}
        BY <2>2, <2>3 DEF PlanFine
      <4> QED BY <4>1, <4>2, <3>2
    <3>5. ASSUME NEW k \in 1..n
          PROVE  /\ plan.groups[k] # <<>> /\ In(given, k) \cap blocked = {}
                 /\ Len(plan.groups[k]) = Planning!Cardinality(In(given, k))
                 /\ Len(plan.groups[k]) <= goal.budget
                 /\ \A t \in DOMAIN goal.cap : goal.cap[t] # 0 =>
                      Planning!Cardinality({o \in In(given, k) : goal.files[o].team = t}) <= goal.cap[t]
                 /\ \A o, other \in In(given, k) : o # other =>
                      Planning!Owned(goal.files[o], paths)
                        \cap Planning!Owned(goal.files[other], paths) = {}
                 /\ \A o \in In(given, k) : goal.files[o].needs \subseteq
                      goal.landed \cup UNION {In(given, l) : l \in {m \in 1..n : m < k}}
      <4> DEFINE g == plan.groups[k]
                 settled == Done(goal, plan, k)
      <4>1. g # <<>> /\ GroupFine(goal, settled, able, g)
        BY <2>2 DEF PlanFine
      <4>2. In(given, k) = Planning!Range(g)
        BY <3>2 DEF In
      <4> HIDE DEF g, settled
      <4>3. g \in Seq(able) /\ Planning!Range(g) = {g[i] : i \in 1..Len(g)} /\ Len(g) \in Nat
        BY <4>1, RangeOf DEF GroupFine
      <4>4. /\ Len(g) = Planning!Cardinality(Planning!Range(g))
            /\ \A t \in DOMAIN goal.cap : goal.cap[t] # 0 =>
                 Planning!Cardinality({o \in Planning!Range(g) : goal.files[o].team = t}) <= goal.cap[t]
        BY <4>1, <2>1, GroupCounts
      <4>5. In(given, k) \cap blocked = {} /\ Len(g) <= goal.budget
        BY <3>2, <4>1 DEF GroupFine
      <4>6. ASSUME NEW o \in Planning!Range(g), NEW other \in Planning!Range(g), o # other
            PROVE  Planning!Owned(goal.files[o], paths)
                     \cap Planning!Owned(goal.files[other], paths) = {}
        <5>1. PICK i \in 1..Len(g) : o = g[i]
          BY <4>3
        <5>2. PICK j \in 1..Len(g) : other = g[j]
          BY <4>3
        <5>3. i < j \/ j < i
          BY <5>1, <5>2, <4>6, <4>3
        <5>4. ~Planning!Collide(goal.files[o], goal.files[other])
          BY <4>1, <5>1, <5>2, <5>3, CollideSame DEF GroupFine
        <5>5. o \in DOMAIN goal.files /\ other \in DOMAIN goal.files
          BY <4>3, <2>1
        <5> QED BY <5>4, <5>5, OwnedApart
      <4>7. settled = goal.landed \cup UNION {In(given, l) : l \in {m \in 1..n : m < k}}
        <5>1. {m \in 1..n : m < k} = 1..(k - 1)
          BY <2>3
        <5>2. {In(given, l) : l \in 1..(k - 1)} = {In(plan, l) : l \in 1..(k - 1)}
          BY <5>1, <3>2
        <5> QED BY <5>1, <5>2 DEF settled, Done
      <4>8. \A o \in Planning!Range(g) : goal.files[o].needs \subseteq settled
        BY <4>1, <4>3 DEF GroupFine
      <4> QED BY <4>1, <4>2, <4>4, <4>5, <4>6, <4>7, <4>8 DEF g
    <3>6. blocked = ours \ Planning!CanStart(goal, ours)
      BY <1>3
    <3>7. /\ given.refused = "no" /\ given.blocked = blocked /\ given.groups = plan.groups
          /\ DOMAIN given.groups = 1..n
      BY <3>1, <2>3
    <3> HIDE DEF n
    <3>8. Planning!Launchable(goal, given, paths)
      BY <1>2, <3>3, <3>4, <3>5, <3>6, <3>7 DEF Planning!Launchable, In
    <3> QED BY <3>7, <3>8 DEF Planning!PlanIsSafe, given
  <2> QED BY <2>4, <2>5
<1> QED BY <1>5, <1>6, <1>7

-----------------------------------------------------------------------------
(* A pipeline *)

\* A set of numbers up to n has a least, and a greatest.
LEMMA LeastOf ==
  ASSUME NEW n \in Nat, NEW S \in SUBSET (1..n), S # {}
  PROVE  Flow!Min(S) \in S /\ \A y \in S : Flow!Min(S) <= y
<1> DEFINE T == {n - x : x \in S}
<1>1. T \in SUBSET (0..n) /\ T # {}
  <2>1. PICK x \in S : TRUE
    OBVIOUS
  <2>2. n - x \in T
    BY <2>1
  <2> QED BY <2>2
<1>2. PICK t \in T : \A u \in T : t >= u
  <2> HIDE DEF T
  <2> QED BY <1>1, Greatest
<1>3. PICK x \in S : t = n - x
  OBVIOUS
<1>4. ASSUME NEW y \in S PROVE x <= y
  <2>1. n - y \in T
    OBVIOUS
  <2>2. t >= n - y
    BY <1>2, <2>1
  <2> QED BY <1>3, <2>2
<1> HIDE DEF T
<1>5. x \in S /\ \A y \in S : x <= y
  BY <1>3, <1>4
<1> QED BY <1>5 DEF Flow!Min

LEMMA GreatestOf ==
  ASSUME NEW n \in Nat, NEW S \in SUBSET (1..n), S # {}
  PROVE  Flow!Max(S) \in S /\ \A y \in S : Flow!Max(S) >= y
<1>1. S \in SUBSET (0..n)
  OBVIOUS
<1>2. PICK x \in S : \A y \in S : x >= y
  BY <1>1, Greatest
<1>3. x \in S /\ \A y \in S : y <= x
  BY <1>2
<1> QED BY <1>3 DEF Flow!Max

\* What the check has looked at when it looks for a cycle: numbered stages, and
\* none that depends on itself or on what is no stage.
Straight(stages) ==
  /\ Len(stages) \in Nat /\ DOMAIN stages = 1..Len(stages)
  /\ \A s \in DOMAIN stages :
       /\ DOMAIN stages[s].after = 1..Len(stages[s].after) /\ Len(stages[s].after) \in Nat
       /\ Flow!After(stages, s) \subseteq DOMAIN stages
       /\ s \notin Flow!After(stages, s)

LEMMA StraightIs ==
  ASSUME NEW stages, Flow!AreStages(stages), ~Flow!Strays(stages)
  PROVE  Straight(stages)
BY DEF Flow!AreStages, Flow!Strays, Straight

-----------------------------------------------------------------------------
(* The search for a cycle *)

Searches(stages) ==
  [trail : Seq(DOMAIN stages), closed : SUBSET DOMAIN stages, cycle : Seq(DOMAIN stages)]

\* What is left to look at beneath a stage.
Beneath(stages, node, closed) == Flow!After(stages, node) \ (closed \cup {node})

LEMMA Deps ==
  ASSUME NEW stages, Straight(stages), NEW node \in DOMAIN stages, NEW closed
  PROVE  LET deps == Flow!ToVisit(stages, node, closed) IN
         /\ deps = {} <=> Beneath(stages, node, closed) = {}
         /\ deps # {} => stages[node].after[Flow!Min(deps)] \in Beneath(stages, node, closed)
<1> DEFINE deps == Flow!ToVisit(stages, node, closed)
           n == Len(stages[node].after)
<1>1. n \in Nat /\ DOMAIN stages[node].after = 1..n
  BY DEF Straight
<1>2. deps = {i \in 1..n : stages[node].after[i] \notin closed \cup {node}}
  BY <1>1 DEF Flow!ToVisit
<1>3. Flow!After(stages, node) = {stages[node].after[i] : i \in 1..n}
  BY <1>1 DEF Flow!After, Flow!Range
<1> HIDE DEF deps, n
<1>4. deps = {} <=> Beneath(stages, node, closed) = {}
  BY <1>2, <1>3 DEF Beneath
<1>5. ASSUME deps # {}
      PROVE stages[node].after[Flow!Min(deps)] \in Beneath(stages, node, closed)
  <2>1. deps \in SUBSET (1..n)
    BY <1>2
  <2>2. Flow!Min(deps) \in deps
    BY <1>1, <1>5, <2>1, LeastOf
  <2> QED BY <1>2, <1>3, <2>2 DEF Beneath
<1> QED BY <1>4, <1>5 DEF deps

At(trail, closed, cycle) == [trail |-> trail, closed |-> closed, cycle |-> cycle]

\* What a step of the search is.
Opens(stages, at, next) ==
  /\ at.trail = <<>>
  /\ \E s \in DOMAIN stages \ at.closed : next = At(<<s>>, at.closed, <<>>)

Closes(stages, at, next) ==
  LET n == Len(at.trail) IN
  /\ at.trail # <<>> /\ Beneath(stages, at.trail[n], at.closed) = {}
  /\ next = At(SubSeq(at.trail, 1, n - 1), at.closed \cup {at.trail[n]}, <<>>)

Descends(stages, at, next) ==
  LET n == Len(at.trail) IN
  /\ at.trail # <<>>
  /\ \E d \in Beneath(stages, at.trail[n], at.closed) :
       /\ \A k \in 1..n : at.trail[k] # d
       /\ next = At(Append(at.trail, d), at.closed, <<>>)

Meets(stages, at, next) ==
  LET n == Len(at.trail) IN
  /\ at.trail # <<>>
  /\ \E d \in Beneath(stages, at.trail[n], at.closed), k \in 1..n :
       /\ at.trail[k] = d
       /\ next = At(at.trail, at.closed, Append(SubSeq(at.trail, k, n), d))

LEMMA VisitMeans ==
  ASSUME NEW stages, Straight(stages), NEW at \in Searches(stages)
  PROVE  LET next == Flow!Visit(stages, at) IN
         IF at.cycle # <<>> THEN next = at
         ELSE \/ at.trail = <<>> /\ at.closed = DOMAIN stages /\ next = at
              \/ Opens(stages, at, next) \/ Closes(stages, at, next)
              \/ Descends(stages, at, next) \/ Meets(stages, at, next)
<1> DEFINE trail == at.trail
           closed == at.closed
           n == Len(trail)
           D == DOMAIN stages
           node == trail[n]
           deps == Flow!ToVisit(stages, node, closed)
           dep  == stages[node].after[Flow!Min(deps)]
           met  == {k \in 1..n : trail[k] = dep}
           next == Flow!Visit(stages, at)
<1>1. trail \in Seq(D) /\ closed \in SUBSET D /\ at = At(trail, closed, at.cycle) /\ n \in Nat
  BY DEF Searches, At
<1>2. CASE at.cycle # <<>>
  BY <1>2 DEF Flow!Visit
<1>3. CASE at.cycle = <<>> /\ n = 0
  <2>1. trail = <<>>
    BY <1>1, <1>3
  <2>2. CASE D \ closed = {}
    <3>1. next = at
      BY <1>3, <2>2 DEF Flow!Visit
    <3> QED BY <1>1, <1>3, <2>1, <2>2, <3>1
  <2>3. CASE D \ closed # {}
    <3>1. next = [at EXCEPT !.trail = <<Flow!Min(D \ closed)>>]
      BY <1>3, <2>3 DEF Flow!Visit
    <3>2. D = 1..Len(stages) /\ Len(stages) \in Nat
      BY DEF Straight
    <3>3. Flow!Min(D \ closed) \in D \ closed
      BY <2>3, <3>2, LeastOf
    <3>4. next = At(<<Flow!Min(D \ closed)>>, closed, <<>>)
      BY <1>1, <1>3, <3>1 DEF At
    <3>5. Opens(stages, at, next)
      BY <2>1, <3>3, <3>4 DEF Opens
    <3> QED BY <1>3, <3>5
  <2> QED BY <2>2, <2>3
<1>4. CASE at.cycle = <<>> /\ n # 0
  <2>1. trail # <<>> /\ node \in D
    BY <1>1, <1>4
  <2>2. CASE deps = {}
    <3>1. next = [at EXCEPT !.trail = SubSeq(@, 1, n - 1), !.closed = @ \cup {node}]
      BY <1>4, <2>2 DEF Flow!Visit
    <3>2. next = At(SubSeq(trail, 1, n - 1), closed \cup {node}, <<>>)
      BY <1>1, <1>4, <3>1 DEF At
    <3>3. Beneath(stages, node, closed) = {}
      BY <2>1, <2>2, Deps
    <3>4. Closes(stages, at, next)
      BY <2>1, <3>2, <3>3 DEF Closes
    <3> QED BY <1>4, <3>4
  <2>3. CASE deps # {}
    <3>1. dep \in Beneath(stages, node, closed)
      BY <2>1, <2>3, Deps
    <3>2. CASE met = {}
      <4>1. next = [at EXCEPT !.trail = Append(@, dep)]
        BY <1>4, <2>3, <3>2 DEF Flow!Visit
      <4>2. next = At(Append(trail, dep), closed, <<>>)
        BY <1>1, <1>4, <4>1 DEF At
      <4>3. \A k \in 1..n : trail[k] # dep
        BY <3>2
      <4> HIDE DEF dep, met, next, deps
      <4>4. Descends(stages, at, next)
        BY <2>1, <3>1, <4>2, <4>3 DEF Descends
      <4> QED BY <1>4, <4>4 DEF next
    <3>3. CASE met # {}
      <4>1. next = [at EXCEPT !.cycle = Append(SubSeq(trail, Flow!Min(met), n), dep)]
        BY <1>4, <2>3, <3>3 DEF Flow!Visit
      <4> HIDE DEF dep, next, deps
      <4>2. next = At(trail, closed, Append(SubSeq(trail, Flow!Min(met), n), dep))
        BY <1>1, <1>4, <4>1 DEF At
      <4>3. Flow!Min(met) \in met
        <5>1. met \in SUBSET (1..n)
          OBVIOUS
        <5> HIDE DEF met
        <5> QED BY <1>1, <3>3, <5>1, LeastOf
      <4>4. Meets(stages, at, next)
        BY <2>1, <3>1, <4>2, <4>3 DEF Meets
      <4> QED BY <1>4, <4>4 DEF next
    <3> QED BY <3>2, <3>3
  <2> QED BY <2>2, <2>3
<1> QED BY <1>1, <1>2, <1>3, <1>4

-----------------------------------------------------------------------------
\* A piece of a path, and a path with one more.
LEMMA PieceOf ==
  ASSUME NEW D, NEW t \in Seq(D), NEW m \in 1..Len(t), NEW e \in Nat, e <= Len(t), m <= e + 1
  PROVE  /\ SubSeq(t, m, e) \in Seq(D) /\ Len(SubSeq(t, m, e)) = e - m + 1
         /\ \A i \in 1..(e - m + 1) : SubSeq(t, m, e)[i] = t[m + i - 1]
OBVIOUS

LEMMA OneMore ==
  ASSUME NEW D, NEW t \in Seq(D), NEW d \in D
  PROVE  /\ Append(t, d) \in Seq(D) /\ Len(Append(t, d)) = Len(t) + 1
         /\ Append(t, d)[Len(t) + 1] = d
         /\ \A i \in 1..Len(t) : Append(t, d)[i] = t[i]
OBVIOUS

On(t) == {t[k] : k \in 1..Len(t)}

\* Some of whose dependencies none is left: no cycle goes through them.
Clear(stages, closed) ==
  \A some \in SUBSET closed :
    some # {} => \E s \in some : Flow!After(stages, s) \cap some = {}

\* While no cycle is found: the trail is a path of stages not closed, and what
\* is closed goes nowhere else and through no cycle.
OnTrail(stages, trail, closed) ==
  /\ \A k \in 1..(Len(trail) - 1) : trail[k + 1] \in Flow!After(stages, trail[k])
  /\ \A k \in 1..Len(trail) : trail[k] \notin closed
  /\ \A s \in closed : Flow!After(stages, s) \subseteq closed
  /\ Clear(stages, closed)

Ticks(stages, trail, closed, i) ==
  \/ closed = DOMAIN stages
  \/ 2 * Cardinality(closed \cup On(trail)) = i + Len(trail)

Searched(stages, at, i) ==
  IF at.cycle # <<>> THEN Flow!GoesAround(stages, at.cycle)
  ELSE OnTrail(stages, at.trail, at.closed) /\ Ticks(stages, at.trail, at.closed, i)

\* Every step closes a stage or finds one.
LEMMA TickUp ==
  ASSUME NEW c \in Nat, NEW i \in Nat, NEW l \in Nat, 2 * c = i + l
  PROVE  2 * (c + 1) = (i + 1) + (l + 1)
OBVIOUS

LEMMA TickDown ==
  ASSUME NEW i \in Nat, NEW l \in Nat
  PROVE  (i + 1) + (l - 1) = i + l
OBVIOUS

LEMMA OpensWell ==
  ASSUME NEW stages, Straight(stages), NEW at \in Searches(stages), NEW next, NEW i \in Nat,
         OnTrail(stages, at.trail, at.closed), Ticks(stages, at.trail, at.closed, i),
         Opens(stages, at, next)
  PROVE  next \in Searches(stages) /\ Searched(stages, next, i + 1)
<1>i. i \in Nat
  OBVIOUS
<1> DEFINE D == DOMAIN stages
           closed == at.closed
<1>1. PICK s \in D \ closed : next = At(<<s>>, closed, <<>>)
  BY DEF Opens
<1>2. next \in Searches(stages)
  BY <1>1 DEF At, Searches
<1>3. next.cycle = <<>> /\ next.trail = <<s>> /\ next.closed = closed
  BY <1>1 DEF At
<1>4. Len(<<s>>) = 1 /\ <<s>>[1] = s /\ at.trail = <<>> /\ Len(<<>>) = 0
  BY DEF Opens
<1>5. OnTrail(stages, <<s>>, closed)
  BY <1>1, <1>4 DEF OnTrail
<1>6. Ticks(stages, <<s>>, closed, i + 1)
  <2>1. closed # D /\ closed \subseteq D
    BY <1>1 DEF Searches
  <2>2. On(<<s>>) = {s} /\ On(<<>>) = {}
    BY <1>4 DEF On
  <2>3. 2 * Cardinality(closed) = i + 0
    <3>1. closed \cup {} = closed
      OBVIOUS
    <3>2. Ticks(stages, <<>>, closed, i)
      BY <1>4
    <3>3. 2 * Cardinality(closed \cup On(<<>>)) = i + Len(<<>>)
      BY <2>1, <3>2, Zenon DEF Ticks
    <3> HIDE DEF closed
    <3> QED BY <2>2, <1>4, <3>1, <3>3, Zenon
  <2>4. IsFiniteSet(closed)
    <3>1. IsFiniteSet(D)
      BY FS_Interval DEF Straight
    <3> QED BY <2>1, <3>1, FS_Subset
  <2>5. Cardinality(closed) \in Nat /\ Cardinality(closed \cup {s}) = Cardinality(closed) + 1
    BY <1>1, <2>4, FS_AddElement, FS_CardinalityType
  <2>6. 2 * Cardinality(closed \cup On(<<s>>)) = (i + 1) + Len(<<s>>)
    <3> HIDE DEF closed
    <3>1. 2 * (Cardinality(closed) + 1) = (i + 1) + (0 + 1)
      BY <1>i, <2>3, <2>5, TickUp
    <3>2. 0 + 1 = 1
      OBVIOUS
    <3> QED BY <3>1, <3>2, <1>4, <2>2, <2>5, Zenon
  <2> QED BY <2>6 DEF Ticks
<1> QED BY <1>2, <1>3, <1>5, <1>6 DEF Searched

LEMMA DescendsWell ==
  ASSUME NEW stages, Straight(stages), NEW at \in Searches(stages), NEW next, NEW i \in Nat,
         OnTrail(stages, at.trail, at.closed), Ticks(stages, at.trail, at.closed, i),
         Descends(stages, at, next)
  PROVE  next \in Searches(stages) /\ Searched(stages, next, i + 1)
<1>i. i \in Nat
  OBVIOUS
<1> DEFINE D == DOMAIN stages
           closed == at.closed
           trail == at.trail
           n == Len(trail)
<1>1. PICK d \in Beneath(stages, trail[n], closed) :
        (\A k \in 1..n : trail[k] # d) /\ next = At(Append(trail, d), closed, <<>>)
  BY DEF Descends
<1>2. trail \in Seq(D) /\ n \in Nat \ {0} /\ trail[n] \in D /\ closed \subseteq D
  BY DEF Descends, Searches
<1>3. d \in D /\ d \notin closed /\ d \in Flow!After(stages, trail[n])
  BY <1>1, <1>2 DEF Beneath, Straight
<1> DEFINE longer == Append(trail, d)
<1>4. /\ longer \in Seq(D) /\ Len(longer) = n + 1 /\ longer[n + 1] = d
      /\ \A k \in 1..n : longer[k] = trail[k]
  BY <1>2, <1>3, OneMore
<1> HIDE DEF longer
<1>5. next \in Searches(stages) /\ next.cycle = <<>> /\ next.trail = longer /\ next.closed = closed
  BY <1>1, <1>2, <1>4 DEF At, Searches, longer
<1>6. OnTrail(stages, longer, closed)
  <2>1. OnTrail(stages, trail, closed)
    OBVIOUS
  <2>2. \A k \in 1..(n + 1) : k = n + 1 \/ k \in 1..n
    BY <1>2
  <2>3. \A k \in 1..((n + 1) - 1) : k \in 1..n /\ k + 1 \in 1..(n + 1) /\ (k = n \/ (k \in 1..(n - 1) /\ k + 1 \in 1..n))
    BY <1>2
  <2>4. \A k \in 1..((n + 1) - 1) : longer[k + 1] \in Flow!After(stages, longer[k])
    BY <2>1, <2>3, <1>3, <1>4 DEF OnTrail
  <2>5. \A k \in 1..(n + 1) : longer[k] \notin closed
    BY <2>1, <2>2, <1>3, <1>4 DEF OnTrail
  <2> QED BY <1>4, <2>1, <2>4, <2>5 DEF OnTrail
<1>7. Ticks(stages, longer, closed, i + 1)
  <2>1. closed # D
    BY <1>3
  <2>2. 2 * Cardinality(closed \cup On(trail)) = i + n
    BY <2>1 DEF Ticks
  <2>3. On(longer) = On(trail) \cup {d}
    <3>1. 1..(n + 1) = 1..n \cup {n + 1}
      BY <1>2
    <3> QED BY <1>4, <3>1 DEF On
  <2>4. d \notin closed \cup On(trail)
    BY <1>1, <1>3 DEF On
  <2>5. IsFiniteSet(closed \cup On(trail))
    <3>1. IsFiniteSet(D)
      BY FS_Interval DEF Straight
    <3>2. closed \cup On(trail) \subseteq D
      BY <1>2 DEF On
    <3> QED BY <3>1, <3>2, FS_Subset
  <2>6. closed \cup On(longer) = (closed \cup On(trail)) \cup {d}
    BY <2>3
  <2>7. /\ Cardinality(closed \cup On(trail)) \in Nat
        /\ Cardinality(closed \cup On(longer)) = Cardinality(closed \cup On(trail)) + 1
    BY <2>4, <2>5, <2>6, FS_AddElement, FS_CardinalityType
  <2>8. 2 * Cardinality(closed \cup On(longer)) = (i + 1) + Len(longer)
    <3> HIDE DEF closed, trail, n
    <3>1. 2 * (Cardinality(closed \cup On(trail)) + 1) = (i + 1) + (n + 1)
      BY <1>i, <1>2, <2>2, <2>7, TickUp
    <3> QED BY <3>1, <1>4, <2>7, Zenon
  <2> QED BY <2>8 DEF Ticks
<1> QED BY <1>5, <1>6, <1>7 DEF Searched

LEMMA ClosesWell ==
  ASSUME NEW stages, Straight(stages), NEW at \in Searches(stages), NEW next, NEW i \in Nat,
         OnTrail(stages, at.trail, at.closed), Ticks(stages, at.trail, at.closed, i),
         Closes(stages, at, next)
  PROVE  next \in Searches(stages) /\ Searched(stages, next, i + 1)
<1>i. i \in Nat
  OBVIOUS
<1> DEFINE D == DOMAIN stages
           closed == at.closed
           trail == at.trail
           n == Len(trail)
           node == trail[n]
           shorter == SubSeq(trail, 1, n - 1)
           more == closed \cup {node}
<1>1. next = At(shorter, more, <<>>) /\ Beneath(stages, node, closed) = {}
  BY DEF Closes
<1>2. trail \in Seq(D) /\ n \in Nat \ {0} /\ node \in D /\ closed \subseteq D
  BY DEF Closes, Searches
<1>3. /\ shorter \in Seq(D) /\ Len(shorter) = n - 1
      /\ \A k \in 1..(n - 1) : shorter[k] = trail[k]
  <2>1. 1 \in 1..n /\ n - 1 \in Nat /\ n - 1 <= n /\ 1 <= (n - 1) + 1
    BY <1>2
  <2>2. (n - 1) - 1 + 1 = n - 1 /\ \A k \in 1..(n - 1) : 1 + k - 1 = k
    BY <1>2
  <2> HIDE DEF n
  <2>3. /\ SubSeq(trail, 1, n - 1) \in Seq(D) /\ Len(SubSeq(trail, 1, n - 1)) = (n - 1) - 1 + 1
        /\ \A k \in 1..((n - 1) - 1 + 1) : SubSeq(trail, 1, n - 1)[k] = trail[1 + k - 1]
    BY <1>2, <2>1, PieceOf DEF n
  <2> QED BY <2>2, <2>3
<1>4. Flow!After(stages, node) \subseteq closed /\ node \notin Flow!After(stages, node)
  BY <1>1, <1>2 DEF Beneath, Straight
<1>0. OnTrail(stages, trail, closed)
  OBVIOUS
<1>5. node \notin closed
  BY <1>0, <1>2 DEF OnTrail
<1> HIDE DEF shorter, more
<1>6. next \in Searches(stages) /\ next.cycle = <<>> /\ next.trail = shorter /\ next.closed = more
  BY <1>1, <1>2, <1>3 DEF At, Searches, more
<1>7. CASE \E k \in 1..(n - 1) : trail[k] = node
  <2>1. PICK k \in 1..(n - 1) : trail[k] = node
    BY <1>7
  \* The trail would come back to its end, through what is beneath it.
  <2>2. k \in 1..n /\ k + 1 \in 1..n
    BY <1>2
  <2>3. trail[k + 1] \in Flow!After(stages, node)
    BY <1>0, <2>1 DEF OnTrail
  <2>4. trail[k + 1] \notin closed
    BY <1>0, <2>2 DEF OnTrail
  <2> QED BY <1>4, <2>3, <2>4
<1>8. CASE \A k \in 1..(n - 1) : trail[k] # node
  <2>1. OnTrail(stages, shorter, more)
    <3>1. \A k \in 1..((n - 1) - 1) : k \in 1..(n - 1) /\ k + 1 \in 1..(n - 1)
      BY <1>2
    <3>2. \A k \in 1..((n - 1) - 1) : shorter[k + 1] \in Flow!After(stages, shorter[k])
      BY <1>0, <1>3, <3>1 DEF OnTrail
    <3>3. \A k \in 1..(n - 1) : k \in 1..n
      BY <1>2
    <3>4. \A k \in 1..(n - 1) : shorter[k] \notin more
      BY <1>0, <1>3, <1>8, <3>3 DEF OnTrail, more
    <3>5. \A s \in more : Flow!After(stages, s) \subseteq more
      BY <1>0, <1>4 DEF OnTrail, more
    <3>6. ASSUME NEW some \in SUBSET more, some # {}
          PROVE  \E s \in some : Flow!After(stages, s) \cap some = {}
      <4>1. CASE some \cap closed = {}
        <5>1. some = {node}
          BY <4>1, <3>6 DEF more
        <5> QED BY <5>1, <1>4
      <4>2. CASE some \cap closed # {}
        <5>1. PICK s \in some \cap closed : Flow!After(stages, s) \cap (some \cap closed) = {}
          BY <1>0, <4>2 DEF OnTrail, Clear
        <5>2. Flow!After(stages, s) \subseteq closed
          BY <1>0 DEF OnTrail
        <5> QED BY <5>1, <5>2
      <4> QED BY <4>1, <4>2
    <3>7. Clear(stages, more)
      BY <3>6 DEF Clear
    <3> QED BY <1>3, <3>2, <3>4, <3>5, <3>7 DEF OnTrail
  <2>2. Ticks(stages, shorter, more, i + 1)
    <3>1. closed # D
      BY <1>2, <1>5
    <3>2. 2 * Cardinality(closed \cup On(trail)) = i + n
      BY <3>1 DEF Ticks
    <3>3. On(trail) = On(shorter) \cup {node}
      <4>1. 1..n = 1..(n - 1) \cup {n}
        BY <1>2
      <4> HIDE DEF n
      <4>2. On(trail) = {trail[k] : k \in 1..(n - 1)} \cup {trail[n]}
        BY <4>1 DEF On, n
      <4>3. On(shorter) = {trail[k] : k \in 1..(n - 1)}
        BY <1>3 DEF On
      <4> QED BY <4>2, <4>3
    <3>4. more \cup On(shorter) = closed \cup On(trail)
      BY <3>3 DEF more
    <3>5. (i + 1) + (n - 1) = i + n
      <4> HIDE DEF n
      <4> QED BY <1>i, <1>2, TickDown
    <3>6. 2 * Cardinality(more \cup On(shorter)) = (i + 1) + Len(shorter)
      <4> HIDE DEF closed, trail, n
      <4> QED BY <1>3, <3>2, <3>4, <3>5
    <3> QED BY <3>6 DEF Ticks
  <2> QED BY <1>6, <2>1, <2>2 DEF Searched
<1> QED BY <1>7, <1>8

LEMMA MeetsWell ==
  ASSUME NEW stages, Straight(stages), NEW at \in Searches(stages), NEW next, NEW i \in Nat,
         OnTrail(stages, at.trail, at.closed), Ticks(stages, at.trail, at.closed, i),
         Meets(stages, at, next)
  PROVE  next \in Searches(stages) /\ Searched(stages, next, i + 1)
<1> DEFINE D == DOMAIN stages
           closed == at.closed
           trail == at.trail
           n == Len(trail)
<1>1. PICK d \in Beneath(stages, trail[n], closed), k \in 1..n :
        trail[k] = d /\ next = At(trail, closed, Append(SubSeq(trail, k, n), d))
  BY DEF Meets
<1>2. trail \in Seq(D) /\ n \in Nat \ {0} /\ trail[n] \in D /\ closed \subseteq D
  BY DEF Meets, Searches
<1>3. d \in D /\ d # trail[n] /\ d \in Flow!After(stages, trail[n])
  BY <1>1, <1>2 DEF Beneath, Straight
<1> DEFINE piece == SubSeq(trail, k, n)
           l == n - k + 1
<1>4. l \in Nat /\ l >= 2
  BY <1>1, <1>2, <1>3
<1>5. piece \in Seq(D) /\ Len(piece) = l /\ \A j \in 1..l : piece[j] = trail[k + j - 1]
  BY <1>2, PieceOf
<1>t. trail \in Seq(D) /\ next = At(trail, closed, Append(piece, d))
  BY <1>1, <1>2
<1> HIDE DEF piece, l
<1> DEFINE c == Append(piece, d)
<1>6. c \in Seq(D) /\ Len(c) = l + 1 /\ c[l + 1] = d /\ \A j \in 1..l : c[j] = piece[j]
  BY <1>3, <1>5, OneMore
<1> HIDE DEF c
<1>7. next \in Searches(stages) /\ next.cycle = c /\ c # <<>>
  <2>1. next = At(trail, closed, c)
    BY <1>t DEF c
  <2>2. c # <<>>
    BY <1>4, <1>6
  <2> QED BY <1>2, <1>6, <2>1, <2>2 DEF At, Searches
<1>8. c[1] = c[l + 1] /\ l + 1 > 2
  <2>1. 1 \in 1..l /\ k + 1 - 1 = k
    BY <1>4 DEF l
  <2>2. c[1] = trail[k]
    BY <2>1, <1>5, <1>6
  <2> QED BY <2>2, <1>1, <1>4, <1>6
<1>9. ASSUME NEW j \in 1..((l + 1) - 1) PROVE c[j + 1] \in Flow!After(stages, c[j])
  <2>0. j \in 1..l /\ c[j] = trail[k + j - 1]
    BY <1>4, <1>5, <1>6
  <2>1. CASE j = l
    <3>1. k + j - 1 = n
      BY <2>1, <1>2 DEF l
    <3> QED BY <2>0, <2>1, <3>1, <1>3, <1>6
  <2>2. CASE j # l
    <3>0. j \in 1..l /\ j # l /\ k \in 1..n /\ l = n - k + 1 /\ n \in Nat
      BY <2>0, <2>2, <1>2 DEF l
    <3>1. j + 1 \in 1..l /\ k + (j + 1) - 1 = (k + j - 1) + 1 /\ k + j - 1 \in 1..(n - 1)
      <4> HIDE DEF n
      <4> QED BY <3>0
    <3>2. c[j + 1] = trail[(k + j - 1) + 1]
      BY <3>1, <1>5, <1>6
    <3>3. OnTrail(stages, trail, closed)
      OBVIOUS
    <3>4. trail[(k + j - 1) + 1] \in Flow!After(stages, trail[k + j - 1])
      BY <3>1, <3>3 DEF OnTrail
    <3> QED BY <2>0, <3>2, <3>4
  <2> QED BY <2>1, <2>2
<1>10. Flow!GoesAround(stages, c)
  BY <1>6, <1>8, <1>9 DEF Flow!GoesAround
<1> QED BY <1>7, <1>10 DEF Searched

LEMMA VisitsWell ==
  ASSUME NEW stages, Straight(stages), NEW at \in Searches(stages), NEW i \in Nat,
         Searched(stages, at, i), NEW next, next = Flow!Visit(stages, at)
  PROVE  next \in Searches(stages) /\ Searched(stages, next, i + 1)
<1>1. IF at.cycle # <<>> THEN next = at
      ELSE \/ at.trail = <<>> /\ at.closed = DOMAIN stages /\ next = at
           \/ Opens(stages, at, next) \/ Closes(stages, at, next)
           \/ Descends(stages, at, next) \/ Meets(stages, at, next)
  BY VisitMeans
<1>2. CASE at.cycle # <<>>
  BY <1>1, <1>2 DEF Searched
<1>3. CASE at.cycle = <<>>
  <2>1. OnTrail(stages, at.trail, at.closed) /\ Ticks(stages, at.trail, at.closed, i)
    BY <1>3 DEF Searched
  <2>2. CASE at.closed = DOMAIN stages /\ next = at
    <3>1. Ticks(stages, at.trail, at.closed, i + 1)
      BY <2>2 DEF Ticks
    <3> QED BY <1>3, <2>1, <2>2, <3>1 DEF Searched
  <2>3. CASE Opens(stages, at, next)
    BY <2>1, <2>3, OpensWell
  <2>4. CASE Closes(stages, at, next)
    BY <2>1, <2>4, ClosesWell
  <2>5. CASE Descends(stages, at, next)
    BY <2>1, <2>5, DescendsWell
  <2>6. CASE Meets(stages, at, next)
    BY <2>1, <2>6, MeetsWell
  <2> QED BY <1>1, <1>3, <2>2, <2>3, <2>4, <2>5, <2>6
<1> QED BY <1>2, <1>3

LEMMA AtIn ==
  ASSUME NEW stages, NEW t \in Seq(DOMAIN stages), NEW c \in SUBSET DOMAIN stages,
         NEW y \in Seq(DOMAIN stages)
  PROVE  At(t, c, y) \in Searches(stages)
BY DEF At, Searches

\* Of any state of a search, whether one of its invariant.
LEMMA VisitsAny ==
  ASSUME NEW stages, Straight(stages), NEW at \in Searches(stages),
         NEW next, next = Flow!Visit(stages, at)
  PROVE  next \in Searches(stages)
<1> DEFINE D == DOMAIN stages
<1>1. IF at.cycle # <<>> THEN next = at
      ELSE \/ at.trail = <<>> /\ at.closed = DOMAIN stages /\ next = at
           \/ Opens(stages, at, next) \/ Closes(stages, at, next)
           \/ Descends(stages, at, next) \/ Meets(stages, at, next)
  BY VisitMeans
<1>2. at.trail \in Seq(D) /\ at.closed \subseteq D /\ at.cycle \in Seq(D)
  BY DEF Searches
<1>3. at.trail # <<>> =>
        /\ Len(at.trail) \in Nat \ {0} /\ at.trail[Len(at.trail)] \in D
        /\ Beneath(stages, at.trail[Len(at.trail)], at.closed) \subseteq D
  <2>1. at.trail # <<>> => Len(at.trail) \in Nat \ {0} /\ at.trail[Len(at.trail)] \in D
    BY <1>2
  <2> QED BY <2>1 DEF Beneath, Straight
<1>4. CASE Opens(stages, at, next)
  <2>1. PICK s \in D : next = At(<<s>>, at.closed, <<>>)
    BY <1>4 DEF Opens
  <2>2. <<s>> \in Seq(D) /\ <<>> \in Seq(D)
    OBVIOUS
  <2> QED BY <1>2, <2>1, <2>2, AtIn
<1>5. CASE Closes(stages, at, next)
  <2> DEFINE n == Len(at.trail)
  <2>1. n \in Nat \ {0} /\ 1 \in 1..n /\ n - 1 \in Nat /\ n - 1 <= n /\ 1 <= (n - 1) + 1
    BY <1>3, <1>5 DEF Closes
  <2>2. SubSeq(at.trail, 1, n - 1) \in Seq(D)
    <3> HIDE DEF n
    <3> QED BY <1>2, <2>1, PieceOf DEF n
  <2>3. at.closed \cup {at.trail[n]} \in SUBSET D /\ <<>> \in Seq(D)
    BY <1>2, <1>3, <1>5 DEF Closes
  <2>4. next = At(SubSeq(at.trail, 1, n - 1), at.closed \cup {at.trail[n]}, <<>>)
    BY <1>5 DEF Closes
  <2> QED BY <2>2, <2>3, <2>4, AtIn
<1>6. CASE Descends(stages, at, next)
  <2>1. PICK d \in Beneath(stages, at.trail[Len(at.trail)], at.closed) :
          next = At(Append(at.trail, d), at.closed, <<>>)
    BY <1>6 DEF Descends
  <2>2. d \in D
    BY <1>3, <1>6 DEF Descends
  <2>3. Append(at.trail, d) \in Seq(D) /\ <<>> \in Seq(D)
    BY <1>2, <2>2, OneMore
  <2> QED BY <1>2, <2>1, <2>3, AtIn
<1>7. CASE Meets(stages, at, next)
  <2> DEFINE n == Len(at.trail)
  <2>1. PICK d \in Beneath(stages, at.trail[n], at.closed), k \in 1..n :
          next = At(at.trail, at.closed, Append(SubSeq(at.trail, k, n), d))
    BY <1>7 DEF Meets
  <2>2. n \in Nat \ {0} /\ d \in D
    BY <1>3, <1>7 DEF Meets
  <2>3. k <= n + 1 /\ n <= n
    BY <2>2
  <2>4. SubSeq(at.trail, k, n) \in Seq(D)
    <3> HIDE DEF n
    <3> QED BY <1>2, <2>2, <2>3, PieceOf DEF n
  <2>5. Append(SubSeq(at.trail, k, n), d) \in Seq(D)
    BY <2>2, <2>4, OneMore
  <2> QED BY <1>2, <2>1, <2>5, AtIn
<1> QED BY <1>1, <1>4, <1>5, <1>6, <1>7

LEMMA SearchSteps ==
  ASSUME NEW stages, Straight(stages)
  PROVE  \E at : /\ at[0] = At(<<>>, {}, <<>>)
                 /\ \A i \in 1..(2 * Len(stages)) : at[i] = Flow!Visit(stages, at[i - 1])
                 /\ Flow!FindCycle(stages) = at[2 * Len(stages)].cycle
<1> DEFINE n == 2 * Len(stages)
           Then(t) == Flow!Visit(stages, t)
           S == Searches(stages)
           start == At(<<>>, {}, <<>>)
           F == [i \in 1..n |-> [t \in S |-> Then(t)]]
<1>0. n \in Nat
  BY DEF Straight
<1>d. Flow!FindCycle(stages) =
        (CHOOSE f : f = [i \in 0..n |-> IF i = 0 THEN start ELSE Then(f[i - 1])])[n].cycle
  BY DEF Flow!FindCycle, At
<1> HIDE DEF n
<1>1. \A t \in S : Then(t) \in S
  BY VisitsAny
<1>3. start \in S
  BY DEF At, Searches
<1> HIDE DEF Then, S, start
<1>2. F \in [1..n -> [S -> S]]
  BY <1>1
<1>4. PICK g : Unfolds(g, n, S, start, F)
  <2> HIDE DEF F
  <2> QED BY <1>0, <1>2, <1>3, History
<1> DEFINE Is(f) == f = [i \in 0..n |-> IF i = 0 THEN start ELSE Then(f[i - 1])]
<1>5. \A i \in 1..n : g[i - 1] \in S /\ g[i] = Then(g[i - 1])
  <2>1. \A i \in 1..n : i - 1 \in 0..n
    BY <1>0
  <2>2. \A i \in 1..n : g[i - 1] \in S
    BY <2>1, <1>4 DEF Unfolds
  <2>3. \A i \in 1..n : F[i][g[i - 1]] = Then(g[i - 1])
    BY <2>2
  <2> HIDE DEF F
  <2> QED BY <2>2, <2>3, <1>4 DEF Unfolds
<1>6. Is(g)
  <2> HIDE DEF F
  <2> QED BY <1>4, <1>5, <1>0 DEF Unfolds
<1> DEFINE at == CHOOSE f : Is(f)
<1>7. Flow!FindCycle(stages) = at[n].cycle
  BY <1>d
<1>8. Is(at)
  <2> HIDE DEF Is
  <2> QED BY <1>6
<1> HIDE DEF at, F
<1>9. at[0] = start /\ \A i \in 1..n : at[i] = Then(at[i - 1])
  <2>1. \A i \in 0..n : at[i] = IF i = 0 THEN start ELSE Then(at[i - 1])
    BY <1>8
  <2> HIDE DEF Is
  <2>2. 0 \in 0..n /\ \A i \in 1..n : i \in 0..n /\ i # 0
    BY <1>0
  <2> QED BY <2>1, <2>2
<1> QED BY <1>7, <1>9 DEF Then, start, n

\* The search ends, in a cycle or when every stage is closed.
LEMMA CycleMeans ==
  ASSUME NEW stages, Straight(stages)
  PROVE  LET cycle == Flow!FindCycle(stages) IN
         IF cycle # <<>> THEN Flow!GoesAround(stages, cycle) ELSE Clear(stages, DOMAIN stages)
<1> DEFINE n == Len(stages)
           D == DOMAIN stages
           cycle == Flow!FindCycle(stages)
<1>1. PICK at : /\ at[0] = At(<<>>, {}, <<>>)
                /\ \A i \in 1..(2 * n) : at[i] = Flow!Visit(stages, at[i - 1])
                /\ cycle = at[2 * n].cycle
  BY SearchSteps
<1>2. n \in Nat /\ 2 * n \in Nat /\ D = 1..n
  BY DEF Straight
<1> HIDE DEF n, cycle
<1> DEFINE m == 2 * n
           P == {i \in 0..m : at[i] \in Searches(stages) /\ Searched(stages, at[i], i)}
<1>3. 0 \in P
  <2>1. at[0] \in Searches(stages) /\ at[0].cycle = <<>> /\ at[0].trail = <<>> /\ at[0].closed = {}
    BY <1>1 DEF At, Searches
  <2>2. OnTrail(stages, <<>>, {})
    BY DEF OnTrail, Clear
  <2>3. Ticks(stages, <<>>, {}, 0)
    <3>1. {} \cup On(<<>>) = {} /\ Len(<<>>) = 0
      BY DEF On
    <3>2. 2 * Cardinality({}) = 0 + 0
      BY FS_EmptySet
    <3> QED BY <3>1, <3>2, Zenon DEF Ticks
  <2>4. Searched(stages, at[0], 0)
    BY <2>1, <2>2, <2>3, Zenon DEF Searched
  <2> QED BY <1>2, <2>1, <2>4
<1>4. ASSUME NEW i \in 1..m, i - 1 \in P PROVE i \in P
  <2>1. i - 1 \in Nat /\ (i - 1) + 1 = i
    BY <1>2
  <2>2. at[i] = Flow!Visit(stages, at[i - 1])
    BY <1>1
  <2>3. at[i] \in Searches(stages) /\ Searched(stages, at[i], (i - 1) + 1)
    BY <1>4, <2>1, <2>2, VisitsWell
  <2> QED BY <1>2, <2>1, <2>3
<1>5. m \in P
  <2> HIDE DEF P
  <2>1. \A i \in 0..m : i \in P
    BY <1>2, <1>3, <1>4, Throughout
  <2> QED BY <2>1, <1>2
<1>6. at[m] \in Searches(stages) /\ Searched(stages, at[m], m) /\ cycle = at[m].cycle
  BY <1>1, <1>5
<1> HIDE DEF P
<1>7. CASE cycle # <<>>
  BY <1>6, <1>7 DEF Searched, cycle
<1>8. CASE cycle = <<>>
  <2> DEFINE closed == at[m].closed
             trail == at[m].trail
  <2>1. OnTrail(stages, trail, closed) /\ Ticks(stages, trail, closed, m)
    BY <1>6, <1>8 DEF Searched
  <2>2. closed \subseteq D /\ trail \in Seq(D)
    BY <1>6 DEF Searches
  <2> HIDE DEF closed, trail
  <2>3. closed = D
    <3> SUFFICES ASSUME closed # D PROVE FALSE
      OBVIOUS
    <3>1. 2 * Cardinality(closed \cup On(trail)) = m + Len(trail)
      BY <2>1 DEF Ticks
    <3>2. closed \cup On(trail) \subseteq D
      BY <2>2 DEF On
    <3>3. IsFiniteSet(D) /\ Cardinality(D) = n
      BY <1>2, FS_Interval
    <3>4. /\ Cardinality(closed \cup On(trail)) \in Nat
          /\ Cardinality(closed \cup On(trail)) <= n
      BY <3>2, <3>3, FS_Subset, FS_CardinalityType
    <3>5. Len(trail) = 0 /\ Len(trail) \in Nat
      BY <2>2, <3>1, <3>4, <1>2
    <3>6. Cardinality(closed \cup On(trail)) = n
      BY <3>1, <3>4, <3>5, <1>2
    <3>7. closed \cup On(trail) = D
      BY <3>2, <3>3, <3>6, FS_Subset
    <3> QED BY <3>5, <3>7 DEF On
  <2> QED BY <1>8, <2>1, <2>3 DEF OnTrail, cycle
<1> QED BY <1>7, <1>8 DEF cycle

-----------------------------------------------------------------------------
(* The order *)

\* The first so many of an order: each stage once, after what it depends on.
WellOrdered(stages, done) ==
  /\ done \in Seq(DOMAIN stages)
  /\ \A j, k \in 1..Len(done) : j # k => done[j] # done[k]
  /\ \A j \in 1..Len(done) :
       Flow!After(stages, done[j]) \subseteq {done[k] : k \in 1..(j - 1)}

LEMMA Numbered ==
  ASSUME NEW stages, Straight(stages)
  PROVE  /\ DOMAIN stages = 1..Len(stages) /\ Len(stages) \in Nat
         /\ IsFiniteSet(DOMAIN stages) /\ Cardinality(DOMAIN stages) = Len(stages)
<1>1. DOMAIN stages = 1..Len(stages) /\ Len(stages) \in Nat
  BY DEF Straight
<1>2. 1 \in Int /\ Len(stages) \in Int /\ Len(stages) - 1 + 1 = Len(stages)
  BY <1>1
<1>3. /\ IsFiniteSet(1..Len(stages))
      /\ Cardinality(1..Len(stages)) = IF 1 > Len(stages) THEN 0 ELSE Len(stages) - 1 + 1
  BY <1>2, FS_Interval
<1>4. Cardinality(1..Len(stages)) = Len(stages)
  BY <1>1, <1>2, <1>3
<1> QED BY <1>1, <1>3, <1>4

LEMMA MembersIn ==
  ASSUME NEW D, NEW t \in Seq(D)
  PROVE  Len(t) \in Nat /\ \A k \in 1..Len(t) : t[k] \in D
OBVIOUS

LEMMA RangeIs ==
  ASSUME NEW D, NEW t \in Seq(D)
  PROVE  Flow!Range(t) = On(t)
BY DEF Flow!Range, On

LEMMA NextIn ==
  ASSUME NEW stages, Straight(stages), Clear(stages, DOMAIN stages), NEW done \in Seq(DOMAIN stages)
  PROVE  LET ready == {s \in DOMAIN stages : s \notin Flow!Range(done)
                                          /\ Flow!After(stages, s) \subseteq Flow!Range(done)}
         IN Flow!Range(done) # DOMAIN stages =>
              \E s \in ready : Flow!Next(stages, done) = Append(done, s)
<1> DEFINE D == DOMAIN stages
           had == Flow!Range(done)
           ready == {s \in D : s \notin had /\ Flow!After(stages, s) \subseteq had}
<1> SUFFICES ASSUME had # D PROVE \E s \in ready : Flow!Next(stages, done) = Append(done, s)
  OBVIOUS
<1>1. had \subseteq D
  <2>1. had = On(done)
    BY RangeIs
  <2> QED BY <2>1 DEF On
<1>2. PICK s \in D \ had : Flow!After(stages, s) \cap (D \ had) = {}
  <2>1. D \ had # {} /\ D \ had \in SUBSET D
    BY <1>1
  <2>2. \A some \in SUBSET D :
          some # {} => \E s \in some : Flow!After(stages, s) \cap some = {}
    BY DEF Clear
  <2> HIDE DEF had, D
  <2> QED BY <2>1, <2>2
<1>3. s \in ready
  <2>1. Flow!After(stages, s) \subseteq D
    BY <1>2 DEF Straight
  <2> QED BY <1>2, <2>1
<1>4. Flow!Min(ready) \in ready
  <2>1. ready \in SUBSET (1..Len(stages)) /\ Len(stages) \in Nat
    BY DEF Straight
  <2> HIDE DEF ready
  <2> QED BY <1>3, <2>1, LeastOf
<1>5. Flow!Next(stages, done) = Append(done, Flow!Min(ready))
  BY DEF Flow!Next
<1> HIDE DEF ready
<1> QED BY <1>4, <1>5

LEMMA OrderedNext ==
  ASSUME NEW stages, Straight(stages), Clear(stages, DOMAIN stages), NEW done,
         WellOrdered(stages, done), Len(done) < Len(stages)
  PROVE  /\ WellOrdered(stages, Flow!Next(stages, done))
         /\ Len(Flow!Next(stages, done)) = Len(done) + 1
<1> DEFINE D == DOMAIN stages
           n == Len(done)
<1>1. /\ done \in Seq(D) /\ n \in Nat /\ n < Len(stages) /\ Len(stages) \in Nat
      /\ Cardinality(D) = Len(stages)
  BY Numbered, MembersIn DEF WellOrdered
<1>2. On(done) # D
  <2> SUFFICES ASSUME On(done) = D PROVE FALSE
    OBVIOUS
  <2>0. D = {done[k] : k \in 1..n}
    BY DEF On
  <2> HIDE DEF D, n
  <2>1. [k \in 1..n |-> done[k]] \in Surjection(1..n, D)
    BY <2>0 DEF Surjection
  <2>3. Cardinality(D) <= n
    BY <1>1, <2>1, FS_SurjCardinalityBound DEF ExistsSurjection
  <2> QED BY <1>1, <2>3
<1>3. PICK s \in D : /\ s \notin On(done) /\ Flow!After(stages, s) \subseteq On(done)
                     /\ Flow!Next(stages, done) = Append(done, s)
  BY <1>1, <1>2, NextIn, RangeIs
<1> DEFINE longer == Append(done, s)
<1>4. /\ longer \in Seq(D) /\ Len(longer) = n + 1 /\ longer[n + 1] = s
      /\ \A k \in 1..n : longer[k] = done[k]
  BY <1>1, OneMore
<1> HIDE DEF longer
<1>5. \A j \in 1..(n + 1) : j = n + 1 \/ j \in 1..n
  BY <1>1
<1>6. \A k \in 1..n : done[k] # s
  BY <1>3 DEF On
<1>7. \A j, k \in 1..(n + 1) : j # k => longer[j] # longer[k]
  BY <1>4, <1>5, <1>6 DEF WellOrdered
<1>8. ASSUME NEW j \in 1..(n + 1)
      PROVE  Flow!After(stages, longer[j]) \subseteq {longer[k] : k \in 1..(j - 1)}
  <2>1. \A k \in 1..(j - 1) : k \in 1..n
    BY <1>1
  <2>2. {longer[k] : k \in 1..(j - 1)} = {done[k] : k \in 1..(j - 1)}
    BY <1>4, <2>1
  <2>3. CASE j \in 1..n
    BY <1>4, <2>2, <2>3 DEF WellOrdered
  <2>4. CASE j = n + 1
    <3>1. j - 1 = n
      BY <1>1, <2>4
    <3> QED BY <1>3, <1>4, <2>2, <2>4, <3>1 DEF On
  <2> QED BY <1>5, <2>3, <2>4
<1>9. WellOrdered(stages, longer)
  BY <1>4, <1>7, <1>8 DEF WellOrdered
<1>10. Flow!Next(stages, done) = longer
  BY <1>3 DEF longer
<1> QED BY <1>4, <1>9, <1>10

LEMMA OrderMeans ==
  ASSUME NEW stages, Straight(stages), Clear(stages, DOMAIN stages)
  PROVE  WellOrdered(stages, Flow!Order(stages)) /\ Len(Flow!Order(stages)) = Len(stages)
<1> DEFINE n == Len(stages)
           S == Seq(DOMAIN stages)
           Then(t) == Flow!Next(stages, t)
           Fits(t) == WellOrdered(stages, t) /\ Len(t) < n
           F == [i \in 1..n |-> [t \in S |-> IF Fits(t) THEN Then(t) ELSE t]]
           Is(f) == f = [i \in 0..n |-> IF i = 0 THEN <<>> ELSE Then(f[i - 1])]
           done == CHOOSE f : Is(f)
<1>0. n \in Nat
  BY DEF Straight
<1>1. Flow!Order(stages) = done[n]
  BY DEF Flow!Order
<1>2. WellOrdered(stages, <<>>) /\ Len(<<>>) = 0 /\ <<>> \in S
  BY DEF WellOrdered
<1>3. ASSUME NEW t, NEW i \in 1..n, WellOrdered(stages, t), Len(t) = i - 1
      PROVE  t \in S /\ Fits(t) /\ WellOrdered(stages, Then(t)) /\ Len(Then(t)) = i /\ Then(t) \in S
  <2>1. Len(t) < n /\ (i - 1) + 1 = i
    BY <1>0, <1>3
  <2>2. WellOrdered(stages, Then(t)) /\ Len(Then(t)) = Len(t) + 1
    BY <1>3, <2>1, OrderedNext
  <2> QED BY <1>3, <2>1, <2>2 DEF WellOrdered
<1>4. F \in [1..n -> [S -> S]]
  <2>1. ASSUME NEW t \in S, Fits(t) PROVE Then(t) \in S
    BY <2>1, OrderedNext DEF WellOrdered
  <2> HIDE DEF Fits, Then, S
  <2> QED BY <2>1
<1>5. PICK g : Unfolds(g, n, S, <<>>, F)
  <2> HIDE DEF F, S
  <2> QED BY <1>0, <1>2, <1>4, History
<1>6. \A i \in 1..n : g[i - 1] \in S /\ g[i] = IF Fits(g[i - 1]) THEN Then(g[i - 1]) ELSE g[i - 1]
  <2> HIDE DEF Fits, Then, S
  <2>1. \A i \in 1..n : i - 1 \in 0..n
    BY <1>0
  <2>2. \A i \in 1..n : g[i - 1] \in S
    BY <2>1, <1>5 DEF Unfolds
  <2>3. \A i \in 1..n : F[i][g[i - 1]] = IF Fits(g[i - 1]) THEN Then(g[i - 1]) ELSE g[i - 1]
    BY <2>2
  <2> HIDE DEF F
  <2> QED BY <2>2, <2>3, <1>5 DEF Unfolds
<1>7. \A i \in 0..n : WellOrdered(stages, g[i]) /\ Len(g[i]) = i
  <2> DEFINE P == {i \in 0..n : WellOrdered(stages, g[i]) /\ Len(g[i]) = i}
  <2>1. 0 \in P
    BY <1>0, <1>2, <1>5 DEF Unfolds
  <2>2. ASSUME NEW i \in 1..n, i - 1 \in P PROVE i \in P
    <3>1. Fits(g[i - 1]) /\ WellOrdered(stages, Then(g[i - 1])) /\ Len(Then(g[i - 1])) = i
      BY <1>3, <2>2
    <3>2. g[i] = Then(g[i - 1])
      <4> HIDE DEF Fits, Then
      <4> QED BY <1>6, <3>1
    <3> HIDE DEF Then, Fits
    <3> QED BY <3>1, <3>2, <1>0
  <2> HIDE DEF P
  <2>3. \A i \in 0..n : i \in P
    BY <1>0, <2>1, <2>2, Throughout
  <2> QED BY <2>3 DEF P
<1>8. Is(g)
  <2>1. \A i \in 1..n : Fits(g[i - 1])
    <3>1. \A i \in 1..n : i - 1 \in 0..n
      BY <1>0
    <3>2. \A i \in 1..n : WellOrdered(stages, g[i - 1]) /\ Len(g[i - 1]) = i - 1
      BY <1>7, <3>1
    <3> QED BY <1>3, <3>2
  <2> HIDE DEF F, Fits, Then, S
  <2>2. \A i \in 1..n : g[i] = Then(g[i - 1])
    BY <1>6, <2>1
  <2> QED BY <1>5, <2>2, <1>0 DEF Unfolds
<1>9. Is(done)
  <2> HIDE DEF Is
  <2> QED BY <1>8
<1> HIDE DEF done, F
<1>10. done[0] = <<>> /\ \A i \in 1..n : done[i] = Then(done[i - 1])
  <2> HIDE DEF Then
  <2>1. \A i \in 0..n : done[i] = IF i = 0 THEN <<>> ELSE Then(done[i - 1])
    BY <1>9
  <2> HIDE DEF Is
  <2>2. 0 \in 0..n /\ \A i \in 1..n : i \in 0..n /\ i # 0
    BY <1>0
  <2> QED BY <2>1, <2>2
<1>11. WellOrdered(stages, done[n]) /\ Len(done[n]) = n
  <2> HIDE DEF Is
  <2> DEFINE P == {i \in 0..n : WellOrdered(stages, done[i]) /\ Len(done[i]) = i}
  <2>1. 0 \in P
    BY <1>0, <1>2, <1>10
  <2>2. ASSUME NEW i \in 1..n, i - 1 \in P PROVE i \in P
    <3>1. WellOrdered(stages, Then(done[i - 1])) /\ Len(Then(done[i - 1])) = i
      BY <1>3, <2>2
    <3>2. done[i] = Then(done[i - 1])
      BY <1>10
    <3> HIDE DEF Then
    <3> QED BY <3>1, <3>2, <1>0
  <2> HIDE DEF P
  <2>3. \A i \in 0..n : i \in P
    BY <1>0, <2>1, <2>2, Throughout
  <2> QED BY <2>3, <1>0 DEF P
<1> QED BY <1>1, <1>11

\* The order holds every stage.
LEMMA OrderedAll ==
  ASSUME NEW stages, Straight(stages), NEW order, WellOrdered(stages, order), Len(order) = Len(stages)
  PROVE  On(order) = DOMAIN stages
<1> DEFINE D == DOMAIN stages
<1>1. D = 1..Len(order) /\ IsFiniteSet(D) /\ order \in Seq(D)
  BY Numbered DEF WellOrdered
<1>2. \A k \in D : order[k] \in D
  BY <1>1, MembersIn
<1>3. \A j, k \in D : j # k => order[j] # order[k]
  BY <1>1 DEF WellOrdered
<1>4. On(order) = {order[k] : k \in D}
  BY <1>1 DEF On
<1> HIDE DEF D
<1> DEFINE f == [k \in D |-> order[k]]
<1>5. f \in Injection(D, D)
  <2>1. f \in [D -> D]
    BY <1>2
  <2>2. \A j, k \in D : f[j] = f[k] => j = k
    BY <1>3
  <2>3. DOMAIN f = D
    OBVIOUS
  <2> HIDE DEF f
  <2> QED BY <2>1, <2>2, <2>3 DEF Injection, IsInjective
<1>6. f \in Surjection(D, D)
  <2> HIDE DEF f
  <2> QED BY <1>1, <1>5, FS_Injection
<1>7. \A d \in D : \E k \in D : order[k] = d
  BY <1>6 DEF Surjection
<1> QED BY <1>2, <1>4, <1>7 DEF D

-----------------------------------------------------------------------------
(* What a stage transitively depends on *)

Shut(stages, some) == \A t \in some : Flow!After(stages, t) \subseteq some

\* It is found from what the stages it depends on are found to depend on.
Beyond(stages, s, found) == UNION {{d} \cup found[d] : d \in Flow!After(stages, s)}

LEMMA UpstreamIs ==
  ASSUME NEW stages, NEW s, NEW u
  PROVE  u \in Flow!Upstream(stages, s) <=>
           /\ u \in DOMAIN stages
           /\ \A some \in SUBSET DOMAIN stages :
                Flow!After(stages, s) \subseteq some /\ Shut(stages, some) => u \in some
BY DEF Flow!Upstream, Shut

LEMMA UpstreamShut ==
  ASSUME NEW stages, Straight(stages), NEW s \in DOMAIN stages
  PROVE  /\ Flow!Upstream(stages, s) \subseteq DOMAIN stages
         /\ Flow!After(stages, s) \subseteq Flow!Upstream(stages, s)
         /\ Shut(stages, Flow!Upstream(stages, s))
<1>1. Flow!Upstream(stages, s) \subseteq DOMAIN stages
  BY UpstreamIs
<1>2. ASSUME NEW t, t \in Flow!After(stages, s) PROVE t \in Flow!Upstream(stages, s)
  <2>1. t \in DOMAIN stages
    BY <1>2 DEF Straight
  <2> QED BY <1>2, <2>1, UpstreamIs
<1>3. ASSUME NEW t \in Flow!Upstream(stages, s), NEW u, u \in Flow!After(stages, t)
      PROVE  u \in Flow!Upstream(stages, s)
  <2>1. u \in DOMAIN stages
    BY <1>1, <1>3 DEF Straight
  <2>2. ASSUME NEW some \in SUBSET DOMAIN stages, Flow!After(stages, s) \subseteq some,
               Shut(stages, some)
        PROVE  u \in some
    <3>1. t \in some
      BY <2>2, UpstreamIs
    <3> QED BY <1>3, <2>2, <3>1 DEF Shut
  <2> QED BY <2>1, <2>2, UpstreamIs
<1> QED BY <1>1, <1>2, <1>3 DEF Shut

LEMMA UpstreamUnfolds ==
  ASSUME NEW stages, Straight(stages), NEW s \in DOMAIN stages, NEW found,
         \A d \in Flow!After(stages, s) : found[d] = Flow!Upstream(stages, d)
  PROVE  Beyond(stages, s, found) = Flow!Upstream(stages, s)
<1> DEFINE After == Flow!After(stages, s)
           B == Beyond(stages, s, found)
<1>1. \A u : u \in B <=> \E d \in After : u = d \/ u \in Flow!Upstream(stages, d)
  BY DEF Beyond
<1>2. After \subseteq DOMAIN stages
  BY DEF Straight
<1> HIDE DEF B, After
<1>3. ASSUME NEW u \in B PROVE u \in Flow!Upstream(stages, s)
  <2>1. PICK d \in After : u = d \/ u \in Flow!Upstream(stages, d)
    BY <1>1
  <2>2. d \in DOMAIN stages
    BY <1>2
  <2>3. u \in DOMAIN stages
    BY <2>1, <2>2, UpstreamIs
  <2>4. ASSUME NEW some \in SUBSET DOMAIN stages, After \subseteq some, Shut(stages, some)
        PROVE  u \in some
    <3>1. d \in some /\ Flow!After(stages, d) \subseteq some
      BY <2>1, <2>4 DEF Shut
    <3> QED BY <2>1, <2>4, <3>1, UpstreamIs
  <2> QED BY <2>3, <2>4, UpstreamIs DEF After
<1>4. B \in SUBSET DOMAIN stages
  <2> SUFFICES ASSUME NEW u \in B PROVE u \in DOMAIN stages
    OBVIOUS
  <2> QED BY <1>3, UpstreamIs
<1>5. After \subseteq B
  BY <1>1
<1>6. Shut(stages, B)
  <2> SUFFICES ASSUME NEW t \in B, NEW u, u \in Flow!After(stages, t) PROVE u \in B
    BY DEF Shut
  <2>1. PICK d \in After : t = d \/ t \in Flow!Upstream(stages, d)
    BY <1>1
  <2>2. d \in DOMAIN stages
    BY <1>2
  <2>3. u \in Flow!Upstream(stages, d)
    BY <2>1, <2>2, UpstreamShut DEF Shut
  <2> QED BY <1>1, <2>1, <2>3
<1>7. ASSUME NEW u \in Flow!Upstream(stages, s) PROVE u \in B
  BY <1>4, <1>5, <1>6, UpstreamIs DEF After
<1> QED BY <1>3, <1>7 DEF B

\* Wherever a stage is in an order, what it depends on is before it.
LEMMA UpstreamBefore ==
  ASSUME NEW stages, Straight(stages), NEW order, WellOrdered(stages, order),
         NEW j \in 1..Len(order)
  PROVE  Flow!Upstream(stages, order[j]) \subseteq {order[i] : i \in 1..(j - 1)}
<1> DEFINE some == {order[k] : k \in 1..(j - 1)}
<1>1. order \in Seq(DOMAIN stages) /\ Len(order) \in Nat
  BY MembersIn DEF WellOrdered
<1>2. \A k \in 1..(j - 1) : k \in 1..Len(order) /\ \A l \in 1..(k - 1) : l \in 1..(j - 1)
  BY <1>1
<1>3. some \in SUBSET DOMAIN stages
  BY <1>1, <1>2, MembersIn
<1>4. Flow!After(stages, order[j]) \subseteq some
  BY DEF WellOrdered
<1>5. Shut(stages, some)
  <2> SUFFICES ASSUME NEW k \in 1..(j - 1) PROVE Flow!After(stages, order[k]) \subseteq some
    BY DEF Shut
  <2>1. Flow!After(stages, order[k]) \subseteq {order[l] : l \in 1..(k - 1)}
    BY <1>2 DEF WellOrdered
  <2> QED BY <1>2, <2>1
<1> HIDE DEF some
<1>6. Flow!Upstream(stages, order[j]) \subseteq some
  BY <1>3, <1>4, <1>5, UpstreamIs
<1> QED BY <1>6 DEF some

LEMMA AllBefore ==
  ASSUME NEW stages, Straight(stages), NEW order, WellOrdered(stages, order),
         On(order) = DOMAIN stages
  PROVE  \A s \in DOMAIN stages : \A u \in Flow!Upstream(stages, s) :
           \E i, j \in 1..Len(order) : i < j /\ order[i] = u /\ order[j] = s
<1>1. ASSUME NEW j \in 1..Len(order), NEW u, u \in Flow!Upstream(stages, order[j])
      PROVE  \E i \in 1..Len(order) : i < j /\ order[i] = u
  <2>1. u \in {order[i] : i \in 1..(j - 1)}
    BY <1>1, UpstreamBefore
  <2>2. Len(order) \in Nat
    BY MembersIn DEF WellOrdered
  <2>3. \A i \in 1..(j - 1) : i \in 1..Len(order) /\ i < j
    BY <2>2
  <2> QED BY <2>1, <2>3
<1>2. \A s \in DOMAIN stages : \E j \in 1..Len(order) : order[j] = s
  BY DEF On
<1> QED BY <1>1, <1>2

Finds(stages, order, found, i) ==
  [found EXCEPT ![order[i]] = Beyond(stages, order[i], found)]

LEMMA AncestorsMean ==
  ASSUME NEW stages, Straight(stages), Clear(stages, DOMAIN stages)
  PROVE  /\ DOMAIN Flow!Ancestors(stages) = DOMAIN stages
         /\ \A s \in DOMAIN stages : Flow!Ancestors(stages)[s] = Flow!Upstream(stages, s)
<1> DEFINE n == Len(stages)
           D == DOMAIN stages
           order == Flow!Order(stages)
           S == [D -> SUBSET D]
           start == [s \in D |-> {}]
           Then(i, t) == Finds(stages, order, t, i)
           F == [i \in 1..n |-> [t \in S |-> Then(i, t)]]
           Is(f) == f = [i \in 0..n |-> IF i = 0 THEN start ELSE Then(i, f[i - 1])]
           found == CHOOSE f : Is(f)
<1>0. n \in Nat /\ D = 1..n /\ WellOrdered(stages, order) /\ Len(order) = n /\ On(order) = D
  BY OrderMeans, OrderedAll, Numbered
<1>1. Flow!Ancestors(stages) = found[n]
  BY DEF Flow!Ancestors, Finds, Beyond
<1>2. start \in S
  OBVIOUS
<1>o. \A i \in 1..n : order[i] \in D
  BY <1>0, MembersIn DEF WellOrdered
<1>3. \A i \in 1..n, t \in S : Then(i, t) \in S
  <2> TAKE i \in 1..n, t \in S
  <2>1. \A d \in Flow!After(stages, order[i]) : d \in D /\ t[d] \subseteq D
    BY <1>o DEF Straight
  <2>2. Beyond(stages, order[i], t) \subseteq D
    BY <2>1 DEF Beyond
  <2> QED BY <1>o, <2>2 DEF Finds
<1> HIDE DEF Then, S, order, n, D, start
<1>4. F \in [1..n -> [S -> S]]
  BY <1>3
<1>5. PICK g : Unfolds(g, n, S, start, F)
  <2> HIDE DEF F
  <2> QED BY <1>0, <1>2, <1>4, History
<1>6. \A i \in 1..n : g[i - 1] \in S /\ g[i] = Then(i, g[i - 1])
  <2>1. \A i \in 1..n : i - 1 \in 0..n
    BY <1>0
  <2>2. \A i \in 1..n : g[i - 1] \in S
    BY <2>1, <1>5 DEF Unfolds
  <2>3. \A i \in 1..n : F[i][g[i - 1]] = Then(i, g[i - 1])
    BY <2>2
  <2> HIDE DEF F
  <2> QED BY <2>2, <2>3, <1>5 DEF Unfolds
<1>7. Is(g)
  <2> HIDE DEF F
  <2> QED BY <1>5, <1>6, <1>0 DEF Unfolds
<1>8. Is(found)
  <2> HIDE DEF Is
  <2> QED BY <1>7
<1> HIDE DEF found, F
<1>9. found[0] = start /\ \A i \in 1..n : found[i] = Then(i, found[i - 1])
  <2>1. \A i \in 0..n : found[i] = IF i = 0 THEN start ELSE Then(i, found[i - 1])
    BY <1>8
  <2> HIDE DEF Is
  <2>2. 0 \in 0..n /\ \A i \in 1..n : i \in 0..n /\ i # 0
    BY <1>0
  <2> QED BY <2>1, <2>2
<1> HIDE DEF Is
<1> DEFINE Right(i) == /\ found[i] \in S
                       /\ \A k \in 1..i : found[i][order[k]] = Flow!Upstream(stages, order[k])
           P == {i \in 0..n : Right(i)}
<1>10. 0 \in P
  BY <1>0, <1>2, <1>9
<1>11. ASSUME NEW i \in 1..n, i - 1 \in P PROVE i \in P
  <2>1. found[i - 1] \in S /\ found[i] = Finds(stages, order, found[i - 1], i)
    BY <1>9, <1>11 DEF Then
  <2>2. found[i] \in S
    BY <1>3, <2>1 DEF Then
  <2>3. \A k \in 1..(i - 1) : found[i - 1][order[k]] = Flow!Upstream(stages, order[k])
    BY <1>11
  <2>4. \A d \in Flow!After(stages, order[i]) : found[i - 1][d] = Flow!Upstream(stages, d)
    <3> TAKE d \in Flow!After(stages, order[i])
    <3>1. PICK k \in 1..(i - 1) : order[k] = d
      BY <1>0 DEF WellOrdered
    <3> QED BY <2>3, <3>1
  <2>5. Beyond(stages, order[i], found[i - 1]) = Flow!Upstream(stages, order[i])
    BY <1>o, <2>4, UpstreamUnfolds DEF D
  <2>6. DOMAIN found[i - 1] = D
    BY <2>1 DEF S
  <2>7. ASSUME NEW k \in 1..i PROVE found[i][order[k]] = Flow!Upstream(stages, order[k])
    <3>1. CASE k = i
      BY <1>o, <2>1, <2>5, <2>6, <3>1 DEF Finds
    <3>2. CASE k # i
      <4>1. k \in 1..(i - 1) /\ k \in 1..n
        BY <1>0, <3>2
      <4>2. order[k] # order[i]
        BY <1>0, <3>2, <4>1 DEF WellOrdered
      <4> QED BY <1>o, <2>1, <2>3, <2>6, <4>1, <4>2 DEF Finds
    <3> QED BY <3>1, <3>2
  <2> QED BY <1>0, <2>2, <2>7
<1>12. Right(n)
  <2> HIDE DEF P
  <2>1. \A i \in 0..n : i \in P
    BY <1>0, <1>10, <1>11, Throughout
  <2> QED BY <2>1, <1>0 DEF P
<1>13. DOMAIN found[n] = D
  BY <1>12 DEF S
<1>14. \A s \in D : found[n][s] = Flow!Upstream(stages, s)
  BY <1>0, <1>12 DEF On
<1> QED BY <1>1, <1>13, <1>14 DEF D

-----------------------------------------------------------------------------
(* The check *)

LEMMA FlowCounts == \A S : Flow!Cardinality(S) = Cardinality(S)
BY DEF Flow!Cardinality, Cardinality, Flow!IsFiniteSet, IsFiniteSet

\* A pipeline whose graph is in order: what it is to be checked for.
Graph(pipeline) == Straight(pipeline.stages) /\ Clear(pipeline.stages, DOMAIN pipeline.stages)

Enters(pipeline, c) == IF c \in pipeline.entry THEN 1 ELSE 0

\* Who may write what a stage reads: exactly one is a count of one.
LEMMA OneSource ==
  ASSUME NEW pipeline, Graph(pipeline), NEW s \in DOMAIN pipeline.stages, NEW c
  PROVE  LET writers == Flow!Writers(pipeline, Flow!Upstream(pipeline.stages, s), c)
             sources == Flow!Sources(pipeline, s, c)
         IN /\ writers \subseteq DOMAIN pipeline.stages
            /\ Flow!Cardinality(writers) + Enters(pipeline, c) = 1 =>
                 IF c \in pipeline.entry THEN writers = {} /\ sources = {0}
                 ELSE \E w : writers = {w} /\ sources = {w}
            /\ \A source : sources = {source} =>
                 Flow!Cardinality(writers) + Enters(pipeline, c) = 1
<1> DEFINE D == DOMAIN pipeline.stages
           writers == Flow!Writers(pipeline, Flow!Upstream(pipeline.stages, s), c)
           sources == Flow!Sources(pipeline, s, c)
<1>1. sources = writers \cup (IF c \in pipeline.entry THEN {0} ELSE {})
  BY DEF Flow!Sources, Flow!Entry
<1>2. writers \subseteq D
  BY UpstreamIs DEF Flow!Writers
<1>3. IsFiniteSet(writers) /\ 0 \notin D
  <2>1. IsFiniteSet(D) /\ D = 1..Len(pipeline.stages)
    BY Numbered DEF Graph
  <2> QED BY <1>2, <2>1, FS_Subset
<1> HIDE DEF writers, sources, D
<1>4. Cardinality(writers) \in Nat /\ (Cardinality(writers) = 0 <=> writers = {})
  BY <1>3, FS_CardinalityType, FS_EmptySet
<1>5. Cardinality(writers) = 1 <=> \E w : writers = {w}
  BY <1>3, FS_Singleton
<1>6. CASE c \in pipeline.entry
  <2>1. Enters(pipeline, c) = 1 /\ sources = writers \cup {0}
    BY <1>1, <1>6 DEF Enters
  <2>2. Cardinality(writers) + 1 = 1 => writers = {}
    BY <1>4
  <2>3. \A source : sources = {source} => writers = {}
    BY <1>2, <1>3, <2>1
  <2>4. writers = {} => Cardinality(writers) + 1 = 1
    BY <1>4
  <2> QED BY <1>2, <1>6, <2>1, <2>2, <2>3, <2>4, FlowCounts DEF writers, sources, D
<1>7. CASE c \notin pipeline.entry
  <2>1. Enters(pipeline, c) = 0 /\ sources = writers
    BY <1>1, <1>7 DEF Enters
  <2>2. Cardinality(writers) + 0 = 1 <=> \E w : writers = {w}
    <3>1. Cardinality(writers) + 0 = Cardinality(writers)
      BY <1>4
    <3> QED BY <1>5, <3>1, Zenon
  <2> QED BY <1>2, <1>7, <2>1, <2>2, FlowCounts DEF writers, sources, D
<1> QED BY <1>6, <1>7

Wrong(pipeline, s) ==
  LET up == Flow!Upstream(pipeline.stages, s) IN
  Flow!BadBind(pipeline, s, up) \/ Flow!BadRead(pipeline, s, up) \/ Flow!Ungated(pipeline, s, up)

LEMMA ProblemIs ==
  ASSUME NEW pipeline, Graph(pipeline)
  PROVE  Flow!Problem(pipeline) <=> \E s \in DOMAIN pipeline.stages : Wrong(pipeline, s)
BY AncestorsMean DEF Graph, Flow!Problem, Wrong

\* What the check refuses could not run as its file means.
LEMMA RefusedRight ==
  ASSUME NEW pipeline, Graph(pipeline), NEW s \in DOMAIN pipeline.stages, Wrong(pipeline, s)
  PROVE  ~Flow!Runnable(pipeline)
<1> DEFINE stage == pipeline.stages[s]
           up == Flow!Upstream(pipeline.stages, s)
<1> SUFFICES ASSUME Flow!Runnable(pipeline) PROVE FALSE
  OBVIOUS
<1>1. /\ DOMAIN stage.bind \subseteq stage.reads
      /\ \A c \in stage.reads : \E source \in Flow!Sources(pipeline, s, c) : Flow!Meant(pipeline, s, c, source)
      /\ \A c \in DOMAIN stage.bind : stage.bind[c] # Flow!Entry
      /\ stage.kind = "effect" => \E u \in up : pipeline.stages[u].kind = "gate"
  BY DEF Flow!Runnable
<1>2. CASE Flow!BadBind(pipeline, s, up)
  <2>1. PICK c \in DOMAIN stage.bind : \/ c \notin stage.reads
                                       \/ stage.bind[c] \notin up
                                       \/ pipeline.stages[stage.bind[c]].writes # c
    BY <1>2 DEF Flow!BadBind
  <2>2. PICK source \in Flow!Sources(pipeline, s, c) : Flow!Meant(pipeline, s, c, source)
    BY <1>1, <2>1
  <2>3. source = stage.bind[c] /\ source # Flow!Entry
    BY <1>1, <2>1, <2>2 DEF Flow!Meant
  <2>4. source \in Flow!Writers(pipeline, up, c)
    BY <2>2, <2>3 DEF Flow!Sources
  <2>5. source \in up /\ pipeline.stages[source].writes = c
    BY <2>4 DEF Flow!Writers
  <2> QED BY <1>1, <2>1, <2>3, <2>5
<1>3. CASE Flow!BadRead(pipeline, s, up)
  <2>1. PICK c \in stage.reads \ DOMAIN stage.bind :
          Flow!Cardinality(Flow!Writers(pipeline, up, c)) + Enters(pipeline, c) # 1
    BY <1>3 DEF Flow!BadRead, Enters
  <2>2. PICK source \in Flow!Sources(pipeline, s, c) : Flow!Meant(pipeline, s, c, source)
    BY <1>1, <2>1
  <2>3. Flow!Sources(pipeline, s, c) = {source}
    BY <2>1, <2>2 DEF Flow!Meant
  <2> QED BY <2>1, <2>3, OneSource
<1>4. CASE Flow!Ungated(pipeline, s, up)
  BY <1>1, <1>4 DEF Flow!Ungated
<1> QED BY <1>2, <1>3, <1>4 DEF Wrong

\* What a stage with no fault is given is what its file means.
LEMMA GivenRight ==
  ASSUME NEW pipeline, Graph(pipeline), NEW s \in DOMAIN pipeline.stages, ~Wrong(pipeline, s),
         NEW c \in pipeline.stages[s].reads
  PROVE  LET source == Flow!Source(pipeline, s, c) IN
         /\ Flow!Meant(pipeline, s, c, source)
         /\ source # Flow!Entry => source \in Flow!Upstream(pipeline.stages, s)
<1> DEFINE stages == pipeline.stages
           stage == stages[s]
           up == Flow!Upstream(stages, s)
           writers == Flow!Writers(pipeline, up, c)
           order == Flow!Order(stages)
           source == Flow!Source(pipeline, s, c)
<1>0. Flow!Ancestors(stages)[s] = up
  BY AncestorsMean DEF Graph
<1>1. source = IF c \in DOMAIN stage.bind THEN stage.bind[c]
               ELSE IF writers # {} THEN order[Flow!Max({i \in DOMAIN order : order[i] \in writers})]
               ELSE IF c \in pipeline.entry THEN Flow!Entry ELSE Flow!Nowhere
  BY <1>0 DEF Flow!Source
<1>2. writers \subseteq up /\ writers \subseteq Flow!Sources(pipeline, s, c)
  BY DEF Flow!Writers, Flow!Sources
<1>3. CASE c \in DOMAIN stage.bind
  <2>1. stage.bind[c] \in up /\ stages[stage.bind[c]].writes = c
    BY <1>3 DEF Wrong, Flow!BadBind
  <2>2. stage.bind[c] \in writers
    BY <2>1 DEF Flow!Writers
  <2>3. source = stage.bind[c]
    BY <1>1, <1>3
  <2> HIDE DEF source, writers
  <2>4. Flow!Meant(pipeline, s, c, source)
    BY <1>2, <1>3, <2>2, <2>3 DEF Flow!Meant
  <2> QED BY <1>2, <2>2, <2>3, <2>4 DEF source
<1>4. CASE c \notin DOMAIN stage.bind
  <2>1. Flow!Cardinality(writers) + Enters(pipeline, c) = 1
    BY <1>4 DEF Wrong, Flow!BadRead, Enters
  <2>2. IF c \in pipeline.entry THEN writers = {} /\ Flow!Sources(pipeline, s, c) = {0}
        ELSE \E w : writers = {w} /\ Flow!Sources(pipeline, s, c) = {w}
    BY <2>1, OneSource
  <2>3. CASE c \in pipeline.entry
    <3>1. source = Flow!Entry /\ Flow!Entry = 0
      BY <1>1, <1>4, <2>2, <2>3 DEF Flow!Entry
    <3> HIDE DEF source
    <3>2. Flow!Meant(pipeline, s, c, source)
      BY <1>4, <2>2, <2>3, <3>1 DEF Flow!Meant
    <3> QED BY <3>1, <3>2 DEF source
  <2>4. CASE c \notin pipeline.entry
    <3>1. PICK w : writers = {w} /\ Flow!Sources(pipeline, s, c) = {w}
      BY <2>2, <2>4
    <3> DEFINE at == {i \in DOMAIN order : order[i] \in writers}
    <3>2. /\ order \in Seq(DOMAIN stages) /\ On(order) = DOMAIN stages /\ Len(order) \in Nat
          /\ DOMAIN order = 1..Len(order)
      <4>1. WellOrdered(stages, order) /\ Len(order) = Len(stages) /\ Straight(stages)
        BY OrderMeans DEF Graph
      <4>2. order \in Seq(DOMAIN stages)
        BY <4>1 DEF WellOrdered
      <4> HIDE DEF order
      <4>3. Len(order) \in Nat /\ DOMAIN order = 1..Len(order)
        BY <4>2
      <4> QED BY <4>1, <4>2, <4>3, OrderedAll
    <3>3. w \in DOMAIN stages
      BY <3>1, OneSource
    <3>4. at \in SUBSET (1..Len(order)) /\ at # {}
      BY <3>1, <3>2, <3>3 DEF On
    <3>5. Flow!Max(at) \in at
      <4> HIDE DEF at
      <4> QED BY <3>2, <3>4, GreatestOf
    <3>6. source = order[Flow!Max(at)]
      BY <1>1, <1>4, <3>1
    <3>7. source = w
      <4> HIDE DEF source
      <4> QED BY <3>1, <3>5, <3>6
    <3> HIDE DEF source, writers
    <3>8. Flow!Meant(pipeline, s, c, source)
      BY <1>4, <3>1, <3>7 DEF Flow!Meant
    <3> QED BY <1>2, <3>1, <3>7, <3>8 DEF source
  <2> QED BY <2>3, <2>4
<1> QED BY <1>3, <1>4

\* What the check accepts runs as its file means.
LEMMA AcceptedRight ==
  ASSUME NEW pipeline, Graph(pipeline), \A s \in DOMAIN pipeline.stages : ~Wrong(pipeline, s),
         NEW said, said.order = Flow!Order(pipeline.stages),
         said.given = [s \in DOMAIN pipeline.stages |->
           [c \in pipeline.stages[s].reads |-> Flow!Source(pipeline, s, c)]]
  PROVE  Flow!RunsAsMeant(pipeline, said)
<1> DEFINE stages == pipeline.stages
           D == DOMAIN stages
           order == said.order
           Ahead(x, y) == \E i, j \in D : i < j /\ order[i] = x /\ order[j] = y
<1>1. /\ Straight(stages) /\ WellOrdered(stages, order) /\ Len(order) = Len(stages) /\ On(order) = D
      /\ D = 1..Len(order) /\ Len(order) \in Nat
  <2>1. Straight(stages) /\ WellOrdered(stages, order) /\ Len(order) = Len(stages)
    BY OrderMeans DEF Graph
  <2> QED BY <2>1, OrderedAll, Numbered
<1>2. Flow!Range(order) = D
  BY <1>1, RangeIs DEF WellOrdered
<1> HIDE DEF order
<1>3. \A s \in D : \A u \in Flow!Upstream(stages, s) : Ahead(u, s)
  <2> HIDE DEF order
  <2> QED BY <1>1, AllBefore
<1> HIDE DEF Ahead, D
<1>4. \A s \in D : \A d \in Flow!After(stages, s) : Ahead(d, s)
  BY <1>1, <1>3, UpstreamShut DEF D
<1>5. ASSUME NEW s \in D, NEW c \in stages[s].reads
      PROVE  /\ Flow!Meant(pipeline, s, c, said.given[s][c])
             /\ said.given[s][c] # Flow!Entry => Ahead(said.given[s][c], s)
  <2>1. said.given[s][c] = Flow!Source(pipeline, s, c)
    BY DEF D
  <2>2. LET source == Flow!Source(pipeline, s, c) IN
        /\ Flow!Meant(pipeline, s, c, source)
        /\ source # Flow!Entry => source \in Flow!Upstream(stages, s)
    BY GivenRight DEF D
  <2> QED BY <1>3, <2>1, <2>2
<1>6. ASSUME NEW s \in D, stages[s].kind = "effect"
      PROVE  \E u \in Flow!Upstream(stages, s) : stages[u].kind = "gate" /\ Ahead(u, s)
  <2>1. ~Flow!Ungated(pipeline, s, Flow!Upstream(stages, s))
    BY DEF Wrong, D
  <2> QED BY <1>3, <1>6, <2>1 DEF Flow!Ungated
<1>7. Flow!Range(said.order) = D /\ Len(said.order) = Len(stages)
  BY <1>1, <1>2 DEF order
<1> QED BY <1>4, <1>5, <1>6, <1>7, Zenon DEF Flow!RunsAsMeant, Ahead, D, order

LEMMA CheckedIsSound ==
  ASSUME NEW pipeline, Flow!AreStages(pipeline.stages)
  PROVE  Flow!PipelineIsSound(pipeline, Flow!Checked(pipeline))
<1> DEFINE stages == pipeline.stages
           cycle == Flow!FindCycle(stages)
           said == Flow!Checked(pipeline)
<1>1. CASE Flow!Strays(stages)
  <2>1. said = [refused |-> "stray"]
    BY <1>1 DEF Flow!Checked
  <2>2. \E s \in DOMAIN stages : s \in Flow!After(stages, s) \/ Flow!After(stages, s) \ DOMAIN stages # {}
    BY <1>1 DEF Flow!Strays
  <2>3. said.refused = "stray"
    BY <2>1
  <2> QED BY <2>2, <2>3, Zenon DEF Flow!PipelineIsSound
<1>2. CASE ~Flow!Strays(stages) /\ cycle # <<>>
  <2>1. said = [refused |-> "cycle", cycle |-> cycle]
    BY <1>2 DEF Flow!Checked
  <2>2. Flow!GoesAround(stages, cycle)
    BY <1>2, StraightIs, CycleMeans
  <2> HIDE DEF said, cycle
  <2>3. said.refused = "cycle" /\ said.refused # "stray" /\ said.cycle = cycle
    BY <2>1
  <2>4. Flow!PipelineIsSound(pipeline, said)
    BY <2>2, <2>3, Zenon DEF Flow!PipelineIsSound
  <2> QED BY <2>4 DEF said
<1>3. CASE ~Flow!Strays(stages) /\ cycle = <<>>
  <2>1. Graph(pipeline)
    BY <1>3, StraightIs, CycleMeans DEF Graph
  <2>2. ~Flow!Circular(stages)
    BY <2>1 DEF Graph, Clear, Flow!Circular
  <2>3. CASE Flow!Problem(pipeline)
    <3>1. said = [refused |-> "problem"]
      BY <1>3, <2>3 DEF Flow!Checked
    <3>2. ~Flow!Runnable(pipeline)
      BY <2>1, <2>3, ProblemIs, RefusedRight
    <3> HIDE DEF said
    <3>3. said.refused = "problem" /\ said.refused # "stray" /\ said.refused # "cycle"
      BY <3>1
    <3>4. Flow!PipelineIsSound(pipeline, said)
      BY <2>2, <3>2, <3>3, Zenon DEF Flow!PipelineIsSound
    <3> QED BY <3>4 DEF said
  <2>4. CASE ~Flow!Problem(pipeline)
    <3>1. said = [refused |-> "no", order |-> Flow!Order(stages),
                    given |-> [s \in DOMAIN stages |->
                       [c \in stages[s].reads |-> Flow!Source(pipeline, s, c)]]]
      BY <1>3, <2>4 DEF Flow!Checked
    <3> HIDE DEF said
    <3>2. /\ said.refused # "stray" /\ said.refused # "cycle" /\ said.refused # "problem"
          /\ said.order = Flow!Order(stages)
          /\ said.given = [s \in DOMAIN stages |->
               [c \in stages[s].reads |-> Flow!Source(pipeline, s, c)]]
      BY <3>1
    <3>3. Flow!RunsAsMeant(pipeline, said)
      BY <2>1, <2>4, <3>2, ProblemIs, AcceptedRight
    <3>4. Flow!PipelineIsSound(pipeline, said)
      BY <2>2, <3>2, <3>3, Zenon DEF Flow!PipelineIsSound
    <3> QED BY <3>4 DEF said
  <2> QED BY <2>3, <2>4
<1> QED BY <1>1, <1>2, <1>3


-----------------------------------------------------------------------------
(* What is asked, and its answer *)

\* What is asked is one of its kind, and what was answered is what was decided of it.
Decided(given) == answer \in {<<>>, <<given>>}

AskedOfReceipts == input \in PullRequests /\ Decided(Judging!Passes(input))
AskedOfHandoff ==
  /\ \E n \in Nat : input \in [1..n -> StageEvents]
  /\ Decided(Contracts!Handled(input))
AskedOfStandards ==
  /\ \E s \in Subjects, n \in Nat :
       input \in [start : s.starts, changes : [1..n -> [tree : s.trees, day : s.days]]]
  /\ Decided(Law!Merged(input.start, input.changes))
AskedOfChecks ==
  /\ \E n \in Nat : input \in [1..n -> Steps]
  /\ Decided(Measuring!Measured(input))
AskedOfMemory ==
  /\ \E m \in Memories :
       input \in [store : [records : m.records, events : m.events], ask : m.asks]
  /\ Decided(Recall!Select(input.store, input.ask))
AskedOfPlan == (\E g \in Goals : input \in GoalsOf(g)) /\ Decided(Planning!Plan(input))
AskedOfPipeline ==
  /\ \E f \in Flows : input \in [stages : f.stages, entry : f.entries]
  /\ Decided(Flow!Checked(input))

DecisionsInv ==
  /\ asked = "receipts" => AskedOfReceipts
  /\ asked = "handoff" => AskedOfHandoff
  /\ asked = "standards" => AskedOfStandards
  /\ asked = "checks" => AskedOfChecks
  /\ asked = "memory" => AskedOfMemory
  /\ asked = "plan" => AskedOfPlan
  /\ asked = "pipeline" => AskedOfPipeline

LEMMA DecisionsStart == DecisionsInit => DecisionsInv
<1> SUFFICES ASSUME DecisionsInit PROVE DecisionsInv
  OBVIOUS
<1> USE DEF DecisionsInit
<1>0. \A m \in Nat : 0..m \subseteq Nat
  OBVIOUS
<1>1. asked = "receipts" => AskedOfReceipts
  BY DEF AskedOfReceipts, Decided
<1>2. asked = "handoff" => AskedOfHandoff
  BY <1>0, StageAssumption DEF AskedOfHandoff, Decided
<1>3. asked = "standards" => AskedOfStandards
  BY <1>0, StandardsAssumption DEF AskedOfStandards, Decided
<1>4. asked = "checks" => AskedOfChecks
  BY <1>0, ChecksAssumption DEF AskedOfChecks, Decided
<1>5. asked = "memory" => AskedOfMemory
  BY DEF AskedOfMemory, Decided
<1>6. asked = "plan" => AskedOfPlan
  BY DEF AskedOfPlan, Decided
<1>7. asked = "pipeline" => AskedOfPipeline
  BY DEF AskedOfPipeline, Decided
<1> QED BY <1>1, <1>2, <1>3, <1>4, <1>5, <1>6, <1>7 DEF DecisionsInv

LEMMA DecisionsSteps == DecisionsInv /\ [DecisionsNext]_asking => DecisionsInv'
<1> SUFFICES ASSUME DecisionsInv, [DecisionsNext]_asking PROVE DecisionsInv'
  OBVIOUS
<1> USE DEF DecisionsInv, Answer, Decided
<1>1. CASE Answer("receipts", Judging!Passes(input))
  BY <1>1 DEF AskedOfReceipts
<1>2. CASE Answer("handoff", Contracts!Handled(input))
  BY <1>2 DEF AskedOfHandoff
<1>3. CASE Answer("standards", Law!Merged(input.start, input.changes))
  BY <1>3 DEF AskedOfStandards
<1>4. CASE Answer("checks", Measuring!Measured(input))
  BY <1>4 DEF AskedOfChecks
<1>5. CASE Answer("memory", Recall!Select(input.store, input.ask))
  BY <1>5 DEF AskedOfMemory
<1>6. CASE Answer("plan", Planning!Plan(input))
  BY <1>6 DEF AskedOfPlan
<1>7. CASE Answer("pipeline", Flow!Checked(input))
  BY <1>7 DEF AskedOfPipeline
<1>8. CASE UNCHANGED asking
  BY <1>8 DEF asking, AskedOfReceipts, AskedOfHandoff, AskedOfStandards, AskedOfChecks,
              AskedOfMemory, AskedOfPlan, AskedOfPipeline
<1> QED BY <1>1, <1>2, <1>3, <1>4, <1>5, <1>6, <1>7, <1>8 DEF DecisionsNext

LEMMA DecisionsKept == DecisionsSpec => []DecisionsInv
BY DecisionsStart, DecisionsSteps, PTL DEF DecisionsSpec

\* receipts.verify_committed, for any pull request, orders, commits and receipts: one
\* that passes was judged by the runner at its very head, for every order it touches
\* and its head does not call an example.
THEOREM ReceiptsJudgeTheHead == DecisionsSpec => []ReceiptsAreOfTheHead
<1>1. DecisionsInv => ReceiptsAreOfTheHead
  <2> SUFFICES ASSUME DecisionsInv, Answered("receipts")
               PROVE  Judging!ReceiptsAreOfTheHead(input, answer[1])
    BY DEF ReceiptsAreOfTheHead
  <2>1. input \in PullRequests /\ answer = <<Judging!Passes(input)>>
    BY DEF DecisionsInv, AskedOfReceipts, Decided, Answered
  <2> QED BY <2>1, PassesMeans
<1> QED BY <1>1, DecisionsKept, PTL

\* handoff.validate and upstream, for any versions of a contract and whatever happens
\* to a stage: what is handed on is the first result of the dispatch that met its
\* contract, within one repair, and it meets the contract it is read under.
THEOREM HandsOnWhatMeets == DecisionsSpec => []HandoffMeetsContract
<1>1. DecisionsInv => HandoffMeetsContract
  <2> SUFFICES ASSUME DecisionsInv, Answered("handoff")
               PROVE  Contracts!HandoffMeetsContract(input, answer[1])
    BY DEF HandoffMeetsContract
  <2>1. /\ \E n \in Nat : input \in [1..n -> StageEvents]
        /\ answer = <<Contracts!Handled(input)>>
    BY DEF DecisionsInv, AskedOfHandoff, Decided, Answered
  <2> QED BY <2>1, HandedOn
<1> QED BY <1>1, DecisionsKept, PTL

\* standards.py, floor_check and commits.rules, for any keys, rules, values, waivers,
\* and any changes on any days: an earlier floor's demands stand in every later tree,
\* and in its commit check, short of a waiver that held and can lift them.
THEOREM StandardsTighten == DecisionsSpec => []StandardsOnlyTighten
<1>1. DecisionsInv => StandardsOnlyTighten
  <2> SUFFICES ASSUME DecisionsInv, Answered("standards")
               PROVE  Law!StandardsOnlyTighten(input.start, input.changes, answer[1])
    BY DEF StandardsOnlyTighten
  <2>1. /\ \E s \in Subjects, n \in Nat :
             input \in [start : s.starts, changes : [1..n -> [tree : s.trees, day : s.days]]]
        /\ answer = <<Law!Merged(input.start, input.changes)>>
    BY DEF DecisionsInv, AskedOfStandards, Decided, Answered
  <2>2. PICK s \in Subjects, n \in Nat :
          input.start \in s.starts /\ input.changes \in [1..n -> [tree : s.trees, day : s.days]]
    BY <2>1
  <2>3. Len(input.changes) = n /\ DOMAIN input.changes = 1..n
    BY <2>2
  <2>4. Law!IsTree(input.start)
    BY <2>2, StandardsAssumption
  <2>5. ASSUME NEW i \in 1..n
        PROVE  Law!IsTree(input.changes[i].tree) /\ input.changes[i].day \in Int
    BY <2>2, StandardsAssumption
  <2> QED BY <2>1, <2>3, <2>4, <2>5, TightensOnly
<1> QED BY <1>1, DecisionsKept, PTL

\* work.run_check and repair, for any runners, trees, bases, and any edits, runs and
\* kills in any order: what is said of the checks is of the tree there is, and true
\* where nobody wrote in between.
THEOREM AnswersAreOfTheTree == DecisionsSpec => []ResultsAreOfTheTree
<1>1. DecisionsInv => ResultsAreOfTheTree
  <2> SUFFICES ASSUME DecisionsInv, Answered("checks")
               PROVE  Measuring!ResultsAreOfTheTree(answer[1])
    BY DEF ResultsAreOfTheTree
  <2>1. /\ \E n \in Nat : input \in [1..n -> Steps]
        /\ answer = <<Measuring!Measured(input)>>
    BY DEF DecisionsInv, AskedOfChecks, Decided, Answered
  <2>2. PICK n \in Nat : input \in [1..n -> Steps]
    BY <2>1
  <2>3. input \in [1..n -> Measuring!Events]
    BY <2>2, ChecksAssumption
  <2> QED BY <2>1, <2>3, MeasuredTyped, ResultsHold
<1> QED BY <1>1, DecisionsKept, PTL

\* memory.select and derive, for any records, events, moment, room and subject: every
\* rule a stage is under is told, whatever does not stand is not, and what stands and
\* was left out had no room beside the rules and what ranks before it.
THEOREM SelectsWhatIsRight == DecisionsSpec => []SelectionIsRight
<1>1. DecisionsInv => SelectionIsRight
  <2> SUFFICES ASSUME DecisionsInv, Answered("memory")
               PROVE  Recall!SelectionIsRight(input.store, input.ask, answer[1])
    BY DEF SelectionIsRight
  <2>1. /\ \E m \in Memories :
             input \in [store : [records : m.records, events : m.events], ask : m.asks]
        /\ answer = <<Recall!Select(input.store, input.ask)>>
    BY DEF DecisionsInv, AskedOfMemory, Decided, Answered
  <2>2. Recall!AreRecords(input.store.records) /\ Recall!AreEvents(input.store.events)
    BY <2>1, MemoriesAssumption
  <2> QED BY <2>1, <2>2, SelectsRightly
<1> QED BY <1>1, DecisionsKept, PTL

\* work.plan, for any orders, needs, owners, teams and budget: what is launched together
\* shares no file and no seat it may not have, everything runs after what it needs, what
\* waits is what cannot start, and a plan refused for a cycle has one.
THEOREM PlansAreSafe == DecisionsSpec => []PlanIsSafe
<1>1. DecisionsInv => PlanIsSafe
  <2> SUFFICES ASSUME DecisionsInv, Answered("plan")
               PROVE  Planning!PlanIsSafe(input, answer[1], RepositoryPaths)
    BY DEF PlanIsSafe
  <2>1. (\E g \in Goals : input \in GoalsOf(g)) /\ answer = <<Planning!Plan(input)>>
    BY DEF DecisionsInv, AskedOfPlan, Decided, Answered
  <2>2. Planning!IsGoal(input)
    BY <2>1, GoalsAssumption
  <2> QED BY <2>1, <2>2, PlansSafely
<1> QED BY <1>1, DecisionsKept, PTL

\* pipelines.pipeline_problems and run._inputs, for any stages that read_pipeline gives:
\* one that is let through runs in an order its edges allow, hands every stage what its
\* file means and reaches no effect but after a gate; one refused has the fault named.
THEOREM PipelinesAreSound == DecisionsSpec => []PipelineIsSound
<1>1. DecisionsInv => PipelineIsSound
  <2> SUFFICES ASSUME DecisionsInv, Answered("pipeline")
               PROVE  Flow!PipelineIsSound(input, answer[1])
    BY DEF PipelineIsSound
  <2>1. /\ \E f \in Flows : input \in [stages : f.stages, entry : f.entries]
        /\ answer = <<Flow!Checked(input)>>
    BY DEF DecisionsInv, AskedOfPipeline, Decided, Answered
  <2>2. Flow!AreStages(input.stages)
    BY <2>1, FlowsAssumption
  <2> QED BY <2>1, <2>2, CheckedIsSound
<1> QED BY <1>1, DecisionsKept, PTL
=============================================================================
