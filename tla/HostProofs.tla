----------------------------- MODULE HostProofs -----------------------------
(***************************************************************************)
(* What a host has one of, for any number of processes, seats, trees,      *)
(* keys, rulesets and changes: that a behaviour of Host is one of each of  *)
(* its parts, and the proofs about Leases, Gates, Runner, GitHub, Proof    *)
(* and Sync.                                                               *)
(***************************************************************************)
EXTENDS Host, FiniteSetTheorems, TLAPS

-----------------------------------------------------------------------------
(* The parts *)

\* Whatever a host does, each part goes its own way or rests: what is proved of a
\* part's specification holds of the host.
THEOREM PartsAreThemselves ==
  HostSpec => Spec /\ G!Spec /\ R!Spec /\ S!Spec /\ P!Spec /\ Y!Spec
<1>1. HostInit => Init /\ G!Init /\ R!Init /\ S!Init /\ P!Init /\ Y!Init
  BY DEF HostInit
<1> USE DEF HostNext, Seats, Judging, KeyAndSocket, Settings, Proving, Syncing,
            allVars, checkout, runner, settings, proofs, rendering
<1>2. [HostNext]_allVars => [Next]_vars
  BY DEF vars
<1>3. [HostNext]_allVars => [G!Next]_(G!vars)
  BY DEF G!vars
<1>4. [HostNext]_allVars => [R!Next]_(R!vars)
  BY DEF R!vars
<1>5. [HostNext]_allVars => [S!Next]_(S!vars)
  BY DEF S!vars
<1>6. [HostNext]_allVars => [P!Next]_(P!vars)
  BY DEF P!vars
<1>7. [HostNext]_allVars => [Y!Next]_(Y!vars)
  BY DEF Y!vars
<1> QED
  BY <1>1, <1>2, <1>3, <1>4, <1>5, <1>6, <1>7, PTL
     DEF HostSpec, Spec, G!Spec, R!Spec, S!Spec, P!Spec, Y!Spec

-----------------------------------------------------------------------------
(* Leases: any pids and files, whatever the budgets, and pids given out again *)

AtSeat == {"write", "seated"}
Locking == {"scan", "write"}

\* Pids tell running processes apart, and leases tell their holders apart.
Apart ==
  /\ \A p \in Procs : pid[p] = NoPid <=> pc[p] = "off"
  /\ \A p, q \in Procs : pid[p] = pid[q] /\ pid[p] # NoPid => p = q
  /\ \A p \in Procs : mine[p] \in Files <=> pc[p] \in AtSeat
  /\ \A p, q \in Procs : mine[p] = mine[q] /\ mine[p] # NoFile => p = q

\* The lock is held through a scan and the write that ends it.
LockHeld == \A p \in Procs : pc[p] \in Locking <=> lock = p

\* A file being written shows no pid yet.
Torn == \A p \in Procs : pc[p] = "write" => file[mine[p]] = "torn"

\* A scan has counted, or has still to judge, the lease of every runner seated.
ScanCovers ==
  \A p \in Procs : pc[p] = "scan" =>
    \A q \in Seated : mine[q] \in todo[p] \cup held[p]

\* Between the count and the write nobody else sits down.
RoomLeft ==
  \A p \in Procs : pc[p] = "write" => Cardinality(Seated) < Budget[p]

LeasesInv == TypeOK /\ Apart /\ LockHeld /\ Torn /\ SeatKept /\ ScanCovers /\ RoomLeft

\* A smaller set of seated runners leaves room where there was some.
LEMMA FewerSeated ==
  ASSUME TypeOK, Seated' \subseteq Seated
  PROVE  /\ IsFiniteSet(Seated) /\ IsFiniteSet(Seated')
         /\ Cardinality(Seated) \in Nat /\ Cardinality(Seated') \in Nat
         /\ Cardinality(Seated') <= Cardinality(Seated)
<1>1. Seated \subseteq Procs
  BY DEF Seated
<1>2. IsFiniteSet(Seated)
  BY <1>1, FS_Subset, LeasesAssumption
<1>3. IsFiniteSet(Seated') /\ Cardinality(Seated') <= Cardinality(Seated)
  BY <1>2, FS_Subset
<1> QED BY <1>2, <1>3, FS_CardinalityType

\* Runners seated under distinct leases of a set number no more than the set.
LEMMA SeatedCounted ==
  ASSUME TypeOK, Apart, NEW H \in SUBSET Files, \A q \in Seated : mine[q] \in H
  PROVE  Cardinality(Seated) <= Cardinality(H)
<1> DEFINE f == [q \in Seated |-> mine[q]]
<1>1. Seated \subseteq Procs
  BY DEF Seated
<1>2. /\ IsFiniteSet(Seated) /\ IsFiniteSet(H)
      /\ Cardinality(Seated) \in Nat /\ Cardinality(H) \in Nat
  BY <1>1, FS_Subset, FS_CardinalityType, LeasesAssumption
<1>3. f \in [Seated -> H]
  OBVIOUS
<1>4. \A x, y \in Seated : f[x] = f[y] => x = y
  BY <1>1, LeasesAssumption DEF Apart
<1> HIDE DEF f
<1>5. Cardinality(H) < Cardinality(Seated)
        => \E x, y \in Seated : x # y /\ f[x] = f[y]
  BY <1>2, <1>3, FS_PigeonHole
<1> QED BY <1>2, <1>4, <1>5

LEMMA LeasesInit == Init => LeasesInv
BY LeasesAssumption DEF Init, LeasesInv, TypeOK, Apart, LockHeld, Torn, SeatKept,
   ScanCovers, RoomLeft, Seated, AtSeat, Locking

LEMMA TypeKept == TypeOK /\ Apart /\ [Next]_vars => TypeOK'
<1> SUFFICES ASSUME TypeOK, Apart, [Next]_vars PROVE TypeOK'
  OBVIOUS
<1> USE LeasesAssumption
<1>1. ASSUME NEW p \in Procs, Start(p) PROVE TypeOK'
  BY <1>1 DEF TypeOK, Start, Goto
<1>2. ASSUME NEW p \in Procs, Lock(p) PROVE TypeOK'
  BY <1>2 DEF TypeOK, Lock, Goto, OnDisk, Seated
<1>3. ASSUME NEW p \in Procs, NEW f \in Files, Judge(p, f) PROVE TypeOK'
  BY <1>3 DEF TypeOK, Judge, Live
<1>4. ASSUME NEW p \in Procs, Refuse(p) PROVE TypeOK'
  BY <1>4 DEF TypeOK, Refuse, Goto, Forget
<1>5. ASSUME NEW p \in Procs, Take(p) PROVE TypeOK'
  BY <1>5 DEF TypeOK, Take, Goto, Forget
<1>6. ASSUME NEW p \in Procs, Write(p) PROVE TypeOK'
  <2>1. pid[p] \in Pids
    BY <1>6 DEF TypeOK, Apart, Write
  <2> QED BY <1>6, <2>1 DEF TypeOK, Write, Goto
<1>7. ASSUME NEW p \in Procs, StartAgent(p) PROVE TypeOK'
  BY <1>7 DEF TypeOK, Apart, StartAgent, AtSeat
<1>8. ASSUME NEW p \in Procs, Release(p) PROVE TypeOK'
  BY <1>8 DEF TypeOK, Release, Goto
<1>9. ASSUME NEW p \in Procs, Exit(p) PROVE TypeOK'
  BY <1>9 DEF TypeOK, Exit, Gone, Goto, Forget
<1>10. ASSUME NEW p \in Procs, Crash(p) PROVE TypeOK'
  BY <1>10 DEF TypeOK, Crash, Gone, Goto, Forget
<1>11. ASSUME NEW f \in Files, EndAgent(f) PROVE TypeOK'
  BY <1>11 DEF TypeOK, EndAgent
<1>12. CASE UNCHANGED vars
  BY <1>12 DEF TypeOK, vars
<1> QED BY <1>1, <1>2, <1>3, <1>4, <1>5, <1>6, <1>7, <1>8, <1>9, <1>10, <1>11,
           <1>12 DEF Next

LEMMA LeasesStep == LeasesInv /\ [Next]_vars => LeasesInv'
<1> SUFFICES ASSUME LeasesInv, [Next]_vars PROVE LeasesInv'
  OBVIOUS
<1>t. TypeOK /\ TypeOK'
  BY TypeKept DEF LeasesInv
<1> USE <1>t, LeasesAssumption DEF LeasesInv, AtSeat, Locking
\* Room is lost only by sitting down.
<1>r. ASSUME Seated' \subseteq Seated,
             \A p \in Procs : pc'[p] = "write" => pc[p] = "write"
      PROVE  RoomLeft'
  BY <1>r, FewerSeated DEF RoomLeft, TypeOK
<1>1. ASSUME NEW p \in Procs, Start(p) PROVE LeasesInv'
  <2>1. Apart'
    BY <1>1 DEF TypeOK, Apart, Start, Goto, Alive
  <2>2. Seated' = Seated
    BY <1>1 DEF TypeOK, Start, Goto, Seated
  <2>3. LockHeld' /\ Torn' /\ ScanCovers'
    BY <1>1, <2>2 DEF TypeOK, Start, Goto, LockHeld, Torn, ScanCovers
  <2>4. SeatKept'
    BY <1>1, <2>2 DEF TypeOK, Start, Goto, SeatKept, Seated
  <2>5. RoomLeft'
    BY <1>1, <1>r, <2>2 DEF TypeOK, Start, Goto
  <2> QED BY <2>1, <2>3, <2>4, <2>5
<1>2. ASSUME NEW p \in Procs, Lock(p) PROVE LeasesInv'
  <2>1. Apart' /\ Torn'
    BY <1>2 DEF TypeOK, Apart, Torn, Lock, Goto
  <2>2. Seated' = Seated
    BY <1>2 DEF TypeOK, Lock, Goto, Seated
  <2>3. LockHeld'
    BY <1>2 DEF TypeOK, Lock, Goto, LockHeld
  <2>4. SeatKept'
    BY <1>2, <2>2 DEF Lock, SeatKept
  <2>5. ScanCovers'
    <3>1. \A q \in Seated : mine[q] \in OnDisk
      BY DEF SeatKept, OnDisk, Seated, TypeOK, Apart
    <3>2. \A q \in Procs : pc'[q] = "scan" => q = p
      BY <1>2 DEF TypeOK, Lock, Goto, LockHeld
    <3> QED BY <1>2, <2>2, <3>1, <3>2 DEF TypeOK, Lock, ScanCovers
  <2>6. RoomLeft'
    BY <1>2, <1>r, <2>2 DEF TypeOK, Lock, Goto
  <2> QED BY <2>1, <2>3, <2>4, <2>5, <2>6
<1>3. ASSUME NEW p \in Procs, NEW f \in Files, Judge(p, f) PROVE LeasesInv'
  <2>1. Apart' /\ LockHeld' /\ Seated' = Seated
    BY <1>3 DEF TypeOK, Apart, LockHeld, Judge, Seated
  \* The scan reclaims no lease of a seated runner, for its pid is alive.
  <2>2. \A q \in Seated : file'[mine[q]] = file[mine[q]]
    <3> SUFFICES ASSUME NEW q \in Seated PROVE file'[mine[q]] = file[mine[q]]
      OBVIOUS
    <3>1. file[mine[q]] \in Pids /\ Alive(file[mine[q]]) /\ mine[q] \in Files
      BY DEF SeatKept, Apart, TypeOK, Seated, Alive
    <3> QED BY <1>3, <3>1 DEF Judge, Live, TypeOK
  <2>3. SeatKept'
    BY <1>3, <2>1, <2>2 DEF Judge, SeatKept, Seated
  \* Nobody writes while another scans.
  <2>4. Torn'
    BY <1>3 DEF TypeOK, Judge, LockHeld, Torn
  <2>5. ScanCovers'
    <3> SUFFICES ASSUME NEW r \in Procs, pc'[r] = "scan", NEW q \in Seated
                 PROVE  mine'[q] \in todo'[r] \cup held'[r]
      BY <2>1 DEF ScanCovers
    <3>1. r = p /\ mine' = mine
      BY <1>3 DEF Judge, LockHeld
    <3>2. mine[q] # f => mine[q] \in todo'[p] \cup held'[p]
      BY <1>3, <3>1 DEF Judge, ScanCovers, TypeOK
    <3>3. mine[q] = f => mine[q] \in held'[p]
      <4>1. file[mine[q]] \in Pids /\ Alive(file[mine[q]])
        BY DEF SeatKept, Apart, TypeOK, Seated, Alive
      <4> QED BY <1>3, <4>1 DEF Judge, Live, TypeOK
    <3> QED BY <3>1, <3>2, <3>3
  <2>6. RoomLeft'
    BY <1>3, <1>r, <2>1 DEF Judge
  <2> QED BY <2>1, <2>3, <2>4, <2>5, <2>6
<1>4. ASSUME NEW p \in Procs, Refuse(p) PROVE LeasesInv'
  <2>1. Apart' /\ LockHeld' /\ Torn' /\ Seated' = Seated
    BY <1>4 DEF TypeOK, Apart, LockHeld, Torn, Refuse, Counted, Goto, Seated
  <2>2. SeatKept'
    BY <1>4, <2>1 DEF Refuse, SeatKept
  <2>3. ScanCovers'
    BY <1>4, <2>1 DEF TypeOK, Refuse, Goto, Forget, ScanCovers
  <2>4. RoomLeft'
    BY <1>4, <1>r, <2>1 DEF TypeOK, Refuse, Goto
  <2> QED BY <2>1, <2>2, <2>3, <2>4
<1>5. ASSUME NEW p \in Procs, Take(p) PROVE LeasesInv'
  <2>1. PICK f \in Files \ (OnDisk \cup agents) :
          /\ file' = [file EXCEPT ![f] = "torn"]
          /\ mine' = [mine EXCEPT ![p] = f]
    BY <1>5 DEF Take
  <2>2. Seated' = Seated /\ p \notin Seated
    BY <1>5 DEF TypeOK, Take, Counted, Goto, Seated
  \* A fresh file is nobody's: every holder's file is on disk.
  <2>3. \A q \in Procs : q # p => mine[q] # f
    BY <1>5, <2>1 DEF Take, Counted, OnDisk, Apart, SeatKept, Torn, Seated, TypeOK
  <2>4. Apart'
    BY <1>5, <2>1, <2>3 DEF TypeOK, Take, Counted, Goto, Apart
  <2>5. LockHeld' /\ Torn'
    BY <1>5, <2>1 DEF TypeOK, Take, Counted, Goto, LockHeld, Torn, Apart
  <2>6. SeatKept'
    BY <1>5, <2>1, <2>2, <2>3 DEF TypeOK, Take, SeatKept, Seated
  <2>7. ScanCovers'
    BY <1>5, <2>5 DEF TypeOK, Take, Counted, Goto, LockHeld, ScanCovers
  <2>8. RoomLeft'
    <3>1. Cardinality(Seated) <= Cardinality(held[p])
      BY <1>5, SeatedCounted DEF TypeOK, Take, Counted, ScanCovers
    <3>2. Cardinality(held[p]) \in Nat /\ Cardinality(Seated) \in Nat
      BY <2>2, FewerSeated, FS_Subset, FS_CardinalityType DEF TypeOK
    <3>3. Cardinality(Seated) < Budget[p]
      BY <1>5, <3>1, <3>2 DEF Take
    <3>4. \A q \in Procs : pc'[q] = "write" => q = p
      BY <1>5, <2>5 DEF TypeOK, Take, Counted, Goto, LockHeld
    <3> QED BY <2>2, <3>3, <3>4 DEF RoomLeft
  <2> QED BY <2>4, <2>5, <2>6, <2>7, <2>8
<1>6. ASSUME NEW p \in Procs, Write(p) PROVE LeasesInv'
  <2>1. mine[p] \in Files /\ \A q \in Procs : q # p => mine[q] # mine[p]
    BY <1>6 DEF Write, Apart
  <2>2. Apart' /\ LockHeld'
    BY <1>6 DEF TypeOK, Write, Goto, Apart, LockHeld
  <2>3. \A q \in Procs : pc'[q] \notin Locking
    BY <1>6 DEF TypeOK, Write, Goto, LockHeld
  <2>4. Torn' /\ ScanCovers' /\ RoomLeft'
    BY <2>3 DEF Torn, ScanCovers, RoomLeft
  <2>5. SeatKept'
    BY <1>6, <2>1 DEF TypeOK, Write, Goto, SeatKept, Seated
  <2> QED BY <2>2, <2>4, <2>5
<1>7. ASSUME NEW p \in Procs, Release(p) PROVE LeasesInv'
  <2>1. mine[p] \in Files /\ \A q \in Procs : q # p => mine[q] # mine[p]
    BY <1>7 DEF Release, Apart
  <2>2. Apart'
    BY <1>7 DEF TypeOK, Release, Goto, Apart
  <2>3. Seated' = Seated \ {p}
    BY <1>7 DEF TypeOK, Release, Goto, Seated
  <2>4. LockHeld' /\ Torn'
    BY <1>7, <2>1 DEF TypeOK, Release, Goto, LockHeld, Torn
  <2>5. SeatKept' /\ ScanCovers'
    BY <1>7, <2>1, <2>3 DEF TypeOK, Release, Goto, SeatKept, ScanCovers, Seated
  <2>6. RoomLeft'
    BY <1>7, <1>r, <2>3 DEF TypeOK, Release, Goto
  <2> QED BY <2>2, <2>4, <2>5, <2>6
<1>8. ASSUME NEW p \in Procs, Exit(p) \/ Crash(p) PROVE LeasesInv'
  <2>1. Gone(p) /\ file' = file
    BY <1>8 DEF Exit, Crash
  <2>2. Seated' = Seated \ {p}
    BY <2>1 DEF TypeOK, Gone, Goto, Seated
  <2>3. Apart'
    BY <2>1 DEF TypeOK, Gone, Goto, Apart
  <2>4. LockHeld'
    BY <1>8, <2>1 DEF TypeOK, Gone, Goto, LockHeld, Exit, Crash
  <2>5. Torn' /\ SeatKept' /\ ScanCovers'
    BY <2>1, <2>2 DEF TypeOK, Gone, Goto, Forget, Torn, SeatKept, ScanCovers, Seated
  <2>6. RoomLeft'
    BY <1>r, <2>1, <2>2 DEF TypeOK, Gone, Goto
  <2> QED BY <2>2, <2>3, <2>4, <2>5, <2>6
<1>9. ASSUME UNCHANGED <<pid, pc, lock, file, mine, todo, held>> PROVE LeasesInv'
  BY <1>9 DEF Apart, LockHeld, Torn, SeatKept, ScanCovers, RoomLeft, Seated
<1> QED BY <1>1, <1>2, <1>3, <1>4, <1>5, <1>6, <1>7, <1>8, <1>9
        DEF Next, StartAgent, EndAgent, vars

LEMMA LeasesKeep == Spec => []LeasesInv
BY LeasesInit, LeasesStep, PTL DEF Spec

\* leases.live never reclaims the lease of a runner that is seated, even when
\* the kernel hands out old pids and runners die in the middle of a scan.
THEOREM SeatNeverReclaimed == Spec => []SeatKept
<1>1. LeasesInv => SeatKept
  BY DEF LeasesInv
<1> QED BY <1>1, LeasesKeep, PTL

\* leases.acquire never seats a runner beyond its repository's budget.
THEOREM NobodyBeyondBudget == Spec => BudgetKept
<1>1. LeasesInv /\ [Next]_vars
        => [\A p \in Procs : p \in Seated' \ Seated
                               => Cardinality(Seated') <= Budget[p]]_vars
  <2> SUFFICES ASSUME LeasesInv, Next, NEW p \in Procs, p \in Seated' \ Seated
               PROVE  Cardinality(Seated') <= Budget[p]
    OBVIOUS
  <2>1. TypeOK
    BY DEF LeasesInv
  <2>2. Write(p)
    BY <2>1 DEF Next, Start, Lock, Judge, Refuse, Take, Write, StartAgent, EndAgent,
       Release, Exit, Crash, Gone, Goto, Seated, TypeOK
  <2>3. Seated' = Seated \cup {p}
    BY <2>1, <2>2 DEF Write, Goto, Seated, TypeOK
  <2>4. Cardinality(Seated) < Budget[p]
    BY <2>2 DEF LeasesInv, RoomLeft, Write
  <2>5. IsFiniteSet(Seated) /\ Cardinality(Seated) \in Nat
    BY FS_Subset, FS_CardinalityType, LeasesAssumption DEF Seated
  <2>6. Cardinality(Seated') = Cardinality(Seated) + 1
    BY <2>3, <2>5, FS_AddElement
  <2> QED BY <2>4, <2>5, <2>6, LeasesAssumption
<1> QED BY <1>1, LeasesKeep, PTL DEF Spec, BudgetKept

\* leases.acquire and release are one step each: whoever sits down sees, at that very
\* moment, fewer seated than its repository's budget, and nobody else moves with it.
THEOREM SeatsAreTakenAtOnce == Spec => ImplementsSeats
<1>1. Init => Seating!Init
  BY DEF Init, Seating!Init, Seated
<1>2. LeasesInv /\ [Next]_vars => [Seating!Next]_Seated
  <2> SUFFICES ASSUME LeasesInv, [Next]_vars PROVE Seating!Next \/ Seated' = Seated
    OBVIOUS
  <2>1. TypeOK
    BY DEF LeasesInv
  <2> USE <2>1
  <2>2. ASSUME NEW p \in Procs, Write(p) PROVE Seating!Next
    <3>1. p \notin Seated /\ Seated' = Seated \cup {p}
      BY <2>2 DEF Write, Goto, Seated, TypeOK
    <3>2. Cardinality(Seated) < Budget[p]
      BY <2>2 DEF LeasesInv, RoomLeft, Write
    <3>3. Seating!Cardinality(Seated) = Cardinality(Seated)
      BY DEF Cardinality, Seating!Cardinality
    <3> QED BY <3>1, <3>2, <3>3 DEF Seating!Next, Seating!Enter
  <2>3. ASSUME NEW p \in Procs, Release(p) \/ Exit(p) \/ Crash(p)
        PROVE  Seating!Next \/ Seated' = Seated
    <3>1. Seated' = Seated \ {p}
      BY <2>3 DEF Release, Exit, Crash, Gone, Goto, Seated, TypeOK
    <3>2. CASE p \in Seated
      BY <3>1, <3>2 DEF Seating!Next, Seating!Leave
    <3> QED BY <3>1, <3>2
  \* Everything else is done in private, or under the lock.
  <2>4. ASSUME NEW p \in Procs, Start(p) \/ Lock(p) \/ Refuse(p) \/ Take(p) \/ StartAgent(p)
        PROVE  Seated' = Seated
    BY <2>4 DEF Start, Lock, Refuse, Take, Counted, StartAgent, Goto, Seated, TypeOK
  <2>5. ASSUME NEW p \in Procs, NEW f \in Files, Judge(p, f) PROVE Seated' = Seated
    BY <2>5 DEF Judge, Seated
  <2>6. CASE UNCHANGED vars
    BY <2>6 DEF vars, Seated
  <2>7. ASSUME NEW f \in Files, EndAgent(f) PROVE Seated' = Seated
    BY <2>7 DEF EndAgent, Seated
  <2> QED BY <2>2, <2>3, <2>4, <2>5, <2>6, <2>7 DEF Next
<1> QED BY <1>1, <1>2, LeasesKeep, PTL DEF Spec, ImplementsSeats, Seating!Spec

-----------------------------------------------------------------------------
(* Who is refused *)

\* While no pid is given out that a lease still names, a lease with the pid of a
\* process that runs is the one it is seated under.
OwnLease ==
  \A f \in Files, q \in Procs :
    file[f] \in Pids /\ file[f] = pid[q] => pc[q] = "seated" /\ mine[q] = f

\* g gives each lease p counted the runner that was seated under it, one each.
Owns(p, g) ==
  /\ g \in [held[p] -> before[p]]
  /\ \A f, h \in held[p] : g[f] = g[h] => f = h
  /\ \A f \in held[p] : g[f] \in Seated => mine[g[f]] = f

\* Nobody sits down during a scan, so what it counts was seated when it began.
ScanIsTrue ==
  \A p \in Procs : pc[p] = "scan" =>
    /\ Seated \subseteq before[p]
    /\ todo[p] \cap held[p] = {}
    /\ \E g : Owns(p, g)

SeatsInv == LeasesInv /\ OwnLease /\ ScanIsTrue

LEMMA SeatsInit == ASSUME Init PROVE SeatsInv
<1>1. LeasesInv
  BY LeasesInit
<1>2. OwnLease /\ ScanIsTrue
  BY LeasesAssumption DEF Init, OwnLease, ScanIsTrue
<1> QED  BY <1>1, <1>2 DEF SeatsInv

LEMMA OwnLeaseStep ==
  ASSUME PidReuse = FALSE, LeasesInv, LeasesInv', OwnLease, [Next]_vars PROVE OwnLease'
<1> USE LeasesAssumption DEF LeasesInv
<1>1. ASSUME NEW p \in Procs, Start(p) PROVE OwnLease'
  BY <1>1 DEF OwnLease, Start, Goto, TypeOK, Apart
<1>2. ASSUME NEW p \in Procs, Lock(p) \/ Refuse(p) \/ StartAgent(p) PROVE OwnLease'
  BY <1>2 DEF OwnLease, Lock, Refuse, StartAgent, Counted, Goto, TypeOK
<1>3. ASSUME NEW p \in Procs, NEW f \in Files, Judge(p, f) PROVE OwnLease'
  BY <1>3 DEF OwnLease, Judge, TypeOK
<1>4. ASSUME NEW p \in Procs, Take(p) PROVE OwnLease'
  BY <1>4 DEF OwnLease, Take, Counted, Goto, TypeOK
<1>5. ASSUME NEW p \in Procs, Write(p) PROVE OwnLease'
  <2>1. mine[p] \in Files
    BY <1>5 DEF Write, Apart, AtSeat
  <2> QED  BY <1>5, <2>1 DEF OwnLease, Write, Goto, TypeOK, Apart, Torn
<1>6. ASSUME NEW p \in Procs, Release(p) PROVE OwnLease'
  BY <1>6 DEF OwnLease, Release, Goto, TypeOK, Apart
<1>7. ASSUME NEW p \in Procs, Exit(p) \/ Crash(p) PROVE OwnLease'
  BY <1>7 DEF OwnLease, Exit, Crash, Gone, Goto, TypeOK
<1>8. CASE UNCHANGED vars \/ \E f \in Files : EndAgent(f)
  BY <1>8 DEF OwnLease, EndAgent, vars
<1> QED  BY <1>1, <1>2, <1>3, <1>4, <1>5, <1>6, <1>7, <1>8 DEF Next

\* What a scan found stays true of it while others release, exit and die.
LEMMA ScanGoesOn ==
  ASSUME LeasesInv, ScanIsTrue, NEW p \in Procs, pc[p] = "scan",
         UNCHANGED <<todo[p], held[p], before[p]>>,
         Seated' \subseteq Seated, \A q \in Seated' : mine'[q] = mine[q]
  PROVE  /\ Seated' \subseteq before'[p]
         /\ todo'[p] \cap held'[p] = {}
         /\ \E g : Owns(p, g)'
<1>1. PICK g : Owns(p, g)
  BY DEF ScanIsTrue
<1>2. Owns(p, g)'
  BY <1>1 DEF Owns
<1> QED  BY <1>2 DEF ScanIsTrue

LEMMA ScanStep ==
  ASSUME LeasesInv, LeasesInv', OwnLease, ScanIsTrue, [Next]_vars PROVE ScanIsTrue'
<1> USE LeasesAssumption DEF LeasesInv
\* Of those who scan, nobody begins, and nobody sits down.
<1>0. ASSUME \A q \in Procs : pc'[q] = "scan" =>
               pc[q] = "scan" /\ UNCHANGED <<todo[q], held[q], before[q]>>,
             \/ \A q \in Procs : pc'[q] # "scan"
             \/ Seated' \subseteq Seated /\ \A q \in Seated' : mine'[q] = mine[q]
      PROVE  ScanIsTrue'
  BY <1>0, ScanGoesOn DEF ScanIsTrue
<1>1. ASSUME NEW p \in Procs, Start(p) PROVE ScanIsTrue'
  BY <1>0, <1>1 DEF Start, Goto, TypeOK, Seated
<1>2. ASSUME NEW p \in Procs, Lock(p) PROVE ScanIsTrue'
  <2>1. /\ \A q \in Procs : pc'[q] = "scan" => q = p
        /\ Seated' = Seated /\ held'[p] = {} /\ before'[p] = Seated
    BY <1>2 DEF Lock, Goto, TypeOK, Seated, LockHeld, Locking
  <2>2. Owns(p, [f \in {} |-> f])'
    BY <2>1 DEF Owns
  <2> QED  BY <2>1, <2>2 DEF ScanIsTrue
<1>3. ASSUME NEW p \in Procs, NEW f \in Files, Judge(p, f) PROVE ScanIsTrue'
  <2>1. /\ \A q \in Procs : pc[q] = "scan" => q = p
        /\ UNCHANGED <<pc, mine, before>> /\ Seated' = Seated
        /\ pc[p] = "scan" /\ f \in todo[p] /\ todo'[p] = todo[p] \ {f}
    BY <1>3 DEF Judge, TypeOK, Seated, LockHeld, Locking
  <2>2. PICK g : Owns(p, g)
    BY <2>1 DEF ScanIsTrue
  <2>3. CASE held' = held
    BY <2>1, <2>2, <2>3 DEF ScanIsTrue, Owns
  <2>4. CASE Live(f) /\ held' = [held EXCEPT ![p] = @ \cup {f}]
    <3>1. held'[p] = held[p] \cup {f} /\ f \notin held[p]
      BY <2>1, <2>4 DEF ScanIsTrue, TypeOK
    <3>2. PICK q \in Seated : mine[q] = f
      BY <2>4 DEF Live, Alive, OwnLease, Seated
    <3>3. q \in before[p]
      BY <2>1, <3>2 DEF ScanIsTrue
    <3>4. PICK h : h = [e \in held[p] \cup {f} |-> IF e = f THEN q ELSE g[e]]
      OBVIOUS
    <3>5. h \in [held'[p] -> before'[p]]
      BY <2>1, <2>2, <3>1, <3>3, <3>4 DEF Owns
    <3>6. \A e \in held[p] : g[e] # q
      BY <2>2, <3>1, <3>2 DEF Owns
    <3>7. \A d, e \in held'[p] : h[d] = h[e] => d = e
      BY <2>2, <3>1, <3>6, <3>4 DEF Owns
    <3>8. \A e \in held'[p] : h[e] \in Seated' => mine'[h[e]] = e
      BY <2>1, <2>2, <3>1, <3>2, <3>4 DEF Owns
    <3>9. Owns(p, h)'
      BY <3>5, <3>7, <3>8 DEF Owns
    <3>10. todo'[p] \cap held'[p] = {}
      BY <2>1, <3>1 DEF ScanIsTrue
    <3> QED  BY <2>1, <3>9, <3>10 DEF ScanIsTrue
  <2> QED  BY <1>3, <2>3, <2>4 DEF Judge
<1>4. ASSUME NEW p \in Procs, Refuse(p) \/ Take(p) PROVE ScanIsTrue'
  <2>1. pc[p] = "scan" /\ \A q \in Procs : pc'[q] # "scan"
    BY <1>4 DEF Refuse, Take, Counted, Goto, TypeOK, LockHeld, Locking
  <2> QED  BY <2>1 DEF ScanIsTrue
<1>5. ASSUME NEW p \in Procs, Write(p) PROVE ScanIsTrue'
  <2>1. \A q \in Procs : pc'[q] # "scan"
    BY <1>5 DEF Write, Goto, TypeOK, LockHeld, Locking
  <2> QED  BY <2>1 DEF ScanIsTrue
<1>6. ASSUME NEW p \in Procs, StartAgent(p) \/ Release(p) PROVE ScanIsTrue'
  BY <1>0, <1>6 DEF StartAgent, Release, Goto, TypeOK, Seated
<1>7. ASSUME NEW p \in Procs, Exit(p) \/ Crash(p) PROVE ScanIsTrue'
  BY <1>0, <1>7 DEF Exit, Crash, Gone, Goto, Forget, TypeOK, Seated
<1>8. CASE UNCHANGED vars \/ \E f \in Files : EndAgent(f)
  BY <1>0, <1>8 DEF EndAgent, vars, Seated
<1> QED  BY <1>1, <1>2, <1>3, <1>4, <1>5, <1>6, <1>7, <1>8 DEF Next

\* A scan counts no more leases than runners were seated when it began.
LEMMA CountedWereSeated ==
  ASSUME TypeOK, ScanIsTrue, NEW p \in Procs, pc[p] = "scan"
  PROVE  Cardinality(held[p]) <= Cardinality(before[p])
<1>1. PICK g : Owns(p, g)
  BY DEF ScanIsTrue
<1>2. IsFiniteSet(held[p]) /\ IsFiniteSet(before[p])
  BY FS_Subset, LeasesAssumption DEF TypeOK
<1>3. Cardinality(held[p]) \in Nat /\ Cardinality(before[p]) \in Nat
  BY <1>2, FS_CardinalityType
<1>4. ~(Cardinality(before[p]) < Cardinality(held[p]))
  BY <1>1, <1>2, FS_PigeonHole DEF Owns
<1> QED  BY <1>3, <1>4

\* leases.acquire, "a crashed run never keeps a seat": over any number of runners,
\* files and kills, who is refused is refused for runners that were seated when its
\* count began, as long as the kernel gives out no pid a lease still names (with such
\* a pid the lease of a dead runner counts, see the divergences).
THEOREM RefusalsAreTrue == ASSUME PidReuse = FALSE PROVE Spec => []RefusedOnlyWhenFull
<1>1. Init => SeatsInv
  BY SeatsInit
<1>2. SeatsInv /\ [Next]_vars => SeatsInv'
  BY LeasesStep, OwnLeaseStep, ScanStep DEF SeatsInv
<1>3. SeatsInv => RefusedOnlyWhenFull
  <2> SUFFICES ASSUME SeatsInv, NEW p \in Procs, Counted(p),
                      Cardinality(held[p]) >= Budget[p]
               PROVE  Cardinality(before[p]) >= Budget[p]
    BY DEF RefusedOnlyWhenFull
  <2>1. TypeOK /\ Cardinality(held[p]) <= Cardinality(before[p])
    BY CountedWereSeated DEF SeatsInv, LeasesInv, Counted
  <2>2. Cardinality(held[p]) \in Nat /\ Cardinality(before[p]) \in Nat /\ Budget[p] \in Nat
    BY <2>1, FS_Subset, FS_CardinalityType, LeasesAssumption DEF TypeOK
  <2> QED  BY <2>1, <2>2
<1> QED  BY <1>1, <1>2, <1>3, PTL DEF Spec

-----------------------------------------------------------------------------
(* Gates *)

AtRecipe == {"recipe", "statusAfter", "headAfter"}
GateStates == [at : {"idle", "status", "head"} \cup AtRecipe,
           rev : Trees \cup {NoTree}, exit : {"none", "pass", "fail", "late"},
           moved : Nat]

GateTypes ==
  /\ tree \in Trees /\ head \in Trees
  /\ gate \in [Askers -> GateStates]

\* What the recipe of g answered, or will, is of another tree than g names.
Wrong(g) == g.exit \notin {"none", "late", G!Verdict(g.rev)}

\* While nothing moved, the checkout is what the first look saw.
Unmoved(g) ==
  g.moved = 0 =>
    /\ g.at \in {"head"} \cup AtRecipe => tree = head
    /\ g.at \in AtRecipe => g.rev = head /\ ~Wrong(g)

\* One change cannot be taken back: a wrong answer leaves its trace to the end.
MovedOnce(g) ==
  g.moved = 1 /\ g.at \in AtRecipe /\ Wrong(g) =>
    /\ tree # g.rev \/ head # g.rev
    /\ g.at = "headAfter" => tree = head

Answered(g) ==
  /\ g.at \in {"statusAfter", "headAfter"} => g.exit # "none"
  /\ g.at \in {"idle", "status", "head"} => g.exit = "none"
  /\ g.at \in {"idle", "status"} => g.moved = 0

LooksOK == \A a \in Askers : Unmoved(gate[a]) /\ MovedOnce(gate[a]) /\ Answered(gate[a])

\* The inductive invariant.
GatesInv == GateTypes /\ LooksOK /\ G!ReceiptIsOfItsRevision

-----------------------------------------------------------------------------
\* The checkout starts clean, and nobody looks at it.
LEMMA GatesInit == G!Init => GatesInv
<1>1. ASSUME G!Init PROVE GateTypes
  BY <1>1 DEF G!Init, GateTypes, GateStates, G!Idle, AtRecipe
<1>2. ASSUME G!Init PROVE LooksOK
  BY <1>2 DEF G!Init, LooksOK, G!Idle, Unmoved, MovedOnce, Answered, AtRecipe, Wrong
<1>3. ASSUME G!Init PROVE G!ReceiptIsOfItsRevision
  BY <1>3 DEF G!Init, G!ReceiptIsOfItsRevision
<1> QED  BY <1>1, <1>2, <1>3 DEF GatesInv

\* A change is counted by every gate it comes under, and shows to all of them.
LEMMA ChangeIsSeen ==
  ASSUME GatesInv, NEW t \in Trees, NEW h \in Trees, G!Change(t, h)
  PROVE  GatesInv'
<1>1. ASSUME NEW a \in Askers
      PROVE  gate'[a] = IF G!Gating(a) THEN [gate[a] EXCEPT !.moved = @ + 1] ELSE gate[a]
  BY DEF GatesInv, GateTypes, G!Change
<1>2. GateTypes'
  BY <1>1 DEF GatesInv, GateTypes, G!Change, GateStates
<1>3. ASSUME NEW a \in Askers
      PROVE  Unmoved(gate[a])' /\ MovedOnce(gate[a])' /\ Answered(gate[a])'
  <2> gate[a] \in GateStates /\ Unmoved(gate[a]) /\ MovedOnce(gate[a]) /\ Answered(gate[a])
    BY DEF GatesInv, GateTypes, LooksOK
  <2>1. CASE ~G!Gating(a)
    BY <1>1, <2>1 DEF G!Gating, Unmoved, MovedOnce, Answered, Wrong, AtRecipe, GateStates
  <2>2. CASE G!Gating(a)
    <3>1. gate'[a] = [gate[a] EXCEPT !.moved = @ + 1]
      BY <1>1, <2>2
    <3>2. /\ gate'[a].at = gate[a].at /\ gate'[a].rev = gate[a].rev
          /\ gate'[a].exit = gate[a].exit /\ gate'[a].moved = gate[a].moved + 1
      BY <3>1 DEF GateStates
    <3>3. gate[a].at \in {"head"} \cup AtRecipe
      BY <2>2 DEF G!Gating, GateStates
    <3>4. Unmoved(gate[a])'
      BY <3>2 DEF Unmoved, GateStates
    <3>5. Answered(gate[a])'
      BY <3>2, <3>3 DEF Answered, AtRecipe
    <3>6. MovedOnce(gate[a])'
      <4> SUFFICES ASSUME gate[a].moved = 0, gate[a].at \in AtRecipe, Wrong(gate[a])
                   PROVE  FALSE
        BY <3>2 DEF MovedOnce, GateStates, Wrong
      <4> QED  BY DEF Unmoved
    <3> QED  BY <3>4, <3>5, <3>6
  <2> QED  BY <2>1, <2>2
<1>4. G!ReceiptIsOfItsRevision'
  BY DEF GatesInv, G!Change, G!ReceiptIsOfItsRevision
<1> QED  BY <1>2, <1>3, <1>4 DEF GatesInv, LooksOK

\* A step of one gate is judged by what it makes of that gate.
LEMMA OneGateGoesOn ==
  ASSUME GatesInv, NEW a \in Askers, NEW g \in GateStates, G!GoOn(a, g),
         UNCHANGED <<tree, head>>, Unmoved(g), MovedOnce(g), Answered(g)
  PROVE  GateTypes' /\ LooksOK'
<1>1. gate' = [gate EXCEPT ![a] = g]
  BY DEF G!GoOn
<1>2. GateTypes'
  BY <1>1 DEF GatesInv, GateTypes
<1>3. ASSUME NEW b \in Askers
      PROVE  Unmoved(gate[b])' /\ MovedOnce(gate[b])' /\ Answered(gate[b])'
  <2>1. gate'[b] = IF b = a THEN g ELSE gate[b]
    BY <1>1 DEF GatesInv, GateTypes
  <2>2. Unmoved(gate[b]) /\ MovedOnce(gate[b]) /\ Answered(gate[b])
    BY DEF GatesInv, LooksOK
  <2> QED  BY <2>1, <2>2 DEF Unmoved, MovedOnce, Answered, Wrong
<1> QED  BY <1>2, <1>3 DEF LooksOK

\* A gate that is over, signed or not, knows nothing more.
LEMMA IdleIsOK == G!Idle \in GateStates /\ Unmoved(G!Idle) /\ MovedOnce(G!Idle) /\ Answered(G!Idle)
  BY DEF G!Idle, GateStates, Unmoved, MovedOnce, Answered, AtRecipe, Wrong

LEMMA GatesStep == ASSUME GatesInv, [G!Next]_(G!vars) PROVE GatesInv'
<1> USE DEF G!World
<1>0. \A a \in Askers : /\ gate[a] \in GateStates
                        /\ Unmoved(gate[a]) /\ MovedOnce(gate[a]) /\ Answered(gate[a])
  BY DEF GatesInv, GateTypes, LooksOK
<1>1. CASE G!Edit \/ G!Move \/ G!Checkout \/ G!OrphanWrites
  BY <1>1, ChangeIsSeen DEF G!Edit, G!Move, G!Checkout, G!OrphanWrites, GatesInv, GateTypes
<1>2. ASSUME NEW a \in Askers, G!RecipeWrites(a) PROVE GatesInv'
  BY <1>2, ChangeIsSeen DEF G!RecipeWrites, GatesInv, GateTypes
<1>3. ASSUME NEW a \in Askers, G!Ask(a) PROVE GatesInv'
  <2> DEFINE g == [G!Idle EXCEPT !.at = "status"]
  <2>1. g \in GateStates /\ Unmoved(g) /\ MovedOnce(g) /\ Answered(g)
    BY DEF G!Idle, GateStates, Unmoved, MovedOnce, Answered, AtRecipe, Wrong
  <2>2. G!GoOn(a, g) /\ UNCHANGED <<tree, head, receipts>>
    BY <1>3 DEF G!Ask
  <2> HIDE DEF g
  <2> QED  BY <2>1, <2>2, OneGateGoesOn DEF GatesInv, G!ReceiptIsOfItsRevision
<1>4. ASSUME NEW a \in Askers, G!Status(a) PROVE GatesInv'
  <2> DEFINE g == IF tree = head THEN [gate[a] EXCEPT !.at = "head"] ELSE G!Idle
  <2>1. g \in GateStates /\ Unmoved(g) /\ MovedOnce(g) /\ Answered(g)
    BY <1>0, <1>4, IdleIsOK
       DEF G!Status, G!At, GateStates, Unmoved, MovedOnce, Answered, AtRecipe, Wrong
  <2>2. G!GoOn(a, g) /\ UNCHANGED <<tree, head, receipts>>
    BY <1>4 DEF G!Status
  <2> HIDE DEF g
  <2> QED  BY <2>1, <2>2, OneGateGoesOn DEF GatesInv, G!ReceiptIsOfItsRevision
<1>5. ASSUME NEW a \in Askers, G!Resolve(a) PROVE GatesInv'
  <2> DEFINE g == [gate[a] EXCEPT !.at = "recipe", !.rev = head]
  <2>1. g \in GateStates /\ Unmoved(g) /\ MovedOnce(g) /\ Answered(g)
    BY <1>0, <1>5
       DEF G!Resolve, G!At, GatesInv, GateTypes, GateStates, Unmoved, MovedOnce, Answered, AtRecipe, Wrong
  <2>2. G!GoOn(a, g) /\ UNCHANGED <<tree, head, receipts>>
    BY <1>5 DEF G!Resolve
  <2> HIDE DEF g
  <2> QED  BY <2>1, <2>2, OneGateGoesOn DEF GatesInv, G!ReceiptIsOfItsRevision
<1>6. ASSUME NEW a \in Askers, G!Judge(a) PROVE GatesInv'
  <2> DEFINE g == [gate[a] EXCEPT !.exit = G!Verdict(tree)]
  <2>1. g \in GateStates /\ Unmoved(g) /\ MovedOnce(g) /\ Answered(g)
    BY <1>0, <1>6
       DEF G!Judge, G!At, GateStates, Unmoved, MovedOnce, Answered, AtRecipe, Wrong, G!Verdict
  <2>2. G!GoOn(a, g) /\ UNCHANGED <<tree, head, receipts>>
    BY <1>6 DEF G!Judge
  <2> HIDE DEF g
  <2> QED  BY <2>1, <2>2, OneGateGoesOn DEF GatesInv, G!ReceiptIsOfItsRevision
<1>7. ASSUME NEW a \in Askers, G!Ends(a) PROVE GatesInv'
  <2> DEFINE g == [gate[a] EXCEPT !.at = "statusAfter"]
  <2>1. g \in GateStates /\ Unmoved(g) /\ MovedOnce(g) /\ Answered(g)
    BY <1>0, <1>7
       DEF G!Ends, G!At, GateStates, Unmoved, MovedOnce, Answered, AtRecipe, Wrong
  <2>2. G!GoOn(a, g) /\ UNCHANGED <<tree, head, receipts>>
    BY <1>7 DEF G!Ends
  <2> HIDE DEF g
  <2> QED  BY <2>1, <2>2, OneGateGoesOn DEF GatesInv, G!ReceiptIsOfItsRevision
<1>8. ASSUME NEW a \in Askers, G!TimesOut(a) PROVE GatesInv'
  <2> DEFINE g == [gate[a] EXCEPT !.at = "statusAfter", !.exit = "late"]
  <2>1. g \in GateStates /\ Unmoved(g) /\ MovedOnce(g) /\ Answered(g)
    BY <1>0, <1>8
       DEF G!TimesOut, G!At, GateStates, Unmoved, MovedOnce, Answered, AtRecipe, Wrong
  <2>2. G!GoOn(a, g) /\ UNCHANGED <<tree, head, receipts>>
    BY <1>8 DEF G!TimesOut
  <2> HIDE DEF g
  <2> QED  BY <2>1, <2>2, OneGateGoesOn DEF GatesInv, G!ReceiptIsOfItsRevision
<1>9. ASSUME NEW a \in Askers, G!StatusAfter(a) PROVE GatesInv'
  <2> DEFINE g == IF tree = head THEN [gate[a] EXCEPT !.at = "headAfter"] ELSE G!Idle
  <2>1. g \in GateStates /\ Unmoved(g) /\ MovedOnce(g) /\ Answered(g)
    BY <1>0, <1>9, IdleIsOK
       DEF G!StatusAfter, G!At, GateStates, Unmoved, MovedOnce, Answered, AtRecipe, Wrong
  <2>2. G!GoOn(a, g) /\ UNCHANGED <<tree, head, receipts>>
    BY <1>9 DEF G!StatusAfter
  <2> HIDE DEF g
  <2> QED  BY <2>1, <2>2, OneGateGoesOn DEF GatesInv, G!ReceiptIsOfItsRevision
<1>10. ASSUME NEW a \in Askers, G!Sign(a) PROVE GatesInv'
  <2> DEFINE r == [rev |-> gate[a].rev, exit |-> gate[a].exit, moved |-> gate[a].moved]
  <2>1. GateTypes' /\ LooksOK'
    BY <1>10, IdleIsOK, OneGateGoesOn DEF G!Sign
  <2>2. ASSUME ~G!Moved(a), gate[a].exit # "late", gate[a].moved <= 1
        PROVE  gate[a].exit = G!Verdict(gate[a].rev)
    <3>1. gate[a].at = "headAfter" /\ gate[a].exit # "none" /\ head = gate[a].rev
      BY <1>0, <1>10, <2>2 DEF G!Sign, G!At, G!Moved, Answered
    <3>2. CASE gate[a].moved = 0
      BY <1>0, <2>2, <3>1, <3>2 DEF Unmoved, Wrong, AtRecipe
    <3>3. CASE gate[a].moved = 1
      BY <1>0, <2>2, <3>1, <3>3 DEF MovedOnce, Wrong, AtRecipe
    <3> QED  BY <1>0, <2>2, <3>2, <3>3 DEF GateStates
  <2>3. receipts' = receipts \/ (~G!Moved(a) /\ receipts' = receipts \cup {r})
    BY <1>10 DEF G!Sign
  <2>4. G!ReceiptIsOfItsRevision'
    <3> SUFFICES ASSUME NEW q \in receipts', q.exit # "late", q.moved <= 1
                 PROVE  q.exit = G!Verdict(q.rev)
      BY DEF G!ReceiptIsOfItsRevision, G!Verdict
    <3>1. CASE q \in receipts
      BY <3>1 DEF GatesInv, G!ReceiptIsOfItsRevision
    <3>2. CASE q = r /\ ~G!Moved(a)
      BY <2>2, <3>2
    <3> QED  BY <2>3, <3>1, <3>2
  <2> QED  BY <2>1, <2>4 DEF GatesInv
<1>11. ASSUME NEW a \in Askers, G!Kill(a) PROVE GatesInv'
  <2>1. G!GoOn(a, G!Idle) /\ UNCHANGED <<tree, head, receipts>>
    BY <1>11 DEF G!Kill
  <2> QED  BY <2>1, IdleIsOK, OneGateGoesOn DEF GatesInv, G!ReceiptIsOfItsRevision
<1>12. CASE UNCHANGED G!vars
  BY <1>12 DEF G!vars, GatesInv, GateTypes, LooksOK, Unmoved, MovedOnce, Answered, Wrong,
               G!ReceiptIsOfItsRevision
<1> QED
  BY <1>1, <1>2, <1>3, <1>4, <1>5, <1>6, <1>7, <1>8, <1>9, <1>10, <1>11, <1>12 DEF G!Next

LEMMA GatesKeep == G!Spec => []ReceiptIsOfItsRevision
<1>1. GatesInv => ReceiptIsOfItsRevision
  BY DEF GatesInv, ReceiptIsOfItsRevision
<1> QED  BY <1>1, GatesInit, GatesStep, PTL DEF G!Spec

\* Gates: whatever number of run loops and threads gate a checkout that others edit,
\* commit to and check out, and that recipes given up on still write to: a receipt
\* that is not of a timeout says of its revision what the recipe answers on it, or
\* the checkout was changed twice at least between the two looks.
THEOREM ReceiptNamesWhatWasJudged == HostSpec => []ReceiptIsOfItsRevision
  BY PartsAreThemselves, GatesKeep, PTL

-----------------------------------------------------------------------------
(* Runner *)

\* What is nobody is not a process, and no key is not a key.
Names == NoProc \notin Commands /\ NoKey \notin Keys

-----------------------------------------------------------------------------
(* The socket *)

\* From the lock to its release: what touches the path holds the lock.
Locked == {"unlink", "bind", "serving", "closing", "closed"}
SockInv ==
  /\ at \in [Commands -> {"off"} \cup R!Initing \cup R!Importing \cup R!Serving]
  /\ \A p \in Commands : at[p] \in Locked => serveLock = p
  /\ R!SocketIsTheServers

LEMMA SockInit == ASSUME R!Init PROVE SockInv
  BY DEF R!Init, SockInv, Locked, R!SocketIsTheServers

\* A step that leaves lock and path alone leaves the locked alone.
LEMMA SockIdle ==
  ASSUME SockInv, NEW p \in Commands, NEW s \in {"off"} \cup R!Initing \cup R!Importing \cup R!Serving,
         s \notin Locked \/ (at[p] \in Locked /\ s # "serving"),
         at' = [at EXCEPT ![p] = s], UNCHANGED R!socket
  PROVE  SockInv'
  BY DEF SockInv, R!SocketIsTheServers, Locked, R!socket

LEMMA SockStep == ASSUME Names, SockInv, [R!Next]_(R!vars) PROVE SockInv'
<1>1. CASE UNCHANGED R!vars
  BY <1>1 DEF R!vars, SockInv, R!SocketIsTheServers
<1>2. ASSUME NEW p \in Commands, NEW c \in {"init", "import", "serve"}, R!Start(p, c)
      PROVE  SockInv'
  BY <1>2, SockIdle DEF R!Start, R!Step, Locked, R!Initing, R!Importing, R!Serving
<1>3. ASSUME NEW p \in Commands, R!LookFirst(p) \/ R!Create(p) \/ R!WriteKey(p) \/ R!ReadBack(p)
      PROVE  SockInv'
  BY <1>3, SockIdle
     DEF R!LookFirst, R!Create, R!WriteKey, R!ReadBack, R!Refused, R!Step, Locked, R!Initing
<1>4. ASSUME NEW p \in Commands, \/ R!LookForFile(p) \/ R!TakeFile(p) \/ R!TakeChain(p) \/ R!Put(p)
                              \/ R!Check(p) \/ R!StoreToken(p) \/ R!DropFile(p)
      PROVE  SockInv'
  BY <1>4, SockIdle
     DEF R!LookForFile, R!TakeFile, R!TakeChain, R!Put, R!Check, R!StoreToken, R!DropFile, R!Refused, R!Step,
         Locked, R!Importing
<1>5. ASSUME NEW p \in Commands, R!LoadChain(p) \/ R!LoadFile(p) \/ R!Stop(p)
      PROVE  SockInv'
  BY <1>5, SockIdle DEF R!LoadChain, R!LoadFile, R!Stop, R!Refused, R!Step, Locked, R!Serving
<1>6. ASSUME NEW p \in Commands, R!Lock(p) PROVE SockInv'
  BY <1>6 DEF R!Lock, R!Step, Names, SockInv, R!SocketIsTheServers, Locked, R!Serving
<1>7. ASSUME NEW p \in Commands, R!Unlink(p) PROVE SockInv'
  BY <1>7 DEF R!Unlink, R!Step, SockInv, R!SocketIsTheServers, Locked, R!Serving
<1>8. ASSUME NEW p \in Commands, R!Bind(p) PROVE SockInv'
  BY <1>8 DEF R!Bind, R!Step, SockInv, R!SocketIsTheServers, Locked, R!Serving
<1>9. ASSUME NEW p \in Commands, R!Closes(p) PROVE SockInv'
  BY <1>9 DEF R!Closes, R!Close, R!Step, SockInv, R!SocketIsTheServers, Locked, R!Serving
<1>10. ASSUME NEW p \in Commands, R!Kill(p) PROVE SockInv'
  BY <1>10 DEF R!Kill, SockInv, R!SocketIsTheServers, Locked, R!Serving
<1> QED
  BY <1>1, <1>2, <1>3, <1>4, <1>5, <1>6, <1>7, <1>8, <1>9, <1>10 DEF R!Next

LEMMA SocketKept == ASSUME Names PROVE R!Spec => []SocketIsTheServers
<1>1. R!Init => SockInv
  BY SockInit
<1>2. SockInv /\ [R!Next]_(R!vars) => SockInv'
  BY SockStep
<1>3. SockInv => SocketIsTheServers
  BY DEF SockInv, SocketIsTheServers
<1> QED  BY <1>1, <1>2, <1>3, PTL DEF R!Spec

\* runner.py, bind and server_close: over any number of servers that start, close and
\* are killed, the one that serves is the one the path leads to.
THEOREM ServerIsReached == ASSUME Names PROVE HostSpec => []SocketIsTheServers
  BY PartsAreThemselves, SocketKept, PTL

-----------------------------------------------------------------------------
(* The key *)

\* Where k can be read from.
Stored(k) == chain = k \/ keyFile = R!Whole(k)

\* The steps at which a process holds a key it read, to store it or to sign with it.
Holding == {"put", "check", "token", "drop", "lock", "unlink", "bind"}

KeyTypes ==
  /\ at \in [Commands -> {"off"} \cup R!Initing \cup R!Importing \cup R!Serving]
  /\ key \in [Commands -> Keys \cup {NoKey}]
  /\ \A p \in Commands : at[p] \in Holding \cup {"write"} => key[p] \in Keys
  /\ chain \in Keys \cup {NoKey}
  /\ keyFile \in {R!NoPem} \cup {R!Torn(p) : p \in Commands} \cup {R!Whole(k) : k \in Keys}
  /\ handed \subseteq Keys

NoOverlap == \A p, q \in Commands : ~(at[p] \in R!Initing /\ at[q] \in R!Importing)

\* An init that makes the key found the keychain empty, and no import fills it
\* meanwhile; the file it writes is still the one it opened.
Maker(p) ==
  /\ at[p] \in {"create", "write", "readBack"} => chain = NoKey
  /\ at[p] = "write" => keyFile = R!Torn(p)

\* What is in the keychain and in the file is one key, and so is every key anybody
\* holds or was handed.
OneStored == \A j, k \in Keys : Stored(j) /\ Stored(k) => j = k
HandedIsStored == \A k \in handed : Stored(k)
HeldIsStored(p) == at[p] \in Holding => Stored(key[p])

\* An import drops the file once the keychain was seen to hold its key.
DropsCopies(p) == at[p] \in {"token", "drop"} => chain = key[p]

ProcOK(p) == Maker(p) /\ HeldIsStored(p) /\ DropsCopies(p)
KeyOK ==
  /\ NoOverlap /\ OneStored /\ HandedIsStored
  /\ \A p \in Commands : ProcOK(p)
KeyInv == KeyTypes /\ (~mixed => KeyOK)

LEMMA WholeIsItsKey ==
  /\ \A j, k : R!Whole(j) = R!Whole(k) => j = k
  /\ \A k : R!Whole(k) # R!NoPem /\ R!Whole(k).key = k /\ R!Whole(k).is = "whole"
  /\ \A k, p : R!Whole(k) # R!Torn(p)
  /\ \A p : R!Torn(p).is = "torn" /\ R!Torn(p) # R!NoPem
  /\ R!NoPem.is = "none"
  BY DEF R!Whole, R!Torn, R!NoPem

LEMMA KeyInit == ASSUME Names, R!Init PROVE KeyInv
<1>1. KeyTypes
  BY DEF R!Init, KeyTypes, Holding
<1>2. KeyOK
  BY WholeIsItsKey DEF R!Init, KeyOK, ProcOK, NoOverlap, OneStored, HandedIsStored, Stored, Names,
         Maker, HeldIsStored, DropsCopies, R!Initing, R!Importing, Holding
<1> QED  BY <1>1, <1>2 DEF KeyInv

LEMMA KeyGivesOneKey == ASSUME KeyInv PROVE R!OneKey
<1> SUFFICES ASSUME ~mixed, NEW k \in handed
             PROVE  handed = {k} /\ (chain = k \/ keyFile = R!Whole(k))
  BY DEF R!OneKey
<1>1. \A j \in handed : j \in Keys /\ Stored(j)
  BY DEF KeyInv, KeyOK, KeyTypes, HandedIsStored
<1>2. \A j \in handed : j = k
  BY <1>1 DEF KeyInv, KeyOK, OneStored
<1> QED  BY <1>1, <1>2 DEF Stored

-----------------------------------------------------------------------------
(* Every step keeps it *)

\* A file that is whole is that of a key.
LEMMA WholeFile ==
  ASSUME KeyTypes, keyFile.is = "whole"
  PROVE  keyFile.key \in Keys /\ keyFile = R!Whole(keyFile.key)
  BY WholeIsItsKey DEF KeyTypes

\* The types.
LEMMA KeyTypesStep == ASSUME KeyTypes, [R!Next]_(R!vars) PROVE KeyTypes'
<1> USE DEF R!Step, KeyTypes, Holding
<1>1. CASE UNCHANGED R!vars
  BY <1>1 DEF R!vars
<1>2. ASSUME NEW p \in Commands, NEW c \in {"init", "import", "serve"}, R!Start(p, c)
      PROVE  KeyTypes'
  BY <1>2 DEF R!Start, R!Take, R!Initing, R!Importing, R!Serving
<1>3. ASSUME NEW p \in Commands, R!LookFirst(p) \/ R!ReadBack(p) PROVE KeyTypes'
  BY <1>3, WholeFile DEF R!LookFirst, R!ReadBack, R!Refused, R!Initing
<1>4. ASSUME NEW p \in Commands, R!Create(p) PROVE KeyTypes'
  BY <1>4 DEF R!Create, R!Take, R!Initing
<1>5. ASSUME NEW p \in Commands, R!WriteKey(p) PROVE KeyTypes'
  BY <1>5 DEF R!WriteKey
<1>6. ASSUME NEW p \in Commands, \/ R!LookForFile(p) \/ R!TakeFile(p) \/ R!TakeChain(p)
                              \/ R!Check(p) \/ R!StoreToken(p) \/ R!DropFile(p)
      PROVE  KeyTypes'
  BY <1>6, WholeFile
     DEF R!LookForFile, R!TakeFile, R!TakeChain, R!Check, R!StoreToken, R!DropFile, R!Refused, R!Take, R!Importing
<1>7. ASSUME NEW p \in Commands, R!Put(p) PROVE KeyTypes'
  BY <1>7 DEF R!Put, R!Importing
<1>8. ASSUME NEW p \in Commands, R!LoadChain(p) \/ R!LoadFile(p) PROVE KeyTypes'
  BY <1>8, WholeFile DEF R!LoadChain, R!LoadFile, R!Refused, R!Take, R!Serving
<1>9. ASSUME NEW p \in Commands, R!Lock(p) \/ R!Unlink(p) \/ R!Bind(p) PROVE KeyTypes'
  BY <1>9 DEF R!Lock, R!Unlink, R!Bind, R!Store, R!Serving
<1>10. ASSUME NEW p \in Commands, R!Stop(p) \/ R!Closes(p) \/ R!Kill(p) PROVE KeyTypes'
  BY <1>10 DEF R!Stop, R!Closes, R!Close, R!Kill, R!Store, R!Serving
<1> QED
  BY <1>1, <1>2, <1>3, <1>4, <1>5, <1>6, <1>7, <1>8, <1>9, <1>10 DEF R!Next

\* A step of p that writes neither the file nor the keychain: what it must know of
\* where it goes and of what it takes along.
LEMMA NothingWritten ==
  ASSUME KeyTypes, KeyOK, NEW p \in Commands, NEW s, NEW k,
         at' = [at EXCEPT ![p] = s], key' = [key EXCEPT ![p] = k],
         UNCHANGED <<keyFile, chain>>,
         s \in R!Initing => at[p] \in R!Initing \/ \A q \in Commands \ {p} : at[q] \notin R!Importing,
         s \in R!Importing => at[p] \in R!Importing \/ \A q \in Commands \ {p} : at[q] \notin R!Initing,
         s \in {"create", "readBack"} => chain = NoKey,
         s # "write",
         s \in Holding => Stored(k),
         s \in {"token", "drop"} => chain = k,
         \A h \in handed' : h \in handed \/ Stored(h)
  PROVE  KeyOK'
<1>1. \A q \in Commands : /\ at'[q] = IF q = p THEN s ELSE at[q]
                       /\ key'[q] = IF q = p THEN k ELSE key[q]
  BY DEF KeyTypes
<1>2. \A j : Stored(j)' <=> Stored(j)
  BY DEF Stored
<1>3. NoOverlap'
  BY <1>1 DEF NoOverlap, KeyOK, R!Initing, R!Importing
<1>4. OneStored' /\ HandedIsStored'
  BY <1>2 DEF OneStored, HandedIsStored, KeyOK
<1>5. ASSUME NEW q \in Commands PROVE ProcOK(q)'
  <2>1. ProcOK(q)
    BY DEF KeyOK
  <2>2. Maker(q)'
    BY <1>1, <2>1 DEF ProcOK, Maker
  <2>3. HeldIsStored(q)'
    BY <1>1, <1>2, <2>1 DEF ProcOK, HeldIsStored, Stored
  <2>4. DropsCopies(q)'
    BY <1>1, <2>1 DEF ProcOK, DropsCopies
  <2> QED  BY <2>2, <2>3, <2>4 DEF ProcOK
<1> QED  BY <1>3, <1>4, <1>5 DEF KeyOK

\* The same, with the key p has.
LEMMA NothingTaken ==
  ASSUME KeyTypes, KeyOK, NEW p \in Commands, NEW s,
         at' = [at EXCEPT ![p] = s], UNCHANGED <<key, keyFile, chain>>,
         s \in R!Initing => at[p] \in R!Initing,
         s \in R!Importing => at[p] \in R!Importing,
         s \in {"create", "readBack"} => chain = NoKey,
         s # "write",
         s \in Holding => Stored(key[p]),
         s \in {"token", "drop"} => chain = key[p],
         \A h \in handed' : h \in handed \/ Stored(h)
  PROVE  KeyOK'
<1>1. key' = [key EXCEPT ![p] = key[p]]
  BY DEF KeyTypes
<1> QED  BY <1>1, NothingWritten

\* tac runner init: the key is made where there is none, and by nobody else.
LEMMA InitStep ==
  ASSUME Names, KeyTypes, KeyOK, NEW p \in Commands,
         R!LookFirst(p) \/ R!Create(p) \/ R!WriteKey(p) \/ R!ReadBack(p)
  PROVE  KeyOK'
<1>0. ProcOK(p) /\ HandedIsStored
  BY DEF KeyOK
<1>1. CASE R!LookFirst(p)
  <2>1. CASE R!Refused(p, "init")
    BY <1>1, <2>1, NothingTaken DEF R!LookFirst, R!Refused, R!Step, R!Initing, R!Importing, Holding
  <2>2. CASE chain # NoKey /\ R!Step(p, "init", "off") /\ handed' = handed \cup {chain}
             /\ UNCHANGED key
    BY <1>1, <2>2, NothingTaken DEF R!LookFirst, R!Step, R!Initing, R!Importing, Holding, Stored
  <2>3. CASE chain = NoKey /\ R!Step(p, "init", "create") /\ UNCHANGED <<key, handed>>
    BY <1>1, <2>3, NothingTaken DEF R!LookFirst, R!Step, R!Initing, R!Importing, Holding
  <2> QED  BY <1>1, <2>1, <2>2, <2>3 DEF R!LookFirst
<1>2. CASE R!Create(p)
  <2>0. PICK k \in Keys : key' = [key EXCEPT ![p] = k]
    BY <1>2 DEF R!Create, R!Take
  <2>1. chain = NoKey /\ UNCHANGED <<chain, handed>> /\ at[p] = "create"
    BY <1>0, <1>2 DEF R!Create, R!Step, ProcOK, Maker
  <2>2. CASE keyFile = R!NoPem
    <3>1. at' = [at EXCEPT ![p] = "write"] /\ keyFile' = R!Torn(p)
      BY <1>2, <2>2 DEF R!Create, R!Step
    <3>2. \A j : Stored(j)' <=> Stored(j)
      BY <2>1, <2>2, <3>1, WholeIsItsKey DEF Stored
    <3>3. \A q \in Commands : /\ at'[q] = IF q = p THEN "write" ELSE at[q]
                           /\ key'[q] = IF q = p THEN k ELSE key[q]
      BY <2>0, <3>1 DEF KeyTypes
    <3>4. NoOverlap'
      BY <2>1, <3>3 DEF NoOverlap, KeyOK, R!Initing, R!Importing
    <3>5. OneStored' /\ HandedIsStored'
      BY <2>1, <3>2 DEF OneStored, HandedIsStored, KeyOK
    <3>6. ASSUME NEW q \in Commands PROVE ProcOK(q)'
      <4>1. ProcOK(q)
        BY DEF KeyOK
      <4>2. Maker(q)'
        BY <2>1, <2>2, <3>1, <3>3, <4>1, WholeIsItsKey DEF ProcOK, Maker
      <4>3. HeldIsStored(q)'
        BY <3>2, <3>3, <4>1 DEF ProcOK, HeldIsStored, Holding, Stored
      <4>4. DropsCopies(q)'
        BY <2>1, <3>3, <4>1 DEF ProcOK, DropsCopies
      <4> QED  BY <4>2, <4>3, <4>4 DEF ProcOK
    <3> QED  BY <3>4, <3>5, <3>6 DEF KeyOK
  <2>3. CASE keyFile # R!NoPem
    BY <1>2, <2>0, <2>1, <2>3, NothingWritten
       DEF R!Create, R!Step, R!Initing, R!Importing, Holding
  <2> QED  BY <2>2, <2>3
<1>3. CASE R!WriteKey(p)
  <2>1. /\ chain = NoKey /\ keyFile = R!Torn(p) /\ at[p] = "write" /\ key[p] \in Keys
        /\ UNCHANGED <<chain, key>> /\ at' = [at EXCEPT ![p] = "off"]
        /\ keyFile' = R!Whole(key[p]) /\ handed' = handed \cup {key[p]}
    BY <1>0, <1>3 DEF R!WriteKey, R!Step, ProcOK, Maker, KeyTypes
  <2>2. \A j \in Keys : ~Stored(j)
    BY <2>1, WholeIsItsKey DEF Stored, Names
  <2>3. \A j \in Keys : Stored(j)' <=> j = key[p]
    BY <2>1, WholeIsItsKey DEF Stored, Names
  <2>4. handed = {}
    BY <1>0, <2>2 DEF HandedIsStored, KeyTypes
  <2>5. \A q \in Commands : at[q] \notin Holding
    BY <2>2 DEF KeyOK, ProcOK, HeldIsStored, KeyTypes
  <2>6. \A q \in Commands : at'[q] = IF q = p THEN "off" ELSE at[q]
    BY <2>1 DEF KeyTypes
  <2>7. NoOverlap'
    BY <2>6 DEF NoOverlap, KeyOK, R!Initing, R!Importing
  <2>8. OneStored' /\ HandedIsStored'
    BY <2>1, <2>3, <2>4 DEF OneStored, HandedIsStored
  <2>9. ASSUME NEW q \in Commands PROVE ProcOK(q)'
    <3>1. ProcOK(q)
      BY DEF KeyOK
    <3>2. q # p => at[q] # "write"
      BY <2>1, <3>1 DEF ProcOK, Maker, R!Torn
    <3>3. Maker(q)'
      BY <2>1, <2>6, <3>1, <3>2 DEF ProcOK, Maker
    <3>4. HeldIsStored(q)' /\ DropsCopies(q)'
      BY <2>5, <2>6 DEF HeldIsStored, DropsCopies, Holding
    <3> QED  BY <3>3, <3>4 DEF ProcOK
  <2> QED  BY <2>7, <2>8, <2>9 DEF KeyOK
<1>4. CASE R!ReadBack(p)
  <2>1. CASE R!Refused(p, "readBack")
    BY <1>4, <2>1, NothingTaken DEF R!ReadBack, R!Refused, R!Step, R!Initing, R!Importing, Holding
  <2>2. CASE keyFile.is = "whole" /\ R!Step(p, "readBack", "off")
             /\ handed' = handed \cup {keyFile.key} /\ UNCHANGED key
    BY <1>4, <2>2, WholeFile, NothingTaken
       DEF R!ReadBack, R!Step, R!Initing, R!Importing, Holding, Stored
  <2> QED  BY <1>4, <2>1, <2>2 DEF R!ReadBack
<1> QED  BY <1>1, <1>2, <1>3, <1>4

\* tac runner keychain import: the keychain is given no key but the one there is, and
\* what leaves the file is in the keychain.
LEMMA ImportStep ==
  ASSUME Names, KeyTypes, KeyOK, NEW p \in Commands,
         \/ R!LookForFile(p) \/ R!TakeFile(p) \/ R!TakeChain(p) \/ R!Put(p)
         \/ R!Check(p) \/ R!StoreToken(p) \/ R!DropFile(p)
  PROVE  KeyOK'
<1> USE DEF R!Step, R!Initing, R!Importing, Holding
<1>0. ProcOK(p)
  BY DEF KeyOK
<1>1. CASE R!LookForFile(p)
  BY <1>1, NothingTaken DEF R!LookForFile
<1>2. CASE R!TakeFile(p)
  <2>1. CASE R!Refused(p, "take")
    BY <1>2, <2>1, NothingTaken DEF R!TakeFile, R!Refused
  <2>2. CASE ~R!Refused(p, "take")
    BY <1>2, <2>2, WholeFile, NothingWritten DEF R!TakeFile, R!Take, Stored
  <2> QED  BY <2>1, <2>2
<1>3. CASE R!TakeChain(p)
  <2>1. CASE R!Refused(p, "takeChain")
    BY <1>3, <2>1, NothingTaken DEF R!TakeChain, R!Refused
  <2>2. CASE ~R!Refused(p, "takeChain")
    BY <1>3, <2>2, NothingWritten DEF R!TakeChain, R!Take, Stored
  <2> QED  BY <2>1, <2>2
<1>4. CASE R!Put(p)
  <2>0. /\ key[p] \in Keys /\ Stored(key[p]) /\ UNCHANGED <<key, keyFile, handed>>
        /\ chain' \in {chain, key[p]}
    BY <1>0, <1>4 DEF R!Put, ProcOK, HeldIsStored, KeyTypes
  <2>1. chain = NoKey \/ chain = key[p]
    BY <2>0 DEF KeyOK, OneStored, Stored, KeyTypes
  <2>2. \A j \in Keys : Stored(j)' <=> Stored(j)
    BY <2>0, <2>1 DEF Stored, Names
  <2>3. PICK s \in {"check", "off"} : at' = [at EXCEPT ![p] = s]
    BY <1>4 DEF R!Put
  <2>4. \A q \in Commands : at'[q] = IF q = p THEN s ELSE at[q]
    BY <2>3 DEF KeyTypes
  <2>5. NoOverlap'
    BY <1>4, <2>4 DEF R!Put, NoOverlap, KeyOK
  <2>6. OneStored' /\ HandedIsStored'
    BY <2>0, <2>2 DEF OneStored, HandedIsStored, KeyOK, KeyTypes
  <2>7. ASSUME NEW q \in Commands PROVE ProcOK(q)'
    <3>1. ProcOK(q) /\ at[q] \notin R!Initing
      BY <1>4 DEF R!Put, KeyOK, NoOverlap
    <3>2. Maker(q)'
      BY <2>4, <3>1 DEF Maker
    <3>3. HeldIsStored(q)'
      <4> SUFFICES ASSUME at'[q] \in Holding PROVE Stored(key[q])'
        BY <2>0 DEF HeldIsStored, Stored
      <4>1. at[q] \in Holding
        BY <1>4, <2>4 DEF R!Put
      <4>2. key[q] \in Keys /\ Stored(key[q])
        BY <3>1, <4>1 DEF ProcOK, HeldIsStored, KeyTypes
      <4> QED  BY <2>0, <2>2, <4>2 DEF Stored
    <3>4. DropsCopies(q)'
      BY <2>0, <2>1, <2>4, <3>1 DEF ProcOK, DropsCopies, Names, KeyTypes
    <3> QED  BY <3>2, <3>3, <3>4 DEF ProcOK
  <2> QED  BY <2>5, <2>6, <2>7 DEF KeyOK
<1>5. CASE R!Check(p)
  <2>1. CASE R!Refused(p, "check")
    BY <1>5, <2>1, NothingTaken DEF R!Check, R!Refused
  <2>2. CASE ~R!Refused(p, "check")
    BY <1>5, <2>2, NothingTaken DEF R!Check, R!IsThere, Stored
  <2> QED  BY <2>1, <2>2
<1>6. CASE R!StoreToken(p)
  <2>1. CASE R!Refused(p, "token")
    BY <1>6, <2>1, NothingTaken DEF R!StoreToken, R!Refused
  <2>2. CASE ~R!Refused(p, "token")
    BY <1>0, <1>6, <2>2, NothingTaken DEF R!StoreToken, ProcOK, DropsCopies, Stored
  <2> QED  BY <2>1, <2>2
<1>7. CASE R!DropFile(p)
  <2>0. /\ key[p] \in Keys /\ chain = key[p] /\ UNCHANGED <<key, chain, handed>>
        /\ keyFile' = R!NoPem /\ at' = [at EXCEPT ![p] = "off"] /\ at[p] = "drop"
    BY <1>0, <1>7 DEF R!DropFile, ProcOK, DropsCopies, KeyTypes
  <2>1. \A j \in Keys : Stored(j)' <=> j = key[p]
    BY <2>0, WholeIsItsKey DEF Stored
  <2>2. \A j \in Keys : Stored(j) => j = key[p]
    BY <2>0 DEF KeyOK, OneStored, Stored
  <2>3. \A q \in Commands : at'[q] = IF q = p THEN "off" ELSE at[q]
    BY <2>0 DEF KeyTypes
  <2>4. NoOverlap'
    BY <2>3 DEF NoOverlap, KeyOK
  <2>5. OneStored'
    BY <2>1 DEF OneStored
  <2>6. HandedIsStored'
    BY <2>0, <2>1, <2>2 DEF HandedIsStored, KeyOK, KeyTypes, Stored
  <2>7. ASSUME NEW q \in Commands PROVE ProcOK(q)'
    <3>1. ProcOK(q) /\ at[q] \notin R!Initing
      BY <2>0 DEF KeyOK, NoOverlap
    <3>2. Maker(q)'
      BY <2>3, <3>1 DEF Maker
    <3>3. HeldIsStored(q)'
      <4> SUFFICES ASSUME at'[q] \in Holding PROVE chain = key[q]
        BY <2>0 DEF HeldIsStored, Stored
      <4>1. key[q] \in Keys /\ Stored(key[q])
        BY <2>3, <3>1 DEF ProcOK, HeldIsStored, KeyTypes
      <4> QED  BY <2>0, <2>2, <4>1
    <3>4. DropsCopies(q)'
      BY <2>0, <2>3, <3>1 DEF ProcOK, DropsCopies
    <3> QED  BY <3>2, <3>3, <3>4 DEF ProcOK
  <2> QED  BY <2>4, <2>5, <2>6, <2>7 DEF KeyOK
<1> QED  BY <1>1, <1>2, <1>3, <1>4, <1>5, <1>6, <1>7

\* tac runner serve: a server signs with the key it read.
LEMMA ServeStep ==
  ASSUME KeyTypes, KeyOK, NEW p \in Commands,
         \/ R!LoadChain(p) \/ R!LoadFile(p) \/ R!Lock(p) \/ R!Unlink(p) \/ R!Bind(p)
         \/ R!Stop(p) \/ R!Closes(p) \/ R!Kill(p)
  PROVE  KeyOK'
<1> USE DEF R!Step, R!Initing, R!Importing, Holding
<1>0. ProcOK(p)
  BY DEF KeyOK
<1>1. CASE R!LoadChain(p)
  <2>1. CASE chain # NoKey /\ R!Step(p, "serve", "lock") /\ R!Take(p, chain) /\ UNCHANGED handed
    BY <1>1, <2>1, NothingWritten DEF R!LoadChain, R!Take, Stored
  <2>2. CASE R!Refused(p, "serve")
    BY <1>1, <2>2, NothingTaken DEF R!LoadChain, R!Refused
  <2>3. CASE R!Step(p, "serve", "loadFile") /\ UNCHANGED <<key, handed>>
    BY <1>1, <2>3, NothingTaken DEF R!LoadChain
  <2> QED  BY <1>1, <2>1, <2>2, <2>3 DEF R!LoadChain
<1>2. CASE R!LoadFile(p)
  <2>1. CASE R!Refused(p, "loadFile")
    BY <1>2, <2>1, NothingTaken DEF R!LoadFile, R!Refused
  <2>2. CASE ~R!Refused(p, "loadFile")
    BY <1>2, <2>2, WholeFile, NothingWritten DEF R!LoadFile, R!Take, Stored
  <2> QED  BY <2>1, <2>2
<1>3. CASE R!Lock(p)
  <2>1. PICK s \in {"unlink", "off"} : at' = [at EXCEPT ![p] = s] /\ at[p] = "lock"
    BY <1>3 DEF R!Lock
  <2> QED  BY <1>0, <1>3, <2>1, NothingTaken DEF R!Lock, R!Store, ProcOK, HeldIsStored
<1>4. CASE R!Unlink(p)
  BY <1>0, <1>4, NothingTaken DEF R!Unlink, R!Store, ProcOK, HeldIsStored
<1>5. CASE R!Bind(p)
  <2>1. PICK s \in {"serving", "off"} : at' = [at EXCEPT ![p] = s] /\ at[p] = "bind"
    BY <1>5 DEF R!Bind
  <2>2. \A h \in handed' : h \in handed \/ Stored(h)
    BY <1>0, <1>5, <2>1 DEF R!Bind, ProcOK, HeldIsStored
  <2> QED  BY <1>5, <2>1, <2>2, NothingTaken DEF R!Bind, R!Store
<1>6. CASE R!Stop(p)
  BY <1>6, NothingTaken DEF R!Stop, R!Store
<1>7. CASE R!Closes(p)
  <2>1. PICK s \in {"closed", "off"} : at' = [at EXCEPT ![p] = s]
    BY <1>7 DEF R!Closes, R!Close
  <2> QED  BY <1>7, <2>1, NothingTaken DEF R!Closes, R!Store
<1>8. CASE R!Kill(p)
  BY <1>8, NothingTaken DEF R!Kill, R!Store
<1> QED  BY <1>1, <1>2, <1>3, <1>4, <1>5, <1>6, <1>7, <1>8

LEMMA KeyStep == ASSUME Names, KeyInv, [R!Next]_(R!vars) PROVE KeyInv'
<1>1. KeyTypes /\ KeyTypes'
  BY KeyTypesStep DEF KeyInv
<1> SUFFICES ASSUME ~mixed' PROVE KeyOK'
  BY <1>1 DEF KeyInv
<1>2. mixed' = mixed \/ \E p \in Commands, c \in {"init", "import", "serve"} : R!Start(p, c)
  BY DEF R!Next, R!vars, R!counts, R!LookFirst, R!Create, R!WriteKey, R!ReadBack, R!LookForFile, R!TakeFile,
         R!TakeChain, R!Put, R!Check, R!StoreToken, R!DropFile, R!LoadChain, R!LoadFile, R!Lock, R!Unlink, R!Bind,
         R!Stop, R!Closes, R!Kill, R!Store
<1>3. mixed' = mixed => KeyOK
  BY DEF KeyInv
<1>4. ASSUME NEW p \in Commands, NEW c \in {"init", "import", "serve"}, R!Start(p, c)
      PROVE  KeyOK'
  <2>1. KeyOK
    BY <1>4 DEF R!Start, KeyInv
  <2>2. c = "init" => \A q \in Commands \ {p} : at[q] \notin R!Importing
    BY <1>4 DEF R!Start
  <2>3. c = "import" => \A q \in Commands \ {p} : at[q] \notin R!Initing
    BY <1>4 DEF R!Start
  <2> QED
    BY <1>1, <1>4, <2>1, <2>2, <2>3, NothingWritten
       DEF R!Start, R!Step, R!Take, R!Initing, R!Importing, Holding
<1>5. CASE UNCHANGED R!vars
  <2>1. KeyOK
    BY <1>3, <1>5 DEF R!vars
  <2> QED
    BY <1>5, <2>1 DEF R!vars, KeyOK, NoOverlap, OneStored, HandedIsStored, Stored, ProcOK,
                      Maker, HeldIsStored, DropsCopies
<1>6. CASE R!Next /\ mixed' = mixed
  BY <1>1, <1>3, <1>4, <1>6, InitStep, ImportStep, ServeStep DEF R!Next
<1> QED  BY <1>2, <1>4, <1>5, <1>6

LEMMA KeyKept == ASSUME Names PROVE R!Spec => []OneKey
<1>1. R!Init => KeyInv
  BY KeyInit
<1>2. KeyInv /\ [R!Next]_(R!vars) => KeyInv'
  BY KeyStep
<1>3. KeyInv => OneKey
  BY KeyGivesOneKey DEF OneKey
<1> QED  BY <1>1, <1>2, <1>3, PTL DEF R!Spec

\* runner.py, create_key: over any number of inits, imports and servers, killed at any
\* step, and a keychain that fails having written or not: every key an owner was given
\* to trust, or that signed, is one key, and it is still there to be read, as long as
\* no init and import overlapped.
THEOREM OneKeyForEver == ASSUME Names PROVE HostSpec => []OneKey
  BY PartsAreThemselves, KeyKept, PTL

-----------------------------------------------------------------------------
(* GitHub *)

CallStates ==
  [at : {"idle", "identity", "find", "put", "post", "list", "branch", "fetch"},
   viewer : S!Viewers, todo : SUBSET Ids, branch : Branches,
   failed : BOOLEAN, unknown : BOOLEAN, covered : BOOLEAN,
   said : {"nothing", "holds", "fails", "unknown", "refused"},
   since : Nat, id : Ids \cup {NoRuleset}]

SettingsTypes ==
  /\ rulesets \in [Ids -> S!Settings \cup {NoRuleset}]
  /\ default \in Branches
  /\ call \in CallStates
  /\ gateHeld \in BOOLEAN /\ gateFailed \in BOOLEAN

\* Nothing was read yet that decides the answer.
Clear == ~call.covered /\ ~call.unknown /\ ~call.failed

\* The branch that what is still to be read will be held to.
JudgedFor == IF call.at = "fetch" THEN call.branch ELSE default
HoldsNow(i) == S!Holds(rulesets[i])
CoversNow(i, branch) == S!Covers(rulesets[i], branch)

\* As long as nothing changed, what was listed is what enforces, and history has it.
FreshLook ==
  S!Judging /\ call.since = 0 =>
    /\ call.todo \subseteq S!Active
    /\ S!Gate => gateHeld
    /\ ~S!AllHold => gateFailed
    /\ call.at = "branch" => call.todo = S!Active
    /\ call.at = "fetch" => call.branch = default
    /\ Clear => \A j \in S!Active \ call.todo : ~CoversNow(j, default)

\* One change cannot make an answer false: whatever a ruleset still to be read will
\* say, now or then was true.
OneChange ==
  S!Judging /\ call.since <= 1 =>
    /\ call.viewer = "owner" /\ call.covered => gateHeld
    /\ \A i \in call.todo \cap S!There :
         /\ HoldsNow(i) /\ CoversNow(i, JudgedFor) => gateHeld
         /\ ~HoldsNow(i) => gateFailed
    /\ call.viewer # "collaborator" /\ call.failed => gateFailed
    /\ Clear => \/ gateFailed
                \/ \E i \in call.todo : i \notin S!There \/ CoversNow(i, JudgedFor)

CallOK ==
  /\ call.at # "idle" => call.said = "nothing"
  /\ call.at \notin {"idle", "fetch"} => Clear
  /\ call.at \notin {"idle", "branch", "fetch"} => call.since = 0
  /\ S!Judging /\ call.covered /\ ~call.failed /\ ~call.unknown => call.viewer = "owner"

SettingsInv == SettingsTypes /\ FreshLook /\ OneChange /\ CallOK /\ S!ReportIsTrue

LEMMA SettingsInit == ASSUME S!Init PROVE SettingsInv
<1>1. S!Desired \in S!Settings /\ [S!Desired EXCEPT !.ours = FALSE, !.covers = "elsewhere"] \in S!Settings
  BY DEF S!Settings, S!Desired
<1>3. rulesets \in [Ids -> S!Settings \cup {NoRuleset}]
  BY <1>1 DEF S!Init
<1>4. call \in CallStates
  BY DEF S!Init, CallStates, S!Idle, S!Viewers
<1>5. SettingsTypes
  BY <1>3, <1>4 DEF S!Init, SettingsTypes
<1>2. call.at = "idle" /\ call.said = "nothing"
  BY DEF S!Init, S!Idle
<1> QED
  BY <1>5, <1>2 DEF SettingsInv, FreshLook, OneChange, CallOK, S!Judging, S!ReportIsTrue

SameReading ==
  /\ call'.at = call.at /\ call'.viewer = call.viewer /\ call'.said = call.said
  /\ call'.todo = call.todo /\ call'.branch = call.branch
  /\ call'.failed = call.failed /\ call'.unknown = call.unknown
  /\ call'.covered = call.covered

\* A change by hand is counted, and what the gate is after it enters history.
LEMMA EditIsCounted ==
  ASSUME SettingsTypes, S!Edited
  PROVE  /\ (S!Judging' <=> S!Judging)
         /\ SameReading
         /\ call'.since = IF S!Judging THEN call.since + 1 ELSE call.since
         /\ call' \in CallStates
         /\ gateHeld' \in BOOLEAN /\ gateFailed' \in BOOLEAN
         /\ (gateHeld => gateHeld') /\ (gateFailed => gateFailed')
         /\ S!Judging /\ S!Gate' => gateHeld'
         /\ S!Judging /\ ~S!AllHold' => gateFailed'
<1>1. call' = IF S!Judging THEN [call EXCEPT !.since = @ + 1] ELSE call
  BY DEF S!Edited
<1>2. SameReading
  BY <1>1 DEF SameReading, SettingsTypes, CallStates
<1>3. /\ call'.since = IF S!Judging THEN call.since + 1 ELSE call.since
      /\ call' \in CallStates
  BY <1>1 DEF SettingsTypes, CallStates
<1>4. S!Judging' <=> S!Judging
  BY <1>2 DEF SameReading, S!Judging
<1>5. /\ gateHeld' = (gateHeld \/ (S!Judging /\ S!Gate'))
      /\ gateFailed' = (gateFailed \/ (S!Judging /\ ~S!AllHold'))
  BY DEF S!Edited, S!Watched
<1>6. gateHeld' \in BOOLEAN /\ gateFailed' \in BOOLEAN
  BY <1>5 DEF SettingsTypes
<1>7. /\ (gateHeld => gateHeld') /\ (gateFailed => gateFailed')
      /\ S!Judging /\ S!Gate' => gateHeld'
      /\ S!Judging /\ ~S!AllHold' => gateFailed'
  BY <1>5
<1> QED  BY <1>2, <1>3, <1>4, <1>6, <1>7

\* What holds of a judgement that saw no change or one, after the first change.
EditKeeps ==
  S!Judging /\ call.since = 0 =>
    /\ \A i \in call.todo \cap S!There' :
         /\ HoldsNow(i)' /\ CoversNow(i, JudgedFor)' => gateHeld'
         /\ ~HoldsNow(i)' => gateFailed'
    /\ Clear => \/ gateFailed'
                \/ \E i \in call.todo : i \notin S!There' \/ CoversNow(i, JudgedFor)'

LEMMA EditIsSeen ==
  ASSUME SettingsInv, S!Edited, EditKeeps,
         rulesets' \in [Ids -> S!Settings \cup {NoRuleset}], default' \in Branches
  PROVE  SettingsInv'
<1> USE DEF SettingsInv
<1>1. SettingsTypes'
  BY EditIsCounted DEF SameReading, SettingsTypes
<1>2. CallOK'
  BY EditIsCounted DEF SameReading, CallOK, Clear, S!Judging
<1>6. S!ReportIsTrue'
  <2>1. CASE call.at = "idle"
    BY <2>1, EditIsCounted DEF SameReading, S!ReportIsTrue, S!Judging
  <2>2. CASE call.at # "idle"
    BY <2>2, EditIsCounted DEF SameReading, S!ReportIsTrue, CallOK
  <2> QED  BY <2>1, <2>2
<1>3. FreshLook'
  BY EditIsCounted DEF SameReading, FreshLook, SettingsTypes, CallStates
<1>4. ASSUME S!Judging, call.since = 0 PROVE OneChange'
  BY <1>4, EditIsCounted DEF SameReading, OneChange, EditKeeps, Clear
<1>5. OneChange'
  BY <1>4, EditIsCounted DEF SameReading, OneChange, SettingsTypes, CallStates
<1> QED  BY <1>1, <1>2, <1>3, <1>5, <1>6

\* A ruleset is changed in one setting, or comes or goes: the others stay, and its
\* enforcement does, or all that it asks for.
OnlyOne(i) ==
  /\ \A j \in Ids \ {i} : rulesets'[j] = rulesets[j]
  /\ i \in S!There /\ i \in S!There' =>
       \/ rulesets'[i].active = rulesets[i].active
       \/ /\ HoldsNow(i)' = HoldsNow(i)
          /\ \A b \in Branches : CoversNow(i, b)' = CoversNow(i, b)

LEMMA RulesetEditIsSeen ==
  ASSUME SettingsInv, S!Edited, NEW i \in Ids, OnlyOne(i), UNCHANGED default,
         rulesets' \in [Ids -> S!Settings \cup {NoRuleset}]
  PROVE  SettingsInv'
<1> SUFFICES ASSUME S!Judging, call.since = 0 PROVE EditKeeps
  BY EditIsSeen DEF EditKeeps, SettingsInv, SettingsTypes
<1> USE DEF HoldsNow
<1>0. /\ call.todo \subseteq S!Active /\ S!Active \subseteq S!There /\ S!There \subseteq Ids
      /\ JudgedFor = default /\ JudgedFor' = default /\ default \in Branches
      /\ call.at = "branch" => call.todo = S!Active
  BY EditIsCounted DEF SameReading, SettingsInv, FreshLook, JudgedFor, S!Judging, S!Active, S!There,
                       SettingsTypes
\* What is still to be read enforced when it was listed; it does now, or is the one that
\* was switched off and asks for the same.
<1>1. ASSUME NEW j \in call.todo \cap S!There', j \notin S!Active'
      PROVE  /\ HoldsNow(j)' = HoldsNow(j)
             /\ CoversNow(j, default)' = CoversNow(j, default)
  <2>1. j \in S!Active /\ j \in S!There /\ j \in Ids
    BY <1>0
  <2>2. rulesets[j].active /\ ~rulesets'[j].active
    BY <1>1, <2>1 DEF S!Active
  <2>3. j = i
    BY <2>1, <2>2 DEF OnlyOne
  <2> QED  BY <1>0, <1>1, <2>1, <2>2, <2>3 DEF OnlyOne
<1>2. ASSUME NEW j \in call.todo \cap S!There', HoldsNow(j)', CoversNow(j, JudgedFor)'
      PROVE  gateHeld'
  <2>1. CASE j \in S!Active'
    BY <1>0, <1>2, <2>1, EditIsCounted DEF SameReading, S!Gate, CoversNow, SettingsInv
  <2>2. CASE j \notin S!Active'
    <3>1. HoldsNow(j) /\ CoversNow(j, default) /\ j \in S!Active
      BY <1>0, <1>1, <1>2, <2>2
    <3>2. gateHeld
      BY <3>1 DEF S!Gate, CoversNow, SettingsInv, FreshLook
    <3> QED  BY <3>2, EditIsCounted DEF SameReading, SettingsInv
  <2> QED  BY <2>1, <2>2
<1>3. ASSUME NEW j \in call.todo \cap S!There', ~HoldsNow(j)'
      PROVE  gateFailed'
  <2>1. CASE j \in S!Active'
    BY <1>3, <2>1, EditIsCounted DEF SameReading, S!AllHold, SettingsInv
  <2>2. CASE j \notin S!Active'
    <3>1. ~HoldsNow(j) /\ j \in S!Active
      BY <1>0, <1>1, <1>3, <2>2
    <3>2. gateFailed
      BY <3>1 DEF S!AllHold, SettingsInv, FreshLook
    <3> QED  BY <3>2, EditIsCounted DEF SameReading, SettingsInv
  <2> QED  BY <2>1, <2>2
<1>4. ASSUME Clear, ~gateFailed',
             \A j \in call.todo : j \in S!There' /\ ~CoversNow(j, JudgedFor)'
      PROVE  FALSE
  <2>1. ~gateFailed
    BY <1>4, EditIsCounted DEF SameReading, SettingsInv
  <2>2. PICK j \in call.todo : CoversNow(j, default)
    BY <1>0, <1>4, <2>1 DEF SettingsInv, OneChange
  <2>3. j = i
    BY <1>0, <1>4, <2>2 DEF OnlyOne, CoversNow
  <2>4. ASSUME NEW k \in S!Active', CoversNow(k, default)' PROVE FALSE
    <3>1. k \notin call.todo /\ k \in Ids /\ k # i
      BY <1>0, <1>4, <2>3, <2>4 DEF S!Active, S!There
    <3>2. rulesets'[k] = rulesets[k]
      BY <3>1 DEF OnlyOne
    <3>3. k \in S!Active \ call.todo /\ CoversNow(k, default)
      BY <2>4, <3>1, <3>2 DEF S!Active, S!There, CoversNow
    <3> QED  BY <1>4, <3>3 DEF SettingsInv, FreshLook
  <2>5. ~S!AllHold'
    BY <2>4 DEF S!AllHold, S!Gate, CoversNow
  <2> QED  BY <1>4, <2>5, EditIsCounted DEF SameReading, SettingsInv
<1> QED  BY <1>2, <1>3, <1>4 DEF EditKeeps

LEMMA RenameIsSeen ==
  ASSUME SettingsInv, S!Edited, UNCHANGED rulesets, default' \in Branches
  PROVE  SettingsInv'
<1> SUFFICES ASSUME S!Judging, call.since = 0 PROVE EditKeeps
  BY EditIsSeen DEF EditKeeps, SettingsInv, SettingsTypes
<1>0. /\ call.todo \subseteq S!Active
      /\ S!Active' = S!Active /\ S!There' = S!There
      /\ \A j : HoldsNow(j)' = HoldsNow(j)
      /\ \A j, b : S!Covers(rulesets'[j], b) = S!Covers(rulesets[j], b)
      /\ call'.at = call.at /\ call'.branch = call.branch
  BY EditIsCounted DEF SameReading, SettingsInv, FreshLook, S!Active, S!There, HoldsNow
<1>1. ASSUME NEW j \in call.todo \cap S!There', ~HoldsNow(j)' PROVE gateFailed'
  BY <1>0, <1>1, EditIsCounted DEF SameReading, SettingsInv, OneChange, SettingsTypes, CallStates
<1>2. CASE call.at = "fetch"
  <2>1. JudgedFor' = JudgedFor
    BY <1>0, <1>2 DEF JudgedFor
  <2> QED
    BY <1>0, <1>1, <2>1, EditIsCounted
       DEF SameReading, EditKeeps, SettingsInv, OneChange, CoversNow, SettingsTypes, CallStates
<1>3. CASE call.at = "branch"
  <2>1. JudgedFor' = default' /\ call.todo = S!Active'
    BY <1>0, <1>3 DEF JudgedFor, SettingsInv, FreshLook
  <2>2. \A j \in call.todo : HoldsNow(j)' /\ CoversNow(j, JudgedFor)' => S!Gate'
    BY <1>0, <2>1 DEF S!Gate, HoldsNow, CoversNow
  <2>3. (\A j \in call.todo : ~CoversNow(j, JudgedFor)') => ~S!AllHold'
    BY <1>0, <2>1 DEF S!AllHold, S!Gate, CoversNow
  <2> QED  BY <1>1, <2>2, <2>3, EditIsCounted DEF SameReading, EditKeeps, SettingsInv
<1> QED  BY <1>2, <1>3 DEF S!Judging

LEMMA EditsAreSeen ==
  ASSUME SettingsInv,
         S!EditRuleset \/ S!AddRuleset \/ S!DeleteRuleset \/ S!RenameDefault
  PROVE  SettingsInv'
<1>0. rulesets \in [Ids -> S!Settings \cup {NoRuleset}]
  BY DEF SettingsInv, SettingsTypes
<1>1. CASE S!EditRuleset
  <2>1. PICK i \in Ids, s \in S!Settings :
          /\ rulesets[i] # NoRuleset /\ S!OneSetting(rulesets[i], s)
          /\ rulesets' = [rulesets EXCEPT ![i] = s]
    BY <1>1 DEF S!EditRuleset
  <2>2. rulesets[i] \in S!Settings /\ rulesets'[i] = s
    BY <1>0, <2>1
  <2>3. \/ s.active = rulesets[i].active
        \/ /\ s.bypass = rulesets[i].bypass /\ s.strict = rulesets[i].strict
           /\ s.covers = rulesets[i].covers
    BY <2>1, <2>2 DEF S!OneSetting, S!Settings
  <2>4. OnlyOne(i)
    BY <1>0, <2>1, <2>2, <2>3 DEF OnlyOne, HoldsNow, CoversNow, S!Holds, S!Covers
  <2> QED  BY <1>0, <1>1, <2>1, <2>4, RulesetEditIsSeen DEF S!EditRuleset
<1>2. CASE S!AddRuleset
  <2>0. [S!Desired EXCEPT !.ours = FALSE] \in S!Settings
    BY DEF S!Desired, S!Settings
  <2>1. PICK i \in Ids \ S!There :
          rulesets' = [rulesets EXCEPT ![i] = [S!Desired EXCEPT !.ours = FALSE]]
    BY <1>2 DEF S!AddRuleset
  <2>2. OnlyOne(i)
    BY <1>0, <2>1 DEF OnlyOne
  <2>3. rulesets' \in [Ids -> S!Settings \cup {NoRuleset}]
    BY <1>0, <2>0, <2>1
  <2> QED  BY <1>2, <2>2, <2>3, RulesetEditIsSeen DEF S!AddRuleset
<1>3. CASE S!DeleteRuleset
  <2>1. PICK i \in Ids : rulesets' = [rulesets EXCEPT ![i] = NoRuleset]
    BY <1>3 DEF S!DeleteRuleset, S!There
  <2>2. OnlyOne(i) /\ rulesets' \in [Ids -> S!Settings \cup {NoRuleset}]
    BY <1>0, <2>1 DEF OnlyOne, S!There
  <2> QED  BY <1>3, <2>2, RulesetEditIsSeen DEF S!DeleteRuleset
<1>4. CASE S!RenameDefault
  BY <1>4, RenameIsSeen DEF S!RenameDefault
<1> QED  BY <1>1, <1>2, <1>3, <1>4

\* A command that is not judging has nothing to be wrong about.
LEMMA NotJudging ==
  ASSUME SettingsTypes', CallOK', ~S!Judging', S!ReportIsTrue'
  PROVE  SettingsInv'
  BY DEF SettingsInv, FreshLook, OneChange

\* An answer is given where the call ends.
LEMMA SaysIsOver ==
  ASSUME SettingsInv, NEW word \in {"fails", "holds", "unknown", "refused"}, S!Says(word)
  PROVE  /\ call' \in CallStates /\ CallOK' /\ ~S!Judging'
         /\ call'.said = word /\ call'.viewer = call.viewer /\ call'.since = call.since
  BY DEF S!Says, SettingsInv, SettingsTypes, CallStates, CallOK, S!Judging

LEMMA BeforeTheList ==
  ASSUME SettingsInv, \/ S!Apply \/ S!Doctor \/ S!Identity \/ S!Find \/ S!Put \/ S!Post
  PROVE  SettingsInv'
<1> USE DEF S!Seen, S!Remote
<1>0. SettingsTypes /\ CallOK
  BY DEF SettingsInv
\* The call goes to a step before the list, or the command is refused.
<1>1. ASSUME call' \in CallStates, rulesets' \in [Ids -> S!Settings \cup {NoRuleset}],
             UNCHANGED <<default, gateHeld, gateFailed>>,
             call'.said = "nothing", call'.at \in {"identity", "find", "put", "post", "list"},
             Clear', call'.since = 0
      PROVE  SettingsInv'
  <2>1. SettingsTypes' /\ CallOK' /\ ~S!Judging' /\ S!ReportIsTrue'
    BY <1>0, <1>1 DEF SettingsTypes, CallOK, S!Judging, S!ReportIsTrue
  <2> QED  BY <2>1, NotJudging
<1>2. ASSUME S!Says("refused"), rulesets' \in [Ids -> S!Settings \cup {NoRuleset}],
             UNCHANGED <<default, gateHeld, gateFailed>>
      PROVE  SettingsInv'
  <2>1. SettingsTypes' /\ CallOK' /\ ~S!Judging' /\ S!ReportIsTrue'
    BY <1>0, <1>2, SaysIsOver DEF SettingsTypes, S!ReportIsTrue
  <2> QED  BY <2>1, NotJudging
\* A step from before the list goes on with the reading as it is.
<1>3. ASSUME NEW step \in {"find", "put", "post", "list"}, NEW i \in Ids \cup {NoRuleset},
             call.at \in {"identity", "find", "put", "post"},
             call' = [call EXCEPT !.at = step, !.id = i]
      PROVE  /\ call' \in CallStates /\ call'.said = "nothing" /\ call'.at = step
             /\ Clear' /\ call'.since = 0
  BY <1>0, <1>3 DEF SettingsTypes, CallStates, CallOK, Clear
<1>4. ASSUME NEW step \in {"identity", "list"}, NEW viewer \in S!Viewers, S!Begin(step, viewer)
      PROVE  SettingsInv'
  <2>1. /\ call' \in CallStates /\ call'.said = "nothing" /\ call'.at = step
        /\ Clear' /\ call'.since = 0
    BY <1>0, <1>4 DEF S!Begin, S!Idle, SettingsTypes, CallStates, Clear
  <2> QED  BY <1>0, <1>1, <1>4, <2>1 DEF S!Begin, SettingsTypes
<1>5. CASE S!Apply \/ S!Doctor
  BY <1>4, <1>5 DEF S!Apply, S!Doctor, S!Viewers
<1>6. CASE S!Identity
  <2>1. CASE S!Says("refused")
    BY <1>0, <1>2, <1>6, <2>1 DEF S!Identity, SettingsTypes
  <2>2. CASE call' = [call EXCEPT !.at = "find"]
    <3>1. call' = [call EXCEPT !.at = "find", !.id = call.id] /\ call.id \in Ids \cup {NoRuleset}
      BY <1>0, <2>2 DEF SettingsTypes, CallStates
    <3> QED  BY <1>0, <1>1, <1>3, <1>6, <3>1 DEF S!Identity, SettingsTypes
  <2> QED  BY <1>6, <2>1, <2>2 DEF S!Identity
<1>7. CASE S!Find
  <2>1. CASE S!Says("refused")
    BY <1>0, <1>2, <1>7, <2>1 DEF S!Find, SettingsTypes
  <2>2. ASSUME NEW i \in Ids, call' = [call EXCEPT !.at = "put", !.id = i] PROVE SettingsInv'
    BY <1>0, <1>1, <1>3, <1>7, <2>2 DEF S!Find, SettingsTypes
  <2>3. CASE call' = [call EXCEPT !.at = "post"]
    <3>1. call' = [call EXCEPT !.at = "post", !.id = call.id] /\ call.id \in Ids \cup {NoRuleset}
      BY <1>0, <2>3 DEF SettingsTypes, CallStates
    <3> QED  BY <1>0, <1>1, <1>3, <1>7, <3>1 DEF S!Find, SettingsTypes
  <2> QED  BY <1>7, <2>1, <2>2, <2>3 DEF S!Find, S!There
<1>8. ASSUME call.at \in {"put", "post"}, (\E i \in Ids : S!Write(i)) \/ S!Nothing,
             UNCHANGED <<default, gateHeld, gateFailed>>
      PROVE  SettingsInv'
  <2>1. rulesets' \in [Ids -> S!Settings \cup {NoRuleset}]
    <3> S!Desired \in S!Settings
      BY DEF S!Desired, S!Settings
    <3> QED  BY <1>0, <1>8 DEF S!Write, S!Nothing, SettingsTypes
  <2>2. CASE S!Says("refused")
    BY <1>2, <1>8, <2>1, <2>2
  <2>3. CASE call' = [call EXCEPT !.at = "list"]
    <3>1. call' = [call EXCEPT !.at = "list", !.id = call.id] /\ call.id \in Ids \cup {NoRuleset}
      BY <1>0, <2>3 DEF SettingsTypes, CallStates
    <3> QED  BY <1>1, <1>3, <1>8, <2>1, <3>1
  <2> QED  BY <1>8, <2>2, <2>3 DEF S!Write, S!Nothing
<1>9. CASE S!Put \/ S!Post
  BY <1>8, <1>9 DEF S!Put, S!Post, S!There
<1> QED  BY <1>5, <1>6, <1>7, <1>9

\* judge_rulesets: the list is what history begins with.
LEMMA ListIsFresh == ASSUME SettingsInv, S!List PROVE SettingsInv'
<1>0. /\ SettingsTypes /\ CallOK /\ call.at = "list" /\ UNCHANGED <<rulesets, default>>
      /\ (gateHeld' <=> S!Gate) /\ (gateFailed' <=> ~S!AllHold)
      /\ gateHeld' \in BOOLEAN /\ gateFailed' \in BOOLEAN
  BY DEF S!List, S!Remote, SettingsInv, S!Gate, S!AllHold
<1>1. call.since = 0 /\ Clear
  BY <1>0 DEF CallOK
<1>2. CASE S!Says("unknown")
  <2>1. SettingsTypes' /\ CallOK' /\ ~S!Judging' /\ S!ReportIsTrue'
    BY <1>0, <1>2, SaysIsOver DEF SettingsTypes, S!ReportIsTrue
  <2> QED  BY <2>1, NotJudging
<1>3. CASE S!Active = {} /\ S!Says("fails")
  <2>1. gateFailed'
    BY <1>0, <1>3 DEF S!Gate, S!AllHold
  <2>2. SettingsTypes' /\ CallOK' /\ ~S!Judging' /\ S!ReportIsTrue'
    BY <1>0, <1>3, <2>1, SaysIsOver DEF SettingsTypes, S!ReportIsTrue
  <2> QED  BY <2>2, NotJudging
<1>4. CASE S!Active # {} /\ call' = [call EXCEPT !.at = "branch", !.todo = S!Active]
  <2>1. /\ call' \in CallStates /\ call'.at = "branch" /\ call'.todo = S!Active
        /\ call'.since = 0 /\ Clear' /\ call'.said = "nothing"
    BY <1>0, <1>1, <1>4 DEF SettingsTypes, CallStates, CallOK, Clear, S!Active, S!There
  <2>2. /\ S!Active' = S!Active /\ (S!Gate' <=> S!Gate) /\ (S!AllHold' <=> S!AllHold)
        /\ S!There' = S!There /\ JudgedFor' = default
        /\ \A i : (HoldsNow(i)' <=> HoldsNow(i)) /\ CoversNow(i, default)' = CoversNow(i, default)
    BY <1>0, <2>1 DEF S!Active, S!There, S!Gate, S!AllHold, JudgedFor, HoldsNow, CoversNow
  <2>3. SettingsTypes' /\ CallOK' /\ S!ReportIsTrue'
    BY <1>0, <2>1 DEF SettingsTypes, CallOK, S!ReportIsTrue, Clear
  <2>4. FreshLook'
    BY <1>0, <2>1, <2>2 DEF FreshLook
  <2>5. \A i \in S!Active : /\ HoldsNow(i) /\ CoversNow(i, default) => S!Gate
                            /\ ~HoldsNow(i) => ~S!AllHold
    BY DEF S!Gate, S!AllHold, HoldsNow, CoversNow
  <2>6. ~S!AllHold \/ \E i \in S!Active : CoversNow(i, default)
    BY DEF S!Gate, S!AllHold, CoversNow
  <2>7. OneChange'
    BY <1>0, <2>1, <2>2, <2>5, <2>6 DEF OneChange, Clear, CoversNow
  <2> QED  BY <2>3, <2>4, <2>7 DEF SettingsInv
<1> QED  BY <1>2, <1>3, <1>4 DEF S!List

LEMMA BranchIsRead == ASSUME SettingsInv, S!DefaultBranch PROVE SettingsInv'
<1>0. /\ SettingsTypes /\ CallOK /\ call.at = "branch" /\ S!Judging
      /\ UNCHANGED <<rulesets, default, gateHeld, gateFailed>>
  BY DEF S!DefaultBranch, S!Remote, S!Seen, SettingsInv, S!Judging
<1>1. CASE S!Says("unknown")
  <2>1. SettingsTypes' /\ CallOK' /\ ~S!Judging' /\ S!ReportIsTrue'
    BY <1>0, <1>1, SaysIsOver DEF SettingsTypes, S!ReportIsTrue
  <2> QED  BY <2>1, NotJudging
<1>2. CASE call' = [call EXCEPT !.at = "fetch", !.branch = default]
  <2>1. /\ call' \in CallStates /\ call'.at = "fetch" /\ call'.branch = default
        /\ UNCHANGED <<call.todo, call.since, call.said, call.viewer, call.failed,
                       call.unknown, call.covered>>
    BY <1>0, <1>2 DEF SettingsTypes, CallStates
  <2>2. /\ S!Active' = S!Active /\ (S!Gate' <=> S!Gate) /\ (S!AllHold' <=> S!AllHold)
        /\ S!There' = S!There /\ JudgedFor' = JudgedFor /\ JudgedFor = default
        /\ \A i : HoldsNow(i)' <=> HoldsNow(i)
        /\ \A i, b : S!Covers(rulesets'[i], b) = S!Covers(rulesets[i], b)
    BY <1>0, <2>1 DEF S!Active, S!There, S!Gate, S!AllHold, JudgedFor, HoldsNow
  <2>3. SettingsTypes' /\ CallOK' /\ S!ReportIsTrue'
    BY <1>0, <2>1 DEF SettingsTypes, CallOK, S!ReportIsTrue, S!Judging, Clear
  <2>4. FreshLook'
    BY <1>0, <2>1, <2>2 DEF SettingsInv, FreshLook, CoversNow, Clear
  <2>5. OneChange'
    BY <1>0, <2>1, <2>2 DEF SettingsInv, OneChange, CoversNow, Clear
  <2> QED  BY <2>3, <2>4, <2>5 DEF SettingsInv
<1> QED  BY <1>1, <1>2 DEF S!DefaultBranch

\* One ruleset is read: what it says is in the answer, or it is not known.
LEMMA RulesetIsRead == ASSUME SettingsInv, NEW i \in Ids, S!Fetch(i) PROVE SettingsInv'
<1>0. /\ SettingsTypes /\ CallOK /\ call.at = "fetch" /\ S!Judging /\ i \in call.todo
      /\ UNCHANGED <<rulesets, default, gateHeld, gateFailed>>
  BY DEF S!Fetch, S!Remote, S!Seen, SettingsInv, S!Judging
<1> DEFINE r == rulesets[i]
           fine == S!Bypass(r) /\ r.strict
           hidden == call.viewer # "owner" /\ r.strict
<1>1. /\ S!Active' = S!Active /\ (S!Gate' <=> S!Gate) /\ (S!AllHold' <=> S!AllHold)
      /\ S!There' = S!There
      /\ \A j : HoldsNow(j)' <=> HoldsNow(j)
      /\ \A j, b : S!Covers(rulesets'[j], b) = S!Covers(rulesets[j], b)
  BY <1>0 DEF S!Active, S!There, S!Gate, S!AllHold, HoldsNow
<1>2. CASE call' = [call EXCEPT !.todo = @ \ {i}, !.unknown = TRUE]
  <2>1. /\ call' \in CallStates /\ call'.todo = call.todo \ {i} /\ call'.unknown
        /\ UNCHANGED <<call.at, call.branch, call.since, call.said, call.viewer,
                       call.failed, call.covered>>
    BY <1>0, <1>2 DEF SettingsTypes, CallStates
  <2>2. SettingsTypes' /\ CallOK' /\ S!ReportIsTrue'
    BY <1>0, <2>1 DEF SettingsTypes, CallOK, S!ReportIsTrue, S!Judging
  <2>3. JudgedFor' = JudgedFor /\ S!Judging'
    BY <1>0, <2>1 DEF JudgedFor, S!Judging
  <2>4. FreshLook'
    BY <1>0, <1>1, <2>1 DEF SettingsInv, FreshLook, Clear
  <2>5. OneChange'
    BY <1>0, <1>1, <2>1, <2>3 DEF SettingsInv, OneChange, CoversNow, Clear
  <2> QED  BY <2>2, <2>4, <2>5 DEF SettingsInv
<1>3. CASE /\ r # NoRuleset
           /\ call' = [call EXCEPT
                !.todo = @ \ {i},
                !.unknown = @ \/ (~fine /\ hidden /\ call.viewer = "anonymous"),
                !.failed  = @ \/ (~fine /\ ~(hidden /\ call.viewer = "anonymous")),
                !.covered = @ \/ ((fine \/ hidden) /\ S!Covers(r, call.branch))]
  <2>0. r \in S!Settings /\ i \in S!There
    BY <1>0, <1>3 DEF SettingsTypes, S!There
  <2>1. /\ call'.todo = call.todo \ {i}
        /\ call'.unknown = (call.unknown \/ (~fine /\ hidden /\ call.viewer = "anonymous"))
        /\ call'.failed = (call.failed \/ (~fine /\ ~(hidden /\ call.viewer = "anonymous")))
        /\ call'.covered = (call.covered \/ ((fine \/ hidden) /\ S!Covers(r, call.branch)))
        /\ UNCHANGED <<call.at, call.branch, call.since, call.said, call.viewer>>
    BY <1>0, <1>3 DEF SettingsTypes, CallStates
  <2>2. call' \in CallStates
    <3> HIDE DEF fine, hidden
    <3> QED  BY <1>0, <1>3 DEF SettingsTypes, CallStates
  <2>3. fine <=> call.viewer = "owner" /\ HoldsNow(i)
    BY <2>0 DEF S!Bypass, HoldsNow, S!Holds, S!Settings
  <2>4. ~HoldsNow(i) \/ S!Holds(r)
    BY DEF HoldsNow
  <2>5. hidden => call.viewer # "owner"
    OBVIOUS
  <2>6. ~fine /\ ~(hidden /\ call.viewer = "anonymous") /\ call.viewer # "collaborator" => ~HoldsNow(i)
    BY <1>0, <2>0 DEF S!Bypass, HoldsNow, S!Holds, S!Settings, SettingsTypes, CallStates, S!Viewers
  <2>7. S!Covers(r, call.branch) <=> CoversNow(i, JudgedFor)
    BY <1>0 DEF CoversNow, JudgedFor
  <2> HIDE DEF fine, hidden
  <2>8. SettingsTypes' /\ CallOK' /\ S!ReportIsTrue'
    BY <1>0, <2>1, <2>2, <2>3, <2>5 DEF SettingsTypes, CallOK, S!ReportIsTrue, S!Judging
  <2>9. JudgedFor' = JudgedFor /\ S!Judging'
    BY <1>0, <2>1 DEF JudgedFor, S!Judging
  <2>10. Clear' => Clear /\ fine /\ ~CoversNow(i, JudgedFor)
    BY <2>1, <2>7 DEF Clear
  <2>11. FreshLook'
    BY <1>0, <1>1, <2>1, <2>9, <2>10
       DEF SettingsInv, FreshLook, CoversNow, JudgedFor
  <2>12. ASSUME call.since <= 1 PROVE OneChange'
    <3>1. call.viewer = "owner" /\ call'.covered => gateHeld
      BY <1>0, <2>0, <2>1, <2>3, <2>5, <2>7, <2>12 DEF SettingsInv, OneChange
    <3>2. call.viewer # "collaborator" /\ call'.failed => gateFailed
      BY <1>0, <2>0, <2>1, <2>6, <2>12 DEF SettingsInv, OneChange
    <3>3. Clear' => \/ gateFailed
                    \/ \E j \in call'.todo : j \notin S!There \/ CoversNow(j, JudgedFor)
      BY <1>0, <2>0, <2>1, <2>10, <2>12 DEF SettingsInv, OneChange
    <3> QED
      BY <1>0, <1>1, <2>1, <2>9, <2>12, <3>1, <3>2, <3>3
         DEF SettingsInv, OneChange, CoversNow
  <2>13. OneChange'
    BY <2>1, <2>12 DEF OneChange
  <2> QED  BY <2>8, <2>11, <2>13 DEF SettingsInv
<1> QED  BY <1>2, <1>3 DEF S!Fetch

LEMMA ConclusionIsTrue == ASSUME SettingsInv, S!Conclude PROVE SettingsInv'
<1>0. /\ SettingsTypes /\ CallOK /\ call.at = "fetch" /\ call.todo = {} /\ S!Judging
      /\ UNCHANGED <<rulesets, default, gateHeld, gateFailed>>
  BY DEF S!Conclude, S!Remote, S!Seen, SettingsInv, S!Judging
<1>1. call.since <= 1 =>
        /\ call.viewer = "owner" /\ call.covered => gateHeld
        /\ call.viewer # "collaborator" /\ call.failed => gateFailed
        /\ Clear => gateFailed
  BY <1>0 DEF SettingsInv, OneChange
<1>2. PICK word \in {"fails", "unknown", "holds"} :
        /\ S!Says(word)
        /\ word = "fails" => call.failed \/ (~call.covered /\ ~call.unknown)
        /\ word = "holds" => call.covered /\ ~call.failed /\ ~call.unknown
  BY <1>0 DEF S!Conclude, SettingsTypes, CallStates
<1>3. SettingsTypes' /\ CallOK' /\ ~S!Judging' /\ S!ReportIsTrue'
  BY <1>0, <1>1, <1>2, SaysIsOver DEF SettingsTypes, S!ReportIsTrue, CallOK, Clear
<1> QED  BY <1>3, NotJudging

LEMMA SettingsStep == ASSUME SettingsInv, [S!Next]_(S!vars) PROVE SettingsInv'
<1>1. CASE UNCHANGED S!vars
  BY <1>1 DEF S!vars, SettingsInv, SettingsTypes, FreshLook, OneChange, CallOK, Clear,
              S!ReportIsTrue, S!Judging, S!Gate, S!AllHold, S!Active, S!There, JudgedFor,
              HoldsNow, CoversNow
<1> QED
  BY <1>1, EditsAreSeen, BeforeTheList, ListIsFresh, BranchIsRead, RulesetIsRead,
     ConclusionIsTrue DEF S!Next

LEMMA SettingsKeep == S!Spec => []ReportIsTrue
<1>1. SettingsInv => ReportIsTrue
  BY DEF SettingsInv, ReportIsTrue
<1> QED  BY <1>1, SettingsInit, SettingsStep, PTL DEF S!Spec

\* github.py, judge_rulesets: whatever rulesets there are, and whoever changes them by
\* hand between the calls of a judgement: a report that the gate holds was true at some
\* moment of the reading, and so was one that it fails, as long as one setting changed
\* at most; who may not see all of a ruleset is never told that the gate holds.
THEOREM ReportsAreTrue == HostSpec => []ReportIsTrue
  BY PartsAreThemselves, SettingsKeep, PTL

-----------------------------------------------------------------------------
(* Proof *)

\* What a test run may have left: an answer for each of some cases.
Outcomes ==
  UNION {[cases -> {Answers[t][n] : t \in Revisions, n \in P!AllNodes} \cup {"passed"}] :
           cases \in SUBSET P!AllNodes}

ProofStates ==
  [at : {"idle", "status", "derive", "ledger", "collect", "run", "write", "judge"},
   kind : P!Kinds, rev : Revisions \cup {NoRevision}, of : Revisions \cup {NoRevision},
   clean : BOOLEAN, sound : BOOLEAN, took : Outcomes, code : {0, 1},
   disturbed : BOOLEAN, crossed : BOOLEAN]

ProofTypes ==
  /\ work \in Revisions /\ commit \in Revisions
  /\ prove \in [Askers -> ProofStates]
  /\ junit \in [P!Kinds -> Outcomes]

Ran == {"run", "write", "judge"}
OutcomesOf(c, t) == [n \in P!Asked(c, t) |-> Answers[t][n]]

\* A proof of a clean checkout that nobody changed since it began is about the
\* revision it names, at each of its steps.
OfItsRevision(c) ==
  c.at # "idle" /\ ~c.disturbed =>
    /\ c.rev = commit
    /\ c.clean /\ c.at # "status" =>
         /\ work = commit
         /\ c.kind = "coverage" /\ c.at \in {"collect"} \cup Ran => c.of = commit
         /\ c.kind = "coverage" /\ c.at \in Ran => P!MapFits(commit, P!Nodes(commit))
         /\ c.kind = "dev" /\ c.at \in Ran /\ c.sound => commit \in Sound
         /\ c.at = "write" /\ c.code = 0 => c.took = OutcomesOf(c, commit)
         /\ c.at = "judge" /\ c.code = 0 /\ ~c.crossed
              => junit[c.kind] = OutcomesOf(c, commit)

KindAt(c) ==
  /\ c.at \in {"derive", "collect"} => c.kind = "coverage"
  /\ c.at = "ledger" => c.kind = "dev"

ProofsOK == \A p \in Askers : OfItsRevision(prove[p]) /\ KindAt(prove[p])
ProofInv == ProofTypes /\ ProofsOK /\ P!ProofIsOfItsRevision

\* What ran of a tree's cases is an outcome of each.
LEMMA RunIsOutcomes ==
  ASSUME NEW t \in Revisions, NEW ran \in SUBSET P!Nodes(t)
  PROVE  [n \in ran |-> Answers[t][n]] \in Outcomes
  BY DEF Outcomes, P!AllNodes, P!Nodes

LEMMA NothingIsOutcomes == P!Nothing \in Outcomes
<1> DEFINE V == {Answers[t][n] : t \in Revisions, n \in P!AllNodes} \cup {"passed"}
<1>1. P!Nothing \in [{} -> V]
  BY DEF P!Nothing
<1> HIDE DEF V
<1>2. \E cases \in SUBSET P!AllNodes : P!Nothing \in [cases -> V]
  BY <1>1
<1>3. P!Nothing \in UNION {[cases -> V] : cases \in SUBSET P!AllNodes}
  BY <1>2
<1> QED  BY <1>3 DEF Outcomes, V

LEMMA IdleProofIsOK ==
  P!Idle \in ProofStates /\ OfItsRevision(P!Idle) /\ KindAt(P!Idle)
<1>1. P!Idle \in ProofStates
  BY NothingIsOutcomes DEF P!Idle, ProofStates, P!Kinds
<1>2. P!Idle.at = "idle"
  BY DEF P!Idle
<1> QED  BY <1>1, <1>2 DEF OfItsRevision, KindAt

LEMMA ProofInit == ASSUME P!Init PROVE ProofInv
  BY IdleProofIsOK, NothingIsOutcomes
     DEF P!Init, ProofInv, ProofTypes, ProofsOK, P!ProofIsOfItsRevision

\* A change of the checkout is seen by every proof under way.
LEMMA ShiftIsSeen ==
  ASSUME ProofInv, NEW t \in Revisions, NEW h \in Revisions, P!Shift(t, h)
  PROVE  ProofInv'
<1>1. ASSUME NEW p \in Askers
      PROVE  prove'[p] \in ProofStates /\ OfItsRevision(prove[p])' /\ KindAt(prove[p])'
  <2>1. CASE prove[p].at = "idle"
    <3>1. prove'[p] = P!Idle /\ P!Idle.at = "idle"
      BY <2>1 DEF P!Shift, P!Idle
    <3> QED  BY <3>1, IdleProofIsOK DEF OfItsRevision, KindAt
  <2>2. CASE prove[p].at # "idle"
    <3>1. prove'[p] = [prove[p] EXCEPT !.disturbed = TRUE] /\ prove[p] \in ProofStates
      BY <2>2 DEF P!Shift, ProofInv, ProofTypes
    <3>2. /\ prove'[p] \in ProofStates /\ prove'[p].disturbed
          /\ prove'[p].at = prove[p].at /\ prove'[p].kind = prove[p].kind
      BY <3>1 DEF ProofStates
    <3> QED  BY <3>2 DEF OfItsRevision, KindAt, ProofInv, ProofsOK
  <2> QED  BY <2>1, <2>2
<1>2. prove' = [p \in Askers |-> prove'[p]]
  BY DEF P!Shift
<1>3. ProofTypes'
  BY <1>1, <1>2 DEF P!Shift, ProofInv, ProofTypes
<1> QED
  BY <1>1, <1>3 DEF P!Shift, ProofInv, ProofsOK, P!ProofIsOfItsRevision

\* A step of one proof is judged by what it makes of that proof.
LEMMA OneProofGoesOn ==
  ASSUME ProofInv, NEW p \in Askers, NEW c \in ProofStates,
         prove' = [prove EXCEPT ![p] = c], UNCHANGED <<work, commit, junit>>,
         OfItsRevision(c), KindAt(c)
  PROVE  ProofTypes' /\ ProofsOK'
<1>1. ProofTypes'
  BY DEF ProofInv, ProofTypes
<1>2. ASSUME NEW q \in Askers
      PROVE  OfItsRevision(prove[q])' /\ KindAt(prove[q])'
  <2>1. prove'[q] = IF q = p THEN c ELSE prove[q]
    BY DEF ProofInv, ProofTypes
  <2>2. OfItsRevision(prove[q]) /\ KindAt(prove[q])
    BY DEF ProofInv, ProofsOK
  <2> QED  BY <2>1, <2>2 DEF OfItsRevision, KindAt
<1> QED  BY <1>1, <1>2 DEF ProofsOK

LEMMA LooksAreOK ==
  ASSUME ProofInv, NEW p \in Askers,
         \/ \E kind \in P!Kinds : P!Begin(p, kind)
         \/ P!Status(p) \/ P!Derive(p) \/ P!Collect(p) \/ P!LedgerGates(p)
  PROVE  ProofInv'
<1> USE DEF P!Goes, P!Here
<1>0. /\ prove[p] \in ProofStates /\ OfItsRevision(prove[p]) /\ KindAt(prove[p])
      /\ work \in Revisions /\ commit \in Revisions
  BY DEF ProofInv, ProofTypes, ProofsOK
<1>1. ASSUME NEW c \in ProofStates, prove' = [prove EXCEPT ![p] = c],
             UNCHANGED <<work, commit, junit, proved>>, OfItsRevision(c), KindAt(c)
      PROVE  ProofInv'
  BY <1>1, OneProofGoesOn DEF ProofInv, P!ProofIsOfItsRevision
<1>2. ASSUME NEW kind \in P!Kinds, P!Begin(p, kind) PROVE ProofInv'
  <2> DEFINE c == [P!Idle EXCEPT !.at = "status", !.kind = kind, !.rev = commit]
  <2>1. c \in ProofStates /\ c.at = "status" /\ c.rev = commit
    BY <1>0, IdleProofIsOK DEF ProofStates
  <2>2. OfItsRevision(c) /\ KindAt(c)
    <3> HIDE DEF c
    <3> QED  BY <2>1 DEF OfItsRevision, KindAt, Ran
  <2>3. prove' = [prove EXCEPT ![p] = c] /\ UNCHANGED <<work, commit, junit, proved>>
    BY <1>2 DEF P!Begin
  <2> HIDE DEF c
  <2> QED  BY <1>1, <2>1, <2>2, <2>3
<1>3. CASE P!Status(p)
  <2> DEFINE c == [prove[p] EXCEPT !.at = IF prove[p].kind = "dev" THEN "ledger" ELSE "derive",
                                   !.clean = (work = commit)]
  <2>1. UNCHANGED <<work, commit, junit, proved>> /\ prove[p].at = "status"
    BY <1>3 DEF P!Status
  <2>2. CASE prove' = [prove EXCEPT ![p] = P!Idle]
    BY <1>1, <2>1, <2>2, IdleProofIsOK
  <2>3. CASE prove' = [prove EXCEPT ![p] = c]
    <3>1. /\ c \in ProofStates /\ c.clean = (work = commit)
          /\ c.at = IF c.kind = "dev" THEN "ledger" ELSE "derive"
          /\ c.rev = prove[p].rev /\ c.disturbed = prove[p].disturbed
          /\ c.kind \in {"coverage", "dev"}
      BY <1>0 DEF ProofStates, P!Kinds
    <3> HIDE DEF c
    <3>2. OfItsRevision(c)
      BY <1>0, <2>1, <3>1 DEF OfItsRevision, Ran
    <3>3. KindAt(c)
      BY <3>1 DEF KindAt
    <3> QED  BY <1>1, <2>1, <2>3, <3>1, <3>2, <3>3
  <2> QED  BY <1>3, <2>2, <2>3 DEF P!Status
<1>4. CASE P!Derive(p)
  <2> DEFINE c == [prove[p] EXCEPT !.at = "collect", !.of = work]
  <2>1. /\ c \in ProofStates /\ c.at = "collect" /\ c.of = work /\ c.rev = prove[p].rev
        /\ c.disturbed = prove[p].disturbed /\ c.clean = prove[p].clean
        /\ c.kind = prove[p].kind /\ prove[p].at = "derive"
    BY <1>0, <1>4 DEF ProofStates, P!Derive
  <2>2. prove' = [prove EXCEPT ![p] = c] /\ UNCHANGED <<work, commit, junit, proved>>
    BY <1>4 DEF P!Derive
  <2> HIDE DEF c
  <2>3. OfItsRevision(c) /\ KindAt(c)
    BY <1>0, <2>1 DEF OfItsRevision, KindAt, Ran
  <2> QED  BY <1>1, <2>1, <2>2, <2>3
<1>5. CASE P!Collect(p)
  <2> DEFINE c == [prove[p] EXCEPT !.at = "run"]
  <2>1. UNCHANGED <<work, commit, junit, proved>> /\ prove[p].at = "collect"
    BY <1>5 DEF P!Collect
  <2>2. CASE prove' = [prove EXCEPT ![p] = P!Idle]
    BY <1>1, <2>1, <2>2, IdleProofIsOK
  <2>3. CASE P!MapFits(prove[p].of, P!Nodes(work)) /\ prove' = [prove EXCEPT ![p] = c]
    <3>1. /\ c \in ProofStates /\ c.at = "run" /\ c.of = prove[p].of /\ c.rev = prove[p].rev
          /\ c.disturbed = prove[p].disturbed /\ c.clean = prove[p].clean
          /\ c.kind = "coverage"
      BY <1>0, <2>1 DEF ProofStates, KindAt
    <3> HIDE DEF c
    <3>2. OfItsRevision(c) /\ KindAt(c)
      BY <1>0, <2>1, <2>3, <3>1 DEF OfItsRevision, KindAt, Ran
    <3> QED  BY <1>1, <2>1, <2>3, <3>1, <3>2
  <2> QED  BY <1>5, <2>2, <2>3 DEF P!Collect
<1>6. CASE P!LedgerGates(p)
  <2>1. PICK rendered \in BOOLEAN :
          prove' = [prove EXCEPT ![p] = [prove[p] EXCEPT
                      !.at = "run", !.sound = work \in Sound /\ rendered]]
    BY <1>6 DEF P!LedgerGates
  <2> DEFINE c == [prove[p] EXCEPT !.at = "run", !.sound = work \in Sound /\ rendered]
  <2>2. /\ c \in ProofStates /\ c.at = "run" /\ c.rev = prove[p].rev
        /\ c.sound => work \in Sound
        /\ c.disturbed = prove[p].disturbed /\ c.clean = prove[p].clean
        /\ c.kind = "dev" /\ prove[p].at = "ledger"
    BY <1>0, <1>6 DEF ProofStates, KindAt, P!LedgerGates
  <2>3. prove' = [prove EXCEPT ![p] = c] /\ UNCHANGED <<work, commit, junit, proved>>
    BY <1>6, <2>1 DEF P!LedgerGates
  <2> HIDE DEF c
  <2>4. OfItsRevision(c) /\ KindAt(c)
    BY <1>0, <2>2 DEF OfItsRevision, KindAt, Ran
  <2> QED  BY <1>1, <2>2, <2>3, <2>4
<1> QED  BY <1>2, <1>3, <1>4, <1>5, <1>6

\* What a proof asks for depends on its kind and, for coverage, on the tree it derived.
LEMMA SameAsked ==
  ASSUME NEW c \in ProofStates, NEW d \in ProofStates,
         c.kind = d.kind, c.of = d.of, NEW t
  PROVE  P!Asked(c, t) = P!Asked(d, t) /\ OutcomesOf(c, t) = OutcomesOf(d, t)
<1>1. P!IdsOf(c) = P!IdsOf(d)
  BY DEF P!IdsOf
<1>2. P!Asked(c, t) = P!Asked(d, t)
  BY <1>1 DEF P!Asked
<1> QED  BY <1>2 DEF OutcomesOf

\* pytest: exit 0 is for all that was asked.
LEMMA RunIsOK == ASSUME ProofInv, NEW p \in Askers, P!Run(p) PROVE ProofInv'
<1>0. /\ prove[p] \in ProofStates /\ OfItsRevision(prove[p]) /\ KindAt(prove[p])
      /\ work \in Revisions /\ commit \in Revisions /\ prove[p].at = "run"
      /\ UNCHANGED <<work, commit, junit, proved>>
  BY DEF ProofInv, ProofTypes, ProofsOK, P!Run, P!Here
<1>1. PICK ran \in SUBSET P!Asked(prove[p], work), code \in {0, 1} :
        /\ prove' = [prove EXCEPT ![p] = [prove[p] EXCEPT
              !.at = "write", !.took = [n \in ran |-> Answers[work][n]], !.code = code]]
        /\ code = 0 => ran = P!Asked(prove[p], work)
  <2> DEFINE Whole(ran) == /\ ran = P!Asked(prove[p], work) /\ ran # {}
                           /\ \A n \in ran : [m \in ran |-> Answers[work][m]][n] # "failed"
  <2>1. PICK ran \in SUBSET P!Asked(prove[p], work) :
          prove' = [prove EXCEPT ![p] = [prove[p] EXCEPT
            !.at = "write", !.took = [n \in ran |-> Answers[work][n]],
            !.code = IF Whole(ran) THEN 0 ELSE 1]]
    BY Zenon DEF P!Run, P!Goes
  <2>2. CASE Whole(ran)
    BY <2>1, <2>2, Zenon
  <2>3. CASE ~Whole(ran)
    <3>1. 1 # 0
      OBVIOUS
    <3> QED  BY <2>1, <2>3, <3>1, Zenon
  <2> QED  BY <2>2, <2>3
<1> DEFINE took == [n \in ran |-> Answers[work][n]]
           c == [prove[p] EXCEPT !.at = "write", !.took = took, !.code = code]
<1>2. took \in Outcomes
  BY <1>0, RunIsOutcomes DEF P!Asked
<1>3. code = 0 => took = OutcomesOf(prove[p], work)
  BY <1>1 DEF OutcomesOf
<1> HIDE DEF took
<1>4. /\ c \in ProofStates /\ c.at = "write" /\ c.rev = prove[p].rev /\ c.of = prove[p].of
      /\ c.disturbed = prove[p].disturbed /\ c.clean = prove[p].clean
      /\ c.kind = prove[p].kind /\ c.sound = prove[p].sound
      /\ c.code = code /\ c.took = took
  BY <1>0, <1>2 DEF ProofStates
<1>5. prove' = [prove EXCEPT ![p] = c]
  BY <1>1 DEF took
<1> HIDE DEF c
<1>6. c.code = 0 => c.took = OutcomesOf(c, work)
  BY <1>0, <1>3, <1>4, SameAsked
<1>7. OfItsRevision(c) /\ KindAt(c)
  BY <1>0, <1>4, <1>6 DEF OfItsRevision, KindAt, Ran
<1> QED  BY <1>0, <1>4, <1>5, <1>7, OneProofGoesOn DEF ProofInv, P!ProofIsOfItsRevision

\* What is written is what ran; who was about to read the same file is crossed.
LEMMA OutcomesAreWritten ==
  ASSUME ProofInv, NEW p \in Askers, P!WriteJunit(p) PROVE ProofInv'
<1>0. /\ prove \in [Askers -> ProofStates] /\ OfItsRevision(prove[p])
      /\ work \in Revisions /\ commit \in Revisions /\ prove[p].at = "write"
      /\ UNCHANGED <<work, commit, proved>> /\ prove[p].kind \in P!Kinds
      /\ junit \in [P!Kinds -> Outcomes] /\ prove[p].took \in Outcomes
  BY DEF ProofInv, ProofTypes, ProofsOK, ProofStates, P!WriteJunit, P!Here
\* The proof that wrote, or whose pytest died before it could.
<1>1. ASSUME NEW code \in {prove[p].code, 1}, NEW c,
             c = [prove[p] EXCEPT !.at = "judge", !.took = P!Nothing, !.code = code],
             prove'[p] = c, code = 0 => junit'[prove[p].kind] = prove[p].took
      PROVE  c \in ProofStates /\ OfItsRevision(prove[p])' /\ KindAt(prove[p])'
  <2>1. /\ c \in ProofStates /\ c.at = "judge" /\ c.rev = prove[p].rev /\ c.of = prove[p].of
        /\ c.disturbed = prove[p].disturbed /\ c.clean = prove[p].clean
        /\ c.kind = prove[p].kind /\ c.sound = prove[p].sound /\ c.code = code
    <3>1. prove[p].code \in {0, 1}
      BY <1>0 DEF ProofStates
    <3> QED  BY <1>0, <1>1, <3>1, NothingIsOutcomes DEF ProofStates
  <2>2. OutcomesOf(c, commit) = OutcomesOf(prove[p], commit)
    BY <1>0, <2>1, SameAsked
  <2>3. OfItsRevision(prove[p])'
    <3>1. junit'[prove[p].kind] = prove[p].took \/ code # 0
      BY <1>1
    <3> HIDE <1>1
    <3>2. prove'[p] = c
      BY <1>1
    <3> QED  BY <1>0, <2>1, <2>2, <3>1, <3>2 DEF OfItsRevision, Ran
  <2>4. KindAt(prove[p])'
    BY <1>1, <2>1 DEF KindAt
  <2> QED  BY <2>1, <2>3, <2>4
<1>2. CASE P!Goes(p, "write", [prove[p] EXCEPT !.at = "judge", !.took = P!Nothing, !.code = 1])
           /\ UNCHANGED junit
  <2> DEFINE c == [prove[p] EXCEPT !.at = "judge", !.took = P!Nothing, !.code = 1]
  <2>1. prove' = [prove EXCEPT ![p] = c] /\ prove'[p] = c
    BY <1>0, <1>2 DEF P!Goes
  <2> HIDE DEF c
  <2>2. c \in ProofStates /\ OfItsRevision(prove[p])' /\ KindAt(prove[p])'
    BY <1>1, <2>1 DEF c
  <2>3. OfItsRevision(c) /\ KindAt(c)
    BY <1>0, <1>2, <2>1, <2>2 DEF OfItsRevision, KindAt
  <2> QED
    BY <1>0, <1>2, <2>1, <2>2, <2>3, OneProofGoesOn DEF ProofInv, P!ProofIsOfItsRevision
<1>3. CASE /\ junit' = [junit EXCEPT ![prove[p].kind] = prove[p].took]
           /\ prove' = [q \in Askers |->
                IF q = p THEN [prove[p] EXCEPT !.at = "judge", !.took = P!Nothing]
                ELSE [prove[q] EXCEPT
                        !.crossed = @ \/ (prove[q].kind = prove[p].kind /\ prove[q].at = "judge")]]
  <2>1. prove'[p] \in ProofStates /\ OfItsRevision(prove[p])' /\ KindAt(prove[p])'
    <3> DEFINE c == [prove[p] EXCEPT !.at = "judge", !.took = P!Nothing, !.code = prove[p].code]
    <3>1. prove'[p] = c
      BY <1>0, <1>3 DEF ProofStates
    <3>2. junit'[prove[p].kind] = prove[p].took
      BY <1>0, <1>3
    <3> HIDE DEF c
    <3> QED  BY <1>1, <3>1, <3>2 DEF c
  <2>2. ASSUME NEW q \in Askers \ {p}
        PROVE  prove'[q] \in ProofStates /\ OfItsRevision(prove[q])' /\ KindAt(prove[q])'
    <3> DEFINE d == prove[q]
               hit == d.crossed \/ (d.kind = prove[p].kind /\ d.at = "judge")
    <3>0. d \in ProofStates /\ OfItsRevision(d) /\ KindAt(d) /\ hit \in BOOLEAN
      BY DEF ProofInv, ProofTypes, ProofsOK, ProofStates
    <3>1. prove'[q] = [d EXCEPT !.crossed = hit]
      BY <1>3
    <3> HIDE DEF d, hit
    <3>2. /\ prove'[q] \in ProofStates /\ prove'[q].crossed = hit
          /\ prove'[q].at = d.at /\ prove'[q].rev = d.rev /\ prove'[q].of = d.of
          /\ prove'[q].disturbed = d.disturbed /\ prove'[q].clean = d.clean
          /\ prove'[q].kind = d.kind /\ prove'[q].sound = d.sound
          /\ prove'[q].code = d.code /\ prove'[q].took = d.took
      BY <3>0, <3>1 DEF ProofStates
    <3>3. OutcomesOf(prove'[q], commit) = OutcomesOf(d, commit)
      BY <3>0, <3>2, SameAsked
    <3>4. ~hit /\ d.at = "judge" => junit'[d.kind] = junit[d.kind]
      BY <1>0, <1>3, <3>0 DEF d, hit, ProofStates
    <3>5. ~d.crossed \/ hit
      BY DEF hit
    <3>6. OfItsRevision(prove[q])'
      BY <1>0, <3>0, <3>2, <3>3, <3>4, <3>5 DEF OfItsRevision, Ran
    <3>7. KindAt(prove[q])'
      BY <3>0, <3>2 DEF KindAt
    <3> QED  BY <3>2, <3>6, <3>7
  <2>3. ProofTypes'
    <3>1. prove' = [q \in Askers |-> prove'[q]]
      BY <1>3
    <3>2. prove' \in [Askers -> ProofStates]
      BY <2>1, <2>2, <3>1
    <3>3. junit' \in [P!Kinds -> Outcomes]
      BY <1>0, <1>3
    <3> QED  BY <1>0, <3>2, <3>3 DEF ProofTypes
  <2> QED
    BY <1>0, <2>1, <2>2, <2>3 DEF ProofInv, ProofsOK, P!ProofIsOfItsRevision
<1> QED  BY <1>2, <1>3 DEF P!WriteJunit

\* Where all that matches what was asked for is in the outcomes, and all that is there
\* passed, it passed on the tree.
LEMMA PassedThere ==
  ASSUME NEW t, NEW c, NEW id \in P!IdsOf(c), P!Passed(id, OutcomesOf(c, t))
  PROVE  P!Passed(id, Answers[t])
<1>1. P!Matching(id, P!Asked(c, t)) = P!Matching(id, P!Nodes(t))
  BY DEF P!Matching, P!Asked
<1>2. DOMAIN OutcomesOf(c, t) = P!Asked(c, t)
  BY DEF OutcomesOf
<1>3. \A n \in P!Matching(id, P!Asked(c, t)) : OutcomesOf(c, t)[n] = Answers[t][n]
  BY DEF OutcomesOf, P!Matching
<1> QED  BY <1>1, <1>2, <1>3 DEF P!Passed, P!Nodes

LEMMA VerdictIsTrue == ASSUME ProofInv, NEW p \in Askers, P!Judge(p) PROVE ProofInv'
<1> DEFINE c == prove[p]
           r == [kind |-> c.kind, rev |-> c.rev, clean |-> c.clean,
                 disturbed |-> c.disturbed, crossed |-> c.crossed]
<1>0. /\ c \in ProofStates /\ OfItsRevision(c) /\ c.at = "judge"
      /\ prove' = [prove EXCEPT ![p] = P!Idle] /\ UNCHANGED <<work, commit, junit>>
  BY DEF ProofInv, ProofTypes, ProofsOK, P!Judge, P!Here, P!Goes
<1>1. ProofTypes' /\ ProofsOK'
  BY <1>0, IdleProofIsOK, OneProofGoesOn
<1>2. proved' = proved
        \/ (c.sound /\ P!Answered(c) /\ P!AllPassed(c) /\ proved' = proved \cup {r})
  BY DEF P!Judge
<1> HIDE DEF c
<1>3. ASSUME c.sound, P!Answered(c), P!AllPassed(c), c.clean, ~c.disturbed, ~c.crossed
      PROVE  P!Proves(c.kind, c.rev)
  <2>1. /\ c.rev = commit
        /\ junit[c.kind] = OutcomesOf(c, commit)
        /\ c.kind = "coverage" => c.of = commit /\ P!MapFits(commit, P!Nodes(commit))
        /\ c.kind = "dev" => commit \in Sound
    BY <1>0, <1>3 DEF OfItsRevision, Ran, P!Answered
  <2>2. \A id \in P!IdsOf(c) : P!Passed(id, Answers[commit])
    BY <1>3, <2>1, PassedThere DEF P!AllPassed
  <2>3. CASE c.kind = "dev"
    BY <2>1, <2>2, <2>3 DEF P!Proves, P!IdsOf
  <2>4. CASE c.kind = "coverage"
    <3>1. \A x \in Claimed[commit] : \E e \in Maps[commit] : e.condition = x
      BY <2>1, <2>4 DEF P!MapFits
    <3>2. \A e \in Maps[commit] : \A id \in e.tests : id \in P!IdsOf(c)
      BY <2>1, <2>4 DEF P!IdsOf
    <3> QED  BY <2>1, <2>2, <2>4, <3>1, <3>2 DEF P!Proves
  <2> QED  BY <1>0, <2>3, <2>4 DEF ProofStates, P!Kinds
<1>4. P!ProofIsOfItsRevision'
  <2> SUFFICES ASSUME NEW q \in proved', q.clean, ~q.disturbed, ~q.crossed
               PROVE  P!Proves(q.kind, q.rev)
    BY DEF P!ProofIsOfItsRevision
  <2>1. CASE q \in proved
    BY <2>1 DEF ProofInv, P!ProofIsOfItsRevision
  <2>2. CASE q = r /\ c.sound /\ P!Answered(c) /\ P!AllPassed(c)
    BY <1>3, <2>2
  <2> QED  BY <1>2, <2>1, <2>2
<1> QED  BY <1>1, <1>4 DEF ProofInv

LEMMA ProofStep == ASSUME ProofInv, [P!Next]_(P!vars) PROVE ProofInv'
<1>1. CASE P!Edit \/ P!Checkout
  BY <1>1, ShiftIsSeen DEF P!Edit, P!Checkout, ProofInv, ProofTypes
<1>2. CASE UNCHANGED P!vars
  BY <1>2 DEF P!vars, ProofInv, ProofTypes, ProofsOK, OfItsRevision, KindAt,
              P!ProofIsOfItsRevision
<1> QED
  BY <1>1, <1>2, LooksAreOK, RunIsOK, OutcomesAreWritten, VerdictIsTrue DEF P!Next

LEMMA ProofsKeep == P!Spec => []ProofIsOfItsRevision
<1>1. ProofInv => ProofIsOfItsRevision
  BY DEF ProofInv, ProofIsOfItsRevision
<1> QED  BY <1>1, ProofInit, ProofStep, PTL DEF P!Spec

\* proof.py, coverage and dev: whatever a tree claims, maps and answers, and whatever
\* outcomes earlier or killed runs left in dev/out: a proof that ends with exit 0 of a
\* clean checkout was given by the revision it names, case by case, unless the checkout
\* changed under it or another proof of its kind wrote before it read.
THEOREM ProvedOfItsRevision == HostSpec => []ProofIsOfItsRevision
  BY PartsAreThemselves, ProofsKeep, PTL

-----------------------------------------------------------------------------
(* Sync: any files, states of the tree and renders *)

LEMMA TreesAssumed ==
  /\ Owned \subseteq Paths
  /\ Rendered \in [Sources -> SUBSET Paths]
  /\ {Absent, Foreign} \cap Sources = {}
  /\ {MaxTouches, MaxKills} \subseteq Nat
BY RenderAssumption DEF Y!SyncAssumption

LEMMA LocksAssumed == {Missing, Unreadable} \cap Y!Locks = {}
BY RenderAssumption DEF Y!LockAssumption

Writing == run.pc \in {"remove", "write"}

\* What the sync under way has written so far.
Written == IF Writing THEN Rendered[run.rendered] \ run.todo ELSE {}

\* Removals come before writes.
RemovesFirst ==
  /\ run.pc = "remove" => run.todo = Rendered[run.rendered]
  /\ run.pc = "write" => run.removes = {}
  /\ Writing => run.todo \subseteq Rendered[run.rendered]

\* Every file on disk has a line in the lock, was put there by hand, or was
\* written by the sync under way.
Accounted ==
  \A p \in Paths : disk[p] # Absent => p \in Y!Listed(generated) \cup stray \cup Written

\* What the lock lists and the render lacks is gone, or is still to be removed,
\* unless someone put it back.
Removed ==
  Writing => \A p \in Y!Listed(generated) \ Rendered[run.rendered] :
               p \in run.removes \cup stray \/ disk[p] = Absent

\* While nobody else writes, the sync's picture of the inputs is the inputs, and
\* what it wrote is what the disk holds.
Undisturbed ==
  quiet =>
    /\ run.pc # "off" => run.rendered = source
    /\ run.pc \in {"list", "remove", "write"} => run.hashed = source
    /\ \A p \in Written : disk[p] = source

RenderInv == Y!TypeOK /\ RemovesFirst /\ Accounted /\ Removed /\ Undisturbed

\* A lock sync writes lists what it rendered.
LEMMA LockListsRender ==
  ASSUME NEW r \in Sources, NEW h \in Sources
  PROVE  /\ Y!LockOf(r, h) \in Y!Locks /\ Y!Readable(Y!LockOf(r, h))
         /\ Y!Listed(Y!LockOf(r, h)) = Rendered[r] /\ Rendered[r] \subseteq Paths
<1>1. Rendered[r] \in SUBSET Paths
  BY TreesAssumed
<1>2. [p \in Rendered[r] |-> r] \in [Rendered[r] -> Y!Texts]
  BY DEF Y!Texts
<1>3. Y!LockOf(r, h) \in Y!Locks
  BY <1>1, <1>2 DEF Y!LockOf, Y!Locks
<1>4. Y!Readable(Y!LockOf(r, h))
  BY <1>3, LocksAssumed DEF Y!Readable
<1>5. Y!Listed(Y!LockOf(r, h)) = Rendered[r]
  BY <1>4 DEF Y!Listed, Y!LockOf
<1> QED BY <1>1, <1>3, <1>4, <1>5

\* What a lock lists are files sync may write.
LEMMA ListedArePaths ==
  ASSUME NEW l \in Y!Locks \cup {Missing, Unreadable}
  PROVE  Y!Listed(l) \subseteq Paths
BY DEF Y!Listed, Y!Readable, Y!Locks

\* An edit of the lock keeps its shape and adds no line.
LEMMA LockEdited ==
  ASSUME Y!TypeOK, Y!EditLock
  PROVE  /\ generated' \in Y!Locks \cup {Missing, Unreadable}
         /\ Y!Listed(generated') \subseteq Y!Listed(generated)
         /\ \A p \in Y!Listed(generated) \ Y!Listed(generated') : disk[p] # Absent => p \in stray'
         /\ stray \subseteq stray' /\ stray' \subseteq Paths
<1> USE DEF Y!TypeOK
<1>0. Y!Listed(generated) \subseteq Paths
  BY ListedArePaths
<1>1. CASE generated' \in {Missing, Unreadable} \ {generated}
           /\ stray' = stray \cup {p \in Y!Listed(generated) : disk[p] # Absent}
  BY <1>0, <1>1 DEF Y!Listed, Y!Readable
<1>2. CASE \E p \in Y!Listed(generated) :
             /\ generated.outputs[p] # disk[p] /\ disk[p] # Absent
             /\ generated' = [generated EXCEPT !.outputs[p] = disk[p]] /\ UNCHANGED stray
  <2>1. PICK p \in Y!Listed(generated) :
          /\ disk[p] # Absent /\ UNCHANGED stray
          /\ generated' = [generated EXCEPT !.outputs[p] = disk[p]]
    BY <1>2
  <2>2. generated \in Y!Locks /\ Y!Listed(generated) = DOMAIN generated.outputs
    BY <2>1 DEF Y!Listed, Y!Readable
  <2>3. generated.outputs \in [Y!Listed(generated) -> Y!Texts] /\ disk[p] \in Y!Texts
    BY <1>0, <2>1, <2>2 DEF Y!Locks
  <2>4. generated' = [inputs |-> generated.inputs, outputs |-> [generated.outputs EXCEPT ![p] = disk[p]]]
    BY <2>1, <2>2 DEF Y!Locks
  <2>5. [generated.outputs EXCEPT ![p] = disk[p]] \in [Y!Listed(generated) -> Y!Texts]
    BY <2>3
  <2>6. generated' \in Y!Locks
    BY <1>0, <2>2, <2>4, <2>5 DEF Y!Locks
  <2>7. Y!Listed(generated') = Y!Listed(generated)
    BY <2>4, <2>5, <2>6, LocksAssumed DEF Y!Listed, Y!Readable
  <2> QED BY <2>1, <2>6, <2>7
<1>3. CASE \E p \in Y!Listed(generated) :
             /\ generated' = [generated EXCEPT !.outputs = Y!Restrict(@, Y!Listed(generated) \ {p})]
             /\ stray' = stray \cup {p}
  <2>1. PICK p \in Y!Listed(generated) :
          /\ generated' = [generated EXCEPT !.outputs = Y!Restrict(@, Y!Listed(generated) \ {p})]
          /\ stray' = stray \cup {p}
    BY <1>3
  <2> DEFINE left == [q \in Y!Listed(generated) \ {p} |-> generated.outputs[q]]
  <2>2. generated \in Y!Locks /\ Y!Listed(generated) = DOMAIN generated.outputs
    BY <2>1 DEF Y!Listed, Y!Readable
  <2>3. generated.outputs \in [Y!Listed(generated) -> Y!Texts]
    BY <2>2 DEF Y!Locks
  <2>4. generated' = [inputs |-> generated.inputs, outputs |-> left]
    BY <2>1, <2>2 DEF Y!Locks, Y!Restrict
  <2>5. left \in [Y!Listed(generated) \ {p} -> Y!Texts]
    BY <2>3
  <2>6. generated' \in Y!Locks
    BY <1>0, <2>2, <2>4, <2>5 DEF Y!Locks
  <2>7. Y!Listed(generated') = Y!Listed(generated) \ {p}
    BY <2>4, <2>5, <2>6, LocksAssumed DEF Y!Listed, Y!Readable
  <2> QED BY <1>0, <2>1, <2>6, <2>7
<1> QED BY <1>1, <1>2, <1>3 DEF Y!EditLock

LEMMA RenderInit == Y!Init => RenderInv
<1> SUFFICES ASSUME Y!Init PROVE RenderInv
  OBVIOUS
<1>1. source \in Sources /\ generated = Y!LockOf(source, source) /\ run = Y!Idle
  BY DEF Y!Init
<1>2. /\ generated \in Y!Locks /\ Y!Listed(generated) = Rendered[source]
  BY <1>1, LockListsRender
<1>3. Y!TypeOK
  <2>1. disk \in [Paths -> Y!Texts \cup {Absent}]
    BY <1>1 DEF Y!Init, Y!Texts
  <2>2. run.pc = "off" /\ run \in [pc : {"off", "hash", "list", "remove", "write"},
             rendered : Sources \cup {Absent}, hashed : Sources \cup {Absent},
             todo : SUBSET Paths, removes : SUBSET Paths]
    BY <1>1 DEF Y!Idle
  <2>3. touches \in 0..MaxTouches /\ kills \in 0..MaxKills /\ stray = {} /\ quiet = FALSE
    BY TreesAssumed DEF Y!Init
  <2> QED BY <1>1, <1>2, <2>1, <2>2, <2>3 DEF Y!TypeOK
<1>4. RemovesFirst /\ Removed /\ Undisturbed
  BY <1>1 DEF Y!Init, RemovesFirst, Removed, Undisturbed, Writing, Y!Idle
<1>5. Accounted
  BY <1>1, <1>2 DEF Y!Init, Accounted
<1> QED BY <1>3, <1>4, <1>5 DEF RenderInv

\* The steps of a sync that touch neither files nor lock.
LEMMA ReadingSteps ==
  ASSUME RenderInv, Y!Render \/ Y!Hash \/ Y!ListOld
  PROVE  RenderInv'
<1> USE DEF RenderInv, Y!TypeOK
<1>1. CASE Y!Render
  <2>1. Y!TypeOK'
    BY <1>1 DEF Y!Render, Y!Idle, Y!Others
  <2>2. Written = {} /\ Written' = {} /\ ~Writing'
    BY <1>1 DEF Y!Render, Y!Idle, Written, Writing
  <2>3. RemovesFirst' /\ Removed' /\ Undisturbed'
    BY <1>1, <2>2 DEF Y!Render, Y!Idle, RemovesFirst, Removed, Undisturbed, Writing
  <2>4. Accounted'
    BY <1>1, <2>2 DEF Y!Render, Accounted, Y!Listed
  <2> QED BY <2>1, <2>3, <2>4
<1>2. CASE Y!Hash
  <2>1. Y!TypeOK'
    BY <1>2 DEF Y!Hash, Y!Others
  <2>2. Written = {} /\ Written' = {} /\ ~Writing'
    BY <1>2 DEF Y!Hash, Written, Writing
  <2>3. RemovesFirst' /\ Removed' /\ Undisturbed'
    BY <1>2, <2>2 DEF Y!Hash, RemovesFirst, Removed, Undisturbed, Writing
  <2>4. Accounted'
    BY <1>2, <2>2 DEF Y!Hash, Accounted, Y!Listed
  <2> QED BY <2>1, <2>3, <2>4
<1>3. CASE Y!ListOld
  <2>1. Y!Listed(generated) \subseteq Paths /\ Rendered[run.rendered] \subseteq Paths
    BY <1>3, ListedArePaths, TreesAssumed DEF Y!ListOld
  <2>2. Y!TypeOK'
    BY <1>3, <2>1 DEF Y!ListOld, Y!Others
  <2>3. Written = {} /\ Written' = {} /\ run'.pc = "remove"
    BY <1>3 DEF Y!ListOld, Written, Writing
  <2>4. RemovesFirst' /\ Removed' /\ Undisturbed'
    BY <1>3, <2>3 DEF Y!ListOld, RemovesFirst, Removed, Undisturbed, Writing, Y!Listed
  <2>5. Accounted'
    BY <1>3, <2>3 DEF Y!ListOld, Accounted, Y!Listed
  <2> QED BY <2>2, <2>4, <2>5
<1> QED BY <1>1, <1>2, <1>3

LEMMA FileRemoved ==
  ASSUME RenderInv, NEW p \in Paths, Y!Remove(p)
  PROVE  RenderInv'
<1> USE DEF RenderInv, Y!TypeOK, Y!Remove
<1>1. Y!TypeOK'
  BY DEF Y!Others
<1>2. Written = {} /\ Written' = {}
  BY DEF Written, Writing, RemovesFirst
<1>3. RemovesFirst' /\ Undisturbed'
  BY <1>2 DEF RemovesFirst, Undisturbed, Writing
<1>4. Accounted'
  BY <1>2 DEF Accounted, Y!Listed
<1>5. Removed'
  BY DEF Removed, Writing, Y!Listed
<1> QED BY <1>1, <1>3, <1>4, <1>5

LEMMA FileWritten ==
  ASSUME RenderInv, NEW p \in Paths, Y!Write(p)
  PROVE  RenderInv'
<1> USE DEF RenderInv, Y!TypeOK, Y!Write
<1>1. Y!TypeOK'
  BY DEF Y!Others, Y!Texts
<1>2. Written' = Written \cup {p} /\ p \in Rendered[run.rendered]
  BY DEF Written, Writing, RemovesFirst
<1>3. RemovesFirst' /\ Removed'
  BY <1>2 DEF RemovesFirst, Removed, Writing, Y!Listed
<1>4. Accounted'
  BY <1>2 DEF Accounted, Y!Listed
<1>5. Undisturbed'
  BY <1>2 DEF Undisturbed, Writing, Written
<1> QED BY <1>1, <1>3, <1>4, <1>5

LEMMA WriteLockStep ==
  ASSUME RenderInv, Y!WriteLock
  PROVE  RenderInv'
<1> USE DEF RenderInv, Y!TypeOK, Y!WriteLock
<1>1. /\ generated' \in Y!Locks /\ Y!Listed(generated') = Rendered[run.rendered]
      /\ Rendered[run.rendered] \subseteq Paths
  BY LockListsRender
<1>2. Y!TypeOK'
  BY <1>1 DEF Y!Others, Y!Idle
<1>3. Written = Rendered[run.rendered] /\ Written' = {} /\ ~Writing'
  BY DEF Written, Writing, Y!Idle
<1>4. RemovesFirst' /\ Removed' /\ Undisturbed'
  BY <1>3 DEF RemovesFirst, Removed, Undisturbed, Writing, Y!Idle
<1>5. ASSUME NEW p \in Paths, disk[p] # Absent, p \notin Rendered[run.rendered]
      PROVE  p \in stray
  BY <1>3, <1>5 DEF Accounted, Removed, Writing
<1>6. Accounted'
  BY <1>1, <1>5 DEF Accounted
<1> QED BY <1>2, <1>4, <1>6

LEMMA SyncKilled ==
  ASSUME RenderInv, Y!Kill
  PROVE  RenderInv'
<1> USE DEF RenderInv, Y!TypeOK, Y!Kill
<1>1. Written' = {} /\ ~Writing' /\ run' = Y!Idle
  BY DEF Written, Writing, Y!Idle
<1>2. RemovesFirst' /\ Removed' /\ Undisturbed'
  BY <1>1 DEF RemovesFirst, Removed, Undisturbed, Writing, Y!Idle
<1>3. Y!Listed(generated) \subseteq Paths /\ (run.pc # "off" => Rendered[run.rendered] \subseteq Paths)
  BY ListedArePaths, TreesAssumed
<1>4. kills' \in 0..MaxKills /\ Y!Idle.pc = "off"
      /\ Y!Idle \in [pc : {"off", "hash", "list", "remove", "write"},
             rendered : Sources \cup {Absent}, hashed : Sources \cup {Absent},
             todo : SUBSET Paths, removes : SUBSET Paths]
  BY TreesAssumed DEF Y!Idle
<1>5. CASE /\ UNCHANGED <<disk, generated>>
           /\ stray' = stray \cup {p \in Paths : run.pc = "write" /\ Y!Unlisted(p)}
  <2>1. Y!TypeOK'
    BY <1>1, <1>4, <1>5
  <2>2. Accounted'
    BY <1>1, <1>5 DEF Accounted, Y!Listed, Written, Writing, Y!Unlisted, RemovesFirst
  <2> QED BY <1>2, <2>1, <2>2
<1>6. CASE \E p \in run.todo :
             /\ Writing /\ disk' = [disk EXCEPT ![p] = Foreign] /\ UNCHANGED generated
             /\ stray' = stray \cup
                  {q \in Paths : Y!Unlisted(q) \/ (q = p /\ q \notin Y!Listed(generated))}
  <2>1. Y!TypeOK'
    BY <1>1, <1>4, <1>6 DEF Y!Texts
  <2>2. Accounted'
    BY <1>1, <1>6 DEF Accounted, Y!Listed, Written, Writing, Y!Unlisted
  <2> QED BY <1>2, <2>1, <2>2
<1>7. CASE /\ Writing /\ run.todo = {}
           /\ generated' = Unreadable /\ UNCHANGED disk
           /\ stray' = stray \cup Y!Listed(generated) \cup Rendered[run.rendered]
  <2>1. Y!TypeOK'
    BY <1>1, <1>3, <1>4, <1>7 DEF Writing
  <2>2. Accounted'
    BY <1>1, <1>7 DEF Accounted, Written, Writing
  <2> QED BY <1>2, <2>1, <2>2
<1>8. \/ /\ UNCHANGED <<disk, generated>>
         /\ stray' = stray \cup {p \in Paths : run.pc = "write" /\ Y!Unlisted(p)}
      \/ \E p \in run.todo :
           /\ Writing /\ disk' = [disk EXCEPT ![p] = Foreign] /\ UNCHANGED generated
           /\ stray' = stray \cup
                {q \in Paths : Y!Unlisted(q) \/ (q = p /\ q \notin Y!Listed(generated))}
      \/ /\ Writing /\ run.todo = {}
         /\ generated' = Unreadable /\ UNCHANGED disk
         /\ stray' = stray \cup Y!Listed(generated) \cup Rendered[run.rendered]
  BY DEF Writing
<1> QED BY <1>5, <1>6, <1>7, <1>8

LEMMA BesideSync ==
  ASSUME RenderInv,
         \/ \E t \in Sources : Y!EditInputs(t)
         \/ \E p \in Paths, text \in {Absent, Foreign} : Y!EditOutput(p, text)
         \/ Y!EditLock
  PROVE  RenderInv'
<1> USE DEF RenderInv, Y!TypeOK
<1>0. ASSUME Y!Edit, UNCHANGED run
      PROVE  /\ touches' \in 0..MaxTouches /\ ~quiet' /\ Undisturbed' /\ RemovesFirst'
             /\ (Writing' <=> Writing) /\ Written' = Written
  BY <1>0, TreesAssumed DEF Y!Edit, Undisturbed, RemovesFirst, Writing, Written
<1>1. CASE \E t \in Sources : Y!EditInputs(t)
  <2>1. Y!Edit /\ UNCHANGED <<disk, generated, run, kills, stray>> /\ source' \in Sources
    BY <1>1 DEF Y!EditInputs
  <2>2. Y!TypeOK'
    BY <1>0, <2>1 DEF Y!Edit
  <2>3. Accounted' /\ Removed'
    BY <1>0, <2>1 DEF Accounted, Removed, Y!Listed
  <2> QED BY <1>0, <2>1, <2>2, <2>3
<1>2. CASE \E p \in Paths, text \in {Absent, Foreign} : Y!EditOutput(p, text)
  <2>1. PICK p \in Paths, text \in {Absent, Foreign} : Y!EditOutput(p, text)
    BY <1>2
  <2>2. /\ Y!Edit /\ UNCHANGED <<source, generated, run, kills>>
        /\ disk' = [disk EXCEPT ![p] = text]
        /\ stray' = IF text = Absent THEN stray ELSE stray \cup {p}
    BY <2>1 DEF Y!EditOutput
  <2>3. Y!TypeOK'
    BY <1>0, <2>2 DEF Y!Edit, Y!Texts
  <2>4. Accounted' /\ Removed'
    BY <1>0, <2>2 DEF Accounted, Removed, Y!Listed
  <2> QED BY <1>0, <2>2, <2>3, <2>4
<1>3. CASE Y!EditLock
  <2>1. Y!Edit /\ UNCHANGED <<source, disk, run, kills>>
    BY <1>3 DEF Y!EditLock
  <2>2. Y!TypeOK'
    BY <1>0, <1>3, <2>1, LockEdited DEF Y!Edit
  <2>3. Accounted' /\ Removed'
    BY <1>0, <1>3, <2>1, LockEdited DEF Accounted, Removed
  <2> QED BY <1>0, <2>1, <2>2, <2>3
<1> QED BY <1>1, <1>2, <1>3

LEMMA RenderNext == RenderInv /\ [Y!Next]_(Y!vars) => RenderInv'
<1> SUFFICES ASSUME RenderInv, [Y!Next]_(Y!vars) PROVE RenderInv'
  OBVIOUS
<1>1. CASE Y!Sync
  BY <1>1, ReadingSteps, FileRemoved, FileWritten, WriteLockStep DEF Y!Sync
<1>2. CASE Y!Kill
  BY <1>2, SyncKilled
<1>3. CASE UNCHANGED Y!vars
  <2>1. UNCHANGED <<Y!Listed(generated), Writing, Written>>
    BY <1>3 DEF Y!vars, Y!Listed, Writing, Written
  <2> QED BY <1>3, <2>1 DEF RenderInv, Y!TypeOK, RemovesFirst, Accounted, Removed, Undisturbed, Y!vars
<1> QED BY <1>1, <1>2, <1>3, BesideSync DEF Y!Next

LEMMA RenderKept == Y!Spec => []RenderInv
BY RenderInit, RenderNext, PTL DEF Y!Spec

\* Whatever is edited, merged or killed, a tree that `tac check` passes holds what
\* a sync would write, and every other generated file in it is one that a hand
\* put there, or whose lock line was lost, outside the folders generated whole.
LEMMA ChecksKept == Y!Spec => []Y!CleanIsRendered
<1>1. RenderInv => Y!CleanIsRendered
  <2> SUFFICES ASSUME RenderInv, run = Y!Idle, Y!Clean, NEW p \in Paths
               PROVE IF p \in Rendered[source] THEN disk[p] = source
                     ELSE disk[p] # Absent => p \in stray \ Owned
    BY DEF Y!CleanIsRendered
  <2>1. Written = {}
    BY DEF Written, Writing, Y!Idle
  <2> QED BY <2>1 DEF Y!Clean, Y!Unexpected, RenderInv, Accounted
<1> QED BY <1>1, RenderKept, PTL

\* An undisturbed sync leaves a tree that check passes, whatever it found; but for
\* a file in a folder generated whole that no lock lists, which check names.
LEMMA RepairsKept == Y!Spec => Y!SyncRepairs
<1>1. RenderInv /\ [Y!Next]_(Y!vars)
        => [Y!WriteLock /\ quiet => Y!Clean' \/ Y!Unexpected' \cap stray # {}]_(Y!vars)
  <2> SUFFICES ASSUME RenderInv, Y!WriteLock, quiet, Y!Unexpected' \cap stray = {}
               PROVE Y!Clean'
    OBVIOUS
  <2> USE DEF RenderInv, Y!TypeOK, Y!WriteLock
  <2>1. /\ run.rendered = source /\ run.hashed = source /\ source' = source /\ disk' = disk
        /\ Written = Rendered[source] /\ \A p \in Rendered[source] : disk[p] = source
    BY DEF Undisturbed, Written, Writing
  <2>2. /\ generated' = Y!LockOf(source, source) /\ generated' \in Y!Locks /\ Y!Readable(generated')
        /\ Y!Listed(generated') = Rendered[source]
    BY <2>1, LockListsRender
  <2>3. generated'.inputs = source
    BY <2>2 DEF Y!LockOf
  <2>4. Y!Unexpected' = {}
    BY <2>1, TreesAssumed DEF Y!Unexpected, Accounted, Removed, Writing
  <2> QED BY <2>1, <2>2, <2>3, <2>4 DEF Y!Clean
<1> QED BY <1>1, RenderKept, PTL DEF Y!Spec, Y!SyncRepairs

\* Sync of a host: a tree that `tac check` passes is what a sync of it would write.
THEOREM CheckPassesRenders == HostSpec => []CleanIsRendered
BY PartsAreThemselves, ChecksKept, PTL DEF CleanIsRendered

\* Sync of a host: a sync nobody wrote beside leaves what check passes, whatever it
\* found.
THEOREM SyncLeavesClean == HostSpec => SyncRepairs
BY PartsAreThemselves, RepairsKept, PTL DEF SyncRepairs
=============================================================================
