------------------------------- MODULE Leases -------------------------------
(***************************************************************************)
(* The seats of tac/leases.py: one folder of lease files per host, shared  *)
(* by the runners of every repository.  A runner counts the leases of live *)
(* processes and takes a seat under one file lock, starts its agent while  *)
(* seated, and gives the seat up without the lock.  Processes are killed   *)
(* anywhere; the kernel then drops their lock and frees their pid, but     *)
(* neither their lease file nor an agent they started.                     *)
(***************************************************************************)
EXTENDS Integers, FiniteSets

CONSTANTS
  Procs,        \* runners: `tac run` and `tac inbox watch` of any repository
  Pids,         \* process ids of the host
  Files,        \* lease files (uuid names)
  NoProc, NoPid, NoFile,
  Budget,       \* [Procs -> Nat]: teams.max_local_agents of its repository
  PidReuse,     \* BOOLEAN: the kernel may give out the pid of a dead process
                \* while a lease file still names it
  MaxCrashes    \* bound on kills

ASSUME LeasesAssumption ==
  /\ NoProc \notin Procs /\ NoPid \notin Pids /\ NoFile \notin Files
  /\ "none" \notin Pids /\ "torn" \notin Pids
  /\ IsFiniteSet(Procs) /\ IsFiniteSet(Files)
  /\ Budget \in [Procs -> Nat]
  /\ PidReuse \in BOOLEAN
  /\ MaxCrashes \in Nat

VARIABLES
  pid,       \* pid of each process, NoPid when it does not run
  pc,        \* step of each process
  lock,      \* holder of leases/.lock
  file,      \* per lease file: the pid in it, "torn", or "none"
  mine,      \* per process, the lease it holds or is writing
  todo,      \* per process, the files its scan has still to judge
  held,      \* per process, the files its scan counted
  agents,    \* leases under which an agent was started and still runs
  crashes,
  before     \* history: the processes seated when the lock was taken

vars == <<pid, pc, lock, file, mine, todo, held, agents, crashes, before>>

TypeOK ==
  /\ pid \in [Procs -> Pids \cup {NoPid}]
  /\ pc \in [Procs -> {"off", "idle", "scan", "write", "seated"}]
  /\ lock \in Procs \cup {NoProc}
  /\ file \in [Files -> Pids \cup {"none", "torn"}]
  /\ mine \in [Procs -> Files \cup {NoFile}]
  /\ todo \in [Procs -> SUBSET Files] /\ held \in [Procs -> SUBSET Files]
  /\ agents \subseteq Files
  /\ crashes \in 0..MaxCrashes
  /\ before \in [Procs -> SUBSET Procs]

Init ==
  /\ pid = [p \in Procs |-> NoPid]
  /\ pc = [p \in Procs |-> "off"]
  /\ lock = NoProc
  /\ file = [f \in Files |-> "none"]
  /\ mine = [p \in Procs |-> NoFile]
  /\ todo = [p \in Procs |-> {}] /\ held = [p \in Procs |-> {}]
  /\ agents = {}
  /\ crashes = 0
  /\ before = [p \in Procs |-> {}]

\* os.kill(pid, 0) on the pid a lease names.
Alive(i) == \E p \in Procs : pid[p] = i
Seated == {p \in Procs : pc[p] = "seated"}
OnDisk == {f \in Files : file[f] # "none"}

Goto(p, label) == pc' = [pc EXCEPT ![p] = label]
\* The scan's local variables go out of scope.
Forget(p) == /\ todo' = [todo EXCEPT ![p] = {}]
             /\ held' = [held EXCEPT ![p] = {}]
             /\ before' = [before EXCEPT ![p] = {}]

-----------------------------------------------------------------------------
Start(p) ==
  /\ pc[p] = "off"
  /\ \E i \in Pids :
       /\ ~Alive(i)
       /\ PidReuse \/ \A f \in Files : file[f] # i
       /\ pid' = [pid EXCEPT ![p] = i]
  /\ Goto(p, "idle")
  /\ UNCHANGED <<lock, file, mine, todo, held, agents, crashes, before>>

\* Mutant: nothing keeps two runners from counting at once.
LockAnyway(p) ==
  /\ pc[p] = "idle"
  /\ lock' = p
  /\ todo' = [todo EXCEPT ![p] = OnDisk]
  /\ held' = [held EXCEPT ![p] = {}]
  /\ before' = [before EXCEPT ![p] = Seated]
  /\ Goto(p, "scan")
  /\ UNCHANGED <<pid, file, mine, agents, crashes>>

\* acquire: flock, then one listing of the folder.
Lock(p) ==
  /\ pc[p] = "idle" /\ lock = NoProc
  /\ lock' = p
  /\ todo' = [todo EXCEPT ![p] = OnDisk]
  /\ held' = [held EXCEPT ![p] = {}]
  /\ before' = [before EXCEPT ![p] = Seated]
  /\ Goto(p, "scan")
  /\ UNCHANGED <<pid, file, mine, agents, crashes>>

\* Mutant: every lease counts, its process gone or not.
LiveForever(f) == file[f] \in Pids
\* Mutant: a process os.kill may not signal is taken for a dead one.
LiveIfOurs(f) == lock \in Procs /\ file[f] = pid[lock]

\* A lease that can be read and whose process runs.
Live(f) == file[f] \in Pids /\ Alive(file[f])

\* live: a lease of a running process counts; a dead or unreadable one is
\* unlinked, and so is nothing when its holder released it after the listing.
Judge(p, f) ==
  /\ pc[p] = "scan" /\ f \in todo[p]
  /\ todo' = [todo EXCEPT ![p] = @ \ {f}]
  /\ IF Live(f)
     THEN /\ held' = [held EXCEPT ![p] = @ \cup {f}]
          /\ UNCHANGED file
     ELSE /\ file' = [file EXCEPT ![f] = "none"]
          /\ UNCHANGED held
  /\ UNCHANGED <<pid, pc, lock, mine, agents, crashes, before>>

Counted(p) == pc[p] = "scan" /\ todo[p] = {}

\* No seat: the stage is blocked, the inbox line refused.
Refuse(p) ==
  /\ Counted(p) /\ Cardinality(held[p]) >= Budget[p]
  /\ lock' = NoProc
  /\ Goto(p, "idle") /\ Forget(p)
  /\ UNCHANGED <<pid, file, mine, agents, crashes>>

\* write_text opens the file before it fills it.
Take(p) ==
  /\ Counted(p) /\ Cardinality(held[p]) < Budget[p]
  /\ \E f \in Files \ (OnDisk \cup agents) :
       /\ file' = [file EXCEPT ![f] = "torn"]
       /\ mine' = [mine EXCEPT ![p] = f]
  /\ Goto(p, "write") /\ Forget(p)
  /\ UNCHANGED <<pid, lock, agents, crashes>>

Write(p) ==
  /\ pc[p] = "write"
  /\ file' = [file EXCEPT ![mine[p]] = pid[p]]
  /\ lock' = NoProc
  /\ Goto(p, "seated")
  /\ UNCHANGED <<pid, mine, todo, held, agents, crashes, before>>

\* dispatch starts one agent at a time and waits for it; an agent stage may
\* start a second one for the repair pass, an inbox line starts none.
StartAgent(p) ==
  /\ pc[p] = "seated"
  /\ agents' = agents \cup {mine[p]}
  /\ UNCHANGED <<pid, pc, lock, file, mine, todo, held, crashes, before>>

EndAgent(f) ==
  /\ f \in agents
  /\ agents' = agents \ {f}
  /\ UNCHANGED <<pid, pc, lock, file, mine, todo, held, crashes, before>>

\* release, in the finally of the stage or line: no lock is taken.
Release(p) ==
  /\ pc[p] = "seated" /\ mine[p] \notin agents
  /\ file' = [file EXCEPT ![mine[p]] = "none"]
  /\ mine' = [mine EXCEPT ![p] = NoFile]
  /\ Goto(p, "idle")
  /\ UNCHANGED <<pid, lock, todo, held, agents, crashes, before>>

Gone(p) == /\ pid' = [pid EXCEPT ![p] = NoPid]
           /\ mine' = [mine EXCEPT ![p] = NoFile]
           /\ Goto(p, "off") /\ Forget(p)

Exit(p) ==
  /\ pc[p] = "idle" /\ Gone(p)
  /\ UNCHANGED <<lock, file, agents, crashes>>

Crash(p) ==
  /\ pc[p] # "off" /\ Gone(p)
  /\ crashes < MaxCrashes /\ crashes' = crashes + 1
  /\ lock' = IF lock = p THEN NoProc ELSE lock
  /\ UNCHANGED <<file, agents>>

Next ==
  \/ \E p \in Procs :
       \/ Start(p) \/ Lock(p) \/ Refuse(p) \/ Take(p) \/ Write(p)
       \/ StartAgent(p) \/ Release(p) \/ Exit(p) \/ Crash(p)
       \/ \E f \in Files : Judge(p, f)
  \/ \E f \in Files : EndAgent(f)

Spec == Init /\ [][Next]_vars

-----------------------------------------------------------------------------
(* Properties *)

\* No scan ever reclaims the seat of a runner that still works under it: its
\* lease stays on disk with its pid, whoever judges, releases or dies.
SeatKept == \A p \in Seated : mine[p] \in Files /\ file[mine[p]] = pid[p]

\* Two runners never both take the last seat: whoever gets one sees at most its
\* own budget of runners seated, itself included, at that moment.
BudgetKept ==
  [][\A p \in Procs : p \in Seated' \ Seated => Cardinality(Seated') <= Budget[p]]_vars

\* leases.acquire and release: the seats are as if counting and taking were one step,
\* one after the other, though leases are listed, judged, written and removed one by one.
Seating == INSTANCE HostSeats WITH seated <- Seated
ImplementsSeats == Seating!Spec

\* A crashed run never keeps a seat: a runner is refused only when its budget of
\* other runners really were seated when it began to count.
RefusedOnlyWhenFull ==
  \A p \in Procs : Counted(p) /\ Cardinality(held[p]) >= Budget[p]
                     => Cardinality(before[p]) >= Budget[p]

=============================================================================
