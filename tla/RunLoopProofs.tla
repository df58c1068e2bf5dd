---------------------------- MODULE RunLoopProofs ----------------------------
(***************************************************************************)
(* Theorems about the run loop, for every pipeline, any number of resumes, *)
(* crashes and outside edits.  The order of stages and the owner's consent *)
(* hold for any number of processes; that nothing done is forgotten, and   *)
(* that what is published was gated, hold for one process at a time, since *)
(* nothing locks the checkpoint.                                           *)
(***************************************************************************)
EXTENDS RunLoop, TLAPS

AtWork == {"agent", "dispatch", "repair", "gates", "judge"}
InStage == AtWork \cup {"effect", "perform", "human"}
Signed == {"signed", "expired"}

OneProcess == \A p, q \in Procs : p = q

(* A copy of the state, read against a queue and a set of performed effects. *)

\* What a stage needs is done before the stage is anything but ready.
InOrder(c) ==
  \A s \in Stages : c.st[s] # "ready" => \A d \in DependsOn[s] : c.st[d] \in Satisfied

\* Only what does not apply is skipped, only what applies completes.
WhenOK(c) ==
  \A s \in Stages : /\ c.st[s] = "complete" => Applies[s]
                    /\ c.st[s] = "skipped" => ~Applies[s]

HumanOK(c, queue) ==
  \A s \in Stages : Kind[s] = "human" =>
    /\ c.asked[s] => queue[<<s, "question">>] \in {"open", "answered"}
    /\ c.st[s] = "complete" => queue[<<s, "question">>] = "answered"

EffectOK(c, performed) ==
  \A s \in Stages :
    /\ \A e \in c.observed[s] : \E d \in performed : d[2] = e
    /\ Kind[s] = "effect" /\ c.st[s] = "complete" => Range(Rest[s]) \subseteq c.observed[s]

CopyOK(c, queue, performed) ==
  InOrder(c) /\ WhenOK(c) /\ HumanOK(c, queue) /\ EffectOK(c, performed)

\* What b has of a: done stages, commits, observed effects.
Keeps(a, b) ==
  \A s \in Stages : /\ a.st[s] \in Satisfied => b.st[s] = a.st[s]
                    /\ a.sha[s] # NoSha => b.sha[s] = a.sha[s]
                    /\ a.observed[s] \subseteq b.observed[s]

\* Where a process stands says what it holds.
Control(p) ==
  /\ mem[p].status = "running"
  /\ pc[p] \in InStage \cup {"settle", "stop"} => pos[p] \in 1..Len(Order)
  /\ pc[p] \in InStage =>
       mem[p].st[Cur(p)] \notin Satisfied /\ Unmet(p) = {} /\ Applies[Cur(p)]
  /\ pc[p] \in AtWork => Kind[Cur(p)] \in {"agent", "gate"}
  /\ pc[p] \in {"effect", "perform"} => Kind[Cur(p)] = "effect"
  /\ pc[p] = "human" => Kind[Cur(p)] = "human"
  /\ pc[p] # "off" => \A i \in 1..(pos[p] - 1) : mem[p].st[Order[i]] \in Satisfied
  /\ pc[p] = "perform" =>
       /\ head_of[p] \in Versions /\ turn[p] \in 1..(Len(Rest[Cur(p)]) + 1)
       /\ \A i \in 1..(turn[p] - 1) : Rest[Cur(p)][i] \in mem[p].observed[Cur(p)]
       /\ NeedsApproval(Cur(p)) => approvals[<<Cur(p), head_of[p]>>] \in Signed

\* No question of a human stage can be cancelled.
QueueOK == \A s \in Stages : Kind[s] = "human" => items[<<s, "question">>] # "cancel"

DiskOK ==
  /\ CopyOK(disk, items, did)
  /\ disk.status = "complete" => \A s \in Stages : disk.st[s] \in Satisfied

IInv ==
  /\ TypeOK /\ QueueOK /\ DiskOK /\ NoEffectUnsigned
  /\ \A p \in Procs : Control(p) /\ CopyOK(mem[p], items, did)
  /\ OneProcess => \A p \in Procs : pc[p] # "off" => Keeps(disk, mem[p])

-----------------------------------------------------------------------------
(* Copies of the state *)

LEMMA OrderFacts ==
  /\ \A i \in 1..Len(Order) : Order[i] \in Stages
  /\ \A s \in Stages : \E i \in 1..Len(Order) : Order[i] = s
BY RunLoopAssumption DEF Range

\* What is asked stays asked, and what is answered stays answered.
QueueGrows(q, r) ==
  \A s \in Stages : Kind[s] = "human" =>
    /\ q[<<s, "question">>] \in {"open", "answered"} => r[<<s, "question">>] \in {"open", "answered"}
    /\ q[<<s, "question">>] = "answered" => r[<<s, "question">>] = "answered"

LEMMA CopyStays ==
  ASSUME NEW c, NEW q, NEW r, NEW d, NEW e,
         CopyOK(c, q, d), QueueGrows(q, r), d \subseteq e
  PROVE  CopyOK(c, r, e)
<1>1. HumanOK(c, r)
  BY DEF CopyOK, HumanOK, QueueGrows
<1>2. EffectOK(c, e)
  BY DEF CopyOK, EffectOK
<1> QED BY <1>1, <1>2 DEF CopyOK

\* Two copies that differ in the status of the run at most.
Copied(a, b) ==
  a.st = b.st /\ a.asked = b.asked /\ a.sha = b.sha /\ a.observed = b.observed

LEMMA CopiedOK ==
  ASSUME NEW a, NEW b, NEW q, NEW d, CopyOK(b, q, d), Copied(a, b)
  PROVE  CopyOK(a, q, d)
BY DEF CopyOK, Copied, InOrder, WhenOK, HumanOK, EffectOK

LEMMA KeepsTrans ==
  ASSUME NEW a, NEW b, NEW c, Keeps(a, b), Keeps(b, c)
  PROVE  Keeps(a, c)
BY DEF Keeps

LEMMA KeepsCopied ==
  ASSUME NEW a, NEW b, NEW c, Keeps(a, b), Copied(c, b)
  PROVE  Keeps(a, c)
BY DEF Keeps, Copied

\* A stage that was not done takes a new state, and may have asked for something.
LEMMA StageMoves ==
  ASSUME NEW c \in State, NEW q, NEW d, CopyOK(c, q, d),
         NEW s \in Stages, c.st[s] \notin Satisfied,
         \A e \in DependsOn[s] : c.st[e] \in Satisfied,
         NEW x \in StageStates \ {"ready"},
         x = "complete" => /\ Applies[s]
                           /\ Kind[s] = "human" => q[<<s, "question">>] = "answered"
                           /\ Kind[s] = "effect" => Range(Rest[s]) \subseteq c.observed[s],
         x = "skipped" => ~Applies[s],
         NEW n \in State, n.st = [c.st EXCEPT ![s] = x],
         n.sha = c.sha, n.observed = c.observed,
         \A t \in Stages : t # s => n.asked[t] = c.asked[t],
         Kind[s] = "human" /\ n.asked[s] => q[<<s, "question">>] \in {"open", "answered"}
  PROVE  CopyOK(n, q, d) /\ Keeps(c, n)
<1>1. DOMAIN c.st = Stages
  BY DEF State
<1>2. n.st[s] = x /\ \A t \in Stages : t # s => n.st[t] = c.st[t]
  BY <1>1
<1>3. InOrder(n)
  <2>1. \A t \in Stages : c.st[t] \in Satisfied => n.st[t] \in Satisfied
    BY <1>2
  <2> QED BY <1>2, <2>1, RunLoopAssumption DEF InOrder, CopyOK
<1>4. WhenOK(n)
  BY <1>2 DEF WhenOK, CopyOK
<1>5. HumanOK(n, q)
  BY <1>2 DEF HumanOK, CopyOK
<1>6. EffectOK(n, d)
  BY <1>2 DEF EffectOK, CopyOK
<1>7. Keeps(c, n)
  BY <1>2 DEF Keeps
<1> QED BY <1>3, <1>4, <1>5, <1>6, <1>7 DEF CopyOK

-----------------------------------------------------------------------------
(* A step of one process: what has to be shown of it *)

\* The other processes do not move.
Alone(p) ==
  \A q \in Procs \ {p} :
    /\ pc'[q] = pc[q] /\ mem'[q] = mem[q] /\ pos'[q] = pos[q]
    /\ head_of'[q] = head_of[q] /\ turn'[q] = turn[q]

\* The world goes on: nothing asked, answered, signed or performed is taken back,
\* and what is performed was signed for.
WorldGrows ==
  /\ QueueGrows(items, items') /\ QueueOK' /\ did \subseteq did'
  /\ \A a \in Stages \X Versions : approvals[a] \in Signed => approvals'[a] \in Signed
  /\ \A d \in did' \ did : ApprovalsAsked => approvals'[<<d[1], d[3]>>] \in Signed

\* The checkpoint is left alone, or is the process's copy with a status.
Saved(p) ==
  \/ disk' = disk
  \/ /\ Copied(disk', mem'[p])
     /\ disk'.status = "complete" => \A s \in Stages : mem'[p].st[s] \in Satisfied

LEMMA WorldKept ==
  ASSUME IInv, WorldGrows
  PROVE  NoEffectUnsigned' /\ QueueOK' /\ CopyOK(disk, items', did')
<1>1. CopyOK(disk, items', did')
  BY CopyStays DEF IInv, DiskOK, WorldGrows
<1>2. \A d \in did : <<d[1], d[3]>> \in Stages \X Versions
  BY DEF IInv, TypeOK
<1>3. NoEffectUnsigned'
  BY <1>2 DEF IInv, WorldGrows, NoEffectUnsigned, Signed
<1> QED BY <1>1, <1>3 DEF WorldGrows

LEMMA OthersKept ==
  ASSUME IInv, WorldGrows, NEW p \in Procs, Alone(p), NEW q \in Procs \ {p}
  PROVE  Control(q)' /\ CopyOK(mem'[q], items', did')
<1>1. CopyOK(mem[q], items', did')
  BY CopyStays DEF IInv, WorldGrows
<1>2. Control(q)
  BY DEF IInv
<1>3. /\ pc'[q] = pc[q] /\ mem'[q] = mem[q] /\ pos'[q] = pos[q]
      /\ head_of'[q] = head_of[q] /\ turn'[q] = turn[q]
  BY DEF Alone
<1>4. Cur(q)' = Cur(q) /\ Unmet(q)' = Unmet(q)
  BY <1>3 DEF Cur, Unmet
<1>5. pc[q] = "perform" => Cur(q) \in Stages
  BY <1>2, OrderFacts DEF Control, Cur, InStage
<1>6. pc[q] = "perform" /\ NeedsApproval(Cur(q)) =>
        approvals'[<<Cur(q), head_of[q]>>] \in Signed
  BY <1>2, <1>5 DEF Control, WorldGrows
<1>7. Control(q)'
  BY <1>2, <1>3, <1>4, <1>6 DEF Control
<1> QED BY <1>1, <1>3, <1>7

LEMMA StepGoal ==
  ASSUME IInv, TypeOK', NEW p \in Procs, Alone(p), WorldGrows, Saved(p),
         Control(p)', CopyOK(mem'[p], items', did'), Keeps(mem[p], mem'[p]), pc[p] # "off"
  PROVE  IInv' /\ (OneProcess => Keeps(disk, disk'))
<1>1. NoEffectUnsigned' /\ QueueOK' /\ CopyOK(disk, items', did')
  BY WorldKept
<1>2. DiskOK'
  <2>1. CASE disk' = disk
    BY <1>1, <2>1 DEF IInv, DiskOK
  <2>2. CASE Copied(disk', mem'[p])
              /\ (disk'.status = "complete" => \A s \in Stages : mem'[p].st[s] \in Satisfied)
    BY <2>2, CopiedOK DEF DiskOK, Copied
  <2> QED BY <2>1, <2>2 DEF Saved
<1>3. \A q \in Procs : Control(q)' /\ CopyOK(mem'[q], items', did')
  BY OthersKept
<1>4. Keeps(disk', disk') /\ Keeps(disk, disk)
  BY DEF Keeps
<1>5. OneProcess => Keeps(disk, mem'[p])
  BY KeepsTrans DEF IInv
<1>6. OneProcess => Keeps(disk, disk')
  BY <1>4, <1>5, KeepsCopied DEF Saved
<1>7. OneProcess => Keeps(disk', mem'[p])
  <2>1. CASE disk' = disk
    BY <1>5, <2>1
  <2>2. CASE Copied(disk', mem'[p])
    BY <2>2 DEF Keeps, Copied
  <2> QED BY <2>1, <2>2 DEF Saved
<1>8. OneProcess => \A q \in Procs : pc'[q] # "off" => Keeps(disk', mem'[q])
  BY <1>7 DEF OneProcess
<1> QED BY <1>1, <1>2, <1>3, <1>6, <1>8 DEF IInv

\* The stage a process is in.
LEMMA InHand ==
  ASSUME IInv, NEW p \in Procs, pc[p] \in InStage
  PROVE  /\ Cur(p) \in Stages /\ mem[p] \in State /\ mem[p].status = "running"
         /\ mem[p].st[Cur(p)] \notin Satisfied /\ Applies[Cur(p)]
         /\ \A d \in DependsOn[Cur(p)] : mem[p].st[d] \in Satisfied
         /\ pc[p] # "off"
<1>1. Control(p) /\ mem[p] \in State
  BY DEF IInv, TypeOK
<1>2. Cur(p) \in Stages
  BY <1>1, OrderFacts DEF Control, Cur
<1> QED BY <1>1, <1>2 DEF Control, Unmet, InStage, AtWork

\* A stage ends, one way or another: what has to be shown of it.
LEMMA Settles ==
  ASSUME IInv, TypeOK', NEW p \in Procs, Alone(p), WorldGrows, Saved(p),
         pc[p] \in InStage, pc'[p] = "settle", pos'[p] = pos[p],
         NEW x \in StageStates \ {"ready", "skipped"},
         mem'[p].st = [mem[p].st EXCEPT ![Cur(p)] = x],
         mem'[p].sha = mem[p].sha, mem'[p].observed = mem[p].observed,
         mem'[p].status = mem[p].status,
         \A t \in Stages : t # Cur(p) => mem'[p].asked[t] = mem[p].asked[t],
         Kind[Cur(p)] = "human" /\ mem'[p].asked[Cur(p)] =>
           items'[<<Cur(p), "question">>] \in {"open", "answered"},
         x = "complete" => /\ Kind[Cur(p)] = "human" => items'[<<Cur(p), "question">>] = "answered"
                           /\ Kind[Cur(p)] = "effect" =>
                                Range(Rest[Cur(p)]) \subseteq mem[p].observed[Cur(p)]
  PROVE  IInv' /\ (OneProcess => Keeps(disk, disk'))
<1>1. CopyOK(mem[p], items', did')
  BY CopyStays DEF IInv, WorldGrows
<1>2. mem'[p] \in State
  BY DEF TypeOK
<1>3. CopyOK(mem'[p], items', did') /\ Keeps(mem[p], mem'[p])
  BY <1>1, <1>2, InHand, StageMoves
<1>4. Control(p)'
  <2>1. Control(p) /\ Cur(p)' = Cur(p)
    BY DEF IInv, Cur
  <2>2. \A i \in 1..(pos[p] - 1) : mem'[p].st[Order[i]] \in Satisfied
    <3> SUFFICES ASSUME NEW i \in 1..(pos[p] - 1)
                 PROVE  mem'[p].st[Order[i]] \in Satisfied
      OBVIOUS
    <3>1. mem[p].st[Order[i]] \in Satisfied
      BY <2>1, InHand DEF Control
    <3>2. Order[i] # Cur(p)
      BY <3>1, InHand
    <3>3. mem'[p].st[Order[i]] = mem[p].st[Order[i]]
      BY <3>2
    <3> QED BY <3>1, <3>3
  <2> QED BY <2>1, <2>2, InHand DEF Control, InStage, AtWork
<1> QED BY <1>3, <1>4, InHand, StepGoal

-----------------------------------------------------------------------------
(* Types *)

Labels == InStage \cup {"off", "advance", "settle", "stop"}

LEMMA BecomesFacts ==
  ASSUME TypeOK, NEW p \in Procs, Cur(p) \in Stages, NEW x \in StageStates, Becomes(p, x)
  PROVE  /\ mem' \in [Procs -> State] /\ pc' \in [Procs -> Labels] /\ pc'[p] = "settle"
         /\ mem'[p].st = [mem[p].st EXCEPT ![Cur(p)] = x]
         /\ mem'[p].sha = mem[p].sha /\ mem'[p].observed = mem[p].observed
         /\ mem'[p].status = mem[p].status /\ mem'[p].asked = mem[p].asked
         /\ \A q \in Procs \ {p} : pc'[q] = pc[q] /\ mem'[q] = mem[q]
<1>1. mem \in [Procs -> State] /\ pc \in [Procs -> Labels]
  BY DEF TypeOK, Labels, InStage, AtWork
<1> DEFINE n == [mem[p] EXCEPT !.st[Cur(p)] = x]
<1>2. n \in State /\ n.st = [mem[p].st EXCEPT ![Cur(p)] = x]
      /\ n.sha = mem[p].sha /\ n.observed = mem[p].observed
      /\ n.status = mem[p].status /\ n.asked = mem[p].asked
  BY <1>1 DEF State
<1>3. mem' = [mem EXCEPT ![p] = n] /\ pc' = [pc EXCEPT ![p] = "settle"]
  BY DEF Becomes, Goto
<1> HIDE DEF n
<1> QED BY <1>1, <1>2, <1>3 DEF Labels

LEMMA WaitFacts ==
  ASSUME TypeOK, NEW p \in Procs, Cur(p) \in Stages,
         NEW k \in {"question", "escalation"}, WaitForItem(p, k)
  PROVE  /\ mem' \in [Procs -> State] /\ pc' \in [Procs -> Labels] /\ pc'[p] = "settle"
         /\ mem'[p].st = [mem[p].st EXCEPT ![Cur(p)] = "waiting-human"]
         /\ mem'[p].sha = mem[p].sha /\ mem'[p].observed = mem[p].observed
         /\ mem'[p].status = mem[p].status
         /\ \A t \in Stages : t # Cur(p) => mem'[p].asked[t] = mem[p].asked[t]
         /\ \A q \in Procs \ {p} : pc'[q] = pc[q] /\ mem'[q] = mem[q]
         /\ items' \in [Asks -> {"none", "open", "answered", "cancel"}]
         /\ QueueGrows(items, items') /\ (QueueOK => QueueOK')
         /\ items[<<Cur(p), k>>] # "cancel" => items'[<<Cur(p), k>>] \in {"open", "answered"}
<1>1. mem \in [Procs -> State] /\ pc \in [Procs -> Labels]
  BY DEF TypeOK, Labels, InStage, AtWork
<1> DEFINE n == [mem[p] EXCEPT !.st[Cur(p)] = "waiting-human", !.asked[Cur(p)] = TRUE]
<1>2. /\ n \in State /\ n.st = [mem[p].st EXCEPT ![Cur(p)] = "waiting-human"]
      /\ n.sha = mem[p].sha /\ n.observed = mem[p].observed
      /\ n.status = mem[p].status /\ n.asked = [mem[p].asked EXCEPT ![Cur(p)] = TRUE]
  BY <1>1 DEF State, StageStates
<1>3. mem' = [mem EXCEPT ![p] = n] /\ pc' = [pc EXCEPT ![p] = "settle"]
  BY DEF WaitForItem, Goto
<1>4. \A t \in Stages : t # Cur(p) => n.asked[t] = mem[p].asked[t]
  BY <1>2
<1> HIDE DEF n
<1>5. /\ mem' \in [Procs -> State] /\ pc' \in [Procs -> Labels] /\ pc'[p] = "settle"
      /\ mem'[p] = n
      /\ \A q \in Procs \ {p} : pc'[q] = pc[q] /\ mem'[q] = mem[q]
  BY <1>1, <1>2, <1>3 DEF Labels
<1>6. <<Cur(p), k>> \in Asks /\ items \in [Asks -> {"none", "open", "answered", "cancel"}]
  BY DEF Asks, TypeOK
<1>7. items' = Ask(items, <<Cur(p), k>>)
  BY DEF WaitForItem
<1>8. /\ items' \in [Asks -> {"none", "open", "answered", "cancel"}]
      /\ \A a \in Asks : items[a] # "none" => items'[a] = items[a]
      /\ \A a \in Asks : items'[a] # items[a] => items'[a] = "open"
      /\ items'[<<Cur(p), k>>] # "none"
  BY <1>6, <1>7 DEF Ask
<1>9. \A s \in Stages : <<s, "question">> \in Asks
  BY DEF Asks
<1>10. QueueGrows(items, items')
  BY <1>8, <1>9 DEF QueueGrows
<1>11. QueueOK => QueueOK'
  BY <1>8, <1>9 DEF QueueOK
<1>12. items[<<Cur(p), k>>] # "cancel" => items'[<<Cur(p), k>>] \in {"open", "answered"}
  BY <1>6, <1>8
<1> QED BY <1>2, <1>4, <1>5, <1>8, <1>10, <1>11, <1>12

LEMMA TouchedTypes ==
  ASSUME TypeOK, Touched
  PROVE  work' \in Versions /\ head' \in Versions
BY RunLoopAssumption DEF TypeOK, Touched, Versions

LEMMA WorldStill ==
  ASSUME IInv, UNCHANGED <<items, approvals, did>>
  PROVE  WorldGrows
BY DEF IInv, WorldGrows, QueueGrows, QueueOK

LEMMA SavedNow ==
  ASSUME NEW p \in Procs, disk' = mem'[p], mem'[p].status = "running"
  PROVE  Saved(p)
BY DEF Saved, Copied

\* A stage goes on, with the copy as it was.
LEMMA StaysAtWork ==
  ASSUME IInv, TypeOK', NEW p \in Procs, Alone(p), WorldGrows, Saved(p),
         pc[p] \in AtWork, pc'[p] \in AtWork, pos'[p] = pos[p], mem'[p] = mem[p]
  PROVE  IInv' /\ (OneProcess => Keeps(disk, disk'))
<1>1. Control(p) /\ Cur(p)' = Cur(p) /\ Unmet(p)' = Unmet(p)
  BY DEF IInv, Cur, Unmet
<1>2. Control(p)'
  BY <1>1 DEF Control, InStage, AtWork
<1>3. CopyOK(mem'[p], items', did')
  BY CopyStays DEF IInv, WorldGrows
<1>4. Keeps(mem[p], mem'[p]) /\ pc[p] # "off"
  BY DEF Keeps, AtWork
<1> QED BY <1>2, <1>3, <1>4, StepGoal

-----------------------------------------------------------------------------
(* The steps of an agent or gate stage *)

LEMMA FailsStep ==
  ASSUME IInv, NEW p \in Procs, pc[p] \in InStage, Fails(p), TypeOK', did \subseteq did',
         \A d \in did' \ did : ApprovalsAsked => approvals'[<<d[1], d[3]>>] \in Signed,
         UNCHANGED pos, \A q \in Procs \ {p} : head_of'[q] = head_of[q] /\ turn'[q] = turn[q]
  PROVE  IInv' /\ (OneProcess => Keeps(disk, disk'))
<1>1. TypeOK /\ Cur(p) \in Stages /\ Becomes(p, "failed") /\ UNCHANGED <<disk, items, approvals>>
  BY InHand DEF IInv, Fails, owner
<1>2. "failed" \in StageStates \ {"ready", "skipped"}
  BY DEF StageStates, Satisfied
<1>3. /\ pc'[p] = "settle"
      /\ mem'[p].st = [mem[p].st EXCEPT ![Cur(p)] = "failed"]
      /\ mem'[p].sha = mem[p].sha /\ mem'[p].observed = mem[p].observed
      /\ mem'[p].status = mem[p].status /\ mem'[p].asked = mem[p].asked
      /\ \A q \in Procs \ {p} : pc'[q] = pc[q] /\ mem'[q] = mem[q]
  BY <1>1, <1>2, BecomesFacts
<1>4. Alone(p) /\ Saved(p)
  BY <1>1, <1>3 DEF Alone, Saved
<1>5. WorldGrows
  BY <1>1 DEF IInv, WorldGrows, QueueGrows, QueueOK
<1>6. CopyOK(mem[p], items, did)
  BY DEF IInv
<1>7. Kind[Cur(p)] = "human" /\ mem'[p].asked[Cur(p)] =>
         items'[<<Cur(p), "question">>] \in {"open", "answered"}
  BY <1>1, <1>3, <1>6 DEF CopyOK, HumanOK
<1> QED BY <1>1, <1>2, <1>3, <1>4, <1>5, <1>7, Settles

LEMMA AcceptStep ==
  ASSUME IInv, NEW p \in Procs, pc[p] \in {"dispatch", "repair"}, Accept(p), TypeOK',
         UNCHANGED <<pos, acting, did, approvals>>
  PROVE  IInv' /\ (OneProcess => Keeps(disk, disk'))
<1>0. pc[p] \in AtWork /\ pc[p] \in InStage
  BY DEF AtWork, InStage
<1>1. TypeOK /\ Cur(p) \in Stages /\ UNCHANGED items
      /\ Kind[Cur(p)] \in {"agent", "gate"} /\ mem[p].status = "running"
  BY <1>0, InHand DEF IInv, Accept, Control, owner
<1>2. WorldGrows
  BY <1>1, WorldStill
<1>3. CASE Becomes(p, "complete") /\ UNCHANGED disk
  <2>2. "complete" \in StageStates \ {"ready", "skipped"}
    BY DEF StageStates, Satisfied
  <2>3. /\ pc'[p] = "settle"
        /\ mem'[p].st = [mem[p].st EXCEPT ![Cur(p)] = "complete"]
        /\ mem'[p].sha = mem[p].sha /\ mem'[p].observed = mem[p].observed
        /\ mem'[p].status = mem[p].status /\ mem'[p].asked = mem[p].asked
        /\ \A q \in Procs \ {p} : pc'[q] = pc[q] /\ mem'[q] = mem[q]
    BY <1>1, <1>3, <2>2, BecomesFacts
  <2>4. Alone(p) /\ Saved(p)
    BY <1>3, <2>3 DEF Alone, Saved, acting
  <2> QED BY <1>0, <1>1, <1>2, <2>2, <2>3, <2>4, Settles
<1>4. CASE UNCHANGED mem /\ Save(p) /\ Goto(p, "gates")
  <2>1. Saved(p)
    BY <1>1, <1>4, SavedNow DEF Save
  <2>2. pc'[p] = "gates" /\ \A q \in Procs \ {p} : pc'[q] = pc[q]
    BY <1>1, <1>4 DEF Goto, TypeOK
  <2>3. Alone(p)
    BY <1>4, <2>2 DEF Alone, acting
  <2>4. pc'[p] \in AtWork
    BY <2>2 DEF AtWork
  <2> QED BY <1>0, <1>2, <1>4, <2>1, <2>3, <2>4, StaysAtWork
<1> QED BY <1>3, <1>4 DEF Accept

LEMMA WaitStep ==
  ASSUME IInv, NEW p \in Procs, pc[p] \in InStage, NEW k \in {"question", "escalation"},
         WaitForItem(p, k), k = "escalation" => Kind[Cur(p)] # "human",
         TypeOK', UNCHANGED <<pos, acting, did>>
  PROVE  IInv' /\ (OneProcess => Keeps(disk, disk'))
<1>1. TypeOK /\ Cur(p) \in Stages /\ UNCHANGED <<disk, approvals>> /\ QueueOK
  BY InHand DEF IInv, WaitForItem
<1>2. "waiting-human" \in StageStates \ {"ready", "skipped"}
  BY DEF StageStates, Satisfied
<1>3. /\ pc'[p] = "settle"
      /\ mem'[p].st = [mem[p].st EXCEPT ![Cur(p)] = "waiting-human"]
      /\ mem'[p].sha = mem[p].sha /\ mem'[p].observed = mem[p].observed
      /\ mem'[p].status = mem[p].status
      /\ \A t \in Stages : t # Cur(p) => mem'[p].asked[t] = mem[p].asked[t]
      /\ \A q \in Procs \ {p} : pc'[q] = pc[q] /\ mem'[q] = mem[q]
      /\ QueueGrows(items, items') /\ (QueueOK => QueueOK')
      /\ items[<<Cur(p), k>>] # "cancel" => items'[<<Cur(p), k>>] \in {"open", "answered"}
  BY <1>1, WaitFacts, ZenonT(40)
<1>4. Alone(p) /\ Saved(p)
  BY <1>1, <1>3 DEF Alone, Saved, acting
<1>5. WorldGrows
  BY <1>1, <1>3 DEF WorldGrows
<1>6. Kind[Cur(p)] = "human" => items'[<<Cur(p), "question">>] \in {"open", "answered"}
  BY <1>1, <1>3 DEF QueueOK
<1> QED BY <1>2, <1>3, <1>4, <1>5, <1>6, Settles

\* What a stage can do to the copy, by types.
LEMMA StageTypes ==
  ASSUME TypeOK, NEW p \in Procs, Cur(p) \in Stages,
         \/ Fails(p) \/ Accept(p)
         \/ \E x \in StageStates : Becomes(p, x) /\ UNCHANGED <<disk, owner>>
         \/ \E k \in {"question", "escalation"} : WaitForItem(p, k)
  PROVE  /\ mem' \in [Procs -> State] /\ pc' \in [Procs -> Labels] /\ disk' \in State
         /\ items' \in [Asks -> {"none", "open", "answered", "cancel"}]
         /\ UNCHANGED approvals
<1>1. mem \in [Procs -> State] /\ disk \in State /\ pc \in [Procs -> Labels]
      /\ items \in [Asks -> {"none", "open", "answered", "cancel"}]
  BY DEF TypeOK, Labels, InStage, AtWork
<1>2. "failed" \in StageStates /\ "complete" \in StageStates
  BY DEF StageStates, Satisfied
<1>3. CASE \E x \in StageStates : Becomes(p, x) /\ UNCHANGED <<disk, owner>>
  BY <1>1, <1>3, BecomesFacts DEF owner
<1>4. CASE Fails(p)
  BY <1>2, <1>3, <1>4 DEF Fails
<1>5. CASE Accept(p)
  <2>1. CASE Becomes(p, "complete") /\ UNCHANGED disk
    BY <1>2, <1>3, <1>5, <2>1 DEF Accept
  <2>2. CASE UNCHANGED mem /\ Save(p) /\ Goto(p, "gates")
    BY <1>1, <1>5, <2>2 DEF Accept, Save, Goto, owner, Labels, InStage, AtWork
  <2> QED BY <1>5, <2>1, <2>2 DEF Accept
<1>6. CASE \E k \in {"question", "escalation"} : WaitForItem(p, k)
  BY <1>1, <1>6, WaitFacts, ZenonT(40) DEF WaitForItem
<1> QED BY <1>3, <1>4, <1>5, <1>6

LEMMA AgentStep ==
  ASSUME IInv, NEW p \in Procs, AgentStage(p)
  PROVE  IInv' /\ (OneProcess => Keeps(disk, disk'))
<1>1. /\ TypeOK /\ pc[p] \in InStage /\ pc[p] = "agent"
      /\ UNCHANGED <<pos, loop, acting, owner, journal, tree, bounds>>
  BY DEF IInv, AgentStage, InStage, AtWork
<1>2. /\ Cur(p) \in Stages /\ mem[p] \in State /\ mem[p].status = "running"
      /\ mem[p].st[Cur(p)] \notin Satisfied /\ Applies[Cur(p)]
      /\ \A d \in DependsOn[Cur(p)] : mem[p].st[d] \in Satisfied
      /\ Kind[Cur(p)] \in {"agent", "gate"}
  BY <1>1, InHand DEF IInv, Control, AtWork
<1>3. WorldGrows
  BY <1>1, WorldStill DEF owner, journal
<1>4. ASSUME NEW x \in {"blocked", "failed"}, Becomes(p, x), UNCHANGED disk
      PROVE  IInv' /\ (OneProcess => Keeps(disk, disk'))
  <2>1. x \in StageStates \ {"ready", "skipped"} /\ x # "complete"
    BY DEF StageStates, Satisfied
  <2>2. TypeOK'
    BY <1>1, <1>2, <1>4, <2>1, StageTypes
       DEF TypeOK, loop, acting, owner, journal, tree, bounds, Labels, InStage, AtWork
  <2>3. /\ pc'[p] = "settle"
        /\ mem'[p].st = [mem[p].st EXCEPT ![Cur(p)] = x]
        /\ mem'[p].sha = mem[p].sha /\ mem'[p].observed = mem[p].observed
        /\ mem'[p].status = mem[p].status /\ mem'[p].asked = mem[p].asked
        /\ \A q \in Procs \ {p} : pc'[q] = pc[q] /\ mem'[q] = mem[q]
    BY <1>1, <1>2, <1>4, <2>1, BecomesFacts
  <2>4. Alone(p) /\ Saved(p)
    BY <1>1, <1>4, <2>3 DEF Alone, Saved, acting
  <2> QED BY <1>1, <1>2, <1>3, <2>1, <2>2, <2>3, <2>4, Settles
<1>5. ASSUME mem' = [mem EXCEPT ![p].st[Cur(p)] = "running"], Save(p), Goto(p, "dispatch")
      PROVE  IInv' /\ (OneProcess => Keeps(disk, disk'))
  <2> DEFINE n == [mem[p] EXCEPT !.st[Cur(p)] = "running"]
  <2>1. /\ n \in State /\ n.st = [mem[p].st EXCEPT ![Cur(p)] = "running"]
        /\ n.sha = mem[p].sha /\ n.observed = mem[p].observed
        /\ n.status = mem[p].status /\ n.asked = mem[p].asked
    BY <1>2 DEF State, StageStates
  <2>2. mem' = [mem EXCEPT ![p] = n] /\ pc' = [pc EXCEPT ![p] = "dispatch"] /\ disk' = mem'[p]
    BY <1>5 DEF Goto, Save
  <2> HIDE DEF n
  <2>3. /\ mem \in [Procs -> State] /\ pc \in [Procs -> Labels]
    BY <1>1 DEF TypeOK, Labels, InStage, AtWork
  <2>4. /\ mem' \in [Procs -> State] /\ pc' \in [Procs -> Labels] /\ disk' \in State
        /\ mem'[p] = n /\ pc'[p] = "dispatch"
        /\ \A q \in Procs \ {p} : pc'[q] = pc[q] /\ mem'[q] = mem[q]
    BY <2>1, <2>2, <2>3 DEF Labels, InStage, AtWork
  <2>5. TypeOK'
    BY <1>1, <2>4 DEF TypeOK, loop, acting, owner, journal, tree, bounds, Labels, InStage, AtWork
  <2>6. Alone(p) /\ Saved(p)
    BY <1>1, <1>2, <2>1, <2>2, <2>4, SavedNow DEF Alone, acting
  <2>7. "running" \in StageStates \ {"ready", "skipped"}
    BY DEF StageStates, Satisfied
  <2>8. CopyOK(mem[p], items', did')
    BY <1>3, CopyStays DEF IInv, WorldGrows
  <2>9. CopyOK(n, items', did') /\ Keeps(mem[p], n)
    BY <1>2, <2>1, <2>7, <2>8, StageMoves
  <2>10. n.st[Cur(p)] = "running" /\ \A t \in Stages : t # Cur(p) => n.st[t] = mem[p].st[t]
    BY <1>2, <2>1 DEF State
  <2>11. \A t \in Stages : mem[p].st[t] \in Satisfied => n.st[t] \in Satisfied
    BY <1>2, <2>10
  <2>12. Control(p)'
    <3>1. Control(p) /\ Cur(p)' = Cur(p) /\ pos'[p] = pos[p]
      BY <1>1 DEF IInv, Cur
    <3>2. n.st[Cur(p)] \notin Satisfied /\ \A d \in DependsOn[Cur(p)] : n.st[d] \in Satisfied
      BY <1>2, <2>10, <2>11, RunLoopAssumption DEF Satisfied
    <3>3. Unmet(p)' = {}
      BY <2>4, <3>1, <3>2 DEF Unmet
    <3>4. pos[p] \in 1..Len(Order)
          /\ \A i \in 1..(pos[p] - 1) : mem[p].st[Order[i]] \in Satisfied
      BY <1>1, <3>1 DEF Control
    <3>5. \A i \in 1..(pos[p] - 1) : n.st[Order[i]] \in Satisfied
      BY <2>11, <3>4, OrderFacts
    <3> QED BY <1>2, <2>1, <2>4, <3>1, <3>2, <3>3, <3>4, <3>5 DEF Control, InStage, AtWork
  <2> QED BY <1>1, <2>4, <2>5, <2>6, <2>9, <2>12, <1>3, StepGoal
<1> QED BY <1>4, <1>5 DEF AgentStage

LEMMA DispatchStep ==
  ASSUME IInv, NEW p \in Procs, Dispatch(p)
  PROVE  IInv' /\ (OneProcess => Keeps(disk, disk'))
<1>1. /\ TypeOK /\ pc[p] \in InStage /\ pc[p] \in AtWork /\ pc[p] = "dispatch"
      /\ Touched /\ UNCHANGED <<pos, loop, acting, journal, gated, bounds>>
      /\ Cur(p) \in Stages /\ work' \in Versions /\ head' \in Versions
  BY InHand, TouchedTypes DEF IInv, Dispatch, InStage, AtWork
<1>2. CASE Accept(p) \/ Fails(p)
  <2>1. TypeOK' /\ UNCHANGED <<did, approvals>>
    BY <1>1, <1>2, StageTypes
       DEF TypeOK, loop, acting, journal, bounds, Labels, InStage, AtWork
  <2> QED BY <1>1, <1>2, <2>1, AcceptStep, FailsStep DEF acting
<1>3. CASE Goto(p, "repair") /\ UNCHANGED <<disk, mem, owner>>
  <2>1. /\ pc' \in [Procs -> Labels] /\ pc'[p] = "repair"
        /\ \A q \in Procs \ {p} : pc'[q] = pc[q]
    BY <1>1, <1>3 DEF Goto, TypeOK, Labels, InStage, AtWork
  <2>2. TypeOK'
    BY <1>1, <1>3, <2>1
       DEF TypeOK, loop, acting, owner, journal, bounds, Labels, InStage, AtWork
  <2>3. WorldGrows
    BY <1>1, <1>3, WorldStill DEF owner, journal
  <2>4. Alone(p) /\ Saved(p) /\ pc'[p] \in AtWork
    BY <1>1, <1>3, <2>1 DEF Alone, Saved, acting, AtWork
  <2> QED BY <1>1, <1>3, <2>2, <2>3, <2>4, StaysAtWork
<1> QED BY <1>2, <1>3 DEF Dispatch

LEMMA RepairStep ==
  ASSUME IInv, NEW p \in Procs, Repair(p)
  PROVE  IInv' /\ (OneProcess => Keeps(disk, disk'))
<1>1. /\ TypeOK /\ pc[p] \in InStage /\ pc[p] \in AtWork /\ pc[p] = "repair"
      /\ Touched /\ UNCHANGED <<pos, loop, acting, journal, gated, bounds>>
      /\ Cur(p) \in Stages /\ work' \in Versions /\ head' \in Versions
  BY InHand, TouchedTypes DEF IInv, Repair, InStage, AtWork
<1>2. Kind[Cur(p)] # "human"
  BY <1>1 DEF IInv, Control
<1>3. \/ Accept(p) \/ Fails(p)
      \/ \E k \in {"question", "escalation"} : WaitForItem(p, k)
  BY DEF Repair, Escalate
<1>4. TypeOK' /\ UNCHANGED <<did, approvals>>
  BY <1>1, <1>3, StageTypes
     DEF TypeOK, loop, acting, journal, bounds, Labels, InStage, AtWork
<1> QED BY <1>1, <1>2, <1>3, <1>4, AcceptStep, FailsStep, WaitStep DEF acting

LEMMA GatesStep ==
  ASSUME IInv, NEW p \in Procs, RunGates(p) \/ Rerun(p)
  PROVE  IInv' /\ (OneProcess => Keeps(disk, disk'))
<1>1. /\ TypeOK /\ pc[p] \in InStage /\ pc[p] \in AtWork
      /\ UNCHANGED <<pos, acting, journal, bounds>>
      /\ Cur(p) \in Stages /\ mem[p].status = "running"
  BY InHand DEF IInv, RunGates, Rerun, InStage, AtWork
<1>2. Gates[Cur(p)] \in Nat /\ reruns' \in [Procs -> Nat] /\ stalled' \in [Procs -> Nat]
  <2>1. reruns \in [Procs -> Nat] /\ stalled \in [Procs -> Nat] /\ Gates[Cur(p)] \in Nat
    BY <1>1, RunLoopAssumption DEF TypeOK
  <2>2. CASE RunGates(p)
    BY <2>1, <2>2 DEF RunGates
  <2>3. CASE Rerun(p)
    <3>1. CASE UNCHANGED <<reruns, stalled>>
      BY <2>1, <3>1
    <3>2. CASE \E n \in 0..Gates[Cur(p)] :
                 /\ reruns' = [reruns EXCEPT ![p] = @ + 1]
                 /\ stalled' = [stalled EXCEPT ![p] = IF n < failed[p] THEN 0 ELSE @ + 1]
      BY <2>1, <3>2
    <3> QED BY <2>3, <3>1, <3>2 DEF Rerun
  <2> QED BY <2>1, <2>2, <2>3
<1>3. CASE NoVerdict(p)
  <2>1. Fails(p) /\ UNCHANGED <<failed, gated>> /\ work' \in Versions /\ head' \in Versions
    BY <1>1, <1>3, TouchedTypes DEF NoVerdict, TypeOK
  <2>2. TypeOK'
    BY <1>1, <1>2, <2>1, StageTypes
       DEF TypeOK, acting, journal, bounds, Labels, InStage, AtWork
  <2> QED BY <1>1, <2>1, <2>2, FailsStep DEF acting, journal
<1>4. ASSUME NEW n \in 0..Gates[Cur(p)], Round(p, n), UNCHANGED <<mem, owner>>,
             UNCHANGED disk \/ Save(p)
      PROVE  IInv' /\ (OneProcess => Keeps(disk, disk'))
  <2>1. /\ pc' \in [Procs -> Labels] /\ pc'[p] = "judge"
        /\ \A q \in Procs \ {p} : pc'[q] = pc[q]
        /\ failed' \in [Procs -> Nat]
    BY <1>1, <1>2, <1>4 DEF Round, Goto, TypeOK, Labels, InStage, AtWork
  <2>2. gated' \subseteq Versions /\ UNCHANGED <<work, head>>
    BY <1>1, <1>4 DEF Round, TypeOK
  <2>3. disk' \in State /\ Saved(p)
    BY <1>1, <1>4, SavedNow DEF Save, TypeOK, Saved
  <2>4. TypeOK'
    BY <1>1, <1>2, <1>4, <2>1, <2>2, <2>3
       DEF TypeOK, acting, owner, journal, bounds, Labels, InStage, AtWork
  <2>5. WorldGrows
    BY <1>1, <1>4, WorldStill DEF owner, journal
  <2>6. Alone(p) /\ pc'[p] \in AtWork
    BY <1>1, <1>4, <2>1 DEF Alone, acting, AtWork
  <2> QED BY <1>1, <1>4, <2>3, <2>4, <2>5, <2>6, StaysAtWork
<1>5. CASE \E n \in 0..Gates[Cur(p)] :
             Round(p, n) /\ UNCHANGED <<mem, owner>> /\ (UNCHANGED disk \/ Save(p))
  BY <1>4, <1>5
<1>6. \/ NoVerdict(p)
      \/ \E n \in 0..Gates[Cur(p)] :
           Round(p, n) /\ UNCHANGED <<mem, owner>> /\ (UNCHANGED disk \/ Save(p))
  BY DEF RunGates, Rerun
<1> QED BY <1>3, <1>5, <1>6

\* A stage that ends without asking: the copy and the checkpoint.
LEMMA EndsStep ==
  ASSUME IInv, NEW p \in Procs, pc[p] \in InStage, NEW x \in StageStates \ {"ready", "skipped"},
         Becomes(p, x), UNCHANGED <<disk, pos, loop, acting, owner, journal, tree, bounds>>,
         x = "complete" => /\ Kind[Cur(p)] = "human" => items[<<Cur(p), "question">>] = "answered"
                           /\ Kind[Cur(p)] = "effect" =>
                                Range(Rest[Cur(p)]) \subseteq mem[p].observed[Cur(p)]
  PROVE  IInv' /\ (OneProcess => Keeps(disk, disk'))
<1>1. TypeOK /\ Cur(p) \in Stages /\ UNCHANGED <<items, approvals, did>>
  BY InHand DEF IInv, owner, journal
<1>2. TypeOK'
  BY <1>1, StageTypes DEF TypeOK, loop, acting, owner, journal, tree, bounds, Labels, InStage, AtWork
<1>3. /\ pc'[p] = "settle"
      /\ mem'[p].st = [mem[p].st EXCEPT ![Cur(p)] = x]
      /\ mem'[p].sha = mem[p].sha /\ mem'[p].observed = mem[p].observed
      /\ mem'[p].status = mem[p].status /\ mem'[p].asked = mem[p].asked
      /\ \A q \in Procs \ {p} : pc'[q] = pc[q] /\ mem'[q] = mem[q]
  BY <1>1, BecomesFacts
<1>4. Alone(p) /\ Saved(p)
  BY <1>1, <1>3 DEF Alone, Saved, acting
<1>5. WorldGrows
  BY <1>1, WorldStill
<1>6. CopyOK(mem[p], items, did)
  BY DEF IInv
<1>7. Kind[Cur(p)] = "human" /\ mem'[p].asked[Cur(p)] =>
         items'[<<Cur(p), "question">>] \in {"open", "answered"}
  BY <1>1, <1>3, <1>6 DEF CopyOK, HumanOK
<1> QED BY <1>1, <1>2, <1>3, <1>4, <1>5, <1>7, Settles

\* ... and one that asks.
LEMMA AsksStep ==
  ASSUME IInv, NEW p \in Procs, pc[p] \in InStage, WaitForItem(p, "question"),
         UNCHANGED <<pos, loop, acting, journal, tree, bounds>>
  PROVE  IInv' /\ (OneProcess => Keeps(disk, disk'))
<1>1. TypeOK /\ Cur(p) \in Stages /\ UNCHANGED did
  BY InHand DEF IInv, journal
<1>2. TypeOK'
  BY <1>1, StageTypes DEF TypeOK, loop, acting, journal, tree, bounds, Labels, InStage, AtWork
<1> QED BY <1>1, <1>2, WaitStep

LEMMA FailsAlone ==
  ASSUME IInv, NEW p \in Procs, pc[p] \in InStage, Fails(p),
         UNCHANGED <<pos, loop, acting, journal, tree, bounds>>
  PROVE  IInv' /\ (OneProcess => Keeps(disk, disk'))
<1>1. "failed" \in StageStates \ {"ready", "skipped"}
  BY DEF StageStates, Satisfied
<1> QED BY <1>1, EndsStep DEF Fails

LEMMA JudgeStep ==
  ASSUME IInv, NEW p \in Procs, Judge(p)
  PROVE  IInv' /\ (OneProcess => Keeps(disk, disk'))
<1>1. pc[p] \in InStage /\ pc[p] \in AtWork
  BY DEF Judge, InStage, AtWork
<1>2. Kind[Cur(p)] \in {"agent", "gate"}
  BY <1>1 DEF IInv, Control
<1>3. "complete" \in StageStates \ {"ready", "skipped"}
  BY DEF StageStates, Satisfied
<1> QED BY <1>1, <1>2, <1>3, EndsStep, AsksStep, FailsAlone DEF Judge

LEMMA HumanStep ==
  ASSUME IInv, NEW p \in Procs, HumanStage(p)
  PROVE  IInv' /\ (OneProcess => Keeps(disk, disk'))
<1>1. /\ pc[p] \in InStage /\ Kind[Cur(p)] = "human" /\ Cur(p) \in Stages
      /\ UNCHANGED <<pos, loop, acting, journal, tree, bounds>>
  BY InHand DEF HumanStage, InStage, IInv, Control
<1>2. CASE mem[p].asked[Cur(p)]
  <2>1. items[<<Cur(p), "question">>] \in {"open", "answered"}
    BY <1>1, <1>2 DEF IInv, CopyOK, HumanOK
  <2>2. {"complete", "waiting-human"} \subseteq StageStates \ {"ready", "skipped"}
    BY DEF StageStates, Satisfied
  <2> QED BY <1>1, <1>2, <2>1, <2>2, EndsStep DEF HumanStage, ItemOpen
<1>3. CASE ~mem[p].asked[Cur(p)]
  BY <1>1, <1>3, AsksStep, FailsAlone DEF HumanStage
<1> QED BY <1>2, <1>3

-----------------------------------------------------------------------------
(* The steps of an effect stage *)

LEMMA RestFacts ==
  ASSUME NEW s \in Stages
  PROVE  /\ Rest[s] \in Seq(External) /\ Len(Rest[s]) \in Nat
         /\ Range(Rest[s]) = {Rest[s][i] : i \in 1..Len(Rest[s])}
         /\ \A i \in 1..Len(Rest[s]) : Rest[s][i] \in External
BY SMTT(20), RunLoopAssumption DEF Range

LEMMA CommitStep ==
  ASSUME IInv, NEW p \in Procs, CommitEffect(p)
  PROVE  IInv' /\ (OneProcess => Keeps(disk, disk'))
<1> DEFINE s == Cur(p)
           v == IF committed[s] # NoSha THEN committed[s] ELSE work
<1>1. /\ TypeOK /\ pc[p] \in InStage /\ pc[p] = "effect" /\ mem[p].sha[s] = NoSha
      /\ UNCHANGED <<pos, loop, acting, did, work, gated, bounds>>
      /\ s \in Stages /\ mem[p] \in State /\ mem[p].status = "running"
      /\ mem[p].st[s] \notin Satisfied
  BY InHand DEF IInv, CommitEffect, InStage
<1>2. v \in Versions /\ v \in 0..MaxVersion /\ v # NoSha
  BY <1>1, RunLoopAssumption DEF TypeOK, Versions, NoSha
<1>3. CASE /\ committed' = [committed EXCEPT ![s] = v]
           /\ head' = IF committed[s] # NoSha THEN head ELSE work
           /\ mem' = [mem EXCEPT ![p].sha[s] = v]
           /\ Save(p)
           /\ UNCHANGED <<pc, owner>>
  <2> DEFINE n == [mem[p] EXCEPT !.sha[s] = v]
  <2>1. /\ n \in State /\ n.st = mem[p].st /\ n.observed = mem[p].observed
        /\ n.asked = mem[p].asked /\ n.status = mem[p].status
        /\ n.sha = [mem[p].sha EXCEPT ![s] = v]
    BY <1>1, <1>2 DEF State
  <2>2. mem' = [mem EXCEPT ![p] = n] /\ disk' = mem'[p]
    BY <1>3 DEF Save
  <2> HIDE DEF n, v
  <2>3. /\ mem' \in [Procs -> State] /\ mem'[p] = n /\ disk' \in State
        /\ \A q \in Procs \ {p} : mem'[q] = mem[q]
    BY <1>1, <2>1, <2>2 DEF TypeOK
  <2>4. head' \in Versions /\ committed' \in [Stages -> 0..MaxVersion]
    BY <1>1, <1>2, <1>3 DEF TypeOK
  <2>5. TypeOK'
    BY <1>1, <1>3, <2>3, <2>4 DEF TypeOK, loop, acting, owner, bounds
  <2>6. Alone(p) /\ Saved(p)
    BY <1>1, <1>3, <2>1, <2>2, <2>3, SavedNow DEF Alone, acting
  <2>7. WorldGrows
    BY <1>1, <1>3, WorldStill DEF owner
  <2>8. CopyOK(mem[p], items', did')
    BY <2>7, CopyStays DEF IInv, WorldGrows
  <2>9. CopyOK(n, items', did')
    BY <2>1, <2>8 DEF CopyOK, InOrder, WhenOK, HumanOK, EffectOK
  <2>10. \A t \in Stages : t # s => n.sha[t] = mem[p].sha[t]
    BY <2>1
  <2>11. Keeps(mem[p], n)
    BY <1>1, <2>1, <2>10 DEF Keeps
  <2>12. Control(p)'
    <3>1. Control(p) /\ Cur(p)' = Cur(p) /\ pc'[p] = "effect" /\ pos'[p] = pos[p]
      BY <1>1, <1>3 DEF IInv, Cur
    <3>2. mem'[p].st = mem[p].st /\ mem'[p].status = mem[p].status
      BY <2>1, <2>3
    <3>3. Unmet(p)' = Unmet(p)
      BY <3>1, <3>2 DEF Unmet
    <3> QED BY <1>1, <3>1, <3>2, <3>3 DEF Control, InStage, AtWork
  <2> QED BY <1>1, <2>3, <2>5, <2>6, <2>7, <2>9, <2>11, <2>12, StepGoal DEF InStage, AtWork
<1>4. CASE Fails(p) /\ head' \in {head, work} /\ UNCHANGED committed
  <2>1. head' \in Versions
    BY <1>1, <1>4 DEF TypeOK
  <2>2. TypeOK'
    BY <1>1, <1>4, <2>1, StageTypes DEF TypeOK, loop, acting, bounds, Labels, InStage, AtWork
  <2> QED BY <1>1, <1>4, <2>2, FailsStep DEF acting
<1> QED BY <1>3, <1>4 DEF CommitEffect

LEMMA EffectStep ==
  ASSUME IInv, NEW p \in Procs, EffectStage(p)
  PROVE  IInv' /\ (OneProcess => Keeps(disk, disk'))
<1> DEFINE s == Cur(p)
           v == Sha(p)
           w == mem[p].signing[s]
           done == Range(Rest[s]) \subseteq mem[p].observed[s]
<1>1. /\ TypeOK /\ pc[p] \in InStage /\ pc[p] = "effect" /\ Kind[s] = "effect"
      /\ s \in Stages /\ mem[p] \in State /\ Control(p)
      /\ UNCHANGED <<disk, pos, loop, items, journal, tree, bounds>>
  BY InHand DEF IInv, EffectStage, InStage, Control
<1>2. v \in Versions /\ v \in 0..MaxVersion
  <2>1. v # NoSha
    BY DEF EffectStage
  <2>2. mem[p].sha \in [Stages -> 0..MaxVersion] /\ head \in Versions /\ MaxVersion \in Nat
    BY <1>1, RunLoopAssumption DEF TypeOK, State
  <2>3. v = mem[p].sha[s] \/ v = head
    BY DEF Sha
  <2>4. v \in 0..MaxVersion
    BY <1>1, <2>2, <2>3 DEF Versions
  <2> HIDE DEF v
  <2> QED BY <2>1, <2>2, <2>4 DEF Versions, NoSha
<1>3. {"complete", "waiting-human", "failed"} \subseteq StageStates \ {"ready", "skipped"}
  BY DEF StageStates, Satisfied
<1>4. CASE /\ \/ done /\ Becomes(p, "complete")
              \/ Becomes(p, "waiting-human") \/ Becomes(p, "failed")
           /\ UNCHANGED <<approvals, acting>>
  <2>1. UNCHANGED <<disk, pos, loop, acting, owner, journal, tree, bounds>>
    BY <1>1, <1>4 DEF owner
  <2> QED BY <1>1, <1>3, <1>4, <2>1, EndsStep
<1>5. CASE /\ approvals' = Ask(approvals, <<s, v>>)
           /\ mem' = [mem EXCEPT ![p].st[s] = "waiting-human", ![p].signing[s] = v]
           /\ Goto(p, "settle") /\ UNCHANGED acting
  <2> HIDE DEF v, s
  <2> DEFINE n == [mem[p] EXCEPT !.st[s] = "waiting-human", !.signing[s] = v]
  <2>1. /\ n \in State /\ n.st = [mem[p].st EXCEPT ![s] = "waiting-human"]
        /\ n.observed = mem[p].observed /\ n.asked = mem[p].asked
        /\ n.status = mem[p].status /\ n.sha = mem[p].sha
    BY <1>1, <1>2, <1>3 DEF State
  <2> USE DEF s
  <2>2. mem' = [mem EXCEPT ![p] = n] /\ pc' = [pc EXCEPT ![p] = "settle"]
    BY <1>5 DEF Goto
  <2>3. <<s, v>> \in Stages \X Versions
    BY <1>1, <1>2
  <2> HIDE DEF n, v
  <2>4. mem \in [Procs -> State] /\ pc \in [Procs -> Labels]
    BY <1>1 DEF TypeOK, Labels, InStage, AtWork
  <2>5. /\ mem' \in [Procs -> State] /\ mem'[p] = n
        /\ pc' \in [Procs -> Labels] /\ pc'[p] = "settle"
        /\ \A q \in Procs \ {p} : mem'[q] = mem[q] /\ pc'[q] = pc[q]
    BY <2>1, <2>2, <2>4 DEF Labels
  <2>6. /\ approvals' \in [Stages \X Versions -> {"none", "open", "signed", "rejected", "expired"}]
        /\ \A a \in Stages \X Versions : approvals[a] \in Signed => approvals'[a] \in Signed
    BY <1>1, <1>5, <2>3 DEF Ask, TypeOK, Signed
  <2>7. TypeOK'
    BY <1>1, <1>5, <2>5, <2>6
       DEF TypeOK, loop, acting, journal, tree, bounds, Labels, InStage, AtWork
  <2>8. Alone(p) /\ Saved(p)
    BY <1>1, <1>5, <2>5 DEF Alone, Saved, acting
  <2>9. WorldGrows
    BY <1>1, <2>6 DEF IInv, WorldGrows, QueueGrows, QueueOK, journal
  <2> QED BY <1>1, <1>3, <2>1, <2>5, <2>7, <2>8, <2>9, Settles
<1>6. CASE /\ NeedsApproval(s) =>
                w # NoSha /\ approvals[<<s, w>>] # "open" /\ ~Refused(s, w, v)
           /\ head_of' = [head_of EXCEPT ![p] = v]
           /\ turn' = [turn EXCEPT ![p] = 1]
           /\ Goto(p, "perform") /\ UNCHANGED <<mem, approvals>>
  <2> HIDE DEF v
  <2>1. NeedsApproval(s) => approvals[<<s, v>>] \in Signed
    BY <1>6 DEF Refused, Signed
  <2>2. /\ pc' \in [Procs -> Labels] /\ pc'[p] = "perform"
        /\ \A q \in Procs \ {p} : pc'[q] = pc[q]
    BY <1>1, <1>6 DEF Goto, TypeOK, Labels, InStage, AtWork
  <2>3. /\ head_of' \in [Procs -> 0..MaxVersion] /\ head_of'[p] = v
        /\ turn' \in [Procs -> Nat] /\ turn'[p] = 1
        /\ \A q \in Procs \ {p} : head_of'[q] = head_of[q] /\ turn'[q] = turn[q]
    BY <1>1, <1>2, <1>6 DEF TypeOK, Versions
  <2>4. TypeOK'
    BY <1>1, <1>6, <2>2, <2>3
       DEF TypeOK, loop, journal, tree, bounds, Labels, InStage, AtWork
  <2>5. Alone(p) /\ Saved(p)
    BY <1>1, <1>6, <2>2, <2>3 DEF Alone, Saved
  <2>6. WorldGrows
    BY <1>1, <1>6, WorldStill DEF journal
  <2>7. CopyOK(mem'[p], items', did') /\ Keeps(mem[p], mem'[p])
    BY <1>6, <2>6, CopyStays DEF IInv, WorldGrows, Keeps
  <2>8. Control(p)'
    <3>1. Cur(p)' = Cur(p) /\ Unmet(p)' = Unmet(p) /\ pos'[p] = pos[p] /\ mem'[p] = mem[p]
      BY <1>1, <1>6 DEF Cur, Unmet
    <3>2. /\ head_of'[p] \in Versions /\ turn'[p] \in 1..(Len(Rest[Cur(p)]) + 1)
          /\ 1..(turn'[p] - 1) = {}
      BY <1>1, <1>2, <2>3, RestFacts
    <3>3. NeedsApproval(Cur(p)) => approvals'[<<Cur(p), head_of'[p]>>] \in Signed
      BY <1>6, <2>1, <2>3
    <3> QED BY <1>1, <2>2, <3>1, <3>2, <3>3 DEF Control, InStage, AtWork, NeedsApproval
  <2> QED BY <1>1, <2>4, <2>5, <2>6, <2>7, <2>8, StepGoal
<1>7. v # NoSha /\
      \/ done /\ Becomes(p, "complete") /\ UNCHANGED <<approvals, acting>>
      \/ /\ approvals' = Ask(approvals, <<s, v>>)
         /\ mem' = [mem EXCEPT ![p].st[s] = "waiting-human", ![p].signing[s] = v]
         /\ Goto(p, "settle") /\ UNCHANGED acting
      \/ Becomes(p, "waiting-human") /\ UNCHANGED <<approvals, acting>>
      \/ Becomes(p, "failed") /\ UNCHANGED <<approvals, acting>>
      \/ /\ NeedsApproval(s) =>
              w # NoSha /\ approvals[<<s, w>>] # "open" /\ ~Refused(s, w, v)
         /\ head_of' = [head_of EXCEPT ![p] = v]
         /\ turn' = [turn EXCEPT ![p] = 1]
         /\ Goto(p, "perform") /\ UNCHANGED <<mem, approvals>>
  BY DEF EffectStage
<1> QED BY <1>4, <1>5, <1>6, <1>7

LEMMA PerformStep ==
  ASSUME IInv, NEW p \in Procs, Perform(p)
  PROVE  IInv' /\ (OneProcess => Keeps(disk, disk'))
<1> DEFINE s == Cur(p)
           e == Rest[s][turn[p]]
           act == <<s, e, head_of[p]>>
<1>1. /\ TypeOK /\ pc[p] \in InStage /\ pc[p] = "perform" /\ s \in Stages
      /\ mem[p] \in State /\ mem[p].status = "running" /\ mem[p].st[s] \notin Satisfied
      /\ Control(p) /\ turn[p] <= Len(Rest[s])
      /\ UNCHANGED <<pos, loop, head_of, committed, tree, bounds>>
  BY InHand DEF IInv, Perform, InStage
<1>2. /\ head_of[p] \in Versions /\ turn[p] \in 1..Len(Rest[s]) /\ e \in External
      /\ \A i \in 1..(turn[p] - 1) : Rest[s][i] \in mem[p].observed[s]
  BY <1>1, RestFacts DEF Control
<1>3. ApprovalsAsked => approvals[<<s, head_of[p]>>] \in Signed
  <2>1. Rest[s] # <<>>
    BY <1>1, <1>2, RestFacts
  <2> QED BY <1>1, <2>1 DEF Control, NeedsApproval
<1>4. act \in Stages \X External \X Versions /\ act[1] = s /\ act[2] = e /\ act[3] = head_of[p]
  BY <1>1, <1>2
<1>5. CASE /\ did' = did \cup {act}
           /\ mem' = [mem EXCEPT ![p].observed[s] = @ \cup {e}]
           /\ Save(p)
           /\ turn' = [turn EXCEPT ![p] = @ + 1]
           /\ UNCHANGED <<pc, owner>>
  <2> DEFINE n == [mem[p] EXCEPT !.observed[s] = @ \cup {e}]
  <2> HIDE DEF s, e, act
  <2>1. /\ n \in State /\ n.st = mem[p].st /\ n.sha = mem[p].sha
        /\ n.asked = mem[p].asked /\ n.status = mem[p].status
        /\ n.observed = [mem[p].observed EXCEPT ![s] = @ \cup {e}]
    BY <1>1, <1>2 DEF State
  <2>2. mem' = [mem EXCEPT ![p] = n] /\ disk' = mem'[p]
    BY <1>5 DEF Save
  <2>3. /\ n.observed[s] = mem[p].observed[s] \cup {e}
        /\ \A t \in Stages : t # s => n.observed[t] = mem[p].observed[t]
    BY <1>1, <2>1 DEF State
  <2> HIDE DEF n
  <2>4. /\ mem' \in [Procs -> State] /\ mem'[p] = n /\ disk' \in State
        /\ \A q \in Procs \ {p} : mem'[q] = mem[q]
    BY <1>1, <2>1, <2>2 DEF TypeOK
  <2>5. /\ turn' \in [Procs -> Nat] /\ turn'[p] = turn[p] + 1
        /\ \A q \in Procs \ {p} : turn'[q] = turn[q]
    BY <1>1, <1>5 DEF TypeOK
  <2>6. TypeOK'
    BY <1>1, <1>4, <1>5, <2>4, <2>5 DEF TypeOK, loop, owner, tree, bounds
  <2>7. Alone(p) /\ Saved(p)
    BY <1>1, <1>5, <2>1, <2>2, <2>4, <2>5, SavedNow DEF Alone
  <2>8. WorldGrows
    <3>1. UNCHANGED <<items, approvals>>
      BY <1>5 DEF owner
    <3> QED BY <1>3, <1>4, <1>5, <3>1 DEF IInv, WorldGrows, QueueGrows, QueueOK
  <2>9. CopyOK(mem[p], items', did')
    BY <2>8, CopyStays DEF IInv, WorldGrows
  <2>10. EffectOK(n, did')
    <3>1. \A t \in Stages : mem[p].observed[t] \subseteq n.observed[t]
      BY <2>3
    <3>2. \A t \in Stages : \A x \in n.observed[t] : \E d \in did' : d[2] = x
      BY <1>4, <1>5, <2>3, <2>9 DEF CopyOK, EffectOK
    <3> QED BY <2>1, <2>9, <3>1, <3>2 DEF CopyOK, EffectOK
  <2>11. CopyOK(n, items', did') /\ Keeps(mem[p], n)
    BY <2>1, <2>3, <2>9, <2>10 DEF CopyOK, InOrder, WhenOK, HumanOK, Keeps
  <2>12. Control(p)'
    <3>1. /\ Cur(p)' = Cur(p) /\ pc'[p] = "perform" /\ pos'[p] = pos[p]
          /\ UNCHANGED <<approvals, head_of>>
      BY <1>1, <1>5 DEF Cur, owner
    <3>2. mem'[p].st = mem[p].st /\ mem'[p].status = mem[p].status
      BY <2>1, <2>4
    <3>3. Unmet(p)' = Unmet(p)
      BY <3>1, <3>2 DEF Unmet
    <3>4. turn'[p] \in 1..(Len(Rest[s]) + 1)
      BY <1>1, <1>2, <2>5, RestFacts
    <3>5. \A i \in 1..(turn'[p] - 1) : Rest[s][i] \in n.observed[s]
      <4> SUFFICES ASSUME NEW i \in 1..(turn'[p] - 1) PROVE Rest[s][i] \in n.observed[s]
        OBVIOUS
      <4>1. i \in 1..(turn[p] - 1) \/ i = turn[p]
        BY <1>2, <2>5
      <4> QED BY <1>2, <2>3, <4>1 DEF e
    <3> QED BY <1>1, <1>2, <2>4, <3>1, <3>2, <3>3, <3>4, <3>5 DEF Control, InStage, AtWork, s
  <2> QED BY <1>1, <2>4, <2>6, <2>7, <2>8, <2>11, <2>12, StepGoal DEF InStage, AtWork
<1>6. CASE did' \in {did, did \cup {act}} /\ Fails(p) /\ UNCHANGED turn
  <2> HIDE DEF act, s
  <2>1. did' \subseteq Stages \X External \X Versions
    BY <1>1, <1>4, <1>6 DEF TypeOK
  <2>2. TypeOK'
    BY <1>1, <1>6, <2>1, StageTypes DEF TypeOK, loop, tree, bounds, Labels, InStage, AtWork, s
  <2>3. /\ did \subseteq did'
        /\ \A d \in did' \ did : ApprovalsAsked => approvals'[<<d[1], d[3]>>] \in Signed
    BY <1>3, <1>4, <1>6 DEF Fails, owner
  <2> QED BY <1>1, <1>6, <2>2, <2>3, FailsStep
<1> QED BY <1>5, <1>6 DEF Perform

LEMMA PerformEndsStep ==
  ASSUME IInv, NEW p \in Procs, PerformEnds(p)
  PROVE  IInv' /\ (OneProcess => Keeps(disk, disk'))
<1> DEFINE s == Cur(p)
<1>1. /\ pc[p] \in InStage /\ pc[p] = "perform" /\ s \in Stages /\ Control(p)
      /\ turn[p] > Len(Rest[s])
  BY InHand DEF IInv, PerformEnds, InStage
<1>2. Kind[s] = "effect" /\ turn[p] = Len(Rest[s]) + 1
      /\ \A i \in 1..(turn[p] - 1) : Rest[s][i] \in mem[p].observed[s]
  BY <1>1, RestFacts DEF Control
<1>3. Range(Rest[s]) \subseteq mem[p].observed[s]
  <2>1. Len(Rest[s]) \in Nat /\ Range(Rest[s]) = {Rest[s][i] : i \in 1..Len(Rest[s])}
    BY <1>1, RestFacts
  <2> HIDE DEF s
  <2>2. turn[p] - 1 = Len(Rest[s])
    BY <1>2, <2>1
  <2> QED BY <1>2, <2>1, <2>2
<1>4. "complete" \in StageStates \ {"ready", "skipped"}
  BY DEF StageStates, Satisfied
<1> QED BY <1>1, <1>2, <1>3, <1>4, EndsStep DEF PerformEnds

-----------------------------------------------------------------------------
(* advance and resume *)

LEMMA AdvanceStep ==
  ASSUME IInv, NEW p \in Procs, Advance(p)
  PROVE  IInv' /\ (OneProcess => Keeps(disk, disk'))
<1>1. /\ TypeOK /\ pc[p] = "advance" /\ pc[p] # "off" /\ Control(p) /\ mem[p] \in State
      /\ mem[p].status = "running" /\ pos[p] \in 1..(Len(Order) + 1)
      /\ \A i \in 1..(pos[p] - 1) : mem[p].st[Order[i]] \in Satisfied
      /\ UNCHANGED <<loop, acting, owner, journal, tree, bounds>>
  BY DEF IInv, Advance, Control, TypeOK
<1>2. WorldGrows
  BY <1>1, WorldStill DEF owner, journal
<1>3. CopyOK(mem[p], items', did')
  BY <1>2, CopyStays DEF IInv, WorldGrows
<1>4. Len(Order) \in Nat /\ (pos[p] <= Len(Order) => pos[p] \in 1..Len(Order) /\ Cur(p) \in Stages)
  BY <1>1, OrderFacts, RunLoopAssumption DEF Cur
<1>5. pc \in [Procs -> Labels] /\ mem \in [Procs -> State]
  BY <1>1 DEF TypeOK, Labels, InStage, AtWork
\* The end of the run.
<1>6. ASSUME NEW status \in {"complete", "blocked"}, End(p, status),
             status = "complete" => pos[p] > Len(Order)
      PROVE  IInv' /\ (OneProcess => Keeps(disk, disk'))
  <2>1. /\ pc' \in [Procs -> Labels] /\ pc'[p] = "off"
        /\ \A q \in Procs \ {p} : pc'[q] = pc[q]
    BY <1>5, <1>6 DEF End, Goto, Labels
  <2>2. disk' \in State /\ Copied(disk', mem[p]) /\ disk'.status = status
    BY <1>1, <1>6 DEF End, State, Copied
  <2>3. TypeOK'
    BY <1>1, <1>6, <2>1, <2>2
       DEF TypeOK, End, loop, acting, owner, journal, tree, bounds, Labels, InStage, AtWork
  <2>4. status = "complete" => \A s \in Stages : mem[p].st[s] \in Satisfied
    <3> SUFFICES ASSUME status = "complete", NEW s \in Stages
                 PROVE  mem[p].st[s] \in Satisfied
      OBVIOUS
    <3>1. PICK i \in 1..Len(Order) : Order[i] = s
      BY OrderFacts
    <3>2. i \in 1..(pos[p] - 1)
      BY <1>1, <1>4, <1>6
    <3> QED BY <1>1, <3>1, <3>2
  <2>5. UNCHANGED <<mem, pos>>
    BY <1>6 DEF End
  <2>6. Alone(p) /\ Saved(p)
    BY <1>1, <2>1, <2>2, <2>4, <2>5 DEF Alone, Saved, acting
  <2>7. Control(p)'
    BY <1>1, <2>1, <2>5 DEF Control, InStage, AtWork
  <2>8. CopyOK(mem'[p], items', did') /\ Keeps(mem[p], mem'[p])
    BY <1>3, <2>5 DEF Keeps
  <2> QED BY <1>1, <1>2, <2>3, <2>6, <2>7, <2>8, StepGoal
<1>7. CASE pos[p] <= Len(Order) /\ mem[p].st[Cur(p)] \in Satisfied
           /\ NextStage(p) /\ UNCHANGED <<disk, mem, pc>>
  <2>1. /\ pos' \in [Procs -> 1..(Len(Order) + 1)] /\ pos'[p] = pos[p] + 1
        /\ \A q \in Procs \ {p} : pos'[q] = pos[q]
    BY <1>1, <1>4, <1>7 DEF NextStage, TypeOK
  <2>2. TypeOK'
    BY <1>1, <1>7, <2>1 DEF TypeOK, loop, acting, owner, journal, tree, bounds
  <2>3. Alone(p) /\ Saved(p)
    BY <1>1, <1>7, <2>1 DEF Alone, Saved, acting
  <2>4. \A i \in 1..(pos'[p] - 1) : mem[p].st[Order[i]] \in Satisfied
    BY <1>1, <1>4, <1>7, <2>1 DEF Cur
  <2>5. Control(p)'
    BY <1>1, <1>7, <2>4 DEF Control, InStage, AtWork
  <2>6. CopyOK(mem'[p], items', did') /\ Keeps(mem[p], mem'[p])
    BY <1>3, <1>7 DEF Keeps
  <2> QED BY <1>1, <1>2, <2>2, <2>3, <2>5, <2>6, StepGoal
<1>8. CASE /\ pos[p] <= Len(Order) /\ mem[p].st[Cur(p)] \notin Satisfied
           /\ Unmet(p) = {} /\ ~Applies[Cur(p)]
           /\ mem' = [mem EXCEPT ![p].st[Cur(p)] = "skipped"]
           /\ Save(p) /\ NextStage(p) /\ UNCHANGED pc
  <2> DEFINE s == Cur(p)
             n == [mem[p] EXCEPT !.st[s] = "skipped"]
  <2>1. s \in Stages
    BY <1>4, <1>8
  <2> HIDE DEF s
  <2>2. /\ n \in State /\ n.st = [mem[p].st EXCEPT ![s] = "skipped"]
        /\ n.sha = mem[p].sha /\ n.observed = mem[p].observed
        /\ n.asked = mem[p].asked /\ n.status = mem[p].status
    BY <1>1, <2>1 DEF State, StageStates, Satisfied
  <2>3. n.st[s] = "skipped" /\ \A t \in Stages : t # s => n.st[t] = mem[p].st[t]
    BY <1>1, <2>1, <2>2 DEF State
  <2>4. mem' = [mem EXCEPT ![p] = n] /\ disk' = mem'[p]
    BY <1>8 DEF Save, s
  <2> HIDE DEF n
  <2>5. /\ mem' \in [Procs -> State] /\ mem'[p] = n /\ disk' \in State
        /\ \A q \in Procs \ {p} : mem'[q] = mem[q]
    BY <1>5, <2>2, <2>4
  <2>6. /\ pos' \in [Procs -> 1..(Len(Order) + 1)] /\ pos'[p] = pos[p] + 1
        /\ \A q \in Procs \ {p} : pos'[q] = pos[q]
    BY <1>1, <1>4, <1>8 DEF NextStage, TypeOK
  <2>7. TypeOK'
    BY <1>1, <1>8, <2>5, <2>6 DEF TypeOK, loop, acting, owner, journal, tree, bounds
  <2>8. Alone(p) /\ Saved(p)
    BY <1>1, <1>8, <2>2, <2>4, <2>5, <2>6, SavedNow DEF Alone, acting
  <2>9. \A d \in DependsOn[s] : mem[p].st[d] \in Satisfied
    BY <1>8 DEF Unmet, s
  <2>10. CopyOK(n, items', did') /\ Keeps(mem[p], n)
    <3>1. "skipped" \in StageStates \ {"ready"} /\ mem[p].st[s] \notin Satisfied /\ ~Applies[s]
      BY <1>8 DEF StageStates, Satisfied, s
    <3>2. Kind[s] = "human" /\ n.asked[s] => items'[<<s, "question">>] \in {"open", "answered"}
      BY <1>3, <2>1, <2>2 DEF CopyOK, HumanOK
    <3> QED BY <1>1, <1>3, <2>1, <2>2, <2>9, <3>1, <3>2, StageMoves
  <2>11. Control(p)'
    <3>1. \A i \in 1..(pos'[p] - 1) : n.st[Order[i]] \in Satisfied
      <4> SUFFICES ASSUME NEW i \in 1..(pos'[p] - 1) PROVE n.st[Order[i]] \in Satisfied
        OBVIOUS
      <4>1. i \in 1..Len(Order) /\ Order[i] \in Stages
        BY <1>1, <1>4, <1>8, <2>6, OrderFacts
      <4>2. CASE Order[i] = s
        BY <2>3, <4>2 DEF Satisfied
      <4>3. CASE Order[i] # s
        <5>1. i # pos[p]
          BY <4>3 DEF s, Cur
        <5>2. i \in 1..(pos[p] - 1)
          BY <1>1, <2>6, <5>1
        <5> QED BY <1>1, <2>3, <4>1, <4>3, <5>2
      <4> QED BY <4>2, <4>3
    <3>2. pc'[p] = "advance" /\ mem'[p].status = "running"
      BY <1>1, <1>8, <2>2, <2>5
    <3> QED BY <2>5, <3>1, <3>2 DEF Control, InStage, AtWork
  <2> QED BY <1>1, <1>2, <2>5, <2>7, <2>8, <2>10, <2>11, StepGoal
<1>9. CASE /\ pos[p] <= Len(Order) /\ mem[p].st[Cur(p)] \notin Satisfied
           /\ Unmet(p) = {} /\ Applies[Cur(p)]
           /\ Goto(p, IF Kind[Cur(p)] = "gate" THEN "gates" ELSE Kind[Cur(p)])
           /\ UNCHANGED <<disk, mem, pos>>
  <2>1. Kind[Cur(p)] \in {"agent", "gate", "effect", "human"}
    BY <1>4, <1>9, RunLoopAssumption
  <2>2. /\ pc' \in [Procs -> Labels]
        /\ pc'[p] = IF Kind[Cur(p)] = "gate" THEN "gates" ELSE Kind[Cur(p)]
        /\ \A q \in Procs \ {p} : pc'[q] = pc[q]
    BY <1>5, <1>9, <2>1 DEF Goto, Labels, InStage, AtWork
  <2>3. TypeOK'
    BY <1>1, <1>9, <2>2
       DEF TypeOK, loop, acting, owner, journal, tree, bounds, Labels, InStage, AtWork
  <2>4. Alone(p) /\ Saved(p)
    BY <1>1, <1>9, <2>2 DEF Alone, Saved, acting
  <2>5. Cur(p)' = Cur(p) /\ Unmet(p)' = Unmet(p)
    BY <1>9 DEF Cur, Unmet
  <2>6. Control(p)'
    BY <1>1, <1>4, <1>9, <2>1, <2>2, <2>5 DEF Control, InStage, AtWork
  <2>7. CopyOK(mem'[p], items', did') /\ Keeps(mem[p], mem'[p])
    BY <1>3, <1>9 DEF Keeps
  <2> QED BY <1>1, <1>2, <2>3, <2>4, <2>6, <2>7, StepGoal
<1> QED BY <1>1, <1>4, <1>6, <1>7, <1>8, <1>9 DEF Advance

LEMMA SettleStep ==
  ASSUME IInv, NEW p \in Procs, Settle(p)
  PROVE  IInv' /\ (OneProcess => Keeps(disk, disk'))
<1>1. /\ TypeOK /\ pc[p] = "settle" /\ pc[p] # "off" /\ Control(p) /\ mem[p] \in State
      /\ mem[p].status = "running" /\ pos[p] \in 1..Len(Order)
      /\ \A i \in 1..(pos[p] - 1) : mem[p].st[Order[i]] \in Satisfied
      /\ UNCHANGED <<mem, loop, acting, owner, journal, tree, bounds>> /\ disk' = mem'[p]
  BY DEF IInv, Settle, Control, TypeOK
<1>2. WorldGrows
  BY <1>1, WorldStill DEF owner, journal
<1>3. CopyOK(mem'[p], items', did') /\ Keeps(mem[p], mem'[p]) /\ Saved(p)
  BY <1>1, <1>2, CopyStays, SavedNow DEF IInv, WorldGrows, Keeps
<1>4. Len(Order) \in Nat /\ pc \in [Procs -> Labels]
  <2>1. Len(Order) \in Nat
    BY RunLoopAssumption
  <2>2. pc \in [Procs -> Labels]
    BY <1>1 DEF TypeOK, Labels, InStage, AtWork
  <2> QED BY <2>1, <2>2
<1>5. CASE mem[p].st[Cur(p)] \in Satisfied /\ NextStage(p) /\ Goto(p, "advance")
  <2>1. /\ pos' \in [Procs -> 1..(Len(Order) + 1)] /\ pos'[p] = pos[p] + 1
        /\ \A q \in Procs \ {p} : pos'[q] = pos[q]
        /\ pc' \in [Procs -> Labels] /\ pc'[p] = "advance"
        /\ \A q \in Procs \ {p} : pc'[q] = pc[q]
    BY <1>1, <1>4, <1>5 DEF NextStage, Goto, TypeOK, Labels
  <2>2. TypeOK'
    BY <1>1, <2>1
       DEF TypeOK, loop, acting, owner, journal, tree, bounds, Labels, InStage, AtWork
  <2>3. Alone(p)
    BY <1>1, <2>1 DEF Alone, acting
  <2>4. \A i \in 1..(pos'[p] - 1) : mem[p].st[Order[i]] \in Satisfied
    BY <1>1, <1>4, <1>5, <2>1 DEF Cur
  <2>5. Control(p)'
    BY <1>1, <2>1, <2>4 DEF Control, InStage, AtWork
  <2> QED BY <1>1, <1>2, <1>3, <2>2, <2>3, <2>5, StepGoal
<1>6. CASE Goto(p, "stop") /\ UNCHANGED pos
  <2>1. /\ pc' \in [Procs -> Labels] /\ pc'[p] = "stop"
        /\ \A q \in Procs \ {p} : pc'[q] = pc[q]
    BY <1>4, <1>6 DEF Goto, Labels
  <2>2. TypeOK'
    BY <1>1, <1>6, <2>1
       DEF TypeOK, loop, acting, owner, journal, tree, bounds, Labels, InStage, AtWork
  <2>3. Alone(p)
    BY <1>1, <1>6, <2>1 DEF Alone, acting
  <2>4. Control(p)'
    BY <1>1, <1>6, <2>1 DEF Control, InStage, AtWork
  <2> QED BY <1>1, <1>2, <1>3, <2>2, <2>3, <2>4, StepGoal
<1> QED BY <1>5, <1>6 DEF Settle

LEMMA StopStep ==
  ASSUME IInv, NEW p \in Procs, Stop(p)
  PROVE  IInv' /\ (OneProcess => Keeps(disk, disk'))
<1>1. /\ TypeOK /\ pc[p] = "stop" /\ pc[p] # "off" /\ Control(p) /\ mem[p] \in State
      /\ mem[p].status = "running"
      /\ UNCHANGED <<mem, pos, loop, acting, owner, journal, tree, bounds>>
  BY DEF IInv, Stop, End, Control, TypeOK
<1>2. \E status \in {"waiting-human", "blocked", "failed"} :
        disk' = [mem[p] EXCEPT !.status = status] /\ Goto(p, "off")
  BY DEF Stop, End
<1>3. disk' \in State /\ Copied(disk', mem'[p]) /\ disk'.status # "complete"
  BY <1>1, <1>2 DEF State, Copied
<1>4. pc \in [Procs -> Labels]
  BY <1>1 DEF TypeOK, Labels, InStage, AtWork
<1>5. /\ pc' \in [Procs -> Labels] /\ pc'[p] = "off"
      /\ \A q \in Procs \ {p} : pc'[q] = pc[q]
  BY <1>2, <1>4 DEF Goto, Labels
<1>6. TypeOK'
  BY <1>1, <1>3, <1>5
     DEF TypeOK, loop, acting, owner, journal, tree, bounds, Labels, InStage, AtWork
<1>7. Alone(p) /\ Saved(p)
  BY <1>1, <1>3, <1>5 DEF Alone, Saved, acting
<1>8. WorldGrows
  BY <1>1, WorldStill DEF owner, journal
<1>9. CopyOK(mem'[p], items', did') /\ Keeps(mem[p], mem'[p])
  BY <1>1, <1>8, CopyStays DEF IInv, WorldGrows, Keeps
<1>10. Control(p)'
  BY <1>1, <1>5 DEF Control, InStage, AtWork
<1> QED BY <1>1, <1>6, <1>7, <1>8, <1>9, <1>10, StepGoal

\* A resume: what is done stays done, and what waits keeps waiting.
LEMMA ResumeCopy ==
  ASSUME NEW c \in State, NEW q, NEW d, CopyOK(c, q, d),
         NEW n, n = [c EXCEPT !.status = "running",
                       !.st = [s \in Stages |-> IF c.st[s] \in Retried THEN "ready" ELSE c.st[s]]]
  PROVE  n \in State /\ n.status = "running" /\ CopyOK(n, q, d) /\ Keeps(c, n)
<1>1. /\ n \in State /\ n.asked = c.asked /\ n.observed = c.observed /\ n.sha = c.sha
      /\ n.status = "running"
      /\ n.st = [s \in Stages |-> IF c.st[s] \in Retried THEN "ready" ELSE c.st[s]]
  BY DEF State, StageStates
<1>2. /\ \A s \in Stages : c.st[s] \in Satisfied => n.st[s] = c.st[s]
      /\ \A s \in Stages : n.st[s] # "ready" => n.st[s] = c.st[s]
  BY <1>1 DEF Retried, Satisfied
<1>3. InOrder(n) /\ WhenOK(n)
  BY <1>2, RunLoopAssumption DEF CopyOK, InOrder, WhenOK
<1>4. HumanOK(n, q) /\ EffectOK(n, d)
  BY <1>1, <1>2 DEF CopyOK, HumanOK, EffectOK
<1>5. Keeps(c, n)
  BY <1>1, <1>2 DEF Keeps
<1> QED BY <1>1, <1>3, <1>4, <1>5 DEF CopyOK

LEMMA StartStep ==
  ASSUME IInv, NEW p \in Procs, Start(p)
  PROVE  IInv' /\ (OneProcess => Keeps(disk, disk'))
<1> DEFINE n == [disk EXCEPT !.status = "running",
                   !.st = [s \in Stages |-> IF disk.st[s] \in Retried THEN "ready" ELSE disk.st[s]]]
<1>1. /\ TypeOK /\ disk \in State /\ CopyOK(disk, items, did)
      /\ UNCHANGED <<loop, acting, owner, journal, tree, bounds>>
  BY DEF IInv, Start, TypeOK, DiskOK
<1>2. n \in State /\ n.status = "running" /\ CopyOK(n, items, did) /\ Keeps(disk, n)
  BY <1>1, ResumeCopy
<1>3. /\ mem' = [mem EXCEPT ![p] = n] /\ disk' = mem'[p]
      /\ pc' = [pc EXCEPT ![p] = "advance"] /\ pos' = [pos EXCEPT ![p] = 1]
  BY DEF Start, Save, Goto
<1> HIDE DEF n
<1>4. mem \in [Procs -> State] /\ pc \in [Procs -> Labels]
      /\ pos \in [Procs -> 1..(Len(Order) + 1)] /\ 1 \in 1..(Len(Order) + 1)
  BY <1>1, RunLoopAssumption DEF TypeOK, Labels, InStage, AtWork
<1>5. /\ mem' \in [Procs -> State] /\ mem'[p] = n /\ disk' = n
      /\ pc' \in [Procs -> Labels] /\ pc'[p] = "advance"
      /\ pos' \in [Procs -> 1..(Len(Order) + 1)] /\ pos'[p] = 1
      /\ \A q \in Procs \ {p} : mem'[q] = mem[q] /\ pc'[q] = pc[q] /\ pos'[q] = pos[q]
  BY <1>2, <1>3, <1>4 DEF Labels
<1>6. TypeOK'
  BY <1>1, <1>2, <1>5
     DEF TypeOK, loop, acting, owner, journal, tree, bounds, Labels, InStage, AtWork
<1>7. Alone(p)
  BY <1>1, <1>5 DEF Alone, acting
<1>8. WorldGrows /\ UNCHANGED <<items, did>>
  BY <1>1, WorldStill DEF owner, journal
<1>9. Control(p)'
  BY <1>2, <1>5 DEF Control, InStage, AtWork
<1>10. \A q \in Procs : Control(q)' /\ CopyOK(mem'[q], items', did')
  BY <1>2, <1>5, <1>7, <1>8, <1>9, OthersKept
<1>11. NoEffectUnsigned' /\ QueueOK'
  BY <1>8, WorldKept
<1>12. DiskOK'
  BY <1>2, <1>5, <1>8 DEF DiskOK
<1>13. OneProcess => \A q \in Procs : Keeps(disk', mem'[q])
  BY <1>5 DEF OneProcess, Keeps
<1> QED BY <1>2, <1>5, <1>6, <1>10, <1>11, <1>12, <1>13 DEF IInv

-----------------------------------------------------------------------------
(* The owner, the world, and whoever kills a process *)

LEMMA WorldStep ==
  ASSUME IInv, TypeOK', UNCHANGED <<disk, mem, pos, head_of, turn, did>>, WorldGrows,
         \/ UNCHANGED pc
         \/ \E p \in Procs : pc' = [pc EXCEPT ![p] = "off"]
  PROVE  IInv' /\ Keeps(disk, disk')
<1>1. NoEffectUnsigned' /\ QueueOK' /\ CopyOK(disk, items', did')
  BY WorldKept
<1>2. \A q \in Procs : pc'[q] = pc[q] \/ pc'[q] = "off"
  BY DEF IInv, TypeOK
<1>3. ASSUME NEW q \in Procs
      PROVE  Control(q)' /\ CopyOK(mem'[q], items', did')
  <2>1. CopyOK(mem[q], items', did')
    BY CopyStays DEF IInv, WorldGrows
  <2>2. Control(q) /\ Cur(q)' = Cur(q) /\ Unmet(q)' = Unmet(q)
    BY DEF IInv, Cur, Unmet
  <2>5. mem'[q] = mem[q] /\ pos'[q] = pos[q] /\ head_of'[q] = head_of[q] /\ turn'[q] = turn[q]
    OBVIOUS
  <2>3. CASE pc'[q] = "off"
    BY <2>1, <2>2, <2>3, <2>5 DEF Control, InStage, AtWork
  <2>4. CASE pc'[q] = pc[q]
    <3>1. pc[q] = "perform" => Cur(q) \in Stages
      BY <2>2, OrderFacts DEF Control, Cur, InStage
    <3>2. pc[q] = "perform" /\ NeedsApproval(Cur(q)) =>
            approvals'[<<Cur(q), head_of[q]>>] \in Signed
      BY <2>2, <3>1 DEF Control, WorldGrows
    <3> QED BY <2>1, <2>2, <2>4, <2>5, <3>2 DEF Control
  <2> QED BY <1>2, <2>3, <2>4
<1>4. DiskOK' /\ Keeps(disk, disk')
  BY <1>1 DEF IInv, DiskOK, Keeps
<1>5. OneProcess => \A q \in Procs : pc'[q] # "off" => Keeps(disk', mem'[q])
  BY <1>2 DEF IInv
<1> QED BY <1>1, <1>3, <1>4, <1>5 DEF IInv

LEMMA CrashStep ==
  ASSUME IInv, NEW p \in Procs, Crash(p)
  PROVE  IInv' /\ Keeps(disk, disk')
<1>1. WorldGrows
  BY WorldStill DEF Crash, owner, journal
<1>2. pc' = [pc EXCEPT ![p] = "off"] /\ pc \in [Procs -> Labels]
  BY DEF Crash, Goto, IInv, TypeOK, Labels, InStage, AtWork
<1>3. pc' \in [Procs -> Labels]
  BY <1>2 DEF Labels
<1>4. crashes' \in 0..MaxCrashes
  BY RunLoopAssumption DEF Crash, IInv, TypeOK
<1>5. TypeOK'
  BY <1>3, <1>4 DEF Crash, IInv, TypeOK, loop, acting, owner, journal, tree, Labels, InStage, AtWork
<1> QED BY <1>1, <1>2, <1>5, WorldStep DEF Crash, acting, journal

LEMMA AnswerStep ==
  ASSUME IInv, NEW a \in Asks, Answer(a)
  PROVE  IInv' /\ Keeps(disk, disk')
<1>1. /\ items \in [Asks -> {"none", "open", "answered", "cancel"}] /\ items[a] = "open"
      /\ \/ items' = [items EXCEPT ![a] = "answered"]
         \/ a[2] = "question" /\ Kind[a[1]] # "human" /\ items' = [items EXCEPT ![a] = "cancel"]
      /\ UNCHANGED <<approvals, did>>
  BY DEF IInv, TypeOK, Answer, journal
<1>2. items' \in [Asks -> {"none", "open", "answered", "cancel"}]
  BY <1>1
<1>3. TypeOK'
  BY <1>2 DEF IInv, TypeOK, Answer, loop, acting, journal, tree, bounds
<1>4. \A s \in Stages : <<s, "question">> \in Asks
  BY DEF Asks
<1>5. ASSUME NEW s \in Stages, Kind[s] = "human"
      PROVE  LET i == items[<<s, "question">>]  j == items'[<<s, "question">>] IN
             j = i \/ (i = "open" /\ j = "answered")
  BY <1>1, <1>4, <1>5
<1>6. WorldGrows
  BY <1>1, <1>5 DEF IInv, WorldGrows, QueueGrows, QueueOK
<1> QED BY <1>1, <1>3, <1>6, WorldStep DEF Answer, acting

LEMMA DecideStep ==
  ASSUME IInv, NEW a \in Stages \X Versions, Decide(a)
  PROVE  IInv' /\ Keeps(disk, disk')
<1>1. /\ approvals \in [Stages \X Versions -> {"none", "open", "signed", "rejected", "expired"}]
      /\ \/ approvals[a] = "open" /\ approvals' \in {[approvals EXCEPT ![a] = "signed"],
                                                     [approvals EXCEPT ![a] = "rejected"]}
         \/ approvals[a] = "signed" /\ approvals' = [approvals EXCEPT ![a] = "expired"]
      /\ UNCHANGED <<items, did>>
  BY DEF IInv, TypeOK, Decide, journal
<1>2. /\ approvals' \in [Stages \X Versions -> {"none", "open", "signed", "rejected", "expired"}]
      /\ \A b \in Stages \X Versions : approvals[b] \in Signed => approvals'[b] \in Signed
  BY <1>1 DEF Signed
<1>3. TypeOK'
  BY <1>2 DEF IInv, TypeOK, Decide, loop, acting, journal, tree, bounds
<1>4. WorldGrows
  BY <1>1, <1>2 DEF IInv, WorldGrows, QueueGrows, QueueOK
<1> QED BY <1>1, <1>3, <1>4, WorldStep DEF Decide, acting

LEMMA EditStep ==
  ASSUME IInv, Edit
  PROVE  IInv' /\ Keeps(disk, disk')
<1>1. WorldGrows
  BY WorldStill DEF Edit, owner, journal
<1>2. work' \in Versions /\ head' \in Versions /\ edits' \in 0..MaxEdits
  BY TouchedTypes, RunLoopAssumption, SMTT(20) DEF Edit, IInv, TypeOK
<1>3. TypeOK'
  BY <1>2 DEF Edit, IInv, TypeOK, loop, acting, owner, journal
<1> QED BY <1>1, <1>3, WorldStep DEF Edit, acting, journal

-----------------------------------------------------------------------------
(* Invariance *)

LEMMA InitInv == Init => IInv
<1> SUFFICES ASSUME Init PROVE IInv
  OBVIOUS
<1>1. Fresh \in State /\ Fresh.status = "running" /\ Fresh.st = [s \in Stages |-> "ready"]
      /\ Fresh.asked = [s \in Stages |-> FALSE] /\ Fresh.observed = [s \in Stages |-> {}]
  BY RunLoopAssumption DEF Fresh, State, StageStates, NoSha
<1>2. TypeOK
  <2>1. 1 \in Versions /\ 0 \in 0..MaxVersion /\ 1 \in 1..(Len(Order) + 1)
        /\ 0 \in 0..MaxEdits /\ 0 \in 0..MaxCrashes
    BY RunLoopAssumption DEF Versions
  <2> QED BY <1>1, <2>1 DEF Init, TypeOK, NoSha
<1>3. CopyOK(Fresh, items, did)
  BY <1>1 DEF CopyOK, InOrder, WhenOK, HumanOK, EffectOK
<1>4. \A p \in Procs : Control(p) /\ CopyOK(mem[p], items, did)
  BY <1>1, <1>3 DEF Init, Control, InStage, AtWork
<1>5. QueueOK /\ NoEffectUnsigned
  BY DEF Init, QueueOK, NoEffectUnsigned, Asks
<1>6. DiskOK
  BY <1>1, <1>3 DEF Init, DiskOK
<1> QED BY <1>2, <1>4, <1>5, <1>6 DEF IInv, Init

LEMMA NextInv == IInv /\ [Next]_vars => IInv' /\ (OneProcess => Keeps(disk, disk'))
<1> SUFFICES ASSUME IInv, [Next]_vars PROVE IInv' /\ (OneProcess => Keeps(disk, disk'))
  OBVIOUS
<1>1. CASE UNCHANGED vars
  <2>1. UNCHANGED <<disk, mem, pc, pos, loop, acting, owner, journal, tree, bounds>>
    BY <1>1 DEF vars
  <2>2. TypeOK'
    BY <2>1 DEF IInv, TypeOK, loop, acting, owner, journal, tree, bounds
  <2>3. WorldGrows
    BY <2>1, WorldStill DEF owner, journal
  <2> QED BY <2>1, <2>2, <2>3, WorldStep DEF acting, journal
<1>2. ASSUME NEW p \in Procs, Start(p) \/ Step(p) \/ Crash(p)
      PROVE  IInv' /\ (OneProcess => Keeps(disk, disk'))
  BY <1>2, StartStep, CrashStep, AdvanceStep, SettleStep, StopStep, AgentStep, DispatchStep,
     RepairStep, GatesStep, JudgeStep, CommitStep, EffectStep, PerformStep, PerformEndsStep,
     HumanStep DEF Step
<1> QED BY <1>1, <1>2, AnswerStep, DecideStep, EditStep DEF Next

THEOREM Invariance == Spec => []IInv
<1>1. IInv /\ [Next]_vars => IInv'
  BY NextInv
<1> QED BY <1>1, InitInv, PTL DEF Spec

\* The checkpoint, the copies and the queue keep their types.
THEOREM TypeCorrect == Spec => []TypeOK
<1>1. IInv => TypeOK
  BY DEF IInv
<1> QED BY <1>1, Invariance, PTL

\* run.py, advance and resume: whatever is killed, fails or runs beside it, the
\* checkpoint never shows a stage begun before all it depends on is done.
THEOREM DependenciesComeFirst == Spec => []DependenciesFirst
<1>1. IInv => DependenciesFirst
  BY DEF IInv, DiskOK, CopyOK, InOrder, DependenciesFirst
<1> QED BY <1>1, Invariance, PTL

\* run.py, effect_stage: nothing leaves the machine but under a signature for that
\* very stage and commit, over any number of processes of one run.
THEOREM EffectsAreSigned == Spec => []NoEffectUnsigned
<1>1. IInv => NoEffectUnsigned
  BY DEF IInv
<1> QED BY <1>1, Invariance, PTL

\* run.py: a run that is saved as complete did all it was to do.
THEOREM CompleteIsDone == Spec => []CompleteMeansDone
<1>1. IInv => CompleteMeansDone
  <2> SUFFICES ASSUME IInv, disk.status = "complete", NEW s \in Stages
      PROVE  /\ disk.st[s] = IF Applies[s] THEN "complete" ELSE "skipped"
             /\ Kind[s] = "effect" /\ Applies[s] => Range(Rest[s]) \subseteq {d[2] : d \in did}
             /\ Kind[s] = "human" /\ Applies[s] => items[<<s, "question">>] = "answered"
    BY DEF CompleteMeansDone
  <2>1. disk.st[s] \in Satisfied /\ CopyOK(disk, items, did)
    BY DEF IInv, DiskOK
  <2>2. disk.st[s] = IF Applies[s] THEN "complete" ELSE "skipped"
    BY <2>1 DEF CopyOK, WhenOK, Satisfied
  <2>3. disk.observed[s] \subseteq {d[2] : d \in did}
    BY <2>1 DEF CopyOK, EffectOK
  <2> QED BY <2>1, <2>2, <2>3 DEF CopyOK, EffectOK, HumanOK
<1> QED BY <1>1, Invariance, PTL

\* run.py: the checkpoint is true of the run at every moment it can be read.
THEOREM CheckpointTrue == Spec => []CheckpointIsTrue
<1>1. DependenciesFirst /\ CompleteMeansDone => CheckpointIsTrue
  BY DEF CheckpointIsTrue
<1> QED BY <1>1, DependenciesComeFirst, CompleteIsDone, PTL

\* run.py, Checkpoint: with one process of a run at a time, no save and no resume
\* drops a done stage, a commit or an observed effect.
THEOREM CheckpointKeeps == ASSUME OneProcess PROVE Spec => DoneIsKept
<1>1. IInv /\ [Next]_vars => Keeps(disk, disk')
  BY NextInv
<1>2. Keeps(disk, disk') =>
        \A s \in Stages :
          /\ disk.st[s] \in Satisfied => disk'.st[s] = disk.st[s]
          /\ disk.sha[s] # NoSha => disk'.sha[s] = disk.sha[s]
          /\ disk.observed[s] \subseteq disk'.observed[s]
  BY DEF Keeps
<1> QED BY <1>1, <1>2, Invariance, PTL DEF Spec, DoneIsKept

-----------------------------------------------------------------------------
(* What is published was gated *)

\* s waits for t: every set that has s and what its members depend on has t.
Needs(s, t) ==
  \A D \in SUBSET Stages :
    s \in D /\ (\A u \in D : DependsOn[u] \subseteq D) => t \in D

EditsTree(t) == Kind[t] \in {"agent", "gate"}
Pushing == {s \in Stages : Kind[s] = "effect" /\ "push" \in Range(Rest[s])}

\* Gate g stands between every stage that edits the tree and the push of s: whoever
\* edits is done before g passes, or begins after s is done.
Guards(g, s) ==
  /\ Kind[g] = "gate" /\ Applies[g] /\ Needs(s, g)
  /\ \A t \in Stages \ {g} : EditsTree(t) => Needs(g, t) \/ Needs(t, s)

\* The pipelines of .agents/config/pipelines that push, order and release, are so.
PushesAreGuarded == \A s \in Pushing : \E g \in Stages : Guards(g, s)

Done(c) == {s \in Stages : c.st[s] \in Satisfied}
Between(c, g, s) == g \in Done(c) /\ s \notin Done(c)
Sealed == head = work /\ head \in gated

AgentsWork ==
  \A p \in Procs : pc[p] \in {"agent", "dispatch", "repair"} => Kind[Cur(p)] = "agent"

\* What a process goes on from is saved.
DoneIsSaved ==
  \A p \in Procs : pc[p] \in InStage \cup {"advance", "stop"} => Done(mem[p]) \subseteq Done(disk)

JudgedIsSealed ==
  \A p \in Procs : pc[p] = "judge" /\ Kind[Cur(p)] = "gate" /\ failed[p] = 0 => Sealed

\* From the gate's pass until the push is done the tree stays what was gated.
GatedIsSealed ==
  \A s \in Pushing, g \in Stages : Guards(g, s) =>
    /\ Between(disk, g, s) => Sealed
    /\ \A p \in Procs : pc[p] # "off" /\ Between(mem[p], g, s) => Sealed

ShasAreGated ==
  \A s \in Pushing :
    /\ committed[s] # NoSha => committed[s] \in gated
    /\ disk.sha[s] # NoSha => disk.sha[s] \in gated
    /\ \A p \in Procs : mem[p].sha[s] # NoSha => mem[p].sha[s] \in gated
    /\ \A p \in Procs : pc[p] = "perform" /\ Cur(p) = s => head_of[p] \in gated

PushesAreGated == \A d \in did : d[2] = "push" => d[3] \in gated

TreeOK ==
  /\ AgentsWork /\ DoneIsSaved
  /\ edits = 0 => JudgedIsSealed /\ GatedIsSealed /\ ShasAreGated /\ PushesAreGated

\* In a stage whose needs are met, whatever it needs is done.
LEMMA NeedsAreDone ==
  ASSUME NEW c, InOrder(c), NEW s \in Stages, NEW t \in Stages, Needs(s, t),
         \A d \in DependsOn[s] : c.st[d] \in Satisfied
  PROVE  t = s \/ t \in Done(c)
<1> DEFINE D == Done(c) \cup {s}
<1>1. D \in SUBSET Stages /\ s \in D
  BY DEF Done
<1>2. ASSUME NEW u \in D PROVE DependsOn[u] \subseteq D
  <2>1. DependsOn[u] \subseteq Stages
    BY <1>1, RunLoopAssumption
  <2>2. CASE u = s
    BY <2>1, <2>2 DEF Done
  <2>3. CASE c.st[u] \in Satisfied /\ u \in Stages
    <3>1. c.st[u] # "ready"
      BY <2>3 DEF Satisfied
    <3> QED  BY <2>1, <2>3, <3>1 DEF InOrder, Done
  <2> QED  BY <2>2, <2>3 DEF Done
<1>3. t \in D
  BY <1>1, <1>2 DEF Needs
<1> QED  BY <1>3

\* ... and what is done needs only what is done.
LEMMA DoneNeedsDone ==
  ASSUME NEW c, InOrder(c), NEW s \in Done(c), NEW t \in Stages, Needs(s, t)
  PROVE  t \in Done(c)
<1>1. s \in Stages /\ c.st[s] # "ready"
  BY DEF Done, Satisfied
<1>2. \A d \in DependsOn[s] : c.st[d] \in Satisfied
  BY <1>1 DEF InOrder
<1> QED  BY <1>1, <1>2, NeedsAreDone

\* While the tree is edited, no guarded push stands right behind its gate.
LEMMA NoneBetween ==
  ASSUME IInv, NEW p \in Procs, pc[p] \in AtWork,
         NEW s \in Pushing, NEW g \in Stages, Guards(g, s)
  PROVE  ~Between(mem[p], g, s)
<1>1. /\ Cur(p) \in Stages /\ Cur(p) \notin Done(mem[p]) /\ InOrder(mem[p])
      /\ \A d \in DependsOn[Cur(p)] : mem[p].st[d] \in Satisfied
  BY InHand DEF IInv, CopyOK, InStage, Done
<1>2. EditsTree(Cur(p)) /\ Cur(p) # s
  BY DEF IInv, Control, EditsTree, Pushing
<1>3. s \in Stages
  BY DEF Pushing
<1> SUFFICES ASSUME g \in Done(mem[p]) PROVE s \in Done(mem[p])
  BY DEF Between
<1>4. Cur(p) # g /\ ~Needs(g, Cur(p))
  BY <1>1, DoneNeedsDone
<1>5. Needs(Cur(p), s)
  BY <1>1, <1>2, <1>4 DEF Guards
<1> QED  BY <1>1, <1>2, <1>3, <1>5, NeedsAreDone

\* A stage that publishes has its gate behind it.
LEMMA PublishesBetween ==
  ASSUME IInv, NEW p \in Procs, pc[p] \in {"effect", "perform"}, Cur(p) \in Pushing,
         NEW g \in Stages, Guards(g, Cur(p))
  PROVE  Between(mem[p], g, Cur(p))
<1>1. /\ Cur(p) \in Stages /\ Cur(p) \notin Done(mem[p]) /\ InOrder(mem[p])
      /\ \A d \in DependsOn[Cur(p)] : mem[p].st[d] \in Satisfied
  BY InHand DEF IInv, CopyOK, InStage, Done
<1>2. g # Cur(p) /\ Needs(Cur(p), g)
  BY DEF Guards, Pushing
<1> QED  BY <1>1, <1>2, NeedsAreDone DEF Between

-----------------------------------------------------------------------------
(* What one step inside a stage changes *)

ControlMove(p) ==
  /\ pos'[p] = pos[p] /\ pc'[p] \in InStage \cup {"settle"}
  /\ pc'[p] \in {"agent", "dispatch", "repair"} => pc[p] \in {"agent", "dispatch", "repair"}
  /\ edits' = edits

DoneMove(p) ==
  /\ Done(mem[p]) \subseteq Done(mem'[p])
  /\ Done(mem'[p]) \subseteq Done(mem[p]) \cup {Cur(p)}
  /\ pc'[p] \in InStage => Done(mem'[p]) = Done(mem[p])
  /\ disk' = disk \/ (disk' = mem'[p] /\ pc'[p] \in InStage)

TreeMove(p) ==
  /\ gated \subseteq gated'
  /\ \/ UNCHANGED <<work, head>>
     \/ pc[p] \in AtWork
     \/ pc[p] = "effect" /\ work' = work /\ head' \in {head, work}
  /\ pc'[p] = "judge" /\ Kind[Cur(p)] = "gate" /\ failed'[p] = 0 => Sealed'
  /\ Kind[Cur(p)] = "gate" /\ Cur(p) \in Done(mem'[p]) =>
       pc[p] = "judge" /\ failed[p] = 0 /\ UNCHANGED <<work, head>>

ShaMove(p) ==
  \/ UNCHANGED committed /\ mem'[p].sha = mem[p].sha
  \/ /\ pc[p] = "effect"
     /\ \E v \in {committed[Cur(p)], work} :
          /\ committed[Cur(p)] # NoSha => v = committed[Cur(p)]
          /\ committed[Cur(p)] = NoSha => v = work
          /\ committed' = [committed EXCEPT ![Cur(p)] = v]
          /\ mem'[p].sha = [mem[p].sha EXCEPT ![Cur(p)] = v]

PerformMove(p) ==
  /\ pc'[p] = "perform" =>
       \/ pc[p] = "perform" /\ head_of'[p] = head_of[p]
       \/ pc[p] = "effect" /\ head_of'[p] = Sha(p) /\ Sha(p) # NoSha
  /\ \/ UNCHANGED did
     \/ /\ pc[p] = "perform"
        /\ \E e \in Range(Rest[Cur(p)]) : did' \subseteq did \cup {<<Cur(p), e, head_of[p]>>}

Move(p) ==
  ControlMove(p) /\ DoneMove(p) /\ TreeMove(p) /\ ShaMove(p) /\ PerformMove(p)

LEMMA DoneAfter ==
  ASSUME NEW a, a.st \in [Stages -> StageStates], NEW s \in Stages, a.st[s] \notin Satisfied,
         NEW x, NEW b, b.st = [a.st EXCEPT ![s] = x]
  PROVE  Done(b) = IF x \in Satisfied THEN Done(a) \cup {s} ELSE Done(a)
BY DEF Done

\* A stage ends: done, or not.
StageEnds(p) ==
  /\ pc'[p] = "settle" /\ disk' = disk /\ mem'[p].sha = mem[p].sha
  /\ Done(mem'[p]) = Done(mem[p]) \cup {Cur(p)}
StageStops(p) ==
  /\ pc'[p] = "settle" /\ disk' = disk /\ mem'[p].sha = mem[p].sha
  /\ Done(mem'[p]) = Done(mem[p])

LEMMA CompletesEnds ==
  ASSUME IInv, NEW p \in Procs, pc[p] \in InStage, Becomes(p, "complete"), UNCHANGED disk
  PROVE  StageEnds(p)
<1>1. Cur(p) \in Stages /\ mem[p] \in State /\ mem[p].st[Cur(p)] \notin Satisfied /\ TypeOK
  BY InHand DEF IInv
<1>2. "complete" \in StageStates /\ "complete" \in Satisfied
  BY DEF StageStates, Satisfied
<1>3. /\ pc'[p] = "settle" /\ mem'[p].st = [mem[p].st EXCEPT ![Cur(p)] = "complete"]
      /\ mem'[p].sha = mem[p].sha
  BY <1>1, <1>2, BecomesFacts
<1>4. mem[p].st \in [Stages -> StageStates]
  BY <1>1 DEF State
<1>5. Done(mem'[p]) = Done(mem[p]) \cup {Cur(p)}
  BY <1>1, <1>2, <1>3, <1>4, DoneAfter
<1> QED  BY <1>3, <1>5 DEF StageEnds

LEMMA OthersStop ==
  ASSUME IInv, NEW p \in Procs, pc[p] \in InStage,
         \/ Fails(p)
         \/ \E x \in {"blocked", "failed", "waiting-human"} : Becomes(p, x) /\ UNCHANGED disk
         \/ \E k \in {"question", "escalation"} : WaitForItem(p, k)
  PROVE  StageStops(p)
<1>1. Cur(p) \in Stages /\ mem[p] \in State /\ mem[p].st[Cur(p)] \notin Satisfied /\ TypeOK
  BY InHand DEF IInv
<1>2. mem[p].st \in [Stages -> StageStates]
  BY <1>1 DEF State
<1>3. ASSUME NEW x \in {"blocked", "failed", "waiting-human"}, Becomes(p, x), UNCHANGED disk
      PROVE  StageStops(p)
  <2>1. x \in StageStates /\ x \notin Satisfied
    BY DEF StageStates, Satisfied
  <2>2. /\ pc'[p] = "settle" /\ mem'[p].st = [mem[p].st EXCEPT ![Cur(p)] = x]
        /\ mem'[p].sha = mem[p].sha
    BY <1>1, <1>3, <2>1, BecomesFacts
  <2>3. Done(mem'[p]) = Done(mem[p])
    BY <1>1, <1>2, <2>1, <2>2, DoneAfter
  <2> QED  BY <1>3, <2>2, <2>3 DEF StageStops
<1>4. ASSUME NEW k \in {"question", "escalation"}, WaitForItem(p, k) PROVE StageStops(p)
  <2>1. /\ pc'[p] = "settle" /\ mem'[p].sha = mem[p].sha
        /\ mem'[p].st = [mem[p].st EXCEPT ![Cur(p)] = "waiting-human"]
    BY <1>1, <1>4, WaitFacts, ZenonT(40)
  <2>2. Done(mem'[p]) = Done(mem[p])
    BY <1>1, <1>2, <2>1, DoneAfter DEF Satisfied
  <2> QED  BY <1>4, <2>1, <2>2 DEF StageStops, WaitForItem
<1> QED  BY <1>3, <1>4 DEF Fails

\* A stage that stops leaves the tree to whoever may edit it.
LEMMA StopMove ==
  ASSUME IInv, NEW p \in Procs, pc[p] \in InStage, StageStops(p),
         UNCHANGED <<pos, gated, committed, did, edits>>,
         \/ UNCHANGED <<work, head>>
         \/ pc[p] \in AtWork
         \/ pc[p] = "effect" /\ work' = work /\ head' \in {head, work}
  PROVE  Move(p)
<1>1. Cur(p) \notin Done(mem'[p])
  BY InHand DEF StageStops, Done
<1>2. ControlMove(p) /\ DoneMove(p)
  BY DEF StageStops, ControlMove, DoneMove, InStage, AtWork
<1>3. TreeMove(p)
  BY <1>1 DEF StageStops, TreeMove
<1> QED  BY <1>2, <1>3 DEF StageStops, Move, ShaMove, PerformMove

\* ... and so does one that is done, unless it is a gate.
LEMMA EndMove ==
  ASSUME IInv, NEW p \in Procs, pc[p] \in InStage, StageEnds(p),
         UNCHANGED <<pos, gated, committed, did, edits>>,
         UNCHANGED <<work, head>> \/ pc[p] \in AtWork,
         Kind[Cur(p)] = "gate" => pc[p] = "judge" /\ failed[p] = 0 /\ UNCHANGED <<work, head>>
  PROVE  Move(p)
<1>1. ControlMove(p) /\ DoneMove(p)
  BY DEF StageEnds, ControlMove, DoneMove, InStage, AtWork
<1>2. TreeMove(p)
  BY DEF StageEnds, TreeMove
<1> QED  BY <1>1, <1>2 DEF StageEnds, Move, ShaMove, PerformMove

-----------------------------------------------------------------------------
(* ... action by action *)

LEMMA AgentMove ==
  ASSUME IInv, NEW p \in Procs, AgentStage(p) PROVE Move(p)
<1>1. /\ pc[p] \in InStage /\ pc[p] = "agent" /\ TypeOK
      /\ UNCHANGED <<pos, gated, committed, did, edits, work, head>>
  BY DEF IInv, AgentStage, InStage, AtWork, tree, journal, bounds
<1>2. CASE \E x \in {"blocked", "failed"} : Becomes(p, x) /\ UNCHANGED disk
  BY <1>1, <1>2, OthersStop, StopMove
<1>3. CASE /\ mem' = [mem EXCEPT ![p].st[Cur(p)] = "running"]
           /\ Save(p) /\ Goto(p, "dispatch")
  <2>1. Cur(p) \in Stages /\ mem[p] \in State /\ mem[p].st[Cur(p)] \notin Satisfied
    BY <1>1, InHand
  <2>2. /\ mem'[p].st = [mem[p].st EXCEPT ![Cur(p)] = "running"]
        /\ mem'[p].sha = mem[p].sha
    BY <1>1, <1>3, <2>1 DEF TypeOK, State
  <2>3. mem[p].st \in [Stages -> StageStates]
    BY <2>1 DEF State
  <2>4. Done(mem'[p]) = Done(mem[p]) /\ Cur(p) \notin Done(mem'[p])
    BY <2>1, <2>2, <2>3, DoneAfter DEF Satisfied, Done
  <2>5. pc'[p] = "dispatch" /\ disk' = mem'[p]
    BY <1>1, <1>3 DEF Goto, Save, TypeOK
  <2> QED
    BY <1>1, <2>2, <2>4, <2>5
       DEF Move, ControlMove, DoneMove, TreeMove, ShaMove, PerformMove, InStage, AtWork
<1> QED  BY <1>2, <1>3 DEF AgentStage

\* The result is accepted, by an agent stage.
LEMMA AcceptMove ==
  ASSUME IInv, NEW p \in Procs, pc[p] \in {"dispatch", "repair"}, Kind[Cur(p)] = "agent",
         Accept(p), UNCHANGED <<pos, gated, committed, did, edits>>
  PROVE  Move(p)
<1>1. pc[p] \in InStage /\ pc[p] \in AtWork /\ TypeOK
  BY DEF IInv, InStage, AtWork
<1>2. CASE Becomes(p, "complete") /\ UNCHANGED disk
  BY <1>1, <1>2, CompletesEnds, EndMove
<1>3. CASE UNCHANGED mem /\ Save(p) /\ Goto(p, "gates")
  <2>1. pc'[p] = "gates" /\ disk' = mem'[p] /\ mem'[p] = mem[p]
    BY <1>1, <1>3 DEF Goto, Save, TypeOK
  <2> QED
    BY <1>1, <2>1 DEF Move, ControlMove, DoneMove, TreeMove, ShaMove, PerformMove,
                      InStage, AtWork
<1> QED  BY <1>2, <1>3 DEF Accept

LEMMA DispatchMove ==
  ASSUME IInv, AgentsWork, NEW p \in Procs, Dispatch(p) \/ Repair(p) PROVE Move(p)
<1>1. /\ pc[p] \in InStage /\ pc[p] \in AtWork /\ TypeOK /\ Kind[Cur(p)] = "agent"
      /\ pc[p] \in {"dispatch", "repair"}
      /\ UNCHANGED <<pos, gated, committed, did, edits>>
  BY DEF IInv, Dispatch, Repair, InStage, AtWork, journal, bounds, AgentsWork
<1>2. CASE Accept(p)
  BY <1>1, <1>2, AcceptMove
<1>3. CASE Fails(p) \/ \E k \in {"question", "escalation"} : WaitForItem(p, k)
  BY <1>1, <1>3, OthersStop, StopMove
<1>4. CASE pc[p] = "dispatch" /\ Goto(p, "repair") /\ UNCHANGED <<disk, mem, owner>>
  <2>1. pc'[p] = "repair"
    BY <1>1, <1>4 DEF Goto, TypeOK
  <2> QED
    BY <1>1, <1>4, <2>1 DEF Move, ControlMove, DoneMove, TreeMove, ShaMove, PerformMove,
                            InStage, AtWork
<1> QED  BY <1>1, <1>2, <1>3, <1>4 DEF Dispatch, Repair, Escalate

LEMMA GatesMove ==
  ASSUME IInv, NEW p \in Procs, RunGates(p) \/ Rerun(p) PROVE Move(p)
<1>1. /\ pc[p] \in InStage /\ pc[p] \in AtWork /\ TypeOK /\ Cur(p) \notin Done(mem[p])
      /\ UNCHANGED <<pos, committed, did, edits>>
  BY InHand DEF IInv, RunGates, Rerun, InStage, AtWork, journal, bounds, Done
<1>2. CASE NoVerdict(p)
  BY <1>1, <1>2, OthersStop, StopMove DEF NoVerdict
<1>3. ASSUME NEW n \in 0..Gates[Cur(p)], Round(p, n), UNCHANGED mem, UNCHANGED disk \/ Save(p)
      PROVE  Move(p)
  <2>1. /\ pc'[p] = "judge" /\ failed'[p] = n /\ UNCHANGED <<work, head>> /\ head = work
        /\ disk' = disk \/ disk' = mem'[p]
        /\ gated' = IF n = 0 /\ Kind[Cur(p)] = "gate" THEN gated \cup {head} ELSE gated
    BY <1>1, <1>3 DEF Round, Goto, TypeOK, Save, Clean
  <2>2. TreeMove(p)
    BY <1>1, <1>3, <2>1 DEF TreeMove, Sealed
  <2>3. ControlMove(p) /\ DoneMove(p)
    BY <1>1, <1>3, <2>1 DEF ControlMove, DoneMove, InStage, AtWork
  <2> QED  BY <1>1, <1>3, <2>1, <2>2, <2>3 DEF Move, ShaMove, PerformMove
<1> QED  BY <1>2, <1>3 DEF RunGates, Rerun

LEMMA JudgeMove ==
  ASSUME IInv, NEW p \in Procs, Judge(p) PROVE Move(p)
<1>1. /\ pc[p] \in InStage /\ pc[p] = "judge"
      /\ UNCHANGED <<pos, gated, committed, did, edits, work, head>>
  BY DEF Judge, InStage, AtWork, tree, journal, bounds
<1>2. CASE failed[p] = 0 /\ Becomes(p, "complete") /\ UNCHANGED disk
  BY <1>1, <1>2, CompletesEnds, EndMove
<1>3. CASE WaitForItem(p, "question") \/ Fails(p)
  BY <1>1, <1>3, OthersStop, StopMove
<1> QED  BY <1>2, <1>3 DEF Judge

LEMMA CommitMove ==
  ASSUME IInv, NEW p \in Procs, CommitEffect(p) PROVE Move(p)
<1> DEFINE s == Cur(p)
           v == IF committed[s] # NoSha THEN committed[s] ELSE work
<1>1. /\ pc[p] \in InStage /\ pc[p] = "effect" /\ s \in Stages /\ mem[p] \in State
      /\ s \notin Done(mem[p]) /\ TypeOK
      /\ UNCHANGED <<pos, loop, acting, did, work, gated, edits>>
  BY InHand DEF IInv, CommitEffect, InStage, Done, bounds
<1>2. CASE Fails(p) /\ head' \in {head, work} /\ UNCHANGED committed
  BY <1>1, <1>2, OthersStop, StopMove
<1>3. CASE /\ committed' = [committed EXCEPT ![s] = v]
           /\ head' = IF committed[s] # NoSha THEN head ELSE work
           /\ mem' = [mem EXCEPT ![p].sha[s] = v]
           /\ Save(p)
           /\ UNCHANGED <<pc, owner>>
  <2>1. mem'[p].st = mem[p].st /\ mem'[p].sha = [mem[p].sha EXCEPT ![s] = v] /\ disk' = mem'[p]
    BY <1>1, <1>3 DEF TypeOK, State, Save
  <2>2. ShaMove(p)
    BY <1>1, <1>3, <2>1 DEF ShaMove
  <2>3. Done(mem'[p]) = Done(mem[p])
    BY <2>1 DEF Done
  <2> QED
    BY <1>1, <1>3, <2>1, <2>2, <2>3
       DEF Move, ControlMove, DoneMove, TreeMove, PerformMove, InStage, AtWork
<1> QED  BY <1>2, <1>3 DEF CommitEffect

LEMMA EffectMove ==
  ASSUME IInv, NEW p \in Procs, EffectStage(p) PROVE Move(p)
<1>1. /\ pc[p] \in InStage /\ pc[p] = "effect" /\ Kind[Cur(p)] = "effect" /\ Cur(p) \in Stages
      /\ TypeOK /\ mem[p] \in State /\ mem[p].st[Cur(p)] \notin Satisfied
      /\ UNCHANGED <<disk, pos, gated, committed, did, edits, work, head>>
  BY InHand DEF IInv, Control, EffectStage, InStage, tree, journal, bounds
<1>2. CASE Becomes(p, "complete")
  BY <1>1, <1>2, CompletesEnds, EndMove
<1>3. CASE Becomes(p, "waiting-human") \/ Becomes(p, "failed")
  BY <1>1, <1>3, OthersStop, StopMove
<1>4. CASE /\ mem' = [mem EXCEPT ![p].st[Cur(p)] = "waiting-human",
                                 ![p].signing[Cur(p)] = Sha(p)]
           /\ Goto(p, "settle")
  <2>1. /\ mem'[p].st = [mem[p].st EXCEPT ![Cur(p)] = "waiting-human"]
        /\ mem'[p].sha = mem[p].sha /\ pc'[p] = "settle"
    BY <1>1, <1>4 DEF TypeOK, State, Goto
  <2>2. mem[p].st \in [Stages -> StageStates]
    BY <1>1 DEF State
  <2>3. Done(mem'[p]) = Done(mem[p])
    BY <1>1, <2>1, <2>2, DoneAfter DEF Satisfied
  <2> QED  BY <1>1, <2>1, <2>3, StopMove DEF StageStops
<1>5. CASE /\ head_of' = [head_of EXCEPT ![p] = Sha(p)]
           /\ Goto(p, "perform") /\ UNCHANGED <<mem, approvals>>
  <2>1. pc'[p] = "perform" /\ head_of'[p] = Sha(p) /\ Sha(p) # NoSha
    BY <1>1, <1>5 DEF TypeOK, Goto, EffectStage
  <2> QED
    BY <1>1, <1>5, <2>1 DEF Move, ControlMove, DoneMove, TreeMove, ShaMove, PerformMove,
                            InStage, AtWork
<1> QED  BY <1>2, <1>3, <1>4, <1>5 DEF EffectStage

LEMMA PerformsMove ==
  ASSUME IInv, NEW p \in Procs, Perform(p) PROVE Move(p)
<1> DEFINE s == Cur(p)
           e == Rest[s][turn[p]]
<1>1. /\ pc[p] \in InStage /\ pc[p] = "perform" /\ Kind[s] = "effect" /\ s \in Stages
      /\ TypeOK /\ mem[p] \in State /\ s \notin Done(mem[p])
      /\ UNCHANGED <<pos, head_of, gated, committed, edits, work, head>>
  BY InHand DEF IInv, Control, Perform, InStage, tree, bounds, Done
<1>2. e \in Range(Rest[s])
  <2>1. turn[p] \in 1..(Len(Rest[s]) + 1) /\ turn[p] <= Len(Rest[s]) /\ Len(Rest[s]) \in Nat
    BY <1>1, RestFacts DEF IInv, Control, Perform
  <2>2. turn[p] \in 1..Len(Rest[s])
    BY <2>1
  <2> QED  BY <1>1, <2>2, RestFacts
<1>3. did' \subseteq did \cup {<<s, e, head_of[p]>>}
  BY DEF Perform
<1>4. CASE Fails(p)
  <2>1. StageStops(p)
    BY <1>1, <1>4, OthersStop
  <2> QED
    BY <1>1, <1>2, <1>3, <2>1
       DEF StageStops, Move, ControlMove, DoneMove, TreeMove, ShaMove, PerformMove, InStage, AtWork
<1>5. CASE mem' = [mem EXCEPT ![p].observed[s] = @ \cup {e}] /\ Save(p) /\ UNCHANGED pc
  <2>1. mem'[p].st = mem[p].st /\ mem'[p].sha = mem[p].sha /\ disk' = mem'[p]
    BY <1>1, <1>5 DEF TypeOK, State, Save
  <2>2. Done(mem'[p]) = Done(mem[p])
    BY <2>1 DEF Done
  <2> QED
    BY <1>1, <1>2, <1>3, <1>5, <2>1, <2>2
       DEF Move, ControlMove, DoneMove, TreeMove, ShaMove, PerformMove, InStage, AtWork
<1> QED  BY <1>4, <1>5 DEF Perform

LEMMA PlainMove ==
  ASSUME IInv, NEW p \in Procs, PerformEnds(p) \/ HumanStage(p) PROVE Move(p)
<1>1. /\ pc[p] \in InStage /\ Kind[Cur(p)] # "gate"
      /\ UNCHANGED <<pos, gated, committed, did, edits, work, head>>
  BY DEF IInv, Control, PerformEnds, HumanStage, InStage, tree, journal, bounds
<1>2. CASE Becomes(p, "complete") /\ UNCHANGED disk
  BY <1>1, <1>2, CompletesEnds, EndMove
<1>3. CASE \/ Becomes(p, "waiting-human") /\ UNCHANGED disk
           \/ Fails(p) \/ WaitForItem(p, "question")
  BY <1>1, <1>3, OthersStop, StopMove
<1> QED  BY <1>2, <1>3 DEF PerformEnds, HumanStage

LEMMA StepMove ==
  ASSUME IInv, AgentsWork, NEW p \in Procs, pc[p] \in InStage, Step(p)
  PROVE  Move(p)
BY AgentMove, DispatchMove, GatesMove, JudgeMove, CommitMove, EffectMove, PerformsMove,
   PlainMove DEF Step, Advance, Settle, Stop, InStage, AtWork

-----------------------------------------------------------------------------
(* ... and what it leaves true, for one process *)

LEMMA KeptIsDone == ASSUME NEW a, NEW b, Keeps(a, b) PROVE Done(a) \subseteq Done(b)
BY DEF Keeps, Done

LEMMA MoveKeeps ==
  ASSUME IInv, TypeOK', TreeOK, OneProcess, PushesAreGuarded,
         NEW p \in Procs, pc[p] \in InStage, Move(p)
  PROVE  TreeOK'
<1>1. /\ \A q \in Procs : q = p
      /\ Cur(p)' = Cur(p) /\ Cur(p) \in Stages
      /\ Done(disk) = Done(mem[p]) /\ pc[p] # "off"
  <2>1. Cur(p)' = Cur(p)
    BY DEF Move, ControlMove, Cur
  <2>2. Done(mem[p]) \subseteq Done(disk) /\ Done(disk) \subseteq Done(mem[p])
    BY InHand, KeptIsDone DEF IInv, TreeOK, DoneIsSaved
  <2> QED  BY <2>1, <2>2, InHand DEF OneProcess
<1>2. AgentsWork'
  <2>1. pc'[p] \in {"agent", "dispatch", "repair"} => Kind[Cur(p)] = "agent"
    BY DEF TreeOK, AgentsWork, Move, ControlMove
  <2> QED  BY <1>1, <2>1 DEF AgentsWork
<1>3. DoneIsSaved'
  <2>1. pc'[p] \in InStage => Done(mem'[p]) = Done(mem[p])
                              /\ (disk' = disk \/ disk' = mem'[p])
    BY DEF Move, DoneMove
  <2>2. pc'[p] \notin {"advance", "stop"}
    BY DEF Move, ControlMove, InStage, AtWork
  <2> QED  BY <1>1, <2>1, <2>2 DEF DoneIsSaved
<1> SUFFICES ASSUME edits = 0
             PROVE  JudgedIsSealed' /\ GatedIsSealed' /\ ShasAreGated' /\ PushesAreGated'
  BY <1>2, <1>3 DEF TreeOK, Move, ControlMove
<1>4. JudgedIsSealed /\ GatedIsSealed /\ ShasAreGated /\ PushesAreGated /\ gated \subseteq gated'
  BY DEF TreeOK, Move, TreeMove
<1>5. ASSUME NEW s \in Pushing, NEW g \in Stages, Guards(g, s), Between(mem[p], g, s)
      PROVE  Sealed /\ Sealed'
  <2>1. Sealed
    BY <1>1, <1>4, <1>5 DEF GatedIsSealed
  <2>2. pc[p] \notin AtWork
    BY <1>5, NoneBetween
  <2>3. UNCHANGED <<work, head>>
    BY <2>1, <2>2 DEF Move, TreeMove, Sealed
  <2> QED  BY <1>4, <2>1, <2>3 DEF Sealed
<1>6. ASSUME NEW s \in Pushing, NEW g \in Stages, Guards(g, s), Between(mem'[p], g, s)
      PROVE  Sealed'
  <2>1. CASE Between(mem[p], g, s)
    BY <1>5, <1>6, <2>1
  <2>2. CASE ~Between(mem[p], g, s)
    <3>1. g = Cur(p) /\ Cur(p) \in Done(mem'[p]) /\ Kind[g] = "gate"
      BY <1>6, <2>2 DEF Between, Move, DoneMove, Guards
    <3>2. pc[p] = "judge" /\ failed[p] = 0 /\ UNCHANGED <<work, head>>
      BY <3>1 DEF Move, TreeMove
    <3> QED  BY <1>4, <3>1, <3>2 DEF JudgedIsSealed, Sealed
  <2> QED  BY <2>1, <2>2
<1>7. GatedIsSealed'
  <2>1. ASSUME NEW s \in Pushing, NEW g \in Stages, Guards(g, s), Between(disk', g, s)
        PROVE  Sealed'
    <3>1. CASE disk' = disk
      BY <1>1, <1>5, <2>1, <3>1 DEF Between
    <3>2. CASE disk' = mem'[p]
      BY <1>6, <2>1, <3>2
    <3> QED  BY <3>1, <3>2 DEF Move, DoneMove
  <2> QED  BY <1>1, <1>6, <2>1 DEF GatedIsSealed
<1>8. JudgedIsSealed'
  <2>1. pc'[p] = "judge" /\ Kind[Cur(p)] = "gate" /\ failed'[p] = 0 => Sealed'
    BY DEF Move, TreeMove
  <2> QED  BY <1>1, <2>1 DEF JudgedIsSealed
\* A stage that publishes, publishes what was gated.
<1>9. ASSUME pc[p] \in {"effect", "perform"}, Cur(p) \in Pushing
      PROVE  work \in gated /\ head \in gated
  <2>1. PICK g \in Stages : Guards(g, Cur(p))
    BY <1>9 DEF PushesAreGuarded
  <2>2. Sealed
    BY <1>5, <1>9, <2>1, PublishesBetween
  <2> QED  BY <2>2 DEF Sealed
<1>10. ShasAreGated'
  <2> SUFFICES ASSUME NEW s \in Pushing
               PROVE  /\ committed'[s] # NoSha => committed'[s] \in gated'
                      /\ disk'.sha[s] # NoSha => disk'.sha[s] \in gated'
                      /\ mem'[p].sha[s] # NoSha => mem'[p].sha[s] \in gated'
                      /\ pc'[p] = "perform" /\ Cur(p) = s => head_of'[p] \in gated'
    BY <1>1 DEF ShasAreGated
  <2>0. /\ s \in Stages /\ mem[p] \in State /\ committed \in [Stages -> 0..MaxVersion]
        /\ mem[p].sha \in [Stages -> 0..MaxVersion]
    BY DEF IInv, TypeOK, Pushing, State
  <2>1. committed'[s] # NoSha => committed'[s] \in gated
    BY <1>4, <1>9, <2>0 DEF Move, ShaMove, ShasAreGated
  <2>2. mem'[p].sha[s] # NoSha => mem'[p].sha[s] \in gated
    BY <1>4, <1>9, <2>0 DEF Move, ShaMove, ShasAreGated
  <2>3. disk'.sha[s] # NoSha => disk'.sha[s] \in gated
    BY <1>4, <2>2 DEF Move, DoneMove, ShasAreGated
  <2>4. pc'[p] = "perform" /\ Cur(p) = s => head_of'[p] \in gated
    BY <1>4, <1>9 DEF Move, PerformMove, ShasAreGated, Sha
  <2> QED  BY <1>4, <2>1, <2>2, <2>3, <2>4
<1>11. PushesAreGated'
  <2> SUFFICES ASSUME NEW d \in did', d[2] = "push" PROVE d[3] \in gated
    BY <1>4 DEF PushesAreGated
  <2>1. CASE d \in did
    BY <1>4, <2>1 DEF PushesAreGated
  <2>2. CASE d \notin did
    <3>1. /\ pc[p] = "perform" /\ d[1] = Cur(p) /\ d[2] \in Range(Rest[Cur(p)])
          /\ d[3] = head_of[p]
      BY <2>2 DEF Move, PerformMove
    <3>2. Cur(p) \in Pushing
      BY <1>1, <3>1 DEF Pushing, IInv, Control
    <3> QED  BY <1>4, <3>1, <3>2 DEF ShasAreGated
  <2> QED  BY <2>1, <2>2
<1> QED  BY <1>7, <1>8, <1>10, <1>11

\* Between the stages nothing is edited, gated or performed.
LEMMA QuietKeeps ==
  ASSUME TreeOK, OneProcess, NEW p \in Procs, UNCHANGED <<tree, journal, edits>>,
         AgentsWork', DoneIsSaved', pc'[p] \notin {"judge", "perform"},
         mem'[p].sha \in {mem[p].sha, disk.sha}, disk'.sha \in {mem[p].sha, disk.sha},
         \A s \in Pushing, g \in Stages : Guards(g, s) =>
           /\ Between(disk', g, s) =>
                Between(disk, g, s) \/ (pc[p] # "off" /\ Between(mem[p], g, s))
           /\ pc'[p] # "off" /\ Between(mem'[p], g, s) =>
                Between(disk, g, s) \/ (pc[p] # "off" /\ Between(mem[p], g, s))
  PROVE  TreeOK'
<1>1. \A q \in Procs : q = p
  BY DEF OneProcess
<1> SUFFICES ASSUME edits = 0
             PROVE  JudgedIsSealed' /\ GatedIsSealed' /\ ShasAreGated' /\ PushesAreGated'
  BY DEF TreeOK
<1>2. JudgedIsSealed /\ GatedIsSealed /\ ShasAreGated /\ PushesAreGated
      /\ UNCHANGED <<work, head, gated, committed, did>> /\ Sealed' = Sealed
  BY DEF TreeOK, tree, journal, Sealed
<1>3. GatedIsSealed'
  BY <1>1, <1>2 DEF GatedIsSealed
<1>4. JudgedIsSealed'
  BY <1>1 DEF JudgedIsSealed
<1>5. ShasAreGated'
  BY <1>1, <1>2 DEF ShasAreGated
<1>6. PushesAreGated'
  BY <1>2 DEF PushesAreGated
<1> QED  BY <1>3, <1>4, <1>5, <1>6

LEMMA ResumeKeeps ==
  ASSUME IInv, TreeOK, OneProcess, NEW p \in Procs, Start(p) PROVE TreeOK'
<1>1. /\ pc'[p] = "advance" /\ disk' = mem'[p] /\ disk'.sha = disk.sha
      /\ disk'.st = [s \in Stages |-> IF disk.st[s] \in Retried THEN "ready" ELSE disk.st[s]]
      /\ UNCHANGED <<tree, journal, edits>>
  BY DEF IInv, TypeOK, Start, Goto, Save, State, bounds
<1>2. Done(disk') = Done(disk)
  BY <1>1 DEF Done, Satisfied, Retried
<1>3. AgentsWork' /\ DoneIsSaved'
  BY <1>1 DEF OneProcess, AgentsWork, DoneIsSaved
<1> QED  BY <1>1, <1>2, <1>3, QuietKeeps DEF Between

LEMMA AdvanceKeeps ==
  ASSUME IInv, TreeOK, OneProcess, NEW p \in Procs, Advance(p) PROVE TreeOK'
<1>1. /\ pc[p] = "advance" /\ UNCHANGED <<tree, journal, edits>> /\ mem[p] \in State /\ TypeOK
      /\ Done(mem[p]) \subseteq Done(disk) /\ \A q \in Procs : q = p
  BY DEF IInv, TypeOK, Advance, bounds, TreeOK, DoneIsSaved, OneProcess
<1>2. CASE \E status \in {"complete", "blocked"} : End(p, status)
  <2>1. /\ pc'[p] = "off" /\ UNCHANGED mem /\ disk'.sha = mem[p].sha
        /\ Done(disk') = Done(mem[p])
    BY <1>1, <1>2 DEF End, Goto, State, TypeOK, Done
  <2>2. AgentsWork' /\ DoneIsSaved'
    BY <1>1, <2>1 DEF AgentsWork, DoneIsSaved, InStage, AtWork
  <2> QED  BY <1>1, <2>1, <2>2, QuietKeeps DEF Between
<1>3. CASE NextStage(p) /\ UNCHANGED <<disk, mem, pc>>
  <2>1. AgentsWork' /\ DoneIsSaved'
    BY <1>1, <1>3 DEF AgentsWork, DoneIsSaved
  <2> QED  BY <1>1, <1>3, <2>1, QuietKeeps
<1>4. CASE /\ pos[p] <= Len(Order) /\ mem[p].st[Cur(p)] \notin Satisfied /\ ~Applies[Cur(p)]
           /\ mem' = [mem EXCEPT ![p].st[Cur(p)] = "skipped"]
           /\ Save(p) /\ UNCHANGED pc
  <2>1. Cur(p) \in Stages
    BY <1>1, <1>4, OrderFacts, RunLoopAssumption DEF TypeOK, Cur
  <2>2. /\ disk' = mem'[p] /\ mem'[p].sha = mem[p].sha
        /\ mem'[p].st = [mem[p].st EXCEPT ![Cur(p)] = "skipped"]
    BY <1>1, <1>4, <2>1 DEF Save, TypeOK, State
  <2>3. mem[p].st \in [Stages -> StageStates]
    BY <1>1 DEF State
  <2>4. Done(mem'[p]) = Done(mem[p]) \cup {Cur(p)}
    <3>1. "skipped" \in Satisfied
      BY DEF Satisfied
    <3>2. /\ mem'[p].st[Cur(p)] = "skipped"
          /\ \A t \in Stages : t # Cur(p) => mem'[p].st[t] = mem[p].st[t]
      BY <2>1, <2>2, <2>3
    <3> QED  BY <2>1, <3>1, <3>2 DEF Done
  <2>5. \A s \in Pushing, g \in Stages :
          Guards(g, s) /\ Between(mem'[p], g, s) => Between(mem[p], g, s)
    BY <1>4, <2>4 DEF Guards, Between
  <2>6. AgentsWork' /\ DoneIsSaved'
    BY <1>1, <1>4, <2>2 DEF AgentsWork, DoneIsSaved
  <2> QED  BY <1>1, <1>4, <2>2, <2>5, <2>6, QuietKeeps
<1>5. CASE /\ Goto(p, IF Kind[Cur(p)] = "gate" THEN "gates" ELSE Kind[Cur(p)])
           /\ pos[p] <= Len(Order) /\ UNCHANGED <<disk, mem, pos>>
  <2>1. Cur(p) \in Stages /\ Cur(p)' = Cur(p)
    BY <1>1, <1>5, OrderFacts, RunLoopAssumption DEF TypeOK, Cur
  <2>2. pc'[p] = IF Kind[Cur(p)] = "gate" THEN "gates" ELSE Kind[Cur(p)]
    BY <1>1, <1>5 DEF Goto, TypeOK
  <2>3. Kind[Cur(p)] \in {"agent", "gate", "effect", "human"}
    BY <2>1, RunLoopAssumption
  <2>4. AgentsWork' /\ DoneIsSaved'
    BY <1>1, <1>5, <2>1, <2>2, <2>3 DEF AgentsWork, DoneIsSaved
  <2> QED  BY <1>1, <1>5, <2>2, <2>3, <2>4, QuietKeeps
<1>6. pos[p] > Len(Order) \/ pos[p] <= Len(Order)
  BY <1>1, RunLoopAssumption DEF TypeOK
<1> QED  BY <1>2, <1>3, <1>4, <1>5, <1>6 DEF Advance

LEMMA SettleKeeps ==
  ASSUME IInv, TreeOK, OneProcess, NEW p \in Procs, Settle(p) \/ Stop(p) PROVE TreeOK'
<1>1. /\ pc[p] # "off" /\ UNCHANGED <<mem, tree, journal, edits>> /\ mem[p] \in State /\ TypeOK
      /\ \A q \in Procs : q = p
  BY DEF IInv, TypeOK, Settle, Stop, End, bounds, OneProcess
<1>2. /\ disk'.sha = mem[p].sha /\ Done(disk') = Done(mem[p])
      /\ pc'[p] \in {"advance", "stop", "off"}
  <2>1. CASE Settle(p)
    BY <1>1, <2>1 DEF Settle, Goto, TypeOK
  <2>2. CASE Stop(p)
    BY <1>1, <2>2 DEF Stop, End, Goto, State, TypeOK, Done
  <2> QED  BY <2>1, <2>2
<1>3. AgentsWork' /\ DoneIsSaved'
  BY <1>1, <1>2 DEF AgentsWork, DoneIsSaved
<1> QED  BY <1>1, <1>2, <1>3, QuietKeeps DEF Between

\* Nothing of a run moves while others act; a process that is killed leaves its
\* checkpoint.
LEMMA OthersKeep ==
  ASSUME TreeOK, OneProcess, TypeOK,
         \/ UNCHANGED vars
         \/ \E p \in Procs : Crash(p)
         \/ \E a \in Asks : Answer(a)
         \/ \E a \in Stages \X Versions : Decide(a)
  PROVE  TreeOK'
<1>1. /\ UNCHANGED <<disk, mem, pos, head_of, failed, work, head, gated, committed, did, edits>>
      /\ \A p \in Procs : pc'[p] \in {pc[p], "off"}
  BY DEF vars, Crash, Answer, Decide, Goto, TypeOK, loop, acting, tree, journal, bounds
<1>2. AgentsWork' /\ DoneIsSaved'
  BY <1>1 DEF TreeOK, AgentsWork, DoneIsSaved, Cur, InStage, AtWork, Done
<1>3. edits = 0 => JudgedIsSealed' /\ GatedIsSealed'
  BY <1>1 DEF TreeOK, JudgedIsSealed, GatedIsSealed, Cur, Sealed
<1>4. edits = 0 => ShasAreGated' /\ PushesAreGated'
  BY <1>1 DEF TreeOK, ShasAreGated, PushesAreGated, Cur
<1> QED  BY <1>1, <1>2, <1>3, <1>4 DEF TreeOK

LEMMA EditKeeps ==
  ASSUME TreeOK, TypeOK, Edit PROVE TreeOK'
<1>1. UNCHANGED <<disk, mem, pc, pos>> /\ edits' # 0
  BY RunLoopAssumption DEF Edit, TypeOK
<1>2. AgentsWork' /\ DoneIsSaved'
  BY <1>1 DEF TreeOK, AgentsWork, DoneIsSaved, Cur, Done
<1> QED  BY <1>1, <1>2 DEF TreeOK

LEMMA TreeInit == ASSUME Init PROVE TreeOK
<1>1. /\ \A p \in Procs : pc[p] = "off"
      /\ disk = Fresh /\ committed = [s \in Stages |-> NoSha] /\ did = {}
      /\ \A p \in Procs : mem[p] = Fresh
  BY DEF Init
<1>2. Done(Fresh) = {} /\ Fresh.sha = [s \in Stages |-> NoSha]
  BY DEF Fresh, Done, Satisfied
<1>3. AgentsWork /\ DoneIsSaved /\ JudgedIsSealed
  BY <1>1 DEF AgentsWork, DoneIsSaved, JudgedIsSealed, InStage, AtWork
<1>4. GatedIsSealed
  BY <1>1, <1>2 DEF GatedIsSealed, Between
<1>5. ShasAreGated /\ PushesAreGated
  BY <1>1, <1>2 DEF ShasAreGated, PushesAreGated, Pushing
<1> QED  BY <1>3, <1>4, <1>5 DEF TreeOK

\* run.py, effect_stage after _gated: over any number of kills, failures and resumes
\* of one process, what is pushed is a version a gate stage passed, as long as nobody
\* outside the run edits the tree.
THEOREM PublishesWhatWasGated ==
  ASSUME OneProcess, PushesAreGuarded PROVE Spec => []PublishedWasGated
<1>1. IInv /\ TreeOK /\ [Next]_vars => IInv' /\ TreeOK'
  <2> SUFFICES ASSUME IInv, TreeOK, [Next]_vars PROVE IInv' /\ TreeOK'
    OBVIOUS
  <2>1. IInv' /\ TypeOK /\ TypeOK'
    BY NextInv DEF IInv
  <2>2. ASSUME NEW p \in Procs, Step(p) PROVE TreeOK'
    <3>1. CASE pc[p] \in InStage
      BY <2>1, <2>2, <3>1, StepMove, MoveKeeps DEF TreeOK
    <3>2. CASE pc[p] \notin InStage
      <4>1. Advance(p) \/ Settle(p) \/ Stop(p)
        BY <2>2, <3>2 DEF Step, AgentStage, Dispatch, Repair, RunGates, Rerun, Judge,
             CommitEffect, EffectStage, Perform, PerformEnds, HumanStage, InStage, AtWork
      <4> QED  BY <4>1, AdvanceKeeps, SettleKeeps
    <3> QED  BY <3>1, <3>2
  <2> QED  BY <2>1, <2>2, ResumeKeeps, OthersKeep, EditKeeps DEF Next
<1>2. TreeOK => PublishedWasGated
  BY DEF TreeOK, PushesAreGated, PublishedWasGated
<1> QED  BY <1>1, <1>2, InitInv, TreeInit, PTL DEF Spec
=============================================================================
