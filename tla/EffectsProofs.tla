--------------------------- MODULE EffectsProofs ---------------------------
(***************************************************************************)
(* Theorems about the effect journal, for every set of processes, batches, *)
(* branches and approvals, and any number of crashes and faults.           *)
(***************************************************************************)
EXTENDS Effects, TLAPS

Working == {"query", "settle", "append", "lookup", "journal", "run", "create",
            "receipt", "record", "fail"}
Performing == {"lookup", "journal", "run", "create", "receipt", "record", "fail"}

\* Where a process stands says what it has in hand.
Control ==
  \A p \in Procs :
    /\ pc[p] \in {"off", "up", "sweep"} => batch[p] = NoBatch
    /\ pc[p] = "sweep" => at[p] >= 1
    /\ pc[p] \in {"query", "settle"} /\ batch[p] = NoBatch => at[p] \in 1..Len(Keys)
    /\ pc[p] \in Performing \cup {"append"} => batch[p] # NoBatch
    /\ batch[p] # NoBatch => at[p] \in 1..Len(Work[batch[p]])

LEMMA CurInRequests ==
  ASSUME TypeOK, Control, NEW p \in Procs, pc[p] \in Working
  PROVE  /\ Cur(p) \in Requests
         /\ batch[p] # NoBatch => Cur(p)[1] = batch[p]
<1> USE EffectsAssumption
<1>1. CASE batch[p] = NoBatch
  <2>1. at[p] \in 1..Len(Keys)
    BY <1>1 DEF Control, Working, Performing
  <2> QED BY <1>1, <2>1 DEF Cur
<1>2. CASE batch[p] # NoBatch
  <2> DEFINE b == batch[p]
  <2>1. b \in Batches /\ at[p] \in 1..Len(Work[b])
    BY <1>2 DEF Control, TypeOK
  <2>2. Work[b] \in Seq(Kinds)
    BY <2>1
  <2>3. Work[b][at[p]] \in Kinds /\ Work[b][at[p]] \in Range(Work[b])
    BY <2>1, <2>2 DEF Range
  <2> QED BY <1>2, <2>1, <2>3 DEF Cur, Requests
<1> QED BY <1>1, <1>2

-----------------------------------------------------------------------------
(* Types and control flow *)

Labels == Working \cup {"off", "up", "sweep"}
LocalOK ==
  /\ pc \in [Procs -> Labels]
  /\ batch \in [Procs -> Batches \cup {NoBatch}]
  /\ at \in [Procs -> Nat]

\* Control for one process, so that a step is judged for the one it moves.
Control1(p) ==
  /\ pc[p] \in {"off", "up", "sweep"} => batch[p] = NoBatch
  /\ pc[p] = "sweep" => at[p] >= 1
  /\ pc[p] \in {"query", "settle"} /\ batch[p] = NoBatch => at[p] \in 1..Len(Keys)
  /\ pc[p] \in Performing \cup {"append"} => batch[p] # NoBatch
  /\ batch[p] # NoBatch => at[p] \in 1..Len(Work[batch[p]])

\* A step that moves one process only: the others keep their control.
LEMMA OneMoves ==
  ASSUME LocalOK, Control, NEW p \in Procs,
         NEW l \in Labels, NEW b \in Batches \cup {NoBatch}, NEW n \in Nat,
         pc' = [pc EXCEPT ![p] = l],
         batch' = [batch EXCEPT ![p] = b],
         at' = [at EXCEPT ![p] = n],
         Control1(p)'
  PROVE  LocalOK' /\ Control'
<1>1. LocalOK'
  BY DEF LocalOK
<1>2. ASSUME NEW q \in Procs PROVE Control1(q)'
  <2>1. CASE q = p
    BY <2>1
  <2>2. CASE q # p
    <3>1. pc'[q] = pc[q] /\ batch'[q] = batch[q] /\ at'[q] = at[q]
      BY <2>2 DEF LocalOK
    <3>2. Control1(q)
      BY DEF Control, Control1
    <3> QED BY <3>1, <3>2 DEF Control1
  <2> QED BY <2>1, <2>2
<1> QED BY <1>1, <1>2 DEF Control, Control1

LEMMA GoToMoves ==
  ASSUME LocalOK, Control, NEW p \in Procs, NEW l \in Working, GoTo(p, l),
         l \in Performing \cup {"append"} => batch[p] # NoBatch,
         l \in {"query", "settle"} /\ batch[p] = NoBatch => at[p] \in 1..Len(Keys)
  PROVE  LocalOK' /\ Control'
<1>1. /\ batch' = [batch EXCEPT ![p] = batch[p]] /\ batch[p] \in Batches \cup {NoBatch}
      /\ at' = [at EXCEPT ![p] = at[p]] /\ at[p] \in Nat
      /\ l \in Labels
  BY DEF LocalOK, GoTo, Labels
<1>2. Control1(p)'
  <2>1. pc'[p] = l /\ batch'[p] = batch[p] /\ at'[p] = at[p]
    BY DEF LocalOK, GoTo
  <2>2. l \notin {"off", "up", "sweep"}
    BY DEF Working
  <2>3. Control1(p)
    BY DEF Control, Control1
  <2> QED BY <2>1, <2>2, <2>3 DEF Control1
<1>3. pc' = [pc EXCEPT ![p] = l]
  BY DEF GoTo
<1> QED BY <1>1, <1>2, <1>3, OneMoves

LEMMA ReturnMoves ==
  ASSUME LocalOK, Control, NEW p \in Procs, NEW l \in {"off", "up"}, Return(p, l)
  PROVE  LocalOK' /\ Control'
<1>1. Control1(p)'
  <2>1. pc'[p] = l /\ batch'[p] = NoBatch
    BY DEF LocalOK, Return
  <2> QED BY <2>1 DEF Control1, Performing
<1> QED BY <1>1, OneMoves DEF Return, Labels

LEMMA NextRequestMoves ==
  ASSUME LocalOK, Control, NEW p \in Procs, pc[p] \in Working \cup {"sweep"},
         NextRequest(p)
  PROVE  LocalOK' /\ Control'
<1> USE EffectsAssumption
<1>0. Control1(p) /\ at[p] \in Nat /\ at[p] + 1 \in Nat
  BY DEF Control, Control1, LocalOK
<1>1. CASE batch[p] = NoBatch
  <2>1. /\ pc' = [pc EXCEPT ![p] = "sweep"]
        /\ batch' = [batch EXCEPT ![p] = NoBatch]
        /\ at' = [at EXCEPT ![p] = at[p] + 1]
    BY <1>1 DEF NextRequest, LocalOK
  <2>2. Control1(p)'
    BY <2>1, <1>0 DEF Control1, LocalOK, Performing
  <2> QED BY <2>1, <2>2, <1>0, OneMoves DEF Labels
<1>2. CASE batch[p] # NoBatch /\ at[p] < Len(Work[batch[p]])
  <2>1. /\ pc' = [pc EXCEPT ![p] = "lookup"]
        /\ batch' = [batch EXCEPT ![p] = batch[p]] /\ batch[p] \in Batches
        /\ at' = [at EXCEPT ![p] = at[p] + 1]
    BY <1>2 DEF NextRequest, LocalOK
  <2>2. Len(Work[batch[p]]) \in Nat
    BY <2>1
  <2>3. Control1(p)'
    BY <2>1, <2>2, <1>0, <1>2 DEF Control1, LocalOK
  <2> QED BY <2>1, <2>3, <1>0, OneMoves DEF Labels, Working
<1>3. CASE batch[p] # NoBatch /\ ~(at[p] < Len(Work[batch[p]]))
  BY <1>3, ReturnMoves DEF NextRequest
<1> QED BY <1>1, <1>2, <1>3

-----------------------------------------------------------------------------
(* The inductive invariant *)

DataOK ==
  /\ journal \in [Requests -> {"none", "pending", "failed", "done", "reconciled"}]
  /\ receipts \subseteq Requests
  /\ consumed \subseteq Items \X Stages
  /\ items \in [Items -> {"asked", "signed", "rejected", "expired"}]
  /\ tree \in [Branches -> SUBSET {"edited", "staged"}]
  /\ log \in [Branches -> Seq(Requests)]
  /\ remote \in [Branches -> Nat \cup {NoRef}]
  /\ pr \in [Branches -> {"none", "open", "closed"}]
  /\ faults \in 0..MaxFaults /\ edits \in 0..MaxEdits /\ closed \in 0..MaxClosed
  /\ shown \subseteq Requests
  /\ acts \in [Requests -> Nat]

LEMMA TypeSplit == TypeOK <=> LocalOK /\ DataOK
BY DEF TypeOK, LocalOK, DataOK, Labels, Working

\* What the world shows now it has shown.
VisibleShown == \A r \in Requests : Visible(r) => r \in shown

Consent(b) == /\ items[ItemOf[b]] \in {"signed", "expired"}
              /\ b \in Binds[ItemOf[b]]

\* What a process has in hand backs what it is about to write or do.
Hand(p) ==
  /\ pc[p] \in {"settle", "receipt", "record"} => Cur(p) \in shown
  /\ pc[p] = "record" => Cur(p) \in receipts
  /\ batch[p] # NoBatch /\ NeedsApproval(batch[p]) =>
       Consent(batch[p]) /\ (pc[p] # "append" => Mine(batch[p]))

IInv ==
  /\ TypeOK /\ Control
  /\ VisibleShown
  /\ \A p \in Procs : Hand(p)
  /\ DoneShown /\ ReceiptBeforeDone /\ ActsOnlyOnConsent

LEMMA InitIInv == Init => IInv
<1> SUFFICES ASSUME Init PROVE IInv
  OBVIOUS
<1> USE EffectsAssumption DEF Init
<1>1. TypeOK
  BY DEF TypeOK, NoRef
<1>2. Control
  BY DEF Control, Performing
<1>3. VisibleShown
  <2> SUFFICES ASSUME NEW r \in Requests PROVE ~Visible(r)
    BY DEF VisibleShown
  <2>1. r[1] \in Batches /\ Br(r) \in Branches /\ ShaOf[r[1]] \in Nat
    BY DEF Requests, Br
  <2>2. remote[Br(r)] # ShaOf[r[1]] /\ pr[Br(r)] # "open"
    BY <2>1 DEF NoRef
  <2>3. Range(log[Br(r)]) = {}
    BY <2>1 DEF Range
  <2> QED BY <2>2, <2>3 DEF Visible
<1>4. \A p \in Procs : Hand(p)
  BY DEF Hand
<1>5. DoneShown /\ ReceiptBeforeDone /\ ActsOnlyOnConsent
  BY DEF DoneShown, IsDone, ReceiptBeforeDone, ActsOnlyOnConsent
<1> QED BY <1>1, <1>2, <1>3, <1>4, <1>5 DEF IInv

-----------------------------------------------------------------------------
(* What every step leaves alone *)

\* Evidence only grows, and a signature can only run out.
Monotone ==
  /\ shown \subseteq shown' /\ receipts \subseteq receipts'
  /\ consumed \subseteq consumed'
  /\ \A i \in Items : items[i] \in {"signed", "expired"} =>
                        items'[i] \in {"signed", "expired"}

LEMMA NextMonotone == DataOK /\ [Next]_vars => Monotone
<1> SUFFICES ASSUME DataOK, [Next]_vars PROVE Monotone
  OBVIOUS
<1>1. ASSUME NEW p \in Procs, Start(p) \/ Step(p) \/ Crash(p) \/ Exit(p)
      PROVE  Monotone
  BY <1>1 DEF Start, Step, Crash, Exit, SweepNext, SweepEnd, Query, Settle,
     Consume, Lookup, WritePending, Refuse, Push, CommitStage, Commit, ListPR,
     CreatePR, Fails, Receipt, WriteDone, WriteFailed, Acted, Monotone, store,
     history
<1>2. ASSUME NEW p \in Procs, NEW b \in Batches, Authorize(p, b)
      PROVE  Monotone
  BY <1>2 DEF Authorize, Monotone, store, history
<1>3. ASSUME NEW i \in Items, Decide(i)
      PROVE  Monotone
  BY <1>3 DEF Decide, Monotone, store, history, DataOK
<1>4. ASSUME NEW b \in Branches, Edit(b) \/ ClosePR(b)
      PROVE  Monotone
  BY <1>4 DEF Edit, ClosePR, Monotone, store, history
<1>5. CASE UNCHANGED vars
  BY <1>5 DEF vars, Monotone, store, history
<1> QED BY <1>1, <1>2, <1>3, <1>4, <1>5 DEF Next

Still(q) == pc'[q] = pc[q] /\ batch'[q] = batch[q] /\ at'[q] = at[q]

\* A process that does not move keeps what backs its hand.
LEMMA HandKept ==
  ASSUME LocalOK, NEW q \in Procs, Hand(q), Monotone, Still(q)
  PROVE  Hand(q)'
<1> USE EffectsAssumption
<1>1. Cur(q)' = Cur(q)
  BY DEF Cur, Still
<1>2. ASSUME batch[q] # NoBatch, Consent(batch[q])
      PROVE  Consent(batch[q])'
  <2>1. batch[q] \in Batches /\ ItemOf[batch[q]] \in Items
    BY <1>2 DEF LocalOK
  <2> QED BY <1>2, <2>1 DEF Consent, Monotone, Still
<1>3. Mine(batch[q]) => Mine(batch[q])'
  BY DEF Mine, Monotone, Still
<1> QED BY <1>1, <1>2, <1>3 DEF Hand, Still, Monotone, NeedsApproval, Consent, Mine

LEMMA OthersStill ==
  ASSUME LocalOK, NEW p \in Procs, NEW l \in Labels,
         \/ GoTo(p, l) \/ Return(p, l) \/ NextRequest(p)
         \/ /\ pc' = [pc EXCEPT ![p] = l]
            /\ \E b : batch' = [batch EXCEPT ![p] = b]
            /\ \E n : at' = [at EXCEPT ![p] = n]
  PROVE  \A q \in Procs \ {p} : Still(q)
BY DEF LocalOK, GoTo, Return, NextRequest, Still


\* A process that goes on to its next request, or ends, has nothing to back.
LEMMA HandReleased ==
  ASSUME LocalOK, Monotone, NEW p \in Procs, Hand(p), pc[p] # "append",
         NextRequest(p) \/ Return(p, "off") \/ Return(p, "up")
  PROVE  Hand(p)'
<1> USE EffectsAssumption
<1>1. pc'[p] \in {"sweep", "lookup", "up", "off"}
  BY DEF LocalOK, NextRequest, Return
<1>2. batch'[p] = NoBatch \/ batch'[p] = batch[p]
  BY DEF LocalOK, NextRequest, Return
<1>3. ASSUME batch[p] # NoBatch, NeedsApproval(batch[p]), batch'[p] = batch[p]
      PROVE  Consent(batch[p])' /\ Mine(batch[p])'
  <2>1. batch[p] \in Batches /\ ItemOf[batch[p]] \in Items
    BY <1>3 DEF LocalOK
  <2> QED BY <1>3, <2>1 DEF Hand, Consent, Monotone, Mine
<1>4. NeedsApproval(batch[p])' <=> NeedsApproval(batch'[p])
  BY DEF NeedsApproval
<1> QED BY <1>1, <1>2, <1>3, <1>4 DEF Hand, Consent, Mine, NeedsApproval

\* A process that goes on with the same request.
LEMMA HandGoes ==
  ASSUME LocalOK, Monotone, NEW p \in Procs, Hand(p), NEW l \in Working,
         GoTo(p, l), l # "append",
         pc[p] = "append" => Mine(batch[p])',
         l \in {"settle", "receipt", "record"} => Cur(p) \in shown',
         l = "record" => Cur(p) \in receipts'
  PROVE  Hand(p)'
<1> USE EffectsAssumption
<1>1. pc'[p] = l /\ batch'[p] = batch[p] /\ Cur(p)' = Cur(p)
  BY DEF LocalOK, GoTo, Cur
<1>2. ASSUME batch[p] # NoBatch, NeedsApproval(batch[p])
      PROVE  Consent(batch[p])' /\ Mine(batch[p])'
  <2>1. batch[p] \in Batches /\ ItemOf[batch[p]] \in Items
    BY <1>2 DEF LocalOK
  <2> QED BY <1>1, <1>2, <2>1 DEF Hand, Consent, Monotone, Mine
<1> QED BY <1>1, <1>2 DEF Hand, Consent, Mine, NeedsApproval

-----------------------------------------------------------------------------
(* One step of one process *)

\* Control flow: every step is a GoTo, a Return, a NextRequest, or takes a batch.
LEMMA StepLocal ==
  ASSUME TypeOK, Control, NEW p \in Procs, Start(p) \/ Step(p) \/ Crash(p) \/ Exit(p)
  PROVE  LocalOK' /\ Control' /\ \A q \in Procs \ {p} : Still(q)
<1> USE EffectsAssumption
<1>0. LocalOK /\ Control1(p)
  BY TypeSplit DEF Control, Control1
<1>1. CASE Start(p)
  <2>1. pc' = [pc EXCEPT ![p] = "sweep"] /\ batch' = [batch EXCEPT ![p] = NoBatch]
        /\ at' = [at EXCEPT ![p] = 1]
    BY <1>0, <1>1 DEF Start, Control1, LocalOK
  <2>2. Control1(p)'
    BY <2>1, <1>0 DEF Control1, LocalOK, Performing
  <2>3. "sweep" \in Labels /\ 1 \in Nat
    BY DEF Labels
  <2> QED BY <2>1, <2>2, <2>3, <1>0, OneMoves, OthersStill
<1>2. CASE \E l \in {"off", "up"} : Return(p, l)
  BY <1>0, <1>2, ReturnMoves, OthersStill DEF Labels
<1>3. CASE pc[p] \in Working \cup {"sweep"} /\ NextRequest(p)
  BY <1>0, <1>3, NextRequestMoves, OthersStill DEF Labels
<1>4. CASE \E l \in Working :
             /\ GoTo(p, l)
             /\ l \in Performing \cup {"append"} => batch[p] # NoBatch
             /\ l \in {"query", "settle"} /\ batch[p] = NoBatch
                  => at[p] \in 1..Len(Keys)
  BY <1>0, <1>4, GoToMoves, OthersStill DEF Labels
<1>5. CASE Step(p)
  <2> USE <1>0 DEF Control1, Working, Performing
  <2>1. CASE SweepNext(p)
    <3>1. Len(Keys) \in Nat /\ at[p] \in Nat
      BY DEF LocalOK
    <3> QED BY <2>1, <3>1, <1>3, <1>4 DEF SweepNext
  <2>2. CASE SweepEnd(p)
    BY <2>2, <1>2 DEF SweepEnd
  <2>3. CASE Query(p)
    BY <2>3, <1>3, <1>4 DEF Query
  <2>4. CASE Settle(p) \/ WriteDone(p)
    BY <2>4, <1>3 DEF Settle, WriteDone
  <2>5. CASE Consume(p) \/ WritePending(p) \/ Refuse(p) \/ Fails(p)
    BY <2>5, <1>4 DEF Consume, WritePending, Refuse, Fails
  <2>6. CASE Lookup(p)
    BY <2>6, <1>3, <1>4 DEF Lookup
  <2>7. CASE CommitStage(p) \/ ListPR(p)
    BY <2>7, <1>4 DEF CommitStage, ListPR
  <2>8. CASE Push(p) \/ Commit(p) \/ CreatePR(p)
    BY <2>8, <1>4 DEF Push, Commit, CreatePR, Answers
  <2>9. CASE Receipt(p) \/ WriteFailed(p)
    BY <2>9, <1>2, <1>4 DEF Receipt, WriteFailed
  <2> QED BY <1>5, <2>1, <2>2, <2>3, <2>4, <2>5, <2>6, <2>7, <2>8, <2>9 DEF Step
<1> QED BY <1>1, <1>2, <1>5 DEF Crash, Exit

LEMMA RequestFacts ==
  ASSUME NEW r \in Requests
  PROVE  /\ r[1] \in Batches /\ r[2] \in Kinds
         /\ Br(r) \in Branches /\ ShaOf[r[1]] \in Nat
BY EffectsAssumption DEF Requests, Br

\* Data: the mover's request is one of Requests, so every write is typed.
LEMMA StepData ==
  ASSUME TypeOK, Control, NEW p \in Procs, Start(p) \/ Step(p) \/ Crash(p) \/ Exit(p)
  PROVE  DataOK'
<1> USE EffectsAssumption
<1>0. DataOK
  BY TypeSplit
<1>1. CASE Start(p) \/ SweepNext(p) \/ SweepEnd(p) \/ Exit(p) \/ Lookup(p)
           \/ Refuse(p)
  BY <1>0, <1>1 DEF Start, SweepNext, SweepEnd, Exit, Lookup, Refuse, DataOK,
     store, world, history
<1>2. CASE Query(p) \/ Crash(p) \/ Fails(p)
  BY <1>0, <1>2 DEF Query, Crash, Fails, Fault, NoFault, DataOK, store, world,
     history
<1>3. CASE Consume(p)
  <2>1. batch[p] \in Batches
    BY <1>3 DEF Consume, Control, TypeOK
  <2>2. <<ItemOf[batch[p]], StageOf[batch[p]]>> \in Items \X Stages
    BY <2>1
  <2> QED BY <1>0, <1>3, <2>2 DEF Consume, DataOK, world, history
<1>4. ASSUME pc[p] \in Working
      PROVE  /\ Cur(p) \in Requests /\ Br(Cur(p)) \in Branches
             /\ ShaOf[Cur(p)[1]] \in Nat
  BY <1>4, CurInRequests, RequestFacts
<1>5. CASE Settle(p) \/ WritePending(p) \/ WriteDone(p) \/ WriteFailed(p)
  BY <1>0, <1>4, <1>5 DEF Settle, WritePending, WriteDone, WriteFailed, DataOK,
     world, history, Working
<1>6. CASE Receipt(p)
  BY <1>0, <1>4, <1>6 DEF Receipt, Fault, NoFault, DataOK, world, history, Working
<1>7. CASE CommitStage(p)
  <2>1. tree' = tree \/ tree' = [tree EXCEPT ![Br(Cur(p))] = {"staged"}]
    BY <1>7 DEF CommitStage
  <2>2. tree' \in [Branches -> SUBSET {"edited", "staged"}]
    <3>1. {"staged"} \in SUBSET {"edited", "staged"}
      OBVIOUS
    <3>2. tree \in [Branches -> SUBSET {"edited", "staged"}] /\ Br(Cur(p)) \in Branches
      BY <1>0, <1>4, <1>7 DEF DataOK, CommitStage, Working
    <3> QED BY <2>1, <3>1, <3>2
  <2>3. shown' \subseteq Requests
    BY <1>0, <1>4, <1>7 DEF CommitStage, DataOK, Working
  <2> QED BY <1>0, <1>7, <2>2, <2>3 DEF CommitStage, DataOK, store
<1>8. CASE ListPR(p)
  BY <1>0, <1>4, <1>8 DEF ListPR, DataOK, store, world, Working
<1>9. CASE Push(p) \/ Commit(p) \/ CreatePR(p)
  <2> DEFINE r == Cur(p)
             b == Br(r)
             n == ShaOf[r[1]]
  <2>1. r \in Requests /\ b \in Branches /\ n \in Nat
    BY <1>4, <1>9 DEF Push, Commit, CreatePR, Working
  <2>2. /\ acts' = acts \/ acts' = [acts EXCEPT ![r] = @ + 1]
        /\ \/ shown' = shown \cup {r}
           \/ shown' = shown
           \/ shown' = shown \cup {q \in Requests : Visible(q)'}
        /\ faults' = faults \/ (faults < MaxFaults /\ faults' = faults + 1)
        /\ UNCHANGED <<store, items, edits, closed>>
    BY <1>9 DEF Push, Commit, CreatePR, Acted, Answers, Fault, NoFault, history
  <2>3. /\ tree' = tree \/ tree' = [tree EXCEPT ![b] = @ \ {"staged"}]
        /\ log' = log \/ log' = [log EXCEPT ![b] = Append(@, r)]
        /\ remote' = remote \/ remote' = [remote EXCEPT ![b] = n]
        /\ pr' = pr \/ pr' = [pr EXCEPT ![b] = "open"]
    BY <1>9 DEF Push, Commit, CreatePR
  <2> HIDE DEF r, b, n
  <2>4. acts' \in [Requests -> Nat] /\ shown' \subseteq Requests
        /\ faults' \in 0..MaxFaults
    BY <1>0, <2>1, <2>2 DEF DataOK
  <2>5. tree' \in [Branches -> SUBSET {"edited", "staged"}]
    <3>1. tree[b] \ {"staged"} \in SUBSET {"edited", "staged"}
      BY <1>0, <2>1 DEF DataOK
    <3>2. tree \in [Branches -> SUBSET {"edited", "staged"}]
      BY <1>0 DEF DataOK
    <3> QED BY <2>1, <2>3, <3>1, <3>2
  <2>6. log' \in [Branches -> Seq(Requests)]
    <3>1. Append(log[b], r) \in Seq(Requests)
      BY <1>0, <2>1 DEF DataOK
    <3>2. log \in [Branches -> Seq(Requests)]
      BY <1>0 DEF DataOK
    <3> QED BY <2>1, <2>3, <3>1, <3>2
  <2>7. remote' \in [Branches -> Nat \cup {NoRef}]
    <3>1. remote \in [Branches -> Nat \cup {NoRef}]
      BY <1>0 DEF DataOK
    <3> QED BY <2>1, <2>3, <3>1
  <2>8. pr' \in [Branches -> {"none", "open", "closed"}]
    <3>1. pr \in [Branches -> {"none", "open", "closed"}]
      BY <1>0 DEF DataOK
    <3> QED BY <2>1, <2>3, <3>1
  <2> QED BY <1>0, <2>2, <2>4, <2>5, <2>6, <2>7, <2>8 DEF DataOK, store
<1> QED BY <1>1, <1>2, <1>3, <1>5, <1>6, <1>7, <1>8, <1>9 DEF Step

\* A request that acts is shown, and so is every other the world now shows.
LEMMA ActedShows ==
  ASSUME TypeOK, VisibleShown, NEW p \in Procs, Push(p) \/ Commit(p) \/ CreatePR(p),
         NEW r \in Requests, r = Cur(p)
  PROVE  /\ VisibleShown'
         /\ pc'[p] = "receipt" => r \in shown'
         /\ shown' # shown => r \in shown'
<1> USE EffectsAssumption
<1>1. Br(r) \in Branches /\ ShaOf[r[1]] \in Nat
  BY RequestFacts
<1>2. CASE Acted(r) /\ Visible(r)'
  BY <1>2 DEF Acted, VisibleShown
<1>3. CASE shown' \subseteq shown \cup {r} /\ shown \subseteq shown'
           /\ UNCHANGED <<log, remote, pr>> /\ (pc'[p] = "receipt" => r \in shown')
  BY <1>3, ZenonT(30) DEF VisibleShown, Visible
<1>4. CASE Push(p)
  <2>1. r[2] = "push"
    BY <1>4 DEF Push
  <2>2. CASE ShaOf[r[1]] <= Len(log[Br(r)]) /\ remote[Br(r)] <= ShaOf[r[1]]
             /\ remote[Br(r)] # ShaOf[r[1]]
    <3>1. Acted(r) /\ remote' = [remote EXCEPT ![Br(r)] = ShaOf[r[1]]]
      BY <1>4, <2>2 DEF Push
    <3>2. Visible(r)'
      BY <1>1, <2>1, <3>1 DEF Visible, TypeOK, Br
    <3> QED BY <1>2, <3>1, <3>2
  <2>3. CASE ~(ShaOf[r[1]] <= Len(log[Br(r)]) /\ remote[Br(r)] <= ShaOf[r[1]])
    BY <1>3, <1>4, <2>3 DEF Push, history, GoTo, TypeOK
  <2>4. CASE ShaOf[r[1]] <= Len(log[Br(r)]) /\ remote[Br(r)] <= ShaOf[r[1]]
             /\ remote[Br(r)] = ShaOf[r[1]]
    <3>1. remote' = remote /\ shown' = shown \cup {r} /\ UNCHANGED <<log, pr>>
      BY <1>1, <1>4, <2>4 DEF Push, TypeOK
    <3> QED BY <1>3, <3>1
  <2> QED BY <2>2, <2>3, <2>4
<1>5. CASE Commit(p)
  <2>1. r[2] = "commit"
    BY <1>5 DEF Commit
  <2>2. CASE "staged" \in tree[Br(r)]
    <3>1. Acted(r) /\ log' = [log EXCEPT ![Br(r)] = Append(@, r)]
      BY <1>5, <2>2 DEF Commit
    <3>2. log[Br(r)] \in Seq(Requests) /\ log'[Br(r)] = Append(log[Br(r)], r)
      BY <1>1, <3>1 DEF TypeOK
    <3>3. r \in Range(log'[Br(r)])
      <4>1. Len(log[Br(r)]) + 1 \in DOMAIN Append(log[Br(r)], r)
            /\ Append(log[Br(r)], r)[Len(log[Br(r)]) + 1] = r
        BY <3>2
      <4> QED BY <3>2, <4>1 DEF Range
    <3>4. Visible(r)'
      BY <2>1, <3>3 DEF Visible, Br
    <3> QED BY <1>2, <3>1, <3>4
  <2>3. CASE "staged" \notin tree[Br(r)]
    BY <1>3, <1>5, <2>3 DEF Commit, history, GoTo, TypeOK
  <2> QED BY <2>2, <2>3
<1>6. CASE CreatePR(p)
  <2>1. r[2] = "open-pr"
    BY <1>6 DEF CreatePR
  <2>2. CASE pr[Br(r)] # "open" /\ remote[Br(r)] # NoRef
    <3>1. Acted(r) /\ pr' = [pr EXCEPT ![Br(r)] = "open"]
      BY <1>6, <2>2 DEF CreatePR
    <3>2. Visible(r)'
      BY <1>1, <2>1, <3>1 DEF Visible, TypeOK, Br
    <3> QED BY <1>2, <3>1, <3>2
  <2>3. CASE ~(pr[Br(r)] # "open" /\ remote[Br(r)] # NoRef)
    BY <1>3, <1>6, <2>3 DEF CreatePR, history, GoTo, TypeOK
  <2> QED BY <2>2, <2>3
<1> QED BY <1>4, <1>5, <1>6

\* What the world shows, it has shown; and the mover's hand is backed.
LEMMA StepHand ==
  ASSUME IInv, Monotone, NEW p \in Procs,
         Start(p) \/ Step(p) \/ Crash(p) \/ Exit(p)
  PROVE  VisibleShown' /\ Hand(p)'
<1> USE EffectsAssumption
<1>0. LocalOK /\ DataOK /\ Control1(p) /\ Hand(p) /\ VisibleShown /\ TypeOK /\ Control
  BY TypeSplit DEF IInv, Control, Control1
<1>a. pc[p] \in Working => Cur(p) \in Requests
  BY <1>0, CurInRequests
<1>b. UNCHANGED <<log, remote, pr>> => VisibleShown'
  BY <1>0 DEF VisibleShown, Visible, Monotone
<1>c. ASSUME pc[p] # "append", NextRequest(p) \/ Return(p, "off") \/ Return(p, "up")
      PROVE  Hand(p)'
  BY <1>0, <1>c, HandReleased
<1>d. ASSUME NEW l \in Working \ {"append", "settle", "receipt", "record"}, GoTo(p, l),
             pc[p] # "append"
      PROVE  Hand(p)'
  BY <1>0, <1>d, HandGoes
<1>1. CASE Start(p)
  <2>1. pc'[p] = "sweep" /\ batch'[p] = NoBatch
    BY <1>0, <1>1 DEF Start, Control1, LocalOK
  <2> QED BY <1>b, <1>1, <2>1 DEF Start, Hand, world
<1>2. CASE Crash(p) \/ Exit(p)
  <2>1. CASE pc[p] # "append"
    BY <1>2, <1>b, <1>c, <2>1 DEF Crash, Exit, world
  <2>2. CASE pc[p] = "append"
    <3>1. pc'[p] = "off" /\ batch'[p] = NoBatch
      BY <1>0, <1>2 DEF Crash, Exit, Return, LocalOK
    <3> QED BY <1>b, <1>2, <3>1 DEF Crash, Exit, Hand, world
  <2> QED BY <2>1, <2>2
<1>3. CASE SweepNext(p) \/ SweepEnd(p) \/ Lookup(p)
  BY <1>3, <1>b, <1>c, <1>d DEF SweepNext, SweepEnd, Lookup, world, Working
<1>4. CASE Query(p)
  <2>1. CASE Visible(Cur(p)) /\ GoTo(p, "settle")
    <3>1. Cur(p) \in shown'
      BY <1>0, <1>4, <1>a, <2>1 DEF Query, Working, VisibleShown, Monotone
    <3>2. Hand(p)'
      BY <1>0, <1>4, <2>1, <3>1, HandGoes DEF Query, Working
    <3> QED BY <1>4, <1>b, <3>2 DEF Query, world
  <2>2. CASE NextRequest(p) \/ GoTo(p, "journal")
    BY <1>4, <1>b, <1>c, <1>d, <2>2 DEF Query, world, Working
  <2> QED BY <1>4, <2>1, <2>2 DEF Query
<1>5. CASE Settle(p) \/ WriteDone(p) \/ WriteFailed(p)
  BY <1>5, <1>b, <1>c DEF Settle, WriteDone, WriteFailed, world
<1>6. CASE Consume(p)
  <2>1. Mine(batch[p])'
    BY <1>6 DEF Consume, Mine, GoTo
  <2>2. Hand(p)'
    BY <1>0, <1>6, <2>1, HandGoes DEF Consume, Working
  <2> QED BY <1>6, <1>b, <2>2 DEF Consume, world
<1>7. CASE WritePending(p) \/ Refuse(p) \/ Fails(p)
  BY <1>7, <1>b, <1>d DEF WritePending, Refuse, Fails, world, Working
<1>8. CASE Receipt(p)
  <2>1. CASE GoTo(p, "record") /\ receipts' = receipts \cup {Cur(p)}
    <3>1. Cur(p) \in shown'
      BY <1>0, <1>8 DEF Receipt, Hand, Monotone
    <3>2. Hand(p)'
      BY <1>0, <1>8, <2>1, <3>1, HandGoes DEF Receipt, Working
    <3> QED BY <1>8, <1>b, <3>2 DEF Receipt, world
  <2>2. CASE Return(p, "up")
    BY <1>8, <1>b, <1>c, <2>2 DEF Receipt, world
  <2> QED BY <1>8, <2>1, <2>2 DEF Receipt
<1>9. CASE CommitStage(p) \/ ListPR(p)
  <2>1. CASE GoTo(p, "receipt")
    <3>1. Cur(p) \in shown'
      BY <1>0, <1>9, <2>1 DEF CommitStage, ListPR, GoTo, LocalOK
    <3>2. Hand(p)'
      BY <1>0, <1>9, <2>1, <3>1, HandGoes DEF CommitStage, ListPR, Working
    <3> QED BY <1>9, <1>b, <3>2 DEF CommitStage, ListPR, world
  <2>2. CASE GoTo(p, "create")
    BY <1>9, <1>b, <1>d, <2>2 DEF CommitStage, ListPR, world, Working
  <2> QED BY <1>9, <2>1, <2>2 DEF CommitStage, ListPR
<1>10. CASE Push(p) \/ Commit(p) \/ CreatePR(p)
  <2>1. pc[p] \in Working /\ pc[p] # "append"
    BY <1>10 DEF Push, Commit, CreatePR, Working
  <2>2. VisibleShown' /\ (pc'[p] = "receipt" => Cur(p) \in shown')
    <3> SUFFICES ASSUME NEW r \in Requests, r = Cur(p)
                 PROVE  VisibleShown' /\ (pc'[p] = "receipt" => r \in shown')
      BY <1>a, <2>1
    <3> QED BY <1>0, <1>10, ActedShows
  <2>3. \E l \in {"receipt", "fail"} : GoTo(p, l)
    BY <1>10 DEF Push, Commit, CreatePR, Answers
  <2>4. CASE GoTo(p, "receipt")
    <3>1. pc'[p] = "receipt"
      BY <1>0, <2>4 DEF GoTo, LocalOK
    <3> QED BY <1>0, <2>1, <2>2, <2>4, <3>1, HandGoes DEF Working
  <2>5. CASE GoTo(p, "fail")
    BY <1>d, <2>1, <2>2, <2>5 DEF Working
  <2> QED BY <2>3, <2>4, <2>5
<1> QED BY <1>1, <1>2, <1>3, <1>4, <1>5, <1>6, <1>7, <1>8, <1>9, <1>10 DEF Step

\* The journal's own claims: a done is written only by a process that has seen
\* the effect, and by perform only once the receipt is signed.
LEMMA StepJournal ==
  ASSUME IInv, Monotone, NEW p \in Procs,
         Start(p) \/ Step(p) \/ Crash(p) \/ Exit(p)
  PROVE  DoneShown' /\ ReceiptBeforeDone'
<1>0. /\ DataOK /\ Hand(p) /\ DoneShown /\ ReceiptBeforeDone
      /\ pc[p] \in Working => Cur(p) \in Requests
  BY TypeSplit, CurInRequests DEF IInv
<1>1. CASE journal' = journal
  BY <1>0, <1>1 DEF DoneShown, IsDone, ReceiptBeforeDone, Monotone
<1>2. ASSUME NEW st \in {"pending", "failed"}, journal' = [journal EXCEPT ![Cur(p)] = st]
      PROVE  DoneShown' /\ ReceiptBeforeDone'
  BY <1>0, <1>2 DEF DoneShown, IsDone, ReceiptBeforeDone, Monotone, DataOK
<1>3. CASE Settle(p) \/ WriteDone(p)
  BY <1>0, <1>3 DEF Settle, WriteDone, Hand, DoneShown, IsDone, ReceiptBeforeDone,
     Monotone, DataOK
<1>4. CASE ~(Settle(p) \/ WriteDone(p) \/ WritePending(p) \/ WriteFailed(p))
  <2>1. journal' = journal
    BY <1>4 DEF Start, Step, Crash, Exit, SweepNext, SweepEnd, Query, Consume,
       Lookup, Refuse, Push, CommitStage, Commit, ListPR, CreatePR, Fails, Receipt,
       store
  <2> QED BY <1>1, <2>1
<1> QED BY <1>2, <1>3, <1>4 DEF WritePending, WriteFailed

\* The world is moved only by a process whose batch the owner consented to.
LEMMA StepActs ==
  ASSUME IInv, Monotone, NEW p \in Procs,
         Start(p) \/ Step(p) \/ Crash(p) \/ Exit(p)
  PROVE  ActsOnlyOnConsent'
<1> USE EffectsAssumption
<1>0. /\ LocalOK /\ DataOK /\ Control1(p) /\ Hand(p) /\ ActsOnlyOnConsent
      /\ pc[p] \in Working =>
           Cur(p) \in Requests /\ (batch[p] # NoBatch => Cur(p)[1] = batch[p])
  BY TypeSplit, CurInRequests DEF IInv, Control, Control1
<1>1. ASSUME NEW r \in Requests, NeedsApproval(r[1]),
             Consent(r[1]) /\ Mine(r[1])
      PROVE  Consent(r[1])' /\ Mine(r[1])'
  <2>1. ItemOf[r[1]] \in Items
    BY RequestFacts
  <2> QED BY <1>1, <2>1 DEF Consent, Mine, Monotone
<1>2. CASE acts' = acts
  BY <1>0, <1>1, <1>2 DEF ActsOnlyOnConsent, Consent, NeedsApproval, Mine
<1>3. CASE (Push(p) \/ Commit(p) \/ CreatePR(p)) /\ acts' # acts
  <2>1. acts' = [acts EXCEPT ![Cur(p)] = @ + 1]
    BY <1>3 DEF Push, Commit, CreatePR, Acted, history
  <2>2. pc[p] \in {"run", "create"}
    BY <1>3 DEF Push, Commit, CreatePR
  <2>3. batch[p] # NoBatch /\ Cur(p)[1] = batch[p] /\ Cur(p) \in Requests
    BY <1>0, <2>2 DEF Control1, Working, Performing
  <2>4. NeedsApproval(Cur(p)[1]) => Consent(Cur(p)[1]) /\ Mine(Cur(p)[1])
    BY <1>0, <2>2, <2>3 DEF Hand
  <2>5. ASSUME NEW r \in Requests, r[2] \in External, NeedsApproval(r[1]), acts'[r] > 0
        PROVE  Consent(r[1]) /\ Mine(r[1])
    BY <1>0, <2>1, <2>3, <2>4, <2>5 DEF ActsOnlyOnConsent, Consent, DataOK
  <2> QED BY <1>1, <2>5 DEF ActsOnlyOnConsent, Consent, NeedsApproval, Mine
<1>4. CASE ~(Push(p) \/ Commit(p) \/ CreatePR(p))
  <2>1. acts' = acts
    BY <1>4 DEF Start, Step, Crash, Exit, SweepNext, SweepEnd, Query, Settle,
       Consume, Lookup, WritePending, Refuse, CommitStage, ListPR, Fails, Receipt,
       WriteDone, WriteFailed, history
  <2> QED BY <1>2, <2>1
<1> QED BY <1>2, <1>3, <1>4

\* Taking a batch: authorize has judged what the process now has in hand.
LEMMA StepAuthorize ==
  ASSUME IInv, Monotone, NEW p \in Procs, NEW b \in Batches, Authorize(p, b)
  PROVE  IInv'
<1> USE EffectsAssumption
<1>0. LocalOK /\ DataOK /\ Control /\ \A q \in Procs : Hand(q)
  BY TypeSplit DEF IInv
<1>1. PICK l \in {"append", "lookup"} :
        /\ pc' = [pc EXCEPT ![p] = l]
        /\ l = "lookup" /\ NeedsApproval(b) => Mine(b)
  BY DEF Authorize
<1>2. /\ pc'[p] = l /\ batch'[p] = b /\ at'[p] = 1
      /\ \A q \in Procs \ {p} : Still(q)
  BY <1>0, <1>1 DEF Authorize, LocalOK, Still
<1>3. UNCHANGED <<journal, receipts, consumed, items, tree, log, remote, pr, faults,
                  edits, closed, shown, acts>>
  BY DEF Authorize, store, world, history
<1>4. LocalOK' /\ Control'
  <2>1. 1 \in 1..Len(Work[b])
    <3>1. Work[b] \in Seq(Kinds) /\ Work[b] # <<>>
      BY DEF Authorize
    <3> QED BY <3>1
  <2>2. Control1(p)'
    BY <1>2, <2>1 DEF Control1
  <2> QED BY <1>0, <1>1, <2>2, OneMoves DEF Authorize, Labels, Working
<1>5. DataOK'
  BY <1>0, <1>3 DEF DataOK
<1>6. Hand(p)'
  <2>1. NeedsApproval(b) => Consent(b)'
    BY <1>3 DEF Authorize, Accepted, Consent
  <2>2. l # "append" /\ NeedsApproval(b) => Mine(b)'
    BY <1>1, <1>3 DEF Mine
  <2> QED BY <1>2, <2>1, <2>2 DEF Hand, Consent, Mine, NeedsApproval
<1>7. \A q \in Procs : Hand(q)'
  BY <1>0, <1>2, <1>6, HandKept
<1>8. VisibleShown' /\ DoneShown' /\ ReceiptBeforeDone' /\ ActsOnlyOnConsent'
  BY <1>3 DEF IInv, VisibleShown, Visible, DoneShown, IsDone, ReceiptBeforeDone,
     ActsOnlyOnConsent, NeedsApproval, Mine
<1>9. TypeOK'
  BY <1>4, <1>5, TypeSplit DEF LocalOK, DataOK, TypeOK, Labels, Working
<1> QED BY <1>4, <1>7, <1>8, <1>9 DEF IInv

\* The owner and the agents move no process and no journal entry.
LEMMA StepOutside ==
  ASSUME IInv, Monotone,
         \/ \E i \in Items : Decide(i)
         \/ \E b \in Branches : Edit(b) \/ ClosePR(b)
         \/ UNCHANGED vars
  PROVE  IInv'
<1> USE EffectsAssumption
<1>0. LocalOK /\ DataOK /\ Control /\ VisibleShown /\ ActsOnlyOnConsent
  BY TypeSplit DEF IInv
<1>1. UNCHANGED <<journal, receipts, consumed, log, pc, batch, at, shown, acts>>
  BY DEF Decide, Edit, ClosePR, vars, store, world, local, history
<1>2. LocalOK' /\ Control' /\ \A q \in Procs : Still(q)
  BY <1>0, <1>1 DEF LocalOK, Control, Still
<1>3. DataOK'
  <2>1. ASSUME NEW i \in Items, Decide(i)
        PROVE  DataOK'
    <3>1. items \in [Items -> {"asked", "signed", "rejected", "expired"}]
      BY <1>0 DEF DataOK
    <3>2. items' \in [Items -> {"asked", "signed", "rejected", "expired"}]
      BY <2>1, <3>1 DEF Decide
    <3> QED BY <1>0, <2>1, <3>2 DEF Decide, DataOK, store, world, history
  <2>2. ASSUME NEW b \in Branches, Edit(b)
        PROVE  DataOK'
    <3>1. tree[b] \cup {"edited"} \in SUBSET {"edited", "staged"}
          /\ tree \in [Branches -> SUBSET {"edited", "staged"}]
      BY <1>0 DEF DataOK
    <3>2. tree' \in [Branches -> SUBSET {"edited", "staged"}]
      BY <2>2, <3>1 DEF Edit
    <3> QED BY <1>0, <2>2, <3>2 DEF Edit, DataOK, store, history
  <2>3. ASSUME NEW b \in Branches, ClosePR(b)
        PROVE  DataOK'
    <3>1. remote \in [Branches -> Nat \cup {NoRef}]
          /\ pr \in [Branches -> {"none", "open", "closed"}]
      BY <1>0 DEF DataOK
    <3>2. remote' \in [Branches -> Nat \cup {NoRef}]
      BY <2>3, <3>1 DEF ClosePR
    <3>3. pr' \in [Branches -> {"none", "open", "closed"}]
      BY <2>3, <3>1 DEF ClosePR
    <3> QED BY <1>0, <2>3, <3>2, <3>3 DEF ClosePR, DataOK, store, history
  <2>4. CASE UNCHANGED vars
    BY <1>0, <2>4 DEF DataOK, vars, store, world, history
  <2> QED BY <2>1, <2>2, <2>3, <2>4
<1>4. VisibleShown'
  <2>1. ASSUME NEW r \in Requests, Visible(r)'
        PROVE  Visible(r)
    <3>1. Br(r) \in Branches /\ ShaOf[r[1]] \in Nat
      BY RequestFacts
    <3>2. pr'[Br(r)] = "open" => pr[Br(r)] = "open"
      BY <1>0, <3>1 DEF Decide, Edit, ClosePR, vars, world, DataOK
    <3>3. remote'[Br(r)] \in {remote[Br(r)], NoRef}
      BY <1>0, <3>1 DEF Decide, Edit, ClosePR, vars, world, DataOK
    <3>4. ShaOf[r[1]] # NoRef
      BY <3>1 DEF NoRef
    <3> QED BY <1>1, <2>1, <3>2, <3>3, <3>4 DEF Visible, Br
  <2> QED BY <1>0, <1>1, <2>1 DEF VisibleShown
<1>5. \A q \in Procs : Hand(q)'
  BY <1>0, <1>2, HandKept DEF IInv
<1>6. DoneShown' /\ ReceiptBeforeDone'
  BY <1>1 DEF IInv, DoneShown, IsDone, ReceiptBeforeDone
<1>7. ActsOnlyOnConsent'
  <2> SUFFICES ASSUME NEW r \in Requests, r[2] \in External, NeedsApproval(r[1]),
                      acts[r] > 0
               PROVE  /\ items'[ItemOf[r[1]]] \in {"signed", "expired"}
                      /\ r[1] \in Binds[ItemOf[r[1]]]
                      /\ Mine(r[1])
    BY <1>1 DEF ActsOnlyOnConsent, NeedsApproval, Mine
  <2>1. ItemOf[r[1]] \in Items
    BY RequestFacts
  <2> QED BY <1>0, <2>1 DEF ActsOnlyOnConsent, Monotone
<1>8. TypeOK'
  BY <1>2, <1>3 DEF LocalOK, DataOK, TypeOK, Labels, Working
<1> QED BY <1>2, <1>4, <1>5, <1>6, <1>7, <1>8 DEF IInv

LEMMA NextIInv == IInv /\ [Next]_vars => IInv'
<1> SUFFICES ASSUME IInv, [Next]_vars PROVE IInv'
  OBVIOUS
<1>0. Monotone
  BY TypeSplit, NextMonotone DEF IInv
<1>1. ASSUME NEW p \in Procs, Start(p) \/ Step(p) \/ Crash(p) \/ Exit(p)
      PROVE  IInv'
  <2>1. LocalOK' /\ Control' /\ \A q \in Procs \ {p} : Still(q)
    BY <1>1, StepLocal DEF IInv
  <2>2. DataOK'
    BY <1>1, StepData DEF IInv
  <2>3. VisibleShown' /\ Hand(p)'
    BY <1>0, <1>1, StepHand
  <2>4. \A q \in Procs : Hand(q)'
    BY <1>0, <2>1, <2>3, HandKept, TypeSplit DEF IInv
  <2>5. DoneShown' /\ ReceiptBeforeDone'
    BY <1>0, <1>1, StepJournal
  <2>6. ActsOnlyOnConsent'
    BY <1>0, <1>1, StepActs
  <2>7. TypeOK'
    BY <2>1, <2>2 DEF LocalOK, DataOK, TypeOK, Labels, Working
  <2> QED BY <2>1, <2>3, <2>4, <2>5, <2>6, <2>7 DEF IInv
<1>2. ASSUME NEW p \in Procs, NEW b \in Batches, Authorize(p, b)
      PROVE  IInv'
  BY <1>0, <1>2, StepAuthorize
<1>3. CASE \/ \E i \in Items : Decide(i)
           \/ \E b \in Branches : Edit(b) \/ ClosePR(b)
           \/ UNCHANGED vars
  BY <1>0, <1>3, StepOutside
<1> QED BY <1>1, <1>2, <1>3 DEF Next

\* The inductive invariant holds in every reachable state.
THEOREM Invariance == Spec => []IInv
BY InitIInv, NextIInv, PTL DEF Spec

\* Type correctness: what every module that reads this state may rely on.
THEOREM TypeCorrect == Spec => []TypeOK
<1>1. IInv => TypeOK
  BY DEF IInv
<1> QED BY <1>1, Invariance, PTL

\* perform and reconcile never record a done the world has not shown.
THEOREM JournalNeverLies == Spec => []JournalIsTrue
<1>1. IInv => JournalIsTrue
  BY DEF IInv, JournalIsTrue
<1> QED BY <1>1, Invariance, PTL

\* perform signs the receipt before it marks the entry done.
THEOREM ReceiptComesFirst == Spec => []ReceiptBeforeDone
<1>1. IInv => ReceiptBeforeDone
  BY DEF IInv
<1> QED BY <1>1, Invariance, PTL

\* Whatever crashes or races: nothing leaves the machine without an approval the
\* owner signed for it, already recorded as spent for that stage.
THEOREM NoActWithoutConsent == Spec => []ActsOnlyOnConsent
<1>1. IInv => ActsOnlyOnConsent
  BY DEF IInv
<1> QED BY <1>1, Invariance, PTL

-----------------------------------------------------------------------------
(* One process at a time: what is lost when two of them share a store *)

OneProcess == \A p, q \in Procs : p = q

\* Nobody wrote since the process in hand read.
Sole(p) ==
  /\ pc[p] \in {"query", "settle", "run", "create", "receipt", "record", "fail"}
       => journal[Cur(p)] = "pending"
  /\ pc[p] = "journal" => ~IsDone(Cur(p))
  /\ pc[p] = "append" => ItemOf[batch[p]] \notin Spent(StageOf[batch[p]])

OneSpender == \A c, d \in consumed : c[1] = d[1] => c[2] = d[2]

SoleInv == IInv /\ OneSpender /\ \A p \in Procs : Sole(p)

\* The journal transitions of one step, read off the action that makes them.
JournalStep(p) ==
  \/ journal' = journal
  \/ /\ pc[p] = "journal"
     /\ journal' = [journal EXCEPT ![Cur(p)] = "pending"]
  \/ /\ pc[p] \in {"settle", "record"}
     /\ \E st \in {"done", "reconciled"} : journal' = [journal EXCEPT ![Cur(p)] = st]
  \/ /\ pc[p] = "fail"
     /\ journal' = [journal EXCEPT ![Cur(p)] = "failed"]

LEMMA StepsJournal ==
  ASSUME NEW p \in Procs, Start(p) \/ Step(p) \/ Crash(p) \/ Exit(p)
  PROVE  JournalStep(p)
BY DEF JournalStep, Start, Step, Crash, Exit, SweepNext, SweepEnd, Query, Settle,
   Consume, Lookup, WritePending, Refuse, Push, CommitStage, Commit, ListPR,
   CreatePR, Fails, Receipt, WriteDone, WriteFailed, store

LEMMA SoleKept ==
  ASSUME IInv, NEW p \in Procs, Sole(p), OneSpender,
         Start(p) \/ Step(p) \/ Crash(p) \/ Exit(p)
  PROVE  OneSpender' /\ Sole(p)'
<1> USE EffectsAssumption
<1>0. /\ LocalOK /\ DataOK
      /\ pc[p] \in Working => Cur(p) \in Requests
  BY TypeSplit, CurInRequests DEF IInv
<1>a. ASSUME NEW l \in Working, GoTo(p, l)
      PROVE  pc'[p] = l /\ batch'[p] = batch[p] /\ Cur(p)' = Cur(p)
  BY <1>0, <1>a DEF GoTo, LocalOK, Cur
<1>b. ASSUME NextRequest(p) \/ Return(p, "up") \/ Return(p, "off")
      PROVE  pc'[p] \in {"sweep", "lookup", "up", "off"}
  BY <1>0, <1>b DEF NextRequest, Return, LocalOK
<1>1. CASE Start(p)
  BY <1>0, <1>1 DEF Start, Sole, OneSpender, LocalOK, store
<1>2. CASE \/ Crash(p) \/ Exit(p) \/ SweepEnd(p) \/ Settle(p) \/ WriteDone(p)
           \/ WriteFailed(p)
  BY <1>2, <1>b DEF Crash, Exit, SweepEnd, Settle, WriteDone, WriteFailed, Sole,
     OneSpender, store
<1>3. CASE SweepNext(p)
  <2>1. CASE GoTo(p, "query") /\ journal[Keys[at[p]]] = "pending"
    <3>1. Cur(p) = Keys[at[p]]
      BY <1>3 DEF SweepNext, IInv, Control, Cur
    <3> QED BY <1>3, <2>1, <3>1, <1>a DEF SweepNext, Sole, OneSpender, store, Working
  <2>2. CASE NextRequest(p)
    BY <1>3, <2>2, <1>b DEF SweepNext, Sole, OneSpender, store
  <2> QED BY <1>3, <2>1, <2>2 DEF SweepNext
<1>4. CASE Query(p)
  <2>1. CASE NextRequest(p)
    BY <1>4, <2>1, <1>b DEF Query, Sole, OneSpender, store
  <2>2. ASSUME NEW l \in {"settle", "journal"}, GoTo(p, l)
        PROVE  OneSpender' /\ Sole(p)'
    BY <1>4, <2>2, <1>a DEF Query, Sole, OneSpender, IsDone, store, Working
  <2> QED BY <1>4, <2>1, <2>2 DEF Query
<1>5. CASE Consume(p)
  <2>1. Sole(p)'
    BY <1>5, <1>a DEF Consume, Sole, Working
  <2>2. ASSUME NEW c \in consumed, c[1] = ItemOf[batch[p]]
        PROVE  c[2] = StageOf[batch[p]]
    BY <1>5, <2>2 DEF Consume, Sole, Spent
  <2>3. OneSpender'
    BY <1>5, <2>2 DEF Consume, OneSpender
  <2> QED BY <2>1, <2>3
<1>6. CASE Lookup(p)
  <2>1. CASE NextRequest(p)
    BY <1>6, <2>1, <1>b DEF Lookup, Sole, OneSpender, store
  <2>2. CASE GoTo(p, "query") /\ journal[Cur(p)] = "pending"
    BY <1>6, <2>2, <1>a DEF Lookup, Sole, OneSpender, store, Working
  <2>3. CASE GoTo(p, "journal") /\ journal[Cur(p)] \in {"none", "failed"}
    BY <1>6, <2>3, <1>a DEF Lookup, Sole, OneSpender, IsDone, store, Working
  <2> QED BY <1>6, <2>1, <2>2, <2>3 DEF Lookup
<1>7. CASE WritePending(p)
  BY <1>0, <1>7, <1>a DEF WritePending, Sole, OneSpender, DataOK, Working
<1>8. ASSUME NEW l \in {"create", "receipt", "record", "fail"}, GoTo(p, l),
             pc[p] \in {"run", "create", "receipt"}, UNCHANGED <<journal, consumed>>
      PROVE  OneSpender' /\ Sole(p)'
  BY <1>8, <1>a DEF Sole, OneSpender, Working
<1>9. CASE \/ Refuse(p) \/ Push(p) \/ CommitStage(p) \/ Commit(p) \/ ListPR(p)
           \/ CreatePR(p) \/ Fails(p)
  BY <1>8, <1>9 DEF Refuse, Push, CommitStage, Commit, ListPR, CreatePR, Fails,
     Answers, store
<1>10. CASE Receipt(p)
  <2>1. CASE GoTo(p, "record")
    BY <1>8, <1>10, <2>1 DEF Receipt
  <2>2. CASE Return(p, "up")
    BY <1>10, <2>2, <1>b DEF Receipt, Sole, OneSpender
  <2> QED BY <1>10, <2>1, <2>2 DEF Receipt
<1> QED BY <1>1, <1>2, <1>3, <1>4, <1>5, <1>6, <1>7, <1>9, <1>10 DEF Step

LEMMA SoleInvariance == ASSUME OneProcess PROVE Spec => []SoleInv
<1>1. Init => SoleInv
  BY InitIInv DEF SoleInv, OneSpender, Sole, Init
<1>2. SoleInv /\ [Next]_vars => SoleInv'
  <2> SUFFICES ASSUME SoleInv, [Next]_vars PROVE SoleInv'
    OBVIOUS
  <2>0. IInv' /\ LocalOK
    BY NextIInv, TypeSplit DEF SoleInv, IInv
  <2>1. ASSUME NEW p \in Procs, Start(p) \/ Step(p) \/ Crash(p) \/ Exit(p)
        PROVE  SoleInv'
    <3>1. OneSpender' /\ Sole(p)'
      BY <2>1, SoleKept DEF SoleInv
    <3> QED BY <2>0, <3>1 DEF SoleInv, OneProcess
  <2>2. ASSUME NEW p \in Procs, NEW b \in Batches, Authorize(p, b)
        PROVE  SoleInv'
    <3>1. /\ pc'[p] \in {"append", "lookup"} /\ batch'[p] = b
          /\ UNCHANGED <<journal, consumed>>
      BY <2>0, <2>2 DEF Authorize, LocalOK, store
    <3>2. pc'[p] = "append" => ItemOf[b] \notin Spent(StageOf[b])
      BY <2>0, <2>2 DEF Authorize, Accepted, LocalOK
    <3>3. Sole(p)'
      BY <3>1, <3>2 DEF Sole, Spent
    <3>4. OneSpender'
      BY <3>1 DEF SoleInv, OneSpender
    <3> QED BY <2>0, <3>3, <3>4 DEF SoleInv, OneProcess
  <2>3. CASE \/ \E i \in Items : Decide(i)
             \/ \E b \in Branches : Edit(b) \/ ClosePR(b)
             \/ UNCHANGED vars
    <3>1. UNCHANGED <<journal, consumed, pc, batch, at>>
      BY <2>3 DEF Decide, Edit, ClosePR, vars, store, local
    <3> QED BY <2>0, <3>1 DEF SoleInv, Sole, OneSpender, Spent, IsDone, Cur
  <2> QED BY <2>1, <2>2, <2>3 DEF Next
<1> QED BY <1>1, <1>2, PTL DEF Spec

\* An approval is used once: with one process at a time on the store, no two
\* stages ever act outside under one item.
THEOREM ApprovalUsedOnce == ASSUME OneProcess PROVE Spec => []OneStagePerApproval
<1>1. SoleInv => OneStagePerApproval
  <2> SUFFICES ASSUME SoleInv,
                      NEW q \in Requests, NEW r \in Requests,
                      {q[2], r[2]} \subseteq External,
                      NeedsApproval(q[1]), NeedsApproval(r[1]),
                      acts[q] > 0, acts[r] > 0, ItemOf[q[1]] = ItemOf[r[1]]
               PROVE  StageOf[q[1]] = StageOf[r[1]]
    BY DEF OneStagePerApproval
  <2>1. Mine(q[1]) /\ Mine(r[1])
    BY DEF SoleInv, IInv, ActsOnlyOnConsent
  <2> QED BY <2>1 DEF Mine, SoleInv, OneSpender
<1> QED BY <1>1, SoleInvariance, PTL

\* A done is never taken back, so a retry is answered from the journal for good.
THEOREM DoneStays == ASSUME OneProcess PROVE Spec => DoneIsFinal
<1>1. SoleInv /\ [Next]_vars => [\A r \in Requests : IsDone(r) => IsDone(r)']_vars
  <2> SUFFICES ASSUME SoleInv, Next, NEW r \in Requests, IsDone(r)
               PROVE  IsDone(r)'
    OBVIOUS
  <2>0. DataOK
    BY TypeSplit DEF SoleInv, IInv
  <2>1. ASSUME NEW p \in Procs, Start(p) \/ Step(p) \/ Crash(p) \/ Exit(p)
        PROVE  IsDone(r)'
    <3>1. JournalStep(p) /\ Sole(p)
      BY <2>1, StepsJournal DEF SoleInv
    <3> QED BY <2>0, <3>1 DEF JournalStep, Sole, IsDone, DataOK
  <2>2. CASE journal' = journal
    BY <2>2 DEF IsDone
  <2> QED BY <2>1, <2>2 DEF Next, Authorize, Decide, Edit, ClosePR, store
<1> QED BY <1>1, SoleInvariance, PTL DEF Spec, DoneIsFinal

\* The world is changed only for a request whose pending entry is on disk.
THEOREM PendingFirst == ASSUME OneProcess PROVE Spec => WrittenAhead
<1>1. SoleInv /\ [Next]_vars
        => [\A r \in Requests : acts'[r] > acts[r] => journal[r] = "pending"]_vars
  <2> SUFFICES ASSUME SoleInv, Next, NEW r \in Requests, acts'[r] > acts[r]
               PROVE  journal[r] = "pending"
    OBVIOUS
  <2>0. DataOK
    BY TypeSplit DEF SoleInv, IInv
  <2>1. acts' # acts
    BY <2>0 DEF DataOK
  <2>2. PICK p \in Procs : Push(p) \/ Commit(p) \/ CreatePR(p)
    BY <2>1 DEF Next, Start, Step, Crash, Exit, SweepNext, SweepEnd, Query, Settle,
       Consume, Lookup, WritePending, Refuse, CommitStage, ListPR, Fails, Receipt,
       WriteDone, WriteFailed, Authorize, Decide, Edit, ClosePR, history
  <2>3. acts' = [acts EXCEPT ![Cur(p)] = @ + 1]
    BY <2>1, <2>2 DEF Push, Commit, CreatePR, Acted, history
  <2>4. r = Cur(p)
    BY <2>0, <2>3 DEF DataOK
  <2> QED BY <2>2, <2>4 DEF SoleInv, Sole, Push, Commit, CreatePR
<1> QED BY <1>1, SoleInvariance, PTL DEF Spec, WrittenAhead

-----------------------------------------------------------------------------
(* Refinement of EffectOnce *)

Asked == {r \in Requests : journal[r] # "none"}
Answered == {r \in Requests : IsDone(r)}

LEMMA StepRefines ==
  ASSUME SoleInv, NEW p \in Procs, Start(p) \/ Step(p) \/ Crash(p) \/ Exit(p)
  PROVE  Once!Next \/ UNCHANGED <<Asked, shown, Answered>>
<1>0. /\ DataOK /\ Hand(p) /\ Sole(p)
      /\ pc[p] \in Working => Cur(p) \in Requests
  BY TypeSplit, CurInRequests DEF SoleInv, IInv
<1> DEFINE r == Cur(p)
<1>1. CASE WritePending(p)
  <2>1. r \in Requests /\ ~IsDone(r)
    BY <1>0, <1>1 DEF WritePending, Working, Sole
  <2>2. journal' = [journal EXCEPT ![r] = "pending"] /\ shown' = shown
    BY <1>1 DEF WritePending, history
  <2>3. Asked' = Asked \cup {r} /\ Answered' = Answered
    BY <1>0, <2>1, <2>2 DEF DataOK, Asked, Answered, IsDone
  <2> QED BY <2>1, <2>2, <2>3 DEF Once!Next, Once!Ask, Asked, Answered
<1>2. CASE Settle(p) \/ WriteDone(p)
  <2>1. r \in Requests /\ journal[r] = "pending" /\ r \in shown
    BY <1>0, <1>2 DEF Settle, WriteDone, Working, Sole, Hand
  <2>2. /\ \E st \in {"done", "reconciled"} : journal' = [journal EXCEPT ![r] = st]
        /\ shown' = shown
    BY <1>2 DEF Settle, WriteDone, history
  <2>3. Asked' = Asked /\ Answered' = Answered \cup {r} /\ r \in Asked
    BY <1>0, <2>1, <2>2 DEF DataOK, Asked, Answered, IsDone
  <2> QED BY <2>1, <2>2, <2>3 DEF Once!Next, Once!Answer, Asked, Answered
<1>3. CASE WriteFailed(p)
  <2>1. r \in Requests /\ journal[r] = "pending"
    BY <1>0, <1>3 DEF WriteFailed, Working, Sole
  <2>2. journal' = [journal EXCEPT ![r] = "failed"] /\ shown' = shown
    BY <1>3 DEF WriteFailed, history
  <2>3. Asked' = Asked /\ Answered' = Answered
    BY <1>0, <2>1, <2>2 DEF DataOK, Asked, Answered, IsDone
  <2> QED BY <2>2, <2>3
<1>4. CASE Push(p) \/ Commit(p) \/ CreatePR(p) \/ CommitStage(p) \/ ListPR(p)
  <2>1. r \in Requests /\ journal[r] = "pending" /\ journal' = journal
    BY <1>0, <1>4 DEF Push, Commit, CreatePR, CommitStage, ListPR, Working, Sole, store
  <2>2. /\ shown' \subseteq shown \cup Requests
        /\ shown \subseteq shown'
    BY <1>4, <2>1 DEF Push, Commit, CreatePR, CommitStage, ListPR, Acted, history
  <2>3. r \in Asked /\ r \notin Answered /\ Asked' = Asked /\ Answered' = Answered
    BY <2>1 DEF Asked, Answered, IsDone
  <2>4. CASE r \in shown'
    <3> DEFINE S == shown' \cap Requests
    <3>1. S \in SUBSET Requests /\ shown' = shown \cup S
      BY <1>0, <2>2 DEF DataOK
    <3>2. S \cap (Asked \ Answered) # {}
      BY <2>1, <2>3, <2>4
    <3>3. Once!Perform(S)
      BY <2>3, <3>1, <3>2 DEF Once!Perform, Asked, Answered
    <3> QED BY <3>1, <3>3 DEF Once!Next
  <2>5. CASE r \notin shown'
    <3>1. shown' = shown
      <4>1. CASE CommitStage(p) \/ ListPR(p)
        BY <2>5, <4>1 DEF CommitStage, ListPR
      <4>2. CASE Push(p) \/ Commit(p) \/ CreatePR(p)
        <5>1. \A q \in Requests : q = r => (shown' # shown => q \in shown')
          <6> HIDE DEF r
          <6> SUFFICES ASSUME NEW q \in Requests, q = r
                       PROVE  shown' # shown => q \in shown'
            OBVIOUS
          <6>1. q = Cur(p)
            BY DEF r
          <6> QED BY <4>2, <6>1, ActedShows DEF SoleInv, IInv
        <5>2. r \in Requests
          BY <2>1
        <5> QED BY <2>5, <5>1, <5>2
      <4> QED BY <1>4, <4>1, <4>2
    <3> QED BY <2>3, <3>1
  <2> QED BY <2>4, <2>5
<1>5. CASE UNCHANGED <<journal, shown>>
  BY <1>5 DEF Asked, Answered, IsDone
<1> QED BY <1>1, <1>2, <1>3, <1>4, <1>5 DEF Start, Step, Crash, Exit, SweepNext,
   SweepEnd, Query, Consume, Lookup, Refuse, Fails, Receipt, store, history

\* A step outside the processes' hands leaves journal and world's record alone.
LEMMA NextRefines ==
  SoleInv /\ [Next]_vars => [Once!Next]_<<Asked, shown, Answered>>
<1> SUFFICES ASSUME SoleInv, Next
             PROVE  Once!Next \/ UNCHANGED <<Asked, shown, Answered>>
  BY DEF vars, store, history, Asked, Answered, IsDone
<1>1. ASSUME NEW p \in Procs, Start(p) \/ Step(p) \/ Crash(p) \/ Exit(p)
      PROVE  Once!Next \/ UNCHANGED <<Asked, shown, Answered>>
  BY <1>1, StepRefines
<1>2. CASE UNCHANGED <<journal, shown>>
  BY <1>2 DEF Asked, Answered, IsDone
<1> QED BY <1>1, <1>2 DEF Next, Authorize, Decide, Edit, ClosePR, store, history

\* With one process at a time the journal implements its promise: asked, then
\* performed, then answered, and never taken back (Effects.perform and
\* reconcile_entry).
THEOREM Refinement == ASSUME OneProcess PROVE Spec => ImplementsEffectOnce
<1>1. Init => Once!Init
  BY DEF Init, Once!Init, IsDone
<1>2. SoleInv /\ [Next]_vars => [Once!Next]_<<Asked, shown, Answered>>
  BY NextRefines
<1> QED BY <1>1, <1>2, SoleInvariance, PTL
        DEF Spec, ImplementsEffectOnce, Once!Spec, Asked, Answered
=============================================================================
