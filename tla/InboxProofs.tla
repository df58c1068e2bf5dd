---------------------------- MODULE InboxProofs ----------------------------
(***************************************************************************)
(* Proofs about Inbox, for any number of watchers, requests and pieces:    *)
(* no line is lost while the agents only append, and what is answered as   *)
(* done was done, once.                                                    *)
(***************************************************************************)
EXTENDS Inbox, TLAPS

Reading == {"read", "judge", "seated", "answer", "save"}
InHand == {"judge", "seated", "answer", "save"}

\* A line begins at n, whether or not its end is written yet.
Begins(n) == n \in DOMAIN inbox /\ ~Unfinished(n - 1) /\ ~At(n, {"blank"})

\* Every line that begins below n has its outcome.
PassedTo(n) == n <= Len(inbox) + 1 /\ \A k \in 1..(n - 1) : Begins(k) => Answered(k)

\* The line w has in hand: what it passes over beyond the first piece begins no
\* line, and before the cursor is saved the outcome is written.
LineInHand(w) ==
  /\ from[w] >= 1 /\ from[w] <= Len(inbox)
  /\ \/ to[w] = from[w] + 1
     \/ to[w] = from[w] + 2 /\ to[w] <= Len(inbox) + 1 /\ Unfinished(from[w])
  /\ pc[w] = "save" => Answered(from[w])

LinesKept ==
  AppendOnly =>
    /\ PassedTo(cursor)
    /\ \A w \in Watchers : pc[w] \in Reading => PassedTo(from[w])
    /\ \A w \in Watchers : pc[w] \in InHand => LineInHand(w)

\* What took place is what the journal says, and only that is answered as done.
JournalIsWhatWasDone ==
  /\ \A r \in Requests : acts[r] = IF r \in journal THEN 1 ELSE 0
  /\ \A k \in DOMAIN done : done[k].outcome = "done" => done[k].asks \in journal
  /\ \A w \in Watchers : pc[w] = "seated" => hand[w] \in Admitted
  /\ \A w \in Watchers : pc[w] = "answer" /\ answer[w] = "done" => hand[w] \in journal

IInv == TypeOK /\ LinesKept /\ JournalIsWhatWasDone

-----------------------------------------------------------------------------
(* Types, those of the files and those of the watchers *)

FileTypes ==
  /\ inbox \in Seq(Piece) /\ done \in Seq(Entry) /\ cursor \in Nat
  /\ journal \subseteq Requests /\ acts \in [Requests -> Nat]
  /\ crashes \in 0..MaxCrashes /\ replaced \in 0..MaxReplaced

WatcherTypes ==
  /\ pc \in [Watchers -> {"off", "idle", "read", "judge", "seated", "answer", "save"}]
  /\ from \in [Watchers -> Nat] /\ to \in [Watchers -> Nat]
  /\ hand \in [Watchers -> Requests \cup {NoRequest}]
  /\ answer \in [Watchers -> Outcomes]

LEMMA TypesSplit == TypeOK <=> FileTypes /\ WatcherTypes
BY DEF TypeOK, FileTypes, WatcherTypes

LEMMA InitIInv == ASSUME Init PROVE IInv
<1>1. TypeOK
  BY InboxAssumption DEF Init, TypeOK, Outcomes
<1>2. LinesKept
  BY InboxAssumption DEF Init, LinesKept, PassedTo, InHand, Reading
<1>3. JournalIsWhatWasDone
  BY InboxAssumption DEF Init, JournalIsWhatWasDone
<1> QED  BY <1>1, <1>2, <1>3 DEF IInv

LEMMA FileTypesStep == ASSUME IInv, [Next]_vars PROVE FileTypes'
<1>0. FileTypes /\ WatcherTypes /\ JournalIsWhatWasDone
  BY TypesSplit DEF IInv
<1> USE <1>0, InboxAssumption DEF FileTypes
<1>1. ASSUME NEW piece \in Pieces, Write(piece) PROVE FileTypes'
  BY <1>1 DEF Write
<1>2. CASE Replace
  <2>1. PICK n \in 0..(Len(inbox) - 1) : inbox' = SubSeq(inbox, 1, n)
    BY <1>2 DEF Replace
  <2>2. inbox' \in Seq(Piece)
    BY <2>1
  <2> QED  BY <1>2, <2>2 DEF Replace
<1>3. ASSUME NEW w \in Watchers, Start(w) \/ Crash(w) \/ Pass(w) \/ PassEnds(w)
      PROVE  FileTypes'
  BY <1>3 DEF Start, Crash, Pass, PassEnds
<1>4. ASSUME NEW w \in Watchers, ReadHuge(w) \/ ReadLine(w) \/ Refuse(w) \/ Admit(w)
      PROVE  FileTypes'
  BY <1>4 DEF ReadHuge, ReadLine, Refuse, Admit
<1>5. ASSUME NEW w \in Watchers, SkipBlank(w) \/ SaveCursor(w) PROVE FileTypes'
  BY <1>5 DEF SkipBlank, SaveCursor, WatcherTypes
<1>6. ASSUME NEW w \in Watchers, Perform(w) PROVE FileTypes'
  <2>1. hand[w] \in Requests
    BY <1>6 DEF Perform, JournalIsWhatWasDone
  <2> QED  BY <1>6, <2>1 DEF Perform
<1>7. ASSUME NEW w \in Watchers, Answer(w) PROVE FileTypes'
  <2>1. [from |-> from[w], asks |-> hand[w], outcome |-> answer[w]] \in Entry
    BY DEF Entry, WatcherTypes
  <2> QED  BY <1>7, <2>1 DEF Answer
<1>8. CASE UNCHANGED vars
  BY <1>8 DEF vars
<1> QED  BY <1>1, <1>2, <1>3, <1>4, <1>5, <1>6, <1>7, <1>8 DEF Next, Step

LEMMA WatcherTypesStep == ASSUME TypeOK, [Next]_vars PROVE WatcherTypes'
<1>0. FileTypes /\ WatcherTypes
  BY TypesSplit
<1> USE <1>0 DEF WatcherTypes
<1>1. CASE Replace \/ (\E piece \in Pieces : Write(piece)) \/ UNCHANGED vars
  BY <1>1 DEF Write, Replace, vars, local
<1>2. ASSUME NEW w \in Watchers, Start(w) \/ Crash(w) \/ PassEnds(w) PROVE WatcherTypes'
  BY <1>2 DEF Start, Crash, PassEnds, Goto
<1>3. ASSUME NEW w \in Watchers, Pass(w) \/ SkipBlank(w) PROVE WatcherTypes'
  <2>1. CASE Pass(w)
    BY <2>1 DEF Pass, Goto, FileTypes
  <2>2. CASE SkipBlank(w)
    BY <2>2 DEF SkipBlank
  <2> QED  BY <1>3, <2>1, <2>2
<1>4. ASSUME NEW w \in Watchers, ReadHuge(w) \/ ReadLine(w) PROVE WatcherTypes'
  <2>1. After(from[w]) \in Nat
    BY DEF After
  <2>2. At(from[w], {"line", "rest", "start"}) => inbox[from[w]].asks \in Requests \cup {NoRequest}
    <3> SUFFICES ASSUME from[w] \in DOMAIN inbox PROVE inbox[from[w]].asks \in Requests \cup {NoRequest}
      BY DEF At
    <3>1. inbox[from[w]] \in Piece
      BY DEF FileTypes
    <3> QED  BY <3>1 DEF Piece
  <2> QED  BY <1>4, <2>1, <2>2 DEF ReadHuge, ReadLine, Goto, At, Outcomes
<1>5. ASSUME NEW w \in Watchers, Refuse(w) \/ Admit(w) PROVE WatcherTypes'
  BY <1>5 DEF Refuse, Admit, Goto, Outcomes
<1>6. ASSUME NEW w \in Watchers, Perform(w) \/ Answer(w) \/ SaveCursor(w)
      PROVE  WatcherTypes'
  BY <1>6 DEF Perform, Answer, SaveCursor, Goto, Outcomes
<1> QED  BY <1>1, <1>2, <1>3, <1>4, <1>5, <1>6 DEF Next, Step

LEMMA TypeStep == ASSUME IInv, [Next]_vars PROVE TypeOK'
BY TypesSplit, FileTypesStep, WatcherTypesStep DEF IInv, TypeOK, FileTypes, WatcherTypes

-----------------------------------------------------------------------------
(* No line is lost *)

\* What is passed stays passed when outcomes are only added.
LEMMA PassedStays ==
  ASSUME inbox' = inbox, \A k : Answered(k) => Answered(k)', NEW n, PassedTo(n)
  PROVE  PassedTo(n)'
BY DEF PassedTo, Begins, Unfinished, At

LEMMA AnsweredStays == ASSUME done' = done, NEW k, Answered(k) PROVE Answered(k)'
BY DEF Answered

\* What is passed stays passed when a piece is appended.
LEMMA PassedGrows ==
  ASSUME TypeOK, NEW piece \in Pieces, Write(piece), NEW n \in Nat, PassedTo(n)
  PROVE  PassedTo(n)'
<1>1. /\ Len(inbox') = Len(inbox) + 1 /\ Len(inbox) \in Nat
      /\ DOMAIN inbox = 1..Len(inbox) /\ DOMAIN inbox' = 1..Len(inbox')
      /\ \A k \in 1..Len(inbox) : inbox'[k] = inbox[k]
      /\ done' = done
  BY InboxAssumption DEF Write, TypeOK
<1>2. ASSUME NEW k \in 1..(n - 1), Begins(k)' PROVE Begins(k)
  BY <1>1, <1>2 DEF PassedTo, Begins, Unfinished, At
<1> QED  BY <1>1, <1>2 DEF PassedTo, Answered

\* A step that moves one watcher, in an inbox that stays and with outcomes that
\* are only added, leaves the lines of the others as they were.
LEMMA OneMoves ==
  ASSUME TypeOK, LinesKept, AppendOnly, inbox' = inbox,
         \A k : Answered(k) => Answered(k)',
         NEW w \in Watchers,
         \A v \in Watchers \ {w} : pc'[v] = pc[v] /\ from'[v] = from[v] /\ to'[v] = to[v],
         PassedTo(cursor)',
         pc'[w] \in Reading => PassedTo(from[w])',
         pc'[w] \in InHand => LineInHand(w)'
  PROVE  LinesKept'
<1>1. ASSUME NEW v \in Watchers \ {w}, pc'[v] \in Reading PROVE PassedTo(from[v])'
  BY <1>1 DEF LinesKept, PassedTo, Begins, Unfinished, At
<1>2. ASSUME NEW v \in Watchers \ {w}, pc'[v] \in InHand PROVE LineInHand(v)'
  BY <1>2 DEF LinesKept, LineInHand, Unfinished, At
<1> QED  BY <1>1, <1>2 DEF LinesKept

LEMMA LinesStep == ASSUME IInv, TypeOK', [Next]_vars PROVE LinesKept'
<1> SUFFICES ASSUME AppendOnly' PROVE LinesKept'
  BY DEF LinesKept
<1>0. AppendOnly /\ ~Replace /\ TypeOK /\ LinesKept
  <2>1. replaced \in Nat
    BY InboxAssumption DEF IInv, TypeOK
  <2>2. replaced' = replaced \/ replaced' = replaced + 1
    BY DEF Replace, Next, Start, Crash, Step, Write, vars, Pass, PassEnds, SkipBlank,
           ReadHuge, ReadLine, Refuse, Admit, Perform, Answer, SaveCursor
  <2> QED  BY <2>1, <2>2 DEF IInv, AppendOnly, Replace
<1> USE <1>0
<1>1. ASSUME NEW piece \in Pieces, Write(piece) PROVE LinesKept'
  <2>1. PassedTo(cursor)'
    BY <1>1, PassedGrows DEF LinesKept, TypeOK, Write, PassedTo
  <2>2. ASSUME NEW w \in Watchers, pc[w] \in Reading PROVE PassedTo(from[w])'
    BY <1>1, <2>2, PassedGrows DEF LinesKept, TypeOK, Write, PassedTo, local
  <2>3. ASSUME NEW w \in Watchers, pc[w] \in InHand PROVE LineInHand(w)'
    BY <1>1, <2>3, InboxAssumption
       DEF LinesKept, TypeOK, Write, LineInHand, local, Unfinished, At, Answered
  <2> QED  BY <1>1, <2>1, <2>2, <2>3 DEF LinesKept, Write, local
<1> SUFFICES ASSUME NEW w \in Watchers, Start(w) \/ Step(w) \/ Crash(w) PROVE LinesKept'
  BY <1>1 DEF Next, vars, local, LinesKept, PassedTo, LineInHand, Begins, Unfinished, At,
              Answered, AppendOnly
<1>2. /\ PassedTo(cursor)
      /\ pc[w] \in Reading => PassedTo(from[w])
      /\ pc[w] \in InHand => LineInHand(w)
  BY DEF LinesKept
\* Steps that read, judge and perform, and leave cursor, outcomes and inbox alone.
<1>3. ASSUME UNCHANGED <<inbox, done, cursor>>,
             \A v \in Watchers \ {w} : pc'[v] = pc[v] /\ from'[v] = from[v] /\ to'[v] = to[v],
             pc'[w] \in Reading => PassedTo(from[w])',
             pc'[w] \in InHand => LineInHand(w)'
      PROVE  LinesKept'
  <2>1. PassedTo(cursor)' /\ \A k : Answered(k) => Answered(k)'
    BY <1>2, <1>3 DEF PassedTo, Begins, Unfinished, At, Answered
  <2> QED  BY <1>3, <2>1, OneMoves
<1>4. CASE Start(w) \/ Crash(w) \/ PassEnds(w)
  BY <1>3, <1>4 DEF Start, Crash, PassEnds, Goto, TypeOK, Reading, InHand
<1>5. CASE Pass(w)
  <2>1. PassedTo(from[w])'
    BY <1>2, <1>5 DEF Pass, TypeOK, PassedTo, Begins, Unfinished, At, Answered
  <2> QED  BY <1>3, <1>5, <2>1 DEF Pass, Goto, TypeOK, InHand
<1>6. CASE ReadHuge(w) \/ ReadLine(w)
  <2>1. PassedTo(from[w])'
    BY <1>2, <1>6 DEF ReadHuge, ReadLine, PassedTo, Begins, Unfinished, At, Answered, Reading
  <2>2. from[w] \in DOMAIN inbox /\ to'[w] = After(from[w]) /\ pc'[w] # "save"
    BY <1>6 DEF ReadHuge, ReadLine, Goto, TypeOK, At
  <2>3. LineInHand(w)'
    BY <1>6, <2>2 DEF ReadHuge, ReadLine, TypeOK, LineInHand, After, EndOfFile, Unfinished, At
  <2> QED  BY <1>3, <1>6, <2>1, <2>3 DEF ReadHuge, ReadLine, Goto, TypeOK
<1>7. CASE Refuse(w) \/ Admit(w) \/ Perform(w)
  <2>1. PassedTo(from[w])'
    BY <1>2, <1>7 DEF Refuse, Admit, Perform, PassedTo, Begins, Unfinished, At, Answered, Reading
  <2>2. LineInHand(w)'
    BY <1>2, <1>7 DEF Refuse, Admit, Perform, Goto, TypeOK, LineInHand, Unfinished, At, InHand
  <2> QED  BY <1>3, <1>7, <2>1, <2>2 DEF Refuse, Admit, Perform, Goto, TypeOK
<1>8. CASE SkipBlank(w)
  <2>1. PassedTo(cursor)' /\ PassedTo(from[w])'
    BY <1>2, <1>8 DEF SkipBlank, TypeOK, PassedTo, Begins, Unfinished, At, Answered, Reading
  <2> QED  BY <1>8, <2>1, OneMoves, AnsweredStays DEF SkipBlank, TypeOK, InHand
<1>9. CASE Answer(w)
  <2> DEFINE entry == [from |-> from[w], asks |-> hand[w], outcome |-> answer[w]]
  <2>0. /\ DOMAIN done = 1..Len(done) /\ DOMAIN done' = 1..(Len(done) + 1) /\ Len(done) \in Nat
        /\ \A k \in DOMAIN done : done'[k] = done[k]
        /\ done'[Len(done) + 1] = entry
    BY <1>9 DEF Answer, TypeOK
  <2>1. /\ \A k : Answered(k) => Answered(k)'
        /\ Answered(from[w])'
    BY <1>9, <2>0 DEF Answer, Answered
  <2>2. PassedTo(cursor)' /\ PassedTo(from[w])'
    BY <1>2, <1>9, <2>1 DEF Answer, PassedTo, Begins, Unfinished, At, Reading
  <2>3. LineInHand(w)'
    BY <1>2, <1>9, <2>1 DEF Answer, LineInHand, Unfinished, At, InHand
  <2> QED  BY <1>9, <2>1, <2>2, <2>3, OneMoves DEF Answer, Goto, TypeOK
<1>10. CASE SaveCursor(w)
  <2>1. from'[w] = to[w] /\ cursor' = to[w]
    BY <1>10 DEF SaveCursor, TypeOK
  <2>2. PassedTo(to[w])
    BY <1>2, <1>10 DEF SaveCursor, TypeOK, PassedTo, LineInHand, Begins, InHand, Reading
  <2>3. PassedTo(cursor)' /\ PassedTo(from[w])'
    BY <1>10, <2>1, <2>2 DEF SaveCursor, PassedTo, Begins, Unfinished, At, Answered
  <2> QED  BY <1>10, <2>3, OneMoves, AnsweredStays DEF SaveCursor, Goto, TypeOK, InHand
<1> QED  BY <1>4, <1>5, <1>6, <1>7, <1>8, <1>9, <1>10 DEF Step

-----------------------------------------------------------------------------
(* Done, once *)

LEMMA JournalStep == ASSUME IInv, TypeOK', [Next]_vars PROVE JournalIsWhatWasDone'
<1>0. TypeOK /\ JournalIsWhatWasDone
  BY DEF IInv
<1> USE <1>0, InboxAssumption DEF JournalIsWhatWasDone, TypeOK
<1>1. CASE Replace \/ (\E piece \in Pieces : Write(piece)) \/ UNCHANGED vars
  BY <1>1 DEF Write, Replace, vars, local
<1>2. ASSUME NEW w \in Watchers, Start(w) \/ Crash(w) \/ PassEnds(w) PROVE JournalIsWhatWasDone'
  BY <1>2 DEF Start, Crash, PassEnds, Goto
<1>3. ASSUME NEW w \in Watchers, Pass(w) \/ SkipBlank(w) PROVE JournalIsWhatWasDone'
  BY <1>3 DEF Pass, SkipBlank, Goto
<1>4. ASSUME NEW w \in Watchers, ReadHuge(w) \/ ReadLine(w) PROVE JournalIsWhatWasDone'
  BY <1>4 DEF ReadHuge, ReadLine, Goto
<1>5. ASSUME NEW w \in Watchers, Refuse(w) \/ Admit(w) \/ SaveCursor(w)
      PROVE  JournalIsWhatWasDone'
  <2>1. CASE Refuse(w) \/ Admit(w)
    BY <2>1 DEF Refuse, Admit, Goto
  <2>2. CASE SaveCursor(w)
    BY <2>2 DEF SaveCursor, Goto
  <2> QED  BY <1>5, <2>1, <2>2
<1>6. ASSUME NEW w \in Watchers, Perform(w) PROVE JournalIsWhatWasDone'
  BY <1>6 DEF Perform, Goto, Journaled
<1>7. ASSUME NEW w \in Watchers, Answer(w) PROVE JournalIsWhatWasDone'
  BY <1>7 DEF Answer, Goto
<1> QED  BY <1>1, <1>2, <1>3, <1>4, <1>5, <1>6, <1>7 DEF Next, Step

-----------------------------------------------------------------------------
THEOREM Invariance == Spec => []IInv
<1>1. IInv /\ [Next]_vars => IInv'
  BY TypeStep, LinesStep, JournalStep DEF IInv
<1> QED  BY <1>1, InitIInv, PTL DEF Spec

\* inbox.py, watch: however many watchers there are and wherever they die, the
\* cursor passes no line that has no outcome, while the agents only append.
THEOREM NoLineIsLost == Spec => []NoLineLost
<1>1. IInv => NoLineLost
  BY InboxAssumption DEF IInv, TypeOK, LinesKept, PassedTo, NoLineLost, LineAt, Begins
<1> QED  BY <1>1, Invariance, PTL

\* inbox.py, handle with effects.perform: no request is acted on twice, and none is
\* answered as done that was not.
THEOREM EachDoneOnce == Spec => []DoneOnce
<1>1. IInv => DoneOnce
  <2> SUFFICES ASSUME IInv PROVE DoneOnce
    OBVIOUS
  <2>1. \A r \in Requests : acts[r] <= 1
    BY DEF IInv, JournalIsWhatWasDone
  <2>2. ASSUME NEW k \in DOMAIN done, done[k].outcome = "done" PROVE acts[done[k].asks] > 0
    BY <2>2 DEF IInv, TypeOK, JournalIsWhatWasDone
  <2> QED  BY <2>1, <2>2 DEF DoneOnce
<1> QED  BY <1>1, Invariance, PTL
=============================================================================
