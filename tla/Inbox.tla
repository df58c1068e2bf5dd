------------------------------- MODULE Inbox -------------------------------
(***************************************************************************)
(* The worker inbox of tac/inbox.py: agents append request lines to        *)
(* inbox.jsonl, `tac inbox watch` reads past a cursor, judges and performs *)
(* each, appends an outcome to inbox.done.jsonl and saves the cursor.  The *)
(* watch dies between any two writes and is started again.                 *)
(*                                                                         *)
(* The file is a sequence of pieces as they were written, and an offset is *)
(* a position in it: "line" is a whole line, "start" the first part of one *)
(* short enough to be read, "huge" the first part of one longer than       *)
(* MAX_LINE, "rest" the end of either.  A piece asks for the request its   *)
(* text states (for a "start", the text of the whole line), or NoRequest.  *)
(* How an effect is performed once is Effects; here it is one step.        *)
(***************************************************************************)
EXTENDS Integers, Sequences, SequencesExt

CONSTANTS
  Watchers,      \* `tac inbox watch` processes
  Requests,      \* the effects asked for, by idempotency key
  NoRequest,     \* text that is not a request
  Admitted,      \* requests that authorize lets through
  Pieces,        \* the pieces agents may write: [kind, asks]
  MaxPieces, MaxCrashes, MaxReplaced    \* bounds

Piece == [kind : {"line", "blank", "start", "huge", "rest"},
          asks : Requests \cup {NoRequest}]
Outcomes == {"refused", "failed", "done"}

ASSUME InboxAssumption ==
  /\ NoRequest \notin Requests
  /\ Admitted \subseteq Requests
  /\ Pieces \subseteq Piece
  /\ {MaxPieces, MaxCrashes, MaxReplaced} \subseteq Nat

VARIABLES
  inbox,       \* inbox.jsonl
  done,        \* inbox.done.jsonl: [from, asks, outcome]
  cursor,      \* inbox.cursor.json: the first position not yet passed
  journal,     \* requests the effect journal answers as done
  acts,        \* how often each effect took place
  pc, from, to, hand, answer,   \* per watcher: its step, where the line in
               \* hand begins and ends, what it asks, its outcome
  crashes, replaced

local == <<pc, from, to, hand, answer>>
vars == <<inbox, done, cursor, journal, acts, local, crashes, replaced>>

Entry == [from : Nat, asks : Requests \cup {NoRequest}, outcome : Outcomes]

TypeOK ==
  /\ inbox \in Seq(Piece)
  /\ done \in Seq(Entry)
  /\ cursor \in Nat
  /\ journal \subseteq Requests
  /\ acts \in [Requests -> Nat]
  /\ pc \in [Watchers -> {"off", "idle", "read", "judge", "seated", "answer", "save"}]
  /\ from \in [Watchers -> Nat] /\ to \in [Watchers -> Nat]
  /\ hand \in [Watchers -> Requests \cup {NoRequest}]
  /\ answer \in [Watchers -> Outcomes]
  /\ crashes \in 0..MaxCrashes /\ replaced \in 0..MaxReplaced

Init ==
  /\ inbox = <<>> /\ done = <<>>
  /\ cursor = 1
  /\ journal = {} /\ acts = [r \in Requests |-> 0]
  /\ pc = [w \in Watchers |-> "off"]
  /\ from = [w \in Watchers |-> 1] /\ to = [w \in Watchers |-> 1]
  /\ hand = [w \in Watchers |-> NoRequest]
  /\ answer = [w \in Watchers |-> "refused"]
  /\ crashes = 0 /\ replaced = 0

\* Mutant: the last position is taken for the end.
EndOfFileEarly(n) == n >= Len(inbox)

EndOfFile(n) == n > Len(inbox)
At(n, kinds) == n \in DOMAIN inbox /\ inbox[n].kind \in kinds
Unfinished(n) == At(n, {"start", "huge"})

\* Mutant: the end of a line is looked for in the next one.
AfterNext(n) == n + 2

\* Where the line at n ends: after its end of line, or at the end of the file.
After(n) == IF Unfinished(n) /\ ~EndOfFile(n + 1) THEN n + 2 ELSE n + 1

-----------------------------------------------------------------------------
(* Agents *)

\* One piece is appended; the end of a line follows its first part.
Write(piece) ==
  /\ Len(inbox) < MaxPieces
  /\ piece.kind = "rest" <=> Unfinished(Len(inbox))
  /\ inbox' = Append(inbox, piece)
  /\ UNCHANGED <<done, cursor, journal, acts, local, crashes, replaced>>

\* The inbox is cut down to its first lines.
Replace ==
  /\ replaced < MaxReplaced /\ replaced' = replaced + 1
  /\ \E n \in 0..(Len(inbox) - 1) :
       /\ ~Unfinished(n)
       /\ inbox' = SubSeq(inbox, 1, n)
  /\ UNCHANGED <<done, cursor, journal, acts, local, crashes>>

-----------------------------------------------------------------------------
(* One watcher *)

Goto(w, label) == pc' = [pc EXCEPT ![w] = label]

Start(w) ==
  /\ pc[w] = "off" /\ Goto(w, "idle")
  /\ UNCHANGED <<inbox, done, cursor, journal, acts, from, to, hand, answer, crashes, replaced>>

\* A pass begins at the cursor, or at the start of a file that became shorter.
Pass(w) ==
  /\ pc[w] = "idle" /\ Goto(w, "read")
  /\ from' = [from EXCEPT ![w] = IF cursor > Len(inbox) + 1 THEN 1 ELSE cursor]
  /\ UNCHANGED <<inbox, done, cursor, journal, acts, to, hand, answer, crashes, replaced>>

\* Nothing more to read, or a line still being written: until the next pass.
PassEnds(w) ==
  LET n == from[w] IN
  /\ pc[w] = "read"
  /\ EndOfFile(n) \/ (At(n, {"start"}) /\ EndOfFile(n + 1))
  /\ Goto(w, "idle")
  /\ UNCHANGED <<inbox, done, cursor, journal, acts, from, to, hand, answer, crashes, replaced>>

\* A blank line is passed without an outcome.
SkipBlank(w) ==
  LET n == from[w] IN
  /\ pc[w] = "read" /\ At(n, {"blank"})
  /\ cursor' = n + 1
  /\ from' = [from EXCEPT ![w] = n + 1]
  /\ UNCHANGED <<inbox, done, journal, acts, pc, to, hand, answer, crashes, replaced>>

\* More than MAX_LINE bytes and no end of line: refused, and what follows up to
\* the end of the line, or of the file as it is now, is skipped.
ReadHuge(w) ==
  LET n == from[w] IN
  /\ pc[w] = "read" /\ At(n, {"huge"})
  /\ to' = [to EXCEPT ![w] = After(n)]
  /\ hand' = [hand EXCEPT ![w] = NoRequest]
  /\ answer' = [answer EXCEPT ![w] = "refused"]
  /\ Goto(w, "answer")
  /\ UNCHANGED <<inbox, done, cursor, journal, acts, from, crashes, replaced>>

ReadLine(w) ==
  LET n == from[w] IN
  /\ pc[w] = "read"
  /\ At(n, {"line", "rest"}) \/ (At(n, {"start"}) /\ ~EndOfFile(n + 1))
  /\ to' = [to EXCEPT ![w] = After(n)]
  /\ hand' = [hand EXCEPT ![w] = inbox[n].asks]
  /\ Goto(w, "judge")
  /\ UNCHANGED <<inbox, done, cursor, journal, acts, from, answer, crashes, replaced>>

\* Mutant: the answer of the line before is kept.
RefuseKeeping(w) ==
  /\ pc[w] = "judge"
  /\ Goto(w, "answer")
  /\ UNCHANGED <<inbox, done, cursor, journal, acts, from, to, hand, answer, crashes, replaced>>

\* handle: not a request, not authorised, or no seat free on the host.
Refuse(w) ==
  /\ pc[w] = "judge"
  /\ answer' = [answer EXCEPT ![w] = "refused"]
  /\ Goto(w, "answer")
  /\ UNCHANGED <<inbox, done, cursor, journal, acts, from, to, hand, crashes, replaced>>

Admit(w) ==
  /\ pc[w] = "judge" /\ hand[w] \in Admitted
  /\ Goto(w, "seated")
  /\ UNCHANGED <<inbox, done, cursor, journal, acts, from, to, hand, answer, crashes, replaced>>

\* Mutant: every line has a key of its own.
JournaledByLine(r) == FALSE

\* The key is made of the request alone.
Journaled(r) == r \in journal

\* Effects.perform: a done effect is answered from the journal.
Perform(w) ==
  LET r == hand[w] IN
  /\ pc[w] = "seated"
  /\ \/ /\ Journaled(r)
        /\ answer' = [answer EXCEPT ![w] = "done"]
        /\ UNCHANGED <<journal, acts>>
     \/ /\ ~Journaled(r)
        /\ answer' = [answer EXCEPT ![w] = "done"]
        /\ journal' = journal \cup {r}
        /\ acts' = [acts EXCEPT ![r] = @ + 1]
     \/ /\ ~Journaled(r)
        /\ answer' = [answer EXCEPT ![w] = "failed"]
        /\ UNCHANGED <<journal, acts>>
  /\ Goto(w, "answer")
  /\ UNCHANGED <<inbox, done, cursor, from, to, hand, crashes, replaced>>

Answer(w) ==
  /\ pc[w] = "answer"
  /\ done' = Append(done, [from |-> from[w], asks |-> hand[w],
                           outcome |-> answer[w]])
  /\ Goto(w, "save")
  /\ UNCHANGED <<inbox, cursor, journal, acts, from, to, hand, answer, crashes, replaced>>

SaveCursor(w) ==
  /\ pc[w] = "save"
  /\ cursor' = to[w]
  /\ from' = [from EXCEPT ![w] = to[w]]
  /\ Goto(w, "read")
  /\ UNCHANGED <<inbox, done, journal, acts, to, hand, answer, crashes, replaced>>

Crash(w) ==
  /\ pc[w] # "off" /\ Goto(w, "off")
  /\ crashes < MaxCrashes /\ crashes' = crashes + 1
  /\ UNCHANGED <<inbox, done, cursor, journal, acts, from, to, hand, answer, replaced>>

-----------------------------------------------------------------------------
Step(w) ==
  \/ Pass(w) \/ PassEnds(w) \/ SkipBlank(w) \/ ReadHuge(w) \/ ReadLine(w)
  \/ Refuse(w) \/ Admit(w) \/ Perform(w) \/ Answer(w) \/ SaveCursor(w)

Next ==
  \/ \E piece \in Pieces : Write(piece)
  \/ Replace
  \/ \E w \in Watchers : Start(w) \/ Step(w) \/ Crash(w)

Spec == Init /\ [][Next]_vars

\* A watch that runs goes on with its passes, and is started again.
FairSpec == Spec /\ \A w \in Watchers : WF_vars(Start(w)) /\ WF_vars(Step(w))

-----------------------------------------------------------------------------
(* Properties *)

Answered(n) == \E k \in DOMAIN done : done[k].from = n
\* A complete line begins at n.
LineAt(n) ==
  /\ n \in DOMAIN inbox
  /\ ~Unfinished(n - 1) /\ ~At(n, {"blank"})
  /\ Unfinished(n) => n + 1 \in DOMAIN inbox
\* The agents only appended so far.
AppendOnly == replaced = 0

\* No request is lost: the cursor passes a line only once its outcome is
\* written, wherever the watch dies.
NoLineLost ==
  AppendOnly => \A n \in 1..(cursor - 1) : LineAt(n) => Answered(n)

\* An outcome that says done is true, and the journal keeps a line that is read
\* again, after a crash or in an inbox cut down to its first lines, from acting
\* twice.
DoneOnce ==
  /\ \A k \in DOMAIN done : done[k].outcome = "done" => acts[done[k].asks] > 0
  /\ \A r \in Requests : acts[r] <= 1

\* Every complete line gets its outcome, over any number of restarts.
EveryLineAnswered ==
  \A n \in 1..MaxPieces : LineAt(n) ~> (Answered(n) \/ ~AppendOnly)

=============================================================================
