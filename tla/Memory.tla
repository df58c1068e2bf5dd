------------------------------- MODULE Memory -------------------------------
(***************************************************************************)
(* The memory bus of tac/memory.py.  The live journal of a clone holds     *)
(* records and the events that name them, one line each; the promoted      *)
(* store in the checkout holds a file per record and its events, and       *)
(* travels to other clones.  A command locks, reads both stores, decides,  *)
(* and then writes line by line; it can be killed before any write, or in  *)
(* the middle of one, which leaves a fragment that does not parse.         *)
(* A line is what read_lines makes of it, or Torn; a fragment is closed by *)
(* the newline append_line writes before the next line.                    *)
(***************************************************************************)
EXTENDS Naturals, Sequences, FiniteSets, FiniteSetsExt, SequencesExt

CONSTANTS
  Procs, Recs,
  Supersedes,   \* [Recs -> Recs \cup {NoRec}]: what the draft of a record names
  Contradicts,  \* pairs of one kind and topic with different statements
  EventKinds,   \* the kinds `tac memory event` is called with
  NoProc, NoRec, Torn,
  MaxEvents,    \* bound on event ids given out
  MaxKills, MaxClones

Kinds == {"supersede", "review", "decay", "correct", "conflict"}
Closing == {"supersede", "correct"}
Paired == Closing \cup {"conflict"}
Statuses == {"confirmed", "conflict", "superseded", "unconfirmed"}

RecordLines == [id : Recs, seq : Nat]
Events == [id : 1..MaxEvents, seq : Nat, kind : Kinds, rec : Recs,
           other : Recs \cup {NoRec}]
Indexes == [Recs -> Statuses \cup {"none"}]
Held == [file : {"records", "events"}, line : Nat]
Writes == [to : {"records", "page"}, what : RecordLines]
          \cup [to : {"events", "promoted"}, what : Events]
          \cup [to : {"build"}, what : {NoRec}] \cup [to : {"index"}, what : Indexes]

MemoryAssumption ==
  /\ IsFiniteSet(Recs)
  /\ Supersedes \in [Recs -> Recs \cup {NoRec}]
  /\ \A r \in Recs : Supersedes[r] # r
  /\ Contradicts \subseteq Recs \X Recs
  /\ \A r, s \in Recs : <<r, s>> \in Contradicts <=> <<s, r>> \in Contradicts
  /\ EventKinds \subseteq Kinds
  /\ NoProc \notin Procs /\ NoRec \notin Recs
  /\ Torn \notin RecordLines \cup Events \cup Indexes
  /\ MaxEvents \in Nat /\ MaxKills \in Nat /\ MaxClones \in Nat

VARIABLES
  records, events,   \* live/records.jsonl, live/events.jsonl
  quarantined,       \* live/quarantine.jsonl: the lines held, by file and number
  page,              \* .agents/memory/records/<id>.json
  promoted,          \* .agents/memory/events/*.jsonl
  index,             \* .agents/memory/_index: status per promoted record, or "none"
  lock,              \* holder of the live journal's lock
  busy,              \* commands under way
  toHold,            \* per command, the fragments it has still to hold
  todo,              \* and the writes it makes then
  ids, kills, clones

live == <<records, events, quarantined>>
store == <<page, promoted, index>>
vars == <<live, store, lock, busy, toHold, todo, ids, kills, clones>>

Lines(f) == Range(f) \ {Torn}

\* read_live, read_promoted, known.
LiveIds == {line.id : line \in Lines(records)}
PromotedIds == {r \in Recs : page[r].state = "whole"}
Known == LiveIds \cup PromotedIds
KnownEvents == Lines(events) \cup Lines(promoted)

(***************************************************************************)
(* derive: what the events make of a record.                               *)
(***************************************************************************)
Closed(es) == {e.rec : e \in {x \in es : x.kind \in Closing}}
Conflicts(r, known, es) ==
  {o \in (known \ Closed(es)) \ {r} :
     \E e \in es : e.kind = "conflict" /\ {e.rec, e.other} = {r, o}}
Reviewed(r, es) == \E e \in es : e.kind = "review" /\ e.rec = r

Status(r, known, es) ==
  CASE r \in Closed(es) -> "superseded"
    [] r \notin Closed(es) /\ Conflicts(r, known, es) # {} -> "conflict"
    [] r \notin Closed(es) /\ Conflicts(r, known, es) = {} ->
         IF Reviewed(r, es) THEN "confirmed" ELSE "unconfirmed"

\* The index of the promoted store alone.
Build(rs, es) == [r \in Recs |-> IF r \in rs THEN Status(r, rs, es) ELSE "none"]

\* _next.
NextSeq(f) == Max({0} \cup {line.seq : line \in Lines(f)}) + 1

(***************************************************************************)
(* Types and initial state                                                 *)
(***************************************************************************)
TypeOK ==
  /\ records \in Seq(RecordLines \cup {Torn})
  /\ events \in Seq(Events \cup {Torn})
  /\ quarantined \subseteq Held
  /\ page \in [Recs -> [state : {"none", "torn", "whole"}, seq : Nat]]
  /\ promoted \in Seq(Events \cup {Torn})
  /\ index \in Indexes \cup {Torn}
  /\ lock \in Procs \cup {NoProc}
  /\ busy \subseteq Procs
  /\ toHold \in [Procs -> SUBSET Held] /\ todo \in [Procs -> Seq(Writes)]
  /\ ids \in 0..MaxEvents /\ kills \in 0..MaxKills /\ clones \in 0..MaxClones

Init ==
  /\ records = <<>> /\ events = <<>> /\ quarantined = {}
  /\ page = [r \in Recs |-> [state |-> "none", seq |-> 0]]
  /\ promoted = <<>> /\ index = [r \in Recs |-> "none"]
  /\ lock = NoProc /\ busy = {}
  /\ toHold = [p \in Procs |-> {}] /\ todo = [p \in Procs |-> <<>>]
  /\ ids = 0 /\ kills = 0 /\ clones = 0

(***************************************************************************)
(* A command takes the lock, reads, decides what it will write.            *)
(***************************************************************************)
\* The fragments no entry of quarantine.jsonl holds yet.
Fragments ==
  {[file |-> "records", line |-> n] : n \in {i \in 1..Len(records) : records[i] = Torn}}
  \cup {[file |-> "events", line |-> n] : n \in {i \in 1..Len(events) : events[i] = Torn}}

\* Mutant: nobody is kept out.
LockedByNobody(p) == p \notin busy /\ lock' = p

\* locked(live); promote also locks the promoted store, which nobody else does.
Locked(p) == p \notin busy /\ lock = NoProc /\ lock' = p

Begin(p, writes, n) ==
  /\ ids + n <= MaxEvents
  /\ busy' = busy \cup {p}
  /\ toHold' = [toHold EXCEPT ![p] = Fragments \ quarantined]
  /\ todo' = [todo EXCEPT ![p] = writes]
  /\ ids' = ids + n
  /\ UNCHANGED <<live, store, kills, clones>>

\* The ith event of this command.
NewEvent(i, seq, kind, r, o) ==
  [id |-> ids + i, seq |-> seq, kind |-> kind, rec |-> r, other |-> o]

\* The confirmed records a new one contradicts, but the one it supersedes.
Contradicted(r) ==
  {o \in Known : /\ <<r, o>> \in Contradicts /\ o # Supersedes[r]
                 /\ Status(o, Known, KnownEvents) = "confirmed"}

\* The events a new record implies: one on what it supersedes, one for each rival.
Implied(r, rivals) ==
  (IF Supersedes[r] = NoRec THEN <<>>
   ELSE <<[kind |-> "supersede", rec |-> Supersedes[r], other |-> r]>>)
  \o [i \in 1..Len(rivals) |-> [kind |-> "conflict", rec |-> r, other |-> rivals[i]]]

\* Ids end in a random suffix, so that sorted by id is any order.
Add(p, r) ==
  /\ Locked(p)
  /\ r \notin Known
  /\ \/ \E rivals \in SetToSeqs(Contradicted(r)) :
          LET implied == Implied(r, rivals)
              line == [to |-> "records", what |-> [id |-> r, seq |-> NextSeq(records)]]
              event(i) == [to |-> "events",
                           what |-> NewEvent(i, NextSeq(events) + i - 1, implied[i].kind,
                                             implied[i].rec, implied[i].other)]
          IN /\ Supersedes[r] \in Known \cup {NoRec}
             /\ Begin(p, <<line>> \o [i \in 1..Len(implied) |-> event(i)], Len(implied))
     \/ Supersedes[r] \notin Known \cup {NoRec} /\ Begin(p, <<>>, 0)

\* A review is one that lends a strong basis; any other changes no status, as
\* a decay does not.
AppendEvent(p, kind, r, o) ==
  /\ Locked(p)
  /\ (o = NoRec) <=> (kind \notin Paired)
  /\ o # r
  /\ \/ /\ {r, o} \subseteq Known \cup {NoRec}
        /\ Begin(p, <<[to |-> "events",
                       what |-> NewEvent(1, NextSeq(events), kind, r, o)]>>, 1)
     \/ ~({r, o} \subseteq Known \cup {NoRec}) /\ Begin(p, <<>>, 0)

\* What promotion copies: the events of the record, the review it earned here
\* among them, that name promoted records and are not in the store yet.
Carried(r, review) ==
  {e \in Lines(events) \cup {review} :
     /\ \A x \in Lines(promoted) : x.id # e.id
     /\ e.rec \in PromotedIds \cup {r}
     /\ r \in {e.rec, e.other}}

MayPromote(r, es) ==
  /\ r \in LiveIds \ PromotedIds
  /\ Status(r, Known, es) = "confirmed"

\* `strong`: what recompute_basis makes of the evidence given.  The copies go by
\* time and id, and times are of a second.
Promote(p, r, strong) ==
  LET review == NewEvent(1, NextSeq(events), "review", r, NoRec)
      record == CHOOSE line \in Lines(records) : line.id = r
      copy(e, i) == [to |-> "promoted", what |-> [e EXCEPT !.seq = NextSeq(promoted) + i - 1]]
  IN
  /\ Locked(p)
  /\ \/ /\ strong /\ MayPromote(r, KnownEvents \cup {review})
        /\ \E carried \in SetToSeqs(Carried(r, review)) :
             Begin(p, <<[to |-> "events", what |-> review], [to |-> "page", what |-> record]>>
                      \o [i \in 1..Len(carried) |-> copy(carried[i], i)]
                      \o <<[to |-> "build", what |-> NoRec]>>, 1)
     \/ ~(strong /\ MayPromote(r, KnownEvents \cup {review})) /\ Begin(p, <<>>, 0)

\* `tac memory index` takes no lock.
Reindex(p) ==
  /\ p \notin busy
  /\ busy' = busy \cup {p}
  /\ todo' = [todo EXCEPT ![p] = <<[to |-> "build", what |-> NoRec]>>]
  /\ UNCHANGED <<live, store, lock, toHold, ids, kills, clones>>

(***************************************************************************)
(* A command writes, ends, or is killed.                                   *)
(***************************************************************************)
\* Mutant: the fragment is not closed, so the next line joins it.
Joined(f, line) == IF f # <<>> /\ Last(f) = Torn THEN f ELSE Append(f, line)

\* append_line: on a line of its own, a fragment before it closed.
Grown(f, line) == Append(f, line)

AppendTo(name, f, w, line) == IF w.to = name THEN Grown(f, line) ELSE f

\* write_index: reads the promoted store, then writes what it made of it.
ReadForIndex(p) ==
  /\ todo[p] = <<[to |-> "build", what |-> NoRec]>>
  /\ todo' = [todo EXCEPT ![p] =
       <<[to |-> "index", what |-> Build(PromotedIds, Lines(promoted))]>>]
  /\ UNCHANGED <<live, store, lock, busy, toHold, ids, kills, clones>>

\* quarantine, one entry after the other, before anything else is written.
Hold(p, h) ==
  /\ h \in toHold[p]
  /\ toHold' = [toHold EXCEPT ![p] = @ \ {h}]
  /\ quarantined' = quarantined \cup {h}
  /\ UNCHANGED <<records, events, store, lock, busy, todo, ids, kills, clones>>

Writing(p) == toHold[p] = {} /\ todo[p] # <<>> /\ Head(todo[p]).to # "build"

Write(p) ==
  LET w == Head(todo[p]) IN
  /\ Writing(p)
  /\ records' = AppendTo("records", records, w, w.what)
  /\ events' = AppendTo("events", events, w, w.what)
  /\ promoted' = AppendTo("promoted", promoted, w, w.what)
  /\ page' = IF w.to = "page"
             THEN [page EXCEPT ![w.what.id] = [state |-> "whole", seq |-> w.what.seq]]
             ELSE page
  /\ index' = IF w.to = "index" THEN w.what ELSE index
  /\ todo' = [todo EXCEPT ![p] = Tail(@)]
  /\ UNCHANGED <<quarantined, lock, busy, toHold, ids, kills, clones>>

Leave(p) ==
  /\ busy' = busy \ {p}
  /\ lock' = IF lock = p THEN NoProc ELSE lock
  /\ toHold' = [toHold EXCEPT ![p] = {}] /\ todo' = [todo EXCEPT ![p] = <<>>]

Finish(p) ==
  /\ p \in busy /\ toHold[p] = {} /\ todo[p] = <<>>
  /\ Leave(p)
  /\ UNCHANGED <<live, store, ids, kills, clones>>

\* Killed before a write; the kernel drops the lock.
Kill(p) ==
  /\ kills < MaxKills /\ (toHold[p] # {} \/ todo[p] # <<>>)
  /\ Leave(p) /\ kills' = kills + 1
  /\ UNCHANGED <<live, store, ids, clones>>

\* Killed in a write: a fragment stays. What is torn of quarantine.jsonl is
\* not read back.
Tear(p) ==
  LET w == Head(todo[p]) IN
  /\ kills < MaxKills /\ Writing(p)
  /\ records' = AppendTo("records", records, w, Torn)
  /\ events' = AppendTo("events", events, w, Torn)
  /\ promoted' = AppendTo("promoted", promoted, w, Torn)
  /\ page' = IF w.to = "page"
             THEN [page EXCEPT ![w.what.id] = [state |-> "torn", seq |-> 0]] ELSE page
  /\ index' = IF w.to = "index" THEN Torn ELSE index
  /\ Leave(p) /\ kills' = kills + 1
  /\ UNCHANGED <<quarantined, ids, clones>>

\* The owner goes on in another clone: the promoted store came along with the
\* repository, the live journal did not.
FreshClone ==
  /\ clones < MaxClones /\ busy = {}
  /\ records' = <<>> /\ events' = <<>> /\ quarantined' = {}
  /\ clones' = clones + 1
  /\ UNCHANGED <<store, lock, busy, toHold, todo, ids, kills>>

Next ==
  \/ \E p \in Procs :
       \/ \E r \in Recs : Add(p, r)
       \/ \E kind \in EventKinds, r \in Recs, o \in Recs \cup {NoRec} : AppendEvent(p, kind, r, o)
       \/ \E r \in Recs, strong \in BOOLEAN : Promote(p, r, strong)
       \/ \E h \in toHold[p] : Hold(p, h)
       \/ Reindex(p) \/ ReadForIndex(p) \/ Write(p) \/ Finish(p) \/ Kill(p) \/ Tear(p)
  \/ FreshClone

Spec == Init /\ [][Next]_vars

(***************************************************************************)
(* Properties                                                              *)
(***************************************************************************)
Rising(f) ==
  \A i, j \in 1..Len(f) : i < j /\ f[i] # Torn /\ f[j] # Torn => f[i].seq < f[j].seq
Gapless(f) ==
  \A line \in Lines(f) : line.seq > 0 /\ \A n \in 1..line.seq : \E l \in Lines(f) : l.seq = n
Numbered(f) == Rising(f) /\ Gapless(f)

\* Sequence numbers have no gap and no repeat, whoever writes and dies where:
\* a fragment's number is given out again.
SequencesDense == Numbered(records) /\ Numbered(events) /\ Numbered(promoted)

\* A fragment of the live journal is never passed over in silence: whoever
\* wrote a line after it has held it in quarantine before.
FragmentsHeld ==
  /\ \A i \in 1..Len(records) - 1 :
       records[i] = Torn => [file |-> "records", line |-> i] \in quarantined
  /\ \A i \in 1..Len(events) - 1 :
       events[i] = Torn => [file |-> "events", line |-> i] \in quarantined

\* A record enters the checkout only while both stores together call it
\* confirmed: nothing that would close or contradict it comes in between.
PromotedWhenConfirmed ==
  [][\A r \in PromotedIds' \ PromotedIds :
       r \in LiveIds /\ Status(r, Known, KnownEvents) = "confirmed"]_vars

\* No event names a record its readers cannot find: a live one a record of
\* either store, a promoted one a promoted record, whatever was cut short.
EventsNameKnown ==
  /\ \A e \in Lines(events) : {e.rec, e.other} \subseteq Known \cup {NoRec}
  /\ \A e \in Lines(promoted) : e.rec \in PromotedIds

\* memory.py, append_line and promote: the journals can be trusted after any kill.
\* No number is given twice, nothing torn is passed over, and events name what
\* there is.
JournalsAreTrue == SequencesDense /\ FragmentsHeld /\ EventsNameKnown

=============================================================================
