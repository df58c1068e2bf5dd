------------------------------- MODULE Selection -------------------------------
(***************************************************************************)
(* What a stage is told of the memory (memory.select, derive).  A store is *)
(* its records, numbered as their ids sort, and its events.  What a stage  *)
(* asks with (ask) is the moment, the room, and what it is about.  A time  *)
(* is a number, Always the end of a record that has none; a statement is   *)
(* the room its line takes.  Levels, which decay, are not asked for.       *)
(***************************************************************************)
EXTENDS Integers, Sequences, FiniteSets, FiniteSetsExt, Functions

NoOrder == "none"
Always == 100

Closing == {"supersede", "correct"}
Bases == <<"test-receipt", "reviewed", "owner", "single-source", "inferred">>
BasisRank(basis) == CHOOSE i \in 1..Len(Bases) : Bases[i] = basis
Strong == {"test-receipt", "reviewed", "owner"}

\* Mutant: what happened since is known as well.
EverySoFar(events, now) == events
\* derive: the events up to the moment, so that a past moment reads as it was.
SoFar(events, now) == {e \in events : e.at <= now}

ClosedAt(r, past) == {e.at : e \in {x \in past : x.kind \in Closing /\ x.record = r}}

\* The records it is paired with, neither side closed.
OpenConflicts(r, records, past) ==
  {o \in DOMAIN records \ {r} :
     /\ \E e \in past : e.kind = "conflict" /\ {e.record, e.other} = {r, o}
     /\ ClosedAt(o, past) = {} /\ ClosedAt(r, past) = {}}

DefaultBasis(record) == IF record.sourced THEN "single-source" ELSE "inferred"

Basis(r, records, past) ==
  LET given == {e.basis : e \in {x \in past : x.kind = "review" /\ x.record = r}} \ {"none"}
  IN IF given = {} THEN DefaultBasis(records[r])
     ELSE CHOOSE b \in given : \A c \in given : BasisRank(b) <= BasisRank(c)

Derive(r, records, past) ==
  [basis  |-> Basis(r, records, past),
   until  |-> Min({records[r].until} \cup ClosedAt(r, past)),
   status |-> IF ClosedAt(r, past) # {} THEN "superseded"
              ELSE IF OpenConflicts(r, records, past) # {} THEN "conflict"
              ELSE IF Basis(r, records, past) \in Strong THEN "confirmed"
              ELSE "unconfirmed"]

ValidAt(record, view, now) == record.from <= now /\ now < view.until

\* The filter of select: whose it is, then whether it holds.
Concerns(record, ask) ==
  /\ record.scope # "session"
  /\ record.scope = "order" => ask.order # NoOrder /\ record.order = ask.order
  /\ record.repository = ask.repository
  /\ ask.topics = {} \/ ask.topics \cap record.topics # {}

\* select of the records, given what had happened by then.
Chosen(records, past, ask) ==
  {r \in DOMAIN records :
     LET view == Derive(r, records, past) IN
     /\ Concerns(records[r], ask)
     /\ view.status = "confirmed" /\ ValidAt(records[r], view, ask.now)}

Mandatory(record) == "policy" \in record.topics

Rank(r, records, past, ask) ==
  <<IF records[r].kind = "decision" THEN 0 ELSE 1,
    IF records[r].paths \cap ask.paths # {} THEN 0 ELSE 1,
    IF ask.order # NoOrder /\ records[r].order = ask.order THEN 0 ELSE 1,
    BasisRank(Basis(r, records, past)),
    -records[r].from,
    r>>

Below(x, y) == \E i \in DOMAIN x : x[i] < y[i] /\ \A j \in 1..(i - 1) : x[j] = y[j]

Outranks(records, past, ask, r, s) ==
  Below(Rank(r, records, past, ask), Rank(s, records, past, ask))

\* The sort: all of some records, in the order of their ranks.
Ranked(records, past, ask, some) ==
  CHOOSE ranked \in [1..Cardinality(some) -> some] :
    /\ Range(ranked) = some
    /\ \A i, j \in DOMAIN ranked : i < j => Outranks(records, past, ask, ranked[i], ranked[j])

Room(records, some) == MapThenSumSet(LAMBDA r : records[r].size, some)
Fits(records, some, ask) == Room(records, some) <= ask.cap

\* Room is reserved for what is mandatory; what then does not fit is skipped.
Fill(records, first, ranked, ask) ==
  LET picked[i \in 0..Len(ranked)] ==
        IF i = 0 THEN first
        ELSE IF Fits(records, picked[i - 1] \cup {ranked[i]}, ask)
        THEN picked[i - 1] \cup {ranked[i]} ELSE picked[i - 1]
  IN picked[Len(ranked)]

\* A mandatory record that cannot fit is a refusal, never truncated.
SelectFrom(records, past, ask) ==
  LET chosen == Chosen(records, past, ask)
      first  == {r \in chosen : Mandatory(records[r])}
      kept   == Fill(records, first, Ranked(records, past, ask, chosen), ask)
  IN IF ~Fits(records, first, ask) THEN [refused |-> TRUE, ids |-> <<>>]
     ELSE [refused |-> FALSE, ids |-> Ranked(records, past, ask, kept)]

Select(store, ask) == SelectFrom(store.records, SoFar(store.events, ask.now), ask)

\* Times are numbers, and a review names one of the bases or none.
AreRecords(records) ==
  /\ Len(records) \in Nat /\ DOMAIN records = 1..Len(records)
  /\ \A r \in DOMAIN records : records[r].from \in Int /\ records[r].until \in Int
AreEvents(events) ==
  \A e \in events : e.kind = "review" => e.basis \in Range(Bases) \cup {"none"}

(***************************************************************************)
(* What a selection has to mean.                                           *)
(***************************************************************************)
\* A record stands at a moment: somebody strong had confirmed it by then, nobody
\* had closed it, and every record it was set against had been closed.
Stands(r, store, now) ==
  LET happened(kinds) == {e \in store.events : e.kind \in kinds /\ e.at <= now}
      closed(o) == \E e \in happened(Closing) : e.record = o
  IN /\ \E e \in happened({"review"}) : e.record = r /\ e.basis \in Strong
     /\ store.records[r].from <= now /\ now < store.records[r].until
     /\ ~closed(r)
     /\ \A e \in happened({"conflict"}) :
          r \in {e.record, e.other} =>
            \A o \in ({e.record, e.other} \cap DOMAIN store.records) \ {r} : closed(o)

SelectionIsRight(store, ask, given) ==
  LET records   == store.records
      due(r)    == Concerns(records[r], ask) /\ Stands(r, store, ask.now)
      told      == Range(given.ids)
      rules     == {r \in DOMAIN records : due(r) /\ "policy" \in records[r].topics}
      today     == {e \in store.events : e.at <= ask.now}
      before(r) == {s \in told : Outranks(records, today, ask, s, r)}
  IN /\ given.refused <=> ~Fits(records, rules, ask)
     /\ ~given.refused =>
          /\ rules \subseteq told
          /\ Cardinality(told) = Len(given.ids) /\ Fits(records, told, ask)
          /\ \A r \in told : due(r)
          \* What was left out did not fit beside the rules and what comes before it.
          /\ \A r \in DOMAIN records \ told :
               due(r) => ~Fits(records, rules \cup before(r) \cup {r}, ask)
     \* Nothing that happens later changes what was given.
     /\ given = Select([store EXCEPT !.events = today], ask)
=============================================================================
