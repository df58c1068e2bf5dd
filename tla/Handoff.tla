-------------------------------- MODULE Handoff --------------------------------
(***************************************************************************)
(* One dispatched stage and its result (handoff.validate, upstream).  A    *)
(* result is the set of the contract's versions it meets; one that is no   *)
(* JSON object meets none.  The envelope holds the version of its dispatch *)
(* (schema_sha256), the contract file the version it has now.  What        *)
(* happens to a stage is a sequence of events: its contract is amended, a  *)
(* result comes in, it is dispatched again; a later stage may read its     *)
(* envelope after any of them, and changes nothing by it.                  *)
(***************************************************************************)
EXTENDS Naturals, Sequences

Unmet == {}

Dispatched(version) ==
  [contract |-> version, status |-> "dispatched", rounds |-> 0, payload |-> Unmet]

\* Contract.findings: whether the contract as it is now finds nothing.
Meets(payload, version) == version \in payload

\* handoff.validate: the result is judged once against the contract of the
\* dispatch, repaired once, then escalated; a Bad leaves the envelope as it was.
Validate(envelope, version, result) ==
  IF envelope.status # "dispatched" \/ version # envelope.contract THEN envelope
  ELSE IF Meets(result, version)
    THEN [envelope EXCEPT !.payload = result,
                          !.status = IF envelope.rounds = 0 THEN "pass" ELSE "degraded"]
  ELSE IF envelope.rounds = 0 THEN [envelope EXCEPT !.rounds = 1]
  ELSE [envelope EXCEPT !.status = "escalated"]

\* Mutant: what passed once may be handed on.
MayHandOnOnce(envelope, version) == envelope.status \in {"pass", "degraded"}

\* handoff.upstream: it passed, and its payload still meets its contract.
MayHandOn(envelope, version) ==
  envelope.status \in {"pass", "degraded"} /\ Meets(envelope.payload, version)

\* What a later stage is given that reads the envelope now.
Given(store) ==
  IF MayHandOn(store.envelope, store.version) THEN store.envelope.payload ELSE Unmet

\* The store is the contract file and the envelope of the last dispatch.
After(store, event) ==
  CASE event.is = "amend"  -> [store EXCEPT !.version = event.version]
    [] event.is = "render" -> [store EXCEPT !.envelope = Dispatched(store.version)]
    [] event.is = "result" ->
         [store EXCEPT !.envelope = Validate(store.envelope, store.version, event.result)]

Start == [version |-> 1, envelope |-> Dispatched(1)]

\* What a later stage is given after each of the events.
Handled(events) ==
  LET store[i \in 0..Len(events)] ==
        IF i = 0 THEN Start ELSE After(store[i - 1], events[i])
  IN [i \in 0..Len(events) |-> Given(store[i])]

(***************************************************************************)
(* What a hand-on has to mean, said by the events.                         *)
(***************************************************************************)
\* The latest of some moments.
Latest(moments) == CHOOSE j \in moments : \A k \in moments : k <= j

VersionAt(events, i) ==
  LET amends == {j \in 1..i : events[j].is = "amend"}
  IN IF amends = {} THEN 1 ELSE events[Latest(amends)].version

\* The last dispatch; the first is before all events.
DispatchAt(events, i) == Latest({0} \cup {j \in 1..i : events[j].is = "render"})

\* The results that came in for a dispatch while its contract stood as it was.
JudgedBy(events, i) ==
  {j \in 1..i : /\ events[j].is = "result" /\ j > DispatchAt(events, i)
                /\ VersionAt(events, j) = VersionAt(events, DispatchAt(events, i))}

\* Of these, the ones that met the contract with at most one before them.
Met(events, i) ==
  LET judged == JudgedBy(events, i) IN
  {j \in judged : /\ VersionAt(events, DispatchAt(events, i)) \in events[j].result
                  /\ \A k, l \in judged : k < j /\ l < j => k = l}

First(moments) == CHOOSE j \in moments : \A k \in moments : j <= k

\* What a later stage is given is the first result of the dispatch that met its
\* contract, one of the first two, and it meets the contract it is read under.
\* What is refused is none of these.
HandoffMeetsContract(events, given) ==
  \A i \in 0..Len(events) :
    LET met    == Met(events, i)
        result == IF met = {} THEN Unmet ELSE events[First(met)].result
    IN given[i] = IF VersionAt(events, i) \in result THEN result ELSE Unmet
=============================================================================
