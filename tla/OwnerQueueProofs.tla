-------------------------- MODULE OwnerQueueProofs --------------------------
(***************************************************************************)
(* Proofs about OwnerQueue for any commands, items, revisions, edits by    *)
(* hand, kills and overlaps.                                               *)
(***************************************************************************)
EXTENDS OwnerQueue, FiniteSetTheorems, SequenceTheorems,
        WellFoundedInduction, TLAPS

Storing == {"write", "sign"}
Signing == {"sign", "signing", "copy"}

\* A command under way has an item of its own in hand.
InHand ==
  \A p \in Procs : cmd[p].pc # "off" =>
    cmd[p].id \in Ids /\ cmd[p].item \in Items /\ Consistent(cmd[p].item)

\* Every signature, in the queue or in hand, is one the owner gave.
SignedByOwner ==
  /\ \A i \in Ids : Readable(i) /\ queue[i].signed # Unsigned => queue[i].signed \in decided
  /\ \A p \in Procs : cmd[p].pc # "off" /\ cmd[p].item.signed # Unsigned =>
       cmd[p].item.signed \in decided

\* What a command will store where nobody else works succeeds what is there.
Alone ==
  /\ \A p, q \in Procs :
       p # q /\ cmd[p].pc # "off" /\ cmd[q].pc # "off" /\ cmd[p].id = cmd[q].id =>
         cmd[p].id \in shared
  /\ \A p \in Procs : cmd[p].id \notin shared =>
       /\ cmd[p].pc = "check" => ~Exists(cmd[p].id)
       /\ cmd[p].pc \in Storing /\ Exists(cmd[p].id) =>
            Readable(cmd[p].id) /\ Succeeds(cmd[p].item, queue[cmd[p].id])
       /\ cmd[p].pc \in Writing => queue[cmd[p].id] = Empty

\* What is signed says of what, and is in the queue before it is copied.
ItemFirst ==
  /\ \A p \in Procs : cmd[p].pc \in Signing =>
       cmd[p].item.signed \in Records /\ cmd[p].item.signed.item = cmd[p].id
  /\ edits = 0 => \A p \in Procs : cmd[p].pc = "copy" /\ cmd[p].id \notin shared =>
       Readable(cmd[p].id) /\ queue[cmd[p].id].signed = cmd[p].item.signed

IInv == TypeOK /\ InHand /\ SignedByOwner /\ Alone /\ ItemFirst /\ CopyIsTheItems

\* A set of naturals with a bound has a greatest.
LEMMA Greatest ==
  ASSUME NEW n \in Nat, NEW S \in SUBSET (0..n), S # {}
  PROVE  Max(S) \in S /\ \A x \in S : Max(S) >= x
<1> DEFINE Above(x) == {y \in S : y >= x}
           T == {Above(x) : x \in S}
<1>1. S \in SUBSET Nat /\ \A x \in S : x <= n
  OBVIOUS
<1>2. IsFiniteSet(S)
  BY <1>1, FS_BoundedSetOfNaturals
<1>3. \A x \in S : IsFiniteSet(Above(x))
  BY <1>2, FS_Subset
<1>4. T \subseteq FiniteSubsetsOf(S) /\ T # {}
  BY <1>3 DEF FiniteSubsetsOf
<1>5. IsWellFoundedOn(StrictSubsetOrdering(S), FiniteSubsetsOf(S))
  BY FS_StrictSubsetOrderingWellFounded
<1>6. PICK U \in T : \A V \in T : <<V, U>> \notin StrictSubsetOrdering(S)
  <2> HIDE DEF T
  <2> QED BY <1>4, <1>5, WFMin
<1>7. PICK x \in S : U = Above(x)
  OBVIOUS
<1>8. \A y \in S : x >= y
  <2> SUFFICES ASSUME NEW y \in S, ~(x >= y) PROVE FALSE
    OBVIOUS
  <2>1. x \in Nat /\ y \in Nat /\ y > x
    BY <1>1
  <2>2. Above(y) \subseteq Above(x)
    <3> SUFFICES ASSUME NEW z \in S, z >= y PROVE z >= x
      OBVIOUS
    <3> z \in Nat
      BY <1>1
    <3> QED BY <2>1
  <2>3. x \in Above(x) /\ x \notin Above(y)
    BY <2>1
  <2>4. <<Above(y), Above(x)>> \in StrictSubsetOrdering(S)
    BY <2>2, <2>3 DEF StrictSubsetOrdering
  <2> QED BY <1>6, <1>7, <2>4
<1> QED BY <1>8 DEF Max

LEMMA NextIsFree == TypeOK /\ NextId \in Ids => ~Exists(NextId)
<1> SUFFICES ASSUME TypeOK, NextId \in Ids, Exists(NextId) PROVE FALSE
  OBVIOUS
<1> DEFINE S == {0} \cup {i \in Ids : Exists(i)}
<1>1. S \in SUBSET (0..MaxItems) /\ S # {} /\ MaxItems \in Nat
  BY QueueAssumption DEF Ids
<1>2. Max(S) \in S /\ \A x \in S : Max(S) >= x
  BY <1>1, Greatest
<1>3. Max(S) + 1 \in S /\ Max(S) \in Nat
  BY <1>1, <1>2 DEF NextId
<1> QED BY <1>2, <1>3

\* A file that can be read holds an item.
LEMMA ReadableItem ==
  ASSUME TypeOK, NEW i \in Ids, Readable(i)
  PROVE  queue[i] \in Items /\ Consistent(queue[i]) /\ Exists(i)
BY DEF TypeOK, Readable, Exists

LEMMA ItemIsReadable ==
  ASSUME NEW i \in Ids, queue[i] \in Items PROVE Readable(i) /\ Exists(i)
BY AbsentAssumption DEF Readable, Exists

\* A file left alone, which no command opens or closes.
LEMMA SameStanding ==
  ASSUME NEW i, queue'[i] = queue[i],
         \A p \in Procs :
           \/ cmd'[p] = cmd[p]
           \/ /\ ~(cmd[p].pc \in Writing /\ cmd[p].id = i)
              /\ ~(cmd'[p].pc \in Writing /\ cmd'[p].id = i)
  PROVE  /\ Standing(i)' = Standing(i) /\ Writers(i)' = Writers(i)
         /\ Readable(i)' <=> Readable(i)
         /\ Exists(i)' <=> Exists(i)
<1>1. Writers(i)' = Writers(i) /\ \A p \in Writers(i) : cmd'[p] = cmd[p]
  BY DEF Writers
<1>2. {cmd[p].item : p \in Writers(i)}' = {cmd[p].item : p \in Writers(i)}
  BY <1>1
<1> QED BY <1>1, <1>2 DEF Standing, Readable, Exists

\* Copies stay right where what stands only shrinks.
LEMMA CopiesStay ==
  ASSUME CopyIsTheItems, copies \subseteq Records, copies' = copies, edits' = edits,
         shared \subseteq shared',
         \A i \in Ids \ shared' : (Exists(i) => Exists(i)') /\ Standing(i)' \subseteq Standing(i)
  PROVE  CopyIsTheItems'
<1> SUFFICES ASSUME edits = 0, NEW record \in copies, record.item \notin shared'
             PROVE  /\ Exists(record.item)'
                    /\ \A is \in Standing(record.item)' : is.signed = record
  BY DEF CopyIsTheItems
<1>1. record.item \in Ids
  BY DEF Records
<1> QED BY <1>1 DEF CopyIsTheItems

LEMMA InitIInv == Init => IInv
<1> SUFFICES ASSUME Init PROVE IInv
  OBVIOUS
<1>1. TypeOK
  <2>1. reviews \in Seq([by : Accounts, state : States, commit : Revisions, at : Times])
    BY DEF Init
  <2>2. /\ head \in Revisions /\ time \in Times /\ turns \in 0..MaxTurns /\ edits \in Nat
        /\ verify.pc = "off" /\ verify.now \in Times
    BY QueueAssumption DEF Init, Revisions, Times, Quiet
  <2>3. queue \in [Ids -> Items \cup {NoItem, Empty, Torn}] /\ \A i \in Ids : ~Exists(i)
    BY DEF Init, Exists
  <2>4. cmd \in [Procs -> [pc : Steps, id : Ids \cup {0}, item : Items \cup {NoItem}]]
    BY DEF Init, Off, Steps
  <2> QED BY <2>1, <2>2, <2>3, <2>4 DEF Init, TypeOK, Exists, Readable
<1>2. (\A p \in Procs : cmd[p].pc = "off") /\ (\A i \in Ids : ~Exists(i))
  BY DEF Init, Off, Exists
<1>3. InHand /\ SignedByOwner /\ Alone /\ ItemFirst /\ CopyIsTheItems
  BY <1>2 DEF Init, InHand, SignedByOwner, Alone, ItemFirst, CopyIsTheItems, Storing,
              Signing, Writing, Exists, Readable
<1> QED BY <1>1, <1>3 DEF IInv

(***************************************************************************)
(* Commands                                                                *)
(***************************************************************************)
\* A command begins with an item of its own, or shares the one it takes.
LEMMA BeginKeeps ==
  ASSUME IInv, NEW p \in Procs, NEW pc \in {"check", "write", "sign"}, NEW id \in Ids,
         NEW item \in Items, Consistent(item), Begin(p, pc, id, item),
         decided \subseteq decided', decided' \subseteq Records,
         item.signed # Unsigned => item.signed \in decided',
         pc = "check" => ~Exists(id),
         pc # "check" => Readable(id) /\ Succeeds(item, queue[id]),
         pc = "sign" => item.signed \in Records /\ item.signed.item = id
  PROVE  IInv'
<1>1. /\ queue' = queue /\ copies' = copies /\ verify' = verify
      /\ reviews' = reviews /\ head' = head /\ time' = time /\ edits' = edits
  BY DEF Begin
<1>2. /\ cmd' = [cmd EXCEPT ![p] = [pc |-> pc, id |-> id, item |-> item]]
      /\ cmd[p].pc = "off" /\ Share(id)
  BY DEF Begin
<1>3. /\ cmd'[p] = [pc |-> pc, id |-> id, item |-> item]
      /\ \A q \in Procs \ {p} : cmd'[q] = cmd[q]
  BY <1>2 DEF IInv, TypeOK
<1>4. /\ shared \subseteq shared' /\ shared' \subseteq Ids
      /\ \A q \in Procs : cmd[q].pc # "off" /\ cmd[q].id = id => id \in shared'
  BY <1>2 DEF IInv, TypeOK, Share, Held
<1>5. turns' \in 0..MaxTurns
  BY QueueAssumption DEF IInv, TypeOK, Begin, Overlap, Turn
<1>6. cmd' \in [Procs -> [pc : Steps, id : Ids \cup {0}, item : Items \cup {NoItem}]]
  BY <1>2 DEF IInv, TypeOK, Steps
<1>7. TypeOK'
  BY <1>1, <1>4, <1>5, <1>6 DEF IInv, TypeOK, Readable
<1>8. InHand' /\ SignedByOwner'
  BY <1>1, <1>3 DEF IInv, InHand, SignedByOwner, Readable
<1>9. Alone'
  <2>1. ASSUME NEW q \in Procs, NEW r \in Procs, q # r, cmd'[q].pc # "off",
               cmd'[r].pc # "off", cmd'[q].id = cmd'[r].id
        PROVE  cmd'[q].id \in shared'
    BY <1>3, <1>4, <2>1 DEF IInv, Alone
  <2>2. ASSUME NEW q \in Procs, cmd'[q].id \notin shared'
        PROVE  /\ cmd'[q].pc = "check" => ~Exists(cmd'[q].id)
               /\ cmd'[q].pc \in Storing /\ Exists(cmd'[q].id) =>
                    Readable(cmd'[q].id) /\ Succeeds(cmd'[q].item, queue[cmd'[q].id])
               /\ cmd'[q].pc \in Writing => queue[cmd'[q].id] = Empty
    BY <1>3, <1>4, <2>2 DEF IInv, Alone, Storing, Writing
  <2> QED BY <1>1, <2>1, <2>2 DEF Alone, Exists, Readable, Succeeds
<1>10. ItemFirst'
  BY <1>1, <1>3, <1>4 DEF IInv, ItemFirst, Readable, Signing
<1>11. CopyIsTheItems'
  <2>1. \A i \in Ids : Standing(i)' = Standing(i) /\ (Exists(i)' <=> Exists(i))
    BY <1>1, <1>2, <1>3, SameStanding DEF Writing
  <2> QED BY <1>1, <1>4, <2>1, CopiesStay DEF IInv, TypeOK
<1> QED BY <1>7, <1>8, <1>9, <1>10, <1>11 DEF IInv

LEMMA AskLoadStep ==
  ASSUME IInv, NEW p \in Procs, NEW body \in Bodies, AskLoad(p, body)
  PROVE  IInv'
<1> DEFINE item ==
      [kind |-> body.kind, action |-> body.action, revision |-> body.revision,
       pull |-> body.pull, source |-> body.source,
       expires |-> IF body.lasts = 0 THEN Never ELSE time + body.lasts,
       status |-> "pending", by |-> Nobody, answers |-> 0, signed |-> Unsigned]
<1>1. NextId \in Ids /\ Begin(p, "check", NextId, item) /\ decided' = decided
  BY DEF AskLoad
<1>2. ~Exists(NextId)
  BY <1>1, NextIsFree DEF IInv
<1>3. body \in Body
  BY QueueAssumption
<1>4. item.expires \in Nat
  BY <1>3, QueueAssumption DEF IInv, TypeOK, Times, Never, Body
<1>5. item \in Items
  BY <1>3, <1>4 DEF Body, Items
<1>6. Consistent(item) /\ item.signed = Unsigned
  BY DEF Consistent
<1> HIDE DEF item
<1> QED BY <1>1, <1>2, <1>5, <1>6, BeginKeeps DEF IInv, TypeOK

LEMMA AnswerLoadStep ==
  ASSUME IInv, NEW p \in Procs, NEW i \in Ids, NEW who \in Accounts, NEW close \in BOOLEAN,
         AnswerLoad(p, i, who, close)
  PROVE  IInv'
<1> DEFINE was == queue[i]
           more == [was EXCEPT !.answers = @ + 1]
           item == IF close /\ Closes(was)
                   THEN [more EXCEPT !.status = "answered", !.by = who] ELSE more
<1>1. Readable(i) /\ Begin(p, "write", i, item) /\ decided' = decided
  BY DEF AnswerLoad
<1>2. was \in Items /\ Consistent(was)
  BY <1>1, ReadableItem DEF IInv
<1>3. more \in Items /\ Consistent(more) /\ Succeeds(more, was)
  BY <1>2 DEF Items, Consistent, Succeeds
<1>4. ASSUME Closes(was)
      PROVE  LET done == [more EXCEPT !.status = "answered", !.by = who]
             IN  done \in Items /\ Consistent(done) /\ Succeeds(done, was)
  <2> DEFINE done == [more EXCEPT !.status = "answered", !.by = who]
  <2>1. was.status = "pending" /\ was.kind = "question" /\ was.signed = Unsigned
    BY <1>2, <1>4 DEF Items, Consistent, Closes
  <2>2. done \in Items /\ done.status = "answered" /\ done.by = who
        /\ done.signed = Unsigned /\ done.kind = "question"
    <3>1. /\ more \in Items /\ more.signed = was.signed /\ more.kind = was.kind
          /\ more.answers = was.answers + 1 /\ more.source = was.source
      BY <1>2, <1>3 DEF Items
    <3> HIDE DEF more
    <3> QED BY <2>1, <3>1 DEF Items
  <2>3. Consistent(done)
    BY <2>2, AbsentAssumption DEF Consistent
  <2>4. Succeeds(done, was)
    BY <1>2, <2>1 DEF Succeeds, Items
  <2> QED BY <2>2, <2>3, <2>4
<1>5. item \in Items /\ Consistent(item) /\ Succeeds(item, was)
  BY <1>3, <1>4
<1>6. item.signed = was.signed
  BY <1>2 DEF Items
<1>7. item.signed # Unsigned => item.signed \in decided
  BY <1>1, <1>6 DEF IInv, SignedByOwner
<1> HIDE DEF item
<1> QED BY <1>1, <1>5, <1>7, BeginKeeps DEF IInv, TypeOK

LEMMA ApproveLoadStep ==
  ASSUME IInv, NEW p \in Procs, NEW i \in Ids, NEW decision \in {"approved", "rejected"},
         ApproveLoad(p, i, decision)
  PROVE  IInv'
<1> DEFINE was == queue[i]
           record == Signed(i, was, decision)
           item == [was EXCEPT !.status = decision, !.by = Owner, !.signed = record]
<1>1. /\ Readable(i) /\ was.kind = "approval" /\ was.status = "pending"
      /\ Begin(p, "sign", i, item) /\ decided' = decided \cup {record}
  BY DEF ApproveLoad
<1>2. was \in Items /\ Consistent(was)
  BY <1>1, ReadableItem DEF IInv
<1>3. record \in Records /\ record.item = i
  <2>1. time \in Nat /\ Ttl \in Nat /\ was.expires \in Nat
    BY <1>2, QueueAssumption DEF IInv, TypeOK, Times, Items
  <2>2. (IF was.expires < time + Ttl THEN was.expires ELSE time + Ttl) \in Nat
    BY <2>1
  <2> QED BY <1>2, <2>2 DEF Signed, Records, Items
<1> HIDE DEF record
<1>4. item \in Items /\ item.signed = record
  BY <1>2, <1>3 DEF Items, Accounts
<1>5. Consistent(item)
  BY <1>1, <1>2, AbsentAssumption DEF Consistent, Items, Accounts
<1>6. Succeeds(item, was)
  BY <1>1, <1>2 DEF Succeeds, Items
<1> HIDE DEF item
<1> QED BY <1>1, <1>3, <1>4, <1>5, <1>6, BeginKeeps DEF IInv, TypeOK

LEMMA AskCheckStep == IInv /\ (\E p \in Procs : AskCheck(p)) => IInv'
<1> SUFFICES ASSUME IInv, NEW p \in Procs, AskCheck(p) PROVE IInv'
  OBVIOUS
<1>1. /\ queue' = queue /\ copies' = copies /\ verify' = verify /\ shared' = shared
      /\ decided' = decided /\ UNCHANGED world /\ cmd[p].pc = "check"
  BY DEF AskCheck
<1>2. /\ \A q \in Procs \ {p} : cmd'[q] = cmd[q]
      /\ \/ cmd'[p].pc = "off"
         \/ /\ cmd'[p].pc = "write" /\ cmd'[p].id = cmd[p].id
            /\ cmd'[p].item = cmd[p].item /\ ~Exists(cmd[p].id)
  BY DEF AskCheck, Goto, Ends, Off, IInv, TypeOK
<1>3. TypeOK'
  <2>1. cmd' \in [Procs -> [pc : Steps, id : Ids \cup {0}, item : Items \cup {NoItem}]]
    BY DEF AskCheck, Goto, Ends, Off, IInv, TypeOK, Steps
  <2> QED BY <1>1, <2>1 DEF IInv, TypeOK, Readable, world
<1>4. InHand' /\ SignedByOwner'
  BY <1>1, <1>2 DEF IInv, InHand, SignedByOwner, Readable
<1>5. Alone'
  BY <1>1, <1>2 DEF IInv, Alone, Exists, Readable, Succeeds, Storing, Writing
<1>6. ItemFirst'
  BY <1>1, <1>2 DEF IInv, ItemFirst, Readable, Signing, world
<1>7. CopyIsTheItems'
  <2>1. \A i \in Ids : Standing(i)' = Standing(i) /\ (Exists(i)' <=> Exists(i))
    BY <1>1, <1>2, SameStanding DEF Writing
  <2> QED BY <1>1, <2>1, CopiesStay DEF IInv, TypeOK, world
<1> QED BY <1>3, <1>4, <1>5, <1>6, <1>7 DEF IInv

\* What is known of a command that is about to open its file, or has it open.
LEMMA InHandOf ==
  ASSUME IInv, NEW p \in Procs, cmd[p].pc # "off"
  PROVE  /\ cmd[p].id \in Ids /\ cmd[p].item \in Items /\ Consistent(cmd[p].item)
         /\ cmd[p].item.signed # Unsigned => cmd[p].item.signed \in decided
         /\ \A q \in Procs \ {p} : cmd[q].pc # "off" /\ cmd[q].id \notin shared =>
              cmd[q].id \in Ids /\ cmd[q].id # cmd[p].id
BY DEF IInv, InHand, SignedByOwner, Alone

\* A command that works on an item alone is the only one that may have it open.
LEMMA OnlyWriter ==
  ASSUME IInv, NEW p \in Procs, cmd[p].pc # "off", cmd[p].id \notin shared
  PROVE  Writers(cmd[p].id) = IF cmd[p].pc \in Writing THEN {p} ELSE {}
BY DEF IInv, Alone, Writers, Writing

\* Opening the file of an item had alone: the item to come has its record.
LEMMA OpenStep == IInv /\ (\E p \in Procs : Open(p)) => IInv'
<1> SUFFICES ASSUME IInv, NEW p \in Procs, Open(p) PROVE IInv'
  OBVIOUS
<1> DEFINE id == cmd[p].id
           item == cmd[p].item
<1>1. /\ copies' = copies /\ verify' = verify /\ shared' = shared
      /\ decided' = decided /\ UNCHANGED world /\ cmd[p].pc \in Storing
  BY DEF Open, Storing
<1>2. /\ id \in Ids /\ item \in Items /\ Consistent(item)
      /\ \A q \in Procs \ {p} : cmd[q].pc # "off" /\ cmd[q].id \notin shared =>
           cmd[q].id \in Ids /\ cmd[q].id # id
  BY <1>1, InHandOf DEF Storing
<1>3. queue'[id] = Empty /\ \A i \in Ids \ {id} : queue'[i] = queue[i]
  BY <1>2 DEF Open, Holds, IInv, TypeOK
<1>4. /\ \A q \in Procs \ {p} : cmd'[q] = cmd[q]
      /\ cmd'[p].pc \in Writing /\ cmd'[p].id = id /\ cmd'[p].item = item
      /\ cmd'[p].pc = "signing" => cmd[p].pc = "sign"
  BY DEF Open, Goto, IInv, TypeOK, Writing
<1>5. TypeOK'
  <2>1. cmd' \in [Procs -> [pc : Steps, id : Ids \cup {0}, item : Items \cup {NoItem}]]
    BY DEF Open, Goto, IInv, TypeOK, Steps, Writing
  <2>2. queue' \in [Ids -> Items \cup {NoItem, Empty, Torn}]
    BY <1>2 DEF Open, Holds, IInv, TypeOK
  <2>3. \A i \in Ids : Readable(i)' => Consistent(queue'[i])
    BY <1>3 DEF IInv, TypeOK, Readable
  <2> QED BY <1>1, <2>1, <2>2, <2>3 DEF IInv, TypeOK, Readable, Consistent, world
<1>6. InHand' /\ SignedByOwner'
  <2>1. InHand'
    BY <1>1, <1>4 DEF IInv, InHand, Storing
  <2>2. SignedByOwner'
    BY <1>1, <1>3, <1>4 DEF IInv, SignedByOwner, Readable, Storing
  <2> QED BY <2>1, <2>2
<1>7. Alone'
  <2>1. \A q, r \in Procs :
          q # r /\ cmd'[q].pc # "off" /\ cmd'[r].pc # "off" /\ cmd'[q].id = cmd'[r].id =>
            cmd'[q].id \in shared
    BY <1>1, <1>4 DEF IInv, Alone, Storing
  <2>2. ASSUME NEW q \in Procs, cmd'[q].id \notin shared
        PROVE  /\ cmd'[q].pc = "check" => queue'[cmd'[q].id] = NoItem
               /\ cmd'[q].pc \in Storing /\ queue'[cmd'[q].id] # NoItem =>
                    /\ queue'[cmd'[q].id] \notin {NoItem, Empty, Torn}
                    /\ Succeeds(cmd'[q].item, queue'[cmd'[q].id])
               /\ cmd'[q].pc \in Writing => queue'[cmd'[q].id] = Empty
    <3>1. CASE q = p
      BY <1>3, <1>4, <3>1 DEF Storing, Writing
    <3>2. CASE q # p /\ cmd[q].pc # "off"
      <4>1. cmd'[q] = cmd[q] /\ queue'[cmd[q].id] = queue[cmd[q].id]
        BY <1>2, <1>3, <1>4, <2>2, <3>2
      <4> QED BY <2>2, <4>1 DEF IInv, Alone, Exists, Readable
    <3>3. CASE q # p /\ cmd[q].pc = "off"
      BY <1>4, <3>3 DEF Storing, Writing
    <3> QED BY <3>1, <3>2, <3>3
  <2> QED BY <1>1, <2>1, <2>2 DEF Alone, Exists, Readable, Succeeds
<1>8. ItemFirst'
  <2>1. \A q \in Procs \ {p} : cmd[q].pc = "copy" /\ cmd[q].id \notin shared =>
          queue'[cmd[q].id] = queue[cmd[q].id]
    BY <1>2, <1>3
  <2> QED BY <1>1, <1>4, <2>1 DEF IInv, ItemFirst, Readable, Signing, Writing, world
<1>9. CopyIsTheItems'
  <2> SUFFICES ASSUME edits = 0, NEW record \in copies, record.item \notin shared
               PROVE  /\ Exists(record.item)'
                      /\ \A is \in Standing(record.item)' : is.signed = record
    BY <1>1 DEF CopyIsTheItems, world
  <2>1. /\ Exists(record.item) /\ record \in Records /\ record.item \in Ids
        /\ \A is \in Standing(record.item) : is.signed = record
    BY DEF IInv, CopyIsTheItems, TypeOK, Records
  <2>2. CASE record.item # id
    <3>1. Standing(record.item)' = Standing(record.item) /\ Exists(record.item)'
      BY <1>3, <1>4, <2>1, <2>2, SameStanding
    <3> QED BY <2>1, <3>1
  <2>3. CASE record.item = id
    <3>1. Readable(id) /\ Succeeds(item, queue[id])
      BY <1>1, <2>1, <2>3 DEF IInv, Alone
    <3>2. queue[id].signed = record
      BY <2>1, <2>3, <3>1 DEF Standing
    <3>3. queue[id].status # "pending"
      BY <1>2, <2>1, <3>1, <3>2, ReadableItem, AbsentAssumption DEF IInv, Consistent
    <3>4. item.signed = record
      BY <3>1, <3>2, <3>3 DEF Succeeds
    <3>5. Writers(record.item)' = {p}
      BY <1>1, <1>2, <1>4, <2>3 DEF Writers, Writing
    <3>6. Standing(record.item)' = {item} /\ Exists(record.item)'
      BY <1>3, <1>4, <2>3, <3>5, AbsentAssumption DEF Standing, Readable, Exists
    <3> QED BY <2>3, <3>4, <3>6
  <2> QED BY <2>2, <2>3
<1> QED BY <1>5, <1>6, <1>7, <1>8, <1>9 DEF IInv

\* What stood in a command's hand stands in the file, once it is filled.
LEMMA FilledStands ==
  ASSUME IInv, NEW p \in Procs, Fill(p), NEW i \in Ids \ shared, cmd[p].id = i
  PROVE  Exists(i)' /\ Standing(i)' = {cmd[p].item} /\ Standing(i) = {cmd[p].item}
<1>1. cmd[p].pc \in Writing /\ queue[i] = Empty
  BY DEF Fill, IInv, Alone
<1>2. cmd[p].item \in Items
  BY <1>1, InHandOf DEF Writing
<1>3. Writers(i) = {p}
  BY <1>1, OnlyWriter DEF Writing
<1>4. queue'[i] = cmd[p].item
  BY <1>1, <1>2 DEF Fill, Holds, IInv, TypeOK
<1>5. Exists(i)' /\ Readable(i)' /\ ~Readable(i)
  BY <1>1, <1>2, <1>4, AbsentAssumption DEF Readable, Exists
<1>6. Standing(i)' = {cmd[p].item}
  BY <1>4, <1>5 DEF Standing
<1>7. Standing(i) = {cmd[p].item}
  BY <1>3, <1>5 DEF Standing
<1> QED BY <1>5, <1>6, <1>7

\* What a command stores: of an item had alone, what stood in the command's hand.
LEMMA FillStep == IInv /\ (\E p \in Procs : Fill(p)) => IInv'
<1> SUFFICES ASSUME IInv, NEW p \in Procs, Fill(p) PROVE IInv'
  OBVIOUS
<1> DEFINE id == cmd[p].id
           item == cmd[p].item
<1>1. /\ copies' = copies /\ verify' = verify /\ shared' = shared
      /\ decided' = decided /\ UNCHANGED world /\ cmd[p].pc \in Writing
  BY DEF Fill
<1>2. /\ id \in Ids /\ item \in Items /\ Consistent(item)
      /\ item.signed # Unsigned => item.signed \in decided
      /\ \A q \in Procs \ {p} : cmd[q].pc # "off" /\ cmd[q].id \notin shared =>
           cmd[q].id \in Ids /\ cmd[q].id # id
  BY <1>1, InHandOf DEF Writing
<1>3. /\ queue' = [queue EXCEPT ![id] = item] \/ queue' = [queue EXCEPT ![id] = Torn]
      /\ queue'[id] \in {item, Torn} /\ \A i \in Ids \ {id} : queue'[i] = queue[i]
      /\ queue[id] = Empty => queue'[id] = item
  BY <1>2 DEF Fill, Holds, IInv, TypeOK
<1>4. /\ \A q \in Procs \ {p} : cmd'[q] = cmd[q]
      /\ \/ cmd'[p].pc = "off"
         \/ /\ cmd[p].pc = "signing" /\ cmd'[p].pc = "copy"
            /\ cmd'[p].id = id /\ cmd'[p].item = item
  BY DEF Fill, Goto, Ends, Off, IInv, TypeOK
<1>5. TypeOK'
  <2>1. cmd' \in [Procs -> [pc : Steps, id : Ids \cup {0}, item : Items \cup {NoItem}]]
    BY DEF Fill, Goto, Ends, Off, IInv, TypeOK, Steps
  <2>2. queue' \in [Ids -> Items \cup {NoItem, Empty, Torn}]
    BY <1>2, <1>3 DEF IInv, TypeOK
  <2>3. \A i \in Ids : Readable(i)' => Consistent(queue'[i])
    BY <1>2, <1>3 DEF IInv, TypeOK, Readable
  <2> QED BY <1>1, <2>1, <2>2, <2>3 DEF IInv, TypeOK, Readable, Consistent, world
<1>6. InHand' /\ SignedByOwner'
  <2>1. InHand'
    BY <1>1, <1>4 DEF IInv, InHand, Writing
  <2>2. SignedByOwner'
    BY <1>1, <1>2, <1>3, <1>4 DEF IInv, SignedByOwner, Readable
  <2> QED BY <2>1, <2>2
<1>7. Alone'
  <2>1. \A q, r \in Procs :
          q # r /\ cmd'[q].pc # "off" /\ cmd'[r].pc # "off" /\ cmd'[q].id = cmd'[r].id =>
            cmd'[q].id \in shared
    BY <1>1, <1>4 DEF IInv, Alone, Writing
  <2>2. ASSUME NEW q \in Procs, cmd'[q].id \notin shared,
               cmd'[q].pc \in Storing \cup Writing \cup {"check"}
        PROVE  cmd'[q] = cmd[q] /\ queue'[cmd[q].id] = queue[cmd[q].id]
    <3>1. q # p
      BY <1>4, <2>2 DEF Storing, Writing
    <3>2. cmd'[q] = cmd[q] /\ cmd[q].pc # "off"
      BY <1>4, <2>2, <3>1 DEF Storing, Writing
    <3> QED BY <1>2, <1>3, <2>2, <3>1, <3>2
  <2>3. ASSUME NEW q \in Procs, cmd'[q].id \notin shared
        PROVE  /\ cmd'[q].pc = "check" => queue'[cmd'[q].id] = NoItem
               /\ cmd'[q].pc \in Storing /\ queue'[cmd'[q].id] # NoItem =>
                    /\ queue'[cmd'[q].id] \notin {NoItem, Empty, Torn}
                    /\ Succeeds(cmd'[q].item, queue'[cmd'[q].id])
               /\ cmd'[q].pc \in Writing => queue'[cmd'[q].id] = Empty
    BY <2>2, <2>3 DEF IInv, Alone, Exists, Readable
  <2> QED BY <1>1, <2>1, <2>3 DEF Alone, Exists, Readable, Succeeds
<1>8. ItemFirst'
  <2>1. \A q \in Procs \ {p} : cmd[q].pc = "copy" /\ cmd[q].id \notin shared =>
          queue'[cmd[q].id] = queue[cmd[q].id]
    BY <1>2, <1>3
  <2>2. id \notin shared => queue'[id] = item
    BY <1>1, <1>3 DEF IInv, Alone
  <2>3. queue'[id] = item => queue'[id] \notin {NoItem, Empty, Torn}
    BY <1>2, AbsentAssumption
  <2> QED BY <1>1, <1>4, <2>1, <2>2, <2>3 DEF IInv, ItemFirst, Readable, Signing, world
<1>9. \A i \in Ids \ shared : (Exists(i) => Exists(i)') /\ Standing(i)' \subseteq Standing(i)
  <2> SUFFICES ASSUME NEW i \in Ids \ shared
               PROVE  (Exists(i) => Exists(i)') /\ Standing(i)' \subseteq Standing(i)
    OBVIOUS
  <2>1. CASE i # id
    BY <1>3, <1>4, <2>1, SameStanding DEF Writing
  <2>2. CASE i = id
    BY <1>1, <2>2, FilledStands
  <2> QED BY <2>1, <2>2
<1>10. CopyIsTheItems'
  BY <1>1, <1>9, CopiesStay DEF IInv, TypeOK, world
<1> QED BY <1>5, <1>6, <1>7, <1>8, <1>10 DEF IInv

LEMMA CopyStep == IInv /\ (\E p \in Procs : Copy(p)) => IInv'
<1> SUFFICES ASSUME IInv, NEW p \in Procs, Copy(p) PROVE IInv'
  OBVIOUS
<1> DEFINE record == cmd[p].item.signed
<1>1. /\ queue' = queue /\ copies' = copies \cup {record} /\ verify' = verify
      /\ shared' = shared /\ decided' = decided /\ UNCHANGED world /\ cmd[p].pc = "copy"
  BY DEF Copy
<1>2. cmd'[p].pc = "off" /\ \A q \in Procs \ {p} : cmd'[q] = cmd[q]
  BY DEF Copy, Ends, Off, IInv, TypeOK
<1>3. record \in Records /\ record.item = cmd[p].id
  BY <1>1 DEF IInv, ItemFirst, Signing
<1>4. TypeOK'
  <2>1. cmd' \in [Procs -> [pc : Steps, id : Ids \cup {0}, item : Items \cup {NoItem}]]
    BY DEF Copy, Ends, Off, IInv, TypeOK, Steps
  <2> QED BY <1>1, <1>3, <2>1 DEF IInv, TypeOK, Readable, world
<1>5. InHand' /\ SignedByOwner'
  BY <1>1, <1>2 DEF IInv, InHand, SignedByOwner, Readable
<1>6. Alone'
  BY <1>1, <1>2 DEF IInv, Alone, Exists, Readable, Succeeds, Storing, Writing
<1>7. ItemFirst'
  BY <1>1, <1>2 DEF IInv, ItemFirst, Readable, Signing, world
<1>8. CopyIsTheItems'
  <2>1. edits = 0 /\ record.item \notin shared =>
          /\ Exists(record.item)
          /\ \A is \in Standing(record.item) : is.signed = record
    BY <1>1, <1>3 DEF IInv, ItemFirst, Standing, Readable, Exists
  <2>2. \A i \in Ids : Standing(i)' = Standing(i) /\ (Exists(i)' <=> Exists(i))
    BY <1>1, <1>2, SameStanding DEF Writing
  <2> SUFFICES ASSUME edits = 0, NEW r \in copies', r.item \notin shared
               PROVE  /\ Exists(r.item)' /\ \A is \in Standing(r.item)' : is.signed = r
    BY <1>1 DEF CopyIsTheItems, world
  <2>3. r \in copies \cup {record} /\ r.item \in Ids
    BY <1>1, <1>3 DEF IInv, TypeOK, Records
  <2>4. Exists(r.item) /\ \A is \in Standing(r.item) : is.signed = r
    BY <2>1, <2>3 DEF IInv, CopyIsTheItems
  <2> QED BY <2>2, <2>3, <2>4
<1> QED BY <1>4, <1>5, <1>6, <1>7, <1>8 DEF IInv

\* A kill leaves a file as it is, or torn when it was open.
LEMMA KilledStands ==
  ASSUME IInv, NEW p \in Procs, Kill(p), NEW i \in Ids \ shared
  PROVE  /\ Exists(i) => Exists(i)'
         /\ \/ Standing(i)' = Standing(i)
            \/ Standing(i)' = {} /\ Writers(i) # {}
<1>1. /\ cmd[p].pc # "off" /\ cmd'[p].pc = "off" /\ \A q \in Procs \ {p} : cmd'[q] = cmd[q]
      /\ \/ queue' = queue
         \/ cmd[p].pc \in Writing /\ queue' = [queue EXCEPT ![cmd[p].id] = Torn]
  BY DEF Kill, Holds, Ends, Off, IInv, TypeOK
<1>2. CASE cmd[p].pc \notin Writing \/ cmd[p].id # i
  <2>1. queue'[i] = queue[i]
    BY <1>1, <1>2 DEF IInv, TypeOK
  <2> QED BY <1>1, <1>2, <2>1, SameStanding DEF Writing
<1>3. CASE cmd[p].pc \in Writing /\ cmd[p].id = i
  <2>1. Writers(i) = {p} /\ queue[i] = Empty
    BY <1>1, <1>3, OnlyWriter DEF IInv, Alone
  <2>2. queue'[i] \in {Empty, Torn}
    BY <1>1, <1>3, <2>1 DEF IInv, TypeOK
  <2>3. Writers(i)' = {}
    BY <1>1, <2>1 DEF Writers, Writing
  <2>4. Standing(i)' = {} /\ Exists(i)'
    BY <2>2, <2>3, AbsentAssumption DEF Standing, Readable, Exists
  <2> QED BY <2>1, <2>4
<1> QED BY <1>2, <1>3

LEMMA KillStep == IInv /\ (\E p \in Procs : Kill(p)) => IInv'
<1> SUFFICES ASSUME IInv, NEW p \in Procs, Kill(p) PROVE IInv'
  OBVIOUS
<1>1. /\ copies' = copies /\ verify' = verify /\ shared' = shared /\ decided' = decided
      /\ head' = head /\ reviews' = reviews /\ time' = time /\ edits' = edits
      /\ cmd[p].pc # "off"
  BY DEF Kill
<1>2. cmd'[p].pc = "off" /\ \A q \in Procs \ {p} : cmd'[q] = cmd[q]
  BY DEF Kill, Ends, Off, IInv, TypeOK
<1>3. /\ cmd[p].id \in Ids
      /\ queue' = queue \/ queue' = [queue EXCEPT ![cmd[p].id] = Torn]
      /\ \A i \in Ids : queue'[i] = queue[i] \/ (i = cmd[p].id /\ queue'[i] = Torn)
  BY <1>1, InHandOf DEF Kill, Holds, IInv, TypeOK
<1>4. TypeOK'
  <2>1. cmd' \in [Procs -> [pc : Steps, id : Ids \cup {0}, item : Items \cup {NoItem}]]
    BY DEF Kill, Ends, Off, IInv, TypeOK, Steps
  <2>2. turns' \in 0..MaxTurns
    BY QueueAssumption DEF Kill, Turn, IInv, TypeOK
  <2>3. queue' \in [Ids -> Items \cup {NoItem, Empty, Torn}]
    BY <1>3 DEF IInv, TypeOK
  <2>4. \A i \in Ids : Readable(i)' => Consistent(queue'[i])
    BY <1>3 DEF IInv, TypeOK, Readable
  <2> QED BY <1>1, <2>1, <2>2, <2>3, <2>4 DEF IInv, TypeOK, Readable, Consistent
<1>5. InHand' /\ SignedByOwner'
  <2>1. InHand'
    BY <1>1, <1>2 DEF IInv, InHand
  <2>2. SignedByOwner'
    BY <1>1, <1>2, <1>3 DEF IInv, SignedByOwner, Readable
  <2> QED BY <2>1, <2>2
<1>6. \A q \in Procs : cmd'[q].pc # "off" /\ cmd'[q].id \notin shared =>
        cmd'[q] = cmd[q] /\ queue'[cmd[q].id] = queue[cmd[q].id]
  BY <1>1, <1>2, <1>3, InHandOf
<1>7. Alone'
  <2>1. \A q, r \in Procs :
          q # r /\ cmd'[q].pc # "off" /\ cmd'[r].pc # "off" /\ cmd'[q].id = cmd'[r].id =>
            cmd'[q].id \in shared
    BY <1>2 DEF IInv, Alone
  <2>2. ASSUME NEW q \in Procs, cmd'[q].id \notin shared
        PROVE  /\ cmd'[q].pc = "check" => queue'[cmd'[q].id] = NoItem
               /\ cmd'[q].pc \in Storing /\ queue'[cmd'[q].id] # NoItem =>
                    /\ queue'[cmd'[q].id] \notin {NoItem, Empty, Torn}
                    /\ Succeeds(cmd'[q].item, queue'[cmd'[q].id])
               /\ cmd'[q].pc \in Writing => queue'[cmd'[q].id] = Empty
    <3>1. CASE cmd'[q].pc = "off"
      BY <3>1 DEF Storing, Writing
    <3>2. CASE cmd'[q].pc # "off"
      BY <1>6, <2>2, <3>2 DEF IInv, Alone, Exists, Readable
    <3> QED BY <3>1, <3>2
  <2> QED BY <1>1, <2>1, <2>2 DEF Alone, Exists, Readable, Succeeds
<1>8. ItemFirst'
  BY <1>1, <1>2, <1>6 DEF IInv, ItemFirst, Readable, Signing
<1>9. CopyIsTheItems'
  <2>1. \A i \in Ids \ shared : (Exists(i) => Exists(i)') /\ Standing(i)' \subseteq Standing(i)
    BY KilledStands
  <2> QED BY <1>1, <2>1, CopiesStay DEF IInv, TypeOK
<1> QED BY <1>4, <1>5, <1>7, <1>8, <1>9 DEF IInv

(***************************************************************************)
(* GitHub, hands on the files, the clock                                   *)
(***************************************************************************)
\* A step that touches neither the queue nor a command.
LEMMA OutsideKeeps ==
  ASSUME IInv, TypeOK', UNCHANGED <<queue, copies, cmd, decided, shared>>, edits' = edits
  PROVE  IInv'
<1>1. InHand' /\ SignedByOwner'
  BY DEF IInv, InHand, SignedByOwner, Readable
<1>2. Alone'
  BY DEF IInv, Alone, Exists, Readable, Succeeds
<1>3. ItemFirst'
  BY DEF IInv, ItemFirst, Readable
<1>4. CopyIsTheItems'
  <2>1. \A i \in Ids : Standing(i)' = Standing(i) /\ (Exists(i)' <=> Exists(i))
    BY SameStanding
  <2> QED BY <2>1, CopiesStay DEF IInv, TypeOK
<1> QED BY <1>1, <1>2, <1>3, <1>4 DEF IInv

LEMMA VerifyStep ==
  IInv /\ (VerifyReviews \/ \E i \in Ids, at \in Revisions : VerifyPull(i, at)) => IInv'
<1> SUFFICES ASSUME IInv, VerifyReviews \/ \E i \in Ids, at \in Revisions : VerifyPull(i, at)
             PROVE  IInv'
  OBVIOUS
<1>1. /\ UNCHANGED <<queue, copies, cmd, decided, shared, head, reviews, time, edits>>
      /\ turns' = turns \/ Turn
  BY DEF VerifyReviews, VerifyPull, Overlap, world
<1>2. /\ verify'.pc \in {"off", "reviews"} /\ verify'.now \in Times
      /\ verify'.pc = "reviews" => verify'.item \in [revision : Revisions, expires : Nat]
  <2>1. CASE VerifyReviews
    BY <2>1, QueueAssumption DEF VerifyReviews, Quiet, Times
  <2>2. ASSUME NEW i \in Ids, NEW at \in Revisions, VerifyPull(i, at)
        PROVE  /\ verify'.pc = "reviews" /\ verify'.now = time
               /\ verify'.item \in [revision : Revisions, expires : Nat]
    BY <2>2, ReadableItem DEF VerifyPull, IInv, TypeOK, Items
  <2> QED BY <2>1, <2>2 DEF IInv, TypeOK
<1>3. TypeOK'
  <2>1. turns' \in 0..MaxTurns
    BY <1>1, QueueAssumption DEF IInv, TypeOK, Turn
  <2> QED BY <1>1, <1>2, <2>1 DEF IInv, TypeOK, Readable
<1> QED BY <1>1, <1>3, OutsideKeeps

LEMMA GithubStep ==
  ASSUME IInv,
         \/ Push \/ Tick
         \/ \E who \in Accounts, state \in {"APPROVED", "CHANGES_REQUESTED", "COMMENTED"},
               commit \in Revisions : Review(who, state, commit)
         \/ \E k \in 1..Len(reviews) : Dismiss(k)
  PROVE  IInv'
<1> DEFINE Reviews == [by : Accounts, state : States, commit : Revisions, at : Times]
<1>1. UNCHANGED <<queue, copies, cmd, verify, decided, shared>> /\ edits' = edits
  BY DEF Push, Tick, Review, Dismiss
<1>2. turns' \in 0..MaxTurns
  <2>1. MaxTurns \in Nat /\ turns \in 0..MaxTurns
    BY QueueAssumption DEF IInv, TypeOK
  <2>2. turns' = turns \/ (turns < MaxTurns /\ turns' = turns + 1)
    BY DEF Push, Tick, Review, Dismiss, Turn
  <2> QED BY <2>1, <2>2
<1>3. head' \in Revisions /\ time' \in Times
  <2>1. /\ MaxRevision \in Nat /\ MaxTime \in Nat
        /\ head \in 1..MaxRevision /\ time \in 0..MaxTime
    BY QueueAssumption DEF IInv, TypeOK, Revisions, Times
  <2>2. /\ head' = head \/ (head < MaxRevision /\ head' = head + 1)
        /\ time' = time \/ (time < MaxTime /\ time' = time + 1)
    BY DEF Push, Tick, Review, Dismiss
  <2> QED BY <2>1, <2>2 DEF Revisions, Times
<1>4. reviews' \in Seq(Reviews)
  <2>1. reviews \in Seq(Reviews) /\ time \in Times
    BY DEF IInv, TypeOK
  <2>2. CASE Push \/ Tick
    BY <2>1, <2>2 DEF Push, Tick
  <2>3. ASSUME NEW who \in Accounts, NEW state \in {"APPROVED", "CHANGES_REQUESTED", "COMMENTED"},
               NEW commit \in Revisions, Review(who, state, commit)
        PROVE  reviews' \in Seq(Reviews)
    <3>1. [by |-> who, state |-> state, commit |-> commit, at |-> time] \in Reviews
      BY <2>1 DEF States
    <3> HIDE DEF Reviews
    <3> QED BY <2>1, <2>3, <3>1, AppendProperties DEF Review
  <2>4. ASSUME NEW k \in 1..Len(reviews), Dismiss(k)
        PROVE  reviews' \in Seq(Reviews)
    <3>1. reviews[k] \in Reviews
      BY <2>1, ElementOfSeq
    <3>2. [reviews[k] EXCEPT !.state = "DISMISSED"] \in Reviews
      BY <3>1 DEF States
    <3>3. reviews' = [reviews EXCEPT ![k] = [reviews[k] EXCEPT !.state = "DISMISSED"]]
      BY <2>4 DEF Dismiss
    <3> HIDE DEF Reviews
    <3> QED BY <2>1, <3>2, <3>3, ExceptSeq
  <2> QED BY <2>2, <2>3, <2>4
<1>5. TypeOK'
  BY <1>1, <1>2, <1>3, <1>4 DEF IInv, TypeOK, Readable
<1> QED BY <1>1, <1>5, OutsideKeeps

LEMMA EditStep == IInv /\ (\E i \in Ids : Edit(i)) => IInv'
<1> SUFFICES ASSUME IInv, NEW i \in Ids, Edit(i) PROVE IInv'
  OBVIOUS
<1>1. /\ UNCHANGED <<copies, cmd, verify, head, reviews, time, decided>>
      /\ edits' = edits + 1 /\ Readable(i) /\ queue[i].kind = "approval" /\ Share(i)
  BY DEF Edit
<1>2. queue[i] \in Items /\ Consistent(queue[i])
  BY <1>1, ReadableItem DEF IInv
<1>3. PICK item :
        /\ queue' = [queue EXCEPT ![i] = item]
        /\ \/ \E a \in Actions : item = [queue[i] EXCEPT !.action = a]
           \/ \E r \in Revisions : item = [queue[i] EXCEPT !.revision = r]
           \/ item = [queue[i] EXCEPT !.status = "approved", !.by = Owner]
           \/ \E j \in Ids :
                /\ Readable(j) /\ queue[j].signed # Unsigned
                /\ item = [queue[i] EXCEPT !.status = "approved", !.by = Owner,
                                           !.signed = queue[j].signed]
  <2>1. PICK item \in {[queue[i] EXCEPT !.action = a] : a \in Actions}
                \cup {[queue[i] EXCEPT !.revision = r] : r \in Revisions}
                \cup {[queue[i] EXCEPT !.status = "approved", !.by = Owner]}
                \cup {[queue[i] EXCEPT !.status = "approved", !.by = Owner, !.signed = s] :
                        s \in {queue[j].signed : j \in {j \in Ids : Readable(j)}} \ {Unsigned}} :
               queue' = [queue EXCEPT ![i] = item]
    BY Zenon DEF Edit
  <2>2. CASE item \in {[queue[i] EXCEPT !.status = "approved", !.by = Owner, !.signed = s] :
                        s \in {queue[j].signed : j \in {j \in Ids : Readable(j)}} \ {Unsigned}}
    <3>1. PICK s \in {queue[j].signed : j \in {j \in Ids : Readable(j)}} \ {Unsigned} :
               item = [queue[i] EXCEPT !.status = "approved", !.by = Owner, !.signed = s]
      BY <2>2
    <3>2. PICK j \in Ids : Readable(j) /\ s = queue[j].signed
      OBVIOUS
    <3> QED BY <2>1, <3>1, <3>2
  <2> QED BY <2>1, <2>2
<1>4. /\ item \in Items /\ item.kind = "approval"
      /\ item.signed # Unsigned => item.signed \in decided
      /\ \/ item.status = queue[i].status /\ item.by = queue[i].by
            /\ item.signed = queue[i].signed
         \/ item.status = "approved" /\ item.by = Owner
  <2>1. CASE \/ \E a \in Actions : item = [queue[i] EXCEPT !.action = a]
             \/ \E r \in Revisions : item = [queue[i] EXCEPT !.revision = r]
             \/ item = [queue[i] EXCEPT !.status = "approved", !.by = Owner]
    <3>1. /\ item \in Items /\ item.kind = "approval" /\ item.signed = queue[i].signed
          /\ \/ item.status = queue[i].status /\ item.by = queue[i].by
             \/ item.status = "approved" /\ item.by = Owner
      BY <1>1, <1>2, <2>1 DEF Items, Accounts
    <3> QED BY <1>1, <3>1 DEF IInv, SignedByOwner
  <2>2. ASSUME NEW j \in Ids, Readable(j), queue[j].signed # Unsigned,
               item = [queue[i] EXCEPT !.status = "approved", !.by = Owner,
                                       !.signed = queue[j].signed]
        PROVE  /\ item \in Items /\ item.kind = "approval" /\ item.signed \in decided
               /\ item.status = "approved" /\ item.by = Owner
    <3>1. queue[j].signed \in Records /\ queue[j].signed \in decided
      BY <2>2 DEF IInv, SignedByOwner, TypeOK
    <3> QED BY <1>1, <1>2, <2>2, <3>1 DEF Items, Accounts
  <2> QED BY <1>3, <2>1, <2>2
<1>5. Consistent(item)
  BY <1>1, <1>2, <1>4, AbsentAssumption DEF Consistent, Accounts
<1>6. queue'[i] = item /\ \A j \in Ids \ {i} : queue'[j] = queue[j]
  BY <1>3 DEF IInv, TypeOK
<1>7. /\ shared \subseteq shared' /\ shared' \subseteq Ids
      /\ \A q \in Procs : cmd[q].pc # "off" /\ cmd[q].id = i => i \in shared'
  BY <1>1 DEF IInv, TypeOK, Share, Held
<1>8. TypeOK'
  <2>1. queue' \in [Ids -> Items \cup {NoItem, Empty, Torn}]
    BY <1>3, <1>4 DEF IInv, TypeOK
  <2>2. \A j \in Ids : Readable(j)' => Consistent(queue'[j])
    BY <1>5, <1>6 DEF IInv, TypeOK, Readable
  <2>3. turns' \in 0..MaxTurns /\ edits' \in Nat
    <3>1. MaxTurns \in Nat /\ turns \in 0..MaxTurns /\ edits \in Nat
      BY QueueAssumption DEF IInv, TypeOK
    <3>2. turns < MaxTurns /\ turns' = turns + 1
      BY DEF Edit, Turn
    <3> QED BY <1>1, <3>1, <3>2
  <2> QED BY <1>1, <1>7, <2>1, <2>2, <2>3 DEF IInv, TypeOK, Readable, Consistent
<1>9. InHand'
  BY <1>1 DEF IInv, InHand
<1>10. SignedByOwner'
  BY <1>1, <1>4, <1>6 DEF IInv, SignedByOwner, Readable
<1>11. \A q \in Procs : cmd[q].pc # "off" /\ cmd[q].id \notin shared' =>
         cmd[q].id \in Ids /\ queue'[cmd[q].id] = queue[cmd[q].id]
  BY <1>6, <1>7 DEF IInv, InHand
<1>12. Alone'
  <2>1. \A q \in Procs : cmd[q].id \notin shared' =>
          /\ cmd[q].pc = "check" => queue'[cmd[q].id] = NoItem
          /\ cmd[q].pc \in Storing /\ queue'[cmd[q].id] # NoItem =>
               /\ queue'[cmd[q].id] \notin {NoItem, Empty, Torn}
               /\ Succeeds(cmd[q].item, queue'[cmd[q].id])
          /\ cmd[q].pc \in Writing => queue'[cmd[q].id] = Empty
    BY <1>7, <1>11 DEF IInv, Alone, Exists, Readable, Storing, Writing
  <2>2. \A q, r \in Procs :
          q # r /\ cmd[q].pc # "off" /\ cmd[r].pc # "off" /\ cmd[q].id = cmd[r].id =>
            cmd[q].id \in shared'
    BY <1>7 DEF IInv, Alone
  <2> QED BY <1>1, <2>1, <2>2 DEF Alone, Exists, Readable, Succeeds
<1>13. ItemFirst' /\ CopyIsTheItems'
  <2>1. edits' # 0
    BY <1>1 DEF IInv, TypeOK
  <2> QED BY <1>1, <2>1 DEF IInv, ItemFirst, CopyIsTheItems
<1> QED BY <1>8, <1>9, <1>10, <1>12, <1>13 DEF IInv

LEMMA NextIInv == IInv /\ [Next]_vars => IInv'
<1> SUFFICES ASSUME IInv, [Next]_vars PROVE IInv'
  OBVIOUS
<1>1. ASSUME NEW p \in Procs, Command(p) PROVE IInv'
  BY <1>1, AskLoadStep, AnswerLoadStep, ApproveLoadStep, AskCheckStep, OpenStep, FillStep,
     CopyStep, KillStep DEF Command
<1>2. CASE VerifyReviews \/ \E i \in Ids, at \in Revisions : VerifyPull(i, at)
  BY <1>2, VerifyStep
<1>3. CASE \/ Push \/ Tick
           \/ \E who \in Accounts, state \in {"APPROVED", "CHANGES_REQUESTED", "COMMENTED"},
                 commit \in Revisions : Review(who, state, commit)
           \/ \E k \in 1..Len(reviews) : Dismiss(k)
  BY <1>3, GithubStep
<1>4. CASE \E i \in Ids : Edit(i)
  BY <1>4, EditStep
<1>5. CASE UNCHANGED vars
  <2>1. TypeOK'
    BY <1>5 DEF IInv, TypeOK, vars, Readable
  <2> QED BY <1>5, <2>1, OutsideKeeps DEF vars
<1> QED BY <1>1, <1>2, <1>3, <1>4, <1>5 DEF Next

LEMMA Invariance == Spec => []IInv
<1> QED BY InitIInv, NextIInv, PTL DEF Spec

(***************************************************************************)
(* What the queue promises                                                 *)
(***************************************************************************)
\* tac approve: a copy in the controller store is the record of its item, in the file
\* or in the hand of the command that has the file open.
THEOREM CopiesFollowItems == Spec => []CopyIsTheItems
<1>1. IInv => CopyIsTheItems
  BY DEF IInv
<1> QED BY <1>1, Invariance, PTL

\* A step of a command that has its item alone takes nothing away, unless it is
\* its end in the middle of write_item.
LEMMA StepLosesNothing ==
  ASSUME IInv, [Next]_vars, edits' = edits, NEW i \in Ids \ shared'
  PROVE  /\ Exists(i) => Exists(i)'
         /\ \A was \in Standing(i) :
              \/ \E is \in Standing(i)' : Succeeds(is, was)
              \/ Writers(i) # {} /\ Standing(i)' = {}
<1>1. \A was \in Standing(i) : was \in Items
  BY ReadableItem DEF Standing, Writers, IInv, InHand, Writing
<1>2. \A was \in Standing(i) : Succeeds(was, was)
  BY <1>1 DEF Succeeds, Items
<1>3. ASSUME (Exists(i) => Exists(i)') /\ Standing(i)' = Standing(i)
      PROVE  /\ Exists(i) => Exists(i)'
             /\ \A was \in Standing(i) : \E is \in Standing(i)' : Succeeds(is, was)
  BY <1>2, <1>3
<1>4. ASSUME NEW p \in Procs, Open(p)
      PROVE  /\ Exists(i) => Exists(i)'
             /\ \A was \in Standing(i) : \E is \in Standing(i)' : Succeeds(is, was)
  <2>1. /\ cmd[p].pc \in Storing /\ shared' = shared
        /\ queue' = [queue EXCEPT ![cmd[p].id] = Empty]
        /\ \A q \in Procs \ {p} : cmd'[q] = cmd[q]
        /\ cmd'[p].pc \in Writing /\ cmd'[p].id = cmd[p].id /\ cmd'[p].item = cmd[p].item
    BY <1>4 DEF Open, Holds, Goto, Storing, Writing, IInv, TypeOK
  <2>2. CASE cmd[p].id # i
    <3>1. queue'[i] = queue[i]
      BY <2>1, <2>2 DEF IInv, TypeOK
    <3> QED BY <1>3, <2>1, <2>2, <3>1, SameStanding
  <2>3. CASE cmd[p].id = i
    <3>1. queue'[i] = Empty
      BY <2>1, <2>3 DEF IInv, TypeOK
    <3>2. cmd[p].item \in Standing(i)' /\ Exists(i)'
      BY <2>1, <2>3, <3>1, AbsentAssumption DEF Standing, Readable, Exists, Writers
    <3>3. Writers(i) = {} /\ (Exists(i) => Readable(i) /\ Succeeds(cmd[p].item, queue[i]))
      BY <2>1, <2>3, OnlyWriter DEF IInv, Alone, Storing, Writing
    <3>4. \A was \in Standing(i) : Succeeds(cmd[p].item, was)
      BY <3>3 DEF Standing, Readable, Exists
    <3> QED BY <3>2, <3>4
  <2> QED BY <2>2, <2>3
<1>5. ASSUME NEW p \in Procs, Fill(p)
      PROVE  (Exists(i) => Exists(i)') /\ Standing(i)' = Standing(i)
  <2>1. /\ cmd[p].pc \in Writing /\ shared' = shared
        /\ \A q \in Procs \ {p} : cmd'[q] = cmd[q]
        /\ cmd'[p].pc \in {"off", "copy"}
        /\ \/ queue' = [queue EXCEPT ![cmd[p].id] = cmd[p].item]
           \/ queue' = [queue EXCEPT ![cmd[p].id] = Torn]
    BY <1>5 DEF Fill, Holds, Goto, Ends, Off, IInv, TypeOK
  <2>2. CASE cmd[p].id # i
    <3>1. queue'[i] = queue[i]
      BY <2>1, <2>2 DEF IInv, TypeOK
    <3> QED BY <2>1, <2>2, <3>1, SameStanding DEF Writing
  <2>3. CASE cmd[p].id = i
    BY <1>5, <2>1, <2>3, FilledStands
  <2> QED BY <2>2, <2>3
<1>6. ASSUME NEW p \in Procs, Kill(p)
      PROVE  /\ Exists(i) => Exists(i)'
             /\ \/ Standing(i)' = Standing(i)
                \/ Standing(i)' = {} /\ Writers(i) # {}
  <2>1. shared' = shared
    BY <1>6 DEF Kill
  <2> QED BY <1>6, <2>1, KilledStands
<1>7. ASSUME NEW j \in Ids, Edit(j) PROVE FALSE
  <2>1. edits' = edits + 1
    BY <1>7 DEF Edit
  <2>2. edits \in Nat
    BY DEF IInv, TypeOK
  <2> QED BY <2>1, <2>2
<1>8. ASSUME queue' = queue,
             \A p \in Procs : \/ cmd'[p] = cmd[p]
                              \/ cmd[p].pc \notin Writing /\ cmd'[p].pc \notin Writing
      PROVE  (Exists(i) => Exists(i)') /\ Standing(i)' = Standing(i)
  BY <1>8, SameStanding
<1>9. ASSUME NEW p \in Procs, Command(p), ~Open(p), ~Fill(p), ~Kill(p)
      PROVE  /\ queue' = queue
             /\ \A q \in Procs : \/ cmd'[q] = cmd[q]
                                 \/ cmd[q].pc \notin Writing /\ cmd'[q].pc \notin Writing
  <2>1. queue' = queue /\ cmd[p].pc \notin Writing
    BY <1>9 DEF Command, AskLoad, AnswerLoad, ApproveLoad, Begin, AskCheck, Copy, Writing
  <2>2. cmd'[p].pc \notin Writing /\ \A q \in Procs \ {p} : cmd'[q] = cmd[q]
    <3>1. CASE AskCheck(p) \/ Copy(p)
      BY <3>1 DEF AskCheck, Copy, Goto, Ends, Off, Writing, IInv, TypeOK
    <3>2. ASSUME NEW pc \in {"check", "write", "sign"}, NEW id, NEW item, Begin(p, pc, id, item)
          PROVE  cmd'[p].pc \notin Writing /\ \A q \in Procs \ {p} : cmd'[q] = cmd[q]
      <4>1. cmd' = [cmd EXCEPT ![p] = [pc |-> pc, id |-> id, item |-> item]]
        BY <3>2 DEF Begin
      <4> QED BY <4>1 DEF Writing, IInv, TypeOK
    <3>3. CASE \E body \in Bodies : AskLoad(p, body)
      BY <3>2, <3>3 DEF AskLoad
    <3>4. CASE \E j \in Ids, who \in Accounts, close \in BOOLEAN : AnswerLoad(p, j, who, close)
      BY <3>2, <3>4 DEF AnswerLoad
    <3>5. CASE \E j \in Ids, decision \in {"approved", "rejected"} : ApproveLoad(p, j, decision)
      BY <3>2, <3>5 DEF ApproveLoad
    <3> QED BY <1>9, <3>1, <3>3, <3>4, <3>5 DEF Command
  <2> QED BY <2>1, <2>2
<1>10. CASE \E p \in Procs : Command(p)
  <2>1. PICK p \in Procs : Command(p)
    BY <1>10
  <2>2. CASE Open(p) \/ Fill(p)
    BY <1>3, <1>4, <1>5, <2>2
  <2>3. CASE Kill(p)
    BY <1>2, <1>6, <2>3
  <2>4. CASE ~Open(p) /\ ~Fill(p) /\ ~Kill(p)
    <3>1. (Exists(i) => Exists(i)') /\ Standing(i)' = Standing(i)
      BY <1>8, <1>9, <2>1, <2>4
    <3> QED BY <1>3, <3>1
  <2> QED BY <2>2, <2>3, <2>4
<1>11. CASE UNCHANGED <<queue, cmd>>
  <2>1. (Exists(i) => Exists(i)') /\ Standing(i)' = Standing(i)
    BY <1>8, <1>11
  <2> QED BY <1>3, <2>1
<1> QED BY <1>7, <1>10, <1>11
        DEF Next, vars, VerifyPull, VerifyReviews, Push, Tick, Review, Dismiss

\* write_item: short of edits by hand, of items two had at once and of a command
\* killed in the middle of it, no item, no answer and no decision is lost.
THEOREM QueueLosesNothing == Spec => NothingLost
<1>1. IInv /\ [Next]_vars =>
        [edits' = edits => \A i \in Ids \ shared' :
           /\ Exists(i) => Exists(i)'
           /\ \A was \in Standing(i) :
                \/ \E is \in Standing(i)' : Succeeds(is, was)
                \/ Writers(i) # {} /\ Standing(i)' = {}]_vars
  BY StepLosesNothing
<1> QED BY <1>1, Invariance, PTL DEF Spec, NothingLost

\* Both: nothing is lost, and what was signed is what was copied.
THEOREM ItemsKept == Spec => ItemsAreKept
BY QueueLosesNothing, CopiesFollowItems, PTL DEF ItemsAreKept

\* A signed record counts only for what the owner signed.
LEMMA SignedConsent ==
  ASSUME IInv, NEW i \in Ids, NEW at \in Revisions, Readable(i),
         VerifySigned(i, queue[i], at, time) = "approved"
  PROVE  \E d \in decided :
           /\ d.item = i /\ d.action = queue[i].action /\ d.revision = at
           /\ d.decision = "approved" /\ d.until > time
<1> DEFINE record == queue[i].signed
<1>1. /\ record # Unsigned /\ record.item = i /\ record.action = queue[i].action
      /\ record.revision = at /\ ~(record.until <= time) /\ record.decision = "approved"
  BY DEF VerifySigned, Pending
<1>2. record \in decided /\ record \in Records /\ time \in Nat
  BY <1>1, QueueAssumption DEF IInv, SignedByOwner, TypeOK, Times
<1>3. record.until \in Nat
  BY <1>2 DEF Records
<1> QED BY <1>1, <1>2, <1>3

\* A review counts only as the owner's last word on the head.
LEMMA ReviewConsent ==
  ASSUME IInv, verify.pc = "reviews",
         VerifyGithub(verify.item, verify.seen, reviews, verify.head, verify.now) = "approved"
  PROVE  /\ verify.item.revision = verify.head /\ verify.now < verify.item.expires
         /\ \E k \in 1..Len(reviews) :
              /\ reviews[k].by = Owner /\ reviews[k].state = "APPROVED"
              /\ reviews[k].commit = verify.head /\ reviews[k].at <= verify.item.expires
              /\ \A l \in (k + 1)..Len(reviews) :
                   reviews[l].by = Owner => reviews[l].state = "COMMENTED"
<1> DEFINE mine == OwnersOf(reviews)
           last == Max(mine)
<1>1. /\ verify.seen = verify.item.revision /\ verify.seen = verify.head /\ mine # {}
      /\ reviews[last].state \notin {"DISMISSED", "CHANGES_REQUESTED"}
      /\ ~(reviews[last].at > verify.item.expires) /\ ~(verify.item.expires <= verify.now)
      /\ reviews[last].commit = verify.seen
  BY DEF VerifyGithub, Pending
<1>2. /\ verify.now \in Nat /\ verify.item.expires \in Nat
      /\ reviews \in Seq([by : Accounts, state : States, commit : Revisions, at : Times])
  BY QueueAssumption DEF IInv, TypeOK, Times
<1>3. Len(reviews) \in Nat /\ mine \in SUBSET (0..Len(reviews))
  BY <1>2, LenProperties DEF OwnersOf
<1>4. last \in mine /\ \A k \in mine : last >= k
  BY <1>1, <1>3, Greatest
<1>5. /\ last \in 1..Len(reviews) /\ reviews[last].by = Owner
      /\ reviews[last].state = "APPROVED"
  BY <1>1, <1>4 DEF OwnersOf, Decisive
<1>6. \A k \in 1..Len(reviews) :
        reviews[k] \in [by : Accounts, state : States, commit : Revisions, at : Times]
  BY <1>2, ElementOfSeq
<1>7. reviews[last].at \in Nat
  BY <1>5, <1>6, QueueAssumption DEF Times
<1>8. \A l \in (last + 1)..Len(reviews) :
        reviews[l].by = Owner => reviews[l].state = "COMMENTED"
  <2> SUFFICES ASSUME NEW l \in (last + 1)..Len(reviews), reviews[l].by = Owner
               PROVE  reviews[l].state = "COMMENTED"
    OBVIOUS
  <2>1. l \in 1..Len(reviews) /\ l \notin mine
    BY <1>3, <1>4, <1>5
  <2> QED BY <1>6, <2>1 DEF OwnersOf, Decisive, States
<1> QED BY <1>1, <1>2, <1>5, <1>7, <1>8

\* human_verify: consent is the owner's, for this item, action and revision.
THEOREM ConsentByOwner == Spec => []ConsentIsTheOwners
<1>1. IInv => ConsentIsTheOwners
  BY SignedConsent, ReviewConsent DEF ConsentIsTheOwners
<1> QED BY <1>1, Invariance, PTL
=============================================================================
