----------------------------- MODULE OwnerQueue -----------------------------
(***************************************************************************)
(* The owner's queue (human.py, human_cli.py, approvals.py).  A command    *)
(* reads an item, changes it and writes all of it back, in place: the file *)
(* is emptied, then filled.  `tac approve` then leaves a copy of what it   *)
(* signed in the controller store.  Nothing locks the queue.               *)
(* `tac human verify` says whether an item carries the owner's             *)
(* answer for a revision: a record the runner's key signed, or the owner's *)
(* review on GitHub, whose answers to two calls may be apart.  Signatures  *)
(* do not come forged here; the page rendered from the items is left out.  *)
(***************************************************************************)
EXTENDS Naturals, Sequences, FiniteSets, FiniteSetsExt

CONSTANTS
  Procs,             \* commands under way at once
  Bodies,            \* what is asked: see Body
  Actions,           \* pipeline, stage, tool, arguments and pull request, as one
  Owner, Bot,        \* accounts: the repository's owner, agent_identity
  Author,            \* of the pull request
  Nobody, Unsigned, None,
  NoItem, Empty, Torn, \* what a file holds that holds no item: see queue
  Ttl, MaxItems, MaxTime, MaxRevision, MaxAnswers,
  MaxTurns           \* pushes, reviews, dismissals, edits by hand, kills, overlaps of
                     \* commands on an item or with a verify, together

Ids == 1..MaxItems          \* Q1, Q2, ... and, for an escalation, H1, ...
Revisions == 1..MaxRevision
Times == 0..MaxTime
States == {"APPROVED", "CHANGES_REQUESTED", "COMMENTED", "DISMISSED"}
Never == MaxTime + Ttl + 1
Accounts == {Owner, Bot, Author}

\* source is the escalation of `tac handoff validate` an item was made from.
Body == [kind : {"question", "approval"}, action : Actions, revision : Revisions,
         pull : BOOLEAN, lasts : Nat, source : Nat \cup {None}]

ASSUME QueueAssumption ==
  /\ Bodies \subseteq Body
  /\ Ttl \in Nat \ {0}
  /\ {MaxItems, MaxTime, MaxAnswers, MaxTurns} \subseteq Nat
  /\ MaxRevision \in Nat \ {0}

VARIABLES
  queue,    \* .human/approvals: per id an item; NoItem without a file; Empty, or Torn:
            \* part of an item, or of two
  copies,   \* the controller store's copies of signed records
  cmd,      \* per process: step, item it works on, what it will write
  verify,   \* the one `tac human verify` that asks GitHub
  head, reviews, \* the pull request
  time, edits, turns,
  decided,  \* history: what the owner signed, written down or not
  shared    \* history: items two commands, or a command and an editor, had at once

vars == <<queue, copies, cmd, verify, head, reviews, time, edits, turns, decided, shared>>
world == <<head, reviews, time, edits, turns>>

Turn == turns < MaxTurns /\ turns' = turns + 1
Overlap(is) == IF is THEN Turn ELSE UNCHANGED turns
Exists(i) == queue[i] # NoItem
Readable(i) == queue[i] \notin {NoItem, Empty, Torn}
NextId == Max({0} \cup {i \in Ids : Exists(i)}) + 1

\* A command has the file of its item open.
Writing == {"writing", "signing"}
Steps == {"off", "check", "write", "sign", "copy"} \cup Writing

Off == [pc |-> "off", id |-> 0, item |-> NoItem]
Quiet == [pc |-> "off", item |-> NoItem, head |-> 0, now |-> 0, seen |-> 0]

\* What sign_approval writes, and an item of the queue.
Records == [item : Ids, action : Actions, revision : Revisions, by : {Owner},
            decision : {"approved", "rejected"}, until : Nat]
Items == [kind : {"question", "approval"}, action : Actions, revision : Revisions,
          pull : BOOLEAN, source : Nat \cup {None}, expires : Nat,
          status : {"pending", "answered", "approved", "rejected"},
          by : Accounts \cup {Nobody}, answers : Nat, signed : Records \cup {Unsigned}]

ASSUME AbsentAssumption ==
  /\ {NoItem, Empty, Torn} \cap Items = {} /\ NoItem \notin {Empty, Torn} /\ Empty # Torn
  /\ Unsigned \notin Records /\ Nobody \notin Accounts

\* Item's own validators.
Consistent(item) ==
  /\ item.status = "pending" <=> item.by = Nobody
  /\ item.status = "answered" => item.kind = "question"
  /\ item.signed # Unsigned => item.kind = "approval" /\ item.status # "pending"

TypeOK ==
  /\ queue \in [Ids -> Items \cup {NoItem, Empty, Torn}]
  /\ \A i \in Ids : Readable(i) => Consistent(queue[i])
  /\ cmd \in [Procs -> [pc : Steps, id : Ids \cup {0}, item : Items \cup {NoItem}]]
  /\ verify.pc \in {"off", "reviews"} /\ verify.now \in Times
  /\ verify.pc = "reviews" => verify.item \in [revision : Revisions, expires : Nat]
  /\ reviews \in Seq([by : Accounts, state : States, commit : Revisions, at : Times])
  /\ head \in Revisions /\ time \in Times /\ turns \in 0..MaxTurns /\ edits \in Nat
  /\ decided \subseteq Records /\ copies \subseteq Records /\ shared \subseteq Ids

Init ==
  /\ queue = [i \in Ids |-> NoItem] /\ copies = {}
  /\ cmd = [p \in Procs |-> Off] /\ verify = Quiet
  /\ head = 1 /\ reviews = <<>>
  /\ time = 0 /\ edits = 0 /\ turns = 0 /\ decided = {} /\ shared = {}

\* Somebody is between reading the item and writing it.
Held(id) == \E p \in Procs : cmd[p].pc # "off" /\ cmd[p].id = id
Share(id) == shared' = IF Held(id) THEN shared \cup {id} ELSE shared

Begin(p, pc, id, item) ==
  /\ cmd[p].pc = "off" /\ Share(id)
  /\ Overlap(Held(id) \/ verify.pc # "off")
  /\ cmd' = [cmd EXCEPT ![p] = [pc |-> pc, id |-> id, item |-> item]]
  /\ UNCHANGED <<queue, copies, verify, head, reviews, time, edits>>

Goto(p, pc) == cmd' = [cmd EXCEPT ![p].pc = pc]
Ends(p) == cmd' = [cmd EXCEPT ![p] = Off]

(***************************************************************************)
(* tac human ask, answer, render; tac approve                              *)
(***************************************************************************)
\* All items are read, and one that cannot be refuses; an escalation already
\* queued is refused.
AskLoad(p, body) ==
  /\ NextId \in Ids /\ \A i \in Ids : Exists(i) => Readable(i)
  /\ body.source # None => \A i \in Ids : Exists(i) => queue[i].source # body.source
  /\ Begin(p, "check", NextId,
       [kind |-> body.kind, action |-> body.action, revision |-> body.revision,
        pull |-> body.pull, source |-> body.source,
        expires |-> IF body.lasts = 0 THEN Never ELSE time + body.lasts,
        status |-> "pending", by |-> Nobody, answers |-> 0, signed |-> Unsigned])
  /\ UNCHANGED decided

\* ask: an id already in the queue is refused.
AskCheck(p) ==
  /\ cmd[p].pc = "check"
  /\ IF Exists(cmd[p].id) THEN Ends(p) ELSE Goto(p, "write")
  /\ UNCHANGED <<queue, copies, verify, world, decided, shared>>

\* Mutant: an answer closes whatever it answers.
ClosesAlways(item) == TRUE
\* answer: an approval never closes on it, and what is decided stays decided.
Closes(item) == item.kind # "approval" /\ item.status = "pending"

AnswerLoad(p, i, who, close) ==
  /\ Readable(i) /\ who # Bot /\ queue[i].answers < MaxAnswers
  /\ LET more == [queue[i] EXCEPT !.answers = @ + 1] IN
     Begin(p, "write", i, IF close /\ Closes(queue[i])
                          THEN [more EXCEPT !.status = "answered", !.by = who]
                          ELSE more)
  /\ UNCHANGED decided

\* sign_approval
Signed(i, item, decision) ==
  [item |-> i, action |-> item.action, revision |-> item.revision, by |-> Owner,
   decision |-> decision,
   until |-> IF item.expires < time + Ttl THEN item.expires ELSE time + Ttl]

\* approve: on the host, in the owner's own terminal.
ApproveLoad(p, i, decision) ==
  LET item == queue[i] IN
  /\ Readable(i) /\ item.kind = "approval" /\ item.status = "pending"
  /\ Owner # Bot /\ item.expires > time
  /\ Begin(p, "sign", i, [item EXCEPT !.status = decision, !.by = Owner,
                                      !.signed = Signed(i, item, decision)])
  /\ decided' = decided \cup {Signed(i, item, decision)}

Holds(i, content) == queue' = [queue EXCEPT ![i] = content]

\* write_item opens the file, which empties it,
Open(p) ==
  /\ cmd[p].pc \in {"write", "sign"}
  /\ Holds(cmd[p].id, Empty)
  /\ Goto(p, IF cmd[p].pc = "sign" THEN "signing" ELSE "writing")
  /\ UNCHANGED <<copies, verify, world, decided, shared>>

\* and writes the whole item; over what another wrote since, the end of that may
\* stay.  What was signed has still to be copied.
Fill(p) ==
  /\ cmd[p].pc \in Writing
  /\ \/ Holds(cmd[p].id, cmd[p].item)
     \/ queue[cmd[p].id] # Empty /\ Holds(cmd[p].id, Torn)
  /\ IF cmd[p].pc = "signing" THEN Goto(p, "copy") ELSE Ends(p)
  /\ UNCHANGED <<copies, verify, world, decided, shared>>

\* A copy under a name of its own: the item's and the approval's id.
Copy(p) ==
  /\ cmd[p].pc = "copy"
  /\ copies' = copies \cup {cmd[p].item.signed}
  /\ Ends(p)
  /\ UNCHANGED <<queue, verify, world, decided, shared>>

\* In the middle of write_item too, with none or some of the item written.
Kill(p) ==
  /\ cmd[p].pc # "off" /\ Ends(p)
  /\ Turn
  /\ UNCHANGED queue \/ (cmd[p].pc \in Writing /\ Holds(cmd[p].id, Torn))
  /\ UNCHANGED <<copies, verify, head, reviews, time, edits, decided, shared>>

(***************************************************************************)
(* tac human verify                                                        *)
(***************************************************************************)
Pending == "waiting"   \* _pending: a timeout is not consent

\* Mutant: the signature stands for the item, whatever it asks now.
VerifySignedById(i, item, at, now) ==
  IF item.signed = Unsigned THEN IF item.status # "pending" THEN "refused" ELSE Pending
  ELSE IF item.signed.item # i \/ item.signed.until <= now \/ item.signed.revision # at
  THEN "refused" ELSE item.signed.decision

\* verify_signed, for the revision about to be acted on.
VerifySigned(i, item, at, now) ==
  LET record == item.signed IN
  IF record = Unsigned
  THEN IF item.status # "pending" THEN "refused" ELSE Pending
  ELSE IF \/ record.item # i
          \/ record.action # item.action
          \/ record.revision # item.revision \/ record.revision # at
          \/ record.by = Bot
          \/ record.until <= now
  THEN "refused" ELSE record.decision

Decisive == {"APPROVED", "CHANGES_REQUESTED", "DISMISSED"}
OwnersOf(list) ==
  {k \in 1..Len(list) : list[k].by = Owner /\ list[k].state \in Decisive}
SelfApproved(list) ==
  \E k \in 1..Len(list) : list[k].state = "APPROVED" /\ list[k].by \in {Bot, Author}

\* verify_github: the latest decision of the repository's owner on the head.
VerifyGithub(item, seen, list, at, now) ==
  LET mine == OwnersOf(list)  latest == list[Max(mine)] IN
  CASE Owner = Bot \/ seen # item.revision \/ seen # at \/ Author = Owner -> "refused"
    [] OTHER ->
       IF mine = {} THEN IF SelfApproved(list) THEN "refused" ELSE Pending
       ELSE IF latest.state = "DISMISSED" THEN Pending
       ELSE IF latest.at > item.expires \/ item.expires <= now THEN "refused"
       ELSE IF latest.commit # seen THEN "refused"
       ELSE IF latest.state = "CHANGES_REQUESTED" THEN "rejected" ELSE "approved"

\* human_verify: a signed record is judged by itself and at once; else the pull
\* request is read, then its reviews.
AsksGithub(item) == item.signed = Unsigned /\ item.pull

VerifyPull(i, at) ==
  /\ verify.pc = "off" /\ Readable(i) /\ AsksGithub(queue[i])
  /\ verify' = [pc |-> "reviews", item |-> [revision |-> queue[i].revision,
                                            expires |-> queue[i].expires],
                head |-> at, now |-> time, seen |-> head]
  /\ Overlap(\E p \in Procs : cmd[p].pc # "off")
  /\ UNCHANGED <<queue, copies, cmd, head, reviews, time, edits, decided, shared>>

VerifyReviews ==
  /\ verify.pc = "reviews" /\ verify' = Quiet
  /\ UNCHANGED <<queue, copies, cmd, world, decided, shared>>

(***************************************************************************)
(* The owner on GitHub, whoever pushes, hands on the files, the clock      *)
(***************************************************************************)
Push ==
  /\ head < MaxRevision /\ head' = head + 1 /\ Turn
  /\ UNCHANGED <<queue, copies, cmd, verify, reviews, time, edits, decided, shared>>

\* Of the head, or of the revision the page still showed; of others only an
\* approval tells.
Review(who, state, commit) ==
  /\ Turn /\ commit <= head
  /\ who # Owner => state = "APPROVED"
  /\ \E i \in Ids : Readable(i) /\ queue[i].pull
  /\ reviews' = Append(reviews, [by |-> who, state |-> state, commit |-> commit, at |-> time])
  /\ UNCHANGED <<queue, copies, cmd, verify, head, time, edits, decided, shared>>

Dismiss(k) ==
  /\ Turn
  /\ reviews[k].state \in {"APPROVED", "CHANGES_REQUESTED"}
  /\ reviews' = [reviews EXCEPT ![k].state = "DISMISSED"]
  /\ UNCHANGED <<queue, copies, cmd, verify, head, time, edits, decided, shared>>

\* An item edited by hand: another action or revision, a ticked box, the record
\* of another item.
Edit(i) ==
  /\ Readable(i) /\ queue[i].kind = "approval" /\ Share(i) /\ Turn
  /\ \E item \in {[queue[i] EXCEPT !.action = a] : a \in Actions}
              \cup {[queue[i] EXCEPT !.revision = r] : r \in Revisions}
              \cup {[queue[i] EXCEPT !.status = "approved", !.by = Owner]}
              \cup {[queue[i] EXCEPT !.status = "approved", !.by = Owner, !.signed = s] :
                      s \in {queue[j].signed : j \in {j \in Ids : Readable(j)}} \ {Unsigned}} :
       item # queue[i] /\ queue' = [queue EXCEPT ![i] = item]
  /\ edits' = edits + 1
  /\ UNCHANGED <<copies, cmd, verify, head, reviews, time, decided>>

Tick ==
  /\ time < MaxTime /\ time' = time + 1
  /\ UNCHANGED <<queue, copies, cmd, verify, head, reviews, edits, turns, decided, shared>>

Command(p) ==
  \/ \E body \in Bodies : AskLoad(p, body)
  \/ \E i \in Ids, who \in Accounts, close \in BOOLEAN : AnswerLoad(p, i, who, close)
  \/ \E i \in Ids, decision \in {"approved", "rejected"} : ApproveLoad(p, i, decision)
  \/ AskCheck(p) \/ Open(p) \/ Fill(p) \/ Copy(p) \/ Kill(p)

Next ==
  \/ \E p \in Procs : Command(p)
  \/ \E i \in Ids, at \in Revisions : VerifyPull(i, at)
  \/ VerifyReviews
  \/ Push \/ Tick
  \/ \E who \in Accounts, state \in {"APPROVED", "CHANGES_REQUESTED", "COMMENTED"},
        commit \in Revisions : Review(who, state, commit)
  \/ \E k \in 1..Len(reviews) : Dismiss(k)
  \/ \E i \in Ids : Edit(i)

Spec == Init /\ [][Next]_vars

(***************************************************************************)
(* Properties                                                              *)
(***************************************************************************)
\* An answer counts as approval only when the owner decided so for this very
\* item, action and revision and the decision still holds: signed on the host,
\* or the latest review on the head that is about to be acted on.
ConsentIsTheOwners ==
  /\ \A i \in Ids, at \in Revisions :
       /\ Readable(i) /\ ~AsksGithub(queue[i])
       /\ VerifySigned(i, queue[i], at, time) = "approved"
       => \E d \in decided :
            /\ d.item = i /\ d.action = queue[i].action /\ d.revision = at
            /\ d.decision = "approved" /\ d.until > time
  /\ /\ verify.pc = "reviews"
     /\ VerifyGithub(verify.item, verify.seen, reviews, verify.head, verify.now) = "approved"
     => /\ verify.item.revision = verify.head /\ verify.now < verify.item.expires
        /\ \E k \in 1..Len(reviews) :
             /\ reviews[k].by = Owner /\ reviews[k].state = "APPROVED"
             /\ reviews[k].commit = verify.head /\ reviews[k].at <= verify.item.expires
             /\ \A l \in (k + 1)..Len(reviews) :
                  reviews[l].by = Owner => reviews[l].state = "COMMENTED"

\* The item of a file, or of the command that has the file open.
Writers(i) == {p \in Procs : cmd[p].pc \in Writing /\ cmd[p].id = i}
Standing(i) == IF Readable(i) THEN {queue[i]} ELSE {cmd[p].item : p \in Writers(i)}

\* What may come after an item without a loss.
Succeeds(is, was) ==
  /\ is.source = was.source /\ is.answers >= was.answers
  /\ was.status # "pending" => is.status = was.status /\ is.by = was.by /\ is.signed = was.signed

\* The queue only grows, short of an edit by hand, of an item two commands had at
\* once, and of one whose writer is killed in the middle of write_item: no item
\* goes, no answer goes, what is decided stays as it was decided.
NothingLost ==
  [][edits' = edits => \A i \in Ids \ shared' :
       /\ Exists(i) => Exists(i)'
       /\ \A was \in Standing(i) :
            \/ \E is \in Standing(i)' : Succeeds(is, was)
            \/ Writers(i) # {} /\ Standing(i)' = {}]_vars

\* Wherever a command is killed, a copy in the controller store is the record of
\* its item, as long as that is there to be read or written, so an item is signed
\* once; but for the same items.
CopyIsTheItems ==
  edits = 0 => \A record \in copies : record.item \notin shared =>
    /\ Exists(record.item)
    /\ \A is \in Standing(record.item) : is.signed = record

\* The docstring of ask (human.py:497): an id already in the queue is never
\* overwritten.  Two asks may both find an id free before either writes it.
NeverOverwritten ==
  [][\A p \in Procs :
       /\ cmd[p].pc = "write" /\ cmd[p].item.answers = 0 \* what ask writes, and no other
       /\ cmd'[p].pc = "writing"
       => ~Exists(cmd[p].id)]_vars

\* write_item of human.py, approve of approvals.py: what the queue and the
\* controller store hold is neither lost nor at odds, wherever a command is killed
\* but with a file of the queue open.
ItemsAreKept == NothingLost /\ []CopyIsTheItems
=============================================================================
