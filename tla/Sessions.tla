------------------------------ MODULE Sessions ------------------------------
(***************************************************************************)
(* The session journal (session.py): one file per session and day, a       *)
(* roll-up of each day, and a purge that moves a session aside and audits  *)
(* the move.  `tac session log` holds the day's lock and `tac session      *)
(* purge` the root's, so the two interleave; both write the day's index    *)
(* through one temporary file.  An open file stays open when it is moved.  *)
(***************************************************************************)
EXTENDS Naturals, Sequences, FiniteSets, Functions

CONSTANTS
  Procs, Days,
  Sessions,              \* ids, as sequences: <<"a">> is a, <<"a", 2>> is a.2
  Held,                  \* which session runs on which day
  Absent, Torn, Nobody,
  MaxEvents, MaxPurges, MaxKills

ASSUME SessionsAssumption ==
  /\ Held \subseteq Days \X Sessions /\ Days \subseteq Nat
  /\ Absent \notin Seq(Nat \cup {Torn}) \cup [Sessions -> SUBSET Nat]
  /\ Torn \notin Nat /\ Nobody \notin Procs
  /\ {MaxEvents, MaxPurges, MaxKills} \subseteq Nat

VARIABLES
  files,     \* sessions/<day>/<id>.jsonl and sessions/_purged/<day>/<id>.jsonl
  audit,     \* _purges.jsonl
  index, tmp,   \* per day: _index.json, and the file it is replaced from
  dayLock, rootLock,
  cmd,       \* per process: the command under way
  made, purges, kills,
  crossed    \* history: days whose last command met another, or was killed

vars == <<files, audit, index, tmp, dayLock, rootLock, cmd, made, purges, kills, crossed>>

\* The name a session takes under _purged/ the nth time.
Named(s, n) == IF n = 1 THEN s ELSE Append(s, n)
Names == {Named(s, n) : s \in Sessions, n \in 1..MaxPurges}
Live(d, s) == <<"live", d, s>>
Purged(d, s) == <<"purged", d, s>>
Places ==
  {Live(d, s) : d \in Days, s \in Sessions} \cup {Purged(d, s) : d \in Days, s \in Names}

Exists(at) == files[at] # Absent
Whole(lines) == Range(lines) \ {Torn}   \* _read

\* day_index: a session without a whole line, {} here, is left out.
Rolled(d) ==
  [s \in Sessions |-> IF Exists(Live(d, s)) THEN Whole(files[Live(d, s)]) ELSE {}]
NoneRolled == [s \in Sessions |-> {}]

Off == [pc |-> "off", day |-> Nobody, session |-> Nobody, at |-> Nobody,
        todo |-> {}, data |-> <<>>, rolled |-> NoneRolled]

Lines == Seq(Nat \cup {Torn})
RollUps == [Sessions -> SUBSET Nat]
Command ==
  [pc : {"off", "lock", "look", "write", "roll", "tmp", "replace",
         "root", "read", "move", "audit", "rollP", "tmpP", "replaceP"},
   day : Days \cup {Nobody}, session : Sessions \cup {Nobody},
   at : Places \cup {Nobody}, todo : SUBSET Days, data : Lines, rolled : RollUps]

TypeOK ==
  /\ files \in [Places -> Lines \cup {Absent}]
  /\ audit \in Seq([to : Places, sha : Lines])
  /\ index \in [Days -> RollUps] /\ tmp \in [Days -> RollUps \cup {Absent}]
  /\ dayLock \in [Days -> Procs \cup {Nobody}] /\ rootLock \in Procs \cup {Nobody}
  /\ cmd \in [Procs -> Command]
  /\ made \in Nat /\ purges \in Nat /\ kills \in Nat /\ crossed \subseteq Days

Init ==
  /\ files = [at \in Places |-> Absent] /\ audit = <<>>
  /\ index = [d \in Days |-> NoneRolled] /\ tmp = [d \in Days |-> Absent]
  /\ dayLock = [d \in Days |-> Nobody] /\ rootLock = Nobody
  /\ cmd = [p \in Procs |-> Off]
  /\ made = 0 /\ purges = 0 /\ kills = 0 /\ crossed = {}

Goto(p, pc) == cmd' = [cmd EXCEPT ![p].pc = pc]
Counters == <<made, purges, kills, crossed>>
Disk == <<files, audit, index, tmp>>
Locks == <<dayLock, rootLock>>

\* A command ends, by itself or by an error: what it locked is free.
Released(p) ==
  /\ cmd' = [cmd EXCEPT ![p] = Off]
  /\ dayLock' = [d \in Days |-> IF dayLock[d] = p THEN Nobody ELSE dayLock[d]]
  /\ rootLock' = IF rootLock = p THEN Nobody ELSE rootLock

\* Who is between the first and the last change to a day's files, under its lock
\* or under the root's.
LogsOn(d) ==
  {p \in Procs : cmd[p].day = d /\ cmd[p].pc \in {"look", "write", "roll", "tmp", "replace"}}
PurgesOn(d) ==
  {p \in Procs : cmd[p].day = d /\ cmd[p].pc \in {"audit", "rollP", "tmpP", "replaceP"}}

\* A command begins on a day, alone or beside those under the other lock.
Beside(d, others) == crossed' = IF others = {} THEN crossed \ {d} ELSE crossed \cup {d}

(***************************************************************************)
(* tac session log                                                         *)
(***************************************************************************)
Logging == {p \in Procs : cmd[p].pc \in {"lock", "look", "write"}}

LogStart(p, d, s) ==
  /\ <<d, s>> \in Held
  /\ cmd[p].pc = "off" /\ made + Cardinality(Logging) < MaxEvents
  /\ cmd' = [cmd EXCEPT ![p] = [Off EXCEPT !.pc = "lock", !.day = d, !.session = s]]
  /\ UNCHANGED <<Disk, Locks, Counters>>

\* Under the day's lock, append_line opens the file, creating it, and from then on
\* holds that file; the look for a torn last line goes by its name; then it writes.
LogOpen(p) ==
  LET d == cmd[p].day  at == Live(d, cmd[p].session) IN
  /\ cmd[p].pc = "lock" /\ dayLock[d] = Nobody
  /\ dayLock' = [dayLock EXCEPT ![d] = p]
  /\ Beside(d, PurgesOn(d))
  /\ files' = [files EXCEPT ![at] = IF @ = Absent THEN <<>> ELSE @]
  /\ cmd' = [cmd EXCEPT ![p].pc = "look", ![p].at = at]
  /\ UNCHANGED <<audit, index, tmp, rootLock, made, purges, kills>>

LogLook(p) ==
  /\ cmd[p].pc = "look"
  /\ IF Exists(Live(cmd[p].day, cmd[p].session))
     THEN Goto(p, "write") /\ UNCHANGED Locks ELSE Released(p)
  /\ UNCHANGED <<Disk, Counters>>

LogWrite(p) ==
  /\ cmd[p].pc = "write"
  /\ made' = made + 1
  /\ files' = [files EXCEPT ![cmd[p].at] = Append(@, made + 1)]
  /\ Goto(p, "roll")
  /\ UNCHANGED <<audit, index, tmp, Locks, purges, kills, crossed>>

(***************************************************************************)
(* write_day_index, under whichever lock                                   *)
(***************************************************************************)
Roll(p) ==
  /\ cmd[p].pc \in {"roll", "rollP"}
  /\ cmd' = [cmd EXCEPT ![p].pc = IF @ = "roll" THEN "tmp" ELSE "tmpP",
                        ![p].rolled = Rolled(cmd[p].day)]
  /\ UNCHANGED <<Disk, Locks, Counters>>

WriteTmp(p) ==
  /\ cmd[p].pc \in {"tmp", "tmpP"}
  /\ tmp' = [tmp EXCEPT ![cmd[p].day] = cmd[p].rolled]
  /\ Goto(p, IF cmd[p].pc = "tmp" THEN "replace" ELSE "replaceP")
  /\ UNCHANGED <<files, audit, index, Locks, Counters>>

\* Mutant: a purge leaves the roll-up to the next log of the day.
ReplaceByLog(p) ==
  LET d == cmd[p].day IN
  /\ cmd[p].pc \in {"replace", "replaceP"}
  /\ IF cmd[p].pc = "replace" THEN index' = [index EXCEPT ![d] = tmp[d]] ELSE UNCHANGED index
  /\ tmp' = [tmp EXCEPT ![d] = Absent]
  /\ Released(p)
  /\ UNCHANGED <<files, audit, Counters>>

\* os.replace: with the temporary file gone, the command ends in an error.
Replace(p) ==
  LET d == cmd[p].day IN
  /\ cmd[p].pc \in {"replace", "replaceP"}
  /\ IF tmp[d] = Absent THEN Released(p) /\ UNCHANGED <<index, tmp>>
     ELSE /\ index' = [index EXCEPT ![d] = tmp[d]] /\ tmp' = [tmp EXCEPT ![d] = Absent]
          /\ IF cmd[p].pc = "replace" \/ cmd[p].todo = {} THEN Released(p)
             ELSE Goto(p, "read") /\ UNCHANGED Locks
  /\ UNCHANGED <<files, audit, Counters>>

(***************************************************************************)
(* tac session purge                                                       *)
(***************************************************************************)
\* _session_files, before the lock is taken.
PurgeFind(p, s) ==
  LET found == {d \in Days : Exists(Live(d, s))} IN
  /\ cmd[p].pc = "off" /\ purges < MaxPurges /\ found # {}
  /\ purges' = purges + 1
  /\ cmd' = [cmd EXCEPT ![p] = [Off EXCEPT !.pc = "root", !.session = s, !.todo = found]]
  /\ UNCHANGED <<Disk, Locks, made, kills, crossed>>

\* Under the root's lock, file by file, the earliest day first.  One that another
\* purge moved meanwhile ends this one in an error.
PurgeRead(p, d) ==
  LET at == Live(d, cmd[p].session) IN
  /\ cmd[p].pc = "read" \/ (cmd[p].pc = "root" /\ rootLock = Nobody)
  /\ d \in cmd[p].todo /\ \A e \in cmd[p].todo : d <= e
  /\ IF Exists(at)
     THEN /\ cmd' = [cmd EXCEPT ![p].pc = "move", ![p].day = d, ![p].todo = @ \ {d},
                                ![p].data = files[at]]
          /\ rootLock' = p /\ UNCHANGED dayLock
     ELSE Released(p)
  /\ UNCHANGED <<Disk, Counters>>

\* Mutant: always the session's own name.
FreeNameFirst(d, s, n) == n = 1
\* The session's first name that nobody has under _purged/.  A day has had fewer
\* than MaxPurges files moved, so one of the first MaxPurges names is free.
FreeName(d, s, n) ==
  /\ ~Exists(Purged(d, Named(s, n)))
  /\ \A m \in 1..(n - 1) : Exists(Purged(d, Named(s, m)))

\* The rename carries along whoever has the file open.
PurgeMove(p, n) ==
  LET d == cmd[p].day  at == Live(d, cmd[p].session)  to == Purged(d, Named(cmd[p].session, n)) IN
  /\ cmd[p].pc = "move" /\ FreeName(d, cmd[p].session, n)
  /\ files' = [files EXCEPT ![to] = files[at], ![at] = Absent]
  /\ cmd' = [q \in Procs |->
       IF q = p THEN [cmd[p] EXCEPT !.pc = "audit", !.at = to]
       ELSE IF cmd[q].at = at THEN [cmd[q] EXCEPT !.at = to] ELSE cmd[q]]
  /\ Beside(d, LogsOn(d))
  /\ UNCHANGED <<audit, index, tmp, Locks, made, purges, kills>>

PurgeAudit(p) ==
  /\ cmd[p].pc = "audit"
  /\ audit' = Append(audit, [to |-> cmd[p].at, sha |-> cmd[p].data])
  /\ Goto(p, "rollP")
  /\ UNCHANGED <<files, index, tmp, Locks, Counters>>

(***************************************************************************)
(* Kills                                                                   *)
(***************************************************************************)
Kill(p) ==
  /\ cmd[p].pc # "off" /\ kills < MaxKills
  /\ kills' = kills + 1 /\ Released(p)
  /\ \/ UNCHANGED files
     \/ cmd[p].pc = "write" /\ files' = [files EXCEPT ![cmd[p].at] = Append(@, Torn)]
  /\ crossed' = crossed \cup {d \in Days : p \in LogsOn(d) \cup PurgesOn(d)}
  /\ UNCHANGED <<audit, index, tmp, made, purges>>

Log(p) == LogOpen(p) \/ LogLook(p) \/ LogWrite(p)
Purge(p) ==
  \/ \E d \in Days : PurgeRead(p, d)
  \/ \E n \in 1..MaxPurges : PurgeMove(p, n)
  \/ PurgeAudit(p)
DayIndex(p) == Roll(p) \/ WriteTmp(p) \/ Replace(p)

Next == \E p \in Procs :
  \/ \E s \in Sessions : PurgeFind(p, s) \/ \E d \in Days : LogStart(p, d, s)
  \/ Log(p) \/ Purge(p) \/ DayIndex(p) \/ Kill(p)

Spec == Init /\ [][Next]_vars

(***************************************************************************)
(* Properties                                                              *)
(***************************************************************************)
Begins(sha, lines) == Len(sha) <= Len(lines) /\ \A i \in 1..Len(sha) : sha[i] = lines[i]
Holding(e) == {at \in Places : Exists(at) /\ e \in Range(files[at])}

\* However logs, purges and kills interleave, every event that was written is in
\* exactly one file, of the journal or under _purged/, in the order written; and
\* what an audit line vouches for is still at the place it names, at most grown
\* by a log that had the file open.
NothingDeleted ==
  /\ \A e \in 1..made : \E at \in Holding(e) : Holding(e) = {at}
  /\ \A at \in Places : Exists(at) =>
       \A i, j \in 1..Len(files[at]) :
         i < j /\ files[at][i] # Torn /\ files[at][j] # Torn => files[at][i] < files[at][j]
  /\ \A k \in 1..Len(audit) : Exists(audit[k].to) /\ Begins(audit[k].sha, files[audit[k].to])

\* Whatever came before on a day: once a log or a purge of it ran to its end, and
\* none of the other kind met it and nobody killed it, the roll-up says what the
\* day's journal holds.
IndexIsTheDays ==
  \A d \in Days \ crossed : LogsOn(d) \cup PurgesOn(d) = {} => index[d] = Rolled(d)
=============================================================================
