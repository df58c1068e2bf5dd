--------------------------- MODULE SessionsProofs ---------------------------
(***************************************************************************)
(* Proofs about Sessions for any number of processes, days, sessions,      *)
(* events, purges and kills.                                               *)
(***************************************************************************)
EXTENDS Sessions, TLAPS

Pcs == {"off", "lock", "look", "write", "roll", "tmp", "replace",
        "root", "read", "move", "audit", "rollP", "tmpP", "replaceP"}

\* Where purges move files.
Aside == {Purged(d, s) : d \in Days, s \in Names}
Numbers(lines) == \A i \in 1..Len(lines) : lines[i] = Torn \/ lines[i] \in 1..made
Rising(lines) ==
  \A i, j \in 1..Len(lines) : i < j /\ lines[i] # Torn /\ lines[j] # Torn => lines[i] < lines[j]

\* A command past its first step has a session, and the day and the lock it works under.
Locked ==
  \A p \in Procs :
    /\ cmd[p].pc # "off" => cmd[p].session \in Sessions
    /\ cmd[p].pc \in {"lock", "look", "write", "roll", "tmp", "replace",
                      "move", "audit", "rollP", "tmpP", "replaceP"} => cmd[p].day \in Days
    /\ cmd[p].pc \in {"look", "write", "roll", "tmp", "replace"} => dayLock[cmd[p].day] = p
    /\ cmd[p].pc \in {"read", "move", "audit", "rollP", "tmpP", "replaceP"} => rootLock = p

\* An open file is there, in the journal or where a purge moved it; a purge's file is
\* what it read, at most grown.
Opened ==
  \A p \in Procs :
    /\ cmd[p].pc \in {"look", "write"} =>
         /\ cmd[p].at \in {Live(cmd[p].day, cmd[p].session)} \cup Aside /\ Exists(cmd[p].at)
    /\ cmd[p].pc = "move" =>
         LET at == Live(cmd[p].day, cmd[p].session) IN
         Exists(at) /\ Begins(cmd[p].data, files[at])
    /\ cmd[p].pc = "audit" =>
         /\ cmd[p].at \in Aside /\ Exists(cmd[p].at)
         /\ Begins(cmd[p].data, files[cmd[p].at])

\* Every event written is in one file.
InOneFile == \A e \in 1..made : \E at \in Holding(e) : Holding(e) = {at}
InOrder == \A at \in Places : Exists(at) => Numbers(files[at]) /\ Rising(files[at])
Vouched ==
  \A k \in 1..Len(audit) :
    /\ audit[k].to \in Aside /\ Exists(audit[k].to)
    /\ Begins(audit[k].sha, files[audit[k].to])

\* On a day that is not crossed one command is at work, with the open file in place
\* and a roll-up that is the day's.
Undisturbed ==
  \A d \in Days \ crossed :
    /\ LogsOn(d) = {} \/ PurgesOn(d) = {}
    /\ \A p \in LogsOn(d) \cup PurgesOn(d) :
         /\ cmd[p].pc \in {"look", "write"} => cmd[p].at = Live(d, cmd[p].session)
         /\ cmd[p].pc \in {"tmp", "tmpP"} => cmd[p].rolled = Rolled(d)
         /\ cmd[p].pc \in {"replace", "replaceP"} => tmp[d] = Rolled(d)

IInv == TypeOK /\ Locked /\ Opened /\ InOneFile /\ InOrder /\ Vouched
        /\ Undisturbed /\ IndexIsTheDays

-----------------------------------------------------------------------------
(* Types *)

LEMMA OffTyped ==
  Off \in Command
BY DEF Off, Command, Lines, RollUps, NoneRolled

LEMMA PlacesTyped ==
  /\ \A d \in Days, s \in Sessions : Live(d, s) \in Places
  /\ \A d \in Days, s \in Sessions, n \in 1..MaxPurges :
       Purged(d, Named(s, n)) \in Aside
  /\ Aside \subseteq Places
BY DEF Places, Names, Aside

LEMMA Apart ==
  /\ \A d, e, s, t : Live(d, s) = Live(e, t) <=> d = e /\ s = t
  /\ \A d, s : Live(d, s) \notin Aside
BY DEF Live, Aside, Purged

LEMMA RolledTyped ==
  ASSUME TypeOK, NEW d \in Days
  PROVE  Rolled(d) \in RollUps
<1>1. \A s \in Sessions : files[Live(d, s)] \in Lines \cup {Absent}
  BY PlacesTyped DEF TypeOK
<1>2. \A l \in Lines : Whole(l) \in SUBSET Nat
  BY DEF Whole, Lines, Range
<1> QED BY <1>1, <1>2 DEF Rolled, RollUps, Exists

LEMMA AbsentIsNothing ==
  /\ Absent \notin Lines /\ Absent \notin RollUps
BY SessionsAssumption DEF Lines, RollUps

\* Each step leaves every process a command.
LEMMA CommandsKept ==
  TypeOK /\ Locked /\ Opened /\ [Next]_vars => cmd' \in [Procs -> Command]
<1> SUFFICES ASSUME TypeOK, Locked, Opened, [Next]_vars PROVE cmd' \in [Procs -> Command]
  OBVIOUS
<1>a. \A p \in Procs : \A x \in Pcs : Goto(p, x) => cmd' \in [Procs -> Command]
  BY DEF TypeOK, Command, Goto, Pcs
<1>b. \A p \in Procs : Released(p) => cmd' \in [Procs -> Command]
  BY OffTyped DEF TypeOK, Released
<1>1. ASSUME NEW p \in Procs, NEW s \in Sessions, PurgeFind(p, s)
      PROVE  cmd' \in [Procs -> Command]
  <2>1. {d \in Days : Exists(Live(d, s))} \in SUBSET Days
    OBVIOUS
  <2>2. [Off EXCEPT !.pc = "root", !.session = s,
           !.todo = {d \in Days : Exists(Live(d, s))}] \in Command
    BY <2>1, OffTyped DEF Command
  <2> QED BY <1>1, <2>2 DEF PurgeFind, TypeOK
<1>2. ASSUME NEW p \in Procs, NEW d \in Days, NEW s \in Sessions, LogStart(p, d, s)
      PROVE  cmd' \in [Procs -> Command]
  <2>1. [Off EXCEPT !.pc = "lock", !.day = d, !.session = s] \in Command
    BY OffTyped DEF Command
  <2> QED BY <1>2, <2>1 DEF LogStart, TypeOK
<1>3. ASSUME NEW p \in Procs, LogOpen(p) PROVE cmd' \in [Procs -> Command]
  <2>1. PICK at \in Places : at = Live(cmd[p].day, cmd[p].session)
    BY <1>3, PlacesTyped DEF LogOpen, Locked
  <2>2. [cmd[p] EXCEPT !.pc = "look", !.at = at] \in Command
    BY DEF TypeOK, Command
  <2>3. cmd' = [cmd EXCEPT ![p] = [cmd[p] EXCEPT !.pc = "look", !.at = at]]
    BY <1>3, <2>1 DEF LogOpen, TypeOK
  <2> QED BY <2>2, <2>3 DEF TypeOK
<1>4. ASSUME NEW p \in Procs, LogLook(p) PROVE cmd' \in [Procs -> Command]
  BY <1>4, <1>a, <1>b DEF LogLook, Pcs
<1>5. ASSUME NEW p \in Procs, LogWrite(p) PROVE cmd' \in [Procs -> Command]
  BY <1>5, <1>a DEF LogWrite, Pcs
<1>6. ASSUME NEW p \in Procs, Roll(p) PROVE cmd' \in [Procs -> Command]
  <2>1. PICK r \in RollUps : r = Rolled(cmd[p].day)
    BY <1>6, RolledTyped DEF Roll, Locked
  <2>2. \A x \in Pcs : [cmd[p] EXCEPT !.pc = x, !.rolled = r] \in Command
    BY DEF TypeOK, Command, Pcs
  <2>3. \E x \in Pcs : cmd' = [cmd EXCEPT ![p] = [cmd[p] EXCEPT !.pc = x, !.rolled = r]]
    BY <1>6, <2>1 DEF Roll, TypeOK, Pcs
  <2> QED BY <2>2, <2>3 DEF TypeOK
<1>7. ASSUME NEW p \in Procs, WriteTmp(p) PROVE cmd' \in [Procs -> Command]
  BY <1>7, <1>a DEF WriteTmp, Pcs
<1>8. ASSUME NEW p \in Procs, Replace(p) PROVE cmd' \in [Procs -> Command]
  BY <1>8, <1>a, <1>b DEF Replace, Pcs
<1>9. ASSUME NEW p \in Procs, NEW d \in Days, PurgeRead(p, d)
      PROVE  cmd' \in [Procs -> Command]
  <2> SUFFICES ASSUME Exists(Live(d, cmd[p].session)) PROVE cmd' \in [Procs -> Command]
    BY <1>9, <1>b DEF PurgeRead
  <2>1. PICK l \in Lines : l = files[Live(d, cmd[p].session)]
    BY <1>9, PlacesTyped DEF PurgeRead, Locked, Exists, TypeOK
  <2>2. PICK t \in SUBSET Days : t = cmd[p].todo \ {d}
    BY DEF TypeOK, Command
  <2>3. [cmd[p] EXCEPT !.pc = "move", !.day = d, !.todo = t, !.data = l] \in Command
    BY DEF TypeOK, Command
  <2>4. cmd' = [cmd EXCEPT ![p] =
          [cmd[p] EXCEPT !.pc = "move", !.day = d, !.todo = t, !.data = l]]
    BY <1>9, <2>1, <2>2 DEF PurgeRead, TypeOK
  <2> QED BY <2>3, <2>4 DEF TypeOK
<1>10. ASSUME NEW p \in Procs, NEW n \in 1..MaxPurges, PurgeMove(p, n)
       PROVE  cmd' \in [Procs -> Command]
  <2>1. PICK to \in Places : to = Purged(cmd[p].day, Named(cmd[p].session, n))
    BY <1>10, PlacesTyped DEF PurgeMove, Locked
  <2>2. \A q \in Procs : /\ [cmd[q] EXCEPT !.at = to] \in Command
                         /\ [cmd[q] EXCEPT !.pc = "audit", !.at = to] \in Command
    BY DEF TypeOK, Command
  <2>3. cmd' = [q \in Procs |->
          IF q = p THEN [cmd[p] EXCEPT !.pc = "audit", !.at = to]
          ELSE IF cmd[q].at = Live(cmd[p].day, cmd[p].session)
               THEN [cmd[q] EXCEPT !.at = to] ELSE cmd[q]]
    BY <1>10, <2>1 DEF PurgeMove
  <2> QED BY <2>2, <2>3 DEF TypeOK
<1>11. ASSUME NEW p \in Procs, PurgeAudit(p) PROVE cmd' \in [Procs -> Command]
  BY <1>11, <1>a DEF PurgeAudit, Pcs
<1>12. ASSUME NEW p \in Procs, Kill(p) PROVE cmd' \in [Procs -> Command]
  BY <1>12, <1>b DEF Kill
<1>13. CASE UNCHANGED vars
  BY <1>13 DEF vars, TypeOK
<1> QED
  BY <1>1, <1>2, <1>3, <1>4, <1>5, <1>6, <1>7, <1>8, <1>9, <1>10, <1>11, <1>12, <1>13
     DEF Next, Log, Purge, DayIndex

LEMMA LocksTyped ==
  ASSUME TypeOK, NEW p \in Procs, Released(p)
  PROVE  dayLock' \in [Days -> Procs \cup {Nobody}] /\ rootLock' \in Procs \cup {Nobody}
BY DEF Released, TypeOK

LEMMA TypeKept == TypeOK /\ Locked /\ Opened /\ [Next]_vars => TypeOK'
<1> SUFFICES ASSUME TypeOK, Locked, Opened, [Next]_vars PROVE TypeOK'
  OBVIOUS
<1>0. cmd' \in [Procs -> Command] /\ cmd \in [Procs -> Command]
  BY CommandsKept DEF TypeOK
<1>1. ASSUME NEW p \in Procs, NEW s \in Sessions, PurgeFind(p, s) PROVE TypeOK'
  BY <1>0, <1>1 DEF PurgeFind, TypeOK, Disk, Locks
<1>2. ASSUME NEW p \in Procs, NEW d \in Days, NEW s \in Sessions, LogStart(p, d, s)
      PROVE  TypeOK'
  BY <1>0, <1>2 DEF LogStart, TypeOK, Disk, Locks, Counters
<1>3. ASSUME NEW p \in Procs, LogOpen(p) PROVE TypeOK'
  <2>1. cmd[p].day \in Days /\ Live(cmd[p].day, cmd[p].session) \in Places
    BY <1>3, PlacesTyped DEF LogOpen, Locked
  <2>2. files' \in [Places -> Lines \cup {Absent}]
    BY <1>3, <2>1 DEF LogOpen, TypeOK, Lines
  <2>3. crossed' \subseteq Days
    BY <1>3, <2>1 DEF LogOpen, TypeOK, Beside
  <2>4. dayLock' \in [Days -> Procs \cup {Nobody}]
    BY <1>3, <2>1 DEF LogOpen, TypeOK
  <2> QED
    BY <1>0, <1>3, <2>2, <2>3, <2>4 DEF LogOpen, TypeOK
<1>4. ASSUME NEW p \in Procs, LogLook(p) PROVE TypeOK'
  BY <1>0, <1>4, LocksTyped DEF LogLook, TypeOK, Disk, Locks, Counters
<1>5. ASSUME NEW p \in Procs, LogWrite(p) PROVE TypeOK'
  <2>1. cmd[p].at \in Places /\ files[cmd[p].at] \in Lines /\ made \in Nat
    BY <1>5, PlacesTyped DEF LogWrite, Opened, Exists, TypeOK, Locked
  <2>2. Append(files[cmd[p].at], made + 1) \in Lines
    BY <2>1 DEF Lines
  <2>3. files' \in [Places -> Lines \cup {Absent}] /\ made' \in Nat
    BY <1>5, <2>1, <2>2 DEF LogWrite, TypeOK
  <2> QED BY <1>0, <1>5, <2>3 DEF LogWrite, TypeOK, Locks
<1>6. ASSUME NEW p \in Procs, Roll(p) PROVE TypeOK'
  BY <1>0, <1>6 DEF Roll, TypeOK, Disk, Locks, Counters
<1>7. ASSUME NEW p \in Procs, WriteTmp(p) PROVE TypeOK'
  <2>1. cmd[p].rolled \in RollUps
    BY <1>0 DEF Command
  <2> QED BY <1>0, <1>7, <2>1 DEF WriteTmp, TypeOK, Locks, Counters
<1>8. ASSUME NEW p \in Procs, Replace(p) PROVE TypeOK'
  <2>1. index' \in [Days -> RollUps] /\ tmp' \in [Days -> RollUps \cup {Absent}]
    <3>1. cmd[p].day \in Days
      BY <1>8 DEF Replace, Locked
    <3> QED BY <1>8, <3>1 DEF Replace, TypeOK
  <2>2. dayLock' \in [Days -> Procs \cup {Nobody}] /\ rootLock' \in Procs \cup {Nobody}
    BY <1>8, LocksTyped DEF Replace, TypeOK, Locks
  <2> QED
    BY <1>0, <1>8, <2>1, <2>2 DEF Replace, TypeOK, Counters
<1>9. ASSUME NEW p \in Procs, NEW d \in Days, PurgeRead(p, d) PROVE TypeOK'
  BY <1>0, <1>9, LocksTyped DEF PurgeRead, TypeOK, Disk, Counters
<1>10. ASSUME NEW p \in Procs, NEW n \in 1..MaxPurges, PurgeMove(p, n) PROVE TypeOK'
  <2>1. cmd[p].day \in Days /\ cmd[p].session \in Sessions
    BY <1>10 DEF PurgeMove, Locked
  <2>2. PICK at \in Places : at = Live(cmd[p].day, cmd[p].session)
    BY <2>1, PlacesTyped
  <2>3. PICK to \in Places : to = Purged(cmd[p].day, Named(cmd[p].session, n))
    BY <2>1, PlacesTyped
  <2>4. files' = [files EXCEPT ![to] = files[at], ![at] = Absent]
    BY <1>10, <2>2, <2>3 DEF PurgeMove
  <2>5. files' \in [Places -> Lines \cup {Absent}]
    BY <2>4 DEF TypeOK
  <2>6. crossed' \subseteq Days
    BY <1>10, <2>1 DEF PurgeMove, Beside, TypeOK
  <2> QED
    BY <1>0, <1>10, <2>5, <2>6 DEF PurgeMove, TypeOK, Locks
<1>11. ASSUME NEW p \in Procs, PurgeAudit(p) PROVE TypeOK'
  <2>1. cmd[p].at \in Places /\ cmd[p].data \in Lines
    BY <1>0, <1>11, PlacesTyped DEF PurgeAudit, Opened, Command
  <2> QED BY <1>0, <1>11, <2>1 DEF PurgeAudit, TypeOK, Locks, Counters
<1>12. ASSUME NEW p \in Procs, Kill(p) PROVE TypeOK'
  <2>1. files' \in [Places -> Lines \cup {Absent}]
    <3>1. CASE UNCHANGED files
      BY <3>1 DEF TypeOK
    <3>2. CASE cmd[p].pc = "write" /\ files' = [files EXCEPT ![cmd[p].at] = Append(@, Torn)]
      <4>1. cmd[p].at \in Places /\ files[cmd[p].at] \in Lines
        BY <3>2, PlacesTyped DEF Opened, Exists, TypeOK, Locked
      <4>2. Append(files[cmd[p].at], Torn) \in Lines
        BY <4>1 DEF Lines
      <4> QED BY <3>2, <4>1, <4>2 DEF TypeOK
    <3> QED BY <1>12, <3>1, <3>2 DEF Kill
  <2> QED BY <1>0, <1>12, <2>1, LocksTyped DEF Kill, TypeOK
<1>13. CASE UNCHANGED vars
  BY <1>13 DEF vars, TypeOK
<1> QED
  BY <1>1, <1>2, <1>3, <1>4, <1>5, <1>6, <1>7, <1>8, <1>9, <1>10, <1>11, <1>12, <1>13
     DEF Next, Log, Purge, DayIndex

-----------------------------------------------------------------------------
(* What a step does to the commands *)

\* The others' commands are as they were.
Alone(p) == \A q \in Procs \ {p} : cmd'[q] = cmd[q]
\* The command is still about the same files.
Same(p) ==
  /\ cmd'[p].day = cmd[p].day /\ cmd'[p].session = cmd[p].session
  /\ cmd'[p].data = cmd[p].data

LEMMA OffView ==
  Off.pc = "off"
BY DEF Off

LEMMA GotoView ==
  ASSUME TypeOK, NEW p \in Procs, NEW x, Goto(p, x)
  PROVE  /\ Alone(p) /\ Same(p) /\ cmd'[p].pc = x
         /\ cmd'[p].at = cmd[p].at /\ cmd'[p].rolled = cmd[p].rolled
BY DEF TypeOK, Command, Goto, Alone, Same

LEMMA ReleasedView ==
  ASSUME TypeOK, NEW p \in Procs, Released(p)
  PROVE  /\ Alone(p) /\ cmd'[p].pc = "off"
         /\ \A d \in Days : \A q \in Procs \ {p} : dayLock[d] = q => dayLock'[d] = q
         /\ \A q \in Procs \ {p} : rootLock = q => rootLock' = q
BY OffView DEF TypeOK, Released, Alone

LEMMA FindView ==
  ASSUME TypeOK, NEW p \in Procs, NEW s \in Sessions, PurgeFind(p, s)
  PROVE  Alone(p) /\ cmd'[p].pc = "root" /\ cmd'[p].session = s
BY DEF TypeOK, PurgeFind, Off, Alone

LEMMA StartView ==
  ASSUME TypeOK, NEW p \in Procs, NEW d \in Days, NEW s \in Sessions, LogStart(p, d, s)
  PROVE  Alone(p) /\ cmd'[p].pc = "lock" /\ cmd'[p].day = d /\ cmd'[p].session = s
BY DEF TypeOK, LogStart, Off, Alone

LEMMA OpenView ==
  ASSUME TypeOK, NEW p \in Procs, LogOpen(p)
  PROVE  /\ Alone(p) /\ Same(p) /\ cmd'[p].pc = "look"
         /\ cmd'[p].at = Live(cmd[p].day, cmd[p].session)
BY DEF TypeOK, Command, LogOpen, Alone, Same

LEMMA RollView ==
  ASSUME TypeOK, NEW p \in Procs, Roll(p)
  PROVE  /\ Alone(p) /\ Same(p) /\ cmd'[p].rolled = Rolled(cmd[p].day)
         /\ cmd'[p].pc = IF cmd[p].pc = "roll" THEN "tmp" ELSE "tmpP"
BY DEF TypeOK, Command, Roll, Alone, Same

LEMMA ReadView ==
  ASSUME TypeOK, NEW p \in Procs, NEW d \in Days, PurgeRead(p, d),
         Exists(Live(d, cmd[p].session))
  PROVE  /\ Alone(p) /\ cmd'[p].pc = "move" /\ cmd'[p].day = d
         /\ cmd'[p].session = cmd[p].session
         /\ cmd'[p].data = files[Live(d, cmd[p].session)]
         /\ rootLock' = p /\ UNCHANGED dayLock
         /\ cmd[p].pc = "root" => rootLock = Nobody
BY DEF TypeOK, Command, PurgeRead, Alone

LEMMA MoveView ==
  ASSUME TypeOK, Locked, NEW p \in Procs, NEW n \in 1..MaxPurges, PurgeMove(p, n)
  PROVE  \E at \in Places, to \in Aside :
           /\ at = Live(cmd[p].day, cmd[p].session) /\ ~Exists(to)
           /\ files' = [files EXCEPT ![to] = files[at], ![at] = Absent]
           /\ Same(p) /\ cmd'[p].pc = "audit" /\ cmd'[p].at = to
           /\ \A q \in Procs \ {p} :
                /\ Same(q) /\ cmd'[q].pc = cmd[q].pc /\ cmd'[q].rolled = cmd[q].rolled
                /\ cmd'[q].at = IF cmd[q].at = at THEN to ELSE cmd[q].at
<1>1. cmd[p].day \in Days /\ cmd[p].session \in Sessions
  BY DEF PurgeMove, Locked
<1>2. PICK at \in Places : at = Live(cmd[p].day, cmd[p].session)
  BY <1>1, PlacesTyped
<1>3. PICK to \in Aside : to = Purged(cmd[p].day, Named(cmd[p].session, n))
  BY <1>1, PlacesTyped
<1>4. cmd' = [q \in Procs |->
        IF q = p THEN [cmd[p] EXCEPT !.pc = "audit", !.at = to]
        ELSE IF cmd[q].at = at THEN [cmd[q] EXCEPT !.at = to] ELSE cmd[q]]
  BY <1>2, <1>3 DEF PurgeMove
<1>5. Same(p) /\ cmd'[p].pc = "audit" /\ cmd'[p].at = to
  BY <1>4 DEF TypeOK, Command, Same
<1>6. ASSUME NEW q \in Procs \ {p}
      PROVE  /\ Same(q) /\ cmd'[q].pc = cmd[q].pc /\ cmd'[q].rolled = cmd[q].rolled
             /\ cmd'[q].at = IF cmd[q].at = at THEN to ELSE cmd[q].at
  BY <1>4 DEF TypeOK, Command, Same
<1>7. ~Exists(to) /\ files' = [files EXCEPT ![to] = files[at], ![at] = Absent]
  BY <1>2, <1>3 DEF PurgeMove, FreeName
<1> QED BY <1>2, <1>5, <1>6, <1>7

-----------------------------------------------------------------------------
(* Locks *)

LEMMA LockedKept == TypeOK /\ Locked /\ [Next]_vars => Locked'
<1> SUFFICES ASSUME TypeOK, Locked, [Next]_vars PROVE Locked'
  OBVIOUS
<1>r. ASSUME NEW p \in Procs, Released(p) PROVE Locked'
  BY <1>r, ReleasedView DEF Locked, Alone
<1>g. ASSUME NEW p \in Procs, NEW x, Goto(p, x), UNCHANGED Locks, cmd[p].pc # "off",
             \/ cmd[p].pc = "look" /\ x = "write"
             \/ cmd[p].pc = "write" /\ x = "roll"
             \/ cmd[p].pc = "tmp" /\ x = "replace"
             \/ cmd[p].pc = "tmpP" /\ x = "replaceP"
             \/ cmd[p].pc = "replaceP" /\ x = "read"
             \/ cmd[p].pc = "audit" /\ x = "rollP"
      PROVE  Locked'
  BY <1>g, GotoView DEF Locked, Alone, Same, Locks
<1>1. ASSUME NEW p \in Procs, NEW s \in Sessions, PurgeFind(p, s) PROVE Locked'
  <2>1. /\ \A q \in Procs \ {p} : cmd'[q] = cmd[q]
        /\ cmd'[p].pc = "root" /\ cmd'[p].session = s
    BY <1>1, FindView DEF Alone
  <2>2. UNCHANGED <<dayLock, rootLock>>
    BY <1>1 DEF PurgeFind, Locks
  <2> QED BY <2>1, <2>2 DEF Locked
<1>2. ASSUME NEW p \in Procs, NEW d \in Days, NEW s \in Sessions, LogStart(p, d, s)
      PROVE  Locked'
  <2>1. /\ \A q \in Procs \ {p} : cmd'[q] = cmd[q]
        /\ cmd'[p].pc = "lock" /\ cmd'[p].session = s /\ cmd'[p].day = d
    BY <1>2, StartView DEF Alone
  <2>2. UNCHANGED <<dayLock, rootLock>>
    BY <1>2 DEF LogStart, Locks
  <2> QED BY <2>1, <2>2 DEF Locked
<1>3. ASSUME NEW p \in Procs, LogOpen(p) PROVE Locked'
  <2>1. /\ \A q \in Procs \ {p} : cmd'[q] = cmd[q]
        /\ cmd'[p].pc = "look" /\ cmd'[p].session = cmd[p].session
        /\ cmd'[p].day = cmd[p].day
    BY <1>3, OpenView DEF Alone, Same
  <2>2. cmd[p].session \in Sessions /\ cmd[p].day \in Days
    BY <1>3 DEF LogOpen, Locked
  <2>3. /\ dayLock[cmd[p].day] \notin Procs
        /\ dayLock' = [dayLock EXCEPT ![cmd[p].day] = p] /\ rootLock' = rootLock
    BY <1>3, SessionsAssumption DEF LogOpen
  <2>4. dayLock'[cmd[p].day] = p /\ \A d \in Days \ {cmd[p].day} : dayLock'[d] = dayLock[d]
    BY <2>2, <2>3 DEF TypeOK
  <2> QED BY <2>1, <2>2, <2>3, <2>4 DEF Locked
<1>4. ASSUME NEW p \in Procs, LogLook(p) PROVE Locked'
  BY <1>4, <1>r, <1>g DEF LogLook
<1>5. ASSUME NEW p \in Procs, LogWrite(p) PROVE Locked'
  BY <1>5, <1>g DEF LogWrite
<1>6. ASSUME NEW p \in Procs, Roll(p) PROVE Locked'
  <2>1. /\ \A q \in Procs \ {p} : cmd'[q] = cmd[q]
        /\ cmd'[p].session = cmd[p].session /\ cmd'[p].day = cmd[p].day
        /\ cmd'[p].pc = IF cmd[p].pc = "roll" THEN "tmp" ELSE "tmpP"
    BY <1>6, RollView DEF Alone, Same
  <2>2. UNCHANGED <<dayLock, rootLock>> /\ cmd[p].pc \in {"roll", "rollP"}
    BY <1>6 DEF Roll, Locks
  <2> QED BY <2>1, <2>2 DEF Locked
<1>7. ASSUME NEW p \in Procs, WriteTmp(p) PROVE Locked'
  BY <1>7, <1>g DEF WriteTmp
<1>8. ASSUME NEW p \in Procs, Replace(p) PROVE Locked'
  BY <1>8, <1>r, <1>g DEF Replace
<1>9. ASSUME NEW p \in Procs, NEW d \in Days, PurgeRead(p, d) PROVE Locked'
  <2>1. CASE Exists(Live(d, cmd[p].session))
    <3>1. /\ \A q \in Procs \ {p} : cmd'[q] = cmd[q]
          /\ cmd'[p].pc = "move" /\ cmd'[p].session = cmd[p].session /\ cmd'[p].day = d
          /\ rootLock' = p /\ dayLock' = dayLock
      BY <1>9, <2>1, ReadView DEF Alone
    <3>2. rootLock \in {p, Nobody} /\ cmd[p].session \in Sessions
      BY <1>9 DEF PurgeRead, Locked
    <3> QED BY <3>1, <3>2, SessionsAssumption DEF Locked
  <2>2. CASE ~Exists(Live(d, cmd[p].session))
    BY <1>9, <2>2, <1>r DEF PurgeRead
  <2> QED BY <2>1, <2>2
<1>10. ASSUME NEW p \in Procs, NEW n \in 1..MaxPurges, PurgeMove(p, n) PROVE Locked'
  <2>1. /\ Same(p) /\ cmd'[p].pc = "audit"
        /\ \A q \in Procs \ {p} : Same(q) /\ cmd'[q].pc = cmd[q].pc
    BY <1>10, MoveView
  <2>2. cmd[p].pc = "move" /\ UNCHANGED <<dayLock, rootLock>>
    BY <1>10 DEF PurgeMove, Locks
  <2> QED BY <2>1, <2>2 DEF Locked, Same
<1>11. ASSUME NEW p \in Procs, PurgeAudit(p) PROVE Locked'
  BY <1>11, <1>g DEF PurgeAudit
<1>12. ASSUME NEW p \in Procs, Kill(p) PROVE Locked'
  BY <1>12, <1>r DEF Kill
<1>13. CASE UNCHANGED vars
  BY <1>13 DEF vars, Locked
<1> QED
  BY <1>1, <1>2, <1>3, <1>4, <1>5, <1>6, <1>7, <1>8, <1>9, <1>10, <1>11, <1>12, <1>13
     DEF Next, Log, Purge, DayIndex

\* One log at a time on a day, one purge at a time.
LEMMA OneAtATime ==
  ASSUME Locked
  PROVE  /\ \A d \in Days : \A p, q \in LogsOn(d) : p = q
         /\ \A p, q \in Procs :
              /\ cmd[p].pc \in {"read", "move", "audit", "rollP", "tmpP", "replaceP"}
              /\ cmd[q].pc \in {"read", "move", "audit", "rollP", "tmpP", "replaceP"}
              => p = q
BY DEF Locked, LogsOn

-----------------------------------------------------------------------------
(* Files *)

\* A file there is stays where it is, and grows.
Stays(at) == Exists(at) => Exists(at)' /\ Begins(files[at], files'[at])

LEMMA BeginsItself == \A l \in Lines : Begins(l, l)
BY DEF Begins, Lines

LEMMA BeginsGrown ==
  ASSUME NEW k \in Lines, NEW l \in Lines, NEW m \in Lines, Begins(k, l), Begins(l, m)
  PROVE  Begins(k, m)
BY DEF Begins, Lines

LEMMA Appended ==
  ASSUME NEW l \in Lines, NEW x \in Nat \cup {Torn}
  PROVE  /\ Append(l, x) \in Lines /\ Len(Append(l, x)) = Len(l) + 1
         /\ Append(l, x)[Len(l) + 1] = x /\ \A i \in 1..Len(l) : Append(l, x)[i] = l[i]
         /\ Begins(l, Append(l, x)) /\ Range(Append(l, x)) = Range(l) \cup {x}
<1>1. /\ Append(l, x) \in Lines /\ Len(Append(l, x)) = Len(l) + 1 /\ Len(l) \in Nat
      /\ Append(l, x)[Len(l) + 1] = x /\ \A i \in 1..Len(l) : Append(l, x)[i] = l[i]
  BY DEF Lines
<1>2. DOMAIN l = 1..Len(l) /\ DOMAIN Append(l, x) = 1..(Len(l) + 1)
  BY <1>1 DEF Lines
<1>3. Begins(l, Append(l, x))
  BY <1>1 DEF Begins
<1>4. 1..(Len(l) + 1) = (1..Len(l)) \cup {Len(l) + 1}
  BY <1>1
<1>5. Range(Append(l, x)) = Range(l) \cup {x}
  BY <1>1, <1>2, <1>4 DEF Range
<1> QED BY <1>1, <1>3, <1>5

LEMMA EmptyFile == <<>> \in Lines /\ Range(<<>>) = {} /\ Len(<<>>) = 0
BY DEF Lines, Range

\* A log opens a file, in place or where it was moved to.
LEMMA OpenFile ==
  ASSUME TypeOK, Locked, NEW p \in Procs, LogOpen(p)
  PROVE  \E at \in Places :
           /\ at = Live(cmd[p].day, cmd[p].session) /\ Exists(at)'
           /\ files' = files \/ (~Exists(at) /\ files' = [files EXCEPT ![at] = <<>>])
<1>1. PICK at \in Places : at = Live(cmd[p].day, cmd[p].session)
  BY PlacesTyped DEF LogOpen, Locked
<1>2. files' = [files EXCEPT ![at] = IF files[at] = Absent THEN <<>> ELSE files[at]]
  BY <1>1 DEF LogOpen
<1>3. CASE Exists(at)
  BY <1>1, <1>2, <1>3 DEF Exists, TypeOK
<1>4. CASE ~Exists(at)
  BY <1>1, <1>2, <1>4, AbsentIsNothing, EmptyFile DEF Exists, TypeOK
<1> QED BY <1>3, <1>4

\* What a log writes, or tears, goes to the end of the file it has open.
LEMMA WriteFile ==
  ASSUME TypeOK, Locked, Opened, NEW p \in Procs,
         LogWrite(p) \/ (Kill(p) /\ files' # files)
  PROVE  \E at \in Places, x \in Nat \cup {Torn} :
           /\ at = cmd[p].at /\ cmd[p].pc = "write" /\ files[at] \in Lines
           /\ files' = [files EXCEPT ![at] = Append(files[at], x)]
           /\ LogWrite(p) => x = made + 1
           /\ Kill(p) => x = Torn
<1>1. cmd[p].pc = "write"
  BY DEF LogWrite, Kill
<1>2. cmd[p].at \in Places /\ files[cmd[p].at] \in Lines
  BY <1>1, PlacesTyped DEF Opened, Locked, Exists, TypeOK
<1>3. LogWrite(p) => files' = [files EXCEPT ![cmd[p].at] = Append(files[cmd[p].at], made + 1)]
  BY DEF LogWrite
<1>4. LogWrite(p) => ~Kill(p)
  <2> SUFFICES ASSUME LogWrite(p), Kill(p) PROVE FALSE
    OBVIOUS
  <2>1. made' = made + 1 /\ made' = made
    BY DEF LogWrite, Kill
  <2> QED BY <2>1 DEF TypeOK
<1>5. Kill(p) => files' = [files EXCEPT ![cmd[p].at] = Append(files[cmd[p].at], Torn)]
  BY <1>4 DEF Kill
<1>6. made + 1 \in Nat
  BY DEF TypeOK
<1> QED
  BY <1>1, <1>2, <1>3, <1>4, <1>5, <1>6

\* A step that is no purge's move leaves every file where it is.
LEMMA FilesStay ==
  ASSUME TypeOK, Locked, Opened, [Next]_vars,
         ~ \E p \in Procs, n \in 1..MaxPurges : PurgeMove(p, n)
  PROVE  \A at \in Places : Stays(at)
<1>1. CASE files' = files
  BY <1>1, BeginsItself DEF Stays, Exists, TypeOK
<1>2. ASSUME NEW p \in Procs, LogOpen(p) PROVE \A at \in Places : Stays(at)
  <2>1. PICK at \in Places :
          files' = files \/ (~Exists(at) /\ files' = [files EXCEPT ![at] = <<>>])
    BY <1>2, OpenFile
  <2>2. CASE ~Exists(at) /\ files' = [files EXCEPT ![at] = <<>>]
    BY <2>2, BeginsItself DEF Stays, Exists, TypeOK
  <2> QED BY <1>1, <2>1, <2>2
<1>3. ASSUME NEW p \in Procs, LogWrite(p) \/ (Kill(p) /\ files' # files)
      PROVE  \A at \in Places : Stays(at)
  <2>1. PICK at \in Places, x \in Nat \cup {Torn} :
          files[at] \in Lines /\ files' = [files EXCEPT ![at] = Append(files[at], x)]
    BY <1>3, WriteFile
  <2>2. Append(files[at], x) \in Lines /\ Begins(files[at], Append(files[at], x))
    BY <2>1, Appended
  <2> QED BY <2>1, <2>2, BeginsItself, AbsentIsNothing DEF Stays, Exists, TypeOK
<1>4. \/ files' = files \/ \E p \in Procs : LogOpen(p)
      \/ \E p \in Procs : LogWrite(p) \/ (Kill(p) /\ files' # files)
  BY DEF Next, vars, Log, Purge, DayIndex, PurgeFind, LogStart, LogLook, Roll, WriteTmp,
         Replace, PurgeRead, PurgeAudit, Disk
<1> QED BY <1>1, <1>2, <1>3, <1>4

\* A move takes a file that is there to a name nobody has.
LEMMA MoveFile ==
  ASSUME TypeOK, Locked, Opened, NEW p \in Procs, NEW n \in 1..MaxPurges, PurgeMove(p, n)
  PROVE  \E at \in Places, to \in Aside :
           /\ at = Live(cmd[p].day, cmd[p].session)
           /\ Exists(at) /\ ~Exists(to) /\ at # to /\ at \notin Aside
           /\ files'[to] = files[at] /\ ~Exists(at)'
           /\ \A a \in Places \ {at, to} : files'[a] = files[a]
           /\ Same(p) /\ cmd'[p].pc = "audit" /\ cmd'[p].at = to
           /\ \A q \in Procs \ {p} :
                /\ Same(q) /\ cmd'[q].pc = cmd[q].pc /\ cmd'[q].rolled = cmd[q].rolled
                /\ cmd'[q].at = IF cmd[q].at = at THEN to ELSE cmd[q].at
<1>1. PICK at \in Places, to \in Aside :
           /\ at = Live(cmd[p].day, cmd[p].session) /\ ~Exists(to)
           /\ files' = [files EXCEPT ![to] = files[at], ![at] = Absent]
           /\ Same(p) /\ cmd'[p].pc = "audit" /\ cmd'[p].at = to
           /\ \A q \in Procs \ {p} :
                /\ Same(q) /\ cmd'[q].pc = cmd[q].pc /\ cmd'[q].rolled = cmd[q].rolled
                /\ cmd'[q].at = IF cmd[q].at = at THEN to ELSE cmd[q].at
  BY MoveView
<1>2. Exists(at) /\ at \notin Aside /\ to \in Places
  BY <1>1, Apart, PlacesTyped DEF PurgeMove, Opened
<1>3. at # to
  BY <1>2
<1>4. /\ files'[to] = files[at] /\ files'[at] = Absent
      /\ \A a \in Places \ {at, to} : files'[a] = files[a]
  BY <1>1, <1>2, <1>3 DEF TypeOK
<1> QED BY <1>1, <1>2, <1>3, <1>4 DEF Exists

\* No step takes away a file that was moved aside.
LEMMA AsideStays ==
  ASSUME TypeOK, Locked, Opened, [Next]_vars
  PROVE  \A a \in Aside : Stays(a)
<1>1. ASSUME NEW p \in Procs, NEW n \in 1..MaxPurges, PurgeMove(p, n)
      PROVE  \A a \in Aside : Stays(a)
  <2>1. PICK at \in Places, to \in Aside :
          /\ ~Exists(to) /\ at \notin Aside
          /\ \A a \in Places \ {at, to} : files'[a] = files[a]
    BY <1>1, MoveFile
  <2> QED BY <2>1, PlacesTyped, BeginsItself DEF Stays, Exists, TypeOK
<1>2. CASE ~ \E p \in Procs, n \in 1..MaxPurges : PurgeMove(p, n)
  BY <1>2, FilesStay, PlacesTyped
<1> QED BY <1>1, <1>2

-----------------------------------------------------------------------------
(* Open files *)

LEMMA OpenedKept == TypeOK /\ Locked /\ Opened /\ [Next]_vars => Opened'
<1> SUFFICES ASSUME TypeOK, Locked, Opened, [Next]_vars PROVE Opened'
  OBVIOUS
<1>t. TypeOK'
  BY TypeKept
<1> DEFINE OpenedBy(q) ==
      /\ cmd[q].pc \in {"look", "write"} =>
           /\ cmd[q].at \in {Live(cmd[q].day, cmd[q].session)} \cup Aside
           /\ Exists(cmd[q].at)
      /\ cmd[q].pc = "move" =>
           /\ Exists(Live(cmd[q].day, cmd[q].session))
           /\ Begins(cmd[q].data, files[Live(cmd[q].day, cmd[q].session)])
      /\ cmd[q].pc = "audit" =>
           /\ cmd[q].at \in Aside /\ Exists(cmd[q].at)
           /\ Begins(cmd[q].data, files[cmd[q].at])
<1>o. \A q \in Procs : OpenedBy(q)
  BY DEF Opened
<1> SUFFICES ASSUME NEW q \in Procs PROVE OpenedBy(q)'
  BY DEF Opened
<1>m. ASSUME NEW p \in Procs, NEW n \in 1..MaxPurges, PurgeMove(p, n) PROVE OpenedBy(q)'
  <2>1. PICK at \in Places, to \in Aside :
           /\ at = Live(cmd[p].day, cmd[p].session)
           /\ Exists(at) /\ ~Exists(to) /\ at # to /\ at \notin Aside
           /\ files'[to] = files[at] /\ ~Exists(at)'
           /\ \A a \in Places \ {at, to} : files'[a] = files[a]
           /\ Same(p) /\ cmd'[p].pc = "audit" /\ cmd'[p].at = to
           /\ \A r \in Procs \ {p} :
                /\ Same(r) /\ cmd'[r].pc = cmd[r].pc /\ cmd'[r].rolled = cmd[r].rolled
                /\ cmd'[r].at = IF cmd[r].at = at THEN to ELSE cmd[r].at
    BY <1>m, MoveFile
  <2>2. Exists(to)' /\ cmd[p].pc = "move" /\ to \in Places
    BY <1>m, <2>1, PlacesTyped DEF Exists, PurgeMove
  <2>3. CASE q = p
    BY <1>o, <2>1, <2>2, <2>3 DEF Same
  <2>4. CASE q # p
    <3>1. cmd[q].pc \notin {"move", "audit"}
      BY <2>2, <2>4, OneAtATime
    <3>2. CASE cmd[q].pc \in {"look", "write"} /\ cmd[q].at = at
      BY <2>1, <2>2, <2>4, <3>2
    <3>3. CASE cmd[q].pc \in {"look", "write"} /\ cmd[q].at # at
      <4>1. cmd[q].at \in Places \ {at, to} /\ Exists(cmd[q].at)
        BY <1>o, <2>1, <3>3, PlacesTyped DEF Locked
      <4>2. Exists(cmd[q].at)' /\ cmd'[q].at = cmd[q].at /\ Same(q)
        BY <2>1, <2>4, <3>3, <4>1 DEF Exists
      <4> QED BY <1>o, <2>1, <2>4, <3>3, <4>2 DEF Same, Exists
    <3> QED BY <2>1, <2>4, <3>1, <3>2, <3>3
  <2> QED BY <2>3, <2>4
<1>n. CASE ~ \E p \in Procs, n \in 1..MaxPurges : PurgeMove(p, n)
  <2>1. \A at \in Places : Stays(at)
    BY <1>n, FilesStay
  <2>2. ASSUME cmd'[q] = cmd[q] PROVE OpenedBy(q)'
    <3>1. CASE cmd[q].pc \in {"look", "write"}
      <4>1. cmd[q].at \in Places
        BY <1>o, <3>1, PlacesTyped DEF Locked
      <4> QED BY <1>o, <2>1, <2>2, <3>1, <4>1 DEF Stays, Exists
    <3>2. CASE cmd[q].pc = "move"
      <4>1. PICK a \in Places : a = Live(cmd[q].day, cmd[q].session)
        BY <3>2, PlacesTyped DEF Locked
      <4>2. cmd[q].data \in Lines /\ files[a] \in Lines /\ files'[a] \in Lines
        BY <1>t, <1>o, <2>1, <3>2, <4>1 DEF TypeOK, Command, Exists, Stays
      <4>3. Exists(a)' /\ Begins(cmd[q].data, files'[a])
        BY <1>o, <2>1, <3>2, <4>1, <4>2, BeginsGrown DEF Stays
      <4> QED BY <2>2, <3>2, <4>1, <4>3 DEF Exists
    <3>3. CASE cmd[q].pc = "audit"
      <4>1. PICK a \in Places : a = cmd[q].at
        BY <1>o, <3>3, PlacesTyped
      <4>2. cmd[q].data \in Lines /\ files[a] \in Lines /\ files'[a] \in Lines
        BY <1>t, <1>o, <2>1, <3>3, <4>1 DEF TypeOK, Command, Exists, Stays
      <4>3. Exists(a)' /\ Begins(cmd[q].data, files'[a])
        BY <1>o, <2>1, <3>3, <4>1, <4>2, BeginsGrown DEF Stays
      <4> QED BY <1>o, <2>2, <3>3, <4>1, <4>3 DEF Exists
    <3> QED BY <2>2, <3>1, <3>2, <3>3
  <2>3. ASSUME cmd'[q].pc \notin {"look", "write", "move", "audit"} PROVE OpenedBy(q)'
    BY <2>3
  <2>4. ASSUME NEW p \in Procs, LogOpen(p), p = q PROVE OpenedBy(q)'
    <3>1. cmd'[q].pc = "look" /\ cmd'[q].at = Live(cmd'[q].day, cmd'[q].session)
      BY <2>4, OpenView DEF Same
    <3>2. Exists(cmd[q].at)'
      BY <2>4, <3>1, OpenFile, OpenView DEF Exists, Same
    <3> QED BY <3>1, <3>2
  <2>5. ASSUME NEW p \in Procs, LogLook(p), p = q PROVE OpenedBy(q)'
    <3>1. CASE Goto(p, "write")
      <4>1. /\ cmd[q].pc = "look" /\ cmd'[q].pc = "write" /\ Same(q) /\ cmd'[q].at = cmd[q].at
        BY <2>5, <3>1, GotoView DEF LogLook
      <4>2. cmd[q].at \in {Live(cmd[q].day, cmd[q].session)} \cup Aside /\ Exists(cmd[q].at)
        BY <1>o, <4>1
      <4>3. files' = files
        BY <2>5 DEF LogLook, Disk
      <4> QED BY <4>1, <4>2, <4>3 DEF Same, Exists
    <3>2. CASE Released(p)
      BY <2>3, <2>5, <3>2, ReleasedView
    <3> QED BY <2>5, <3>1, <3>2 DEF LogLook
  <2>6. ASSUME NEW p \in Procs, NEW d \in Days, PurgeRead(p, d), p = q PROVE OpenedBy(q)'
    <3>1. CASE Exists(Live(d, cmd[p].session))
      <4>1. PICK a \in Places : a = Live(d, cmd[p].session)
        BY <2>6, PlacesTyped DEF PurgeRead, Locked
      <4>2. /\ cmd'[q].pc = "move" /\ cmd'[q].data = files[a]
            /\ a = Live(cmd'[q].day, cmd'[q].session)
        BY <2>6, <3>1, <4>1, ReadView
      <4>3. Exists(a)' /\ Begins(files[a], files'[a])
        BY <2>1, <3>1, <4>1 DEF Stays
      <4> QED BY <4>2, <4>3 DEF Exists
    <3>2. CASE ~Exists(Live(d, cmd[p].session))
      BY <2>3, <2>6, <3>2, ReleasedView DEF PurgeRead
    <3> QED BY <3>1, <3>2
  <2>7. ASSUME NEW p \in Procs, NEW s \in Sessions, PurgeFind(p, s) PROVE OpenedBy(q)'
    BY <2>2, <2>3, <2>7, FindView DEF Alone
  <2>8. ASSUME NEW p \in Procs, NEW d \in Days, NEW s \in Sessions, LogStart(p, d, s)
        PROVE  OpenedBy(q)'
    BY <2>2, <2>3, <2>8, StartView DEF Alone
  <2>9. ASSUME NEW p \in Procs, LogOpen(p) \/ LogLook(p) PROVE OpenedBy(q)'
    <3>1. Alone(p)
      BY <2>9, OpenView, GotoView, ReleasedView DEF LogLook
    <3> QED BY <2>2, <2>4, <2>5, <2>9, <3>1 DEF Alone
  <2>10. ASSUME NEW p \in Procs, LogWrite(p) PROVE OpenedBy(q)'
    BY <2>2, <2>3, <2>10, GotoView DEF LogWrite, Alone
  <2>11. ASSUME NEW p \in Procs, Roll(p) PROVE OpenedBy(q)'
    BY <2>2, <2>3, <2>11, RollView DEF Alone
  <2>12. ASSUME NEW p \in Procs, WriteTmp(p) PROVE OpenedBy(q)'
    BY <2>2, <2>3, <2>12, GotoView DEF WriteTmp, Alone
  <2>13. ASSUME NEW p \in Procs, Replace(p) PROVE OpenedBy(q)'
    BY <2>2, <2>3, <2>13, GotoView, ReleasedView DEF Replace, Alone
  <2>14. ASSUME NEW p \in Procs, NEW d \in Days, PurgeRead(p, d) PROVE OpenedBy(q)'
    <3>1. Alone(p)
      BY <2>14, ReadView, ReleasedView DEF PurgeRead
    <3> QED BY <2>2, <2>6, <2>14, <3>1 DEF Alone
  <2>15. ASSUME NEW p \in Procs, PurgeAudit(p) PROVE OpenedBy(q)'
    BY <2>2, <2>3, <2>15, GotoView DEF PurgeAudit, Alone
  <2>16. ASSUME NEW p \in Procs, Kill(p) PROVE OpenedBy(q)'
    BY <2>2, <2>3, <2>16, ReleasedView DEF Kill, Alone
  <2>17. CASE UNCHANGED vars
    BY <2>2, <2>17 DEF vars
  <2> HIDE DEF OpenedBy
  <2> QED
    BY <1>n, <2>7, <2>8, <2>9, <2>10, <2>11, <2>12, <2>13, <2>14, <2>15, <2>16, <2>17
       DEF Next, Log, Purge, DayIndex
<1> QED BY <1>m, <1>n

-----------------------------------------------------------------------------
(* Events *)

\* The steps that change a file: a log's open and write, a purge's move, a kill in a write.
LEMMA FileSteps ==
  ASSUME TypeOK, Locked, Opened, [Next]_vars
  PROVE  \/ files' = files /\ made' = made
         \/ /\ made' = made
            /\ \E at \in Places : ~Exists(at) /\ files' = [files EXCEPT ![at] = <<>>]
         \/ \E at \in Places, x \in Nat \cup {Torn} :
              /\ files[at] \in Lines /\ files' = [files EXCEPT ![at] = Append(files[at], x)]
              /\ \/ x = made + 1 /\ made' = made + 1
                 \/ x = Torn /\ made' = made
         \/ /\ made' = made
            /\ \E at \in Places, to \in Places :
                 /\ Exists(at) /\ ~Exists(to) /\ at # to
                 /\ files'[to] = files[at] /\ ~Exists(at)'
                 /\ \A a \in Places \ {at, to} : files'[a] = files[a]
<1>1. ASSUME NEW p \in Procs, LogOpen(p)
      PROVE  /\ made' = made
             /\ \/ files' = files
                \/ \E at \in Places : ~Exists(at) /\ files' = [files EXCEPT ![at] = <<>>]
  BY <1>1, OpenFile DEF LogOpen
<1>2. ASSUME NEW p \in Procs, LogWrite(p)
      PROVE  \E at \in Places, x \in Nat \cup {Torn} :
              /\ files[at] \in Lines /\ files' = [files EXCEPT ![at] = Append(files[at], x)]
              /\ x = made + 1 /\ made' = made + 1
  <2>1. made' = made + 1
    BY <1>2 DEF LogWrite
  <2> QED BY <1>2, <2>1, WriteFile
<1>3. ASSUME NEW p \in Procs, Kill(p), files' # files
      PROVE  \E at \in Places, x \in Nat \cup {Torn} :
              /\ files[at] \in Lines /\ files' = [files EXCEPT ![at] = Append(files[at], x)]
              /\ x = Torn /\ made' = made
  <2>1. made' = made
    BY <1>3 DEF Kill
  <2> QED BY <1>3, <2>1, WriteFile
<1>4. ASSUME NEW p \in Procs, NEW n \in 1..MaxPurges, PurgeMove(p, n)
      PROVE  /\ made' = made
             /\ \E at \in Places, to \in Places :
                 /\ Exists(at) /\ ~Exists(to) /\ at # to
                 /\ files'[to] = files[at] /\ ~Exists(at)'
                 /\ \A a \in Places \ {at, to} : files'[a] = files[a]
  <2>1. made' = made
    BY <1>4 DEF PurgeMove
  <2> QED BY <1>4, <2>1, MoveFile, PlacesTyped
<1>5. \/ files' = files /\ made' = made
      \/ \E p \in Procs : LogOpen(p) \/ LogWrite(p) \/ (Kill(p) /\ files' # files)
      \/ \E p \in Procs, n \in 1..MaxPurges : PurgeMove(p, n)
  BY DEF Next, vars, Log, Purge, DayIndex, PurgeFind, LogStart, LogLook, Roll, WriteTmp,
         Replace, PurgeRead, PurgeAudit, Kill, Disk, Counters
<1> QED BY <1>1, <1>2, <1>3, <1>4, <1>5

LEMMA InOrderKept == TypeOK /\ Locked /\ Opened /\ InOrder /\ [Next]_vars => InOrder'
<1> SUFFICES ASSUME TypeOK, Locked, Opened, InOrder, [Next]_vars PROVE InOrder'
  OBVIOUS
<1> SUFFICES ASSUME NEW a \in Places, Exists(a)'
             PROVE  Numbers(files[a])' /\ Rising(files[a])'
  BY DEF InOrder
<1>0. made \in Nat /\ files \in [Places -> Lines \cup {Absent}]
  BY DEF TypeOK
<1>1. CASE files' = files /\ made' = made
  BY <1>1 DEF InOrder, Exists, Numbers, Rising
<1>2. CASE /\ made' = made
           /\ \E at \in Places : ~Exists(at) /\ files' = [files EXCEPT ![at] = <<>>]
  <2>1. PICK at \in Places : ~Exists(at) /\ files' = [files EXCEPT ![at] = <<>>]
    BY <1>2
  <2>2. CASE a = at
    <3>1. files'[a] = <<>> /\ Len(<<>>) = 0
      BY <1>0, <2>1, <2>2
    <3> QED BY <3>1 DEF Numbers, Rising
  <2>3. CASE a # at
    BY <1>0, <1>2, <2>1, <2>3 DEF InOrder, Exists, Numbers, Rising
  <2> QED BY <2>2, <2>3
<1>3. CASE \E at \in Places, x \in Nat \cup {Torn} :
              /\ files[at] \in Lines /\ files' = [files EXCEPT ![at] = Append(files[at], x)]
              /\ \/ x = made + 1 /\ made' = made + 1
                 \/ x = Torn /\ made' = made
  <2>1. PICK at \in Places, x \in Nat \cup {Torn} :
              /\ files[at] \in Lines /\ files' = [files EXCEPT ![at] = Append(files[at], x)]
              /\ \/ x = made + 1 /\ made' = made + 1
                 \/ x = Torn /\ made' = made
    BY <1>3
  <2>2. made' \in Nat /\ made <= made' /\ (x = Torn \/ (x = made + 1 /\ x \in 1..made'))
    BY <1>0, <2>1
  <2>3. CASE a = at
    <3>1. PICK l \in Lines : l = files[at]
      BY <2>1
    <3>2. files'[a] = Append(l, x) /\ Numbers(l) /\ Rising(l)
      BY <1>0, <2>1, <2>3, <3>1, AbsentIsNothing DEF InOrder, Exists
    <3>3. Len(l) \in Nat
      BY DEF Lines
    <3>4. ASSUME NEW i \in 1..Len(Append(l, x))
          PROVE  Append(l, x)[i] = Torn \/ Append(l, x)[i] \in 1..made'
      <4>1. CASE i \in 1..Len(l)
        BY <1>0, <2>2, <3>2, <4>1, Appended DEF Numbers
      <4>2. CASE i = Len(l) + 1
        BY <2>2, <4>2, Appended
      <4> QED BY <3>3, <4>1, <4>2, Appended
    <3>5. ASSUME NEW i \in 1..Len(Append(l, x)), NEW j \in 1..Len(Append(l, x)), i < j,
                 Append(l, x)[i] # Torn, Append(l, x)[j] # Torn
          PROVE  Append(l, x)[i] < Append(l, x)[j]
      <4>1. CASE j \in 1..Len(l)
        <5>1. i \in 1..Len(l)
          BY <3>3, <3>5, <4>1
        <5>2. Append(l, x)[i] = l[i] /\ Append(l, x)[j] = l[j]
          BY <4>1, <5>1, Appended
        <5> QED BY <3>2, <3>5, <4>1, <5>1, <5>2 DEF Rising
      <4>2. CASE j = Len(l) + 1
        <5>1. i \in 1..Len(l)
          BY <3>3, <3>5, <4>2, Appended
        <5>2. Append(l, x)[i] = l[i] /\ Append(l, x)[j] = x
          BY <4>2, <5>1, Appended
        <5>3. l[i] \in 1..made /\ x = made + 1
          BY <2>2, <3>2, <3>5, <5>1, <5>2 DEF Numbers
        <5> QED BY <1>0, <5>2, <5>3
      <4> QED BY <3>3, <4>1, <4>2, Appended
    <3> QED BY <3>2, <3>4, <3>5 DEF Numbers, Rising
  <2>4. CASE a # at
    <3>1. files'[a] = files[a] /\ Exists(a)
      BY <1>0, <2>1, <2>4 DEF Exists
    <3>2. Numbers(files[a]) /\ Rising(files[a])
      BY <3>1 DEF InOrder
    <3> QED BY <1>0, <2>2, <3>1, <3>2 DEF Numbers, Rising
  <2> QED BY <2>3, <2>4
<1>4. CASE /\ made' = made
           /\ \E at \in Places, to \in Places :
                 /\ Exists(at) /\ ~Exists(to) /\ at # to
                 /\ files'[to] = files[at] /\ ~Exists(at)'
                 /\ \A b \in Places \ {at, to} : files'[b] = files[b]
  <2>1. PICK at \in Places, to \in Places :
                 /\ Exists(at) /\ ~Exists(to) /\ at # to
                 /\ files'[to] = files[at] /\ ~Exists(at)'
                 /\ \A b \in Places \ {at, to} : files'[b] = files[b]
    BY <1>4
  <2>2. PICK b \in Places : files'[a] = files[b] /\ Exists(b)
    BY <2>1 DEF Exists
  <2>3. Numbers(files[b]) /\ Rising(files[b])
    BY <2>2 DEF InOrder
  <2> QED BY <1>4, <2>2, <2>3 DEF Numbers, Rising
<1> QED BY <1>1, <1>2, <1>3, <1>4, FileSteps

LEMMA InOneFileKept ==
  TypeOK /\ Locked /\ Opened /\ InOrder /\ InOneFile /\ [Next]_vars => InOneFile'
<1> SUFFICES ASSUME TypeOK, Locked, Opened, InOrder, InOneFile, [Next]_vars PROVE InOneFile'
  OBVIOUS
<1> SUFFICES ASSUME NEW e \in 1..made' PROVE \E at \in Holding(e)' : Holding(e)' = {at}
  BY DEF InOneFile
<1>0. made \in Nat /\ files \in [Places -> Lines \cup {Absent}]
  BY DEF TypeOK
<1> DEFINE Now(a) == Exists(a) /\ e \in Range(files[a])
<1>h. /\ Holding(e) = {a \in Places : Now(a)}
      /\ Holding(e)' = {a \in Places : Now(a)'}
  BY DEF Holding
<1>s. ASSUME e \in 1..made, \A a \in Places : Now(a)' <=> Now(a)
      PROVE  \E at \in Holding(e)' : Holding(e)' = {at}
  BY <1>h, <1>s DEF InOneFile
<1>1. CASE files' = files /\ made' = made
  BY <1>1, <1>s DEF Exists
<1>2. CASE /\ made' = made
           /\ \E at \in Places : ~Exists(at) /\ files' = [files EXCEPT ![at] = <<>>]
  <2>1. PICK at \in Places : ~Exists(at) /\ files' = [files EXCEPT ![at] = <<>>]
    BY <1>2
  <2>2. ASSUME NEW a \in Places PROVE Now(a)' <=> Now(a)
    BY <1>0, <2>1, EmptyFile DEF Exists
  <2> HIDE DEF Now
  <2> QED BY <1>2, <1>s, <2>2
<1>3. CASE \E at \in Places, x \in Nat \cup {Torn} :
              /\ files[at] \in Lines /\ files' = [files EXCEPT ![at] = Append(files[at], x)]
              /\ \/ x = made + 1 /\ made' = made + 1
                 \/ x = Torn /\ made' = made
  <2>1. PICK at \in Places, x \in Nat \cup {Torn} :
              /\ files[at] \in Lines /\ files' = [files EXCEPT ![at] = Append(files[at], x)]
              /\ \/ x = made + 1 /\ made' = made + 1
                 \/ x = Torn /\ made' = made
    BY <1>3
  <2>2. Range(Append(files[at], x)) = Range(files[at]) \cup {x} /\ Append(files[at], x) \in Lines
    BY <2>1, Appended
  <2>3. /\ files'[at] = Append(files[at], x) /\ \A a \in Places \ {at} : files'[a] = files[a]
        /\ Exists(at) /\ Exists(at)'
    BY <1>0, <2>1, <2>2, AbsentIsNothing DEF Exists
  <2>4. CASE x # e
    <3>1. e \in 1..made
      BY <1>0, <2>1, <2>4
    <3>2. ASSUME NEW a \in Places PROVE Now(a)' <=> Now(a)
      <4>1. CASE a = at
        <5>1. Exists(a)' /\ Exists(a)
          BY <2>3, <4>1
        <5>2. Range(files'[a]) = Range(files[a]) \cup {x}
          BY <2>2, <2>3, <4>1
        <5> QED BY <2>4, <5>1, <5>2
      <4>2. CASE a # at
        BY <2>3, <4>2 DEF Exists
      <4> QED BY <4>1, <4>2
    <3> HIDE DEF Now
    <3> QED BY <1>s, <3>1, <3>2
  <2>5. CASE x = e
    <3>1. e = made + 1
      BY <1>0, <2>1, <2>5, SessionsAssumption
    <3>2. ASSUME NEW a \in Places, Now(a) PROVE FALSE
      <4>1. files[a] \in Lines /\ Numbers(files[a])
        BY <1>0, <3>2 DEF InOrder, Exists
      <4>2. PICK i \in 1..Len(files[a]) : files[a][i] = e
        BY <3>2, <4>1 DEF Range, Lines
      <4>3. e = Torn \/ e \in 1..made
        BY <4>1, <4>2 DEF Numbers
      <4> QED BY <1>0, <3>1, <4>3, SessionsAssumption
    <3>3. Now(at)'
      BY <2>2, <2>3, <2>5
    <3>4. ASSUME NEW a \in Places \ {at} PROVE ~Now(a)'
      BY <2>3, <3>2 DEF Exists
    <3> HIDE DEF Now
    <3>5. Holding(e)' = {at}
      BY <1>h, <3>3, <3>4
    <3> QED BY <3>5
  <2> QED BY <2>4, <2>5
<1>4. CASE /\ made' = made
           /\ \E at \in Places, to \in Places :
                 /\ Exists(at) /\ ~Exists(to) /\ at # to
                 /\ files'[to] = files[at] /\ ~Exists(at)'
                 /\ \A b \in Places \ {at, to} : files'[b] = files[b]
  <2>1. PICK at \in Places, to \in Places :
                 /\ Exists(at) /\ ~Exists(to) /\ at # to
                 /\ files'[to] = files[at] /\ ~Exists(at)'
                 /\ \A b \in Places \ {at, to} : files'[b] = files[b]
    BY <1>4
  <2>2. PICK h \in Holding(e) : Holding(e) = {h}
    BY <1>4 DEF InOneFile
  <2>3. /\ Now(to)' <=> Now(at)
        /\ ~Now(at)' /\ ~Now(to)
    BY <2>1 DEF Exists
  <2>4. \A b \in Places \ {at, to} : Now(b)' <=> Now(b)
    BY <2>1 DEF Exists
  <2> HIDE DEF Now
  <2>5. CASE h = at
    <3>1. Holding(e)' = {to}
      BY <1>h, <2>1, <2>2, <2>3, <2>4, <2>5
    <3> QED BY <3>1
  <2>6. CASE h # at
    <3>1. Holding(e)' = {h}
      BY <1>h, <2>1, <2>2, <2>3, <2>4, <2>6
    <3> QED BY <3>1
  <2> QED BY <2>5, <2>6
<1> QED BY <1>1, <1>2, <1>3, <1>4, FileSteps

LEMMA AnElement ==
  ASSUME NEW S, NEW s \in Seq(S), NEW k \in 1..Len(s)
  PROVE  s[k] \in S
OBVIOUS

LEMMA VouchedKept ==
  TypeOK /\ Locked /\ Opened /\ Vouched /\ [Next]_vars => Vouched'
<1> SUFFICES ASSUME TypeOK, Locked, Opened, Vouched, [Next]_vars PROVE Vouched'
  OBVIOUS
<1>t. TypeOK'
  BY TypeKept
<1>0. audit \in Seq([to : Places, sha : Lines]) /\ Len(audit) \in Nat
  BY DEF TypeOK
<1>1. ASSUME NEW k \in 1..Len(audit)
      PROVE  /\ audit[k].to \in Aside /\ files'[audit[k].to] # Absent
             /\ Begins(audit[k].sha, files'[audit[k].to])
  <2>1. PICK a \in Aside : a = audit[k].to /\ Exists(a) /\ Begins(audit[k].sha, files[a])
    BY DEF Vouched
  <2>2. files'[a] # Absent /\ Begins(files[a], files'[a])
    BY <2>1, AsideStays DEF Stays, Exists
  <2>3. audit[k].sha \in Lines /\ files[a] \in Lines /\ files'[a] \in Lines
    <3>1. audit[k] \in [to : Places, sha : Lines] /\ a \in Places
      BY <1>0, AnElement, PlacesTyped
    <3>2. files[a] \in Lines \cup {Absent} /\ files'[a] \in Lines \cup {Absent}
      BY <1>t, <3>1 DEF TypeOK
    <3> QED BY <2>1, <2>2, <3>1, <3>2 DEF Exists
  <2> QED BY <2>1, <2>2, <2>3, BeginsGrown DEF Exists
<1>2. ASSUME NEW p \in Procs, PurgeAudit(p) PROVE Vouched'
  <2>1. PICK line \in [to : Places, sha : Lines] :
          line.to = cmd[p].at /\ line.sha = cmd[p].data /\ audit' = Append(audit, line)
    <3>1. cmd[p].at \in Places /\ cmd[p].data \in Lines
      BY <1>2, PlacesTyped DEF PurgeAudit, Opened, TypeOK, Command
    <3>2. [to |-> cmd[p].at, sha |-> cmd[p].data] \in [to : Places, sha : Lines]
      BY <3>1
    <3> QED BY <1>2, <3>2 DEF PurgeAudit
  <2>2. /\ line.to \in Aside /\ Exists(line.to) /\ Begins(line.sha, files[line.to])
        /\ files' = files
    BY <1>2, <2>1 DEF PurgeAudit, Opened
  <2>3. ASSUME NEW k \in 1..Len(audit')
        PROVE  /\ audit'[k].to \in Aside /\ files'[audit'[k].to] # Absent
               /\ Begins(audit'[k].sha, files'[audit'[k].to])
    <3>1. CASE k \in 1..Len(audit)
      BY <1>0, <1>1, <2>1, <3>1
    <3>2. CASE k = Len(audit) + 1
      BY <1>0, <2>1, <2>2, <3>2 DEF Exists
    <3> QED BY <1>0, <2>1, <3>1, <3>2
  <2> QED BY <2>3 DEF Vouched, Exists
<1>3. CASE audit' = audit
  BY <1>1, <1>3 DEF Vouched, Exists
<1>4. audit' = audit \/ \E p \in Procs : PurgeAudit(p)
  BY DEF Next, vars, Log, Purge, DayIndex, PurgeFind, LogStart, LogOpen, LogLook, LogWrite,
         Roll, WriteTmp, Replace, PurgeRead, PurgeMove, Kill, Disk
<1> QED BY <1>2, <1>3, <1>4

-----------------------------------------------------------------------------
(* Roll-ups *)

On(d) == LogsOn(d) \cup PurgesOn(d)

\* What Undisturbed and IndexIsTheDays say of one day.
DayOK(d) ==
  /\ LogsOn(d) = {} \/ PurgesOn(d) = {}
  /\ \A p \in On(d) :
       /\ cmd[p].pc \in {"look", "write"} => cmd[p].at = Live(d, cmd[p].session)
       /\ cmd[p].pc \in {"tmp", "tmpP"} => cmd[p].rolled = Rolled(d)
       /\ cmd[p].pc \in {"replace", "replaceP"} => tmp[d] = Rolled(d)
  /\ On(d) = {} => index[d] = Rolled(d)

LEMMA DayByDay == (Undisturbed /\ IndexIsTheDays) <=> \A d \in Days \ crossed : DayOK(d)
BY DEF Undisturbed, IndexIsTheDays, DayOK, On

\* A day's roll-up changes by a log's write on the day and by a purge's move of it.
LEMMA RolledKept ==
  ASSUME TypeOK, Locked, Opened, NEW d \in Days, NEW p \in Procs,
         \/ files' = files \/ LogOpen(p) \/ Kill(p)
         \/ LogWrite(p) /\ cmd[p].day # d
         \/ cmd[p].day # d /\ \E n \in 1..MaxPurges : PurgeMove(p, n)
  PROVE  Rolled(d)' = Rolled(d)
<1> DEFINE Entry(s) == IF Exists(Live(d, s)) THEN Whole(files[Live(d, s)]) ELSE {}
<1> SUFFICES ASSUME NEW s \in Sessions PROVE Entry(s)' = Entry(s)
  BY DEF Rolled
<1>0. PICK a \in Places : a = Live(d, s)
  BY PlacesTyped
<1>1. CASE files' = files
  BY <1>1 DEF Exists
<1>2. ASSUME LogOpen(p) PROVE Entry(s)' = Entry(s)
  <2> SUFFICES ASSUME NEW at \in Places, ~Exists(at), files' = [files EXCEPT ![at] = <<>>]
               PROVE  Entry(s)' = Entry(s)
    BY <1>1, <1>2, OpenFile
  <2>1. CASE a = at
    <3>1. files'[a] = <<>> /\ ~Exists(a)
      BY <2>1 DEF TypeOK
    <3>2. Whole(files'[a]) = {}
      BY <3>1, EmptyFile DEF Whole
    <3> QED BY <1>0, <3>1, <3>2
  <2>2. CASE a # at
    BY <1>0, <2>2 DEF Exists, TypeOK
  <2> QED BY <2>1, <2>2
<1>3. ASSUME LogWrite(p), cmd[p].day # d PROVE Entry(s)' = Entry(s)
  <2>1. PICK at \in Places, x \in Nat \cup {Torn} :
          /\ at = cmd[p].at /\ cmd[p].pc = "write"
          /\ files' = [files EXCEPT ![at] = Append(files[at], x)]
    BY <1>3, WriteFile
  <2>2. a # at
    BY <1>0, <1>3, <2>1, Apart DEF Opened
  <2> QED BY <1>0, <2>1, <2>2 DEF Exists, TypeOK
<1>4. ASSUME Kill(p), files' # files PROVE Entry(s)' = Entry(s)
  <2>1. PICK at \in Places :
          files[at] \in Lines /\ files' = [files EXCEPT ![at] = Append(files[at], Torn)]
    BY <1>4, WriteFile
  <2>2. CASE a = at
    <3>1. /\ Append(files[a], Torn) \in Lines
          /\ Range(Append(files[a], Torn)) = Range(files[a]) \cup {Torn}
      BY <2>1, <2>2, Appended
    <3>2. files'[a] = Append(files[a], Torn) /\ Exists(a) /\ Exists(a)'
      BY <2>1, <2>2, <3>1, AbsentIsNothing DEF TypeOK, Exists
    <3>3. Whole(files'[a]) = Whole(files[a])
      BY <3>1, <3>2 DEF Whole
    <3> QED BY <1>0, <3>2, <3>3 DEF Exists
  <2>3. CASE a # at
    BY <1>0, <2>1, <2>3 DEF Exists, TypeOK
  <2> QED BY <2>2, <2>3
<1>5. ASSUME NEW n \in 1..MaxPurges, PurgeMove(p, n), cmd[p].day # d
      PROVE  Entry(s)' = Entry(s)
  <2>1. PICK at \in Places, to \in Aside :
          /\ at = Live(cmd[p].day, cmd[p].session)
          /\ \A b \in Places \ {at, to} : files'[b] = files[b]
    BY <1>5, MoveFile
  <2>2. cmd[p].day # d
    BY <1>5
  <2>3. a # at /\ a # to
    BY <1>0, <2>1, <2>2, Apart
  <2> QED BY <1>0, <2>1, <2>3 DEF Exists
<1> HIDE DEF Entry
<1> QED
  <2>1. files' = files => Entry(s)' = Entry(s)
    BY <1>1
  <2> QED BY <1>2, <1>3, <1>4, <1>5, <2>1

\* A day on which nothing happens stays right.
LEMMA Elsewhere ==
  ASSUME NEW d \in Days, DayOK(d), Rolled(d)' = Rolled(d),
         index'[d] = index[d], tmp'[d] = tmp[d],
         \A q \in Procs :
           \/ q \notin On(d) /\ q \notin On(d)'
           \/ /\ Same(q) /\ cmd'[q].pc = cmd[q].pc /\ cmd'[q].rolled = cmd[q].rolled
              /\ cmd'[q].at = cmd[q].at \/ cmd[q].at # Live(d, cmd[q].session)
                   \/ cmd[q].pc \notin {"look", "write"}
  PROVE  DayOK(d)'
<1>1. \A q \in Procs : (q \in LogsOn(d) <=> q \in LogsOn(d)')
                    /\ (q \in PurgesOn(d) <=> q \in PurgesOn(d)')
  BY DEF On, LogsOn, PurgesOn, Same
<1>2. LogsOn(d)' = LogsOn(d) /\ PurgesOn(d)' = PurgesOn(d) /\ On(d)' = On(d) /\ On(d) \subseteq Procs
  BY <1>1 DEF LogsOn, PurgesOn, On
<1>3. ASSUME NEW q \in On(d)
      PROVE  /\ cmd'[q].pc \in {"look", "write"} => cmd'[q].at = Live(d, cmd'[q].session)
             /\ cmd'[q].pc \in {"tmp", "tmpP"} => cmd'[q].rolled = Rolled(d)
             /\ cmd'[q].pc \in {"replace", "replaceP"} => tmp'[d] = Rolled(d)
  BY <1>2, <1>3 DEF DayOK, Same
<1> QED BY <1>2, <1>3 DEF DayOK

\* On a day that is right whoever is at work is alone.
LEMMA AloneOn ==
  ASSUME Locked, NEW d \in Days, DayOK(d), NEW p \in On(d)
  PROVE  On(d) = {p}
BY OneAtATime DEF DayOK, On, LogsOn, PurgesOn

LEMMA DaysKept ==
  TypeOK /\ Locked /\ Opened /\ Undisturbed /\ IndexIsTheDays /\ [Next]_vars
  => (Undisturbed /\ IndexIsTheDays)'
<1> SUFFICES ASSUME TypeOK, Locked, Opened, [Next]_vars,
                    \A d \in Days \ crossed : DayOK(d),
                    NEW d \in Days, d \notin crossed'
             PROVE  DayOK(d)'
  BY DEF Undisturbed, IndexIsTheDays, DayOK, On
<1>k. d \notin crossed => DayOK(d)
  OBVIOUS
<1>n. \A q \in Procs :
        /\ q \in LogsOn(d) <=> cmd[q].day = d /\ cmd[q].pc \in {"look", "write", "roll", "tmp", "replace"}
        /\ q \in PurgesOn(d) <=> cmd[q].day = d /\ cmd[q].pc \in {"audit", "rollP", "tmpP", "replaceP"}
        /\ q \in On(d) <=> cmd[q].day = d /\ cmd[q].pc \in
             {"look", "write", "roll", "tmp", "replace", "audit", "rollP", "tmpP", "replaceP"}
  BY DEF LogsOn, PurgesOn, On
<1>N. \A q \in Procs :
        /\ q \in LogsOn(d)' <=> cmd'[q].day = d /\ cmd'[q].pc \in {"look", "write", "roll", "tmp", "replace"}
        /\ q \in PurgesOn(d)' <=> cmd'[q].day = d /\ cmd'[q].pc \in {"audit", "rollP", "tmpP", "replaceP"}
        /\ q \in On(d)' <=> cmd'[q].day = d /\ cmd'[q].pc \in
             {"look", "write", "roll", "tmp", "replace", "audit", "rollP", "tmpP", "replaceP"}
  BY DEF LogsOn, PurgesOn, On
\* A step of p, off the day before and after.
<1>e. ASSUME NEW p \in Procs, Alone(p), p \notin On(d), p \notin On(d)', d \notin crossed,
             Rolled(d)' = Rolled(d), index'[d] = index[d], tmp'[d] = tmp[d]
      PROVE  DayOK(d)'
  BY <1>e, <1>k, Elsewhere DEF Alone, Same
\* A step of p on the day, where p is alone.
<1>a. ASSUME NEW p \in Procs, Alone(p), p \in On(d), d \notin crossed, Same(p),
             p \in On(d)', p \in LogsOn(d)' => p \in LogsOn(d),
             p \in PurgesOn(d)' => p \in PurgesOn(d),
             cmd'[p].pc \in {"look", "write"} => cmd'[p].at = Live(d, cmd'[p].session),
             cmd'[p].pc \in {"tmp", "tmpP"} => cmd'[p].rolled = Rolled(d)',
             cmd'[p].pc \in {"replace", "replaceP"} => tmp'[d] = Rolled(d)'
      PROVE  DayOK(d)'
  <2>1. On(d) = {p}
    BY <1>a, <1>k, AloneOn
  <2>2. On(d)' = {p}
    <3>1. \A q \in Procs \ {p} : q \notin On(d)'
      BY <1>a, <1>n, <1>N, <2>1 DEF Alone
    <3>2. On(d)' \subseteq Procs
      BY DEF On, LogsOn, PurgesOn
    <3> QED BY <1>a, <3>1, <3>2
  <2>3. LogsOn(d)' = {} \/ PurgesOn(d)' = {}
    <3>1. p \notin LogsOn(d)' \/ p \notin PurgesOn(d)'
      BY <1>N
    <3>2. LogsOn(d)' \subseteq {p} /\ PurgesOn(d)' \subseteq {p}
      BY <2>2 DEF On
    <3> QED BY <3>1, <3>2
  <2> QED BY <1>a, <2>2, <2>3 DEF DayOK
<1>1. ASSUME NEW p \in Procs, NEW s \in Sessions, PurgeFind(p, s) PROVE DayOK(d)'
  <2>1. /\ Alone(p) /\ cmd[p].pc = "off" /\ cmd'[p].pc = "root"
        /\ d \notin crossed /\ files' = files /\ index' = index /\ tmp' = tmp
    BY <1>1, FindView DEF PurgeFind, Disk
  <2>2. Rolled(d)' = Rolled(d)
    BY <2>1 DEF Rolled, Exists
  <2> QED BY <1>e, <1>n, <1>N, <2>1, <2>2
<1>2. ASSUME NEW p \in Procs, NEW e \in Days, NEW s \in Sessions, LogStart(p, e, s)
      PROVE  DayOK(d)'
  <2>1. /\ Alone(p) /\ cmd[p].pc = "off" /\ cmd'[p].pc = "lock"
        /\ d \notin crossed /\ files' = files /\ index' = index /\ tmp' = tmp
    BY <1>2, StartView DEF LogStart, Disk, Counters
  <2>2. Rolled(d)' = Rolled(d)
    BY <2>1 DEF Rolled, Exists
  <2> QED BY <1>e, <1>n, <1>N, <2>1, <2>2
<1>3. ASSUME NEW p \in Procs, LogOpen(p) PROVE DayOK(d)'
  <2>1. /\ Alone(p) /\ Same(p) /\ cmd[p].pc = "lock" /\ cmd'[p].pc = "look"
        /\ cmd'[p].at = Live(cmd[p].day, cmd[p].session)
        /\ index' = index /\ tmp' = tmp /\ dayLock[cmd[p].day] = Nobody
        /\ Beside(cmd[p].day, PurgesOn(cmd[p].day))
    BY <1>3, OpenView DEF LogOpen
  <2>2. CASE cmd[p].day # d
    <3>1. d \notin crossed
      BY <2>1, <2>2 DEF Beside
    <3>2. Rolled(d)' = Rolled(d)
      BY <1>3, RolledKept
    <3> QED BY <1>e, <1>n, <1>N, <2>1, <2>2, <3>1, <3>2 DEF Same
  <2>3. CASE cmd[p].day = d
    <3>1. PurgesOn(d) = {}
      BY <2>1, <2>3 DEF Beside
    <3>2. LogsOn(d) = {}
      BY <2>1, <2>3, SessionsAssumption DEF Locked, LogsOn
    <3>3. On(d)' = {p} /\ LogsOn(d)' = {p} /\ PurgesOn(d)' = {}
      <4>1. \A q \in Procs \ {p} : q \notin LogsOn(d)' /\ q \notin PurgesOn(d)'
        BY <1>n, <1>N, <2>1, <3>1, <3>2 DEF Alone
      <4>2. p \in LogsOn(d)' /\ p \notin PurgesOn(d)'
        BY <1>N, <2>1, <2>3 DEF Same
      <4>3. LogsOn(d)' \subseteq Procs /\ PurgesOn(d)' \subseteq Procs
        BY DEF LogsOn, PurgesOn
      <4> QED BY <4>1, <4>2, <4>3 DEF On
    <3> QED BY <2>1, <2>3, <3>3 DEF DayOK, Same
  <2> QED BY <2>2, <2>3
<1>4. ASSUME NEW p \in Procs, LogLook(p) PROVE DayOK(d)'
  <2>0. /\ d \notin crossed /\ index' = index /\ tmp' = tmp /\ files' = files
        /\ cmd[p].pc = "look"
    BY <1>4 DEF LogLook, Disk, Counters
  <2>1. Rolled(d)' = Rolled(d)
    BY <2>0, RolledKept
  <2>2. CASE p \in On(d)
    <3>1. cmd[p].at = Live(d, cmd[p].session) /\ cmd[p].day = d
      BY <1>k, <1>n, <2>0, <2>2 DEF DayOK
    <3>2. Exists(Live(d, cmd[p].session))
      BY <2>0, <3>1 DEF Opened
    <3>3. Goto(p, "write")
      BY <1>4, <3>1, <3>2 DEF LogLook
    <3>4. Alone(p) /\ Same(p) /\ cmd'[p].pc = "write" /\ cmd'[p].at = cmd[p].at
      BY <3>3, GotoView
    <3>5. p \in LogsOn(d) /\ p \in On(d)' /\ p \notin PurgesOn(d)'
      BY <1>n, <1>N, <2>0, <3>1, <3>4 DEF Same
    <3> QED BY <1>a, <2>0, <2>2, <3>1, <3>4, <3>5 DEF Same
  <2>3. CASE p \notin On(d)
    <3>1. cmd[p].day # d
      BY <1>n, <2>0, <2>3
    <3>2. Alone(p) /\ (cmd'[p].pc = "off" \/ cmd'[p].day # d)
      BY <1>4, <3>1, GotoView, ReleasedView DEF LogLook, Same
    <3>3. p \notin On(d)'
      BY <1>N, <3>2
    <3> QED BY <1>e, <2>0, <2>1, <2>3, <3>2, <3>3
  <2> QED BY <2>2, <2>3
<1>5. ASSUME NEW p \in Procs, LogWrite(p) PROVE DayOK(d)'
  <2>0. /\ d \notin crossed /\ index' = index /\ tmp' = tmp /\ cmd[p].pc = "write"
        /\ Alone(p) /\ Same(p) /\ cmd'[p].pc = "roll"
    BY <1>5, GotoView DEF LogWrite
  <2>1. CASE cmd[p].day = d
    <3>1. p \in On(d) /\ p \in LogsOn(d) /\ p \in On(d)' /\ p \notin PurgesOn(d)'
      BY <1>n, <1>N, <2>0, <2>1 DEF Same
    <3> QED BY <1>a, <2>0, <3>1
  <2>2. CASE cmd[p].day # d
    <3>1. p \notin On(d) /\ p \notin On(d)'
      BY <1>n, <1>N, <2>0, <2>2 DEF Same
    <3>2. Rolled(d)' = Rolled(d)
      BY <1>5, <2>2, RolledKept
    <3> QED BY <1>e, <2>0, <3>1, <3>2
  <2> QED BY <2>1, <2>2
<1>6. ASSUME NEW p \in Procs, Roll(p) PROVE DayOK(d)'
  <2>0. /\ d \notin crossed /\ index' = index /\ tmp' = tmp /\ files' = files
        /\ cmd[p].pc \in {"roll", "rollP"} /\ Alone(p) /\ Same(p)
        /\ cmd'[p].pc = IF cmd[p].pc = "roll" THEN "tmp" ELSE "tmpP"
        /\ cmd'[p].rolled = Rolled(cmd[p].day)
    BY <1>6, RollView DEF Roll, Disk, Counters
  <2>1. Rolled(d)' = Rolled(d)
    BY <2>0, RolledKept
  <2>2. CASE cmd[p].day = d
    <3>1. p \in On(d) /\ p \in On(d)'
      BY <1>n, <1>N, <2>0, <2>2 DEF Same
    <3>2. /\ p \in LogsOn(d)' => p \in LogsOn(d)
          /\ p \in PurgesOn(d)' => p \in PurgesOn(d)
      BY <1>n, <1>N, <2>0, <2>2
    <3> QED BY <1>a, <2>0, <2>1, <2>2, <3>1, <3>2
  <2>3. CASE cmd[p].day # d
    <3>1. p \notin On(d) /\ p \notin On(d)'
      BY <1>n, <1>N, <2>0, <2>3 DEF Same
    <3> QED BY <1>e, <2>0, <2>1, <3>1
  <2> QED BY <2>2, <2>3
<1>7. ASSUME NEW p \in Procs, WriteTmp(p) PROVE DayOK(d)'
  <2>0. /\ d \notin crossed /\ index' = index /\ files' = files
        /\ tmp' = [tmp EXCEPT ![cmd[p].day] = cmd[p].rolled]
        /\ cmd[p].pc \in {"tmp", "tmpP"} /\ Alone(p) /\ Same(p)
        /\ cmd'[p].pc = IF cmd[p].pc = "tmp" THEN "replace" ELSE "replaceP"
    BY <1>7, GotoView DEF WriteTmp, Counters
  <2>1. Rolled(d)' = Rolled(d)
    BY <2>0, RolledKept
  <2>2. CASE cmd[p].day = d
    <3>1. p \in On(d) /\ p \in On(d)'
      BY <1>n, <1>N, <2>0, <2>2 DEF Same
    <3>2. /\ p \in LogsOn(d)' => p \in LogsOn(d)
          /\ p \in PurgesOn(d)' => p \in PurgesOn(d)
      BY <1>n, <1>N, <2>0, <2>2
    <3>3. tmp'[d] = Rolled(d)
      BY <1>k, <2>0, <2>2, <3>1 DEF DayOK, TypeOK
    <3> QED BY <1>a, <2>0, <2>1, <3>1, <3>2, <3>3
  <2>3. CASE cmd[p].day # d
    <3>1. p \notin On(d) /\ p \notin On(d)'
      BY <1>n, <1>N, <2>0, <2>3 DEF Same
    <3>2. tmp'[d] = tmp[d]
      BY <2>0, <2>3 DEF TypeOK
    <3> QED BY <1>e, <2>0, <2>1, <3>1, <3>2
  <2> QED BY <2>2, <2>3
<1>8. ASSUME NEW p \in Procs, Replace(p) PROVE DayOK(d)'
  <2>0. /\ d \notin crossed /\ files' = files
        /\ cmd[p].pc \in {"replace", "replaceP"} /\ Alone(p)
        /\ cmd'[p].pc \in {"off", "read"}
    BY <1>8, GotoView, ReleasedView DEF Replace, Counters
  <2>1. Rolled(d)' = Rolled(d)
    BY <2>0, RolledKept
  <2>2. p \notin On(d)'
    BY <1>N, <2>0
  <2>3. CASE cmd[p].day = d
    <3>1. p \in On(d) /\ tmp[d] = Rolled(d)
      BY <1>k, <1>n, <2>0, <2>3 DEF DayOK
    <3>2. index'[d] = Rolled(d)
      <4>1. tmp[d] # Absent
        BY <3>1, RolledTyped, AbsentIsNothing
      <4> QED BY <1>8, <2>3, <3>1, <4>1 DEF Replace, TypeOK
    <3>3. On(d) = {p}
      BY <1>k, <2>0, <3>1, AloneOn
    <3>4. On(d)' = {}
      <4>1. \A q \in Procs \ {p} : q \notin On(d)'
        BY <1>n, <1>N, <2>0, <3>3 DEF Alone
      <4>2. On(d)' \subseteq Procs
        BY DEF On, LogsOn, PurgesOn
      <4> QED BY <2>2, <4>1, <4>2
    <3> QED BY <2>1, <3>2, <3>4 DEF DayOK, On
  <2>4. CASE cmd[p].day # d
    <3>1. p \notin On(d)
      BY <1>n, <2>4
    <3>2. index'[d] = index[d] /\ tmp'[d] = tmp[d]
      BY <1>8, <2>4 DEF Replace, TypeOK
    <3> QED BY <1>e, <2>0, <2>1, <2>2, <3>1, <3>2
  <2> QED BY <2>3, <2>4
<1>9. ASSUME NEW p \in Procs, NEW e \in Days, PurgeRead(p, e) PROVE DayOK(d)'
  <2>0. /\ d \notin crossed /\ index' = index /\ tmp' = tmp /\ files' = files
        /\ cmd[p].pc \in {"root", "read"}
    BY <1>9 DEF PurgeRead, Disk, Counters
  <2>1. Rolled(d)' = Rolled(d)
    BY <2>0, RolledKept
  <2>2. Alone(p) /\ cmd'[p].pc \in {"move", "off"}
    BY <1>9, ReadView, ReleasedView DEF PurgeRead
  <2>3. p \notin On(d) /\ p \notin On(d)'
    BY <1>n, <1>N, <2>0, <2>2
  <2> QED BY <1>e, <2>0, <2>1, <2>2, <2>3
<1>10. ASSUME NEW p \in Procs, NEW n \in 1..MaxPurges, PurgeMove(p, n) PROVE DayOK(d)'
  <2>0. /\ index' = index /\ tmp' = tmp /\ cmd[p].pc = "move"
        /\ Beside(cmd[p].day, LogsOn(cmd[p].day))
    BY <1>10 DEF PurgeMove
  <2>1. PICK at \in Places, to \in Aside :
           /\ at = Live(cmd[p].day, cmd[p].session)
           /\ Same(p) /\ cmd'[p].pc = "audit"
           /\ \A q \in Procs \ {p} :
                /\ Same(q) /\ cmd'[q].pc = cmd[q].pc /\ cmd'[q].rolled = cmd[q].rolled
                /\ cmd'[q].at = IF cmd[q].at = at THEN to ELSE cmd[q].at
    BY <1>10, MoveFile
  <2>2. CASE cmd[p].day # d
    <3>1. d \notin crossed
      BY <2>0, <2>2 DEF Beside
    <3>2. Rolled(d)' = Rolled(d)
      BY <1>10, <2>2, RolledKept
    <3>3. p \notin On(d) /\ p \notin On(d)'
      BY <1>n, <1>N, <2>1, <2>2 DEF Same
    <3>4. ASSUME NEW q \in Procs \ {p}, q \in On(d)
          PROVE  cmd'[q].at = cmd[q].at \/ cmd[q].at # Live(d, cmd[q].session)
      <4> SUFFICES ASSUME cmd[q].at = Live(d, cmd[q].session) PROVE cmd[q].at # at
        BY <2>1
      <4> QED BY <2>1, <2>2, Apart
    <3>5. \A q \in Procs \ {p} : q \notin On(d) => q \notin On(d)'
      BY <1>n, <1>N, <2>1 DEF Same
    <3>6. \A q \in Procs :
           \/ q \notin On(d) /\ q \notin On(d)'
           \/ /\ Same(q) /\ cmd'[q].pc = cmd[q].pc /\ cmd'[q].rolled = cmd[q].rolled
              /\ cmd'[q].at = cmd[q].at \/ cmd[q].at # Live(d, cmd[q].session)
                   \/ cmd[q].pc \notin {"look", "write"}
      BY <2>1, <3>3, <3>4, <3>5
    <3> QED BY <1>k, <2>0, <3>1, <3>2, <3>6, Elsewhere
  <2>3. CASE cmd[p].day = d
    <3>1. LogsOn(d) = {}
      BY <2>0, <2>3 DEF Beside
    <3>2. PurgesOn(d) \subseteq {}
      BY <2>0, OneAtATime DEF PurgesOn
    <3>3. On(d)' = {p} /\ LogsOn(d)' = {} /\ PurgesOn(d)' = {p}
      <4>1. \A q \in Procs \ {p} : q \notin LogsOn(d)' /\ q \notin PurgesOn(d)'
        BY <1>n, <1>N, <2>1, <3>1, <3>2 DEF Same
      <4>2. p \in PurgesOn(d)' /\ p \notin LogsOn(d)'
        BY <1>N, <2>1, <2>3 DEF Same
      <4>3. LogsOn(d)' \subseteq Procs /\ PurgesOn(d)' \subseteq Procs
        BY DEF LogsOn, PurgesOn
      <4> QED BY <4>1, <4>2, <4>3 DEF On
    <3> QED BY <2>1, <3>3 DEF DayOK
  <2> QED BY <2>2, <2>3
<1>11. ASSUME NEW p \in Procs, PurgeAudit(p) PROVE DayOK(d)'
  <2>0. /\ d \notin crossed /\ index' = index /\ tmp' = tmp /\ files' = files
        /\ cmd[p].pc = "audit" /\ Alone(p) /\ Same(p) /\ cmd'[p].pc = "rollP"
    BY <1>11, GotoView DEF PurgeAudit, Counters
  <2>1. Rolled(d)' = Rolled(d)
    BY <2>0, RolledKept
  <2>2. CASE cmd[p].day = d
    <3>1. p \in On(d) /\ p \in On(d)' /\ p \in PurgesOn(d) /\ p \notin LogsOn(d)'
      BY <1>n, <1>N, <2>0, <2>2 DEF Same
    <3> QED BY <1>a, <2>0, <3>1
  <2>3. CASE cmd[p].day # d
    <3>1. p \notin On(d) /\ p \notin On(d)'
      BY <1>n, <1>N, <2>0, <2>3 DEF Same
    <3> QED BY <1>e, <2>0, <2>1, <3>1
  <2> QED BY <2>2, <2>3
<1>12. ASSUME NEW p \in Procs, Kill(p) PROVE DayOK(d)'
  <2>1. /\ Alone(p) /\ cmd'[p].pc = "off" /\ index' = index /\ tmp' = tmp
        /\ d \notin crossed /\ p \notin On(d)
    BY <1>12, ReleasedView DEF Kill, On
  <2>2. p \notin On(d)'
    BY <1>N, <2>1
  <2>3. Rolled(d)' = Rolled(d)
    BY <1>12, RolledKept
  <2> QED BY <1>e, <2>1, <2>2, <2>3
<1>13. CASE UNCHANGED vars
  BY <1>k, <1>13 DEF vars, DayOK, On, LogsOn, PurgesOn, Rolled, Exists
<1> QED
  BY <1>1, <1>2, <1>3, <1>4, <1>5, <1>6, <1>7, <1>8, <1>9, <1>10, <1>11, <1>12, <1>13
     DEF Next, Log, Purge, DayIndex

-----------------------------------------------------------------------------
(* The invariant, and what follows *)

LEMMA Initially == Init => IInv
<1> SUFFICES ASSUME Init PROVE IInv
  OBVIOUS
<1>0. NoneRolled \in RollUps /\ 0 \in Nat
  BY DEF NoneRolled, RollUps
<1>1. TypeOK
  <2>1. audit \in Seq([to : Places, sha : Lines])
    BY DEF Init
  <2> QED BY <1>0, <2>1, OffTyped DEF Init, TypeOK
<1>2. Locked /\ Opened
  BY OffView DEF Init, Locked, Opened
<1>3. InOneFile /\ InOrder /\ Vouched
  BY DEF Init, InOneFile, InOrder, Vouched, Exists
<1>4. \A d \in Days : Rolled(d) = NoneRolled
  BY PlacesTyped DEF Init, Rolled, NoneRolled, Exists
<1>5. Undisturbed /\ IndexIsTheDays
  BY <1>4, OffView DEF Init, Undisturbed, IndexIsTheDays, LogsOn, PurgesOn
<1> QED BY <1>1, <1>2, <1>3, <1>5 DEF IInv

LEMMA Invariance == Spec => []IInv
<1>1. IInv /\ [Next]_vars => IInv'
  BY TypeKept, LockedKept, OpenedKept, InOneFileKept, InOrderKept, VouchedKept, DaysKept
     DEF IInv
<1> QED BY <1>1, Initially, PTL DEF Spec

\* Types: every file is absent or lines, every command is one.
THEOREM TypeCorrect == Spec => []TypeOK
<1>1. IInv => TypeOK
  BY DEF IInv
<1> QED BY <1>1, Invariance, PTL

\* However logs, purges and kills of any number of processes interleave, each event
\* is in one file, in order, and what an audit line vouches for is where it says.
THEOREM JournalLosesNothing == Spec => []NothingDeleted
<1>1. IInv => NothingDeleted
  <2> SUFFICES ASSUME IInv PROVE NothingDeleted
    OBVIOUS
  <2> QED BY DEF IInv, InOneFile, InOrder, Rising, Vouched, NothingDeleted
<1> QED BY <1>1, Invariance, PTL

\* The roll-up of a day whose last log or purge met none of the other kind and was
\* not killed is the day's, whatever happened on the day before.
THEOREM RollUpsAreTrue == Spec => []IndexIsTheDays
<1>1. IInv => IndexIsTheDays
  BY DEF IInv
<1> QED BY <1>1, Invariance, PTL

\* A log and another of its day, a purge and another, never work at once.
THEOREM OneLogADay ==
  Spec => [](/\ \A d \in Days : \A p, q \in LogsOn(d) : p = q
             /\ \A d, e \in Days : \A p \in PurgesOn(d), q \in PurgesOn(e) : p = q)
<1>1. IInv => /\ \A d \in Days : \A p, q \in LogsOn(d) : p = q
              /\ \A d, e \in Days : \A p \in PurgesOn(d), q \in PurgesOn(e) : p = q
  BY OneAtATime DEF IInv, PurgesOn
<1> QED BY <1>1, Invariance, PTL
=============================================================================
