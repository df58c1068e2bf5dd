CONSTANTS
  p1 = p1  p2 = p2
  Procs = {p1, p2}
  Days = {1, 2}
  Sessions <- TwoSessions
  Held <- BothOnTheFirstDay
  Absent = Absent  Torn = Torn  Nobody = Nobody
  MaxEvents = 2  MaxPurges = 3  MaxKills = 1
SPECIFICATION Spec
SYMMETRY Commands
INVARIANT NothingDeleted
INVARIANT IndexIsTheDays
CHECK_DEADLOCK FALSE
