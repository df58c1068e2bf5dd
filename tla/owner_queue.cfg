CONSTANTS
  merge = merge  deploy = deploy
  p1 = p1  p2 = p2
  Procs = {p1, p2}
  Bodies <- Asked
  Actions = {merge, deploy}
  Owner = Owner  Bot = Bot
  Author = Bot
  NoItem = NoItem  Empty = Empty  Torn = Torn
  Nobody = Nobody  Unsigned = Unsigned  None = None
  Ttl = 1
  MaxItems = 2
  MaxTime = 1
  MaxRevision = 2
  MaxAnswers = 1
  MaxTurns = 2
SPECIFICATION Spec
SYMMETRY Commands
INVARIANT ConsentIsTheOwners
PROPERTY ItemsAreKept
CHECK_DEADLOCK FALSE
