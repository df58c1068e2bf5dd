CONSTANTS
  a = a  b = b
  NoRequest = NoRequest
  Watchers = {w1}
  Requests = {a, b}
  Admitted = {a}
  Pieces <- MixedPieces
  MaxPieces = 3
  MaxCrashes = 1
  MaxReplaced = 1
SPECIFICATION FairSpec
INVARIANT NoLineLost
INVARIANT DoneOnce
PROPERTY EveryLineAnswered
