CONSTANTS
  api = api  docs = docs  web = web  fa = fa  fd = fd
  bob = bob  rita = rita  mona = mona
  Orders = {api, docs}
  Files = {fa, fd}
  Owns <- OwnFile
  Anyone = {}
  Teams = {web}
  Cross <- ApiCrosses
  People = {bob, rita, mona}
  Builder <- BobBuilds
  Manager <- MonaManages
  Family <- Families
  Reviewer = Reviewer  Car = Car  Nobody = Nobody  NoReading = NoReading
  MaxEdits = 2
  MaxRulings = 2
  MaxMerges = 2
  MaxCommits = 6
  old = old  rival = rival  new = new
  NoProc = NoProc  NoRec = NoRec  Torn = Torn
  Procs = {p1, p2}
  Recs = {old, rival, new}
  Supersedes <- NewForOld
  Contradicts <- OldOrRival
  EventKinds = {"review", "correct"}
  MaxEvents = 3
  MaxKills = 1
  MaxClones = 1
SPECIFICATION RepositorySpec
SYMMETRY ProcSymmetry
PROPERTY LandedAsRuled
PROPERTY OthersFilesKept
INVARIANT JournalsAreTrue
PROPERTY PromotedWhenConfirmed
CHECK_DEADLOCK FALSE
