CONSTANTS
  p1 = p1  p2 = p2  p3 = p3
  NoProc = NoProc  NoPid = NoPid  NoFile = NoFile
  Procs = {p1, p2, p3}
  Pids = {i1, i2, i3, i4}
  Files = {f1, f2, f3, f4}
  Budget <- TwoBudgets
  PidReuse = FALSE
  MaxCrashes = 2
  Askers = {a1, a2}
  Trees = {t1, t2}  Passes = {t1}  NoTree = NoTree
  MaxChanges = 2
  Commands = {c1, c2, c3}
  Keys = {k1, k2, k3, k4}  NoKey = NoKey  Dead = Dead
  MaxCommands = 4
  Ids = {r1, r2}  NoRuleset = NoRuleset
  Branches = {"main", "dev"}
  MaxEdits = 2  MaxRuns = 1
  Revisions <- ThreeTrees  NoRevision = NoRevision
  Claimed <- ClaimsOf  Maps <- MapOf  Answers <- AnswersOf  Sound = {1, 2}
  MaxShifts = 1  MaxProofs = 2
  agentsMd = agentsMd  claudeMd = claudeMd  role = role
  both = both  noClaude = noClaude  newRole = newRole
  Paths = {agentsMd, claudeMd, role}
  Owned = {role}
  Sources = {both, noClaude, newRole}
  Rendered <- RenderedBy
  Absent = Absent  Foreign = Foreign  Missing = Missing  Unreadable = Unreadable
  MaxTouches = 3  MaxKills = 2
SPECIFICATION HostSpec
INVARIANT SeatKept
INVARIANT RefusedOnlyWhenFull
PROPERTY ImplementsSeats
INVARIANT ReceiptIsOfItsRevision
INVARIANT OneKey
INVARIANT SocketIsTheServers
INVARIANT ReportIsTrue
INVARIANT ProofIsOfItsRevision
INVARIANT CleanIsRendered
PROPERTY SyncRepairs
CHECK_DEADLOCK FALSE
