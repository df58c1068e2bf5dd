CONSTANTS
  c1 = c1  x1 = x1  x2 = x2  w1 = w1  br = br  i1 = i1  i2 = i2  s1 = s1  s2 = s2  s3 = s3
  NoBatch = NoBatch
  Procs = {p1}
  Branches = {br}
  Items = {i1}
  Stages = {s1, s2}
  Batches <- TwoRuns
  Work <- TwoRunsWork
  Keys <- TwoRunsKeys
  StageOf <- AllStage
  BranchOf <- AllBranch
  ShaOf <- FirstCommit
  ItemOf <- AllItem
  Binds <- AllBinds
  RunnerOnly = {"commit", "push", "open-pr", "comment"}
  ApprovalsAsked = TRUE
  Exclusive = TRUE
  LateKinds = {"push", "open-pr"}
  Expiring = {i1}
  MaxFaults = 3
  MaxEdits = 1
  MaxClosed = 1
SPECIFICATION FairSpec
INVARIANT JournalIsTrue
INVARIANT ActsOnlyOnConsent
INVARIANT OneStagePerApproval
PROPERTY ImplementsEffectOnce
PROPERTY PendingSettles
