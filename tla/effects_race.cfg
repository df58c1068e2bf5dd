CONSTANTS
  c1 = c1  x1 = x1  x2 = x2  w1 = w1  br = br  i1 = i1  i2 = i2  s1 = s1  s2 = s2  s3 = s3
  NoBatch = NoBatch
  p1 = p1  p2 = p2
  Procs = {p1, p2}
  Branches = {br}
  Items = {i1, i2}
  Stages = {s1, s2, s3}
  Batches <- RunAndInbox
  Work <- RunAndInboxWork
  Keys <- RunAndInboxKeys
  StageOf <- AllStage
  BranchOf <- AllBranch
  ShaOf <- ForkCommit
  ItemOf <- AllItem
  Binds <- AllBinds
  RunnerOnly = {"commit", "push", "open-pr", "comment"}
  ApprovalsAsked = TRUE
  Exclusive = TRUE
  LateKinds = {"push", "open-pr"}
  Expiring = {i1}
  MaxFaults = 0
  MaxEdits = 0
  MaxClosed = 1
SPECIFICATION Spec
INVARIANT OneStagePerApproval
