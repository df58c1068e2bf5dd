CONSTANTS
  build = build
  signoff = signoff
  gate = gate
  publish = publish
  land = land
  Procs = {p1}
  Stages = {build, signoff, gate, publish, land}
  Order <- OrderPipeline
  Kind <- OrderKind
  DependsOn <- OrderDepends
  Gates <- OrderGates
  RetryMax <- OrderRetry
  AsksOnFail <- Asking
  Applies <- NoCrossTeam
  Commits <- OrderCommits
  Rest <- OrderRest
  Merges <- OrderMerges
  ApprovalsAsked = TRUE
  Stall = 2
  MaxVersion = 2
  MaxEdits = 1
  MaxCrashes = 1
SPECIFICATION FairSpec
INVARIANTS
  CheckpointIsTrue
  PublishedWasGated
  NoEffectUnsigned
PROPERTY DoneIsKept
PROPERTY RunEnds
