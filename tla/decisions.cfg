CONSTANT PullRequests <- APullRequest
CONSTANT Versions = {1, 2}
CONSTANT MaxHappenings = 6
CONSTANT Kind <- KindOf
CONSTANT Strict <- StrictOf
CONSTANT Words = {"run", "order"}
CONSTANT Parts = {"em_dashes", "max_subject", "trailers"}
CONSTANT Liftable = {"max_subject", "trailers"}
CONSTANT Subjects <- ASubject
CONSTANT MaxChanges = 2
CONSTANT Fine = {1}
CONSTANT Outside <- StrayOnceMoved
CONSTANT Runners = {"p", "q"}
CONSTANT Steps <- AStep
CONSTANT MaxSteps = 6
CONSTANT Memories <- AMemory
CONSTANT Goals <- AGoal
CONSTANT RepositoryPaths <- SomePaths
CONSTANT Flows <- AFlow
SPECIFICATION DecisionsSpec
INVARIANT PlanIsSafe
INVARIANT PipelineIsSound
INVARIANT ReceiptsAreOfTheHead
INVARIANT HandoffMeetsContract
INVARIANT SelectionIsRight
INVARIANT StandardsOnlyTighten
INVARIANT ResultsAreOfTheTree
CHECK_DEADLOCK FALSE
