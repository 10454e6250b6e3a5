SPECIFICATION CliSpec
CONSTANTS
  Names = {"x", "y"}
  Rank <- MCRank
  Paths <- MCPaths
  Trees <- MCTrees
  Options <- MCOptions
  Unlimited = Unlimited
  NoCall = NoCall
  Faults = {"OutOfMemory"}
  MaxChanges = 3
  Creatable = {"other", "directory", "loop", "dangling"}
  FollowsLinks = FALSE
  AllocFails = TRUE
INVARIANTS TypeOK VisitsInOrder VisitsReached SecondVisits ExitHonest BlameTrue
CHECK_DEADLOCK FALSE
