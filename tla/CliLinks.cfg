SPECIFICATION CliSpec
CONSTANTS
  Names = {"x", "y"}
  Rank <- MCRank
  Paths <- MCPaths
  Trees <- MCTrees
  Options <- MCOptions
  Unlimited = Unlimited
  NoCall = NoCall
  Faults = {"OutOfMemory"}
  MaxChanges = 3
  Creatable = {"other", "directory", "loop", "dangling"}
  FollowsLinks = TRUE
  AllocFails = FALSE
PROPERTY NeverEntersLinks
CHECK_DEADLOCK FALSE
