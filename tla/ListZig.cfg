SPECIFICATION Spec
CONSTANTS
  Names <- MCNames
  Size <- MCSize
  Rank <- MCRank
  Logical <- MCLogical
  NoPath = NoPath
  Outsiders <- Anything
  SmallLen = 1
  MaxAttempts = 4
  Faults = {"ACCES", "IO"}
  Implementation = "zig"
INVARIANT ListingHolds
