SPECIFICATION Spec
CONSTANTS
  WordMax = 31
  MaxCols = 4
  DefaultLimit = 2
  Slashed = {"/p"}
  CommandLines <- MCCommandLines
  Environments <- MCEnvironments
  Files <- MCFiles
  Values <- MCValues
  Absent = Absent
  Stdins <- MCStdins
  Limits = {0, 31}
  Rooms = {30, 1000}
  BufCap = 80
  DefaultWidth <- MCDefaultWidth
  CallFaults = {"Permission"}
  ReadFaults = {"Missing"}
INVARIANTS LastWins NumbersExact CommandsTrue OutputWhole FrameHolds CsvReadsBack DumpReadsBack LinesAreText
CHECK_DEADLOCK FALSE
