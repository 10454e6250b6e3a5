SPECIFICATION Spec
CONSTANTS
  WordMax = 31
  MaxCols = 4
  DefaultLimit = 2
  Slashed = {}
  CommandLines <- DumpLines
  Environments <- MCEnvironments
  Files <- MCFiles
  Values = {}
  Absent = Absent
  Stdins = {}
  Limits = {0}
  Rooms = {30, 1000}
  BufCap = 16
  DefaultWidth <- MCDefaultWidth
  CallFaults = {}
  ReadFaults = {}
INVARIANT OutputWhole
CHECK_DEADLOCK FALSE
