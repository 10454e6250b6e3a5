SPECIFICATION Spec
CONSTANTS
  c1 = c1
  c2 = c2
  Clients = {c1, c2}
  Values <- MCValues
  Requests <- OneOfEach
  Absent = Absent
  Gone = Gone
  NoRequest = NoRequest
  SmallLen = 1
  MaxAttempts = 2
  Retries = 2
  Faults = {}
  Crashes = FALSE
  Outsiders = {}
INVARIANT ReadsOldOrNew
