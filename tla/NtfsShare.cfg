SPECIFICATION FairSpec
CONSTANTS
  c1 = c1
  c2 = c2
  Clients = {c1, c2}
  Values <- MCValues
  Requests <- MCRequests
  Absent = Absent
  Gone = Gone
  NoRequest = NoRequest
  SmallLen = 1
  MaxAttempts = 2
  Retries = 2
  Faults = {"Permission"}
  Crashes = TRUE
  Outsiders = {"files", "hold"}
INVARIANTS TypeOK ReadsWhole FailuresHold
PROPERTY Answered
