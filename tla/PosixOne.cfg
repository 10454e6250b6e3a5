SPECIFICATION FairSpec
CONSTANTS
  c1 = c1
  Clients = {c1}
  none = none
  one = one
  two = two
  three = three
  four = four
  Values <- MCValues
  LenOf <- MCLenOf
  Empty = none
  Absent = Absent
  Gone = Gone
  NoRequest = NoRequest
  NoAnswer = NoAnswer
  Requests <- AllRequests
  MaxAttempts = 4
  SmallLen = 1
  KernelMax = 3
  ReadFaults = {"IO"}
  WriteFaults = {"NOSPC", "ACCES"}
  Outsiders <- Everybody
  AllocFails = TRUE
INVARIANTS TypeOK AnswersHold NoLeak BufferFits OsErrorExplainsStatus
PROPERTIES Atomic Answered
