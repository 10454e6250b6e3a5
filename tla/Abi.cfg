SPECIFICATION Spec
CONSTANTS
  Handles = {h1, h2}
  Addresses = {a1, a2}
  NULL = NULL
  Garbage = Garbage
  MaxLen = 1
  Spares = {1}
  Rooms = {0, 1, 2, 6, 7, 256}
  CallNames <- MCCallNames
  Paths = {"linux", "macos", "windows", "far"}
  ContentOf <- MCContentOf
  SystemOf <- MCSystemOf
  SpellingOf <- MCSpellingOf
  Failures = {"Missing", "InvalidName"}
  MaxWPath = 20
SYMMETRY Symmetry
INVARIANTS Owned RefusalExplained NativeReadsBack ListedReachable 
