SPECIFICATION Spec
CONSTANTS
  Characters <- MCCharacters
  Letters = {"a"}
  Nul = "0"
  Dumps <- MCDumps
  Settings <- MCSettings
  NoRoot = NoRoot
  Byte <- MCByte
  SetFaults = {"Permission"}
INVARIANTS ParsesExactly RestoresAll StaysBelowRoot ReportsMatch ExitTrue
CHECK_DEADLOCK FALSE
