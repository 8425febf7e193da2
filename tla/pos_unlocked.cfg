SPECIFICATION Spec
CONSTANTS
  Symbols = {s1}
  Lots = 2
  Modes = {"LIVE"}
  Regimes = {{}}
  MaxOpens = 2
  MaxEvents = 1
  MaxFaults = 0
  MaxCrashes = 0
  MaxTotal = 2
CHECK_DEADLOCK FALSE
INVARIANTS OneLiveEntryPerSymbol
