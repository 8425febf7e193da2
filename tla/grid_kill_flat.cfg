SPECIFICATION Spec
CONSTANTS
  MaxGrids = 1
  NLevels = 2
  Lots = 1
  Closers = {"liquidator"}
  Overlap = FALSE
  MaxTicks = 2
  MaxOffs = 1
  MaxFaults = 0
  MaxCrashes = 0
  MaxEvents = 4
CHECK_DEADLOCK FALSE
INVARIANTS ClosedIsFlat
