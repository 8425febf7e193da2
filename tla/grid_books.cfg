SPECIFICATION Spec
CONSTANTS
  MaxGrids = 2
  NLevels = 3
  Lots = 2
  Closers = {"hook", "liquidator"}
  Overlap = TRUE
  MaxTicks = 2
  MaxOffs = 2
  MaxFaults = 1
  MaxCrashes = 2
  MaxEvents = 4
CHECK_DEADLOCK FALSE
INVARIANTS TypeOK BooksAgree OneActiveGrid ClosedIsFlatIfFilled
 
