SPECIFICATION Spec
CONSTANTS
  Symbols = {s1, s2}
  Lots = 2
  Modes = {"LIVE", "PAPER"}
  Regimes = {{"liquidator"}, {}}
  MaxOpens = 2
  MaxEvents = 1
  MaxFaults = 1
  MaxCrashes = 1
  MaxTotal = 2
CHECK_DEADLOCK FALSE
CONSTRAINT Narrow
INVARIANTS TypeOK ValueConserved BooksMatchExchange OneEntryPerSymbol 
PROPERTIES ClosersNeverOpen FlatMeansFlat
