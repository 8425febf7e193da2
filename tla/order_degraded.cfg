CONSTANTS
  Orders = {o1}
  Calls = {c1, c2}
  Qty = 2
  MaxPolls = 1
  MaxAttempts = 1
  MaxCrashes = 1
  Modes = {"LIVE"}
  Overlap = TRUE
  DbFails = TRUE
  LookupFails = TRUE
  CancelFails = TRUE
CHECK_DEADLOCK FALSE
SPECIFICATION Spec
SYMMETRY Symmetry
INVARIANTS RowIsTruthful NeverOverReports
