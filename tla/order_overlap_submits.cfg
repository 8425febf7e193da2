CONSTANTS
  Orders = {o1}
  Calls = {c1, c2}
  Qty = 2
  MaxPolls = 1
  MaxAttempts = 1
  MaxCrashes = 0
  Modes = {"LIVE"}
  Overlap = TRUE
  DbFails = FALSE
  LookupFails = FALSE
  CancelFails = FALSE
CHECK_DEADLOCK FALSE
SPECIFICATION Spec
INVARIANT AtMostOneSubmission
