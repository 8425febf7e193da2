CONSTANTS
  Orders = {o1}
  Calls = {c1, c2}
  Qty = 2
  MaxPolls = 2
  MaxAttempts = 2
  MaxCrashes = 2
  Modes = {"LIVE", "PAPER"}
  Overlap = FALSE
  DbFails = FALSE
  LookupFails = FALSE
  CancelFails = TRUE
CHECK_DEADLOCK FALSE
SPECIFICATION FairSpec
INVARIANTS TypeOK AtMostOneSubmission AtMostOneExchangeOrder ExchangeOrderHasRow
  MonitoredIsTracked
PROPERTIES FilledRowIsFinal CallsSettle
