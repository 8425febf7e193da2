SPECIFICATION Spec
CONSTANTS
  ApiTriggers = {}
  ApiResets = {}
  WorkerTriggers = {w1, w2}
  AutoResets = {a1}
  w1 = w1
  w2 = w2
  a1 = a1
  NoOp = NoOp
  Overlap = TRUE
  DuringStart = TRUE
  MaxFaults = 0
  SubscribeFirst = TRUE
  MaxCrashes = 0
CHECK_DEADLOCK FALSE
PROPERTIES DeliberateReset
SYMMETRY Symmetry
