SPECIFICATION FairSpec
CONSTANTS
  ApiTriggers = {t1, t2}
  ApiResets = {r1, r2}
  WorkerTriggers = {w1}
  AutoResets = {a1}
  t1 = t1
  t2 = t2
  r1 = r1
  r2 = r2
  a1 = a1
  w1 = w1
  NoOp = NoOp
  Overlap = FALSE
  DuringStart = TRUE
  MaxFaults = 2
  SubscribeFirst = TRUE
  MaxCrashes = 2
CHECK_DEADLOCK FALSE
INVARIANTS TypeOK KeyOnMeansStopped
PROPERTIES DeliberateReset SwitchReachesWorker
