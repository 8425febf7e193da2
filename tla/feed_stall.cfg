SPECIFICATION FairFeedSpec
CONSTANTS
  MaxBar = 7
  MaxBuffer = 4
  PollLimit = 3
  FillSlack = 1
  FeedFaults = 0
  SinceIsEnd = TRUE
PROPERTY FeedCatchesUp
CHECK_DEADLOCK FALSE
