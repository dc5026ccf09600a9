CONSTANTS
  Threads = {t1, t2}
  MaxMessages = 1
  Horizon = 2
  Slack = 1
  QueueSize = 1
  ProcessTimeout = 1
  MaxFailCount = 1
  WaitTime = 0
SPECIFICATION FairSpec
PROPERTIES
  LeaseEnds
