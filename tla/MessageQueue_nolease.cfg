CONSTANTS
  Threads = {t1, t2}
  MaxMessages = 1
  Horizon = 2
  Slack = 1
  QueueSize = 1
  ProcessTimeout = 0
  MaxFailCount = 1
  WaitTime = 1
SPECIFICATION FairSpec
PROPERTIES
  OnlyFailRestores
  WaiterServed
