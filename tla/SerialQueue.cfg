CONSTANTS
  Threads = {t1}
  MaxMessages = 3
  Horizon = 4
  Slack = 1
  QueueSize = 2
  ProcessTimeout = 2
  MaxFailCount = 1
  WaitTime = 0
SPECIFICATION Spec
PROPERTIES
  KeepsPromise
