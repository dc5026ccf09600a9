CONSTANTS
  Threads = {t1}
  MaxMessages = 2
  Horizon = 3
  Slack = 1
  QueueSize = 1
  ProcessTimeout = 1
  MaxFailCount = 0
  WaitTime = 0
SPECIFICATION Spec
INVARIANTS
  DeadLettersKept
