SPECIFICATION FairSpec
CONSTANTS
  LoggerTask = logger
  Cli = cli
  p1 = p1
  p2 = p2
  Producers <- MCProducers
  Nobody = nobody
  QueueLength = 3
  MaxInput = 1
  MaxMessages = 2
PROPERTIES
  LoggingReturns
CHECK_DEADLOCK FALSE
