SPECIFICATION FairSpec
CONSTANTS
  LoggerTask = logger
  Cli = cli
  p1 = p1
  p2 = p2
  Producers <- MCProducers
  Nobody = nobody
  QueueLength = 3
  MaxInput = 2
  MaxMessages = 2
INVARIANTS
  PromptShowsInput
PROPERTIES
  EveryoneGoesOn
\* Before the logger's loop everybody may wait for it, and it for itself.
CHECK_DEADLOCK FALSE
