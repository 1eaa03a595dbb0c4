SPECIFICATION FairSpec
CONSTANTS
  Modes = {"server", "client"}
  BufferSize = 2
  FifoDepth = 2
  MaxBytes = 3
  MaxFaults = 3
INVARIANTS
  InOrder
  Complete
PROPERTIES
  KeepsServing
