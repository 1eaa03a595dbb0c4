SPECIFICATION Spec
CONSTANTS
  a = a
  b = b
  none = none
  Byte = {0, 1, 2, 3}
  Handles = {a, b}
  Unmapped = none
  MaxRegs = 3
  BlockLists <- MCBlockLists
  Typings <- MCTypings
  Polls <- MCPolls
  Addresses = {1, 2}
  Data <- MCData
  Samples <- MCSamples
  QueueLength = 2
INVARIANTS
  TypeOK
  StaysInBlock
  ReadsFollowTheMap
  WritesLand
  ClientMirrorsServer
