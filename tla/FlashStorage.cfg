SPECIFICATION FairSpec
CONSTANTS
  http = http
  cli = cli
  i1 = i1
  i2 = i2
  Writers = {http, cli}
  Images = {i1, i2}
  Blank = Blank
  Partial = Partial
  Nobody = Nobody
INVARIANTS
  TypeOK
  OnlyTheGuardRuns
  Handshake
PROPERTIES
  ServiceSpec
  QueuedIsAnswered
  InterruptsComeBack
