SPECIFICATION Spec
CONSTANTS
  n1 = n1
  n2 = n2
  Names = {n1, n2}
  TagDB = TagDB
  Nobody = Nobody
  NoName = NoName
  Admins = {a1}
  Deleters = {a1}
  Producers = {p}
  Readers = {}
  MaxTags = 1
  QueueLength = 1
  MaxSamples = 1
SYMMETRY Symmetry
INVARIANTS
  WritesStayWithTheirTag
