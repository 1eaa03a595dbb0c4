SPECIFICATION Spec
CONSTANTS
  n1 = n1
  n2 = n2
  n3 = n3
  device = device
  Names = {n1, n2, n3}
  NoTag = NoTag
  Web = http
  Persist = {TRUE}
  MaxTags = 3
  Persistent = 2
  Tasks = {http}
  Sections <- MCSections
  FirstPage <- MCFirstPage
  Uncompared <- MCFirstPage
  IsContent <- MCIsContent
  Erased = Erased
  Default <- MCDefault
  Configured <- MCConfigured
  Restarts = {"power"}
SYMMETRY Symmetry
INVARIANTS
  LoadsWholeConfig
