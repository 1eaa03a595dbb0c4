SPECIFICATION Spec
CONSTANTS
  Web = http
  Cli = cli
  Net = network
  Active = {http}
  Tasks = {http, cli, network}
  MODBUS_REQUESTS_MAX = 1
  MODBUS_MAX_REG_COUNT = 1
  Addresses = {0, 1, 2}
  Leased = 2
  Sections <- MCSections
  FirstPage <- MCFirstPage
  Uncompared = {"device"}
  IsContent <- MCIsContent
  Erased = Erased
  Default <- MCDefault
  Configured <- MCConfigured
  Restarts = {"watchdog"}
  Requests <- MCRequests
  Commands <- MCCommands
  Work <- WorkRtu
  MaxPosts = 1
  MaxActs = 1
INVARIANTS
  HandlesAreValid
CHECK_DEADLOCK FALSE
