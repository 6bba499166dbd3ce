CONSTANTS
  Snippets = 1
  Names = {n}
  Networks = {w}
  Objects = {o1}
  Seeded = FALSE
  Failures = {"policy", "build", "close"}
  MaxLoads = 3
  MaxEdits = 1
  Hosts <- MCHosts
  Backends <- MCBackends
  Passthrough = TRUE
SPECIFICATION ServingSpec
CHECK_DEADLOCK FALSE
INVARIANTS TypeOK ServingOpen PolicyAsOnDisk LeakExplained AbortExplained HandlerWhole
PROPERTY ReloadHappens
