CONSTANTS
  Snippets = 1
  Names = {n}
  Networks = {w}
  Objects = {o1}
  Seeded = TRUE
  Failures = {}
  MaxLoads = 2
  MaxEdits = 1
SPECIFICATION Spec
CHECK_DEADLOCK FALSE
INVARIANT SeedKept
