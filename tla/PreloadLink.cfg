CONSTANTS
  Waiters = {w1, w2}
  Handlers = {h1, h2}
  Solvers <- LinkSolvers
  Keys = {k4, k6, x4}
  IPv4Keys = {k4, x4}
  Invented = {x4}
  Verdicts = {"OK", "Fail"}
SPECIFICATION LinkSpec
CHECK_DEADLOCK FALSE
INVARIANTS NoDanglingCallback OneSolveEach ResultGenuine PassNeedsOwnLoad
PROPERTY EveryHintAnswered
