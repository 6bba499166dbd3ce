CONSTANTS
  Nets = {n4}
  IPv4Nets = {n4}
  Agents = {a}
  Sessions = {s}
  Challenges = {"http"}
  Conditioned = {}
  CookieBound = {"http"}
  Runtime <- HttpRuntime
  Duration <- Durations
  DefaultDuration = 2
  Methods = {"GET"}
  Requests = {q1}
  Rules <- HttpRules
  MaxTime = 0
  MaxSecret = 0
  MaxArrivals = 2
SPECIFICATION Spec
CHECK_DEADLOCK FALSE
INVARIANT NegativeTokenNotValid
