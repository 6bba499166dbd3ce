CONSTANTS
  Nets = {n4, n6}
  IPv4Nets = {n4}
  Agents = {a}
  Sessions = {}
  Challenges = {"refresh", "cookie"}
  Conditioned = {}
  CookieBound = {}
  Runtime <- MCRuntime
  Duration <- MCDuration
  DefaultDuration = 2
  Methods = {"GET"}
  Requests = {q1, q2}
  Rules <- BothRules
  MaxTime = 1
  MaxSecret = 0
  MaxArrivals = 0
  KeepsCookies = TRUE
  MaxHops = 18
SPECIFICATION BrowserSpec
CHECK_DEADLOCK FALSE
INVARIANTS NavigationShort NavigationDirect TurnedAwayExplained
