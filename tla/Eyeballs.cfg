CONSTANTS
  Nets = {n4, n6}
  IPv4Nets = {n4}
  Agents = {a}
  Sessions = {}
  Challenges = {"refresh", "cookie"}
  Conditioned = {}
  CookieBound = {}
  Runtime <- MCRuntime
  Duration <- MCDuration
  DefaultDuration = 2
  Methods = {"GET"}
  Requests = {q1}
  Rules <- BothRules
  MaxTime = 0
  MaxSecret = 0
  MaxArrivals = 0
  KeepsCookies = TRUE
  MaxHops = 18
SPECIFICATION BrowserSpec
CHECK_DEADLOCK FALSE
PROPERTY EyeballsRetried
