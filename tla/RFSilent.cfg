CONSTANTS
  Nets = {n4}
  IPv4Nets = {n4}
  Agents = {a}
  Sessions = {s}
  Challenges = {"http", "dnsbl", "preload", "resource"}
  Conditioned = {"dnsbl"}
  CookieBound = {"http"}
  Runtime <- SilentRuntime
  Duration <- Durations
  DefaultDuration = 2
  Methods = {"POST"}
  Requests = {q1}
  Rules <- SilentRules
  MaxTime = 0
  MaxSecret = 1
  MaxArrivals = 2
SPECIFICATION Spec
CHECK_DEADLOCK FALSE
INVARIANTS AdmissionBacked CheckGuardsChildren IssuedOnce HeaderStateKnown
PROPERTY AdmissionPromise
