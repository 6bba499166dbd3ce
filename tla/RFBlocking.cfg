CONSTANTS
  Nets = {n4, n6}
  IPv4Nets = {n4}
  Agents = {a}
  Sessions = {}
  Challenges = {"refresh", "cookie"}
  Conditioned = {}
  CookieBound = {}
  Runtime <- BlockingRuntime
  Duration <- Durations
  DefaultDuration = 3
  Methods = {"GET"}
  Requests = {q1, q2}
  Rules <- BlockingRules
  MaxTime = 2
  MaxSecret = 0
  MaxArrivals = 3
SPECIFICATION Spec
SYMMETRY Symmetry
CHECK_DEADLOCK FALSE
INVARIANTS TypeOK AdmissionBacked PassesKept
PROPERTY AdmissionPromise
