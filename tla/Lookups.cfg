CONSTANTS
  Callers = {p1, p2}
  Keys = {k1}
  Values = {"value", "nil"}
  Unstored = {"nil"}
  TTL = 1
  MaxTime = 2
  Visitors = {p1, p2}
  Addresses <- MCAddresses
  Country <- MCCountry
  Unreadable = {"bad"}
  MaxSize = 1
SPECIFICATION LookupsSpec
CHECK_DEADLOCK FALSE
INVARIANTS TypeOK NoNeedlessFetch WrongOnlyByRace PositiveBounded
PROPERTIES DropsOnlyExpired EverySwept
