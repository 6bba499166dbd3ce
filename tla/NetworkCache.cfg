CONSTANTS
  Loads = {s1, s2}
  Entries <- ASNThenPrefixes
  MaxAge = 1
  MaxTime = 3
  MaxVersion = 2
SPECIFICATION Spec
SYMMETRY Symmetry
CHECK_DEADLOCK FALSE
INVARIANTS CacheRecent DamageBounded
