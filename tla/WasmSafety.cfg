CONSTANTS
  Verifiers = {v1, v2, v3}
  Makers = {m1}
SPECIFICATION Spec
SYMMETRY Symmetry
CHECK_DEADLOCK FALSE
INVARIANTS AcceptedByModule RefusalExplained
