SPECIFICATION Spec
CONSTANTS
  Searches = {s1, s2}
  Markets = {m1, m2}
  LIMIT = 2
  MaxTxs = 3
SYMMETRY Interchangeable
CHECK_DEADLOCK FALSE
INVARIANTS
  FoundTxSettled
  FindsRecentSettlement
