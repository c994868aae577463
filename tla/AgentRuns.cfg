SPECIFICATION FairSpec
CONSTANTS
  s1 = s1
  m1 = m1
  c1 = c1
  None = None
  Run = {s1, m1, c1}
  Tiers <- MCTiers
  Faults = {"row", "persist", "raise"}
CHECK_DEADLOCK FALSE
INVARIANTS SpansNested RowsMatchStream
PROPERTIES EveryRunEnds
