SPECIFICATION FairSpec
CONSTANTS
  Process = {p1}
  Question = {q1}
  Request = {r1}
  Key = {k1}
  Value = {a}
  Reader = {s1}
  Page = 2
  NoQ = NoQ
  NoP = NoP
  Faults = {"crash", "publish", "drop", "cancel", "persist", "raise"}
  MaxFaults = 1
  MaxEmit = 1
  Snapshots = TRUE
CHECK_DEADLOCK FALSE
INVARIANTS
  SeenInOrder
PROPERTIES
  ResolvedIsTold
  RowsArrive
