SPECIFICATION MCSpec
CONSTANTS
  Process = {p1, p2}
  Question = {q1, q2}
  Request = {r1, r2}
  Key = {k1, k2}
  Value = {a, b}
  Reader = {}
  Page = 2
  NoQ = NoQ
  NoP = NoP
  Faults = {"crash", "publish", "raise", "persist"}
  MaxFaults = 2
  MaxEmit = 5
  Snapshots = FALSE
  Sides = {"races", "rows", "talk"}
SYMMETRY Alike
CHECK_DEADLOCK FALSE
INVARIANTS
  AcceptedIsRecorded
  
PROPERTY
  ImplementsBoard
