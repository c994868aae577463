SPECIFICATION MCSpec
CONSTANTS
  Process = {p1, p2}
  Job = {j1, j2, j3}
  Initial = c0
  Message = {m1}
  Answer = {a1}
  Outcomes = {"completed", "awaiting_user", "partial"}
  NoJob = NoJob
  j3 = j3
  Sides = {"messages", "answers"}
  NoCmd = NoCmd
  SlowOwners = TRUE
  Faults = {"failure", "crash", "retry", "cancel"}
  MaxFaults = 1
SYMMETRY SymmetryButOne
CHECK_DEADLOCK FALSE
INVARIANTS
  AckAfterOutcome
  OverlapNeedsReclaim
  HeadOfLine
PROPERTIES
  CancelledStaysQuiet
  SteeredOnce
  ImplementsLedger
