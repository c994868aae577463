SPECIFICATION MCFairSpec
CONSTANTS
  Process = {p1}
  Job = {j1, j2, j3}
  Initial = c0
  Message = {}
  Answer = {}
  Outcomes = {"completed", "partial", "failed"}
  NoJob = NoJob
  j3 = j3
  Sides = {"recovery"}
  NoCmd = NoCmd
  SlowOwners = TRUE
  Faults = {"crash", "failure"}
  MaxFaults = 3
CHECK_DEADLOCK FALSE
PROPERTIES RunningEnds
