SPECIFICATION Spec
CONSTANTS
  Task = {t1}
  Process = {p1}
  NoP = NoP
  Point = {a}
  MaxObs = 1
  MaxBatch = 1
  MaxRows = 2
  MaxTries = 2
  Page = 1
  Looping = {t1}
  Plans <- OnePlan
  MaxSteps = 2
  MaxReplans = 1
  MaxGoals = 2
  MaxTurns = 2
  MaxCrashes = 0
CHECK_DEADLOCK FALSE
INVARIANT TalksAgain
