SPECIFICATION FairSpec
CONSTANTS
  Task = {t1}
  Process = {p1}
  NoP = NoP
  Point = {a}
  MaxObs = 1
  MaxBatch = 1
  MaxRows = 2
  MaxTries = 2
  Page = 1
  Looping = {t1}
  Plans <- AllPlans
  MaxSteps = 2
  MaxReplans = 1
  MaxGoals = 2
  MaxTurns = 3
  MaxCrashes = 1
CHECK_DEADLOCK FALSE
INVARIANTS
  PhaseConfirmed
  RoundsClosed
  BudgetsHold
PROPERTY
  TurnEnds
