SPECIFICATION Spec
CONSTANTS
  Task = {t1, t2}
  Process = {p1, p2}
  NoP = NoP
  Point = {a, b}
  MaxObs = 1
  MaxBatch = 2
  MaxRows = 3
  MaxTries = 2
  Page = 2
  Looping = {t1}
  Plans <- OnePlan
  MaxSteps = 2
  MaxReplans = 0
  MaxGoals = 1
  MaxTurns = 1
  MaxCrashes = 1
SYMMETRY Alike
CHECK_DEADLOCK FALSE
INVARIANTS
  FoldedOnce
  EvaluatedOnEvidence
