SPECIFICATION Spec
CONSTANTS
  Process = {p1, p2}
  Execution = {e1, e2}
  Work = {explain, quiz, deck, publish}
  explain = explain
  quiz = quiz
  deck = deck
  publish = publish
  LastRevision = 2
  PlanOf <- MCPlanOf
  Tier <- MCTier
  Deps <- MCDeps
  Unconfirmed = {publish}
  ParallelSafe = {explain, quiz}
  Usage = {2}
  Limit = 4
  NoOne = NoOne
  SlowOwners = FALSE
  Faults = {"crash", "abort", "cancel", "confirm"}
  MaxFaults = 1
SYMMETRY Symmetry
CHECK_DEADLOCK FALSE
INVARIANTS RunsOnce DependenciesFirst ReservationsCover
