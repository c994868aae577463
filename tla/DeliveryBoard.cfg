SPECIFICATION MCSpec
CONSTANTS
  Process = {p1, p2}
  intro = intro
  t1 = t1
  Artifact = {intro, visual}
  Task = {t1, t2}
  Makes <- MCMakes
  Orders <- MCOrders
  MaxRevisions = 1
  MaxOpen = 1
  Request = {r1, r2}
  Key = {k1}
  MaxCrashes = 1
  None = None
  Point = {"a", "b"}
  Registry <- MCRegistry
  Worlds <- MCWorlds
  Explored <- MCExplored
  Shapes <- MCShapes
  Conditions <- MCConditions
SYMMETRY Symmetry
CHECK_DEADLOCK FALSE
INVARIANTS
  HeadUnlocked
  RevisedBounded
  NothingUnasked
  BoundToChoice
PROPERTIES
  ArtifactsKept
  AcksKept
