SPECIFICATION MCSpec
CONSTANTS
  Attempt = {a1, a2, a3}
  None = None
  MaxStage = 1
  Page = {x, y}
  Nothing = Nothing
  Process = {api, scheduler}
  Api = api
  Projection = {p1, p2}
  Request = {u1, u2}
  MaxWrites = 2
  MaxKeys = 3
  MaxFaults = 1
  MaxPages = 4
  Boxes <- MCBoxes
  MaxEdits = 1
  MaxCrashes = 1
  MaxMoves = 3
SYMMETRY Alike
CHECK_DEADLOCK FALSE
INVARIANTS
  SuccessIsServed
  BlobsKept
  ShownAtRest
  ShowsItsSlide
PROPERTY
  EditsStay
