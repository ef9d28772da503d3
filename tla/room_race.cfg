CONSTANTS
  m1 = m1
  m2 = m2
  m3 = m3
  c1 = c1
  c2 = c2
  None = None
  Worker = worker
  Calls = {c1, c2}
  Order <- TrioOrder
  Format = "snake"
  Template <- TrioTemplate
  Players <- TrioPlayers
  Position <- TrioPosition
  Sheet <- TrioSheet
  RankPir <- MCRankPir
  InitiallyArmed = {m2}
  PickIds <- MCPickIds
  Requests = {"pick", "undo", "render", "resume"}
  ArmedInUndoRoom = {m3}
  MaxFaults = 0
  MaxOvershoot = 0
SPECIFICATION RacesSpec
CONSTRAINT PicksOrUndo
ACTION_CONSTRAINT SameRoom
SYMMETRY CallSymmetry
INVARIANTS NobodySkipped
PROPERTIES KeepsItsPromise UndoLandsClean
CHECK_DEADLOCK FALSE
