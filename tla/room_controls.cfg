CONSTANTS
  m1 = m1
  m2 = m2
  m3 = m3
  c1 = c1
  c2 = c2
  None = None
  Worker = worker
  Calls = {c1, c2}
  Order <- PairOrder
  Format = "snake"
  Template <- TrioTemplate
  Players <- PairPlayers
  Position <- PairPosition
  Sheet <- PairSheet
  RankPir <- MCRankPir
  InitiallyArmed = {m2}
  PickIds <- MCPickIds
  Requests = {"pick", "pause", "resume", "clock", "arm", "undo"}
  ArmedInUndoRoom = {m1}
  MaxFaults = 0
  MaxOvershoot = 1
SPECIFICATION RacesSpec
CONSTRAINT ControlsOrUndos
ACTION_CONSTRAINT SameRoom
SYMMETRY CallSymmetry
INVARIANTS NoDoublePick
PROPERTIES AutoPickWaited
CHECK_DEADLOCK FALSE
