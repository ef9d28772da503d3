CONSTANTS
  m1 = m1
  m2 = m2
  m3 = m3
  c1 = c1
  c2 = c2
  None = None
  Worker = worker
  Calls = {c1}
  Order <- PairOrder
  Format = "snake"
  Template <- TrioTemplate
  Players <- PairPlayers
  Position <- PairPosition
  Sheet <- PairSheet
  RankPir <- MCRankPir
  InitiallyArmed = {m2}
  PickIds <- MCPickIds
  Requests = {"pick", "resume", "undo"}
  MaxFaults = 1
  MaxOvershoot = 0
SPECIFICATION Spec
CONSTRAINT ManagerAlone
INVARIANTS NeverAHole
CHECK_DEADLOCK FALSE
