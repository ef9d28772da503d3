CONSTANTS
  m1 = m1
  m2 = m2
  m3 = m3
  c1 = c1
  c2 = c2
  None = None
  Worker = worker
  Calls = {c1}
  Order <- MCOrder
  Format = "snake"
  Template <- MCTemplate
  Players <- MCPlayers
  Position <- MCPosition
  Sheet <- MCSheet
  RankPir <- MCRankPir
  InitiallyArmed = {m2}
  PickIds <- MCPickIds
  Requests = {"pick"}
  MaxFaults = 3
  MaxOvershoot = 0
SPECIFICATION Spec
CONSTRAINT OneFaultOrAFlag
INVARIANTS RostersLegal MembershipsComeFromPicks FinishedMeansFull
CHECK_DEADLOCK FALSE
