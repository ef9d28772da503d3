CONSTANTS
  m1 = m1
  m2 = m2
  m3 = m3
  c1 = c1
  c2 = c2
  None = None
  Worker = worker
  Calls = {c1}
  Order <- PairOrder
  Format = "snake"
  Template <- TrioTemplate
  Players <- PairPlayers
  Position <- PairPosition
  Sheet <- PairSheet
  RankPir <- MCRankPir
  InitiallyArmed = {m2}
  PickIds <- MCPickIds
  Requests = {"pick"}
  MaxFaults = 3
  MaxOvershoot = 0
  Scenes = {"room", "pages", "chat"}
  Surfaces = {room, lobby}
  Rereads = {lobby}
  MaxVersion = 2
  MaxPageTrouble = 2
  Devices = {ann}
  Others = {ben}
  App = App
  MaxTyped = 1
  MaxLines = 1
  MaxRenders = 1
  MaxChatTrouble = 2
SPECIFICATION NightSpec
INVARIANTS TypeOK NothingForgotten NoLineForgotten
PROPERTIES DraftsFinish ViewsOnlyAdvance PagesComeToRest
CHECK_DEADLOCK FALSE
