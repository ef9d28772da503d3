CONSTANTS
  None = None
  Syncers = {worker, web}
  Manager = manager
  Second = web
  Scenes = {"lobby"}
  Members = {1, 2}
  Players = {1, 2, 3}
  PlayerPosition <- MCPosition
  Slots <- MCSlots
  OpeningRosters <- MCOpening
  OfficialRosters <- MCOfficial
  HandMoveKinds = {"drop"}
  MaxRound = 2
  MaxCrashes = 1
  MaxFailures = 1
  MaxHandMoves = 1
  Users = {1, 2}
  Founders = {1}
  MaxMembersAllowed = 2
  Seeds = {2}
  DrawsOf <- MCDraws
  MaxMishaps = 1
  Worker = worker
  Recorders = {}
  Games = {"g1", "g2"}
  LinesOf <- MCLines
  MaxStatCrashes = 1
  MaxStatFailures = 2
  Leagues = {1, 2}
  MaxJobMishaps = 1
  Passes = {"sweep", "write-ups", "rewrite"}
  LockOf <- MCLocks
  MaxTokenLosses = 2
  MaxLoginFailures = 1
  MaxStops = 1
SPECIFICATION SeasonSpec
PROPERTY SeasonsHaveADraft
CHECK_DEADLOCK FALSE
