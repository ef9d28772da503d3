CONSTANTS
  Scenes = {"write-ups", "questions"}
  Scopes <- MCScopes
  Supports <- MCSupports
  LinkedLeagues = {1, 2}
  GamePlayers = {1, 2}
  OwnPosition <- MCOwn
  RosterCounts <- MCCounts
  Listings <- MCListings
  MaxListings = 1
  MaxAnswers = 1
  MaxReadFaults = 1
SPECIFICATION UpkeepSpec
PROPERTIES WriteupsSettle QuestionsComeToRest
CHECK_DEADLOCK FALSE
