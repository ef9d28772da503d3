CONSTANTS
  MaxMembers = 4
  MaxRounds = 5
  MaxSlots = 6
  Pool = {1, 2, 3}
  None = None
  SyncWindow = 2
  ApplyAfterLock = 1
  CloseAfterLastTip = 2
  SettleAfterLastTip = 4
  PreviewEvery = 4
  RetryFailed = 2
  RoundSpan = 10
  DayLength = 6
  PoolSize = 2
SPECIFICATION RulesSpec
INVARIANTS OrderReachesTheBoard RollIsFair ClockHoldsOnAnyBoard AutodraftKeepsToTheSheet PlansReachTheOfficialRosters RowsExplainTheRosters TransactionsKeepRostersLegal HistoryTellsEveryRowOnce OptimizedLineupIsBest FrozenRolesSurviveEdits PhaseTablesAgree EveryGameDayIsReadOnce SheetEditsKeepTheRest SavedSheetIsTheOneShown RerunsSettle
CHECK_DEADLOCK FALSE
