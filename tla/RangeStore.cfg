CONSTANTS
  LowRank = 10
  Full = 4
  RankTable <- MCRankTable
  Sources <- MCSources
  Partners <- MCPartners
  DeadMasks <- MCDeadMasks
  Capacities = {0, 2}
  Percents = {0, 20}
  MaxOperand = 200
  MaxRanges = 3
  MaxCalls = 3
SPECIFICATION Spec
INVARIANTS RangesMeanWhatTheySay AscendingWherePromised SlotTellsSuccess
CHECK_DEADLOCK FALSE
