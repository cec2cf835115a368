CONSTANTS
  RankCount = 2
  SuitCount = 3
  BoardSizes <- MCBoardSizes
  AskedSizes <- MCAskedSizes
  AskedVersions <- MCAskedVersions
  HardwareThreads <- MCHardwareThreads
  MaxThreads = 3
  FinalReserve = 28
  SituationChunk = 4
SPECIFICATION Spec
INVARIANT FailureReachesCaller
