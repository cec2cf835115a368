CONSTANTS
  RankCount = 3
  SuitCount = 2
  BoardCards = 1
  ReportEvery = 2
  ThreadCounts = {1, 2, 3, 5}
  VerifyHands <- MCVerifyHands
  Score <- MCScore
SPECIFICATION Spec
INVARIANTS
  GatesHold
  TableIsExact
PROPERTY ProgramEnds
