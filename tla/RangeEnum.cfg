CONSTANTS
  Cards <- MCCards
  HoleCards = 2
  BoardCards = 1
  BoardSizes = {0, 1}
  MaxRowChunks = 3
  MinAutoWork = 20
  EvalsPerCell = 2
  CacheLimit = 31
  Score <- MCScore
  Calls <- MCCalls
SPECIFICATION Spec
INVARIANTS
  CacheFinalWhenRead
  EveryPairOnce
  EveryComboAnswered
  SameAtEveryWidth
