CONSTANTS
  Deck <- MCDeck
  Calls <- MCCalls
  ChunkTrials = 2
  MaxSeats = 3
  MaxMaskPlayers = 5
  ShareUnit = 12
  Leftover <- MCLeftover
SPECIFICATION Spec
INVARIANTS BestFiveWins EquityIsPotShare ExactMeansEveryBoardOnce
