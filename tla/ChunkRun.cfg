CONSTANTS
  ChunkTrials = 2
  AutoThreadMinTrials = 5
  Totals <- MCTotals
  ThreadOptions <- MCThreadOptions
  EnvThreads <- MCEnvThreads
  HardwareThreads <- MCHardwareThreads
SPECIFICATION FairSpec
INVARIANTS
  TypeOK
  FrameOutlivesWorkers
  ChunkRunOnce
  NoChunkBelowFailureSkipped
  OutcomeDeterminate
  EveryTrialRun
  UnwindDrains
PROPERTIES
  EveryCallReturns
  ImplementsJob
