CONSTANTS
  w1 = w1
  w2 = w2
  Workers = {w1, w2}
  ToDraw = 2
  Calls <- MCCalls
  ChunkSizes <- MCChunkSizes
  MaxRejections = 2
SPECIFICATION Spec
INVARIANTS SameDrawsSameTrials TrialsAreLegal BoardsAreUniform PairsAreProportional
PROPERTY EveryChunkEnds
