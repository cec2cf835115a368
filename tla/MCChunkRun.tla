------------------------------- MODULE MCChunkRun -------------------------------
(* Small instance of ChunkRun: chunks of two trials, budgets that need no    *)
(* chunk, one chunk, full chunks and a short last chunk; every option class  *)
(* (explicit, negative, automatic), an override present and absent, and a    *)
(* hardware count above the chunk count.                                     *)
EXTENDS ChunkRun

MCTotals          == {0, 1, 4, 5, 8}
MCThreadOptions   == {-1, 0, 2, 3}
MCEnvThreads      == {0, 2}
MCHardwareThreads == {0, 9}
=============================================================================
