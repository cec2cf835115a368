------------------------------- MODULE ChunkPlan -------------------------------
(***************************************************************************)
(* The arithmetic of one chunked Monte Carlo job (src/core/mc_chunking.h): *)
(* how many chunks a trial budget is cut into, how many trials each chunk  *)
(* runs, how many workers run them, and what the job returns.              *)
(*                                                                         *)
(* A chunk's counters are abstracted to the pair <chunk index, trials>:    *)
(* the index stands for the substream derive_chunk_seed(master_seed, k),   *)
(* which is all a chunk's output depends on besides its trial count.       *)
(***************************************************************************)
EXTENDS Integers, FiniteSetsExt

CONSTANTS
  ChunkTrials,          (* kMcChunkTrials: trials per full chunk            *)
  AutoThreadMinTrials,  (* kMcAutoThreadMinTrials: auto mode stays serial   *)
                        (* below this budget                                *)
  Totals,               (* trial budgets a caller asks for                  *)
  ThreadOptions,        (* SimulationOptions::threads values                *)
  EnvThreads,           (* what XIAPL_NUM_THREADS parses to; 0 stands for   *)
                        (* unset, malformed, or out of range                *)
  HardwareThreads       (* hardware_concurrency() values, 0 = unknown       *)

ASSUME PlanAssumption ==
  /\ ChunkTrials \in Nat \ {0}
  /\ AutoThreadMinTrials \in Nat
  /\ Totals \subseteq Nat
  /\ ThreadOptions \subseteq Int
  /\ EnvThreads \subseteq Int
  /\ HardwareThreads \subseteq Nat

-----------------------------------------------------------------------------
(* num_chunks = ceil(total_trials / kMcChunkTrials). *)
NumChunks(total) == (total + ChunkTrials - 1) \div ChunkTrials

Chunks(total) == 0 .. NumChunks(total) - 1

(* Chunk k starts at k * kMcChunkTrials and is cut at the budget. *)
ChunkSizeNoCut(total, k) == ChunkTrials

ChunkSize(total, k) ==
  LET left == total - k * ChunkTrials
  IN  IF left < ChunkTrials THEN left ELSE ChunkTrials

(* A positive override wins over the hardware count; an unknown hardware    *)
(* count means one worker.                                                  *)
AutoMcThreadCount(env, hw) ==
  IF env > 0 THEN env ELSE IF hw > 0 THEN hw ELSE 1

ResolveMcThreads(option, total, env, hw) ==
  LET want == IF option > 0 THEN option
              ELSE IF option = 0 /\ total >= AutoThreadMinTrials
                   THEN AutoMcThreadCount(env, hw)
                   ELSE 1
      n == NumChunks(total)
  IN  IF n <= 1 THEN 1 ELSE IF want > n THEN n ELSE want

-----------------------------------------------------------------------------
(* A job: the budget, the knobs that may only change its speed, and the set *)
(* of chunks whose body throws. Each chunk runs at most once, so fixing     *)
(* that set up front loses no behaviour.                                    *)
Jobs == [total : Totals, option : ThreadOptions, env : EnvThreads,
         hw : HardwareThreads, fails : SUBSET UNION {Chunks(t) : t \in Totals}]

WellFormed(j) == j.fails \subseteq Chunks(j.total)

Width(j) == ResolveMcThreads(j.option, j.total, j.env, j.hw)

(* What run_chunk returns for chunk k. *)
ChunkValue(j, k) == <<k, ChunkSize(j.total, k)>>

(* How a call ends. *)
Pending       == [kind |-> "pending"]
Value(acc)    == [kind |-> "value", acc |-> acc]
ChunkError(k) == [kind |-> "chunk_error", chunk |-> k]
SpawnError    == [kind |-> "spawn_error"]
UnfilledSlot  == [kind |-> "unfilled_slot"]

(* The result the header promises: every chunk, reduced in ascending index  *)
(* order, or else the failure of the lowest failing chunk. It mentions      *)
(* neither the option nor the environment nor the hardware.                 *)
Promised(j) ==
  IF j.fails = {}
  THEN Value([i \in 1 .. NumChunks(j.total) |-> ChunkValue(j, i - 1)])
  ELSE ChunkError(Min(j.fails))
=============================================================================
