-------------------------------- MODULE ChunkRun --------------------------------
(***************************************************************************)
(* run_chunks_parallel and run_mc_chunks (src/core/mc_chunking.h), the     *)
(* driver under every Monte Carlo sampler and under the phases of the      *)
(* exact range enumeration. The calling thread creates the workers, joins  *)
(* them, rethrows or reduces; each worker claims chunk indices from one    *)
(* atomic counter until the counter passes the end or a chunk throws.      *)
(***************************************************************************)
EXTENDS ChunkPlan, Sequences, Functions

VARIABLES
  job,          (* the call's arguments, never changed                       *)
  caller,       (* where the calling thread is                               *)
  pos,          (* the loop index of the caller's current loop               *)
  nextChunk,    (* the atomic counter                                        *)
  wpc,          (* where each worker is                                      *)
  claim,        (* the index each worker fetched last                        *)
  errors,       (* chunks whose exception is stored in chunk_errors          *)
  results,      (* chunk_results                                             *)
  acc,          (* what reduce has been handed so far                        *)
  outcome       (* how the call ended                                        *)

vars == <<job, caller, pos, nextChunk, wpc, claim, errors, results, acc, outcome>>

n == NumChunks(job.total)
Threads == 0 .. Width(job) - 1

(* No job has more workers than chunks, so these indices serve for both. *)
WorkerIds == UNION {Chunks(t) : t \in Totals}

(* A default-constructed result slot. *)
Unstored == <<>>

CallerPlaces == {"serial", "spawn", "join", "unwind", "rethrow", "reduce", "done"}
WorkerPlaces == {"absent", "pull", "run", "exit"}

-----------------------------------------------------------------------------
Init ==
  /\ job \in {j \in Jobs : WellFormed(j)}
  /\ caller = IF Width(job) <= 1 THEN "serial" ELSE "spawn"
  /\ pos = 0
  /\ nextChunk = 0
  /\ wpc = [t \in Threads |-> "absent"]
  /\ claim = [t \in Threads |-> 0]
  /\ errors = {}
  /\ results = [k \in Chunks(job.total) |-> Unstored]
  /\ acc = <<>>
  /\ outcome = Pending

Return(o) == caller' = "done" /\ outcome' = o

Goto(place) == caller' = place /\ pos' = 0 /\ UNCHANGED outcome

(* --- one worker: the loop runs chunks in index order on the caller --- *)

SerialChunk ==
  /\ caller = "serial" /\ pos < n
  /\ IF pos \in job.fails
     THEN Return(ChunkError(pos)) /\ UNCHANGED <<pos, results>>
     ELSE /\ results' = [results EXCEPT ![pos] = ChunkValue(job, pos)]
          /\ pos' = pos + 1
          /\ UNCHANGED <<caller, outcome>>
  /\ UNCHANGED <<job, nextChunk, wpc, claim, errors, acc>>

SerialDone ==
  /\ caller = "serial" /\ pos = n
  /\ Goto("reduce")
  /\ UNCHANGED <<job, nextChunk, wpc, claim, errors, results, acc>>

(* --- fan-out: create, join, rethrow --- *)

Spawn ==
  /\ caller = "spawn" /\ pos \in Threads
  /\ wpc' = [wpc EXCEPT ![pos] = "pull"]
  /\ pos' = pos + 1
  /\ UNCHANGED <<job, caller, nextChunk, claim, errors, results, acc, outcome>>

(* Variant: the exception leaves at once, without the joins. *)
SpawnFailsUnjoined ==
  /\ caller = "spawn" /\ pos \in Threads
  /\ Return(SpawnError)
  /\ UNCHANGED <<job, pos, nextChunk, wpc, claim, errors, results, acc>>

(* std::thread's constructor throws: the workers already running are joined *)
(* before the exception leaves the frame they refer to.                     *)
SpawnFails ==
  /\ caller = "spawn" /\ pos \in Threads
  /\ Goto("unwind")
  /\ UNCHANGED <<job, nextChunk, wpc, claim, errors, results, acc>>

SpawnDone ==
  /\ caller = "spawn" /\ pos = Width(job)
  /\ Goto("join")
  /\ UNCHANGED <<job, nextChunk, wpc, claim, errors, results, acc>>

Join ==
  /\ caller \in {"join", "unwind"}
  /\ pos \in Threads /\ wpc[pos] = "exit"
  /\ pos' = pos + 1
  /\ UNCHANGED <<job, caller, nextChunk, wpc, claim, errors, results, acc, outcome>>

JoinsDone ==
  /\ caller = "join" /\ pos = Width(job)
  /\ Goto("rethrow")
  /\ UNCHANGED <<job, nextChunk, wpc, claim, errors, results, acc>>

UnwindDone ==
  /\ caller = "unwind" /\ pos \in Threads /\ wpc[pos] = "absent"
  /\ Return(SpawnError)
  /\ UNCHANGED <<job, pos, nextChunk, wpc, claim, errors, results, acc>>

(* Variant: whichever failure is found first is rethrown. *)
RethrowAny ==
  /\ caller = "rethrow"
  /\ \/ errors # {} /\ (\E k \in errors : Return(ChunkError(k))) /\ UNCHANGED pos
     \/ errors = {} /\ Goto("reduce")
  /\ UNCHANGED <<job, nextChunk, wpc, claim, errors, results, acc>>

Rethrow ==
  /\ caller = "rethrow"
  /\ IF errors # {}
     THEN Return(ChunkError(Min(errors))) /\ UNCHANGED pos
     ELSE Goto("reduce")
  /\ UNCHANGED <<job, nextChunk, wpc, claim, errors, results, acc>>

(* --- the reduction, in ascending index order on the calling thread --- *)

(* Variant: slots are reduced in any order, as completion order would give. *)
ReduceUnordered ==
  /\ caller = "reduce" /\ pos < n
  /\ \E k \in {c \in Chunks(job.total) : results[c] \notin Range(acc)} :
       acc' = Append(acc, results[k])
  /\ pos' = pos + 1
  /\ UNCHANGED <<job, caller, nextChunk, wpc, claim, errors, results, outcome>>

(* simulate_multiway's reduce reports a slot no chunk filled. *)
ReduceChunk ==
  /\ caller = "reduce" /\ pos < n
  /\ IF results[pos] = Unstored
     THEN Return(UnfilledSlot) /\ UNCHANGED <<pos, acc>>
     ELSE /\ acc' = Append(acc, results[pos])
          /\ pos' = pos + 1
          /\ UNCHANGED <<caller, outcome>>
  /\ UNCHANGED <<job, nextChunk, wpc, claim, errors, results>>

ReduceDone ==
  /\ caller = "reduce" /\ pos = n
  /\ Return(Value(acc))
  /\ UNCHANGED <<job, pos, nextChunk, wpc, claim, errors, results, acc>>

(* --- a worker --- *)

(* Variants of Pull: the bound is off by one; the increment is not atomic,  *)
(* so another worker's store may overwrite it; the worker stops when the    *)
(* caller unwinds.                                                          *)
PullOffByOne(t) ==
  /\ wpc[t] = "pull"
  /\ claim' = [claim EXCEPT ![t] = nextChunk]
  /\ nextChunk' = nextChunk + 1
  /\ wpc' = [wpc EXCEPT ![t] = IF nextChunk > n THEN "exit" ELSE "run"]
  /\ UNCHANGED <<job, caller, pos, errors, results, acc, outcome>>

PullLostUpdate(t) ==
  /\ wpc[t] = "pull"
  /\ claim' = [claim EXCEPT ![t] = nextChunk]
  /\ nextChunk' \in {nextChunk, nextChunk + 1}
  /\ wpc' = [wpc EXCEPT ![t] = IF nextChunk >= n THEN "exit" ELSE "run"]
  /\ UNCHANGED <<job, caller, pos, errors, results, acc, outcome>>

PullUnlessUnwinding(t) ==
  /\ wpc[t] = "pull"
  /\ claim' = [claim EXCEPT ![t] = nextChunk]
  /\ nextChunk' = nextChunk + 1
  /\ wpc' = [wpc EXCEPT ![t] =
       IF nextChunk >= n \/ caller = "unwind" THEN "exit" ELSE "run"]
  /\ UNCHANGED <<job, caller, pos, errors, results, acc, outcome>>

(* fetch_add, then leave when the counter has passed the last chunk. *)
Pull(t) ==
  /\ wpc[t] = "pull"
  /\ claim' = [claim EXCEPT ![t] = nextChunk]
  /\ nextChunk' = nextChunk + 1
  /\ wpc' = [wpc EXCEPT ![t] = IF nextChunk >= n THEN "exit" ELSE "run"]
  /\ UNCHANGED <<job, caller, pos, errors, results, acc, outcome>>

(* Variants of RunChunk: a worker gives up its chunk once any chunk has     *)
(* failed; a worker stays on the chunk that failed.                         *)
RunChunkCancelled(t) ==
  /\ wpc[t] = "run"
  /\ \/ /\ claim[t] \in job.fails
        /\ errors' = errors \union {claim[t]}
        /\ wpc' = [wpc EXCEPT ![t] = "exit"]
        /\ UNCHANGED results
     \/ /\ errors # {}
        /\ wpc' = [wpc EXCEPT ![t] = "exit"]
        /\ UNCHANGED <<errors, results>>
     \/ /\ claim[t] \notin job.fails /\ errors = {}
        /\ results' = [results EXCEPT ![claim[t]] = ChunkValue(job, claim[t])]
        /\ wpc' = [wpc EXCEPT ![t] = "pull"]
        /\ UNCHANGED errors
  /\ UNCHANGED <<job, caller, pos, nextChunk, claim, acc, outcome>>

RunChunkRetried(t) ==
  /\ wpc[t] = "run"
  /\ claim[t] \notin job.fails
  /\ results' = [results EXCEPT ![claim[t]] = ChunkValue(job, claim[t])]
  /\ wpc' = [wpc EXCEPT ![t] = "pull"]
  /\ UNCHANGED <<job, caller, pos, nextChunk, claim, errors, acc, outcome>>

(* body(k): store the result and pull again, or store the exception under   *)
(* the chunk's index and leave.                                             *)
RunChunk(t) ==
  /\ wpc[t] = "run"
  /\ IF claim[t] \in job.fails
     THEN /\ errors' = errors \union {claim[t]}
          /\ wpc' = [wpc EXCEPT ![t] = "exit"]
          /\ UNCHANGED results
     ELSE /\ results' = [results EXCEPT ![claim[t]] = ChunkValue(job, claim[t])]
          /\ wpc' = [wpc EXCEPT ![t] = "pull"]
          /\ UNCHANGED errors
  /\ UNCHANGED <<job, caller, pos, nextChunk, claim, acc, outcome>>

-----------------------------------------------------------------------------
Worker(t) == Pull(t) \/ RunChunk(t)

CallerStep ==
  \/ SerialChunk \/ SerialDone
  \/ Spawn \/ SpawnFails \/ SpawnDone
  \/ Join \/ JoinsDone \/ UnwindDone
  \/ Rethrow
  \/ ReduceChunk \/ ReduceDone

(* The call is over; stuttering here keeps TLC's deadlock check meaningful  *)
(* for every other state.                                                   *)
Returned == caller = "done" /\ UNCHANGED vars

Next == CallerStep \/ (\E t \in Threads : Worker(t)) \/ Returned

(* Threads the system scheduler keeps running: the caller, and each worker. *)
Fairness ==
  /\ WF_vars(CallerStep)
  /\ \A t \in WorkerIds : WF_vars(t \in Threads /\ Worker(t))

Spec == Init /\ [][Next]_vars

FairSpec == Spec /\ Fairness

-----------------------------------------------------------------------------
TypeOK ==
  /\ job \in Jobs /\ WellFormed(job)
  /\ caller \in CallerPlaces
  /\ pos \in 0 .. n
  /\ nextChunk \in 0 .. n + Width(job)
  /\ wpc \in [Threads -> WorkerPlaces]
  /\ claim \in [Threads -> Nat]
  /\ errors \subseteq Chunks(job.total)
  /\ DOMAIN results = Chunks(job.total)
  /\ \A k \in DOMAIN results : results[k] \in {Unstored, ChunkValue(job, k)}

Live(t) == wpc[t] \in {"pull", "run"}

Settled(k) == k \in errors \/ results[k] # Unstored

(* The workers refer to the caller's frame (the counter, the slots, the     *)
(* trial function's captures): none is running once the caller has left the *)
(* join loops, whichever way it left them.                                  *)
FrameOutlivesWorkers ==
  caller \in {"rethrow", "reduce", "done"} => \A t \in Threads : ~Live(t)

(* A chunk is run by one worker, once: no two running workers hold the same *)
(* chunk, and a chunk being run has neither a result nor an error yet.      *)
ChunkRunOnce ==
  \A t \in Threads : wpc[t] = "run" =>
    /\ ~Settled(claim[t])
    /\ \A u \in Threads \ {t} : wpc[u] = "run" => claim[u] # claim[t]

(* When the joins are over, no chunk below the lowest failing one was left  *)
(* out, and the failing one was reached, although every worker that met a   *)
(* failure stopped pulling.                                                 *)
NoChunkBelowFailureSkipped ==
  caller = "rethrow" =>
    \A k \in Chunks(job.total) : (\A f \in job.fails : f >= k) => Settled(k)

(* The answer depends on the budget and on which chunks fail, never on the  *)
(* worker count or on timing: all the chunks in index order, or else the    *)
(* failure of the lowest one. No reduction ever meets an unfilled slot.     *)
OutcomeDeterminate == outcome \in {Pending, SpawnError, Promised(job)}

(* The chunks of a completed job run the requested trials exactly.          *)
EveryTrialRun ==
  outcome.kind = "value" =>
    SumFunctionOnSet([i \in DOMAIN outcome.acc |-> outcome.acc[i][2]],
                     DOMAIN outcome.acc) = job.total

(* After a failed spawn the workers already created still finish the job's  *)
(* chunks before the caller unwinds, when no chunk has failed meanwhile.     *)
UnwindDrains ==
  (outcome = SpawnError /\ errors = {} /\ \E t \in Threads : wpc[t] = "exit")
    => \A k \in Chunks(job.total) : results[k] # Unstored

(* Every call returns, whatever fails and whoever runs what.                *)
EveryCallReturns == <>(caller = "done")

(* The driver keeps the promise of the chunked job.                         *)
Contract == INSTANCE ChunkJob WITH job <- job, outcome <- outcome

ImplementsJob == Contract!Spec
=============================================================================
