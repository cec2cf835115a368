----------------------------- MODULE ChunkRunProofs -----------------------------
(***************************************************************************)
(* Theorems about the chunk driver, for every budget, chunk size, worker   *)
(* knob, set of failing chunks and schedule. They all follow from one      *)
(* inductive invariant, IInv, whose conjuncts say what a place of the      *)
(* caller and a value of the counter imply about the chunks.               *)
(***************************************************************************)
EXTENDS ChunkRun, Induction, SequenceTheorems

(* Workers exist only when more than one is wanted, and then there are at  *)
(* most as many as chunks; before the fan-out and on the serial path none  *)
(* exists.                                                                 *)
FanOut ==
  /\ caller \in {"spawn", "join", "unwind", "rethrow"} => Width(job) > 1
  /\ \A t \in Threads : wpc[t] # "absent" => Width(job) > 1
  /\ caller = "serial" => Width(job) <= 1 /\ errors = {}
  /\ caller # "done" => outcome = Pending

(* Where the caller's loop is tells which workers exist and which are      *)
(* over.                                                                   *)
Joined ==
  /\ caller = "spawn" => \A t \in Threads : wpc[t] = "absent" <=> t >= pos
  /\ caller = "join" => \A t \in Threads : wpc[t] # "absent"
  /\ caller \in {"join", "unwind"} => \A t \in Threads : t < pos => wpc[t] = "exit"
  /\ caller = "unwind" =>
       \A t, u \in Threads : wpc[t] = "absent" /\ u > t => wpc[u] = "absent"
  /\ caller = "rethrow" => \A t \in Threads : wpc[t] = "exit"
  /\ FrameOutlivesWorkers

(* Every worker that fetched past the end has left for good.               *)
Exited == {t \in Threads : wpc[t] = "exit"}

Counted == nextChunk <= n + Cardinality(Exited)

(* A chunk below the counter is settled or is being run, by one worker;    *)
(* one above it has not been touched.                                      *)
Claimed ==
  /\ \A t \in Threads : wpc[t] = "run" => claim[t] < nextChunk /\ claim[t] < n
  /\ \A k \in Chunks(job.total) :
       Width(job) > 1 /\ k < nextChunk =>
         Settled(k) \/ \E t \in Threads : wpc[t] = "run" /\ claim[t] = k
  /\ \A k \in Chunks(job.total) : Width(job) > 1 /\ Settled(k) => k < nextChunk

(* Errors come from failing chunks and results from the others. A worker   *)
(* left because the chunks ran out or because its chunk failed.            *)
Stored ==
  /\ errors \subseteq job.fails
  /\ \A k \in Chunks(job.total) : results[k] # Unstored => k \notin job.fails
  /\ \A t \in Threads : wpc[t] = "exit" => nextChunk >= n \/ errors # {}

(* The serial loop has filled every slot below pos; the reduction starts   *)
(* when every slot is filled, and has taken the first pos of them in       *)
(* order.                                                                  *)
Reduced ==
  /\ caller = "serial" =>
       \A k \in Chunks(job.total) : results[k] # Unstored <=> k < pos
  /\ caller = "reduce" => \A k \in Chunks(job.total) : results[k] # Unstored
  /\ acc \in Seq(Nat \X Int)
  /\ caller \notin {"reduce", "done"} => acc = <<>>
  /\ caller = "reduce" =>
       /\ Len(acc) = pos
       /\ \A i \in 1 .. pos : acc[i] = ChunkValue(job, i - 1)

IInv ==
  /\ TypeOK
  /\ FanOut
  /\ Joined
  /\ Counted
  /\ Claimed
  /\ ChunkRunOnce
  /\ Stored
  /\ Reduced
  /\ OutcomeDeterminate

-----------------------------------------------------------------------------
(* Facts about the arithmetic of one job.                                  *)

(* The chunk count of a budget is a natural number.                        *)
LEMMA ChunkCount ==
  ASSUME NEW total \in Nat
  PROVE  NumChunks(total) \in Nat
BY PlanAssumption DEF NumChunks

(* A job runs with at least one worker, and with no more workers than      *)
(* chunks once it fans out.                                                *)
LEMMA JobWidth ==
  ASSUME TypeOK
  PROVE  /\ n \in Nat
         /\ Width(job) \in Nat \ {0}
         /\ Width(job) > 1 => Width(job) <= n
<1>1. job.total \in Nat /\ job.option \in Int /\ job.env \in Int /\ job.hw \in Nat
  BY PlanAssumption DEF TypeOK, Jobs
<1>2. n \in Nat
  BY <1>1, ChunkCount DEF n
<1>3. AutoMcThreadCount(job.env, job.hw) \in Nat \ {0}
  BY <1>1 DEF AutoMcThreadCount
<1> QED
  BY <1>1, <1>2, <1>3 DEF n, Width, ResolveMcThreads

(* A stored slot differs from a default one.                               *)
LEMMA StoredValue ==
  ASSUME TypeOK, NEW k \in Chunks(job.total)
  PROVE  ChunkValue(job, k) # Unstored /\ ChunkValue(job, k) \in Nat \X Int
<1>0. job.total \in Nat
  BY PlanAssumption DEF TypeOK, Jobs
<1>1. k \in Nat
  BY <1>0, ChunkCount DEF Chunks
<1>2. ChunkSize(job.total, k) \in Int
  BY <1>0, <1>1, PlanAssumption DEF ChunkSize
<1> QED
  BY <1>1, <1>2 DEF ChunkValue, Unstored

(* The set of workers that left only grows when one more leaves.           *)
LEMMA OneMoreExit ==
  ASSUME TypeOK, NEW t \in Threads, wpc[t] # "exit",
         wpc' = [wpc EXCEPT ![t] = "exit"], job' = job
  PROVE  Cardinality(Exited') = Cardinality(Exited) + 1
<1>1. Exited' = Exited \union {t} /\ t \notin Exited
  BY DEF Exited, TypeOK, Threads
<1>2. IsFiniteSet(Exited)
  <2>1. IsFiniteSet(Threads)
    BY JobWidth, FS_Interval DEF Threads
  <2> QED
    BY <2>1, FS_Subset DEF Exited
<1> QED
  BY <1>1, <1>2, FS_AddElement

(* There are at most Width(job) workers.                                   *)
LEMMA WorkerCount ==
  ASSUME TypeOK, NEW S \in SUBSET Threads
  PROVE  Cardinality(S) \in Nat /\ Cardinality(S) <= Width(job)
<1>1. Width(job) \in Nat \ {0}
  BY JobWidth
<1>2. IsFiniteSet(Threads) /\ Cardinality(Threads) = Width(job)
  BY <1>1, FS_Interval DEF Threads
<1> QED
  BY <1>1, <1>2, FS_Subset, FS_CardinalityType

-----------------------------------------------------------------------------
(* The invariant holds initially.                                          *)
LEMMA InitIInv == Init => IInv
<1> SUFFICES ASSUME Init PROVE IInv
  OBVIOUS
<1>1. /\ n \in Nat
      /\ Width(job) \in Nat \ {0}
      /\ Width(job) > 1 => Width(job) <= n
  <2>1. job.total \in Nat /\ job.option \in Int /\ job.env \in Int /\ job.hw \in Nat
    BY PlanAssumption DEF Init, Jobs
  <2>2. n \in Nat
    BY <2>1, ChunkCount DEF n
  <2>3. AutoMcThreadCount(job.env, job.hw) \in Nat \ {0}
    BY <2>1 DEF AutoMcThreadCount
  <2> QED
    BY <2>1, <2>2, <2>3 DEF n, Width, ResolveMcThreads
<1>2. TypeOK
  BY <1>1 DEF Init, TypeOK, CallerPlaces, WorkerPlaces, Unstored, Threads
<1>3. FanOut /\ Joined /\ FrameOutlivesWorkers
  BY <1>1 DEF Init, FanOut, Joined, FrameOutlivesWorkers, Live, Threads
<1>4. Counted
  BY <1>1, <1>2, WorkerCount DEF Init, Counted, Exited
<1>5. Claimed /\ ChunkRunOnce /\ Stored
  BY <1>1 DEF Init, Claimed, ChunkRunOnce, Stored, Settled, Chunks
<1>6. Reduced
  BY <1>1 DEF Init, Reduced, Chunks, Unstored
<1>7. OutcomeDeterminate
  BY DEF Init, OutcomeDeterminate
<1> QED
  BY <1>2, <1>3, <1>4, <1>5, <1>6, <1>7 DEF IInv

(* What every step leaves alone.                                           *)
LEMMA SameJob ==
  ASSUME job' = job
  PROVE  /\ n' = n
         /\ Threads' = Threads
         /\ Chunks(job.total)' = Chunks(job.total)
BY DEF n, Threads

(* A worker that fetches an index keeps the invariant.                     *)
LEMMA PullIInv ==
  ASSUME IInv, NEW t \in Threads, Pull(t)
  PROVE  IInv'
<1>1. /\ n \in Nat
      /\ Width(job) \in Nat \ {0}
      /\ Width(job) > 1 => Width(job) <= n
  BY JobWidth DEF IInv
<1>2. job' = job /\ n' = n /\ Threads' = Threads
  BY SameJob DEF Pull
<1>3. nextChunk \in Nat /\ wpc \in [Threads -> WorkerPlaces] /\ claim \in [Threads -> Nat]
  BY <1>1 DEF IInv, TypeOK
<1>4. Counted'
  <2>1. CASE nextChunk >= n
    <3>1. Cardinality(Exited') = Cardinality(Exited) + 1
      BY <2>1, OneMoreExit DEF IInv, Pull
    <3>2. Cardinality(Exited) \in Nat
      BY WorkerCount DEF IInv, Exited
    <3> QED
      BY <1>1, <1>2, <1>3, <2>1, <3>1, <3>2 DEF IInv, Pull, Counted
  <2>2. CASE nextChunk < n
    <3>1. Exited' \in SUBSET Threads
      BY <1>2 DEF Exited
    <3>2. Cardinality(Exited') \in Nat
      BY <3>1, WorkerCount DEF IInv
    <3> QED
      BY <1>1, <1>2, <1>3, <2>2, <3>2 DEF Pull, Counted
  <2> QED
    BY <1>1, <1>3, <2>1, <2>2
<1>5. TypeOK'
  <2>1. Exited' \in SUBSET Threads
    BY <1>2 DEF Exited
  <2>2. Cardinality(Exited') \in Nat /\ Cardinality(Exited') <= Width(job)
    BY <2>1, WorkerCount DEF IInv
  <2>3. nextChunk' \in 0 .. n' + Width(job')
    BY <1>1, <1>2, <1>3, <1>4, <2>2 DEF Counted, Pull
  <2> QED
    BY <1>1, <1>2, <1>3, <2>3 DEF IInv, TypeOK, Pull, WorkerPlaces
<1>6. FanOut' /\ Joined'
  BY <1>1, <1>2, <1>3 DEF IInv, Pull, FanOut, Joined, FrameOutlivesWorkers, Live
<1>7. Claimed' /\ ChunkRunOnce'
  BY <1>1, <1>2, <1>3, SameJob DEF IInv, Pull, FanOut, Claimed, ChunkRunOnce, Settled, n, Chunks
<1>8. Stored'
  BY <1>1, <1>2, <1>3, SameJob DEF IInv, Pull, Stored
<1>9. Reduced' /\ OutcomeDeterminate'
  BY <1>1, <1>2, <1>3, SameJob DEF IInv, Pull, Reduced, OutcomeDeterminate
<1> QED
  BY <1>4, <1>5, <1>6, <1>7, <1>8, <1>9 DEF IInv

(* A worker that runs its chunk keeps the invariant.                       *)
LEMMA RunChunkIInv ==
  ASSUME IInv, NEW t \in Threads, RunChunk(t)
  PROVE  IInv'
<1> DEFINE k == claim[t]
<1>1. /\ n \in Nat
      /\ Width(job) \in Nat \ {0}
      /\ Width(job) > 1 => Width(job) <= n
  BY JobWidth DEF IInv
<1>2. /\ job' = job /\ n' = n /\ Threads' = Threads
      /\ Chunks(job.total)' = Chunks(job.total)
  BY SameJob DEF RunChunk
<1>3. nextChunk \in Nat /\ wpc \in [Threads -> WorkerPlaces] /\ claim \in [Threads -> Nat]
  BY <1>1 DEF IInv, TypeOK
<1>4. k \in Chunks(job.total) /\ ~Settled(k) /\ k < nextChunk
  BY <1>1, <1>3 DEF IInv, RunChunk, Claimed, ChunkRunOnce, n, Chunks
<1>5. ChunkValue(job, k) # Unstored
  BY <1>4, StoredValue DEF IInv
<1>6. Counted'
  <2>1. CASE k \in job.fails
    <3>1. Cardinality(Exited') = Cardinality(Exited) + 1
      BY <2>1, <1>2, OneMoreExit DEF IInv, RunChunk
    <3>2. Cardinality(Exited) \in Nat
      BY WorkerCount DEF IInv, Exited
    <3> QED
      BY <1>1, <1>2, <1>3, <3>1, <3>2 DEF IInv, RunChunk, Counted
  <2>2. CASE k \notin job.fails
    <3>1. Exited' = Exited
      BY <1>2, <1>3, <2>2 DEF Exited, RunChunk
    <3> QED
      BY <1>2, <3>1 DEF IInv, RunChunk, Counted
  <2> QED
    BY <2>1, <2>2
<1>7. TypeOK'
  BY <1>1, <1>2, <1>3, <1>4 DEF IInv, TypeOK, RunChunk, WorkerPlaces
<1>8. FanOut' /\ Joined'
  BY <1>1, <1>2, <1>3 DEF IInv, RunChunk, FanOut, Joined, FrameOutlivesWorkers, Live
<1>9. Settled(k)' /\ \A c \in Chunks(job.total) \ {k} : Settled(c)' <=> Settled(c)
  BY <1>2, <1>4, <1>5 DEF IInv, TypeOK, RunChunk, Settled
<1>10. Claimed' /\ ChunkRunOnce'
  <2>1. \A u \in Threads \ {t} : wpc'[u] = wpc[u]
    BY <1>3 DEF RunChunk
  <2>2. wpc'[t] # "run" /\ wpc[t] = "run"
    BY <1>3 DEF RunChunk
  <2>3. Width(job) > 1
    BY <2>2 DEF IInv, FanOut
  <2>4. claim' = claim /\ nextChunk' = nextChunk
    BY DEF RunChunk
  <2>5. Claimed'
    BY <1>2, <1>4, <1>9, <2>1, <2>2, <2>3, <2>4 DEF IInv, Claimed
  <2>6. \A u \in Threads : wpc'[u] = "run" => claim[u] \in Chunks(job.total)
    BY <1>1, <1>3, <2>1, <2>2 DEF IInv, Claimed, n, Chunks
  <2>7. ChunkRunOnce'
    BY <1>2, <1>9, <2>1, <2>2, <2>4, <2>6 DEF IInv, ChunkRunOnce
  <2> QED
    BY <2>5, <2>7
<1>11. Stored'
  BY <1>1, <1>2, <1>3, <1>4, <1>5 DEF IInv, TypeOK, RunChunk, Stored
<1>12. Reduced' /\ OutcomeDeterminate'
  BY <1>1, <1>2, <1>3 DEF IInv, RunChunk, Reduced, OutcomeDeterminate, Joined, FrameOutlivesWorkers, Live, FanOut
<1> QED
  BY <1>6, <1>7, <1>8, <1>10, <1>11, <1>12 DEF IInv

(* The facts a step of the calling thread needs, together: it leaves the   *)
(* job, the counter, the claims and the errors alone.                      *)
LEMMA CallerFacts ==
  ASSUME IInv, CallerStep
  PROVE  /\ n \in Nat
         /\ Width(job) \in Nat \ {0}
         /\ Width(job) > 1 => Width(job) <= n
         /\ job' = job /\ n' = n /\ Threads' = Threads
         /\ Chunks(job.total)' = Chunks(job.total)
         /\ nextChunk' = nextChunk /\ claim' = claim /\ errors' = errors
<1>1. job' = job /\ nextChunk' = nextChunk /\ claim' = claim /\ errors' = errors
  BY DEF CallerStep, SerialChunk, SerialDone, Spawn, SpawnFails, SpawnDone, Join,
         JoinsDone, UnwindDone, Rethrow, ReduceChunk, ReduceDone
<1> QED
  BY <1>1, JobWidth, SameJob DEF IInv

(* A step that leaves the workers and the slots alone keeps what concerns  *)
(* them only.                                                              *)
LEMMA WorkersKept ==
  ASSUME IInv, CallerStep, wpc' = wpc, results' = results
  PROVE  Counted' /\ Claimed' /\ ChunkRunOnce' /\ Stored'
<1>1. Exited' = Exited
  BY CallerFacts DEF Exited
<1> QED
  BY <1>1, CallerFacts DEF IInv, Counted, Claimed, ChunkRunOnce, Stored, Settled

(* The serial loop.                                                        *)
LEMMA SerialIInv ==
  ASSUME IInv, SerialChunk \/ SerialDone
  PROVE  IInv'
<1>1. CallerStep
  BY DEF CallerStep
<1>2. pos \in Nat /\ Width(job) <= 1 /\ \A t \in Threads : wpc[t] = "absent"
  BY CallerFacts, <1>1 DEF IInv, TypeOK, FanOut, SerialChunk, SerialDone
<1>3. CASE SerialDone
  <2>1. TypeOK'
    BY <1>1, <1>3, CallerFacts DEF IInv, TypeOK, SerialDone, Goto, CallerPlaces
  <2>2. FanOut' /\ Joined'
    BY <1>1, <1>2, <1>3, CallerFacts
    DEF IInv, SerialDone, Goto, FanOut, Joined, FrameOutlivesWorkers, Live
  <2>3. Counted' /\ Claimed' /\ ChunkRunOnce' /\ Stored'
    BY <1>1, <1>3, WorkersKept DEF SerialDone
  <2>4. Reduced' /\ OutcomeDeterminate'
    BY <1>1, <1>2, <1>3, CallerFacts
    DEF IInv, SerialDone, Goto, Reduced, OutcomeDeterminate, Chunks, n
  <2> QED
    BY <2>1, <2>2, <2>3, <2>4 DEF IInv
<1>4. CASE SerialChunk /\ pos \in job.fails
  <2>1. caller' = "done" /\ outcome' = ChunkError(pos)
    BY <1>4 DEF SerialChunk, Return
  <2>2. Min(job.fails) = pos
    <3>1. \A f \in job.fails : f \in Nat /\ pos <= f
      BY <1>1, <1>2, <1>4, CallerFacts
      DEF IInv, TypeOK, WellFormed, SerialChunk, Reduced, Stored, Chunks, n
    <3> QED
      BY <1>2, <1>4, <3>1 DEF Min
  <2>3. TypeOK' /\ FanOut' /\ Joined'
    BY <1>1, <1>2, <1>4, <2>1, CallerFacts
    DEF IInv, TypeOK, SerialChunk, CallerPlaces, FanOut, Joined, FrameOutlivesWorkers, Live
  <2>4. Counted' /\ Claimed' /\ ChunkRunOnce' /\ Stored'
    BY <1>1, <1>4, WorkersKept DEF SerialChunk
  <2>5. Reduced'
    BY <1>4, <2>1 DEF IInv, SerialChunk, Reduced
  <2>6. OutcomeDeterminate'
    BY <1>1, <1>4, <2>1, <2>2, CallerFacts DEF OutcomeDeterminate, Promised
  <2> QED
    BY <2>3, <2>4, <2>5, <2>6 DEF IInv
<1>5. CASE SerialChunk /\ pos \notin job.fails
  <2>1. pos \in Chunks(job.total)
    BY <1>1, <1>2, <1>5, CallerFacts DEF SerialChunk, Chunks, n
  <2>2. ChunkValue(job, pos) # Unstored
    BY <2>1, StoredValue DEF IInv
  <2>3. TypeOK' /\ FanOut' /\ Joined'
    BY <1>1, <1>2, <1>5, <2>1, CallerFacts
    DEF IInv, TypeOK, SerialChunk, CallerPlaces, FanOut, Joined, FrameOutlivesWorkers, Live
  <2>4. Exited' = Exited
    BY <1>1, <1>5, CallerFacts DEF Exited, SerialChunk
  <2>5. Counted' /\ ChunkRunOnce' /\ Claimed'
    <3>1. \A t \in Threads : wpc'[t] = "absent"
      BY <1>2, <1>5 DEF SerialChunk
    <3> QED
      BY <1>1, <1>2, <2>4, <3>1, CallerFacts
      DEF IInv, Counted, ChunkRunOnce, Claimed
  <2>6. Stored'
    <3>1. \A t \in Threads : wpc'[t] = "absent"
      BY <1>2, <1>5 DEF SerialChunk
    <3>2. pos \notin job.fails /\ \A k \in Chunks(job.total) \ {pos} : results'[k] = results[k]
      BY <1>5 DEF IInv, TypeOK, SerialChunk
    <3>3. \A k \in Chunks(job.total) : results'[k] # Unstored => k \notin job.fails
      BY <3>2 DEF IInv, Stored
    <3>4. errors' \subseteq job'.fails
      BY <1>1, CallerFacts DEF IInv, Stored
    <3> QED
      BY <1>1, <3>1, <3>3, <3>4, CallerFacts DEF Stored
  <2>7. Reduced'
    <3>1. \A k \in Chunks(job.total) : results[k] # Unstored <=> k < pos
      BY <1>5 DEF IInv, Reduced, SerialChunk
    <3>2. \A k \in Chunks(job.total) : k \in Int
      BY <1>1, CallerFacts DEF Chunks, n
    <3>3. /\ results'[pos] # Unstored
          /\ \A k \in Chunks(job.total) \ {pos} : results'[k] = results[k]
      BY <1>5, <2>1, <2>2 DEF IInv, TypeOK, SerialChunk
    <3>4. \A k \in Chunks(job.total) : results'[k] # Unstored <=> k < pos'
      <4>1. pos' = pos + 1 /\ pos \in Int
        BY <1>2, <1>5 DEF SerialChunk
      <4> QED
        BY <3>1, <3>2, <3>3, <4>1
    <3>5. caller' = "serial" /\ acc' = acc /\ caller = "serial"
      BY <1>5 DEF SerialChunk
    <3> QED
      BY <1>1, <3>4, <3>5, CallerFacts DEF IInv, Reduced
  <2>8. OutcomeDeterminate'
    BY <1>1, <1>5, CallerFacts DEF IInv, OutcomeDeterminate, SerialChunk
  <2> QED
    BY <2>3, <2>5, <2>6, <2>7, <2>8 DEF IInv
<1> QED
  BY <1>3, <1>4, <1>5

(* Creating the workers.                                                   *)
LEMMA SpawnIInv ==
  ASSUME IInv, Spawn \/ SpawnFails \/ SpawnDone
  PROVE  IInv'
<1>1. CallerStep
  BY DEF CallerStep
<1>2. /\ pos \in Nat /\ Width(job) > 1 /\ caller = "spawn"
      /\ wpc \in [Threads -> WorkerPlaces]
      /\ \A t \in Threads : wpc[t] = "absent" <=> t >= pos
  BY CallerFacts, <1>1 DEF IInv, TypeOK, FanOut, Joined, Spawn, SpawnFails, SpawnDone
<1>3. CASE Spawn
  <2>1. wpc[pos] = "absent" /\ pos \in Threads
    BY <1>2, <1>3 DEF Spawn, Threads
  <2>2. TypeOK'
    BY <1>1, <1>2, <1>3, CallerFacts DEF IInv, TypeOK, Spawn, Threads, WorkerPlaces
  <2>3. FanOut' /\ Joined'
    BY <1>1, <1>2, <1>3, CallerFacts
    DEF IInv, Spawn, FanOut, Joined, FrameOutlivesWorkers, Threads
  <2>4. Exited' = Exited
    BY <1>1, <1>2, <1>3, <2>1, CallerFacts DEF Exited, Spawn
  <2>5. \A t \in Threads : wpc'[t] = "run" <=> wpc[t] = "run"
    BY <1>2, <1>3, <2>1 DEF Spawn
  <2>6. \A t \in Threads : wpc'[t] = "exit" <=> wpc[t] = "exit"
    BY <1>2, <1>3, <2>1 DEF Spawn
  <2>7. results' = results
    BY <1>3 DEF Spawn
  <2>8. Counted' /\ ChunkRunOnce' /\ Claimed' /\ Stored'
    BY <1>1, <2>4, <2>5, <2>6, <2>7, CallerFacts
    DEF IInv, Counted, ChunkRunOnce, Claimed, Stored, Settled
  <2>9. Reduced' /\ OutcomeDeterminate'
    BY <1>1, <1>2, <1>3, CallerFacts DEF IInv, Reduced, OutcomeDeterminate, Spawn
  <2> QED
    BY <2>2, <2>3, <2>8, <2>9 DEF IInv
<1>4. CASE SpawnFails \/ SpawnDone
  <2>1. TypeOK'
    BY <1>1, <1>4, CallerFacts
    DEF IInv, TypeOK, SpawnFails, SpawnDone, Goto, CallerPlaces
  <2>2. FanOut' /\ Joined'
    BY <1>1, <1>2, <1>4, CallerFacts
    DEF IInv, SpawnFails, SpawnDone, Goto, FanOut, Joined, FrameOutlivesWorkers, Threads
  <2>3. Counted' /\ Claimed' /\ ChunkRunOnce' /\ Stored'
    BY <1>1, <1>4, WorkersKept DEF SpawnFails, SpawnDone
  <2>4. Reduced' /\ OutcomeDeterminate'
    BY <1>1, <1>2, <1>4, CallerFacts
    DEF IInv, Reduced, OutcomeDeterminate, SpawnFails, SpawnDone, Goto
  <2> QED
    BY <2>1, <2>2, <2>3, <2>4 DEF IInv
<1> QED
  BY <1>3, <1>4

(* The join loops, and leaving them.                                       *)
LEMMA JoinIInv ==
  ASSUME IInv, Join \/ JoinsDone \/ UnwindDone
  PROVE  IInv'
<1>1. CallerStep
  BY DEF CallerStep
<1>2. /\ pos \in Nat /\ Width(job) > 1 /\ caller \in {"join", "unwind"}
      /\ outcome = Pending /\ acc = <<>>
      /\ \A t \in Threads : t < pos => wpc[t] = "exit"
  BY CallerFacts, <1>1
  DEF IInv, TypeOK, FanOut, Joined, Reduced, Join, JoinsDone, UnwindDone
<1>3. wpc' = wpc /\ results' = results /\ acc' = acc
  BY DEF Join, JoinsDone, UnwindDone
<1>4. Counted' /\ Claimed' /\ ChunkRunOnce' /\ Stored'
  BY <1>1, <1>3, WorkersKept
<1>5. TypeOK'
  <2>1. caller' \in CallerPlaces
    BY <1>2 DEF Join, JoinsDone, UnwindDone, Goto, Return, CallerPlaces
  <2>2. pos' \in 0 .. n
    BY <1>1, <1>2, CallerFacts
    DEF IInv, TypeOK, Join, JoinsDone, UnwindDone, Goto, Return, Threads
  <2> QED
    BY <1>1, <1>3, <2>1, <2>2, CallerFacts DEF IInv, TypeOK
<1>6. Reduced' /\ OutcomeDeterminate'
  BY <1>1, <1>2, <1>3, CallerFacts
  DEF IInv, Reduced, OutcomeDeterminate, Join, JoinsDone, UnwindDone, Goto, Return
<1>7. CASE Join
  <2>1. FanOut' /\ Joined'
    BY <1>1, <1>2, <1>3, <1>7, CallerFacts
    DEF IInv, FanOut, Joined, FrameOutlivesWorkers, Join, Threads
  <2> QED
    BY <1>4, <1>5, <1>6, <2>1 DEF IInv
<1>8. CASE JoinsDone
  <2>1. \A t \in Threads : wpc[t] = "exit"
    BY <1>1, <1>2, <1>8, CallerFacts DEF JoinsDone, Threads
  <2>2. FanOut' /\ Joined'
    BY <1>1, <1>2, <1>3, <1>8, <2>1, CallerFacts
    DEF IInv, FanOut, Joined, FrameOutlivesWorkers, JoinsDone, Goto, Live
  <2> QED
    BY <1>4, <1>5, <1>6, <2>2 DEF IInv
<1>9. CASE UnwindDone
  <2>1. \A t \in Threads : wpc[t] \in {"absent", "exit"}
    BY <1>1, <1>2, <1>9, CallerFacts DEF IInv, Joined, UnwindDone, Threads
  <2>2. FanOut' /\ Joined'
    BY <1>1, <1>2, <1>3, <1>9, <2>1, CallerFacts
    DEF IInv, FanOut, Joined, FrameOutlivesWorkers, UnwindDone, Return, Live
  <2> QED
    BY <1>4, <1>5, <1>6, <2>2 DEF IInv
<1> QED
  BY <1>7, <1>8, <1>9

(* When every worker has left, the chunks up to the lowest failure are     *)
(* settled: either the counter passed the end, or it passed a chunk whose  *)
(* error is stored, and every chunk below the counter was settled.         *)
LEMMA SettledAtRethrow ==
  ASSUME IInv
  PROVE  NoChunkBelowFailureSkipped
<1> SUFFICES ASSUME caller = "rethrow",
                    NEW k \in Chunks(job.total), \A f \in job.fails : f >= k
             PROVE  Settled(k)
  BY DEF NoChunkBelowFailureSkipped
<1>1. n \in Nat /\ Width(job) \in Nat /\ Width(job) > 1 /\ nextChunk \in Nat
  BY JobWidth DEF IInv, FanOut, TypeOK
<1>2. \A t \in Threads : wpc[t] = "exit"
  BY DEF IInv, Joined
<1>3. 0 \in Threads
  BY <1>1 DEF Threads
<1>4. nextChunk >= n \/ errors # {}
  BY <1>2, <1>3 DEF IInv, Stored
<1>5. k < nextChunk
  <2>1. k \in Nat /\ k < n
    BY <1>1 DEF Chunks, n
  <2>2. ASSUME NEW e \in errors
        PROVE  k < nextChunk
    <3>1. e \in Chunks(job.total) /\ e \in job.fails /\ e \in Nat
      BY <1>1, <2>2 DEF IInv, TypeOK, Stored, Chunks, n
    <3>2. e < nextChunk
      BY <1>1, <3>1, <2>2 DEF IInv, Claimed, Settled
    <3> QED
      BY <1>1, <2>1, <3>1, <3>2
  <2> QED
    BY <1>1, <1>4, <2>1, <2>2
<1> QED
  BY <1>1, <1>2, <1>5 DEF IInv, Claimed

(* Rethrowing the lowest stored failure, or going on to the reduction.     *)
LEMMA RethrowIInv ==
  ASSUME IInv, Rethrow
  PROVE  IInv'
<1>1. CallerStep
  BY DEF CallerStep, Rethrow
<1>2. \A t \in Threads : wpc[t] = "exit"
  BY DEF IInv, Joined, Rethrow
<1>3. wpc' = wpc /\ results' = results /\ acc' = acc /\ acc = <<>>
  BY DEF Rethrow, IInv, Reduced
<1>4. Counted' /\ Claimed' /\ ChunkRunOnce' /\ Stored'
  BY <1>1, <1>3, WorkersKept
<1>5. caller' \in {"reduce", "done"}
  BY DEF Rethrow, Return, Goto
<1>6. TypeOK'
  <2>1. pos' \in 0 .. n
    BY <1>1, CallerFacts DEF IInv, TypeOK, Rethrow, Goto
  <2> QED
    BY <1>1, <1>3, <1>5, <2>1, CallerFacts DEF IInv, TypeOK, CallerPlaces
<1>7. FanOut' /\ Joined'
  <2>1. caller' # "done" => outcome' = Pending
    BY DEF IInv, FanOut, Rethrow, Return, Goto
  <2>2. \A t \in Threads : wpc'[t] # "absent" => Width(job) > 1
    BY <1>3 DEF IInv, FanOut
  <2>3. FanOut'
    BY <1>1, <1>5, <2>1, <2>2, CallerFacts DEF FanOut
  <2>4. Joined'
    BY <1>1, <1>2, <1>3, <1>5, CallerFacts DEF Joined, FrameOutlivesWorkers, Live
  <2> QED
    BY <2>3, <2>4
<1>8. CASE errors # {}
  <2>1. PICK e \in errors : TRUE
    BY <1>8
  <2>2. job.fails \subseteq Nat /\ errors \subseteq job.fails /\ errors # {}
    BY <1>1, <1>8, CallerFacts DEF IInv, TypeOK, WellFormed, Stored, Chunks, n
  <2>3. PICK f \in job.fails : \A g \in job.fails : f <= g
    BY <2>2, LeastNumber
  <2>4. Settled(f) /\ f \in Chunks(job.total)
    BY <1>1, <2>2, <2>3, SettledAtRethrow DEF NoChunkBelowFailureSkipped, Rethrow, IInv, TypeOK, WellFormed
  <2>5. f \in errors
    BY <2>4, <2>3 DEF Settled, IInv, Stored
  <2>6. Min(errors) = f /\ Min(job.fails) = f
    BY <2>2, <2>3, <2>5 DEF Min
  <2>7. caller' = "done" /\ outcome' = ChunkError(f) /\ job.fails # {}
    BY <1>8, <2>2, <2>6 DEF Rethrow, Return
  <2>8. Reduced'
    BY <1>3, <2>7 DEF IInv, Reduced
  <2>9. OutcomeDeterminate'
    BY <1>1, <2>6, <2>7, CallerFacts DEF OutcomeDeterminate, Promised
  <2> QED
    BY <1>4, <1>6, <1>7, <2>8, <2>9 DEF IInv
<1>9. CASE errors = {}
  <2>1. caller' = "reduce" /\ pos' = 0 /\ outcome' = outcome
    BY <1>9 DEF Rethrow, Goto
  <2>2. \A k \in Chunks(job.total) : Settled(k)
    <3>1. 0 \in Threads /\ Width(job) > 1 /\ nextChunk \in Nat
      BY <1>1, CallerFacts DEF Threads, IInv, FanOut, Rethrow, TypeOK
    <3>2. nextChunk >= n
      BY <1>2, <1>9, <3>1 DEF IInv, Stored
    <3>3. \A k \in Chunks(job.total) : k < nextChunk
      BY <1>1, <3>1, <3>2, CallerFacts DEF Chunks, n
    <3> QED
      BY <1>2, <3>1, <3>3 DEF IInv, Claimed
  <2>3. \A k \in Chunks(job.total) : results'[k] # Unstored
    BY <1>3, <1>9, <2>2 DEF Settled
  <2>4. Reduced'
    BY <1>1, <1>3, <2>1, <2>3, CallerFacts DEF IInv, Reduced
  <2>5. OutcomeDeterminate'
    BY <1>1, <2>1, CallerFacts DEF IInv, OutcomeDeterminate
  <2> QED
    BY <1>4, <1>6, <1>7, <2>4, <2>5 DEF IInv
<1> QED
  BY <1>8, <1>9

(* The reduction takes the slots in order, and returns what it took.       *)
LEMMA ReduceIInv ==
  ASSUME IInv, ReduceChunk \/ ReduceDone
  PROVE  IInv'
<1>1. CallerStep
  BY DEF CallerStep
<1>2. /\ pos \in Nat /\ caller = "reduce" /\ outcome = Pending
      /\ acc \in Seq(Nat \X Int) /\ Len(acc) = pos
      /\ \A i \in 1 .. pos : acc[i] = ChunkValue(job, i - 1)
      /\ \A k \in Chunks(job.total) : results[k] # Unstored
  BY <1>1, CallerFacts DEF IInv, TypeOK, FanOut, Reduced, ReduceChunk, ReduceDone
<1>3. wpc' = wpc /\ results' = results
  BY DEF ReduceChunk, ReduceDone
<1>4. Counted' /\ Claimed' /\ ChunkRunOnce' /\ Stored'
  BY <1>1, <1>3, WorkersKept
<1>5. CASE ReduceChunk
  <2>1. pos \in Chunks(job.total)
    BY <1>1, <1>2, <1>5, CallerFacts DEF ReduceChunk, Chunks, n
  <2>2. results[pos] = ChunkValue(job, pos) /\ results[pos] \in Nat \X Int
    BY <1>2, <2>1, StoredValue DEF IInv, TypeOK
  <2>3. /\ acc' = Append(acc, ChunkValue(job, pos)) /\ pos' = pos + 1
        /\ caller' = "reduce" /\ outcome' = Pending
    BY <1>2, <1>5, <2>1, <2>2 DEF ReduceChunk
  <2>4. TypeOK'
    BY <1>1, <1>2, <1>3, <1>5, <2>3, CallerFacts DEF IInv, TypeOK, ReduceChunk, CallerPlaces
  <2>5. FanOut' /\ Joined'
    BY <1>1, <1>2, <1>3, <2>3, CallerFacts
    DEF IInv, FanOut, Joined, FrameOutlivesWorkers, Live
  <2>6. /\ acc' \in Seq(Nat \X Int) /\ Len(acc') = pos'
        /\ \A i \in 1 .. pos' : acc'[i] = ChunkValue(job, i - 1)
    BY <1>2, <2>2, <2>3, AppendProperties
  <2>7. Reduced'
    BY <1>1, <1>2, <1>3, <2>3, <2>6, CallerFacts DEF Reduced
  <2>8. OutcomeDeterminate'
    BY <2>3 DEF OutcomeDeterminate
  <2> QED
    BY <1>4, <2>4, <2>5, <2>7, <2>8 DEF IInv
<1>6. CASE ReduceDone
  <2>1. /\ caller' = "done" /\ outcome' = Value(acc) /\ pos' = pos /\ acc' = acc
        /\ pos = n
    BY <1>6 DEF ReduceDone, Return
  <2>2. job.fails = {}
    BY <1>2 DEF IInv, TypeOK, WellFormed, Stored
  <2>3. acc = [i \in 1 .. NumChunks(job.total) |-> ChunkValue(job, i - 1)]
    <3>1. acc = [i \in 1 .. Len(acc) |-> acc[i]]
      BY <1>2, LenProperties
    <3> QED
      BY <1>2, <2>1, <3>1 DEF n
  <2>4. TypeOK'
    BY <1>1, <1>3, <2>1, CallerFacts DEF IInv, TypeOK, CallerPlaces
  <2>5. FanOut' /\ Joined'
    BY <1>1, <1>2, <1>3, <2>1, CallerFacts
    DEF IInv, FanOut, Joined, FrameOutlivesWorkers, Live
  <2>6. Reduced'
    BY <1>2, <2>1 DEF Reduced
  <2>7. OutcomeDeterminate'
    BY <1>1, <2>1, <2>2, <2>3, CallerFacts DEF OutcomeDeterminate, Promised
  <2> QED
    BY <1>4, <2>4, <2>5, <2>6, <2>7 DEF IInv
<1> QED
  BY <1>5, <1>6

-----------------------------------------------------------------------------
(* Every step keeps the invariant.                                         *)
LEMMA NextIInv == IInv /\ [Next]_vars => IInv'
<1> SUFFICES ASSUME IInv, [Next]_vars PROVE IInv'
  OBVIOUS
<1>1. CASE CallerStep
  BY <1>1, SerialIInv, SpawnIInv, JoinIInv, RethrowIInv, ReduceIInv DEF CallerStep
<1>2. CASE \E t \in Threads : Worker(t)
  BY <1>2, PullIInv, RunChunkIInv DEF Worker
<1>3. CASE UNCHANGED vars
  <2>1. Exited' = Exited
    BY <1>3, SameJob DEF vars, Exited
  <2> QED
    BY <1>3, <2>1, SameJob
    DEF vars, IInv, TypeOK, FanOut, Joined, Counted, Claimed, ChunkRunOnce, Stored,
        Reduced, OutcomeDeterminate, FrameOutlivesWorkers, Live, Settled
<1> QED
  BY <1>1, <1>2, <1>3 DEF Next, Returned

(* The invariant holds in every reachable state.                           *)
THEOREM InductiveInvariant == Spec => []IInv
BY InitIInv, NextIInv, PTL DEF Spec

(* Every variable keeps its type: in particular the shared counter never   *)
(* passes the number of chunks by more than the number of workers.         *)
THEOREM TypeCorrect == Spec => []TypeOK
<1>1. IInv => TypeOK
  BY DEF IInv
<1> QED
  BY <1>1, InductiveInvariant, PTL

(* No worker outlives the frame it refers to, whether the call returns a   *)
(* value, rethrows a chunk's failure or fails to create a thread.          *)
THEOREM NoDanglingWorker == Spec => []FrameOutlivesWorkers
<1>1. IInv => FrameOutlivesWorkers
  BY DEF IInv, Joined
<1> QED
  BY <1>1, InductiveInvariant, PTL

(* The workers share out the chunks without overlap and run none twice.    *)
THEOREM ChunksRunOnce == Spec => []ChunkRunOnce
<1>1. IInv => ChunkRunOnce
  BY DEF IInv
<1> QED
  BY <1>1, InductiveInvariant, PTL

(* Workers that stop at a failure leave no earlier chunk out.              *)
THEOREM LowestFailureReached == Spec => []NoChunkBelowFailureSkipped
BY SettledAtRethrow, InductiveInvariant, PTL

(* What a call returns is a function of the budget and of the failing      *)
(* chunks alone: no thread option, override, core count or schedule shows. *)
THEOREM Determinacy == Spec => []OutcomeDeterminate
<1>1. IInv => OutcomeDeterminate
  BY DEF IInv
<1> QED
  BY <1>1, InductiveInvariant, PTL

(* The community modules' sum of some of a function's values.              *)
LEMMA SumOfAnswers ==
  ASSUME NEW f, NEW S
  PROVE  SumFunctionOnSet(f, S) = SumOn(f, S)
BY DEF SumFunctionOnSet, FoldFunctionOnSet, MapThenFoldSet, SumOn, IsSum, Some

(* The chunks of a completed job hold the budget's trials, neither more    *)
(* nor fewer, whatever the budget leaves for the last chunk: the answer is *)
(* the promised one, whose chunks are the parts the budget is cut into.    *)
THEOREM BudgetIsRun == Spec => []EveryTrialRun
<1>1. IInv => EveryTrialRun
  <2> SUFFICES ASSUME IInv, outcome.kind = "value"
               PROVE  SumFunctionOnSet([i \in DOMAIN outcome.acc |-> outcome.acc[i][2]],
                                       DOMAIN outcome.acc) = job.total
    BY DEF EveryTrialRun
  <2> DEFINE A == [i \in 1 .. n |-> ChunkValue(job, i - 1)]
             f == [i \in 1 .. n |-> A[i][2]]
  <2>1. outcome = Value(A)
    BY DEF IInv, OutcomeDeterminate, Pending, SpawnError, Promised, ChunkError, Value, n
  <2>2. outcome.acc = A /\ DOMAIN A = 1 .. n
    BY <2>1 DEF Value
  <2>3. job.total \in Nat /\ ChunkTrials \in Nat \ {0} /\ n = Parts(job.total, ChunkTrials)
    BY PlanAssumption DEF IInv, TypeOK, Jobs, n, NumChunks, Parts
  <2>4. \A k \in 1 .. n : f[k] = Part(job.total, ChunkTrials, k)
    BY DEF ChunkValue, ChunkSize, Part
  <2>5. SumOn(f, 1 .. n) = job.total
    <3> HIDE DEF f
    <3> QED
      BY <2>3, <2>4, PartsAddUp
  <2>6. SumFunctionOnSet(f, 1 .. n) = job.total
    BY <2>5, SumOfAnswers
  <2> QED
    BY <2>2, <2>6
<1> QED
  BY <1>1, InductiveInvariant, PTL

(* A failed thread creation does not cut the work of the others short.     *)
THEOREM PartialFanOutDrains == Spec => []UnwindDrains
<1>1. IInv => UnwindDrains
  <2> SUFFICES ASSUME IInv, outcome = SpawnError, errors = {},
                      NEW t \in Threads, wpc[t] = "exit",
                      NEW k \in Chunks(job.total)
               PROVE  results[k] # Unstored
    BY DEF UnwindDrains
  <2>1. n \in Nat /\ nextChunk \in Nat /\ Width(job) > 1
    BY JobWidth DEF IInv, TypeOK, FanOut
  <2>2. caller = "done"
    BY DEF IInv, FanOut, Pending, SpawnError
  <2>3. \A u \in Threads : wpc[u] # "run"
    BY <2>2 DEF IInv, Joined, FrameOutlivesWorkers, Live
  <2>4. k < nextChunk
    BY <2>1 DEF IInv, Stored, Chunks, n
  <2> QED
    BY <2>1, <2>3, <2>4 DEF IInv, Claimed, Settled
<1> QED
  BY <1>1, InductiveInvariant, PTL

(* The contract's operators and this module's are the same.                *)
LEMMA SameOperators ==
  /\ Contract!Pending = Pending /\ Contract!SpawnError = SpawnError
  /\ \A j : Contract!Promised(j) = Promised(j)
  /\ \A j : Contract!Width(j) = Width(j)
  /\ {j \in Contract!Jobs : Contract!WellFormed(j)} = {j \in Jobs : WellFormed(j)}
<1>1. \A t : Contract!NumChunks(t) = NumChunks(t) /\ Contract!Chunks(t) = Chunks(t)
  BY DEF Contract!NumChunks, NumChunks, Contract!Chunks, Chunks
<1>2. \A j, k : Contract!ChunkValue(j, k) = ChunkValue(j, k)
  BY DEF Contract!ChunkValue, ChunkValue, Contract!ChunkSize, ChunkSize
<1>3. ASSUME NEW j
      PROVE  Contract!Promised(j) = Promised(j)
  <2>1. Contract!Min(j.fails) = Min(j.fails)
    BY DEF Contract!Min, Min
  <2>2. [i \in 1 .. Contract!NumChunks(j.total) |-> Contract!ChunkValue(j, i - 1)]
        = [i \in 1 .. NumChunks(j.total) |-> ChunkValue(j, i - 1)]
    BY <1>1, <1>2
  <2> QED
    BY <2>1, <2>2 DEF Contract!Promised, Promised, Contract!Value, Value,
                      Contract!ChunkError, ChunkError
<1>4. \A j : Contract!Width(j) = Width(j)
  BY <1>1 DEF Contract!Width, Width, Contract!ResolveMcThreads, ResolveMcThreads,
              Contract!AutoMcThreadCount, AutoMcThreadCount
<1>5. Contract!Jobs = Jobs /\ \A j : Contract!WellFormed(j) <=> WellFormed(j)
  BY <1>1 DEF Contract!Jobs, Jobs, Contract!WellFormed, WellFormed
<1> QED
  BY <1>3, <1>4, <1>5
  DEF Contract!Pending, Pending, Contract!SpawnError, SpawnError

(* A step that ends the call gives the promised answer, or reports that a  *)
(* worker could not be created when workers were wanted; every other step  *)
(* is invisible to the caller.                                             *)
LEMMA StepRefines == IInv /\ [Next]_vars => [Contract!Next]_(Contract!vars)
<1> SUFFICES ASSUME IInv, [Next]_vars
             PROVE  [Contract!Next]_(Contract!vars)
  OBVIOUS
<1>1. IInv'
  BY NextIInv
<1>2. job' = job
  BY DEF Next, CallerStep, Worker, Returned, vars, SerialChunk, SerialDone, Spawn,
         SpawnFails, SpawnDone, Join, JoinsDone, UnwindDone, Rethrow, ReduceChunk,
         ReduceDone, Pull, RunChunk
<1>3. outcome' # outcome => outcome = Pending
  BY DEF IInv, FanOut, Next, CallerStep, Worker, Returned, vars, SerialChunk, SerialDone,
         Spawn, SpawnFails, SpawnDone, Join, JoinsDone, UnwindDone, Rethrow, ReduceChunk,
         ReduceDone, Pull, RunChunk
<1>4. outcome' \in {Pending, SpawnError, Promised(job)}
  BY <1>1, <1>2 DEF IInv, OutcomeDeterminate
<1>5. ASSUME outcome' = SpawnError, outcome' # outcome
      PROVE  Width(job) > 1
  <2>1. UnwindDone
    BY <1>5 DEF IInv, FanOut, Next, CallerStep, Worker, Returned, vars, SerialChunk,
       SerialDone, Spawn, SpawnFails, SpawnDone, Join, JoinsDone, UnwindDone, Rethrow,
       ReduceChunk, ReduceDone, Pull, RunChunk, Return, Goto, SpawnError, ChunkError,
       Value, UnfilledSlot
  <2> QED
    BY <2>1 DEF UnwindDone, IInv, FanOut
<1>6. CASE outcome' = outcome
  BY <1>2, <1>6 DEF Contract!vars
<1>7. CASE outcome' # outcome
  <2>1. outcome = Pending /\ outcome' # Pending
    BY <1>3, <1>7
  <2>2. CASE outcome' = SpawnError
    BY <1>2, <1>5, <1>7, <2>1, <2>2, SameOperators
    DEF Contract!Next, Contract!ThreadCreationFails
  <2>3. CASE outcome' = Promised(job)
    BY <1>2, <2>1, <2>3, SameOperators DEF Contract!Next, Contract!Answer
  <2> QED
    BY <1>4, <2>1, <2>2, <2>3
<1> QED
  BY <1>6, <1>7

(* The driver implements the contract of a chunked job (its safety part;   *)
(* that every call is answered is checked by TLC).                         *)
THEOREM RefinesContract == Spec => Contract!Init /\ [][Contract!Next]_(Contract!vars)
<1>1. Init => Contract!Init
  BY SameOperators DEF Init, Contract!Init
<1> QED
  BY <1>1, StepRefines, InductiveInvariant, PTL DEF Spec
=============================================================================
