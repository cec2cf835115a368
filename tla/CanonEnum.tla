-------------------------------- MODULE CanonEnum --------------------------------
(***************************************************************************)
(* generate_canonical_situations (src/core/canonicalize.cpp) seen from a   *)
(* binding: the C entry point validates and calls the enumeration, the     *)
(* enumeration splits the hero pairs over plain std::threads that fill     *)
(* private sets, the caller merges them, and the binding streams the       *)
(* situations out of the handle in bounded chunks.                         *)
(*                                                                         *)
(* These workers are not the chunk driver's: nothing catches what one of   *)
(* them throws, and nothing joins them when a later thread cannot be       *)
(* created, so both end the process through std::terminate.                *)
(***************************************************************************)
EXTENDS Canon, Sequences

CONSTANTS
  BoardSizes,       (* the board sizes the enumeration accepts              *)
  AskedSizes,       (* the board sizes callers pass                         *)
  AskedVersions,    (* the canonicalization versions callers pass           *)
  HardwareThreads,  (* hardware_concurrency() values                        *)
  MaxThreads,       (* the cap on workers, 4 in the code                    *)
  FinalReserve,     (* final_reserve: expected situations, rounded up       *)
  SituationChunk    (* kSituationChunk: situations per fill call            *)

ASSUME EnumAssumption ==
  /\ BoardSizes \subseteq 1 .. Cardinality(Deck) - 2
  /\ MaxThreads \in Nat \ {0}
  /\ FinalReserve \in Nat
  /\ SituationChunk \in Nat \ {0}

VARIABLES
  request,     (* the call's arguments and the machine's hardware count     *)
  phase,       (* where the calling thread is                               *)
  pos,         (* the loop index of the caller's current loop               *)
  wpc,         (* where each worker is                                      *)
  at,          (* the next hero pair of each worker                         *)
  local_sets,  (* the workers' private sets                                 *)
  status,      (* what the C call returned                                  *)
  situations,  (* the enumeration behind the handle                         *)
  fetched      (* what the binding has copied out so far                    *)

vars == <<request, phase, pos, wpc, at, local_sets, status, situations, fetched>>

Strict == 2

(* Hero pairs in the order of the nested loops over card ids. *)
AllPairs == {p \in Deck \X Deck : p[1] < p[2]}

TotalPairs == Cardinality(AllPairs)

HeroPairs ==
  LET Precedes(p, q) == p[1] < q[1] \/ (p[1] = q[1] /\ p[2] < q[2])
  IN  [k \in 0 .. TotalPairs - 1 |->
         CHOOSE q \in AllPairs : Cardinality({p \in AllPairs : Precedes(p, q)}) = k]

NumThreads ==
  LET hw == IF request.hw = 0 THEN 1 ELSE request.hw
  IN  IF hw < MaxThreads THEN hw ELSE MaxThreads

Workers == 0 .. NumThreads - 1

(* Worker t's contiguous slice: the first `excess` workers take one more.   *)
SliceBegin(t) ==
  LET base   == TotalPairs \div NumThreads
      excess == TotalPairs % NumThreads
  IN  t * base + IF t < excess THEN t ELSE excess

SliceEnd(t) == SliceBegin(t + 1)

(* A FlatU64Set: a power-of-two table of at least 16 slots and at least     *)
(* twice the expected keys (at most 2^29 here). An insert that finds        *)
(* neither the key nor a free slot probes forever.                          *)
CapacityRoundedDown(expected) == Max({c \in {2 ^ e : e \in 0 .. 29} : c <= expected})

Capacity(expected) ==
  LET want == IF 2 * expected > 16 THEN 2 * expected ELSE 16
  IN  Min({c \in {2 ^ e : e \in 0 .. 29} : c >= want})

(* Each private set expects the whole population: workers meet the same     *)
(* classes, so a share of the population per worker would be too small.     *)
PerThreadReserveSplit == FinalReserve \div NumThreads

PerThreadReserve == FinalReserve

(* enumerate_hero_pair: the canonical forms of the pair with every board of *)
(* the remaining cards.                                                     *)
SituationsOf ==
  [size \in BoardSizes, p \in 0 .. TotalPairs - 1 |->
     LET hero == {HeroPairs[p][1], HeroPairs[p][2]}
     IN  {CanonicalizeHeroAndBoardStrict(hero, board) :
            board \in kSubset(size, Deck \ hero)}]

-----------------------------------------------------------------------------
Init ==
  /\ request \in [size : AskedSizes, version : AskedVersions, hw : HardwareThreads]
  /\ phase = "call"
  /\ pos = 0
  /\ wpc = [t \in Workers |-> "absent"]
  /\ at = [t \in Workers |-> SliceBegin(t)]
  /\ local_sets = [t \in Workers |-> {}]
  /\ status = "none"
  /\ situations = <<>>
  /\ fetched = <<>>

Goto(p) == phase' = p /\ pos' = 0

Fail(s) == phase' = "failed" /\ status' = s

Terminate == phase' = "terminated" /\ UNCHANGED status

(* board_size is rejected before version; a machine of one thread runs the  *)
(* worker on the calling thread.                                            *)
Call ==
  /\ phase = "call"
  /\ IF request.size \notin BoardSizes \/ request.version # Strict
     THEN Fail("invalid_argument") /\ UNCHANGED <<pos, wpc>>
     ELSE IF NumThreads = 1
          THEN /\ Goto("merge")
               /\ wpc' = [wpc EXCEPT ![0] = "run"]
               /\ UNCHANGED status
          ELSE Goto("spawn") /\ UNCHANGED <<wpc, status>>
  /\ UNCHANGED <<request, at, local_sets, situations, fetched>>

Spawn ==
  /\ phase = "spawn" /\ pos \in Workers
  /\ wpc' = [wpc EXCEPT ![pos] = "run"]
  /\ pos' = pos + 1
  /\ UNCHANGED <<request, phase, at, local_sets, status, situations, fetched>>

(* The std::thread constructor throws: with no thread created yet the       *)
(* exception reaches the C entry point; otherwise unwinding destroys a      *)
(* joinable thread.                                                         *)
SpawnFails ==
  /\ phase = "spawn" /\ pos \in Workers
  /\ IF pos = 0 THEN Fail("runtime_error") ELSE Terminate
  /\ UNCHANGED <<request, pos, wpc, at, local_sets, situations, fetched>>

SpawnDone ==
  /\ phase = "spawn" /\ pos = NumThreads
  /\ Goto("merge")
  /\ UNCHANGED <<request, wpc, at, local_sets, status, situations, fetched>>

(* One hero pair, inserted into the worker's own set. *)
EnumerateHeroPair(t) ==
  LET keys == local_sets[t] \union SituationsOf[request.size, at[t]]
  IN  /\ wpc[t] = "run" /\ at[t] < SliceEnd(t)
      /\ phase # "terminated"
      /\ Cardinality(keys) <= Capacity(PerThreadReserve)
      /\ local_sets' = [local_sets EXCEPT ![t] = keys]
      /\ at' = [at EXCEPT ![t] = @ + 1]
      /\ UNCHANGED <<request, phase, pos, wpc, status, situations, fetched>>

(* An allocation inside enumerate_hero_pair fails: on a worker thread the   *)
(* exception escapes the thread function; on the calling thread it reaches  *)
(* the C entry point.                                                       *)
EnumerateThrows(t) ==
  /\ wpc[t] = "run" /\ at[t] < SliceEnd(t)
  /\ phase # "terminated"
  /\ IF NumThreads = 1 THEN Fail("runtime_error") ELSE Terminate
  /\ wpc' = [wpc EXCEPT ![t] = "exit"]
  /\ UNCHANGED <<request, pos, at, local_sets, situations, fetched>>

WorkerReturns(t) ==
  /\ wpc[t] = "run" /\ at[t] = SliceEnd(t)
  /\ phase # "terminated"
  /\ wpc' = [wpc EXCEPT ![t] = "exit"]
  /\ UNCHANGED <<request, phase, pos, at, local_sets, status, situations, fetched>>

(* The table's slots in turn; nothing relies on the order.                  *)
InTableOrder(set) == FoldSet(LAMBDA x, seq : Append(seq, x), <<>>, set)

(* Join every worker, merge the private sets, and hand the result to a new  *)
(* handle.                                                                  *)
Merge ==
  /\ phase = "merge"
  /\ \A t \in Workers : wpc[t] = "exit"
  /\ situations' = InTableOrder(UNION {local_sets[t] : t \in Workers})
  /\ local_sets' = [t \in Workers |-> {}]
  /\ status' = "ok"
  /\ Goto("stream")
  /\ UNCHANGED <<request, wpc, at, fetched>>

(* xiapl_canonical_situations_fill: an offset past the end writes nothing.  *)
FillCount(offset, count) ==
  LET available == IF offset >= Len(situations) THEN 0 ELSE Len(situations) - offset
  IN  IF count < available THEN count ELSE available

(* The binding's loop: one fill call per chunk; a call that writes nothing  *)
(* although the count said more remained is a runtime error.                *)
Fill ==
  LET written == FillCount(pos, SituationChunk)
  IN  /\ phase = "stream" /\ pos < Len(situations)
      /\ IF written <= 0
         THEN Fail("runtime_error") /\ UNCHANGED <<pos, fetched>>
         ELSE /\ fetched' = fetched \o SubSeq(situations, pos + 1, pos + written)
              /\ pos' = pos + written
              /\ UNCHANGED <<phase, status>>
      /\ UNCHANGED <<request, wpc, at, local_sets, situations>>

(* The handle is destroyed before the list is handed to Python. *)
StreamDone ==
  /\ phase = "stream" /\ pos >= Len(situations)
  /\ Goto("done")
  /\ situations' = <<>>
  /\ UNCHANGED <<request, wpc, at, local_sets, status, fetched>>

-----------------------------------------------------------------------------
Worker(t) == EnumerateHeroPair(t) \/ EnumerateThrows(t) \/ WorkerReturns(t)

CallerStep ==
  Call \/ Spawn \/ SpawnFails \/ SpawnDone \/ Merge \/ Fill \/ StreamDone

Ended == phase \in {"done", "failed", "terminated"}

Next == CallerStep \/ (\E t \in Workers : Worker(t)) \/ (Ended /\ UNCHANGED vars)

(* The scheduler keeps the caller and each worker running. No failure is    *)
(* owed: a worker that could only throw counts as stuck.                    *)
Fairness ==
  /\ WF_vars(CallerStep)
  /\ \A t \in 0 .. MaxThreads - 1 :
       WF_vars(t \in Workers /\ (EnumerateHeroPair(t) \/ WorkerReturns(t)))

Spec == Init /\ [][Next]_vars /\ Fairness

-----------------------------------------------------------------------------
(* What a successful call delivers: each class of situations under suit     *)
(* relabelling exactly once, represented by a member of the class. This     *)
(* needs the slices to cover the pairs, the strict key to be a complete     *)
(* invariant, the merge to wait for the workers and the stream to copy      *)
(* everything exactly once. The board half of a representative is the       *)
(* board's own canonical form, so dropping the hero cards gives exactly the  *)
(* classes of boards.                                                       *)
AllSituations ==
  UNION {{<<hero, board>> : board \in kSubset(request.size, Deck \ hero)} :
           hero \in kSubset(2, Deck)}

OneRepresentativePerOrbit ==
  (phase = "done" /\ status = "ok") =>
    /\ \A i, j \in DOMAIN fetched : i # j => fetched[j] \notin Orbit(fetched[i][1], fetched[i][2])
    /\ \A x \in AllSituations : \E i \in DOMAIN fetched : fetched[i] \in Orbit(x[1], x[2])
    /\ \A i \in DOMAIN fetched : CanonicalizeBoard(fetched[i][2]) = fetched[i][2]

(* No private table is ever more than half full, so probes stay short.      *)
HalfLoad ==
  \A t \in Workers : 2 * Cardinality(local_sets[t]) <= Capacity(PerThreadReserve)

(* Every call ends.                                                         *)
EveryCallEnds == <>Ended

(* include/xiapl/c_api.h rule 8(a): a failure in an internal worker thread  *)
(* is aggregated onto the calling thread before the call returns.           *)
FailureReachesCaller == phase # "terminated"
=============================================================================
