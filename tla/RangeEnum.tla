-------------------------------- MODULE RangeEnum --------------------------------
(***************************************************************************)
(* calculate_range_equity and enumerate_range_equity                       *)
(* (src/core/equity_range.cpp): the per-combo range-versus-range engine.   *)
(* A call filters both ranges, builds its boards, fills a cache of scores  *)
(* with a fan-out of workers, walks all pairs of combos with a second      *)
(* fan-out, and reduces the workers' sums on the calling thread.           *)
(*                                                                         *)
(* Floating-point sums are kept as the sequence of their terms, a sum of   *)
(* sums as a sequence of sequences, because the order and the grouping of  *)
(* the additions decide the last bits of the result. run_chunks_parallel   *)
(* is used as ChunkRun shows it to behave: chunks are claimed in index     *)
(* order, each by one worker, at most `workers` at a time, and the call    *)
(* goes on when none is running; a failed thread creation lowers the       *)
(* number of workers, possibly to none, and is reported after the join.    *)
(***************************************************************************)
EXTENDS Integers, Sequences, FiniteSets, FiniteSetsExt, Functions

CONSTANTS
  Cards,          (* card ids                                               *)
  HoleCards,      (* cards_per_hand(game)                                   *)
  BoardCards,     (* cards of a complete board (5)                          *)
  BoardSizes,     (* sizes a caller's board may have (0, 3, 4, 5)           *)
  MaxRowChunks,   (* kPerComboMaxRowChunks                                  *)
  MinAutoWork,    (* below this much work auto mode stays serial            *)
  EvalsPerCell,   (* cost of a cache cell: 1 for Hold'em, 60 for PLO        *)
  CacheLimit,     (* kCacheBytesLimit, in cells                             *)
  Score(_, _),    (* the packed score of a hand on a complete board         *)
  Calls           (* the calls made: see CallType                           *)

Combos == [mask : SUBSET Cards, weight : Int]

Modes == {"PerCombo", "AggregateOnly"}

CallType == [hero : Seq(Combos), villain : Seq(Combos), board : SUBSET Cards,
             iterations : Int, mode : Modes, threads : Int, hw : Nat,
             sameGame : BOOLEAN]

ASSUME RangeEnumAssumption ==
  /\ Cards \subseteq Nat /\ IsFiniteSet(Cards)
  /\ HoleCards \in Nat \ {0} /\ BoardCards \in Nat /\ BoardSizes \subseteq 0 .. BoardCards
  /\ MaxRowChunks \in Nat \ {0}
  /\ MinAutoWork \in Nat /\ EvalsPerCell \in Nat \ {0} /\ CacheLimit \in Nat
  /\ \A h, b \in SUBSET Cards : Score(h, b) \in Nat \ {0}
  /\ \A c \in Calls : c \in CallType

VARIABLES
  call,         (* the arguments, never changed                              *)
  phase,        (* where the calling thread is                               *)
  hero,         (* hero_combos, villain_combos: the filtered ranges          *)
  villain,
  boards,       (* the board sample set                                      *)
  hands,        (* unique_hands: the cache's rows                            *)
  cache,        (* scores by row and board index; 0 = conflict or unfilled   *)
  region,       (* the current run_chunks_parallel call                      *)
  row,          (* the hero row each pair chunk is at                        *)
  heroAcc,      (* hero_acc: terms by hero row                               *)
  chunkVill,    (* chunk_vill: terms by chunk and villain column             *)
  chunkPair,    (* chunk_pair_eq / chunk_pair_w: terms by chunk              *)
  villAcc,      (* vill_acc: groups of terms by villain column               *)
  pairSum,      (* pair_equity_weighted_sum / pair_weight_sum                *)
  outcome       (* how the call ended                                        *)

accs == <<row, heroAcc, chunkVill, chunkPair>>
sums == <<villAcc, pairSum>>
inputs == <<call, hero, villain, boards, hands>>
vars == <<inputs, phase, cache, region, accs, sums, outcome>>

Pending == [kind |-> "pending"]
Ended(how) == [kind |-> how]

-----------------------------------------------------------------------------
(* The elements of a sequence at the indices of a set, in order.            *)
At(s, idx) ==
  [r \in 1 .. Cardinality(idx) |->
     s[CHOOSE i \in idx : Cardinality({j \in idx : j <= i}) = r]]

Indices(s) == 1 .. Len(s)

(* filter_combos: a hand of the game, clear of the board, of positive       *)
(* finite weight; of several such combos of one mask the first is kept.     *)
Usable(c, board) ==
  Cardinality(c.mask) = HoleCards /\ c.mask \cap board = {} /\ c.weight > 0

(* Variant: a mask counts as seen before its weight is looked at.           *)
FilterCombosSeenFirst(combos, board) ==
  At(combos, {i \in Indices(combos) :
       /\ Usable(combos[i], board)
       /\ \A j \in 1 .. i - 1 : combos[j].mask # combos[i].mask})

FilterCombos(combos, board) ==
  At(combos, {i \in Indices(combos) :
       /\ Usable(combos[i], board)
       /\ \A j \in 1 .. i - 1 :
            combos[j].mask = combos[i].mask => ~Usable(combos[j], board)})

(* enumerate_or_sample_boards: every completion once, when asked for or     *)
(* when sampling would run at least as many trials; else that many samples, *)
(* with repetition. The order of an enumeration changes no count: any one does. *)
Completions(board) ==
  {b \in SUBSET Cards : board \subseteq b /\ Cardinality(b) = BoardCards}

RunIsExact(c) ==
  c.iterations = 0 \/ c.iterations >= Cardinality(Completions(c.board))

(* a < b as numbers: the highest card they differ in is b's.                *)
MaskLess(a, b) == a # b /\ Max((a \ b) \union (b \ a)) \in b

(* The masks of a set in ascending order.                                   *)
ByMask(masks) ==
  [r \in 1 .. Cardinality(masks) |->
     CHOOSE m \in masks : Cardinality({o \in masks : MaskLess(o, m)}) = r - 1]

BoardSets(c) ==
  IF RunIsExact(c) THEN {ByMask(Completions(c.board))}
                   ELSE [1 .. c.iterations -> Completions(c.board)]

(* unique_hands, ordered by mask.                                           *)
UniqueHands(h, v) ==
  ByMask({h[i].mask : i \in Indices(h)} \union {v[j].mask : j \in Indices(v)})

-----------------------------------------------------------------------------
(* How the work is cut.                                                     *)

CeilDiv(a, b) == (a + b - 1) \div b

ResolveThreads(c, work) ==
  IF c.threads < 0 THEN 1
  ELSE IF c.threads > 0 THEN c.threads
  ELSE IF work < MinAutoWork THEN 1
  ELSE IF c.hw > 0 THEN c.hw ELSE 1

FillWidth == ResolveThreads(call, Len(hands) * Len(boards) * EvalsPerCell)

(* Rows of the cache are cut, or boards when there are too few rows.        *)
SplitBoards == FillWidth > Len(hands)
Axis        == IF SplitBoards THEN Len(boards) ELSE Len(hands)
FillThreads == IF FillWidth > Axis THEN Axis ELSE FillWidth

Slice == CeilDiv(Axis, FillThreads)

NumSlices == IF FillThreads <= 1 THEN 1 ELSE CeilDiv(Axis, Slice)

(* Slice s covers the indices s * Slice + 1 .. (s + 1) * Slice of the axis. *)
SliceOf(s) ==
  IF FillThreads <= 1 THEN 1 .. Axis
  ELSE {x \in 1 .. Axis : s * Slice < x /\ x <= (s + 1) * Slice}

(* The rectangle of cells slice s fills, as <<hand index, board index>>.    *)
Rectangle(s) ==
  IF SplitBoards THEN Indices(hands) \X SliceOf(s) ELSE SliceOf(s) \X Indices(boards)

(* The pair loop's chunks of hero rows depend on the hero range alone.      *)
NumRowChunks == IF Len(hero) < MaxRowChunks THEN Len(hero) ELSE MaxRowChunks

RowsPerChunkFloor == Len(hero) \div NumRowChunks
RowsPerChunk == CeilDiv(Len(hero), NumRowChunks)

RowsOf(k) == {i \in Indices(hero) : k * RowsPerChunk < i /\ i <= (k + 1) * RowsPerChunk}

PairWidth ==
  LET want == ResolveThreads(call, Len(hero) * Len(villain) * Len(boards))
  IN  IF want > NumRowChunks THEN NumRowChunks ELSE want

-----------------------------------------------------------------------------
(* The parallel region.                                                     *)
Region(total, width) ==
  [total |-> total, next |-> 0, running |-> {}, finished |-> <<>>,
   workers |-> width, spawnFailed |-> FALSE]

NoRegion == Region(0, 1)

Drained == region.running = {} /\ (region.next = region.total \/ region.workers = 0)

InRegion == phase \in {"fill", "pairs"}

-----------------------------------------------------------------------------
Init ==
  /\ call \in Calls
  /\ phase = "validate"
  /\ hero = <<>> /\ villain = <<>> /\ boards = <<>> /\ hands = <<>>
  /\ cache = <<>>
  /\ region = NoRegion
  /\ row = <<>> /\ heroAcc = <<>> /\ chunkVill = <<>> /\ chunkPair = <<>>
  /\ villAcc = <<>> /\ pairSum = <<>>
  /\ outcome = Pending

Return(o) == phase' = "done" /\ outcome' = o

Zero(c) == [kind |-> "result", hero |-> <<>>, villain |-> <<>>, pair |-> <<>>,
            trials |-> 0, exact |-> c.iterations = 0]

(* The first check that fails names the error.                              *)
Rejection(c) ==
  IF ~c.sameGame THEN "game_mismatch"
  ELSE IF c.iterations < 0 THEN "negative_iterations"
  ELSE IF Cardinality(c.board) \notin BoardSizes THEN "board_size"
  ELSE "none"

Reject ==
  /\ phase = "validate"
  /\ Rejection(call) # "none"
  /\ Return(Ended(Rejection(call)))
  /\ UNCHANGED <<inputs, cache, region, accs, sums>>

Filter ==
  /\ phase = "validate"
  /\ Rejection(call) = "none"
  /\ hero' = FilterCombos(call.hero, call.board)
  /\ villain' = FilterCombos(call.villain, call.board)
  /\ IF hero' = <<>> \/ villain' = <<>>
     THEN Return(Zero(call))
     ELSE phase' = "dispatch" /\ UNCHANGED outcome
  /\ UNCHANGED <<call, boards, hands, cache, region, accs, sums>>

(* Aggregate Monte Carlo samples pairs instead (sample_range_equity).       *)
SamplePairs ==
  /\ phase = "dispatch"
  /\ call.mode = "AggregateOnly" /\ call.iterations > 0
  /\ Return(Ended("sampled"))
  /\ UNCHANGED <<inputs, cache, region, accs, sums>>

BuildBoards ==
  /\ phase = "dispatch"
  /\ ~(call.mode = "AggregateOnly" /\ call.iterations > 0)
  /\ boards' \in BoardSets(call)
  /\ hands' = UniqueHands(hero, villain)
  /\ IF Len(hands') * Len(boards') > CacheLimit
     THEN Return(Ended("cache_limit")) /\ UNCHANGED cache
     ELSE /\ cache' = [h \in Indices(hands') |-> [t \in Indices(boards') |-> 0]]
          /\ phase' = "cached"
          /\ UNCHANGED outcome
  /\ UNCHANGED <<call, hero, villain, region, accs, sums>>

StartFill ==
  /\ phase = "cached"
  /\ phase' = "fill"
  /\ region' = Region(NumSlices, FillThreads)
  /\ UNCHANGED <<inputs, cache, accs, sums, outcome>>

(* --- the workers --- *)

Claim ==
  /\ InRegion
  /\ region.next < region.total
  /\ Cardinality(region.running) < region.workers
  /\ region' = [region EXCEPT !.next = @ + 1, !.running = @ \union {region.next}]
  /\ UNCHANGED <<inputs, phase, cache, accs, sums, outcome>>

SpawnFails ==
  /\ InRegion
  /\ region.workers > 1 /\ ~region.spawnFailed
  /\ \E w \in Cardinality(region.running) .. region.workers - 1 :
       region' = [region EXCEPT !.workers = w, !.spawnFailed = TRUE]
  /\ UNCHANGED <<inputs, phase, cache, accs, sums, outcome>>

Finished(k) ==
  region' = [region EXCEPT !.running = @ \ {k}, !.finished = Append(@, k)]

(* fill_block: a cell whose hand and board conflict stays 0.                *)
FillSlice(s) ==
  /\ phase = "fill" /\ s \in region.running
  /\ LET mine == Rectangle(s)
     IN  cache' = [h \in Indices(hands) |-> [t \in Indices(boards) |->
           IF <<h, t>> \in mine /\ hands[h] \cap boards[t] = {}
           THEN Score(hands[h], boards[t]) ELSE cache[h][t]]]
  /\ Finished(s)
  /\ UNCHANGED <<inputs, phase, accs, sums, outcome>>

(* idx_of: the cache row of a hand.                                         *)
Scores(mask) == cache[CHOOSE h \in Indices(hands) : hands[h] = mask]

(* Wins, chops and valid boards of one pair, from the cache.                *)
Count(hs, vs) ==
  LET valid == {t \in Indices(boards) : hs[t] # 0 /\ vs[t] # 0}
  IN  [wins  |-> Cardinality({t \in valid : hs[t] > vs[t]}),
       chops |-> Cardinality({t \in valid : hs[t] = vs[t]}),
       valid |-> Cardinality(valid)]

(* What row i and column j add to the sums, when they meet at all.          *)
Term(i, j) ==
  [row |-> i, col |-> j, eq |-> Count(Scores(hero[i].mask), Scores(villain[j].mask))]

Meet(i, j) == hero[i].mask \cap villain[j].mask = {} /\ Term(i, j).eq.valid > 0

(* The columns row i meets, in order.                                       *)
Terms(i) ==
  At([j \in Indices(villain) |-> Term(i, j)], {j \in Indices(villain) : Meet(i, j)})

(* run_hero_slice, one row: hero_acc is shared, the rest is the chunk's own. *)
HeroRow(k) ==
  /\ phase = "pairs" /\ k \in region.running
  /\ row[k] \in RowsOf(k)
  /\ LET i == row[k]
     IN  /\ heroAcc' = [heroAcc EXCEPT ![i] = @ \o Terms(i)]
         /\ chunkVill' = [chunkVill EXCEPT ![k] = [j \in Indices(villain) |->
              IF Meet(i, j) THEN Append(@[j], Term(i, j)) ELSE @[j]]]
         /\ chunkPair' = [chunkPair EXCEPT ![k] = @ \o Terms(i)]
  /\ row' = [row EXCEPT ![k] = @ + 1]
  /\ UNCHANGED <<inputs, phase, cache, region, sums, outcome>>

RowsDone(k) ==
  /\ phase = "pairs" /\ k \in region.running
  /\ row[k] \notin RowsOf(k)
  /\ Finished(k)
  /\ UNCHANGED <<inputs, phase, cache, accs, sums, outcome>>

(* --- the calling thread --- *)

SpawnError ==
  /\ InRegion /\ Drained /\ region.spawnFailed
  /\ Return(Ended("spawn_error"))
  /\ UNCHANGED <<inputs, cache, region, accs, sums>>

(* Variant: the pair loop starts when every slice has been claimed.          *)
StartPairsUnjoined ==
  /\ phase = "fill" /\ region.next = region.total /\ ~region.spawnFailed
  /\ phase' = "pairs"
  /\ region' = Region(NumRowChunks, PairWidth)
  /\ row' = [k \in 0 .. NumRowChunks - 1 |-> k * RowsPerChunk + 1]
  /\ heroAcc' = [i \in Indices(hero) |-> <<>>]
  /\ chunkVill' = [k \in 0 .. NumRowChunks - 1 |-> [j \in Indices(villain) |-> <<>>]]
  /\ chunkPair' = [k \in 0 .. NumRowChunks - 1 |-> <<>>]
  /\ UNCHANGED <<inputs, cache, sums, outcome>>

StartPairs ==
  /\ phase = "fill" /\ Drained /\ ~region.spawnFailed
  /\ phase' = "pairs"
  /\ region' = Region(NumRowChunks, PairWidth)
  /\ row' = [k \in 0 .. NumRowChunks - 1 |-> k * RowsPerChunk + 1]
  /\ heroAcc' = [i \in Indices(hero) |-> <<>>]
  /\ chunkVill' = [k \in 0 .. NumRowChunks - 1 |-> [j \in Indices(villain) |-> <<>>]]
  /\ chunkPair' = [k \in 0 .. NumRowChunks - 1 |-> <<>>]
  /\ UNCHANGED <<inputs, cache, sums, outcome>>

(* Variant: the chunks' sums are added up as they completed.                *)
ReduceAsCompleted ==
  /\ phase = "pairs" /\ Drained /\ ~region.spawnFailed
  /\ phase' = "emit"
  /\ villAcc' = [j \in Indices(villain) |->
       [k \in Indices(region.finished) |-> chunkVill[region.finished[k]][j]]]
  /\ pairSum' = [k \in Indices(region.finished) |-> chunkPair[region.finished[k]]]
  /\ UNCHANGED <<inputs, cache, region, accs, outcome>>

Reduce ==
  /\ phase = "pairs" /\ Drained /\ ~region.spawnFailed
  /\ phase' = "emit"
  /\ villAcc' = [j \in Indices(villain) |-> [k \in 1 .. NumRowChunks |-> chunkVill[k - 1][j]]]
  /\ pairSum' = [k \in 1 .. NumRowChunks |-> chunkPair[k - 1]]
  /\ UNCHANGED <<inputs, cache, region, accs, outcome>>

(* Combos that met no opponent are left out of the breakdowns, and the      *)
(* breakdowns out of an aggregate result.                                   *)
Emit ==
  /\ phase = "emit"
  /\ LET Met(groups) == \E g \in DOMAIN groups : groups[g] # <<>>
         heroes == {i \in Indices(hero) : heroAcc[i] # <<>>}
         villains == {j \in Indices(villain) : Met(villAcc[j])}
         Strip(s) == IF call.mode = "AggregateOnly" THEN <<>> ELSE s
     IN  Return([kind |-> "result",
                 hero |-> Strip(At([i \in Indices(hero) |-> [combo |-> hero[i], sum |-> heroAcc[i]]], heroes)),
                 villain |-> Strip(At([j \in Indices(villain) |-> [combo |-> villain[j], sum |-> villAcc[j]]], villains)),
                 pair |-> pairSum,
                 trials |-> Len(boards),
                 exact |-> RunIsExact(call)])
  /\ UNCHANGED <<inputs, cache, region, accs, sums>>

-----------------------------------------------------------------------------
WorkerStep ==
  \/ Claim
  \/ \E s \in region.running : FillSlice(s) \/ HeroRow(s) \/ RowsDone(s)

CallerStep ==
  \/ Reject \/ Filter \/ SamplePairs \/ BuildBoards
  \/ StartFill \/ SpawnError \/ StartPairs \/ Reduce \/ Emit

(* The call is over; stuttering here keeps TLC's deadlock check meaningful  *)
(* for every other state.                                                   *)
Returned == phase = "done" /\ UNCHANGED vars

Next == CallerStep \/ WorkerStep \/ SpawnFails \/ Returned

Spec == Init /\ [][Next]_vars

-----------------------------------------------------------------------------
(* The pair loop reads no cell before the fill has finished with it: every   *)
(* cell then holds the score of its hand on its board, or 0 for a conflict.  *)
(* And two chunks that run together never write a cell, or the sums of a     *)
(* hero row, in common.                                                      *)
CacheFinalWhenRead ==
  /\ phase \in {"pairs", "emit"} =>
       \A h \in Indices(hands), t \in Indices(boards) :
         cache[h][t] = IF hands[h] \cap boards[t] # {} THEN 0
                              ELSE Score(hands[h], boards[t])
  /\ \A s, u \in region.running : s # u =>
       /\ phase = "fill" => Rectangle(s) \cap Rectangle(u) = {}
       /\ phase = "pairs" => RowsOf(s) \cap RowsOf(u) = {}

(* A pair's counts, taken from the boards themselves.                        *)
TrueCount(h, v) ==
  LET open == {t \in Indices(boards) : boards[t] \cap (h \union v) = {}}
      Beats(a, b) == {t \in open : Score(a, boards[t]) > Score(b, boards[t])}
  IN  [wins  |-> Cardinality(Beats(h, v)),
       chops |-> Cardinality(open \ (Beats(h, v) \union Beats(v, h))),
       valid |-> Cardinality(open)]

Opposed(h, v) == h \cap v = {} /\ \E t \in Indices(boards) : boards[t] \cap (h \union v) = {}

Concat(groups) ==
  LET upTo[k \in 0 .. Len(groups)] == IF k = 0 THEN <<>> ELSE upTo[k - 1] \o groups[k]
  IN  upTo[Len(groups)]

IsResult == outcome.kind = "result"

TrueTerm(i, j) ==
  [row |-> i, col |-> j, eq |-> TrueCount(hero[i].mask, villain[j].mask)]

CanMeet(i, j) == Opposed(hero[i].mask, villain[j].mask)

(* Every pair that can be dealt together enters the aggregate once, with the *)
(* counts the boards give it, and no other pair does; the breakdowns are     *)
(* made of the same terms.                                                   *)
EveryPairOnce ==
  IsResult =>
    LET terms == Concat(outcome.pair)
        pairs == {p \in Indices(hero) \X Indices(villain) : CanMeet(p[1], p[2])}
    IN  /\ Len(terms) = Cardinality(pairs)
        /\ Range(terms) = {TrueTerm(p[1], p[2]) : p \in pairs}
        /\ call.mode = "PerCombo" =>
             /\ Range(terms) = UNION {Range(outcome.hero[e].sum) : e \in Indices(outcome.hero)}
             /\ Range(terms) = UNION {Range(Concat(outcome.villain[e].sum)) : e \in Indices(outcome.villain)}

(* A hand of the caller's range that can meet an opponent has one entry, at  *)
(* the weight the caller first gave it, however often the range lists it.    *)
Answered(asked, entries, against) ==
  \A m \in {asked[i].mask : i \in Indices(asked)} :
    LET given == {i \in Indices(asked) : asked[i].mask = m /\ Usable(asked[i], call.board)}
        met   == \E j \in Indices(against) :
                   Usable(against[j], call.board) /\ Opposed(m, against[j].mask)
        mine  == {e \in Indices(entries) : entries[e].combo.mask = m}
    IN  IF given # {} /\ met
        THEN /\ Cardinality(mine) = 1
             /\ \A e \in mine : entries[e].combo.weight = asked[Min(given)].weight
        ELSE mine = {}

EveryComboAnswered ==
  IsResult /\ call.mode = "PerCombo" =>
    /\ Answered(call.hero, outcome.hero, call.villain)
    /\ Answered(call.villain, outcome.villain, call.hero)

(* What one worker, alone, would add up and in which groups: hero rows in    *)
(* order, cut by the size of the hero range and by nothing else.             *)
Groups(rows) ==
  LET chunks  == IF rows < MaxRowChunks THEN rows ELSE MaxRowChunks
      perChunk == CeilDiv(rows, chunks)
  IN  [k \in 1 .. chunks |-> {i \in 1 .. rows : CeilDiv(i, perChunk) = k}]

InGroups(byRow) ==
  [k \in DOMAIN Groups(Len(hero)) |-> Concat(At(byRow, Groups(Len(hero))[k]))]

RowTerms(i) ==
  At([j \in Indices(villain) |-> TrueTerm(i, j)], {j \in Indices(villain) : CanMeet(i, j)})

SerialPair == InGroups([i \in Indices(hero) |-> RowTerms(i)])

SerialVillain(j) ==
  InGroups([i \in Indices(hero) |-> IF CanMeet(i, j) THEN <<TrueTerm(i, j)>> ELSE <<>>])

(* The thread option, the core count and the schedule change no term, no     *)
(* order and no grouping of any sum of the result.                           *)
SameAtEveryWidth ==
  IsResult /\ hero # <<>> /\ villain # <<>> =>
    /\ outcome.pair = SerialPair
    /\ \A e \in Indices(outcome.hero) :
         LET i == CHOOSE r \in Indices(hero) : hero[r] = outcome.hero[e].combo
         IN  outcome.hero[e].sum = RowTerms(i)
    /\ \A e \in Indices(outcome.villain) :
         LET j == CHOOSE c \in Indices(villain) : villain[c] = outcome.villain[e].combo
         IN  outcome.villain[e].sum = SerialVillain(j)
=============================================================================
