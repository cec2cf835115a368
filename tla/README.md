# Verification of XiaPL

XiaPL is a C++ poker library (evaluation, ranges, equity, deck, canonical
situations) with a C API, a Python extension and a Python hand-history module.
This directory holds TLA+ models of it, the TLC runs that check them on small
instances, and proofs checked by the TLA+ proof system.

    tlc -workers 2 -config <Cfg>.cfg <MCModule>
    tlapm <Name>Proofs.tla

The proof modules are `ChunkRunProofs`, `EquityCallProofs`, `RangeEnumProofs`,
`PairSamplerProofs`, `EquityHandsProofs`, `DeckProofs` and `RangeStoreProofs`; six of
them rest on `Induction`, which is checked like them. `RangeEnumProofs` and
`RangeStoreProofs` take some minutes each when nothing is remembered of an earlier run.

`PROJECT.json` lists components, runs, mutants, the map from definitions to
source lines, the hazards and the theorems. Operators called "Variant" in a
comment are plausible mistakes; a run with one of them in place of the real
definition must violate the property the mutant names. They are part of no
specification.

## 1. Inventory

| Component | Code | State it keeps | Operations | Talks to |
|---|---|---|---|---|
| Chunk driver | `src/core/mc_chunking.h` | shared chunk counter, exception slots, result slots, worker threads | plan, fan out, claim, run, join, rethrow, reduce | every sampler; both phases of the range enumeration |
| Canonical situations | `src/core/canonicalize.cpp`, the handle in `src/api/waist_handles.cpp`, `binding/core_eval_canon.cpp` | private hash set of each worker, merged set, handle, stream offset | enumerate, merge, fill, stream | its own plain threads, not the driver |
| Range equity | `src/core/equity_range.cpp` | filtered ranges, boards, score cache, per-row / per-chunk / per-column sums | filter, sample boards, fill cache, walk pairs, reduce; or draw pairs | driver, evaluator, weighted picker |
| Hand equity | `src/core/equity_hands.cpp` | counters of each player | enumerate or sample boards, compare, reduce | driver, board helpers |
| Boards | `src/core/board_sample.h` | deck permutation of a chunk | enumerate, sample | the equity engines |
| Weighted picker | `src/core/alias_picker.h` | alias table, two stacks in one array | build, pick | pair sampler |
| Deck | `src/core/deck.cpp` and its C and Python faces | card list, generator | deal, burn, shuffle, reset, remove, set, pickle | Python |
| Evaluator | `src/core/eval*.{cpp,h}`, `hand_value.cpp` | none | score, decode, compare, pick winners | everyone |
| Range container | `src/core/range.cpp`, handles of `waist_handles.cpp`, `core_range.cpp` | immutable combo list, behind a handle | construct, validate, read, destroy | equity engines |
| Hold'em notation | `src/core/range_holdem.cpp` | none | tokens to combos, duplicate rule | range container |
| PLO notation | `src/core/range_plo.cpp`, `plo_pattern.h` | none | items to hands, merge of items | range container |
| Set operations | `src/core/range_setops.cpp` | none | union, intersection, difference | range container |
| Preflop ranking | `src/core/preflop_rank.cpp` and its table | none | top-percent ranges | ranges |
| Table generator | `apps/gen_preflop_rank.cpp` | counts of each worker, progress count | pass, recount, gates, emit | evaluator |
| C API errors | `src/api/waist_error.h` | thread-local error text | set on failure, read by the caller | all C functions |
| C API handles | `src/api/waist_handles.cpp` | objects behind opaque handles | create, use, destroy | bindings |
| Python equity calls | `binding/core_simulation.cpp` | captured failure, result guard | release lock, calculate, read, reacquire, raise | C API, interpreter |
| Python ranges | `binding/core_range.cpp`, `core_common.h` | cached combo list | construct, combos, set operations | C API |
| Hand histories | `python/xiapl/phh.py` | parsed hands, whose actions keep the text they were read from | read, change, write, masks | none |

What makes each of them correct, and what is hard about it:

- **Chunk driver.** Threads take chunks in any order and may fail; a thread may
  fail to start. The answer must depend only on the budget and on which chunks
  fail; the caller's frame must outlive the workers; nobody may wait for ever.
- **Canonical situations.** Exactly one representative of every class under suit
  relabelling, whatever the worker count; hash tables that never fill up (a full
  one makes `insert` spin); sets merged only after their workers are done.
- **Range equity.** A cache written by one fan-out and read by another; two
  different partitions with short last parts; sums of doubles whose order is
  part of the result; duplicates and unusable combos in the caller's list.
- **Pair sampler, boards.** A deck order that outlives a trial but not a chunk,
  rejection loops, ranges that block each other.
- **Deck.** No call sequence may lose, duplicate or reorder a card, and a
  rejected call may change nothing.
- **Error slot and Python calls.** The interpreter lock is not held between the
  failure and the exception; other threads fail meanwhile; a handle and several
  allocations sit on the path.
- **Generator.** The main thread waits for a reported count rather than for the
  workers, and workers report in batches.
- **Hand equity.** Two simulators that must credit the same pot; a counter of
  each way a pot can be split; the choice between sampling and enumeration; calls
  refused before anything runs.
- **Evaluator.** Categories and kickers packed in one number, so that comparing
  numbers is comparing hands; seven cards, of which a player of Omaha must use two.
- **Ranges and notation.** Merges of sorted lists with two indices; which
  constructor keeps the caller's order and which sorts; one duplicate rule in
  Hold'em (an error) and another in PLO (the same weight merges); output slots and
  handles after a call that fails.
- **Hand histories.** An action keeps the text it was read from: one that is changed
  must not be written from it, one that is not must be; masks of hands that are only
  partly known; collections.

## 2. Modules

| Module | Models | State and actions, against the code |
|---|---|---|
| `ChunkPlan` | arithmetic of `mc_chunking.h` | no state; chunk count and size, worker count, the promised answer |
| `ChunkJob` | the contract in the header's comments | a call is pending, then answered; only a failed thread creation may replace the answer |
| `ChunkRun` | `run_chunks_parallel`, `run_mc_chunks`, and the reduce of `simulate_multiway` | `caller`/`pos` is the calling thread and its loop index, `nextChunk` the atomic counter, `claim` each worker's local `k`, `errors`/`results` the slots; one action per loop step. `Contract == INSTANCE ChunkJob WITH job <- job, outcome <- outcome` |
| `Canon` | suit relabelling of `canonicalize.cpp` | operators: legacy key, strict key, board key |
| `CanonEnum` | `generate_canonical_situations`, the C handle, the stream into Python | `local_sets` are the private tables (a set; capacity and load are explicit), `wpc`/`at` the workers and their slices, `fetched` what the binding copied |
| `RangeEnum` | `calculate_range_equity`, `enumerate_range_equity` | one phase per section of the functions; `region` is the running call of the driver, abstracted to what `ChunkRun` establishes; a sum is the sequence of its terms |
| `PairSampler` | `sample_range_equity`, and `sample_boards` as the case of fixed hands | `deck` is each chunk's copy, one action per accepted or rejected pair, per card and per trial |
| `AliasPicker` | `AliasPicker` | no state; the two stacks in one array, the equal-weight short cut, the draw; what `PairSampler` draws with |
| `Deck` | `Deck`, `xiapl_deck_*`, Python `Deck` | `cards` is `card_ids`; `base`, `dealt`, `gone` are history |
| `EquityCall` | `calculate_equity` and `calculate_range_equity` of the extension, the error slot, `Range.combos()` | `gil`, the place of each Python thread, its `slot`, its captured `outcome`, its result `handle` |
| `PreflopGen` | `apps/gen_preflop_rank.cpp` | main thread, workers, `progress`, counts and gates |
| `Evaluator` | `eval_core.h`, `eval_internal.h`, `hand_value.cpp`, `eval.cpp` | no state; the packed score, its decoding, the Omaha rule, the winners |
| `EquityHands` | `equity_hands.cpp`, `board_sample.h`, `xiapl_calculate_equity`, `xiapl_judge` | `comb` is the index combination that `next_combination` steps, `counters` those of each chunk, folded in order; every check has its rejection |
| `Combos` | `range.cpp` | no state; masks and their order, the nested loops that list all masks of a size, combo lists, construction, dead cards |
| `HoldemNotation` | `range_holdem.cpp` | no state; a token is a record of its parts, its combos in the code's order |
| `PloNotation` | `range_plo.cpp`, `plo_pattern.h` | no state; patterns, progressions, the merge of items |
| `RangeAlgebra` | `range_setops.cpp`, `preflop_rank.cpp` | no state; one merge for the three operations, a recursive function of the two indices, after a sort by insertion; the strongest labels |
| `RangeStore` | range functions of `waist_handles.cpp`, `core_range.cpp`, `core_common.h` | `store` is the ranges alive by handle, `out` the caller's slot, `status` what the last call returned; from C or from Python |
| `HandHistory` | `phh.py` | the document on disk and the hands in memory; `Read`, changes to actions and notes, `Write`, masks |

`RangeStore` composes the notations and the algebra: `RangeStore` extends
`RangeAlgebra` (which extends `HoldemNotation`, which extends `Combos`) and
`PloNotation`. `EquityHands` extends `Evaluator`; `PairSampler` extends
`AliasPicker`. `MC*` modules give the constants their values. `RangeEnum`, `PairSampler`,
`EquityHands` and `ChunkRun` compose by contract: the first three take from the
driver that a chunk
is claimed once, in index order, by at most the resolved number of workers, and
that the caller goes on after the join. That is what `ChunkRun` checks and
`ChunkRunProofs` proves.

Abstractions, throughout: masks are sets of cards. In `Evaluator`, `EquityHands`
and the range modules a card is its id in the code, with fewer ranks; elsewhere
it is a small integer and the evaluator an operator of a hand and a board. A
seed is the index of the chunk it is derived from. Texts are sequences of tokens,
each a record of what the code takes from it, since what could go wrong lies in
what the tokens mean together; the characters are left out. Sums of doubles are
sequences (`RangeEnum`) or exact whole multiples of a unit: weights of `Full`
(`AliasPicker`, the range modules), shares of a pot of `ShareUnit` (`EquityHands`).

## 3. Runs

| Run | Distinct states | Question | Bounds, and why they suffice |
|---|---|---|---|
| `chunk_run` | 136,990 | one answer per job at any width, under failing chunks and failed thread creation; frame safety; termination; refinement of `ChunkJob` | chunks of 2 trials, budgets 0, 1, 4, 5, 8 (no chunk, one, full, short last one), up to 3 workers asked for explicitly and 4 automatically, every set of failing chunks |
| `canon_enum` | 24,288 | one representative per class; private sets complete at the merge; load at most a half; every call ends | two ranks, four suits, boards of 1 and 2 cards, 28 hero pairs cut for 1, 2 and 3 workers |
| `canon_enum_failure` | violation | does a worker's failure reach the caller? | three suits |
| `range_enum` | 9,080 | every pair once, right counts, no cell read early, same result at any width | five cards, hands of two, boards of one; ranges of 0, 1, 4 and 5 usable combos over 3 chunks (short and empty last chunks); exact, sampled and fixed boards; a cache limit on both sides |
| `pair_sampler` | 258,695 | legal trials, unbiased boards, pairs in exact proportion to their weights, chunks independent of the schedule, an end also when ranges block | two workers, two chunks of two trials, boards of two cards, two rejections allowed; ranges of up to four combos with every weight of 1, 2, 3, 5 |
| `deck` | 18,020 | order, rejected calls, capacity rule | four cards; requests below, at and above the deck; bad lists |
| `equity_call` | 36,556 | own error, handle lifetime, lock discipline, progress of others | two Python threads, two errors |
| `equity_call_combos` | violation | does the call read the `Combo` objects? | the same |
| `preflop_gen` | 3,982 | every board once, inclusion-exclusion right, progress loop ends | three ranks, two suits, boards of one card, 1 to 5 workers, reports every 2 boards |
| `equity_hands` | 8,365 | who wins a showdown, what each player is credited with, which boards run, also when the cards run out | six ranks of four suits less three cards, with quads, flushes, straights and the wheel; two and three players, both games, exact and sampled with one and two chunks; five hands of PLO that leave one card for a board of five, past whose end four kinds of bit are read (`Leftover`); one call for each reason to reject; a showdown on every board out of eleven cards |
| `range_store` | 8,470 | what each constructor gives, in which order, and what a failed call leaves | five ranks: 190 and 4,845 combos, every form of token and of progression with its rejections; three constructions, set operations between all kinds of partner, reads and destroys in between |
| `hand_history` | 128,148 | is what was written read back; what masks are made of | 26 documents (whole, partly known, one defect each, lists), two changes and two reads, lists of two hands |

Two runs end in a counterexample, and show where a text of the repository says
something the code does not do:

- `canon_enum_failure`: `include/xiapl/c_api.h:143` promises that a failure in an
  internal worker is brought back to the calling thread. The workers of the
  canonical enumeration are plain `std::thread`s: an exception in one of them,
  or a failed creation of a later one, ends the process.
- `equity_call_combos`: `README.md:381-384` describes a calculation as reading
  the objects of `Range.combos()`. Those are a copy; a weight written to one
  is never used.

### Fairness

- `ChunkRun`, `CanonEnum`, `PreflopGen`, `PairSampler`: weak fairness of the
  calling thread and of each worker, which is the operating system's scheduler
  giving every runnable thread time. Chunk bodies are assumed to return or throw.
- `PairSampler`: a board draw that lands on a hole card is repeated by the code
  until it does not, which happens with probability one since live cards remain;
  the accepted draw is the step. Nothing of the kind is assumed of the pair: the
  rejection counter has to end that loop.
- `EquityCall`: strong fairness of acquiring and yielding the interpreter lock
  (CPython's evaluation loop honours a request to drop it), weak fairness of the
  steps a thread takes with it. None of the calculation, which may last for ever.
- `RangeEnum`, `EquityHands`, `Deck`, `RangeStore` and `HandHistory` state no
  liveness property: the last three are sessions a caller may leave at any time, and
  the first two end when their fan-out does, which is `chunk_run`'s question.

### When the cards are dealt out

`validate_equity_input` does not compare the cards left with those the board needs. Twelve
hands of PLO before the river, and thirteen before the flop, leave too few and are accepted.
`binomial_coefficient` is then 0, so that any budget counts as exact, and
`enumerate_boards` reads `deck_indices` past its size: memory that was reserved for 52
entries and never written, by which a bit is then shifted. `EnumeratePastEnd` is that path: the
board is made of the cards left and of one bit per missing card, each any of `Leftover`.
What is stored in unwritten memory, and what a shift by it gives, is not defined; the model
takes the outcomes of a build that reads a number and shifts by its low six bits. Such a
board may hold a card of a player, or be short when a bit repeats a card or names none.
If no hand can be made on it nobody wins and no trial is counted.

`ExactMeansEveryBoardOnce` covers these calls: they are never sampled, and run one such board.
`equity_hands` checks it on five hands that leave one card, `ExactOrSampled` proves it of any deck.
It is what the code does, not what it should do: `include/xiapl/simulation.h:150` calls the
trials of a result board completions, and none exists; the result still counts the stray
board as one if anybody wins on it, takes the equities from it, and is called exact. A
check in `validate_equity_input` would close the gap.
`EquityIsPotShare` and `BestFiveWins` say nothing of a board that is no board.

## 4. Proofs

What a theorem needs beyond its specification is in the named `ASSUME` of the component's
module, which TLC evaluates on the values of the run. A theorem about all values of the
constants says of any number of workers, cards, combos, handles or calls what the run
shows of a few.

### How the proofs do without induction rules

The library's induction theorems take the property as an operator, which the provers
here cannot instantiate. `Induction` goes another way: a property that fails for some
number fails for a least one (`LeastNumber`, from the well-foundedness of the order),
and the least failure contradicts the step. From that come

- `Recursion` and `BoundedRecursion`: a recursive function, over numbers or over any set with
  a measure in 0 .. M whose body only looks at lower measures, exists. Without this
  nothing can be said of a recursive function, since its value is a CHOOSE. A proof about
  one names its equation (`IsMerge`, `IsSort`, `IsLoops`, `IsReplay`), shows that it has
  a solution, and reasons on the least argument where the solution goes wrong;
- sums over finite sets that do not depend on the order of the terms (`SumFunction` of the
  community modules is such a recursion), equal shares, and sums by parts;
- `AscendingLists`: a finite set of numbers has one ascending list, `SmallestFirst`;
- subsets of k of n elements are counted by the binomial coefficient;
- masks are strictly ordered by their highest difference (`MasksOrdered`).

### The theorems and their invariants

`ChunkRunProofs`, from `PlanAssumption` alone (a positive chunk size, sets of
naturals and integers for the inputs), for any number of chunks and workers:

- The safety properties are not inductive: that no chunk below a failure is
  skipped needs to know what the counter says about every chunk. `IInv` adds
  `FanOut` (workers exist only when several are wanted, at most one per chunk),
  `Joined` (the caller's loop index says which workers exist and which are
  over), `Counted` (the counter passes the end by at most one per worker that
  left), `Claimed` (a chunk below the counter is settled or being run by one
  worker, one above it is untouched), `Stored` (errors come from failing chunks,
  a worker leaves only at the end or on a failure) and `Reduced` (how far the
  reduction is).
- One lemma per action shows that it keeps `IInv`; `InductiveInvariant` puts them
  together. From it: `TypeCorrect`, `NoDanglingWorker`, `ChunksRunOnce`,
  `LowestFailureReached`, `Determinacy`, `PartialFanOutDrains`.
- `BudgetIsRun`: the chunk sizes, the short last one included, add up to the budget, as
  a sum over the accumulated sequence.
- `RefinesContract`: initial states map to initial states of `ChunkJob`, and every
  step to an answer, a failed thread creation or a stutter.

`EquityCallProofs`, from `CallAssumption` (the tokens for no thread and no value
differ from the others), for any number of Python threads: `CallInv` says, for every
place a thread can be at, what its error slot, captured failure, handle and
the lock look like (`ErrorAt`, `HandleAt`, `LockAt`). From it: `CallTypes`,
`RaisesOwnError`, `ResultHandleBounded`, `InterpreterUnderTheLock`.

`RangeEnumProofs`, from `RangeEnumAssumption` (a positive row-chunk bound, scores of
a hand that are positive, calls of their type), for all ranges, board sets, thread
options, core counts, schedules and failures to create a thread. It has two invariants.

- `CacheFinal`. That the cache is final after the fill is not inductive, since it says
  nothing of the fill. `CacheInv` adds `Filtered` (both ranges have combos once
  filtered), `Shaped` (the cache has a cell for each hand and board), `Counted` (running
  chunks lie below the counter) and `Filled` (during the fill a cell is empty or
  final, and final when a slice that holds it has been claimed and runs no more). Two
  lemmas about the cut carry it over the end of the fill: `SlicesCover`, by which every
  cell lies in some slice although the last one is short, and `RectanglesApart`, by
  which two slices share none, along whichever axis was chosen; `RowsApart` is the
  same for the chunks of the pair loop.
- `EveryPairCounted`, `EveryComboHasItsAnswer`, `WidthNeverShows`. The properties speak of the
  result only; `SumsInv` says what every sum is on the way: `Stepping` (where each chunk's
  row counter stands), `Summing` (a chunk's aggregate and each of its columns are the
  concatenation of the terms of exactly the rows it has been through, in their order),
  `Reduced` (the totals are those a single worker would have, groups included) and `Ending`
  (a result is the full one, or the empty one when a filtered range is empty). It needs
  `CacheInv`: a term read from the cache is the true term because the cell is final.
  The chunks cut the hero rows, so concatenating their groups gives every row once; the
  filter keeps the first usable combo of each mask, so a term cannot come up twice.

`PairSamplerProofs`, from `SamplerAssumption`, for any number of workers, chunks, ranges and
boards:

- `LegalTrials`. `DealInv` adds to the types that each worker's deck is a permutation of the
  cards whatever it went through (`Permuted`), and that its front is the board of
  the trial in progress (`Fronted`): only so is a card that is drawn later a new one.
- `DrawsDecideTrials`. Two chunks need not have been run at the same time, so the property
  cannot be carried along by comparing them. `ReplayInv` says instead that where a worker
  stands is where a function of the draws alone (`IsReplay`) leads from a fresh deck.
- `PairsInProportion`. `Balanced` is carried through the building of an alias table: what an
  entry owns and what it still has to give or take add up to its weight times the
  number of entries, and what is still to give equals what is still to take. When one of
  the two stacks runs empty nothing is left on the other, so that the entries that are
  never paired keep the whole of their bucket, as the code has it. The pair
  sampler draws from two tables independently, hence the product.
- `UniformBoards`. A trial's board is decided by its draws and by the order the deck was left
  in. Any sequence of distinct live cards can be dealt (`DealInv` with any front), and
  renaming the cards turns the draws that deal one board into those that deal another,
  one to one; so each has as many.

`EquityHandsProofs`, from `HandsAssumption`: `ExactOrSampled`, `PotsShared` and `BestHandWins`.

- `ExactOrSampled`, for every call that is accepted. For the exact half, `ExactInv` says that
  the boards run are those of the index combinations from the first up to the present
  one, in the order of `next_combination`; the last combination is reached only when all were.
  For the sampled half, `SampledInv` says that the counts of boards add up to the trials
  in the chunks' counters. `BinomialCounts` shows that `board_space_count`, which divides as
  it goes, is the number of completions: each division is exact. Where the cards left
  cannot fill the board there is no completion; `ShortIsExact` shows that such a call is
  never sampled, and `PastEndExact` that it runs one board, of the cards left and stray bits.
- `PotsShared`. The two simulators keep different counters; `Reading(c, x)` says what each
  has counted of the same five things (`Sums`: trials, chops, and the wins, shares and
  squared shares of a player), and `Pays(b, x)` what a board is worth to each. `PotInv` says that
  the counters of an enumeration, the counters of all chunks of a sampled run, and the
  totals over the chunks folded so far, have counted what the boards that were run are
  worth (`Takings`). A trial adds what its board pays (`TrialAdds`: heads up by comparing
  two scores, otherwise through the set of winners, which is never empty), and folding
  adds two readings (`FoldedAdds`). Heads up the villain's row is computed from the hero's:
  `LeftOver` and `SameError` show that it is the villain's own share and error.
- `BestHandWins`. A hand is a category and the ranks that decide it (`MadeHand`); `Made(S, c, k)`
  says that some cards hold it, and `Tops` that none they hold packs to a larger number.
  `ScoreTops`: the score of five to seven cards packs the hand on top. It follows the
  evaluator: the suit held five times, if there is one (`FlushScore`), then the row of five
  ranks, then the counts of the ranks from four of a kind down (`PlainScore`), each case with
  the reason why no better hand was passed over. Five cards hold one hand on top and are just
  that hand (`FiveAreTheHand`), so the rules of poker read the same category and ranks off
  them (`ValueIs`). Packed numbers compare as category and ranks do, and so do the values
  decoded from them by shifts (`BeatsIsMore`, `DecodedOrder`; `eval.cpp:19-25` says so). A hand
  of seven cards is held by five of them and the other way round, in Omaha by two of the hand and
  three of the board, so the players on top are the same (`TopScoresWin`). `TableInv` adds to
  `ExactInv` what board a judge call was about.

`DeckProofs`, from `DeckAssumption`: `NoCardTwice`, `Untouched`, `NeverTripped`. `DeckInv` adds
to `DealtFromTheBack` that the deck is a sequence of ids; the lemmas are about taking
the back off a sequence, erasing cards from the front part of one, and reversing.

`RangeStoreProofs`, from the assumptions of `Combos`, the notations and `RangeStore`:

- `MergesAreSetOperations`. `MergedRight(f, op, a, b, i, j)` says of the merge from two indices on
  that it is ascending and gives what the operation gives for the rests of the two
  lists. The least counterexample, counted in combos still to come, is refuted in each of
  the four cases of the loop (`MergeEnd`, `MergeLeft`, `MergeRight`, `MergeBoth`). Weights that
  are equal, a difference that leaves none, and one list running out first are all in these.
- `StoreHolds`, and from it `SlotTellsTruth` and `PromisedOrderKept`. Besides the slot, `StoreInv`
  says that every range alive is a list of combos in order where that is promised
  (`ListsHeld`), because a set operation sorts what it is given, and that a handle is
  free when a call makes a range (`RoomLeft`), without which a new range would
  overwrite one. That a constructor's list ascends is `MadeWell`: the nested loops over
  the deck give masks in order (`LoopsAscend`), and PLO notation and the strongest labels
  are read off them.
- `HoldemMeansItsText` and `PloMeansItsText`: a text that is accepted gives the hands, at the
  weights, that its tokens mean. The classes of a Hold'em token are compared with what
  it means on the shapes of two cards, branch by branch (`PlusClassesAre`, `SpanClassesAre`), and the
  masks of a class are the hands of its shape (`ClassMasksAre`). The counting of ranks by
  which a PLO pattern is matched says that its four symbols can be dealt the four
  cards in some order: a hand that has enough of every named rank has a card for any one
  place such that the rest is enough for the rest (`DealOne`, four times). For the suits,
  `FourNumbers` compares the two counts. A plus, a minus or a span moves all symbols and stops
  at the end of the deck (`ShiftsAre`, `ItemPatternsAre`).
- `RangesMeanIt`, with the invariant `StoreInv /\ RangesMean /\ ReplyMeans`: the sources mean what
  they say (`SourcesMeanIt`), a set operation succeeds only on lists without repeats and then
  gives the operation of what its operands mean (`OperateMeans`). `StoreInv` is needed because a
  new range must not take the handle of another. What is left of a list without dead
  cards is its live pairs, by halves (`SelectsHalves`), each once; so its length and its total
  weight are those of the set (`SizeOfMeaning`, `WeighsItsMeaning`).

### What the proofs asked of the models

No property was weakened. Some definitions were put in a form the provers can take apart;
the runs and their mutants ask what they asked before:

- `Deck` erases the listed cards one after the other, as `remove_cards` does, instead of
  filtering the deck at once.
- `Combos` lists masks by the nested loops over the deck (`InOrder`), and `RangeAlgebra` has one
  merge with the pair of indices as argument. `std::sort` is an insertion sort: masks are
  distinct where it is called, so that any sort gives the same list.
- `RangeEnum` states the filter and the terms of a pair through `At` and `Concat`, functions on
  index sets, since `SelectSeq` cannot be expanded by the prover.
- Assumptions were added where a proof showed that something was silently used: the
  alias tables of `PairSampler` have one entry per combo; a seeded order of `Deck` is a
  permutation; the arguments of the calls of `RangeStore` and `EquityHands` have their type.
- `EquityIsPotShare` writes each sum as the sum of one function over the boards, and a square
  as a product.
- `AliasPicker` makes the columns of an unpaired table by joining functions to the empty list: TLC
  computes them once, and the prover reads the functions. `SamplerAssumption` says of each side
  that its weights are positive and as many as its combos.
- `ValidCombos` goes by halves of the list: `SelectSeq` again. `Tokens` and `Items` are the
  texts the tokenizers make (cards or hands, never both), and `TableAssumption` says that the ranking
  table names classes of hands, which the proofs of what a text and a percentage mean use.
- `Decoded` shifts a score right by multiples of four bits, as the code does, instead of
  dividing it by powers of sixteen: the prover has no exponentiation.

### Only model-checked

- All liveness (`EveryCallReturns`, `EveryCallEnds`, `OthersRun`, `ProgramEnds`, `EveryChunkEnds`,
  the fairness half of `ImplementsJob`): out of the prover's reach.
- `ReadBackIsWhatWasWritten` and `MasksAreWhole` of the hand
  histories, `OneRepresentativePerOrbit` and `HalfLoad` of the canonical enumeration,
  `GatesHold` and `TableIsExact` of the generator.

## 5. Not modelled

- The evaluator's lookup tables and its vector code paths: `Evaluator` says what the
  tables hold. The repository's tests compare the paths exhaustively.
- Seeds and the generator as numbers; the rounding of doubles (the order of the
  additions is modelled instead). In particular `rank_starting_hands` truncates a
  product of doubles: asked for k of 169 labels as the double k / 169, it gives k - 1
  of them for k in 29, 47, 58, 94, 105, 116 and 127. `range.h:106` documents the
  truncation.
- The characters of notations and card spellings; TOML, the values of money fields and
  amounts below 1/10000 in hand histories; logging, table data, build files.
- `SimulationOptions`: `to_waist_options` (`binding/core_simulation.cpp:369, 415`) reads
  the fields of a mutable Python object with the lock released. Two threads that
  share one options object can mix two settings; a data race without a defined
  outcome.
- The scalar functions of the C API other than `xiapl_judge`, the column readers of
  the range-equity handle, and the card helpers of the binding: stateless checks,
  conversions and copies.
- `canonicalize_hand` outside the labels of the generator, and the NumPy path of
  the canonical stream, which runs the loop that is modelled over plain arrays.
- Failures of the operating system and of the encoding while a hand history is written
  (`phh.py:499, 531`): a `Write` that is rejected is one whose hands cannot be formatted,
  and only of that does `HandHistory` say that nothing was written.
- What the weighted picker does with entries that the rounding of weights leaves on a
  stack: weights are exact in `AliasPicker`, and `PairsAreProportional` is about those.

### Notes on the code

Differences between the code and its texts that were met on the way and that no run
is about:

- `c_api.h:711` calls every range mask-ascending. `Range::all` for Hold'em, Hold'em
  text and lists of combos keep another order; `AscendingWherePromised` is stated
  for the constructors that do sort. The comment at `preflop_rank.cpp:73-75` counts
  `Range::all` among the ascending ones.
- `range.h` calls `generate_top_percent_range` equivalent to reading the joined labels.
  The combos are the same; their order is not, and samplers consume them in order.
- `range_holdem.cpp:285` says that only `AK+` is supported without a suit mark. Any
  ace with a plus is accepted, and stands for that hand alone.
- `phh.py:394-396` promises that what is written is read back the same. An amount below
  0.0001 without its text is written with an exponent, which the reader refuses; so
  are a deal without cards and a player beyond the seats.
- `phh.py:226-228` says that `board_mask` raises for an unknown card within the first
  `max_cards`. It raises for one anywhere in a deal that it reaches. `MasksAreWhole`
  asks of a refusal only that a card of the board was not shown.
- `eval_internal.h:120-124` takes its limit of 32 hands to be out of reach of PLO because the
  cards run out first. No check is about the cards running out (section 3).

## 6. Plan

Done, in this order: driver and contract, canonical enumeration, range
enumeration, deck, Python calls, generator, weighted picker, pair sampler; evaluator
and hand equity with its boards; ranges, notations, set operations and their
handles; hand histories; proofs of the driver, of the Python calls and of
the range engine's cache; then of its sums, of the pair sampler's trials, of exact and
sampled runs of hands and of their pot shares, of the deck, and of the set operations and their handles;
then of the weighted picker, of the fairness of boards, of the hand evaluator, and of
what ranges and their notations mean.

Next, proofs: that the slices of the canonical enumeration cover the hero pairs
(`OneRepresentativePerOrbit`); that a hand history reads back as it was written
(`ReadBackIsWhatWasWritten`).

Next, models: the text of small amounts in `HandHistory`, as a conversion that may give
an exponent; the options object in `EquityCall`, once a text says which
options such a call runs with.
