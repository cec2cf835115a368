------------------------------ MODULE EquityHands ------------------------------
(***************************************************************************)
(* Fixed hands against each other: xiapl_calculate_equity and xiapl_judge   *)
(* (src/api), calculate_equity with its two simulators                     *)
(* (src/core/equity_hands.cpp), and the boards they run over               *)
(* (src/core/board_sample.h).                                              *)
(*                                                                         *)
(* The driver of ChunkRun is taken by its contract: every chunk runs, in   *)
(* any order, and the chunks are folded in index order. A trial of a chunk *)
(* is any board, which is what PairSampler shows of sample_boards. Shares  *)
(* of a pot are whole multiples of 1 / ShareUnit; a rate is its count, the *)
(* division by the trials left out.                                        *)
(***************************************************************************)
EXTENDS Evaluator, Functions

CONSTANTS
  Deck,            (* FULL_DECK_MASK                                        *)
  Calls,           (* the calls made                                        *)
  ChunkTrials,     (* kMcChunkTrials                                        *)
  MaxSeats,        (* kMaxSeats                                             *)
  MaxMaskPlayers,  (* kMaxMaskPlayers                                       *)
  ShareUnit,       (* a pot                                                 *)
  Leftover         (* the bits that indices read past a deck can name        *)

ASSUME HandsAssumption ==
  /\ Deck \subseteq 0 .. 51
  /\ ChunkTrials \in Nat \ {0}
  /\ MaxSeats \in Nat /\ MaxMaskPlayers \in Nat /\ ShareUnit \in Nat \ {0}
  /\ \A k \in 1 .. MaxSeats : ShareUnit % (2 * k) = 0
  /\ Leftover \subseteq 0 .. 63 /\ Leftover # {}
  /\ \A c \in Calls :
       c.iterations \in Int /\ c.capacity \in Nat /\ c.holes \in Seq(SUBSET (0 .. 63))

VARIABLES
  call,      (* the arguments                                               *)
  pc,        (* "call", "exact", "sample", "result", "done"                 *)
  comb,      (* the enumeration's index combination                         *)
  counters,  (* the counters of each chunk                                  *)
  folded,    (* chunks folded so far                                        *)
  totals,    (* the counters of the run                                     *)
  status,    (* what the function returned                                  *)
  columns,   (* the caller's per-player buffer                              *)
  summary,   (* the caller's summary, or the winners of a judge call         *)
  evaluated  (* history: how often each board was run                       *)

vars == <<call, pc, comb, counters, folded, totals, status, columns, summary, evaluated>>

Unwritten == <<>>

-----------------------------------------------------------------------------
(* validate_board_count, build_used_mask, validate_equity_input.              *)

Stripped(masks) == [i \in DOMAIN masks |-> masks[i] \cap Deck]
Board == call.board \cap Deck
Holes == Stripped(call.holes)
CardsPerHand(game) == IF game = "plo" THEN 4 ELSE 2

LegalBoardCount == Cardinality(Board) \in {0, 3, 4, 5}

HandsFit ==
  \A i \in DOMAIN Holes :
    /\ Cardinality(Holes[i]) = CardsPerHand(call.game)
    /\ Holes[i] \cap Board = {}
    /\ \A j \in 1 .. i - 1 : Holes[i] \cap Holes[j] = {}

MaxPlayers == IF call.game = "plo" THEN MaxMaskPlayers ELSE MaxSeats

(* What calculate_equity makes of its input.                                 *)
EquityVerdict ==
  IF call.iterations < 0 THEN "runtime"
  ELSE IF Holes = <<>> THEN "ok"
  ELSE IF ~LegalBoardCount THEN "runtime"
  ELSE IF Len(Holes) > MaxPlayers THEN "invalid_argument"
  ELSE IF ~HandsFit THEN "runtime"
  ELSE "ok"

(* judge: no player, too few board cards and too many seats are all the same.  *)
JudgeVerdict ==
  IF Cardinality(Board) \in 3 .. 5 /\ Holes # <<>> /\ HandsFit /\ Len(Holes) <= MaxPlayers
  THEN "ok" ELSE "runtime"

KnownGame == call.game \in {"holdem", "plo"}

(* The checks of the C functions, all of them before anything is computed: the   *)
(* options and the hands are there (a NULL array is empty) and the buffer has     *)
(* room for every player.                                                    *)
Arguments ==
  /\ call.options \/ call.op = "judge"
  /\ call.players = Len(call.holes)
  /\ KnownGame
  /\ (call.wants \/ call.op = "judge") => call.capacity >= call.players

Verdict ==
  IF ~Arguments THEN "invalid_argument"
  ELSE IF call.op = "judge" THEN JudgeVerdict
  ELSE EquityVerdict

-----------------------------------------------------------------------------
(* The boards of a run.                                                      *)

Live == Deck \ (Board \union UNION Range(Holes))

(* deck_indices_of: the cards left, ascending.                                *)
DeckIndices ==
  [i \in 1 .. Cardinality(Live) |-> CHOOSE c \in Live : Cardinality({x \in Live : x < c}) = i - 1]

ToDraw == 5 - Cardinality(Board)

(* Whether the cards left can fill the board. The code does not ask.           *)
EnoughCards == ToDraw <= Cardinality(Live)

(* binomial_coefficient, dividing as it goes: no product grows past it.        *)
Binomial(n, k) ==
  LET m == IF k > n - k THEN n - k ELSE k
      f[i \in 0 .. m] == IF i = 0 THEN 1 ELSE (f[i - 1] * (n - i + 1)) \div i
  IN  IF k > n THEN 0 ELSE f[m]

(* board_space_count.                                                        *)
BoardSpace == IF ToDraw = 0 THEN 1 ELSE Binomial(Cardinality(Live), ToDraw)

(* The ways to complete the board.                                           *)
Draws ==
  LET d[k \in 0 .. ToDraw] ==
        IF k = 0 THEN {{}}
        ELSE {p[1] \union {p[2]} : p \in {q \in d[k - 1] \X Live : q[2] \notin q[1]}}
  IN  d[ToDraw]

(* board_run_is_exact.                                                       *)
RunIsExact == call.iterations = 0 \/ call.iterations >= BoardSpace

FirstComb == [i \in 1 .. ToDraw |-> i - 1]

CombBoard(c) == Board \union {DeckIndices[c[i] + 1] : i \in DOMAIN c}

(* The bits of the indices past the end of the deck: its memory was reserved for   *)
(* a whole pack and never written, and each shifts a bit to wherever it says.      *)
Strays == {Range(read) : read \in [Cardinality(Live) + 1 .. ToDraw -> Leftover]}

(* The indices that can still move up.                                       *)
Movable(c) == {i \in DOMAIN c : c[i] < Len(DeckIndices) - Len(c) + i - 1}

(* Variant: the indices to the right of the moved one stay.                   *)
NextCombKeepingTail(c) ==
  LET i == Max(Movable(c)) IN [c EXCEPT ![i] = @ + 1]

(* next_combination: the last one moves up and those after it follow it.       *)
NextComb(c) ==
  LET i == Max(Movable(c))
  IN  [j \in DOMAIN c |-> IF j < i THEN c[j] ELSE c[i] + 1 + (j - i)]

-----------------------------------------------------------------------------
(* The counters. Two players of Hold'em have simulators of their own.          *)

HeadsUp == call.game = "holdem" /\ Len(Holes) = 2

Zero ==
  IF HeadsUp THEN [hero_wins |-> 0, chops |-> 0, trials |-> 0]
  ELSE [win |-> [i \in DOMAIN Holes |-> 0], equity |-> [i \in DOMAIN Holes |-> 0],
        square |-> [i \in DOMAIN Holes |-> 0], chops |-> 0, trials |-> 0]

HeadsUpTrial(c, b) ==
  LET hero == Score(b \union Holes[1])
      vill == Score(b \union Holes[2])
  IN  [hero_wins |-> c.hero_wins + (IF hero > vill THEN 1 ELSE 0),
       chops     |-> c.chops + (IF hero = vill THEN 1 ELSE 0),
       trials    |-> c.trials + 1]

(* Variant: a chopped pot is counted for each who shares it.                   *)
MultiwayTrialFullShare(c, b) ==
  LET w == Winners(call.game, Holes, b)
      alone == Cardinality(w) = 1
      add(f, x) == [i \in DOMAIN f |-> IF i \in w THEN f[i] + x ELSE f[i]]
  IN  [win |-> IF alone THEN add(c.win, 1) ELSE c.win, equity |-> add(c.equity, ShareUnit),
       square |-> add(c.square, ShareUnit * ShareUnit),
       chops |-> IF alone THEN c.chops ELSE c.chops + 1, trials |-> c.trials + 1]

MultiwayTrial(c, b) ==
  LET w == Winners(call.game, Holes, b)
      alone == Cardinality(w) = 1
      share == ShareUnit \div Cardinality(w)
      add(f, x) == [i \in DOMAIN f |-> IF i \in w THEN f[i] + x ELSE f[i]]
  IN  IF w = {} THEN c
      ELSE [win |-> IF alone THEN add(c.win, 1) ELSE c.win, equity |-> add(c.equity, share),
            square |-> add(c.square, share * share),
            chops |-> IF alone THEN c.chops ELSE c.chops + 1, trials |-> c.trials + 1]

RunTrial(c, b) == IF HeadsUp THEN HeadsUpTrial(c, b) ELSE MultiwayTrial(c, b)

Plus(f, g) == [i \in DOMAIN f |-> f[i] + g[i]]

(* The reduction of one chunk.                                               *)
Folded(t, c) ==
  IF HeadsUp
  THEN [hero_wins |-> t.hero_wins + c.hero_wins, chops |-> t.chops + c.chops,
        trials |-> t.trials + c.trials]
  ELSE [win |-> Plus(t.win, c.win), equity |-> Plus(t.equity, c.equity),
        square |-> Plus(t.square, c.square), chops |-> t.chops + c.chops,
        trials |-> t.trials + c.trials]

(* A standard error, as trials^2 times the variance; none for an exact run.    *)
Spread(t, sum, squares) == IF RunIsExact THEN 0 ELSE t.trials * squares - sum * sum

(* compute_player_equities. Heads up the villain's row is what the hero's        *)
(* leaves over.                                                              *)
HeadsUpRows(t) ==
  LET hero   == t.hero_wins * ShareUnit + (t.chops * ShareUnit) \div 2
      square == (t.hero_wins * ShareUnit * ShareUnit) + (t.chops * ShareUnit * ShareUnit) \div 4
      spread == Spread(t, hero, square)
  IN  << [win |-> t.hero_wins, equity |-> hero, spread |-> spread],
         [win |-> t.trials - t.hero_wins - t.chops,
          equity |-> t.trials * ShareUnit - hero, spread |-> spread] >>

MultiwayRows(t) ==
  [i \in DOMAIN Holes |->
     [win |-> t.win[i], equity |-> t.equity[i],
      spread |-> Spread(t, t.equity[i], t.square[i])]]

Rows(t) == IF HeadsUp THEN HeadsUpRows(t) ELSE MultiwayRows(t)

-----------------------------------------------------------------------------
(* The chunks of a sampled run.                                              *)
NumChunks == (call.iterations + ChunkTrials - 1) \div ChunkTrials
Chunks == 1 .. NumChunks
TrialsOf(k) == LET left == call.iterations - (k - 1) * ChunkTrials
               IN  IF left < ChunkTrials THEN left ELSE ChunkTrials

Init ==
  /\ call \in Calls
  /\ pc = "call"
  /\ comb = <<>> /\ counters = <<>> /\ folded = 0 /\ totals = <<>>
  /\ status = "pending"
  /\ columns = [i \in 1 .. call.capacity |-> Unwritten]
  /\ summary = Unwritten
  /\ evaluated = [b \in {} |-> 0]

Return(s) == pc' = "done" /\ status' = s

(* A rejected call returns before anything ran.                              *)
Reject ==
  /\ pc = "call" /\ Verdict # "ok"
  /\ Return(Verdict)
  /\ UNCHANGED <<call, comb, counters, folded, totals, columns, summary, evaluated>>

(* No players: an empty result, not marked exact, the board unread.           *)
NoPlayers ==
  /\ pc = "call" /\ Verdict = "ok" /\ Holes = <<>>
  /\ Return("ok")
  /\ summary' = [chops |-> 0, trials |-> 0, exact |-> FALSE]
  /\ UNCHANGED <<call, comb, counters, folded, totals, columns, evaluated>>

(* xiapl_judge: one showdown on the board as it is.                          *)
Judge ==
  /\ pc = "call" /\ Verdict = "ok" /\ call.op = "judge"
  /\ summary' = Winners(call.game, Holes, Board)
  /\ evaluated' = [b \in {Board} |-> 1]
  /\ Return("ok")
  /\ UNCHANGED <<call, comb, counters, folded, totals, columns>>

(* The dispatch: enumerate, or cut the iterations into chunks.                *)
Start ==
  /\ pc = "call" /\ Verdict = "ok" /\ call.op = "equity" /\ Holes # <<>>
  /\ totals' = Zero
  /\ IF RunIsExact
     THEN pc' = "exact" /\ comb' = FirstComb /\ UNCHANGED counters
     ELSE pc' = "sample" /\ counters' = [k \in Chunks |-> Zero] /\ UNCHANGED comb
  /\ UNCHANGED <<call, folded, status, columns, summary, evaluated>>

CountBoard(b) ==
  evaluated' = IF b \in DOMAIN evaluated THEN [evaluated EXCEPT ![b] = @ + 1]
               ELSE [c \in DOMAIN evaluated \union {b} |->
                       IF c = b THEN 1 ELSE evaluated[c]]

(* enumerate_boards: one board, and on to the next combination.               *)
Enumerate ==
  /\ pc = "exact" /\ EnoughCards
  /\ totals' = RunTrial(totals, CombBoard(comb))
  /\ CountBoard(CombBoard(comb))
  /\ IF Movable(comb) # {}
     THEN comb' = NextComb(comb) /\ UNCHANGED pc
     ELSE pc' = "result" /\ UNCHANGED comb
  /\ UNCHANGED <<call, counters, folded, status, columns, summary>>

(* enumerate_boards when the cards run out: the first combination is longer than     *)
(* the deck. What is left of it and the bits past it make one board, and no index    *)
(* can move up.                                                              *)
EnumeratePastEnd ==
  /\ pc = "exact" /\ ~EnoughCards
  /\ \E stray \in Strays :
       /\ totals' = RunTrial(totals, Board \union Live \union stray)
       /\ CountBoard(Board \union Live \union stray)
  /\ pc' = "result"
  /\ UNCHANGED <<call, comb, counters, folded, status, columns, summary>>

(* A trial of a chunk that has some left, on any board.                       *)
SampleTrial(k) ==
  /\ pc = "sample" /\ counters[k].trials < TrialsOf(k)
  /\ \E drawn \in Draws :
       /\ counters' = [counters EXCEPT ![k] = RunTrial(@, Board \union drawn)]
       /\ CountBoard(Board \union drawn)
  /\ UNCHANGED <<call, pc, comb, folded, totals, status, columns, summary>>

(* Every chunk has run: they are folded in index order.                       *)
FoldChunk ==
  /\ pc = "sample" /\ \A k \in Chunks : counters[k].trials = TrialsOf(k)
  /\ folded' = folded + 1
  /\ totals' = Folded(totals, counters[folded + 1])
  /\ pc' = IF folded + 1 = NumChunks THEN "result" ELSE pc
  /\ UNCHANGED <<call, comb, counters, status, columns, summary, evaluated>>

(* The rows go to the columns the caller wants, the rest to the summary.       *)
Emit ==
  /\ pc = "result"
  /\ columns' = [i \in DOMAIN columns |->
                   IF call.wants /\ i <= Len(Holes) THEN Rows(totals)[i] ELSE columns[i]]
  /\ summary' = [chops |-> totals.chops, trials |-> totals.trials, exact |-> RunIsExact]
  /\ Return("ok")
  /\ UNCHANGED <<call, comb, counters, folded, totals, evaluated>>

Next ==
  \/ Reject \/ NoPlayers \/ Judge \/ Start \/ Enumerate \/ EnumeratePastEnd
  \/ \E k \in Chunks : SampleTrial(k)
  \/ FoldChunk \/ Emit
  \/ (pc = "done" /\ UNCHANGED vars)

Spec == Init /\ [][Next]_vars

-----------------------------------------------------------------------------
Answered == pc = "done" /\ status = "ok" /\ call.op = "equity" /\ Holes # <<>>

(* The board an enumeration is at, or a judge call was about.                 *)
OnTheTable ==
  IF pc = "exact" /\ EnoughCards THEN {CombBoard(comb)}
  ELSE IF call.op = "judge" THEN DOMAIN evaluated ELSE {}

(* Whoever has the best hand of five cards wins every showdown, alone or with   *)
(* the others who have it, in both games and on boards of three to five cards;   *)
(* and the comparison of hand values says the same as that of packed scores.     *)
BestFiveWins ==
  \A b \in OnTheTable :
    LET won == Winners(call.game, Holes, b)
        values == {<<i, Decoded(HandScore(call.game, Holes[i], b))>> : i \in DOMAIN Holes}
    IN  /\ won = RightfulWinners(call.game, Holes, b)
        /\ won = {v[1] : v \in {x \in values : \A y \in values : ~HandLess(x[2], y[2])}}

(* Whichever simulator a call is sent to, and however its trials are cut into     *)
(* chunks, the result is the pots of the boards that were run, each split evenly   *)
(* between its winners: wins, shares, errors and chops of every player. Where the    *)
(* cards run out there is no board to share a pot on.                            *)
EquityIsPotShare ==
  Answered /\ call.wants /\ EnoughCards =>
    LET winners == [b \in DOMAIN evaluated |-> Winners(call.game, Holes, b)]
        share(i, b) == IF i \in winners[b] THEN ShareUnit \div Cardinality(winners[b]) ELSE 0
        trials    == SumFunction(evaluated)
        chops     == SumFunction([b \in DOMAIN evaluated |->
                                    evaluated[b] * (IF Cardinality(winners[b]) = 1 THEN 0 ELSE 1)])
        wins(i)   == SumFunction([b \in DOMAIN evaluated |->
                                    evaluated[b] * (IF winners[b] = {i} THEN 1 ELSE 0)])
        shares(i) == SumFunction([b \in DOMAIN evaluated |-> evaluated[b] * share(i, b)])
        squares(i) == SumFunction([b \in DOMAIN evaluated |->
                                     evaluated[b] * (share(i, b) * share(i, b))])
    IN  /\ summary.trials = trials /\ summary.chops = chops
        /\ \A i \in DOMAIN Holes :
             /\ columns[i].win = wins(i)
             /\ columns[i].equity = shares(i)
             /\ columns[i].spread = IF summary.exact THEN 0
                                    ELSE trials * squares(i) - shares(i) * shares(i)

(* A run reported as exact ran every completion of the board once; any other ran   *)
(* as many boards as it was asked for, and those were fewer. A run whose cards       *)
(* cannot fill the board is never a sampled one: it is reported as exact too, and    *)
(* ran the cards that are left with whatever bits the indices past them gave.        *)
ExactMeansEveryBoardOnce ==
  Answered =>
    LET completions == {Board \union drawn : drawn \in Draws}
    IN  /\ summary.exact /\ EnoughCards => evaluated = [b \in completions |-> 1]
        /\ ~summary.exact => /\ SumFunction(evaluated) = call.iterations
                             /\ call.iterations < Cardinality(completions)
                             /\ DOMAIN evaluated \subseteq completions
        /\ ~EnoughCards =>
             /\ summary.exact
             /\ \E stray \in Strays : evaluated = [b \in {Board \union Live \union stray} |-> 1]
=============================================================================
