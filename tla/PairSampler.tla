------------------------------ MODULE PairSampler ------------------------------
(***************************************************************************)
(* What a chunk of a Monte Carlo job does (sample_range_equity in          *)
(* src/core/equity_range.cpp, sample_boards in src/core/board_sample.h):   *)
(* each trial draws a hero and a villain combo off two weighted pickers     *)
(* (AliasPicker) until they share no card,                                 *)
(* then deals the rest of the board off a deck whose order carries over    *)
(* from trial to trial. The workers take chunks as the driver of ChunkRun  *)
(* hands them out. A fixed hand against a fixed hand, with a deck that     *)
(* holds neither, is sample_boards.                                        *)
(***************************************************************************)
EXTENDS AliasPicker

CONSTANTS
  Workers,
  ToDraw,         (* board cards to deal                                    *)
  Calls,          (* what is asked for: the size of the deck less the fixed    *)
                  (* board, and two lists of combos with their weights         *)
  ChunkSizes,     (* trials of each chunk                                    *)
  MaxRejections   (* kMaxConsecutivePairRejections, 10000                    *)

ASSUME SamplerAssumption ==
  /\ ToDraw \in Nat /\ MaxRejections \in Nat \ {0}
  /\ ChunkSizes \in Seq(Nat \ {0})
  /\ \A c \in Calls :
       /\ DOMAIN c = {"cards", "hero", "villain"}
       /\ c.cards \in Nat
       /\ \A side \in {c.hero, c.villain} :
            /\ Len(side.combos) = Len(side.weights)
            /\ side.weights \in Seq(Nat \ {0}) /\ side.weights # << >>
       /\ \A h \in DOMAIN c.hero.combos, v \in DOMAIN c.villain.combos :
            LET dead == c.hero.combos[h] \union c.villain.combos[v]
            IN  Cardinality((0 .. c.cards - 1) \ dead) >= ToDraw

VARIABLES
  call,        (* the call: deck size and the two filtered ranges, each with  *)
               (* its picker                                                *)
  next_chunk,  (* the next chunk to hand out                                 *)
  pc,          (* where each worker is                                       *)
  chunk,       (* the chunk it runs                                          *)
  deck,        (* its permutation of the cards                               *)
  rejections,  (* pairs it has rejected in a row                             *)
  hand,        (* the pair of this trial                                     *)
  d,           (* board cards dealt in this trial                            *)
  board,
  trials,      (* the trials of each chunk so far: pair and board            *)
  draws,       (* history: the draws of each chunk that were accepted        *)
  failed       (* chunks that threw                                          *)

vars == <<call, next_chunk, pc, chunk, deck, rejections, hand, d, board, trials, draws, failed>>

Chunks  == DOMAIN ChunkSizes
Cards   == 0 .. call.cards - 1

(* deck_indices_of: the cards in ascending order.                            *)
BaseDeck == [k \in Cards |-> k]

NoPair == [hero |-> {}, villain |-> {}]

(* Variant: the villain's cards may come on the board.                       *)
DeadOfHero(w) == hand[w].hero

(* dead_mask.                                                                *)
Dead(w) == hand[w].hero \union hand[w].villain

(* Variant: the draw leaves out its own place, as Sattolo's shuffle does.     *)
PositionsSkippingOne(k) == k + 1 .. call.cards - 1

(* Where the draw of the k-th board card (from 0) may land.                   *)
Positions(k) == k .. call.cards - 1

(* The accepted card and the one at its place change places.                  *)
Swap(order, k, j) == [order EXCEPT ![k] = order[j], ![j] = order[k]]

-----------------------------------------------------------------------------
(* A side with its picker, built once for all chunks.                          *)
WithTable(side) ==
  [combos |-> side.combos, weights |-> side.weights, table |-> Picker(side.weights)]

Init ==
  /\ \E c \in Calls : call = [c EXCEPT !.hero = WithTable(@), !.villain = WithTable(@)]
  /\ next_chunk = 1
  /\ pc = [w \in Workers |-> "claim"]
  /\ chunk = [w \in Workers |-> 0]
  /\ deck = [w \in Workers |-> BaseDeck]
  /\ rejections = [w \in Workers |-> 0]
  /\ hand = [w \in Workers |-> NoPair]
  /\ d = [w \in Workers |-> 0]
  /\ board = [w \in Workers |-> {}]
  /\ trials = [k \in Chunks |-> <<>>]
  /\ draws = [k \in Chunks |-> <<>>]
  /\ failed = {}

Goto(w, place) == pc' = [pc EXCEPT ![w] = place]

(* Variant: the deck of the worker's last chunk is kept.                      *)
ClaimKeepingDeck(w) ==
  /\ pc[w] = "claim"
  /\ IF next_chunk \in Chunks
     THEN /\ chunk' = [chunk EXCEPT ![w] = next_chunk]
          /\ next_chunk' = next_chunk + 1
          /\ Goto(w, "pair")
     ELSE Goto(w, "exit") /\ UNCHANGED <<chunk, next_chunk>>
  /\ UNCHANGED <<call, deck, rejections, hand, d, board, trials, draws, failed>>

(* The driver's next chunk; a chunk starts with a deck of its own.            *)
Claim(w) ==
  /\ pc[w] = "claim"
  /\ IF next_chunk \in Chunks
     THEN /\ chunk' = [chunk EXCEPT ![w] = next_chunk]
          /\ next_chunk' = next_chunk + 1
          /\ deck' = [deck EXCEPT ![w] = BaseDeck]
          /\ Goto(w, "pair")
     ELSE Goto(w, "exit") /\ UNCHANGED <<chunk, next_chunk, deck>>
  /\ UNCHANGED <<call, rejections, hand, d, board, trials, draws, failed>>

(* The combos a side's picker can return.                                      *)
Drawn(side) == {side.combos[Picked(side.table, x)] : x \in Draws(side.weights)}

(* A hero and a villain combo that share no card.                            *)
AcceptPair(w) ==
  /\ pc[w] = "pair"
  /\ \E h \in Drawn(call.hero), v \in Drawn(call.villain) :
       /\ h \cap v = {}
       /\ hand' = [hand EXCEPT ![w] = [hero |-> h, villain |-> v]]
       /\ draws' = [draws EXCEPT ![chunk[w]] = Append(@, <<h, v>>)]
  /\ rejections' = [rejections EXCEPT ![w] = 0]
  /\ Goto(w, "deal")
  /\ UNCHANGED <<call, next_chunk, chunk, deck, d, board, trials, failed>>

Collides == \E h \in Drawn(call.hero), v \in Drawn(call.villain) : h \cap v # {}

(* Variant: rejections are not counted.                                      *)
RejectPairUncounted(w) ==
  /\ pc[w] = "pair" /\ Collides
  /\ UNCHANGED vars

(* A pair that shares a card: both sides are drawn again, and too many in a    *)
(* row end the chunk, and the worker, with an exception.                      *)
RejectPair(w) ==
  /\ pc[w] = "pair" /\ Collides
  /\ IF rejections[w] + 1 >= MaxRejections
     THEN /\ failed' = failed \union {chunk[w]}
          /\ Goto(w, "exit")
          /\ UNCHANGED rejections
     ELSE /\ rejections' = [rejections EXCEPT ![w] = @ + 1]
          /\ UNCHANGED <<pc, failed>>
  /\ UNCHANGED <<call, next_chunk, chunk, deck, hand, d, board, trials, draws>>

(* A board card. A draw that lands on a hole card is repeated, which changes   *)
(* nothing but the generator: the step is the accepted draw.                  *)
DealCard(w) ==
  /\ pc[w] = "deal" /\ d[w] < ToDraw
  /\ \E j \in Positions(d[w]) :
       LET picked == deck[w][j]
       IN  /\ picked \notin Dead(w)
           /\ deck' = [deck EXCEPT ![w] = Swap(@, d[w], j)]
           /\ board' = [board EXCEPT ![w] = @ \union {picked}]
           /\ draws' = [draws EXCEPT ![chunk[w]] = Append(@, j)]
  /\ d' = [d EXCEPT ![w] = @ + 1]
  /\ UNCHANGED <<call, next_chunk, pc, chunk, rejections, hand, trials, failed>>

(* The trial is counted; the deck stays as it is for the next one.            *)
Showdown(w) ==
  LET k == chunk[w]
  IN  /\ pc[w] = "deal" /\ d[w] = ToDraw
      /\ trials' = [trials EXCEPT ![k] = Append(@, [hand |-> hand[w], board |-> board[w]])]
      /\ Goto(w, IF Len(trials'[k]) = ChunkSizes[k] THEN "claim" ELSE "pair")
      /\ hand' = [hand EXCEPT ![w] = NoPair]
      /\ d' = [d EXCEPT ![w] = 0]
      /\ board' = [board EXCEPT ![w] = {}]
      /\ UNCHANGED <<call, next_chunk, chunk, deck, rejections, draws, failed>>

Step(w) == Claim(w) \/ AcceptPair(w) \/ RejectPair(w) \/ DealCard(w) \/ Showdown(w)

AllOut == \A w \in Workers : pc[w] = "exit"

Next == (\E w \in Workers : Step(w)) \/ (AllOut /\ UNCHANGED vars)

(* The scheduler runs every worker. A draw that is repeated until it is        *)
(* accepted is accepted at last (with probability one), so the deal is one     *)
(* step; nothing of the kind is assumed of the pair.                          *)
Spec == Init /\ [][Next]_vars /\ \A w \in Workers : WF_vars(Step(w))

-----------------------------------------------------------------------------
Done(k) == Len(trials[k]) = ChunkSizes[k]

(* A chunk's trials depend on its own draws and on nothing else: not on the    *)
(* worker, nor on the chunks it ran before.                                  *)
SameDrawsSameTrials ==
  \A k, l \in Chunks :
    Done(k) /\ Done(l) /\ draws[k] = draws[l] => trials[k] = trials[l]

(* A trial is a legal deal: the hands and the board share no card, and the     *)
(* board is complete.                                                        *)
TrialsAreLegal ==
  \A k \in Chunks : \A t \in DOMAIN trials[k] :
    LET x == trials[k][t]
    IN  /\ x.hand.hero \cap x.hand.villain = {}
        /\ x.board \cap (x.hand.hero \union x.hand.villain) = {}
        /\ Cardinality(x.board) = ToDraw

(* Whatever order the deck is in, every board of live cards is dealt by        *)
(* equally many sequences of accepted draws, and these are equally likely: the *)
(* order left by earlier trials does not bias a board.                        *)
Orders(order, dead) ==
  LET after[js \in UNION {[1 .. k -> Cards] : k \in 0 .. ToDraw}] ==
        IF js = <<>> THEN order
        ELSE Swap(after[SubSeq(js, 1, Len(js) - 1)], Len(js) - 1, js[Len(js)])
  IN  {after[js] : js \in {f \in [1 .. ToDraw -> Cards] :
         \A k \in 1 .. ToDraw :
           /\ f[k] \in Positions(k - 1)
           /\ after[SubSeq(f, 1, k - 1)][f[k]] \notin dead}}

BoardsAreUniform ==
  \A w \in Workers : pc[w] = "deal" /\ d[w] = 0 =>
    LET live == Cards \ Dead(w)
        ways(b) == Cardinality({o \in Orders(deck[w], Dead(w)) :
                                  {o[k] : k \in 0 .. ToDraw - 1} = b})
    IN  \A b, c \in kSubset(ToDraw, live) : ways(b) = ways(c) /\ ways(b) > 0

(* A pair is drawn with exactly the product of its two combos' shares: of the    *)
(* equally likely draws of a bucket and a coin on either side, the pair of weights  *)
(* w and v owns n * w * m * v, for every choice of weights. This needs every index   *)
(* to be on one stack at a time, the large entries to pay what the small ones take,   *)
(* and what is left on either stack to be whole.                                *)
PairsAreProportional ==
  \A w \in Workers : pc[w] = "pair" /\ rejections[w] = 0 =>
    LET ws    == call.hero.weights
        vs    == call.villain.weights
        ways(side, k) == Cardinality({x \in Draws(side.weights) : Picked(side.table, x) = k})
    IN  \A h \in DOMAIN ws, v \in DOMAIN vs :
          ways(call.hero, h) * ways(call.villain, v)
            = (Len(ws) * ws[h]) * (Len(vs) * vs[v])

(* Every call ends, also when the two ranges block each other.                *)
EveryChunkEnds == <>AllOut
=============================================================================
