------------------------------- MODULE Evaluator -------------------------------
(***************************************************************************)
(* The hand evaluator (src/core/eval_core.h), the PLO rule on top of it    *)
(* (src/core/eval_internal.h), the comparison of decoded values            *)
(* (src/core/hand_value.cpp) and the choice of winners (src/core/eval.cpp). *)
(*                                                                         *)
(* A card is its id, suit * 13 + rank - 2; a mask is a set of ids and a    *)
(* rank mask a set of ranks. The packed score is the number the code packs: *)
(* a category and five nibbles in base 16.                                 *)
(***************************************************************************)
EXTENDS Integers, Sequences, FiniteSets, FiniteSetsExt

Ranks == 2 .. 14
Suits == 0 .. 3

(* The lane of a suit: the ranks held in it.                                *)
Lane(mask, suit) == {r \in Ranks : suit * 13 + r - 2 \in mask}

(* make_straight_lut: the top of the highest five ranks in a row, 5 for the   *)
(* wheel, 0 for none.                                                       *)
StraightHigh(ranks) ==
  LET tops == {h \in 6 .. 14 : h - 4 .. h \subseteq ranks}
  IN  IF tops # {} THEN Max(tops)
      ELSE IF {14, 2, 3, 4, 5} \subseteq ranks THEN 5
      ELSE 0

(* score_take_top: the top n ranks, highest first, cut short when they run out. *)
TakeTop(ranks, n) ==
  LET above(r) == Cardinality({q \in ranks : q > r})
      size == IF Cardinality(ranks) < n THEN Cardinality(ranks) ELSE n
  IN  [i \in 1 .. size |-> CHOOSE r \in ranks : above(r) = i - 1]

HighCard == 1
OnePair == 2
TwoPair == 3
ThreeOfAKind == 4
Straight == 5
Flush == 6
FullHouse == 7
FourOfAKind == 8
StraightFlush == 9

(* One nibble for each kicker from the top; the unused ones are zero.         *)
Packed(category, kickers) ==
  LET nibble(i) == IF i \in DOMAIN kickers THEN kickers[i] ELSE 0
  IN  ((((category * 16 + nibble(1)) * 16 + nibble(2)) * 16 + nibble(3)) * 16 + nibble(4)) * 16
        + nibble(5)

(* c1 .. c4: the ranks held at least k times.                               *)
HeldTimes(mask, k) == {r \in Ranks : Cardinality({s \in Suits : s * 13 + r - 2 \in mask}) >= k}

ScoreFlush(ranks) ==
  IF StraightHigh(ranks) > 0
  THEN Packed(StraightFlush, <<StraightHigh(ranks)>>)
  ELSE Packed(Flush, TakeTop(ranks, 5))

(* Variant: a second set of trips is not taken for the pair of a full house.  *)
ScoreTripsOnePairOnly(c1, c2, c3) ==
  LET t == Max(c3)
  IN  IF c2 \ c3 # {}
      THEN Packed(FullHouse, <<t, Max(c2 \ c3)>>)
      ELSE Packed(ThreeOfAKind, <<t>> \o TakeTop(c1 \ {t}, 2))

(* The pair of a full house is the best rank held twice besides the trips.    *)
ScoreTrips(c1, c2, c3) ==
  LET t == Max(c3)
  IN  IF c2 \ {t} # {}
      THEN Packed(FullHouse, <<t, Max(c2 \ {t})>>)
      ELSE Packed(ThreeOfAKind, <<t>> \o TakeTop(c1 \ {t}, 2))

ScorePairs(c1, c2) ==
  LET p1 == Max(c2)
      p2 == Max(c2 \ {p1})
  IN  IF c2 # {p1}
      THEN Packed(TwoPair, <<p1, p2>> \o TakeTop(c1 \ {p1, p2}, 1))
      ELSE Packed(OnePair, <<p1>> \o TakeTop(c1 \ {p1}, 3))

(* eval_score7, for five to seven cards. The order of the tests is the code's: *)
(* a flush, a straight, then the repeated ranks.                             *)
Score(mask) ==
  LET suited == {s \in Suits : Cardinality(Lane(mask, s)) >= 5}
      c1 == HeldTimes(mask, 1)
      c2 == HeldTimes(mask, 2)
      c3 == HeldTimes(mask, 3)
      c4 == HeldTimes(mask, 4)
  IN  IF suited # {} THEN ScoreFlush(Lane(mask, Min(suited)))
      ELSE IF StraightHigh(c1) > 0 THEN Packed(Straight, <<StraightHigh(c1)>>)
      ELSE IF c4 # {} THEN Packed(FourOfAKind, <<Max(c4)>> \o TakeTop(c1 \ c4, 1))
      ELSE IF c3 # {} THEN ScoreTrips(c1, c2, c3)
      ELSE IF c2 # {} THEN ScorePairs(c1, c2)
      ELSE Packed(HighCard, TakeTop(c1, 5))

(* decode_score: the category and the five kicker slots, each shifted down and   *)
(* masked. The count of kickers leaves out the zeroes at the end.               *)
Decoded(score) ==
  LET shifted == <<score \div 65536, score \div 4096, score \div 256, score \div 16, score>>
      slot == [i \in 1 .. 5 |-> shifted[i] % 16]
  IN  [category |-> score \div 1048576, kickers |-> slot,
       kicker_count |-> Max({0} \union {i \in 1 .. 5 : slot[i] # 0})]

(* operator< on hand values: category, kickers in order, count.               *)
HandLess(a, b) ==
  LET differ == {i \in 1 .. 5 : a.kickers[i] # b.kickers[i]}
  IN  IF a.category # b.category THEN a.category < b.category
      ELSE IF differ # {} THEN a.kickers[Min(differ)] < b.kickers[Min(differ)]
      ELSE a.kicker_count < b.kicker_count

-----------------------------------------------------------------------------
BoardTriples(board) == kSubset(3, board)

(* plo_score: exactly two of the hole cards and exactly three of the board.   *)
PloScore(hole, board) ==
  Max({0} \union {Score(two \union three) :
                    two \in kSubset(2, hole), three \in BoardTriples(board)})

(* score_players_holdem, score_players_plo: one player of them.               *)
HandScore(game, hole, board) ==
  IF game = "plo" THEN PloScore(hole, board) ELSE Score(board \union hole)

(* winner_mask_from_scores: all players at the top score; none when nobody was  *)
(* scored. The masks judge_holdem_mask and judge_plo_mask return.             *)
Winners(game, holes, board) ==
  LET scores == {<<i, HandScore(game, holes[i], board)>> : i \in DOMAIN holes}
      best   == Max({0} \union {s[2] : s \in scores})
  IN  {s[1] : s \in {x \in scores : best > 0 /\ x[2] = best}}

-----------------------------------------------------------------------------
(* The rule of the game, stated over five cards at a time and without scores:   *)
(* what a player holds is the best of the hands of five cards the game allows.  *)

RankOf(c) == (c % 13) + 2
SuitOf(c) == c \div 13

RanksOf(five) == {RankOf(c) : c \in five}

(* The shape of five cards: how many ranks are held k times.                  *)
CountOf(five, r) == Cardinality({c \in five : RankOf(c) = r})
Held(five, k) == Cardinality({r \in RanksOf(five) : CountOf(five, r) = k})

OneSuit(five) == Cardinality({SuitOf(c) : c \in five}) = 1
Wheel(five) == RanksOf(five) = {14, 2, 3, 4, 5}
InARow(five) ==
  LET rs == RanksOf(five)
  IN  Cardinality(rs) = 5 /\ (Max(rs) - Min(rs) = 4 \/ Wheel(five))

Category(five) ==
  LET row == InARow(five)
      suit == OneSuit(five)
      two == Held(five, 2)
      three == Held(five, 3)
  IN  CASE row /\ suit              -> StraightFlush
        [] Held(five, 4) = 1        -> FourOfAKind
        [] three = 1 /\ two = 1     -> FullHouse
        [] suit /\ ~row             -> Flush
        [] row /\ ~suit             -> Straight
        [] three = 1 /\ two = 0     -> ThreeOfAKind
        [] two = 2                  -> TwoPair
        [] two = 1 /\ three = 0     -> OnePair
        [] OTHER                    -> HighCard

(* A rank counts the more the more often it is held; in a wheel the ace is one. *)
Worth(five, r) == 100 * CountOf(five, r) + (IF Wheel(five) /\ r = 14 THEN 1 ELSE r)

(* What five cards are worth: a category, and what its ranks count.            *)
Value(five) == <<Category(five), {Worth(five, RankOf(c)) : c \in five}>>

(* A better category, or the same and the first rank that differs, when both are *)
(* read from the one that counts most.                                       *)
Beats(f, g) ==
  \/ f[1] > g[1]
  \/ /\ f[1] = g[1]
     /\ f[2] # g[2]
     /\ Max(SymDiff(f[2], g[2])) \in f[2]

(* The hands of five cards a player may make.                                *)
FiveOf(game, hole, board) ==
  IF game = "plo"
  THEN {two \union three : two \in kSubset(2, hole), three \in kSubset(3, board)}
  ELSE kSubset(5, hole \union board)

(* The players with a hand that no hand beats.                               *)
RightfulWinners(game, holes, board) ==
  LET made == UNION {{<<i, Value(f)>> : f \in FiveOf(game, holes[i], board)} :
                       i \in DOMAIN holes}
  IN  {m[1] : m \in {x \in made : \A y \in made : ~Beats(y[2], x[2])}}
=============================================================================
