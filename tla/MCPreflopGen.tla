----------------------------- MODULE MCPreflopGen -----------------------------
(* Two suits of three ranks, boards of one card: six boards, ten holdings on    *)
(* each, and four boards in a recount, so five workers leave some without any;  *)
(* batches of two, so a worker ends with a full or with a partial batch.        *)
(* A pair of hands of one label and a hand of another are recounted. The score  *)
(* does not see which suit is which, and ties happen.                           *)
EXTENDS PreflopGen

MCScore(cards) ==
  LET ranks == {c % RankCount : c \in cards}
  IN  (IF Cardinality(ranks) < Cardinality(cards) THEN 10 * Min(ranks) ELSE 0)
      + MapThenSumSet(LAMBDA c : c % RankCount, cards)
      + (IF Cardinality({c \div RankCount : c \in cards}) = 1 THEN 1 ELSE 0)

MCVerifyHands == <<{0, 3}, {1, 2}>>
=============================================================================
