----------------------------- MODULE MCPairSampler -----------------------------
(* Two workers share two chunks of two trials, so that a worker runs both or    *)
(* one, with a board of two cards. The calls are: two combos against two, where *)
(* one pair of the four collides; two combos against one that blocks one of     *)
(* them, with more live cards than the board takes; a fixed hand against         *)
(* another, neither in the deck, which is sample_boards; and ranges of one to     *)
(* four combos that all share a card with the villain's, for every choice of      *)
(* four weights: tables with several large entries, large entries that turn      *)
(* small, and leftovers on either stack.                                       *)
EXTENDS PairSampler

CONSTANTS w1, w2

MCChunkSizes == <<2, 2>>

Side(combos, weights) == [combos |-> combos, weights |-> weights]

Blocked(weights) ==
  [cards |-> 8, hero |-> Side([k \in DOMAIN weights |-> {0, k}], weights),
   villain |-> Side(<<{0, 5}, {0, 6}>>, <<2, 1>>)]

MCCalls ==
  { [cards |-> 4, hero |-> Side(<<{0}, {1}>>, <<1, 3>>), villain |-> Side(<<{1}, {2}>>, <<2, 2>>)],
    [cards |-> 5, hero |-> Side(<<{0}, {1}>>, <<2, 1>>), villain |-> Side(<<{1}>>, <<1>>)],
    [cards |-> 3, hero |-> Side(<<{8}>>, <<1>>),         villain |-> Side(<<{9}>>, <<1>>)] }
  \union {Blocked(ws) : ws \in UNION {[1 .. n -> {1, 2, 3, 5}] : n \in 1 .. 4}}
=============================================================================
