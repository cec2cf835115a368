--------------------------------- MODULE Combos ---------------------------------
(***************************************************************************)
(* Cards, masks and lists of weighted combos, as src/core/range.cpp and the *)
(* parsers next to it use them. A mask is a set of card ids; a range is a   *)
(* list, because samplers consume it in order. Weights are whole multiples  *)
(* of 1 / Full.                                                            *)
(***************************************************************************)
EXTENDS Integers, Sequences, FiniteSets, FiniteSetsExt

CONSTANTS
  LowRank,   (* the lowest rank of the deck, 2 in the code; an ace is 14    *)
  Full       (* the weight 1.0                                             *)

ASSUME CombosAssumption == LowRank \in 2 .. 14 /\ Full \in Nat \ {0}

Ranks == LowRank .. 14
Suits == 0 .. 3
NumCards == 4 * Cardinality(Ranks)
CardId(rank, suit) == suit * Cardinality(Ranks) + rank - LowRank
RankOf(c) == (c % Cardinality(Ranks)) + LowRank
SuitOf(c) == c \div Cardinality(Ranks)

CardsPerHand(game) == IF game = "plo" THEN 4 ELSE 2

Deck == 0 .. NumCards - 1

(* The k-card masks of a set, with the highest card in the outermost loop and the  *)
(* test in the innermost: ascending by the mask as a number.                   *)
InOrder(k, masks) ==
  LET from[x \in (0 .. NumCards) \X (0 .. k) \X SUBSET Deck] ==
        LET n == x[1]
            left == x[2]
            above == x[3]
        IN  IF left = 0 THEN IF above \in masks THEN <<above>> ELSE << >>
            ELSE IF n < left THEN << >>
            ELSE from[<<n - 1, left, above>>] \o from[<<n - 1, left - 1, above \union {n - 1}>>]
  IN  from[<<NumCards, k, {}>>]

PloMasks == InOrder(4, SUBSET Deck)

(* A set of masks, sorted ascending.                                         *)
Ascending(masks, game) == InOrder(CardsPerHand(game), masks)

(* a.mask < b.mask: the highest card they differ in is b's.                   *)
MaskLess(a, b) == a # b /\ Max(SymDiff(a, b)) \in b

ComboLists == Seq([mask : SUBSET Deck, weight : Int])

Combo(mask, weight) == [mask |-> mask, weight |-> weight]
AtWeight(masks, weight) == [i \in DOMAIN masks |-> Combo(masks[i], weight)]

MaskSet(combos) == {combos[i].mask : i \in DOMAIN combos}
NoRepeats(combos) == Cardinality(MaskSet(combos)) = Len(combos)

(* Weights a notation may give: in (0, 1]. One that cannot be read stands as 0.  *)
LegalWeight(w) == w \in 1 .. Full

(* What a parser returns: a list, or nothing for malformed text.                *)
Malformed == [ok |-> FALSE, combos |-> << >>]
Parsed(combos) == [ok |-> TRUE, combos |-> combos]

(* Every hand of two and of four cards, with no order. Not code.                *)
TwoCards == {{a, b} : a \in 0 .. NumCards - 1, b \in 0 .. NumCards - 1} \ {{a} : a \in 0 .. NumCards - 1}
FourCards == {h \in {a \union b : a \in TwoCards, b \in TwoCards} : Cardinality(h) = 4}
HandsOf(game) == IF game = "plo" THEN FourCards ELSE TwoCards

(* The set a list stands for.                                                *)
Meaning(combos) == {<<combos[i].mask, combos[i].weight>> : i \in DOMAIN combos}
=============================================================================
