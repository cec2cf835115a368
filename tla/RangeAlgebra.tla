------------------------------- MODULE RangeAlgebra -------------------------------
(***************************************************************************)
(* The set operations of src/core/range_setops.cpp and the selection of      *)
(* starting hands of src/core/preflop_rank.cpp, on lists of weighted combos.  *)
(***************************************************************************)
EXTENDS HoldemNotation

CONSTANTS
  RankTable   (* the table's labels, strongest first: classes of hands        *)

ASSUME TableAssumption == RankTable \in Seq(Classes)

-----------------------------------------------------------------------------
(* The merges.                                                               *)

Larger(x, y) == IF x > y THEN x ELSE y
Smaller(x, y) == IF x < y THEN x ELSE y

(* Which combos of one list only stay, and what a combo of both weighs.          *)
KeepsLeft(op) == op # "intersection"
KeepsRight(op) == op = "union"

Weigh(op, x, y) ==
  CASE op = "union"        -> Larger(x, y)
    [] op = "intersection" -> Smaller(x, y)
    [] OTHER               -> Larger(0, x - y)

(* A combo whose weight is not positive is dropped.                           *)
Kept(c, keep) == IF keep /\ c.weight > 0 THEN <<c>> ELSE << >>

(* merge_union, merge_intersection, merge_difference: two sorted lists with two     *)
(* indices. When a list ends, what is left of the other goes the way of its own.   *)
Merge(op, a, b) ==
  LET from[x \in (1 .. Len(a) + 1) \X (1 .. Len(b) + 1)] ==
        LET i == x[1]
            j == x[2]
        IN  IF i > Len(a) /\ j > Len(b) THEN << >>
            ELSE IF j > Len(b) \/ (i <= Len(a) /\ MaskLess(a[i].mask, b[j].mask))
                 THEN Kept(a[i], KeepsLeft(op)) \o from[<<i + 1, j>>]
            ELSE IF i > Len(a) \/ MaskLess(b[j].mask, a[i].mask)
                 THEN Kept(b[j], KeepsRight(op)) \o from[<<i, j + 1>>]
            ELSE Kept(Combo(a[i].mask, Weigh(op, a[i].weight, b[j].weight)), TRUE) \o from[<<i + 1, j + 1>>]
  IN  from[<<1, 1>>]

(* sort_and_check_duplicates, for a list without duplicates: every combo goes       *)
(* before the d last ones of the list so far, up to the first with a lower mask.     *)
Insert(s, c) ==
  LET d == CHOOSE n \in 0 .. Len(s) :
             /\ n = Len(s) \/ MaskLess(s[Len(s) - n].mask, c.mask)
             /\ n = 0 \/ ~MaskLess(s[Len(s) - n + 1].mask, c.mask)
  IN  SubSeq(s, 1, Len(s) - d) \o <<c>> \o SubSeq(s, Len(s) - d + 1, Len(s))

SortedCombos(combos) ==
  LET sorted[n \in 0 .. Len(combos)] == IF n = 0 THEN << >> ELSE Insert(sorted[n - 1], combos[n])
  IN  sorted[Len(combos)]

(* range_union, range_intersection, range_difference on lists of one game.        *)
SetOperation(op, a, b) ==
  IF ~NoRepeats(a) \/ ~NoRepeats(b) THEN Malformed
  ELSE Parsed(Merge(op, SortedCombos(a), SortedCombos(b)))

-----------------------------------------------------------------------------
(* Top-percent selection. A percentage is parts of Percent; the rounding of the     *)
(* product of two doubles is left out.                                       *)

Percent == 100
LegalPercent(p) == p \in 1 .. Percent
Keep(p) == (Len(RankTable) * p) \div Percent

(* rank_starting_hands.                                                      *)
RankedHands(p) == SubSeq(RankTable, 1, Keep(p))

(* Variant: the labels' combos as they come.                                  *)
TopCombosByStrength(p) ==
  LET labels == RankedHands(p)
      list[n \in 0 .. Len(labels)] ==
        IF n = 0 THEN << >>
        ELSE list[n - 1] \o Ascending(ClassMasks(labels[n]), "holdem")
  IN  AtWeight(list[Len(labels)], Full)

(* generate_top_percent_range: the combos of every label kept, sorted.           *)
TopCombos(p) ==
  LET labels == RankedHands(p)
  IN  AtWeight(Ascending(UNION {ClassMasks(labels[n]) : n \in DOMAIN labels}, "holdem"), Full)

-----------------------------------------------------------------------------
(* The operations as they are defined, on sets of pairs of a combo and a weight: a   *)
(* combo that is not there weighs nothing, and a difference has no other combos than  *)
(* its first operand. Not code.                                                *)

WeightIn(set, m) == LET there == {p \in set : p[1] = m} IN IF there = {} THEN 0 ELSE (CHOOSE p \in there : TRUE)[2]

OperationMeans(op, a, b) ==
  LET masks == {p[1] : p \in IF op = "difference" THEN a ELSE a \union b}
      weight(m) == LET x == WeightIn(a, m)
                       y == WeightIn(b, m)
                   IN  CASE op = "union"        -> Max({x, y})
                         [] op = "intersection" -> Min({x, y})
                         [] OTHER               -> Max({0, x - y})
      all == {<<m, weight(m)>> : m \in masks}
  IN  {p \in all : p[2] > 0}

(* The strongest hands, whole classes at a time.                              *)
TopMeans(p) ==
  {<<m, Full>> : m \in {x \in TwoCards :
     \E n \in 1 .. Len(RankTable) : /\ n * Percent <= Len(RankTable) * p
                                    /\ LET s == Shape(x)
                                       IN  /\ s.hi = RankTable[n].hi /\ s.lo = RankTable[n].lo
                                           /\ RankTable[n].type \in {"", s.type}}}
=============================================================================
