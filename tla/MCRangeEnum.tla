------------------------------ MODULE MCRangeEnum ------------------------------
(* A deck of five cards, hands of two, boards of one card. Hero ranges of     *)
(* one, four and five usable combos with MaxRowChunks = 3 (a last chunk that  *)
(* is short, and one that is empty), the widest listing a mask three times,   *)
(* first without weight, and a hand of the wrong size; boards enumerated,     *)
(* sampled with repetition and fixed; serial, explicit and automatic widths.  *)
EXTENDS RangeEnum

MCCards == 0 .. 4

(* Equal scores happen, and the board matters. *)
MCScore(h, b) == 1 + ((SumSet(h \union b) + Cardinality(h \ {4})) % 4)

C(a, b, w) == [mask |-> {a, b}, weight |-> w]

HeroNarrow == <<C(0, 1, 2)>>
HeroFour   == <<C(0, 1, 1), C(0, 2, 1), C(1, 3, 2), C(2, 3, 1)>>
HeroWide   == <<C(0, 1, 0), C(1, 2, 1), C(0, 1, 2), [mask |-> {3}, weight |-> 1],
                C(2, 4, 1), C(0, 1, 1), C(3, 4, 2), C(0, 3, 1)>>
HeroNone   == <<C(0, 1, -1)>>

VillainTwo   == <<C(2, 3, 1), C(1, 4, 2)>>
VillainThree == <<C(0, 1, 1), C(3, 4, 1), C(3, 4, 2), C(0, 2, 1)>>

MCCalls ==
  LET Call(h, v, b, i, m, t, w) ==
        [hero |-> h, villain |-> v, board |-> b, iterations |-> i, mode |-> m,
         threads |-> t, hw |-> w, sameGame |-> TRUE]
  IN  {Call(h, v, {}, 0, m, t, 0) : h \in {HeroNarrow, HeroFour, HeroWide},
          v \in {VillainTwo, VillainThree}, m \in {"PerCombo"}, t \in {-1, 2, 3}}
      \union
      {Call(h, VillainThree, b, i, m, 0, w) : h \in {HeroFour, HeroNone},
          b \in {{}, {4}}, i \in {-1, 0, 2}, m \in Modes, w \in {0, 2}}
      \union
      {Call(HeroNarrow, VillainTwo, {}, i, "PerCombo", 8, 0) : i \in {2, 5}}
      \union
      {Call(HeroNarrow, VillainTwo, {2, 3}, 0, "PerCombo", 0, 0)}
      \union
      {[Call(HeroNone, VillainTwo, {}, 0, "PerCombo", 0, 0) EXCEPT !.sameGame = FALSE]}
=============================================================================
