---------------------------------- MODULE Canon ----------------------------------
(***************************************************************************)
(* Suit canonicalization (src/core/canonicalize.cpp). A mask is the set of *)
(* its card ids, and a card id is suit * RankCount + rank, as in card.h    *)
(* (13 ranks and 4 suits there, parameters here). Every routine relabels   *)
(* the suits by sorting one key per suit; they differ in the key.          *)
(***************************************************************************)
EXTENDS Integers, FiniteSets, FiniteSetsExt

CONSTANTS RankCount, SuitCount

ASSUME CanonAssumption == RankCount \in Nat \ {0} /\ SuitCount \in Nat \ {0}

Ranks == 0 .. RankCount - 1
Suits == 0 .. SuitCount - 1
Deck  == 0 .. RankCount * SuitCount - 1

SuitOf(id) == id \div RankCount
RankOf(id) == id % RankCount

(* The rank pattern of one suit, as the number its bits spell.              *)
RankSet(mask, s) == {RankOf(id) : id \in {c \in mask : SuitOf(c) = s}}
Pattern(mask, s) == SumSet({2 ^ r : r \in RankSet(mask, s)})

(* suit_map after a stable insertion sort by descending key: a suit lands    *)
(* behind every suit with a larger key and behind equal ones before it.      *)
SuitMap(key) ==
  [s \in Suits |->
     Cardinality({t \in Suits : key[t] > key[s] \/ (key[t] = key[s] /\ t < s)})]

Relabel(mask, map) == {map[SuitOf(id)] * RankCount + RankOf(id) : id \in mask}

RelabelBoth(hero, board, map) == <<Relabel(hero, map), Relabel(board, map)>>

-----------------------------------------------------------------------------
(* canonicalize_hero_and_board: suits by top board rank, then, for suits    *)
(* the board lacks, by top hero rank, then by suit index.                   *)
TopRank(mask, s) == IF RankSet(mask, s) = {} THEN -1 ELSE Max(RankSet(mask, s))

CanonicalizeHeroAndBoard(hero, board) ==
  RelabelBoth(hero, board, SuitMap([s \in Suits |->
    IF RankSet(board, s) # {} THEN RankCount + TopRank(board, s) ELSE TopRank(hero, s)]))

(* canonicalize_hero_and_board_strict: suits by (board pattern, hero        *)
(* pattern) descending; equal pairs keep their order.                        *)
CanonicalizeHeroAndBoardStrict(hero, board) ==
  RelabelBoth(hero, board, SuitMap([s \in Suits |->
    Pattern(board, s) * (2 ^ RankCount) + Pattern(hero, s)]))

(* canonicalize_board: suits by board pattern descending. *)
CanonicalizeBoard(board) ==
  Relabel(board, SuitMap([s \in Suits |-> Pattern(board, s)]))

-----------------------------------------------------------------------------
(* Reference notions, for properties. *)
SuitPermutations == {p \in [Suits -> Suits] : \A s, t \in Suits : p[s] = p[t] => s = t}

Orbit(hero, board) == {RelabelBoth(hero, board, p) : p \in SuitPermutations}
=============================================================================
