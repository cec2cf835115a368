----------------------------- MODULE MCEquityHands -----------------------------
(* Six ranks of four suits, less three cards. Exact runs before the turn and the river, for two and *)
(* three players and for both games; sampled runs of one and two chunks; showdowns *)
(* of three players on every board out of eleven cards, and on short boards; and   *)
(* calls that are rejected, one for each reason. Three and five seats stand for the *)
(* ten of Hold'em and the thirty-two of PLO: five hands of PLO leave one card of the  *)
(* deck, as twelve leave four of the pack. The bits past the end of a deck are a      *)
(* card of a player, the card that is left, one that is in no hand and a bit that is   *)
(* no card.                                                                        *)
EXTENDS EquityHands

Card(rank, suit) == suit * 13 + rank - 2

MCDeck ==
  {Card(r, s) : r \in {2, 3, 4, 5, 6, 14}, s \in Suits} \ {Card(2, 3), Card(3, 3), Card(3, 1)}

Call(op, game, holes, board, iterations) ==
  [op |-> op, game |-> game, holes |-> holes, players |-> Len(holes), board |-> board,
   iterations |-> iterations, options |-> TRUE, wants |-> TRUE, capacity |-> Len(holes)]

Aces     == {Card(14, 0), Card(14, 1)}
Sixes    == {Card(6, 2), Card(6, 3)}
Fives    == {Card(5, 0), Card(5, 1)}
AceFour  == {Card(14, 2), Card(4, 2)}
SixFour  == {Card(6, 0), Card(4, 0)}
Holdem   == <<Aces, Sixes, AceFour>>
Omaha    == <<Aces \union Sixes, AceFour \union Fives>>
Flop     == {Card(2, 2), Card(3, 2), Card(5, 3)}
PairFlop == {Card(2, 0), Card(2, 1), Card(3, 0)}
Turn     == Flop \union {Card(6, 1)}
River    == Turn \union {Card(2, 0)}

Exact ==
  { Call("equity", "holdem", <<Aces, Sixes>>, Flop, 0),
    Call("equity", "holdem", <<AceFour, SixFour>>, PairFlop, 0),
    Call("equity", "holdem", <<Fives, SixFour>>, Turn, 999),
    Call("equity", "holdem", <<Fives>>, Turn, 0),
    Call("equity", "holdem", Holdem, PairFlop, 0),
    Call("equity", "holdem", Holdem, River, 7),
    Call("equity", "plo", Omaha, Turn, 0),
    Call("equity", "plo", Omaha, PairFlop, 0) }

Sampled ==
  { Call("equity", "holdem", <<Fives, SixFour>>, Turn, 3),
    Call("equity", "holdem", Holdem, Turn, 3),
    Call("equity", "plo", <<Omaha[1], Omaha[2], {Card(2, 0), Card(4, 1), Card(4, 3), Card(5, 2)}>>, Turn, 3) }

Pack == Turn \union {Card(2, 0), Card(3, 0), Card(5, 2), Card(6, 2), Card(14, 3), Card(4, 3), Card(4, 1)}

Showdowns ==
  {Call("judge", "holdem", <<{Card(14, 2), Card(4, 2)}, {Card(6, 3), Card(14, 0)}, {Card(5, 0), Card(2, 1)}>>, b, 0) :
     b \in kSubset(5, Pack)}
  \union {Call("judge", "plo", Omaha, b, 0) : b \in kSubset(4, Pack \ UNION Range(Omaha))}
  \union {Call("judge", "holdem", Holdem, b, 0) : b \in {Flop, Turn}}

Bad ==
  {Call(op, "holdem", holes, board, iterations) :
     op \in {"equity", "judge"},
     holes \in {<<>>, <<Aces, Sixes>>, <<Aces, Aces>>, <<Aces, {1}>>, <<Aces, Sixes, AceFour, Fives>>},
     board \in {{Card(2, 2)}, Turn \union {Card(14, 0)}, River \union {Card(4, 3)}},
     iterations \in {-1, 1}}

Changed ==
  LET c == Call("equity", "holdem", <<Fives, SixFour>>, Turn, 0)
  IN  { [c EXCEPT !.options = FALSE], [c EXCEPT !.players = -1], [c EXCEPT !.holes = <<>>],
        [c EXCEPT !.game = "unknown"], [c EXCEPT !.capacity = 1], [c EXCEPT !.capacity = 3],
        [c EXCEPT !.capacity = 0, !.wants = FALSE] }

(* The deck dealt to its end, four cards to a hand and no board.               *)
DealtOut(players, iterations) ==
  LET place(c) == Cardinality({x \in MCDeck : x < c}) \div 4 + 1
  IN  Call("equity", "plo", [i \in 1 .. players |-> {c \in MCDeck : place(c) = i}], {}, iterations)

Short == {DealtOut(5, n) : n \in {0, 3}}

MCLeftover == {Card(2, 0), Max(MCDeck), Card(2, 3), 63}

MCCalls == Exact \union Sampled \union Showdowns \union Bad \union Changed \union Short
=============================================================================
