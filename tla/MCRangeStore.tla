----------------------------- MODULE MCRangeStore -----------------------------
(* Five ranks of four suits, T to A: 190 combos of two cards, 4,845 of four. A      *)
(* session of three calls: a first range from any source, a second from the        *)
(* partners, a set operation on them, reads and destroys in between.              *)
EXTENDS RangeStore

T == 10
J == 11
Q == 12
K == 13
A == 14

Base == [op |-> "empty", game |-> "holdem", text |-> << >>, combos |-> << >>, percent |-> 0, missing |-> FALSE]

(* Hold'em texts. *)
H(a, b, type) == [first |-> a, second |-> b, type |-> type, plus |-> FALSE]
P(h) == [h EXCEPT !.plus = TRUE]
Tok(hands, w) == [cards |-> << >>, hands |-> hands, weight |-> w]
Exact(c, d, w) == [cards |-> <<c, d>>, hands |-> << >>, weight |-> w]
Hand(a, b, type) == Tok(<<H(a, b, type)>>, Full)
Plus(a, b, type) == Tok(<<P(H(a, b, type))>>, Full)
Span(h, g) == Tok(<<h, g>>, Full)

HoldemTexts ==
  { << >>, <<Blank, Hand(A, A, "")>>,
    <<Hand(K, A, "")>>, <<Hand(T, T, "x"), Hand(A, K, "s")>>, <<Hand(A, K, "x")>>,
    <<Hand(1, K, "s")>>, <<Hand(A, K, ""), Exact(CardId(A, 0), CardId(K, 0), Full)>>,
    <<Tok(<<H(A, K, "s")>>, 2), Tok(<<H(A, K, "o")>>, 1), Exact(CardId(T, 0), CardId(A, 3), 3)>>,
    <<Exact(CardId(A, 0), CardId(A, 0), Full)>>, <<Tok(<<H(A, A, "")>>, 0)>>, <<Tok(<<H(A, A, "")>>, Full + 1)>>,
    <<Plus(J, J, ""), Plus(A, T, "s")>>, <<Plus(J, T, "o")>>, <<Plus(K, T, "s")>>, <<Plus(A, K, "")>>,
    <<Plus(K, Q, "")>>, <<Span(H(T, T, ""), H(Q, Q, "")), Span(H(A, J, "o"), H(A, T, "o"))>>,
    <<Span(H(J, T, "s"), H(A, K, "s"))>>, <<Span(H(A, K, "s"), H(Q, T, "s"))>>,
    <<Span(H(A, A, ""), H(A, K, "s"))>>, <<Span(H(A, K, "s"), H(A, T, "o"))>>,
    <<Span(P(H(A, A, "")), H(K, K, ""))>>, <<Span(H(A, K, ""), H(A, T, ""))>> }

(* PLO texts. *)
R(ranks, suit) == [ranks |-> ranks, suit |-> suit]
Item(patterns, mark, w) == [cards |-> << >>, patterns |-> patterns, mark |-> mark, weight |-> w]
Four(a, b, c, d) == [cards |-> <<a, b, c, d>>, patterns |-> << >>, mark |-> "", weight |-> Full]
Plain(ranks, suit, w) == Item(<<R(ranks, suit)>>, "", w)

PloTexts ==
  { << >>, <<EmptyItem>>,
    <<Plain(<<0, A, 0, A>>, "ss", Full), Plain(<<A, A, A, 0>>, "ss", Full)>>,
    <<Plain(<<A, A, 0, 0>>, "r", 1), Plain(<<A, A, K, 0>>, "r", 2)>>,
    <<Plain(<<A, A, K, K>>, "ds", 2), Four(CardId(A, 0), CardId(K, 0), CardId(Q, 0), CardId(T, 2))>>,
    <<Plain(<<A, A, A, 0>>, "ds", Full)>>, <<Four(1, 2, 3, 1)>>,
    <<Plain(<<A, A, K>>, "any", Full)>>, <<Plain(<<A, A, K, 1>>, "any", Full)>>,
    <<Item(<<R(<<J, T, Q, K>>, "r")>>, "+", 3)>>, <<Item(<<R(<<Q, 0, Q, 0>>, "ds")>>, "-", Full)>>,
    <<Item(<<R(<<A, K, 0, 0>>, "any")>>, "+", Full)>>, <<Item(<<R(<<A, A, 0, 0>>, "any")>>, "+", Full)>>,
    <<Item(<<R(<<A, A, 0, 0>>, "r"), R(<<Q, 0, 0, Q>>, "r")>>, "", Full)>>,
    <<Item(<<R(<<Q, Q, 0, 0>>, "r"), R(<<A, A, 0, 0>>, "r")>>, "", Full)>>,
    <<Item(<<R(<<A, A, 0, 0>>, "r"), R(<<Q, Q, 0, 0>>, "ss")>>, "", Full)>>,
    <<Item(<<R(<<A, A, 0, 0>>, "r"), R(<<K, Q, J, T>>, "r")>>, "", Full)>> }

FromText(op, game, text) == [Base EXCEPT !.op = op, !.game = game, !.text = text]
FromCombos(game, combos) == [Base EXCEPT !.op = "combos", !.game = game, !.combos = combos]

Pocket(w) == Combo({CardId(A, 0), CardId(A, 1)}, w)
Big(w) == Combo({CardId(K, 2), CardId(A, 2)}, w)
Small(w) == Combo({CardId(J, 0), CardId(T, 0)}, w)
Loose == FromCombos("holdem", <<Pocket(3), Small(-1), Big(0)>>)
Tagged == FromCombos("other", <<Big(1), Pocket(1)>>)
Twice == FromCombos("holdem", <<Pocket(1), Small(1), Pocket(1)>>)
AceKing == FromText("string", "holdem", <<Tok(<<H(A, K, "s")>>, 2)>>)
TopTen == [Base EXCEPT !.op = "top", !.percent = 20]
Rainbow == FromText("string", "plo", <<Plain(<<A, A, 0, 0>>, "r", 1)>>)

MCPartners == {Base, Loose, Tagged, Twice, AceKing, TopTen, Rainbow}

MCSources ==
  MCPartners
  \union {FromText("string", "holdem", t) : t \in HoldemTexts}
  \union {FromText("try", "holdem", t) : t \in {<<Plus(J, J, "")>>, <<Hand(A, K, "x")>>}}
  \union {FromText("string", "plo", t) : t \in PloTexts}
  \union {[Base EXCEPT !.op = "all", !.game = g] : g \in {"holdem", "plo", "other"}}
  \union {[Base EXCEPT !.op = "top", !.percent = p] : p \in {0, 1, 4, 100}}
  \union {[TopTen EXCEPT !.game = "plo"],
          [AceKing EXCEPT !.missing = TRUE], [AceKing EXCEPT !.op = "try", !.missing = TRUE],
          FromCombos("plo", <<Pocket(1)>>)}

MCRankTable ==
  << Class(A, A, ""), Class(K, K, ""), Class(Q, Q, ""), Class(J, J, ""), Class(A, K, "s"), Class(T, T, ""),
     Class(A, Q, "s"), Class(A, K, "o"), Class(A, J, "s"), Class(K, Q, "s"), Class(A, T, "s"), Class(A, Q, "o"),
     Class(K, J, "s"), Class(A, J, "o"), Class(K, T, "s"), Class(K, Q, "o"), Class(Q, J, "s"), Class(A, T, "o"),
     Class(Q, T, "s"), Class(K, J, "o"), Class(J, T, "s"), Class(K, T, "o"), Class(Q, J, "o"), Class(Q, T, "o"),
     Class(J, T, "o") >>

MCDeadMasks == {{}, {CardId(A, 0), CardId(K, 2)}}
=============================================================================
