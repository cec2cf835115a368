----------------------------- MODULE MCHandHistory -----------------------------
(* A small instance of HandHistory: cards are small numbers.                        *)
EXTENDS HandHistory

CONSTANTS author, someone

Ac == 1
Ad == 2
Jc == 3
Td == 4
Fc == 5
Qh == 6

P(n, verb) == <<Player(n), Word(verb)>>
DealHole(n, cards) == <<Word("d"), Word("dh"), Player(n), CardsToken(cards)>>
DealBoard(cards) == <<Word("d"), Word("db"), CardsToken(cards)>>
Note == <<Word("#"), Word("a"), Word("#"), Word("b")>>

TableOf(variant, actions) ==
  [variant |-> variant, absent |-> {}, forbidden |-> FALSE, typed |-> TRUE, seats |-> 2,
   players |-> << >>, extra |-> {}, actions |-> actions]

(* A hand that is dealt, bet, shown and noted, with one player's cards unknown.            *)
Played == TableOf("NT",
  <<DealHole(1, <<Ac, Ad>>), DealHole(2, <<Unknown, Unknown>>),
    P(1, "cbr") \o <<Amount(5)>> \o Note, P(2, "cc"), DealBoard(<<Jc, Unknown, Td>>),
    P(2, "sm") \o <<Word("-")>>, Note, << >>>>)

Omaha == [TableOf("PO", <<DealBoard(<<Jc, Td, Fc>>), DealBoard(<<Unknown>>), P(1, "pb"), P(1, "sd"),
                          P(2, "sd") \o <<CardsToken(<<Jc, Unknown>>)>>, P(2, "sm")>>)
            EXCEPT !.players = <<someone, someone>>, !.extra = {author}]

(* Two short hands, for a list.                                                       *)
Bet == TableOf("NT", <<DealHole(1, <<Ac, Ad>>), P(1, "cbr") \o <<Amount(5)>> \o Note>>)
Limp == TableOf("PO", <<P(1, "cc") \o <<Word("#")>>>>)

WithAction(text) == TableOf("NT", <<P(1, "f"), text>>)

(* Tables with one thing wrong.                                                        *)
Bad ==
  {[Played EXCEPT !.absent = {"variant"}], [Played EXCEPT !.absent = {"antes"}],
   [Played EXCEPT !.variant = "FT"], [Played EXCEPT !.forbidden = TRUE], [Played EXCEPT !.typed = FALSE],
   WithAction(P(3, "cc")), WithAction(P(1, "xx")), WithAction(P(1, "cbr")), WithAction(P(1, "cc") \o <<Word("glued")>>),
   WithAction(<<Word("d"), Word("dh"), CardsToken(<<Ac>>)>>), WithAction(<<Player(1)>>)}

Single(table) == [single |-> TRUE, tables |-> <<[key |-> 0, table |-> table]>>]
Listed(tables) == [single |-> FALSE, tables |-> [i \in DOMAIN tables |-> [key |-> 7 - i, table |-> tables[i]]]]

MCDocuments ==
  {Single(Played), Single(Omaha), Listed(<<Bet, Limp>>), Listed(<< >>)}
    \union {Single(table) : table \in Bad} \union {Listed(<<Limp, table>>) : table \in Bad}

MCFreshActions ==
  {[NoAction EXCEPT !.verb = "dh", !.player = 1, !.cards = <<Qh>>, !.has_cards = TRUE],
   [NoAction EXCEPT !.verb = "dh", !.player = 2, !.cards = <<Qh, Fc>>, !.has_cards = TRUE],
   [NoAction EXCEPT !.verb = "db", !.unknown_count = 1, !.cards = <<Qh>>, !.has_cards = TRUE],
   [NoAction EXCEPT !.verb = "sm", !.player = 2, !.has_cards = TRUE, !.unknown_count = 2],
   [NoAction EXCEPT !.verb = "f", !.player = 2, !.commentary = <<Word("a"), Word("#")>>],
   [NoAction EXCEPT !.verb = "cc", !.player = 2, !.commentary = <<Word("glued")>>],
   [NoAction EXCEPT !.verb = "xx", !.player = 1]}
=============================================================================
