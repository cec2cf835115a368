------------------------------ MODULE HandHistory ------------------------------
(***************************************************************************)
(* Poker hand histories (python/xiapl/phh.py): the reader, the dataclasses   *)
(* its callers read and change, and the writer.                             *)
(*                                                                         *)
(* A document is one table, or a list of tables with their keys; a table has  *)
(* its action strings as sequences of the tokens that whitespace separates.   *)
(* A token is a word, a player, an amount, or cards glued together, where     *)
(* Unknown is a card with a question mark; the word "glued" is one with a     *)
(* comment marker glued to it. TOML itself is left out, and amounts below      *)
(* 1/10000, which are written with an exponent.                             *)
(***************************************************************************)
EXTENDS Integers, Sequences, FiniteSets, FiniteSetsExt, SequencesExt, Functions

CONSTANTS
  Documents,     (* documents on the disk at first                            *)
  FreshActions,  (* actions a caller builds, with no text                     *)
  Amounts,       (* amounts a caller writes to an action                       *)
  MaxHands,      (* hands of a list that is written: a bound                   *)
  MaxEdits,      (* changes a caller makes in all: a bound                     *)
  MaxReads       (* readings in all: a bound                                  *)

ASSUME HistoryAssumption == MaxHands \in Nat /\ MaxEdits \in Nat /\ MaxReads \in Nat

VARIABLES
  doc,       (* what is on the disk                                        *)
  hands,     (* the hands the caller has                                    *)
  answer,    (* what the last call returned                                 *)
  as_read,   (* history: what each action's text stands for, where it has one   *)
  expected,  (* history: what the document that was written should hold, and the  *)
             (* empty list for one the writer did not write                    *)
  edits,     (* history: the changes made                                    *)
  reads      (* history: the readings                                        *)

vars == <<doc, hands, answer, as_read, expected, edits, reads>>

-----------------------------------------------------------------------------
(* Tokens, and the actions they stand for.                                     *)

Unknown == -1
Word(w) == [word |-> w, num |-> 0, cards |-> << >>]
Player(n) == [Word("p") EXCEPT !.num = n]
Amount(x) == [Word("amount") EXCEPT !.num = x]
CardsToken(cards) == [Word("cards") EXCEPT !.cards = cards]

(* PhhAction's defaults: a no-op.                                             *)
NoAction ==
  [verb |-> "", player |-> 0, amount |-> 0, cards |-> << >>, unknown_count |-> 0,
   has_cards |-> FALSE, same_as_dealt |-> FALSE, commentary |-> << >>, text |-> << >>]

Refused == [ok |-> FALSE, action |-> NoAction]
Accepted(a) == [ok |-> TRUE, action |-> a]

(* _parse_card_token.                                                         *)
WithCards(a, token) ==
  LET known == SelectSeq(token.cards, LAMBDA c : c # Unknown)
  IN  Accepted([a EXCEPT !.cards = known, !.unknown_count = Len(token.cards) - Len(known),
                         !.has_cards = TRUE])

Seated(token, seats) == token.word = "p" /\ token.num \in 1 .. seats
IsCards(token) == token.word = "cards"

(* _parse_deal.                                                              *)
Deal(t, seats) ==
  IF Len(t) = 3 /\ t[2].word = "db" /\ IsCards(t[3])
  THEN WithCards([NoAction EXCEPT !.verb = "db"], t[3])
  ELSE IF Len(t) = 4 /\ t[2].word = "dh" /\ Seated(t[3], seats) /\ IsCards(t[4])
  THEN WithCards([NoAction EXCEPT !.verb = "dh", !.player = t[3].num], t[4])
  ELSE Refused

(* _dispatch_grammar, _parse_sd and _parse_sm.                                  *)
Dispatch(t, seats) ==
  IF t[1].word = "d" THEN Deal(t, seats)
  ELSE IF ~Seated(t[1], seats) \/ Len(t) < 2 THEN Refused
  ELSE LET verb == t[2].word
           a == [NoAction EXCEPT !.verb = verb, !.player = t[1].num]
       IN  CASE Len(t) = 2 /\ verb \in {"pb", "cc", "f", "sd", "sm"} -> Accepted(a)
             [] Len(t) = 3 /\ verb = "cbr" /\ t[3].word = "amount" ->
                  Accepted([a EXCEPT !.amount = t[3].num])
             [] Len(t) = 3 /\ verb \in {"sd", "sm"} /\ IsCards(t[3]) -> WithCards(a, t[3])
             [] Len(t) = 3 /\ verb = "sm" /\ t[3].word = "-" ->
                  Accepted([a EXCEPT !.same_as_dealt = TRUE])
             [] OTHER -> Refused

Marks(text) == {i \in DOMAIN text : text[i].word = "#"}

(* Where the commentary begins: at the first marker that stands alone.            *)
CommentaryAt(text) == IF Marks(text) = {} THEN Len(text) + 1 ELSE Min(Marks(text))

(* _parse_action_body. The text is kept as it was written.                      *)
ParseAction(text, seats) ==
  LET hash == CommentaryAt(text)
      grammar == SubSeq(text, 1, hash - 1)
      parsed == IF grammar = << >> THEN Accepted(NoAction) ELSE Dispatch(grammar, seats)
  IN  IF \E i \in DOMAIN text : text[i].word = "glued" THEN Refused
      ELSE [parsed EXCEPT !.action.text = text,
                          !.action.commentary = SubSeq(text, hash + 1, Len(text))]

-----------------------------------------------------------------------------
(* Hands.                                                                   *)

Variants == {"NT", "PO"}
GameOf(variant) == IF variant = "PO" THEN "plo" ELSE "holdem"

(* The error a hand is refused with, by the reader's first check that fails.      *)
HandError(table) ==
  IF "variant" \in table.absent THEN "value"
  ELSE IF table.variant \notin Variants THEN "unsupported"
  ELSE IF \/ table.absent # {} \/ table.forbidden \/ ~table.typed
          \/ \E i \in DOMAIN table.actions : ~ParseAction(table.actions[i], table.seats).ok
  THEN "value"
  ELSE "none"

(* _parse_hand_data. What is not the reader's own goes to extra.                  *)
Hand(table) ==
  [variant |-> table.variant, game |-> GameOf(table.variant), seats |-> table.seats,
   players |-> table.players, extra |-> table.extra, key |-> 0,
   actions |-> [i \in DOMAIN table.actions |-> ParseAction(table.actions[i], table.seats).action]]

Fields(a) == [a EXCEPT !.text = << >>]
FieldsOf(hand) == [i \in DOMAIN hand.actions |-> Fields(hand.actions[i])]

NoText(hand) == [hand EXCEPT !.actions = FieldsOf(hand), !.key = 0]

Answered(op, error) == [op |-> op, error |-> error]

(* A call that returns hands. One that raises returns none of them.                *)
Returns(op, error, list) ==
  /\ answer' = Answered(op, error)
  /\ hands' = IF error = "none" THEN list ELSE << >>
  /\ as_read' = [h \in DOMAIN hands' |-> FieldsOf(hands'[h])]
  /\ reads < MaxReads
  /\ reads' = reads + 1
  /\ UNCHANGED <<doc, expected, edits>>

(* parse_phh. A collection has no variant at its top.                             *)
ParsePhh ==
  LET error == IF doc.single THEN HandError(doc.tables[1].table) ELSE "value"
  IN  Returns("parse_phh", error, IF error = "none" THEN <<Hand(doc.tables[1].table)>> ELSE << >>)

(* parse_phh_all. The first hand that is refused is the error of the whole.          *)
ParsePhhAll ==
  LET bad == {i \in DOMAIN doc.tables : HandError(doc.tables[i].table) # "none"}
      error == IF doc.single THEN "value"
               ELSE IF bad = {} THEN "none" ELSE HandError(doc.tables[Min(bad)].table)
      hand(i) == [Hand(doc.tables[i].table) EXCEPT !.key = doc.tables[i].key]
  IN  Returns("parse_phh_all", error, IF error = "none" THEN [i \in DOMAIN doc.tables |-> hand(i)] ELSE << >>)

-----------------------------------------------------------------------------
(* What a caller does to the hands it has.                                     *)

Edit(h, new, old) ==
  /\ hands' = [hands EXCEPT ![h] = new]
  /\ as_read' = [as_read EXCEPT ![h] = old]
  /\ edits < MaxEdits
  /\ edits' = edits + 1
  /\ answer' = Answered("edit", "none")
  /\ UNCHANGED <<doc, expected, reads>>

SetAmount(h, i, x) ==
  /\ hands[h].actions[i].verb = "cbr"
  /\ Edit(h, [hands[h] EXCEPT !.actions[i].amount = x], as_read[h])

ClearText(h, i) ==
  /\ hands[h].actions[i].text # << >>
  /\ Edit(h, [hands[h] EXCEPT !.actions[i].text = << >>], as_read[h])

AddAction(h, a) ==
  /\ a.player <= hands[h].seats
  /\ Edit(h, [hands[h] EXCEPT !.actions = Append(@, a)], Append(as_read[h], Fields(a)))

SetVariant(h, v) ==
  /\ hands[h].variant # v
  /\ Edit(h, [hands[h] EXCEPT !.variant = v], as_read[h])

-----------------------------------------------------------------------------
(* The writer.                                                               *)

(* _format_cards: the known ones first.                                        *)
FormatCards(a) ==
  IF a.cards = << >> /\ a.unknown_count = 0 THEN << >>
  ELSE <<CardsToken(a.cards \o [i \in 1 .. a.unknown_count |-> Unknown])>>

(* _format_action_grammar.                                                    *)
FormatGrammar(a) ==
  LET by == <<Player(a.player), Word(a.verb)>>
  IN  CASE a.verb = ""                 -> << >>
        [] a.verb = "db"               -> <<Word("d"), Word("db")>> \o FormatCards(a)
        [] a.verb = "dh"               -> <<Word("d"), Word("dh"), Player(a.player)>> \o FormatCards(a)
        [] a.verb = "cbr"              -> Append(by, Amount(a.amount))
        [] a.verb \in {"sd", "sm"}     -> IF a.verb = "sm" /\ a.same_as_dealt THEN Append(by, Word("-"))
                                          ELSE IF a.has_cards THEN by \o FormatCards(a) ELSE by
        [] OTHER                       -> by

Verbs == {"", "db", "dh", "pb", "cbr", "cc", "f", "sd", "sm"}

(* What the writer can write: an action with its text, or one with a known verb and a *)
(* commentary that could be read back.                                        *)
Writable(a) ==
  \/ a.text # << >>
  \/ a.verb \in Verbs /\ \A i \in DOMAIN a.commentary : a.commentary[i].word # "glued"

(* Variant: an action is always rebuilt from its fields.                         *)
FormatActionAfresh(a) ==
  FormatGrammar(a) \o (IF a.commentary = << >> THEN << >> ELSE <<Word("#")>> \o a.commentary)

(* _format_action: the text when there is one.                                  *)
FormatAction(a) ==
  IF a.text # << >> THEN a.text
  ELSE FormatGrammar(a) \o (IF a.commentary = << >> THEN << >> ELSE <<Word("#")>> \o a.commentary)

(* _check_hand_for_write, and what the rendering of an action raises.              *)
WriteError(hand) ==
  IF hand.variant \notin Variants THEN "unsupported"
  ELSE IF hand.game # GameOf(hand.variant) \/ \E i \in DOMAIN hand.actions : ~Writable(hand.actions[i])
  THEN "value"
  ELSE "none"

(* _format_hand_body.                                                         *)
Table(hand) ==
  [variant |-> hand.variant, absent |-> {}, forbidden |-> FALSE, typed |-> TRUE,
   seats |-> hand.seats, players |-> hand.players, extra |-> hand.extra,
   actions |-> [i \in DOMAIN hand.actions |-> FormatAction(hand.actions[i])]]

(* What a hand says: an action with a text says what the text says.               *)
Says(h) ==
  [NoText(hands[h]) EXCEPT
     !.actions = [i \in DOMAIN @ |-> IF hands[h].actions[i].text # << >> THEN as_read[h][i] ELSE @[i]]]

(* A call of the writer. One that raises over its hands has written nothing; the     *)
(* encoding and the file itself are taken not to fail.                            *)
Write(op, error, document, says) ==
  /\ answer' = Answered(op, error)
  /\ IF error = "none" THEN doc' = document /\ expected' = says ELSE UNCHANGED <<doc, expected>>
  /\ UNCHANGED <<hands, as_read, edits, reads>>

(* format_phh and write_phh.                                                   *)
WritePhh(h) ==
  LET error == WriteError(hands[h])
  IN  Write("write_phh", error,
            [single |-> TRUE, tables |-> <<[key |-> 0, table |-> Table(hands[h])]>>], <<Says(h)>>)

(* format_phh_all and write_phh_all: the hands are numbered again.                 *)
WritePhhAll(list) ==
  LET bad == {k \in DOMAIN list : WriteError(hands[list[k]]) # "none"}
      error == IF bad = {} THEN "none" ELSE WriteError(hands[list[Min(bad)]])
  IN  Write("write_phh_all", error,
            [single |-> FALSE, tables |-> [k \in DOMAIN list |-> [key |-> k, table |-> Table(hands[list[k]])]]],
            [k \in DOMAIN list |-> Says(list[k])])

-----------------------------------------------------------------------------
(* The masks.                                                               *)

Cards(a) == {a.cards[i] : i \in DOMAIN a.cards}
NoMask == [ok |-> FALSE, mask |-> {}]
Mask(cards) == [ok |-> TRUE, mask |-> cards]

(* hole_mask: every deal to the player, and all of it.                           *)
HoleMask(hand, p) ==
  LET dealt == {i \in DOMAIN hand.actions : hand.actions[i].verb = "dh" /\ hand.actions[i].player = p}
  IN  IF p \notin 1 .. hand.seats \/ dealt = {} \/ \E i \in dealt : hand.actions[i].unknown_count > 0
      THEN NoMask ELSE Mask(UNION {Cards(hand.actions[i]) : i \in dealt})

(* Variant: a deal with unknown cards is joined like any other.                    *)
BoardOfKnown(hand, max_cards) ==
  LET deals == SelectSeq(hand.actions, LAMBDA a : a.verb = "db")
      upTo[n \in 0 .. Len(deals)] == IF n = 0 THEN << >> ELSE upTo[n - 1] \o deals[n].cards
  IN  [ok |-> TRUE, cards |-> upTo[Len(deals)]]

(* The board as far as max_cards reaches: the deals are joined until there is enough,   *)
(* and one with an unknown card among these is refused.                          *)
Board(hand, max_cards) ==
  LET deals == SelectSeq(hand.actions, LAMBDA a : a.verb = "db")
      upTo[n \in 0 .. Len(deals)] ==
        IF n = 0 THEN [ok |-> TRUE, cards |-> << >>]
        ELSE LET before == upTo[n - 1]
             IN  IF ~before.ok \/ Len(before.cards) >= max_cards THEN before
                 ELSE [ok |-> deals[n].unknown_count = 0, cards |-> before.cards \o deals[n].cards]
  IN  upTo[Len(deals)]

(* board_mask.                                                               *)
BoardMask(hand, max_cards) ==
  LET board == Board(hand, max_cards)
  IN  IF max_cards \notin 0 .. 5 \/ ~board.ok THEN NoMask
      ELSE Mask({board.cards[i] : i \in 1 .. Min({max_cards, Len(board.cards)})})

-----------------------------------------------------------------------------
Init ==
  /\ doc \in Documents
  /\ hands = << >> /\ as_read = << >> /\ expected = << >>
  /\ answer = Answered("none", "none")
  /\ edits = 0 /\ reads = 0

Lists == UNION {[1 .. n -> DOMAIN hands] : n \in 0 .. MaxHands}

Next ==
  \/ ParsePhh \/ ParsePhhAll
  \/ \E h \in DOMAIN hands :
       \/ \E i \in DOMAIN hands[h].actions : ClearText(h, i) \/ \E x \in Amounts : SetAmount(h, i, x)
       \/ \E a \in FreshActions : AddAction(h, a)
       \/ \E v \in Variants \union {"FT"} : SetVariant(h, v)
       \/ WritePhh(h)
  \/ \E list \in Lists : WritePhhAll(list)

Spec == Init /\ [][Next]_vars

-----------------------------------------------------------------------------
(* Reading what the writer wrote gives the hands that were written: every field of     *)
(* every action, except that an action whose text was kept reads as that text says,    *)
(* whatever its fields were changed to since. A list comes back in its order, numbered  *)
(* from one, whatever its keys were; and the reader of the other kind of document       *)
(* refuses it and returns nothing (format_phh's contract and _format_action's caveat).   *)
ReadBackIsWhatWasWritten ==
  (expected # << >> /\ answer.op \in {"parse_phh", "parse_phh_all"}) =>
     IF answer.op = (IF doc.single THEN "parse_phh" ELSE "parse_phh_all")
     THEN /\ answer.error = "none"
          /\ [h \in DOMAIN hands |-> NoText(hands[h])] = expected
          /\ ~doc.single => \A h \in DOMAIN hands : hands[h].key = h
     ELSE answer.error # "none" /\ hands = << >>

(* The cards of deals, one after the other, with those that were not shown.             *)
DealtCards(hand, IsDealt(_)) ==
  LET all(a) == a.cards \o [i \in 1 .. a.unknown_count |-> Unknown]
      deals == SelectSeq(hand.actions, IsDealt)
  IN  FlattenSeq([i \in DOMAIN deals |-> all(deals[i])])

(* A mask is never partial, whatever was read or built: the hole mask of a player has all  *)
(* that was dealt to the player, in however many deals, and a board mask all of the first  *)
(* cards it was asked for, or all of a shorter board; neither ever leaves out a card that   *)
(* was not shown. It is refused only where the player, or the board anywhere, has such a   *)
(* card, or the player was dealt nothing.                                              *)
MasksAreWhole ==
  \A h \in DOMAIN hands :
    /\ \A p \in 1 .. hands[h].seats :
         LET dealt == DealtCards(hands[h], LAMBDA a : a.verb = "dh" /\ a.player = p)
             answered == HoleMask(hands[h], p)
         IN  IF answered.ok THEN answered.mask = Range(dealt)
             ELSE dealt = << >> \/ Unknown \in Range(dealt)
    /\ \A n \in 0 .. 5 :
         LET dealt == DealtCards(hands[h], LAMBDA a : a.verb = "db")
             answered == BoardMask(hands[h], n)
         IN  IF answered.ok THEN answered.mask = Range(SubSeq(dealt, 1, Min({n, Len(dealt)})))
             ELSE Unknown \in Range(dealt)
=============================================================================
