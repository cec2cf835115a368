---------------------------------- MODULE Deck ----------------------------------
(***************************************************************************)
(* The deck (src/core/deck.cpp) behind its C functions                     *)
(* (src/api/waist_handles.cpp) and its Python class                        *)
(* (binding/core_deck.cpp). A deck is a sequence of card ids dealt from    *)
(* the back. The C functions check their arguments before they touch the   *)
(* deck; the Python class sizes the buffer a deal is written to.           *)
(***************************************************************************)
EXTENDS Integers, Sequences, SequencesExt, FiniteSetsExt

CONSTANTS
  DeckSize,        (* 52                                                    *)
  Requests,        (* card counts asked for, negative and oversized ones    *)
                   (* among them                                            *)
  Capacities,      (* ids_capacity values a C caller passes                 *)
  CardLists,       (* lists given to remove_cards and set_cards             *)
  Seeds,
  SeededOrder(_, _) (* positions, in the order shuffle(seed) leaves a deck   *)
                   (* of a given size                                       *)

ASSUME DeckAssumption ==
  /\ DeckSize \in Nat \ {0}
  /\ Requests \subseteq Int /\ Capacities \subseteq Int
  /\ CardLists \subseteq Seq(Nat)
  /\ \A seed \in Seeds, n \in 0 .. DeckSize : SeededOrder(seed, n) \in Injection(1 .. n, 1 .. n)

Ids == 0 .. DeckSize - 1

VARIABLES
  cards,    (* card_ids                                                      *)
  base,     (* history: the deck as it was last ordered or loaded            *)
  dealt,    (* history: what was taken off the back since then, in order     *)
  gone,     (* history: what remove_cards took out since then                *)
  reply     (* the last call: its name, whether it succeeded, what it gave   *)

vars == <<cards, base, dealt, gone, reply>>

Sorted == [i \in 1 .. DeckSize |-> i - 1]

Ok(op, out)  == reply' = [op |-> op, ok |-> TRUE, out |-> out]
Rejected(op) == reply' = [op |-> op, ok |-> FALSE, out |-> {}]
               /\ UNCHANGED <<cards, base, dealt, gone>>

(* The deck is loaded or reordered: the histories start again.              *)
Load(s) == cards' = s /\ base' = s /\ dealt' = <<>> /\ gone' = {}

-----------------------------------------------------------------------------
Init ==
  /\ cards = Sorted /\ base = Sorted /\ dealt = <<>> /\ gone = {}
  /\ reply = [op |-> "create", ok |-> TRUE, out |-> {}]

(* Up to n cards off the back; fewer when the deck runs out, none for n <= 0. *)
Take(n) ==
  LET k == Min({Len(cards), Max({n, 0})})
  IN  /\ dealt' = dealt \o [i \in 1 .. k |-> cards[Len(cards) + 1 - i]]
      /\ cards' = SubSeq(cards, 1, Len(cards) - k)
      /\ UNCHANGED <<base, gone>>

Given == {dealt'[i] : i \in Len(dealt) + 1 .. Len(dealt')}

(* Variant: the deck is dealt before the capacity is looked at.             *)
DealThenCheck(op, n, hasBuffer, capacity) ==
  IF ~hasBuffer THEN Rejected(op)
  ELSE Take(n) /\ IF capacity < n
                  THEN reply' = [op |-> op, ok |-> FALSE, out |-> {}]
                  ELSE Ok(op, Given)

(* xiapl_deck_deal.                                                         *)
WaistDeal(op, n, hasBuffer, capacity) ==
  IF ~hasBuffer \/ capacity < n THEN Rejected(op)
                                ELSE Take(n) /\ Ok(op, Given)

Deal(n, hasBuffer, capacity) == WaistDeal("deal", n, hasBuffer, capacity)

(* Variant: only the buffer is cut.                                         *)
PyDealBufferCut(n) ==
  WaistDeal("py_deal", n, TRUE, IF n > DeckSize THEN DeckSize ELSE Max({n, 0}))

(* Deck.deal in Python: a request no deck can satisfy is cut to the deck's  *)
(* size, and the buffer is as large as the request that is then made.       *)
PyDeal(n) ==
  LET request == IF n > DeckSize /\ Len(cards) < n THEN Len(cards) ELSE n
  IN  WaistDeal("py_deal", request, TRUE, Max({request, 0}))

PyDealOne == WaistDeal("py_deal_one", 1, TRUE, 1)

DealMask(n) == Take(n) /\ Ok("deal_mask", Given)

Burn(n) == Take(n) /\ Ok("burn", {})

Orders(s) == {[i \in DOMAIN s |-> s[p[i]]] :
                p \in {f \in [DOMAIN s -> DOMAIN s] : IsInjective(f)}}

(* shuffle(): any order the random device gives.                            *)
Shuffle == (\E s \in Orders(cards) : Load(s)) /\ Ok("shuffle", {})

ShuffleSeeded(seed) ==
  /\ Load([i \in DOMAIN cards |-> cards[SeededOrder(seed, Len(cards))[i]]])
  /\ Ok("shuffle_seeded", {})

Reset(shuffle) ==
  /\ IF shuffle THEN \E s \in Orders(Sorted) : Load(s) ELSE Load(Sorted)
  /\ Ok("reset", {})

(* One card is looked for from the front and erased. An id the deck does not   *)
(* hold, an invalid one among them, is skipped.                             *)
Erase(s, c) ==
  IF c \in Range(s) THEN RemoveAt(s, Min({i \in DOMAIN s : s[i] = c})) ELSE s

EraseAll(s, list) ==
  LET left[n \in 0 .. Len(list)] == IF n = 0 THEN s ELSE Erase(left[n - 1], list[n])
  IN  left[Len(list)]

RemoveCards(list) ==
  /\ cards' = EraseAll(cards, list)
  /\ gone' = gone \union (Range(list) \cap Range(cards))
  /\ UNCHANGED <<base, dealt>>
  /\ Ok("remove_cards", {})

(* Variant: duplicates are let in.                                          *)
SetCardsUnchecked(list) ==
  IF Range(list) \subseteq Ids
  THEN Load(list) /\ Ok("set_cards", {})
  ELSE Rejected("set_cards")

(* The whole list is checked before the deck is cleared.                    *)
SetCards(list) ==
  IF Range(list) \subseteq Ids /\ IsInjective(list)
  THEN Load(list) /\ Ok("set_cards", {})
  ELSE Rejected("set_cards")

(* Variant: the copy is built from the order in which the cards would come.  *)
PickleReversed ==
  /\ cards' = Reverse(cards)
  /\ UNCHANGED <<base, dealt, gone>>
  /\ Ok("pickle", {})

(* __reduce__ and back: a deck built from the cards read, front to back.    *)
Pickle ==
  /\ Range(cards) \subseteq Ids /\ IsInjective(cards)
  /\ cards' = cards
  /\ UNCHANGED <<base, dealt, gone>>
  /\ Ok("pickle", {})

Next ==
  \/ \E n \in Requests, b \in BOOLEAN, c \in Capacities : Deal(n, b, c)
  \/ \E n \in Requests : PyDeal(n) \/ DealMask(n) \/ Burn(n)
  \/ PyDealOne
  \/ Shuffle
  \/ \E seed \in Seeds : ShuffleSeeded(seed)
  \/ \E shuffle \in BOOLEAN : Reset(shuffle)
  \/ \E list \in CardLists : RemoveCards(list) \/ SetCards(list)
  \/ Pickle

Spec == Init /\ [][Next]_vars

-----------------------------------------------------------------------------
(* The sequence r is s without the ones that are out, in the order of s.       *)
InOrderOf(r, s) ==
  \A i, j \in DOMAIN r, p, q \in DOMAIN s : i < j /\ s[p] = r[i] /\ s[q] = r[j] => p < q

IsLeft(r, s, out) ==
  /\ IsInjective(r)
  /\ Range(r) = Range(s) \ out
  /\ InOrderOf(r, s)

(* However a deal is split over calls and kinds of call, the cards come off  *)
(* the back of the deck as it was last ordered, less the removed ones; and as *)
(* that deck held valid ids, each once, no card is dealt twice or lost.       *)
DealtFromTheBack ==
  /\ Range(base) \subseteq Ids /\ IsInjective(base)
  /\ IsLeft(cards \o Reverse(dealt), base, gone)

(* A call that reports an error has not touched the deck.                    *)
FailedCallChangesNothing ==
  [][~reply'.ok => UNCHANGED <<cards, dealt, gone>>]_vars

(* The Python class never trips over the C function's capacity rule: a deal  *)
(* of any size is served, as far as the deck goes.                           *)
PyDealServed == reply.op \in {"py_deal", "py_deal_one"} => reply.ok
=============================================================================
