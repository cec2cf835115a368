------------------------------- MODULE PloNotation -------------------------------
(***************************************************************************)
(* PLO range notation (src/core/range_plo.cpp) and its pattern engine       *)
(* (src/core/plo_pattern.h).                                               *)
(*                                                                         *)
(* A text is a sequence of items. An item holds the four cards of an exact   *)
(* hand, or one pattern with the mark that ends it ("", "+" or "-"), or the  *)
(* two patterns of a span, and a weight. A pattern is its rank symbols, 0    *)
(* for a wildcard and 1 for a character that is neither, and a suit          *)
(* qualifier ("any", "ds", "ss", "r"). The characters are left out.          *)
(***************************************************************************)
EXTENDS Combos

Items ==
  {t \in [cards : Seq(Deck),
          patterns : Seq([ranks : Seq(Int), suit : {"any", "ds", "ss", "r"}]),
          mark : {"", "+", "-"}, weight : Int] :
     \/ Len(t.cards) = 4 /\ t.patterns = << >>
     \/ t.cards = << >> /\ Len(t.patterns) \in 0 .. 2}

EmptyItem == [cards |-> << >>, patterns |-> << >>, mark |-> "", weight |-> Full]

(* parse_pattern: four symbols. The order they are written in is forgotten: a     *)
(* pattern asks for a number of cards of each rank.                           *)
Legible(p) == Len(p.ranks) = 4 /\ \A i \in 1 .. 4 : p.ranks[i] \in Ranks \union {0}

Pattern(p) ==
  LET times(r) == Cardinality({i \in 1 .. 4 : p.ranks[i] = r})
  IN  [need |-> {<<r, times(r)>> : r \in {p.ranks[i] : i \in 1 .. 4} \ {0}}, suit |-> p.suit]

Named(q) == {n[1] : n \in q.need}

(* progression_form.                                                         *)
Form(q) ==
  IF \E r \in Ranks : q.need = {<<r, 2>>} THEN "pair"
  ELSE IF \E r \in Ranks : q.need = {<<x, 1>> : x \in r .. r + 3} THEN "rundown"
  ELSE "none"

(* shift_pattern: every rank moves, none leaves the deck.                     *)
Shiftable(q, d) == \A r \in Named(q) : r + d \in Ranks
Shift(q, d) == [q EXCEPT !.need = {<<n[1] + d, n[2]>> : n \in q.need}]

Steps == 0 .. Cardinality(Ranks)

(* expand_open_progression and expand_span_progression. A progression of one      *)
(* pattern is refused.                                                       *)
OpenPatterns(q, mark) ==
  LET moves == {d \in Steps : Shiftable(q, IF mark = "+" THEN d ELSE -d)}
  IN  IF Form(q) = "none" \/ moves = {0} THEN {}
      ELSE {Shift(q, IF mark = "+" THEN d ELSE -d) : d \in moves}

SpanPatterns(l, r) ==
  LET delta == Max(Named(l)) - Max(Named(r))
  IN  IF /\ Form(l) # "none" /\ Form(l) = Form(r) /\ l.suit = r.suit
         /\ delta > 0 /\ Shiftable(l, -delta) /\ Shift(l, -delta) = r
      THEN {Shift(l, -d) : d \in 0 .. delta}
      ELSE {}

ItemPatterns(t) ==
  LET p == t.patterns
  IN  IF p = << >> \/ \E i \in DOMAIN p : ~Legible(p[i]) THEN {}
      ELSE IF Len(p) = 2 THEN IF t.mark = "" THEN SpanPatterns(Pattern(p[1]), Pattern(p[2])) ELSE {}
      ELSE IF t.mark # "" THEN OpenPatterns(Pattern(p[1]), t.mark)
      ELSE {Pattern(p[1])}

(* plo_suit_qualifier_matches, on how many cards each suit has.                *)
SuitsMatch(hand, suit) ==
  LET with(n) == Cardinality({s \in Suits : Cardinality({c \in hand : SuitOf(c) = s}) = n})
  IN  CASE suit = "ds"  -> with(2) = 2
        [] suit = "ss"  -> with(2) = 1 /\ with(1) = 2
        [] suit = "r"   -> with(1) = 4
        [] OTHER        -> TRUE

(* plo_pattern_matches: as many cards of each rank as the pattern names.         *)
Matches(q, hand) ==
  /\ \A n \in q.need : n[2] <= Cardinality({c \in hand : RankOf(c) = n[1]})
  /\ SuitsMatch(hand, q.suit)

AllPloMasks == {PloMasks[i] : i \in DOMAIN PloMasks}

(* expand_item: an exact hand of four distinct cards, or every hand one of the    *)
(* patterns matches, which may be none.                                      *)
ItemStands(t) ==
  /\ LegalWeight(t.weight)
  /\ IF t.cards # << >> THEN Cardinality({t.cards[i] : i \in DOMAIN t.cards}) = 4
     ELSE ItemPatterns(t) # {}

ItemMasks(t) ==
  IF t.cards # << >> THEN {{t.cards[i] : i \in DOMAIN t.cards}}
  ELSE LET patterns == ItemPatterns(t)
       IN  {hand \in AllPloMasks : \E q \in patterns : Matches(q, hand)}

(* Variant: a hand keeps the weight of the first item that names it.            *)
ParsePloFirstWins(text) ==
  LET masks == {<<i, ItemMasks(text[i])>> : i \in DOMAIN text}
      hands == UNION {m[2] : m \in masks}
      weight(h) == text[Min({m[1] : m \in {x \in masks : h \in x[2]}})].weight
      list == Ascending(hands, "plo")
  IN  IF text # << >> /\ \A i \in DOMAIN text : ItemStands(text[i])
      THEN Parsed([i \in DOMAIN list |-> Combo(list[i], weight(list[i]))])
      ELSE Malformed

(* parse_plo_range: the items are united; a hand that comes again must come with   *)
(* the same weight. The result is ascending by mask.                          *)
ParsePlo(text) ==
  LET stands == text # << >> /\ \A i \in DOMAIN text : ItemStands(text[i])
      masks == {<<i, ItemMasks(text[i])>> : i \in DOMAIN text}
      clash == \E m, n \in masks : /\ text[m[1]].weight # text[n[1]].weight
                                   /\ m[2] \intersect n[2] # {}
      hands == UNION {m[2] : m \in masks}
      weight(h) == text[(CHOOSE m \in masks : h \in m[2])[1]].weight
      list == Ascending(hands, "plo")
  IN  IF stands /\ ~clash
      THEN Parsed([i \in DOMAIN list |-> Combo(list[i], weight(list[i]))])
      ELSE Malformed

-----------------------------------------------------------------------------
(* What the notation means: every symbol is a card of the hand, a rank a card of   *)
(* that rank, no card twice; and progressions move all ranks together. Not code.  *)

Stands(symbol, card) == symbol \in {0, RankOf(card)}

Deals(ranks, hand) ==
  \E a \in {c \in hand : Stands(ranks[1], c)} :
    \E b \in {c \in hand \ {a} : Stands(ranks[2], c)} :
      \E c \in {x \in hand \ {a, b} : Stands(ranks[3], x)} :
        \E d \in hand \ {a, b, c} : Stands(ranks[4], d)

Suited(hand, suit) ==
  LET suits == {SuitOf(c) : c \in hand}
  IN  CASE suit = "ds" -> Cardinality(suits) = 2 /\ \A s \in suits : Cardinality({c \in hand : SuitOf(c) = s}) = 2
        [] suit = "ss" -> Cardinality(suits) = 3
        [] suit = "r"  -> Cardinality(suits) = 4
        [] OTHER       -> TRUE

Moved(ranks, d) == [i \in DOMAIN ranks |-> IF ranks[i] = 0 THEN 0 ELSE ranks[i] + d]

Written(t) ==
  LET p == t.patterns[1].ranks
      top(q) == Max({q[i] : i \in DOMAIN q})
      moves == IF Len(t.patterns) = 2 THEN top(t.patterns[2].ranks) - top(p) .. 0
               ELSE IF t.mark = "+" THEN Steps ELSE IF t.mark = "-" THEN {-d : d \in Steps} ELSE {0}
      onDeck(d) == \A i \in DOMAIN p : p[i] # 0 => p[i] + d \in Ranks
  IN  {Moved(p, d) : d \in {x \in moves : onDeck(x)}}

ItemMeans(t) ==
  IF t.cards # << >> THEN {{t.cards[i] : i \in DOMAIN t.cards}}
  ELSE LET written == Written(t)
       IN  {hand \in FourCards :
              Suited(hand, t.patterns[1].suit) /\ \E ranks \in written : Deals(ranks, hand)}

PloTextMeans(text) == UNION {{<<h, text[i].weight>> : h \in ItemMeans(text[i])} : i \in DOMAIN text}
=============================================================================
