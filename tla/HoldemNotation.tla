----------------------------- MODULE HoldemNotation -----------------------------
(***************************************************************************)
(* Hold'em range notation (src/core/range_holdem.cpp, and the tokens and    *)
(* weights of src/core/range.cpp).                                         *)
(*                                                                         *)
(* A text is a sequence of tokens. A token holds the cards of an exact      *)
(* combo, or one hand, or the two hands of a span, and a weight. A hand is   *)
(* two rank symbols, the character after them ("" when there is none, "x"    *)
(* for one that is neither s nor o) and whether a plus ends it; a symbol      *)
(* that is no rank stands as 0. The characters themselves are left out.       *)
(***************************************************************************)
EXTENDS Combos

Blank == [cards |-> << >>, hands |-> << >>, weight |-> Full]

Tokens ==
  {t \in [cards : Seq(Deck),
          hands : Seq([first : Int, second : Int, type : {"", "s", "o", "x"}, plus : BOOLEAN]),
          weight : Int] :
     \/ t = Blank
     \/ Len(t.cards) = 2 /\ t.hands = << >>
     \/ t.cards = << >> /\ Len(t.hands) \in 1 .. 2}

(* parse_basic_hand_notation. What follows a pair is not looked at.            *)
Readable(h) ==
  /\ h.first \in Ranks /\ h.second \in Ranks
  /\ h.first = h.second \/ h.type # "x"

Basic(h) ==
  [hi |-> Max({h.first, h.second}), lo |-> Min({h.first, h.second}),
   type |-> IF h.first = h.second THEN "" ELSE h.type]

IsPair(p) == p.hi = p.lo
Gap(p) == p.hi - p.lo

Class(hi, lo, type) == [hi |-> hi, lo |-> lo, type |-> type]
Classes ==
  {c \in [hi : Ranks, lo : Ranks, type : {"", "s", "o"}] : c.hi >= c.lo /\ (c.type = "" <=> c.hi = c.lo)}
PairClasses(low, high) == {Class(r, r, "") : r \in low .. high}
KickerClasses(hi, low, high, type) == {Class(hi, r, type) : r \in low .. high}
LadderClasses(low, high, gap, type) == {Class(r, r - gap, type) : r \in low .. high}
BothClasses(p) == {Class(p.hi, p.lo, "s"), Class(p.hi, p.lo, "o")}

(* expand_range_token_to_notations: what a hand alone, a hand with a plus and a   *)
(* span stand for; nothing when the token is not allowed.                     *)
HandClasses(p) ==
  IF IsPair(p) THEN PairClasses(p.hi, p.hi)
  ELSE IF p.type = "" THEN BothClasses(p)
  ELSE {p}

PlusClasses(p) ==
  IF IsPair(p) THEN PairClasses(p.hi, 14)
  ELSE IF p.type = "" THEN IF p.hi = 14 THEN BothClasses(p) ELSE {}
  ELSE IF p.hi = 14 \/ Gap(p) # 1 THEN KickerClasses(p.hi, p.lo, p.hi - 1, p.type)
  ELSE LadderClasses(p.hi, 14, 1, p.type)

SpanClasses(l, r) ==
  LET his == {l.hi, r.hi}
      los == {l.lo, r.lo}
  IN  IF IsPair(l) /\ IsPair(r) THEN PairClasses(Min(his), Max(his))
      ELSE IF IsPair(l) \/ IsPair(r) \/ l.type # r.type \/ l.type = "" THEN {}
      ELSE IF l.hi = r.hi THEN KickerClasses(l.hi, Min(los), Max(los), l.type)
      ELSE IF Gap(l) = Gap(r) THEN LadderClasses(Min(his), Max(his), Gap(l), l.type)
      ELSE {}

TokenClasses(t) ==
  LET h == t.hands
  IN  IF \E i \in DOMAIN h : ~Readable(h[i]) THEN {}
      ELSE IF Len(h) = 2
           THEN IF h[1].plus \/ h[2].plus THEN {} ELSE SpanClasses(Basic(h[1]), Basic(h[2]))
      ELSE IF h[1].plus THEN PlusClasses(Basic(h[1]))
      ELSE HandClasses(Basic(h[1]))

(* expand_notation_to_masks: six combos of a pair, four suited, twelve offsuit.  *)
ClassMasks(c) ==
  LET both(s, t) == {CardId(c.hi, s), CardId(c.lo, t)}
  IN  IF c.type = "s" THEN {both(s, s) : s \in Suits}
      ELSE {both(p[1], p[2]) : p \in {q \in Suits \X Suits : q[1] # q[2]}}

(* expand_holdem_token: an exact combo, or the masks of all its classes.        *)
TokenMasks(t) ==
  IF t.cards # << >>
  THEN IF t.cards[1] = t.cards[2] THEN {} ELSE {{t.cards[1], t.cards[2]}}
  ELSE UNION {ClassMasks(c) : c \in TokenClasses(t)}

(* parse_holdem_range: empty tokens are skipped, the others add their combos in   *)
(* the order of the text, and no combo may come twice.                        *)
ParseHoldem(text) ==
  LET list[n \in 0 .. Len(text)] ==
        IF n = 0 THEN << >>
        ELSE IF text[n] = Blank THEN list[n - 1]
        ELSE list[n - 1] \o AtWeight(Ascending(TokenMasks(text[n]), "holdem"), text[n].weight)
      combos == list[Len(text)]
  IN  IF /\ \A i \in DOMAIN text : text[i] # Blank => LegalWeight(text[i].weight) /\ TokenMasks(text[i]) # {}
         /\ NoRepeats(combos)
      THEN Parsed(combos)
      ELSE Malformed

-----------------------------------------------------------------------------
(* What the notation means, as a property of a combo: its ranks and whether it   *)
(* is suited. Not code.                                                      *)

Shape(m) ==
  [hi |-> Max({RankOf(c) : c \in m}), lo |-> Min({RankOf(c) : c \in m}),
   type |-> IF Cardinality({SuitOf(c) : c \in m}) = 1 THEN "s" ELSE "o"]

Between(x, a, b) == (a <= x /\ x <= b) \/ (b <= x /\ x <= a)
SameSuits(shape, p) == p.type \in {"", shape.type}

TokenMeans(t, m) ==
  LET x == Shape(m)
      p == Basic(t.hands[1])
      q == Basic(t.hands[2])
  IN  IF t.cards # << >> THEN m = {t.cards[1], t.cards[2]}
      ELSE IF Len(t.hands) = 2
           THEN /\ Between(x.hi, p.hi, q.hi) /\ Between(x.lo, p.lo, q.lo)
                /\ SameSuits(x, p)
                /\ p.hi = q.hi \/ Gap(x) = Gap(p)
      ELSE IF ~t.hands[1].plus THEN x.hi = p.hi /\ x.lo = p.lo /\ SameSuits(x, p)
      ELSE IF IsPair(p) THEN IsPair(x) /\ x.hi >= p.hi
      ELSE IF p.type = "" THEN x.hi = p.hi /\ x.lo = p.lo
      ELSE IF Gap(p) = 1 /\ p.hi # 14 THEN x.hi >= p.hi /\ Gap(x) = 1 /\ SameSuits(x, p)
      ELSE x.hi = p.hi /\ x.lo >= p.lo /\ ~IsPair(x) /\ SameSuits(x, p)

HoldemTextMeans(text) ==
  UNION {{<<m, text[i].weight>> : m \in {x \in TwoCards : TokenMeans(text[i], x)}} :
           i \in {j \in DOMAIN text : text[j] # Blank}}
=============================================================================
