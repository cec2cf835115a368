----------------------------- MODULE RangeStoreProofs -----------------------------
(***************************************************************************)
(* Theorems about ranges: for a deck of any ranks, any sources and any     *)
(* number of handles and calls.                                            *)
(*                                                                         *)
(* The order of masks is a strict total one; the nested loops over the     *)
(* deck give their masks in that order; sorting a list without repeats and *)
(* the merges keep it. So every range whose order is promised is           *)
(* ascending, whatever it came from, and the merges give the union,        *)
(* intersection and difference that are defined on sets of weighted        *)
(* combos.                                                                 *)
(*                                                                         *)
(* What a text means is a property of a hand: its ranks and whether it is  *)
(* suited, or whether its cards can be dealt to four symbols. The parsers  *)
(* expand classes and count ranks. That both give the same hands, and that *)
(* lists, readers and operations keep them, shows that every range is the  *)
(* set of combos it was asked for.                                         *)
(***************************************************************************)
EXTENDS RangeStore, SequenceTheorems, FunctionTheorems, Induction

-----------------------------------------------------------------------------
(* The order of masks.                                                     *)

(* The deck is a finite set of numbers.                                    *)
LEMMA DeckIs ==
  /\ NumCards \in Nat
  /\ Deck \subseteq Nat /\ IsFiniteSet(Deck)
<1>1. LowRank \in Int /\ 14 \in Int
  BY CombosAssumption
<1>2. Cardinality(Ranks) \in Nat
  <2>1. IsFiniteSet(LowRank .. 14)
    BY <1>1, FS_Interval
  <2> QED
    BY <2>1, FS_CardinalityType DEF Ranks
<1>3. NumCards \in Nat
  BY <1>2 DEF NumCards
<1>4. Deck \subseteq Nat
  BY <1>3 DEF Deck
<1>5. IsFiniteSet(Deck)
  <2>1. 0 \in Int /\ NumCards - 1 \in Int
    BY <1>3
  <2>2. IsFiniteSet(0 .. NumCards - 1)
    BY <2>1, FS_Interval
  <2> QED
    BY <2>2 DEF Deck
<1> QED
  BY <1>3, <1>4, <1>5

(* A mask is less than another when their highest difference lies in the   *)
(* other.                                                                  *)
LEMMA LessIs ==
  ASSUME NEW a, NEW b
  PROVE  MaskLess(a, b) <=> a # b /\ Top(a, b) \in b
BY DEF MaskLess, SymDiff, Top

(* Masks are in a strict total order.                                      *)
LEMMA NotLess ==
  ASSUME NEW a
  PROVE  ~MaskLess(a, a)
BY DEF MaskLess

(* Of two different masks one is less.                                     *)
LEMMA SomeLess ==
  ASSUME NEW a \in SUBSET Deck, NEW b \in SUBSET Deck, a # b
  PROVE  MaskLess(a, b) \/ MaskLess(b, a)
<1> DEFINE R == MaskOrder(Deck)
           S == SUBSET Deck
<1>1. OrdersStrictly(R, S)
  <2>1. S \subseteq SUBSET Deck
    OBVIOUS
  <2> QED
    BY <2>1, DeckIs, MasksOrdered
<1>2. \A x, y \in S : <<x, y>> \in R <=> MaskLess(x, y)
  BY LessIs DEF MaskOrder
<1> HIDE DEF R
<1> QED
  BY <1>1, <1>2 DEF OrdersStrictly

(* The order is transitive.                                                *)
LEMMA LessThenLess ==
  ASSUME NEW a \in SUBSET Deck, NEW b \in SUBSET Deck, NEW c \in SUBSET Deck,
         MaskLess(a, b), MaskLess(b, c)
  PROVE  MaskLess(a, c)
<1> DEFINE R == MaskOrder(Deck)
           S == SUBSET Deck
<1>1. OrdersStrictly(R, S)
  <2>1. S \subseteq SUBSET Deck
    OBVIOUS
  <2> QED
    BY <2>1, DeckIs, MasksOrdered
<1>2. \A x, y \in S : <<x, y>> \in R <=> MaskLess(x, y)
  BY LessIs DEF MaskOrder
<1> HIDE DEF R
<1> QED
  BY <1>1, <1>2 DEF OrdersStrictly

(* The highest card that only one of two masks has decides.                *)
Agree(a, b, x) == \A y \in Deck : y > x => (y \in a <=> y \in b)

(* A card that decides between two masks orders them.                      *)
LEMMA HighestDecides ==
  ASSUME NEW a \in SUBSET Deck, NEW b \in SUBSET Deck, NEW x \in Deck,
         x \notin a, x \in b, Agree(a, b, x)
  PROVE  MaskLess(a, b)
<1> DEFINE t == Top(a, b)
<1>1. a # b
  OBVIOUS
<1>2. IsMask(a, Deck) /\ IsMask(b, Deck)
  BY DeckIs DEF IsMask
<1>3. /\ t \in Nat /\ t \in Deck /\ (t \in a <=> t \notin b)
      /\ \A y \in Deck : y > t => (y \in a <=> y \in b)
  BY <1>1, <1>2, TopIs
<1> HIDE DEF t
<1>4. x \in Nat
  BY DeckIs
<1>5. ~(x > t)
  BY <1>3
<1>6. ~(t > x)
  BY <1>3 DEF Agree
<1>7. t = x
  BY <1>3, <1>4, <1>5, <1>6
<1> QED
  BY <1>1, <1>7, LessIs DEF t

-----------------------------------------------------------------------------
(* Lists in ascending order.                                               *)

MasksAscend(s) == \A i, j \in 1 .. Len(s) : i < j => MaskLess(s[i], s[j])

(* The masks the loops below card n give: above card n they agree with     *)
(* what was chosen.                                                        *)
Extend(s, n, above) == \A i \in 1 .. Len(s) : \A y \in Deck : y >= n => (y \in s[i] <=> y \in above)

(* Two ascending lists, the first before the second.                       *)
LEMMA AscendOn ==
  ASSUME NEW s \in Seq(SUBSET Deck), NEW t \in Seq(SUBSET Deck), MasksAscend(s), MasksAscend(t),
         \A i \in 1 .. Len(s) : \A j \in 1 .. Len(t) : MaskLess(s[i], t[j])
  PROVE  MasksAscend(s \o t)
<1> DEFINE l == Len(s)
           m == Len(t)
           u == s \o t
<1>1. l \in Nat /\ m \in Nat
  BY LenProperties
<1>2. Len(u) = l + m /\ \A i \in 1 .. l + m : u[i] = IF i <= l THEN s[i] ELSE t[i - l]
  BY ConcatProperties
<1> HIDE DEF l, m, u
<1>3. ASSUME NEW i \in 1 .. l + m, NEW j \in 1 .. l + m, i < j
      PROVE  MaskLess(u[i], u[j])
  <2>1. CASE j <= l
    <3>1. i \in 1 .. l /\ j \in 1 .. l /\ i <= l
      BY <1>1, <1>3, <2>1
    <3>2. u[i] = s[i] /\ u[j] = s[j]
      BY <1>2, <2>1, <3>1
    <3> QED
      BY <1>3, <3>1, <3>2 DEF MasksAscend, l
  <2>2. CASE i <= l /\ ~(j <= l)
    <3>1. i \in 1 .. l /\ j - l \in 1 .. m
      BY <1>1, <1>3, <2>2
    <3>2. u[i] = s[i] /\ u[j] = t[j - l]
      BY <1>2, <2>2
    <3> QED
      BY <3>1, <3>2 DEF l, m
  <2>3. CASE ~(i <= l)
    <3>1. i - l \in 1 .. m /\ j - l \in 1 .. m /\ i - l < j - l /\ ~(j <= l)
      BY <1>1, <1>3, <2>3
    <3>2. u[i] = t[i - l] /\ u[j] = t[j - l]
      BY <1>2, <2>3, <3>1
    <3> QED
      BY <3>1, <3>2 DEF MasksAscend, m
  <2> QED
    BY <2>1, <2>2, <2>3
<1>4. MasksAscend(u)
  BY <1>2, <1>3 DEF MasksAscend
<1> QED
  BY <1>4 DEF u

(* The loops over the deck, as the recursion they are.                     *)
LoopStates(k) == (0 .. NumCards) \X (0 .. k) \X SUBSET Deck

Level(f, masks, n, left, above) ==
  IF left = 0 THEN IF above \in masks THEN <<above>> ELSE << >>
  ELSE IF n < left THEN << >>
  ELSE f[<<n - 1, left, above>>] \o f[<<n - 1, left - 1, above \union {n - 1}>>]

IsLoops(f, k, masks) == f = [x \in LoopStates(k) |-> Level(f, masks, x[1], x[2], x[3])]

(* Where the loops go from a state.                                        *)
LEMMA NextStates ==
  ASSUME NEW k \in Nat, NEW x \in LoopStates(k)
  PROVE  /\ x[1] \in 0 .. NumCards /\ x[2] \in 0 .. k /\ x[3] \in SUBSET Deck
         /\ x[2] # 0 /\ ~(x[1] < x[2]) =>
              /\ <<x[1] - 1, x[2], x[3]>> \in LoopStates(k)
              /\ <<x[1] - 1, x[2] - 1, x[3] \union {x[1] - 1}>> \in LoopStates(k)
              /\ x[1] - 1 \in Deck /\ x[1] - 1 < x[1]
<1>1. NumCards \in Nat /\ \A y : y \in Deck <=> y \in 0 .. NumCards - 1
  BY DeckIs DEF Deck
<1>2. x[1] \in 0 .. NumCards /\ x[2] \in 0 .. k /\ x[3] \in SUBSET Deck
  BY DEF LoopStates
<1>3. ASSUME x[2] # 0, ~(x[1] < x[2])
      PROVE  /\ <<x[1] - 1, x[2], x[3]>> \in LoopStates(k)
             /\ <<x[1] - 1, x[2] - 1, x[3] \union {x[1] - 1}>> \in LoopStates(k)
             /\ x[1] - 1 \in Deck /\ x[1] - 1 < x[1]
  <2>1. x[1] - 1 \in 0 .. NumCards /\ x[2] - 1 \in 0 .. k /\ x[1] - 1 \in 0 .. NumCards - 1 /\ x[1] - 1 < x[1]
    BY <1>1, <1>2, <1>3
  <2>2. x[1] - 1 \in Deck
    BY <1>1, <2>1
  <2>3. x[3] \union {x[1] - 1} \in SUBSET Deck
    BY <1>2, <2>2
  <2> QED
    BY <1>2, <2>1, <2>2, <2>3 DEF LoopStates
<1> QED
  BY <1>2, <1>3

(* The recursion of the loops has a solution.                              *)
LEMMA LoopsExist ==
  ASSUME NEW k \in Nat, NEW masks
  PROVE  \E f : IsLoops(f, k, masks)
<1> DEFINE S == LoopStates(k)
           D == Seq(SUBSET Deck)
           mu == [x \in S |-> x[1]]
           body(x, h) == Level(h, masks, x[1], x[2], x[3])
           F == [x \in S |-> [h \in [S -> D] |-> body(x, h)]]
<1>1. \A x \in S : \A h \in [S -> D] : body(x, h) \in D
  <2> TAKE x \in S
  <2> TAKE h \in [S -> D]
  <2> DEFINE y == <<x[1] - 1, x[2], x[3]>>
             z == <<x[1] - 1, x[2] - 1, x[3] \union {x[1] - 1}>>
  <2>1. x[3] \in SUBSET Deck
    BY NextStates
  <2>2. CASE x[2] = 0
    <3>1. body(x, h) = << >> \/ body(x, h) = <<x[3]>>
      BY <2>2 DEF Level
    <3>2. << >> \in D /\ <<x[3]>> \in D
      BY <2>1
    <3> HIDE DEF body, D
    <3> QED
      BY <3>1, <3>2
  <2>3. CASE x[2] # 0 /\ x[1] < x[2]
    BY <2>3 DEF Level
  <2>4. CASE x[2] # 0 /\ ~(x[1] < x[2])
    <3>1. y \in S /\ z \in S
      BY <2>4, NextStates
    <3>2. body(x, h) = h[y] \o h[z]
      BY <2>4 DEF Level
    <3> HIDE DEF S, body, y, z
    <3>3. h[y] \in D /\ h[z] \in D
      BY <3>1
    <3> QED
      BY <3>2, <3>3, ConcatProperties
  <2> QED
    BY <2>2, <2>3, <2>4
<1>2. F \in [S -> [[S -> D] -> D]]
  <2> HIDE DEF body, S, D
  <2> QED
    BY <1>1
<1>3. \A x \in S : mu[x] \in 0 .. NumCards
  BY NextStates
<1>4. LooksDown(F, S, D, mu)
  <2> SUFFICES ASSUME NEW x \in S, NEW h \in [S -> D], NEW g \in [S -> D],
                      \A y \in S : mu[y] < mu[x] => h[y] = g[y]
               PROVE  F[x][h] = F[x][g]
    <3> HIDE DEF F, S, D, mu
    <3> QED
      BY DEF LooksDown
  <2> DEFINE y == <<x[1] - 1, x[2], x[3]>>
             z == <<x[1] - 1, x[2] - 1, x[3] \union {x[1] - 1}>>
  <2>1. CASE x[2] # 0 /\ ~(x[1] < x[2])
    <3>1. y \in S /\ z \in S /\ x[1] - 1 < x[1]
      BY <2>1, NextStates
    <3>2. mu[x] = x[1] /\ mu[y] = x[1] - 1 /\ mu[z] = x[1] - 1
      BY <3>1
    <3>3. mu[y] < mu[x] /\ mu[z] < mu[x]
      BY <3>1, <3>2
    <3>4. body(x, h) = h[y] \o h[z] /\ body(x, g) = g[y] \o g[z]
      BY <2>1 DEF Level
    <3> HIDE DEF y, z, mu, S, body
    <3>5. h[y] = g[y] /\ h[z] = g[z]
      BY <3>1, <3>3
    <3>6. body(x, h) = body(x, g)
      BY <3>4, <3>5
    <3> QED
      BY <3>6
  <2>2. CASE x[2] = 0 \/ x[1] < x[2]
    <3>1. body(x, h) = body(x, g)
      BY <2>2 DEF Level
    <3> HIDE DEF body, S
    <3> QED
      BY <3>1
  <2> QED
    BY <2>1, <2>2
<1>5. Bodies(F, S, D)
  <2>1. D # {}
    BY EmptySeq
  <2> HIDE DEF F, S, D
  <2> QED
    BY <1>2, <2>1 DEF Bodies
<1>6. Measures(mu, S, NumCards)
  <2> HIDE DEF S, mu
  <2> QED
    BY <1>3, DeckIs DEF Measures
<1>7. \E f : Obeys(f, F, S, D)
  <2> HIDE DEF F, S, D, mu
  <2> QED
    BY <1>4, <1>5, <1>6, BoundedRecursion
<1>8. PICK f : Obeys(f, F, S, D)
  BY <1>7
<1>9. f \in [S -> D] /\ \A x \in S : f[x] = body(x, f)
  <2> HIDE DEF S, D, body
  <2> QED
    BY <1>8 DEF Obeys
<1>10. f = [x \in S |-> body(x, f)]
  <2> HIDE DEF S, D, body
  <2> QED
    BY <1>9
<1>11. IsLoops(f, k, masks)
  BY <1>10 DEF IsLoops
<1> QED
  BY <1>11

(* What the loops give: masks of the set, ascending.                       *)
Within(s, masks) == \A i \in 1 .. Len(s) : s[i] \in masks

(* By least counterexample on the cards still to come: the loops give      *)
(* masks of the set, in order.                                             *)
LEMMA LoopsAscend ==
  ASSUME NEW k \in Nat, NEW masks, NEW f, IsLoops(f, k, masks),
         NEW y \in LoopStates(k), \A c \in y[3] : c >= y[1]
  PROVE  f[y] \in Seq(SUBSET Deck) /\ Within(f[y], masks) /\ MasksAscend(f[y]) /\ Extend(f[y], y[1], y[3])
<1> DEFINE S == LoopStates(k)
           Right(x) == (\A c \in x[3] : c >= x[1]) =>
             f[x] \in Seq(SUBSET Deck) /\ Within(f[x], masks) /\ MasksAscend(f[x]) /\ Extend(f[x], x[1], x[3])
           Wrong == {n \in 0 .. NumCards : \E x \in S : x[1] = n /\ ~Right(x)}
<1>1. \A x \in S : f[x] = Level(f, masks, x[1], x[2], x[3])
  BY DEF IsLoops
<1>2. Wrong = {} => Right(y)
  <2>1. y[1] \in 0 .. NumCards
    BY NextStates
  <2> HIDE DEF Right
  <2> QED
    BY <2>1
<1>0. SUFFICES ASSUME Wrong # {} PROVE FALSE
  <2>1. Wrong = {}
    BY <1>0
  <2> HIDE DEF Right
  <2>2. Right(y)
    BY <1>2, <2>1
  <2> QED
    BY <2>2 DEF Right
<1>3. NumCards \in Nat
  BY DeckIs
<1>4. PICK n \in Wrong : \A m \in Wrong : n <= m
  <2>1. Wrong \subseteq Nat
    BY <1>3
  <2> HIDE DEF Wrong
  <2> QED
    BY <1>0, <2>1, LeastNumber
<1>5. PICK x \in S : x[1] = n /\ ~Right(x)
  BY <1>4
<1>6. \A c \in x[3] : c >= x[1]
  BY <1>5
<1>7. x[1] \in 0 .. NumCards /\ x[2] \in 0 .. k /\ x[3] \in SUBSET Deck
  BY NextStates
<1>8. \A v \in S : v[1] < n => Right(v)
  <2> TAKE v \in S
  <2> HAVE v[1] < n
  <2>1. v[1] \in 0 .. NumCards /\ n \in 0 .. NumCards
    BY NextStates, <1>4
  <2>2. ~(n <= v[1])
    BY <2>1, <1>3
  <2>3. v[1] \notin Wrong
    BY <1>4, <2>2
  <2> HIDE DEF Right, S
  <2> QED
    BY <2>1, <2>3
<1>9. f[x] \in Seq(SUBSET Deck) /\ Within(f[x], masks) /\ MasksAscend(f[x]) /\ Extend(f[x], x[1], x[3])
  <2>1. CASE x[2] = 0
    <3>1. f[x] = << >> \/ (f[x] = <<x[3]>> /\ x[3] \in masks)
      BY <1>1, <2>1 DEF Level
    <3>2. CASE f[x] = << >>
      BY <3>2 DEF MasksAscend, Extend, Within
    <3>3. CASE f[x] = <<x[3]>> /\ x[3] \in masks
      <4>1. <<x[3]>> \in Seq(SUBSET Deck) /\ Len(<<x[3]>>) = 1 /\ <<x[3]>>[1] = x[3]
        BY <1>7
      <4>2. f[x] \in Seq(SUBSET Deck) /\ Len(f[x]) = 1 /\ f[x][1] = x[3]
        BY <3>3, <4>1
      <4> HIDE DEF S
      <4> QED
        BY <3>3, <4>2 DEF MasksAscend, Extend, Within
    <3> QED
      BY <3>1, <3>2, <3>3
  <2>2. CASE x[2] # 0 /\ x[1] < x[2]
    <3>1. f[x] = << >>
      BY <1>1, <2>2 DEF Level
    <3>2. Len(f[x]) = 0 /\ f[x] \in Seq(SUBSET Deck)
      BY <3>1, EmptySeq
    <3> QED
      BY <3>2 DEF MasksAscend, Extend, Within
  <2>3. CASE x[2] # 0 /\ ~(x[1] < x[2])
    <3> DEFINE c == x[1] - 1
               u == <<c, x[2], x[3]>>
               v == <<c, x[2] - 1, x[3] \union {c}>>
               s == f[u]
               t == f[v]
    <3>1. u \in S /\ v \in S /\ c \in Deck /\ c < x[1]
      BY <2>3, NextStates
    <3>2. u[1] = c /\ u[3] = x[3] /\ v[1] = c /\ v[3] = x[3] \union {c}
      OBVIOUS
    <3>3. f[x] = s \o t
      BY <1>1, <2>3 DEF Level
    <3>5. c \in Int /\ x[1] \in Int /\ c = x[1] - 1 /\ \A d \in x[3] : d \in Int
      <4>1. \A d \in x[3] : d \in Deck
        BY <1>7
      <4>2. x[1] \in Int
        BY <1>7
      <4> HIDE DEF S, c
      <4>3. c \in Nat /\ \A d \in x[3] : d \in Nat
        BY <3>1, <4>1, DeckIs
      <4> QED
        BY <4>2, <4>3 DEF c
    <3>6. (\A d \in x[3] : d >= c) /\ c \notin x[3] /\ (\A d \in x[3] \union {c} : d >= c)
      BY <1>6, <3>5
    <3> HIDE DEF c
    <3>7. Right(u) /\ Right(v)
      <4>1. u[1] < n /\ v[1] < n
        BY <1>5, <3>1, <3>2
      <4> HIDE DEF u, v, Right, S
      <4> QED
        BY <1>8, <3>1, <4>1
    <3>8. /\ s \in Seq(SUBSET Deck) /\ t \in Seq(SUBSET Deck) /\ Within(s, masks) /\ Within(t, masks)
          /\ MasksAscend(s) /\ Extend(s, c, x[3]) /\ MasksAscend(t) /\ Extend(t, c, x[3] \union {c})
      <4>1. (\A d \in u[3] : d >= u[1]) /\ (\A d \in v[3] : d >= v[1])
        BY <3>2, <3>6
      <4>2. /\ s \in Seq(SUBSET Deck) /\ t \in Seq(SUBSET Deck) /\ Within(s, masks) /\ Within(t, masks)
            /\ MasksAscend(s) /\ Extend(s, u[1], u[3]) /\ MasksAscend(t) /\ Extend(t, v[1], v[3])
        BY <3>7, <4>1
      <4> HIDE DEF u, v
      <4> QED
        BY <3>2, <4>2
    <3> HIDE DEF s, t, u, v
    <3>9. \A i \in 1 .. Len(s) : \A j \in 1 .. Len(t) : MaskLess(s[i], t[j])
      <4> TAKE i \in 1 .. Len(s)
      <4> TAKE j \in 1 .. Len(t)
      <4>1. s[i] \in SUBSET Deck /\ t[j] \in SUBSET Deck
        BY <3>8, ElementOfSeq
      <4>2. c \notin s[i] /\ c \in t[j]
        BY <3>1, <3>5, <3>6, <3>8 DEF Extend
      <4>3. Agree(s[i], t[j], c)
        <5> SUFFICES ASSUME NEW d \in Deck, d > c PROVE d \in s[i] <=> d \in t[j]
          BY DEF Agree
        <5>1. d >= c /\ d # c
          BY <3>5, DeckIs
        <5> QED
          BY <3>8, <5>1 DEF Extend
      <4> QED
        BY <3>1, <4>1, <4>2, <4>3, HighestDecides
    <3>10. MasksAscend(s \o t)
      BY <3>8, <3>9, AscendOn
    <3>11. Extend(s \o t, x[1], x[3])
      <4> SUFFICES ASSUME NEW i \in 1 .. Len(s \o t), NEW d \in Deck, d >= x[1]
                   PROVE  d \in (s \o t)[i] <=> d \in x[3]
        BY DEF Extend
      <4>1. d >= c /\ d # c
        BY <3>5, DeckIs
      <4>2. Len(s) \in Nat /\ Len(t) \in Nat
        BY <3>8, LenProperties
      <4>3. Len(s \o t) = Len(s) + Len(t) /\ (s \o t)[i] = IF i <= Len(s) THEN s[i] ELSE t[i - Len(s)]
        BY <3>8, ConcatProperties
      <4>4. CASE i <= Len(s)
        <5>1. i \in 1 .. Len(s)
          BY <4>2, <4>3, <4>4
        <5> QED
          BY <3>8, <4>1, <4>3, <4>4, <5>1 DEF Extend
      <4>5. CASE ~(i <= Len(s))
        <5>1. i - Len(s) \in 1 .. Len(t)
          BY <4>2, <4>3, <4>5
        <5>2. d \in t[i - Len(s)] <=> d \in x[3] \union {c}
          BY <3>8, <4>1, <5>1 DEF Extend
        <5> QED
          BY <4>1, <4>3, <4>5, <5>2
      <4> QED
        BY <4>4, <4>5
    <3>12. Within(s \o t, masks)
      <4> SUFFICES ASSUME NEW i \in 1 .. Len(s \o t) PROVE (s \o t)[i] \in masks
        BY DEF Within
      <4>1. Len(s) \in Nat /\ Len(t) \in Nat
        BY <3>8, LenProperties
      <4>2. Len(s \o t) = Len(s) + Len(t) /\ (s \o t)[i] = IF i <= Len(s) THEN s[i] ELSE t[i - Len(s)]
        BY <3>8, ConcatProperties
      <4>3. CASE i <= Len(s)
        <5>1. i \in 1 .. Len(s)
          BY <4>1, <4>2, <4>3
        <5> QED
          BY <3>8, <4>2, <4>3, <5>1 DEF Within
      <4>4. CASE ~(i <= Len(s))
        <5>1. i - Len(s) \in 1 .. Len(t)
          BY <4>1, <4>2, <4>4
        <5> QED
          BY <3>8, <4>2, <4>4, <5>1 DEF Within
      <4> QED
        BY <4>3, <4>4
    <3> QED
      BY <3>3, <3>8, <3>10, <3>11, <3>12, ConcatProperties
  <2> QED
    BY <2>1, <2>2, <2>3
<1> QED
  BY <1>5, <1>9

(* The masks of a set in the order of the loops: a list of masks,          *)
(* ascending.                                                              *)
LEMMA InOrderAscends ==
  ASSUME NEW k \in Nat, NEW masks
  PROVE  InOrder(k, masks) \in Seq(SUBSET Deck) /\ Within(InOrder(k, masks), masks) /\ MasksAscend(InOrder(k, masks))
<1> DEFINE S == LoopStates(k)
           start == <<NumCards, k, {}>>
           chosen == CHOOSE g : IsLoops(g, k, masks)
<1>1. IsLoops(chosen, k, masks)
  <2>1. \E g : IsLoops(g, k, masks)
    BY LoopsExist
  <2> QED
    BY <2>1
<1>2. InOrder(k, masks) = chosen[start]
  BY DEF InOrder, IsLoops, LoopStates, Level
<1>3. start \in S /\ \A c \in start[3] : c >= start[1]
  BY DeckIs DEF LoopStates
<1> HIDE DEF chosen, start
<1> QED
  BY <1>1, <1>2, <1>3, LoopsAscend

-----------------------------------------------------------------------------
(* Lists of combos.                                                        *)

Weighted == [mask : SUBSET Deck, weight : Int]
CombosAscend(s) == \A i, j \in 1 .. Len(s) : i < j => MaskLess(s[i].mask, s[j].mask)
Pair(c) == <<c.mask, c.weight>>
FirstsOf(set) == {p[1] : p \in set}

(* A list of combos is a sequence of masks with their weights.             *)
LEMMA Lists == ComboLists = Seq(Weighted)
BY DEF ComboLists, Weighted

(* A list means the pairs of its entries.                                  *)
LEMMA MeaningIs ==
  ASSUME NEW s \in ComboLists
  PROVE  \A p : p \in Meaning(s) <=> \E i \in 1 .. Len(s) : p = Pair(s[i])
BY DEF Meaning, Pair, ComboLists

(* An entry of a list has a mask and a weight.                             *)
LEMMA EntryIs ==
  ASSUME NEW s \in ComboLists, NEW i \in 1 .. Len(s)
  PROVE  s[i] \in Weighted /\ s[i].mask \in SUBSET Deck /\ s[i].weight \in Int
<1>1. s[i] \in Weighted
  BY Lists, ElementOfSeq
<1> QED
  BY <1>1 DEF Weighted

(* Two lists one after the other.                                          *)
LEMMA Joined ==
  ASSUME NEW s \in ComboLists, NEW t \in ComboLists
  PROVE  /\ s \o t \in ComboLists /\ Len(s \o t) = Len(s) + Len(t)
         /\ Len(s) \in Nat /\ Len(t) \in Nat
         /\ \A i \in 1 .. Len(s) : (s \o t)[i] = s[i]
         /\ \A i \in 1 .. Len(t) : (s \o t)[Len(s) + i] = t[i]
         /\ \A i \in 1 .. Len(s \o t) : i \in 1 .. Len(s) \/ \E j \in 1 .. Len(t) : i = Len(s) + j
<1> DEFINE l == Len(s)
           m == Len(t)
           u == s \o t
<1>1. l \in Nat /\ m \in Nat
  BY Lists, LenProperties
<1>2. u \in ComboLists /\ Len(u) = l + m /\ \A i \in 1 .. l + m : u[i] = IF i <= l THEN s[i] ELSE t[i - l]
  BY Lists, ConcatProperties
<1> HIDE DEF l, m, u
<1>3. \A i \in 1 .. l : u[i] = s[i]
  BY <1>1, <1>2
<1>4. \A i \in 1 .. m : u[l + i] = t[i]
  <2> TAKE i \in 1 .. m
  <2> DEFINE k == l + i
  <2>1. k \in 1 .. l + m /\ ~(k <= l) /\ k - l = i
    BY <1>1
  <2> HIDE DEF k
  <2>2. u[k] = t[i]
    BY <1>2, <2>1
  <2> QED
    BY <2>2 DEF k
<1>5. \A i \in 1 .. l + m : i \in 1 .. l \/ \E j \in 1 .. m : i = l + j
  <2> TAKE i \in 1 .. l + m
  <2>1. CASE i <= l
    BY <1>1, <2>1
  <2>2. CASE ~(i <= l)
    <3>1. i - l \in 1 .. m /\ i = l + (i - l)
      BY <1>1, <2>2
    <3> QED
      BY <3>1
  <2> QED
    BY <2>1, <2>2
<1> QED
  BY <1>1, <1>2, <1>3, <1>4, <1>5 DEF l, m, u

(* Two lists one after the other mean what both mean.                      *)
LEMMA JoinedMeans ==
  ASSUME NEW s \in ComboLists, NEW t \in ComboLists
  PROVE  Meaning(s \o t) = Meaning(s) \union Meaning(t)
<1> DEFINE u == s \o t
<1>1. /\ u \in ComboLists /\ Len(u) = Len(s) + Len(t)
      /\ Len(s) \in Nat /\ Len(t) \in Nat
      /\ \A i \in 1 .. Len(s) : u[i] = s[i]
      /\ \A i \in 1 .. Len(t) : u[Len(s) + i] = t[i]
      /\ \A i \in 1 .. Len(u) : i \in 1 .. Len(s) \/ \E j \in 1 .. Len(t) : i = Len(s) + j
  BY Joined
<1>2. /\ \A p : p \in Meaning(s) <=> \E i \in 1 .. Len(s) : p = Pair(s[i])
      /\ \A p : p \in Meaning(t) <=> \E i \in 1 .. Len(t) : p = Pair(t[i])
      /\ \A p : p \in Meaning(u) <=> \E i \in 1 .. Len(u) : p = Pair(u[i])
  BY <1>1, MeaningIs
<1> HIDE DEF u
<1>3. ASSUME NEW p, p \in Meaning(u)
      PROVE  p \in Meaning(s) \/ p \in Meaning(t)
  <2>1. PICK i \in 1 .. Len(u) : p = Pair(u[i])
    BY <1>2, <1>3
  <2> QED
    BY <1>1, <1>2, <2>1
<1>4. ASSUME NEW p, p \in Meaning(s)
      PROVE  p \in Meaning(u)
  <2>1. PICK i \in 1 .. Len(s) : p = Pair(s[i])
    BY <1>2, <1>4
  <2>2. i \in 1 .. Len(u)
    BY <1>1
  <2> QED
    BY <1>1, <1>2, <2>1, <2>2
<1>5. ASSUME NEW p, p \in Meaning(t)
      PROVE  p \in Meaning(u)
  <2>1. PICK i \in 1 .. Len(t) : p = Pair(t[i])
    BY <1>2, <1>5
  <2>2. Len(s) + i \in 1 .. Len(u)
    BY <1>1
  <2> QED
    BY <1>1, <1>2, <2>1, <2>2
<1>6. Meaning(u) = Meaning(s) \union Meaning(t)
  BY <1>3, <1>4, <1>5
<1> QED
  BY <1>6 DEF u

(* Two ascending lists, the first before the second.                       *)
LEMMA JoinedAscend ==
  ASSUME NEW s \in ComboLists, NEW t \in ComboLists, CombosAscend(s), CombosAscend(t),
         \A i \in 1 .. Len(s) : \A j \in 1 .. Len(t) : MaskLess(s[i].mask, t[j].mask)
  PROVE  CombosAscend(s \o t)
<1> DEFINE l == Len(s)
           m == Len(t)
           u == s \o t
<1>1. /\ u \in ComboLists /\ Len(u) = l + m
      /\ l \in Nat /\ m \in Nat
      /\ \A i \in 1 .. l : u[i] = s[i]
      /\ \A i \in 1 .. m : u[l + i] = t[i]
      /\ \A i \in 1 .. Len(u) : i \in 1 .. l \/ \E j \in 1 .. m : i = l + j
  BY Joined
<1>2. /\ \A i, j \in 1 .. l : i < j => MaskLess(s[i].mask, s[j].mask)
      /\ \A i, j \in 1 .. m : i < j => MaskLess(t[i].mask, t[j].mask)
      /\ \A i \in 1 .. l : \A j \in 1 .. m : MaskLess(s[i].mask, t[j].mask)
  BY DEF CombosAscend
<1> HIDE DEF l, m, u
<1>3. ASSUME NEW i \in 1 .. Len(u), NEW j \in 1 .. Len(u), i < j
      PROVE  MaskLess(u[i].mask, u[j].mask)
  <2>1. CASE i \in 1 .. l /\ j \in 1 .. l
    BY <1>1, <1>2, <1>3, <2>1
  <2>2. CASE i \in 1 .. l /\ j \notin 1 .. l
    <3>1. PICK n \in 1 .. m : j = l + n
      BY <1>1, <2>2
    <3> QED
      BY <1>1, <1>2, <2>2, <3>1
  <2>3. CASE i \notin 1 .. l
    <3>1. PICK k \in 1 .. m : i = l + k
      BY <1>1, <2>3
    <3>2. j \notin 1 .. l
      BY <1>1, <1>3, <2>3
    <3>3. PICK n \in 1 .. m : j = l + n
      BY <1>1, <3>2
    <3>4. k < n
      BY <1>1, <1>3, <3>1, <3>3
    <3> QED
      BY <1>1, <1>2, <3>1, <3>3, <3>4
  <2> QED
    BY <2>1, <2>2, <2>3
<1>4. CombosAscend(u)
  BY <1>3 DEF CombosAscend
<1> QED
  BY <1>4 DEF u

(* A list of one combo, and a part of a list.                              *)
LEMMA OneCombo ==
  ASSUME NEW c \in Weighted
  PROVE  /\ <<c>> \in ComboLists /\ Len(<<c>>) = 1 /\ <<c>>[1] = c
         /\ CombosAscend(<<c>>) /\ Meaning(<<c>>) = {Pair(c)}
<1>1. <<c>> \in ComboLists /\ Len(<<c>>) = 1 /\ <<c>>[1] = c
  BY Lists
<1>2. CombosAscend(<<c>>)
  BY <1>1 DEF CombosAscend
<1>3. \A p : p \in Meaning(<<c>>) <=> p = Pair(c)
  BY <1>1, MeaningIs
<1> QED
  BY <1>1, <1>2, <1>3

(* The empty list means nothing and is in order.                           *)
LEMMA NoCombo == << >> \in ComboLists /\ Len(<< >>) = 0 /\ CombosAscend(<< >>) /\ Meaning(<< >>) = {}
<1>1. << >> \in ComboLists /\ Len(<< >>) = 0
  BY Lists, EmptySeq
<1>2. CombosAscend(<< >>)
  BY <1>1 DEF CombosAscend
<1>3. \A p : p \notin Meaning(<< >>)
  BY <1>1, MeaningIs
<1> QED
  BY <1>1, <1>2, <1>3

(* A part of an ascending list ascends.                                    *)
LEMMA PartOfList ==
  ASSUME NEW s \in ComboLists, NEW m \in Nat, NEW n \in Nat, m >= 1, m <= n + 1, n <= Len(s)
  PROVE  /\ SubSeq(s, m, n) \in ComboLists /\ Len(SubSeq(s, m, n)) = n + 1 - m
         /\ \A i \in 1 .. n + 1 - m : SubSeq(s, m, n)[i] = s[m + i - 1]
         /\ CombosAscend(s) => CombosAscend(SubSeq(s, m, n))
<1> DEFINE u == SubSeq(s, m, n)
           e == n + 1 - m
<1>1. Len(s) \in Nat
  BY Lists, LenProperties
<1>2. \A i \in m .. n : s[i] \in Weighted
  BY <1>1, EntryIs
<1>3. m \in Int /\ n \in Int
  OBVIOUS
<1>4. /\ u \in Seq(Weighted)
      /\ Len(u) = IF m <= n THEN n - m + 1 ELSE 0
      /\ \A i \in 1 .. n - m + 1 : u[i] = s[m + i - 1]
  BY <1>2, <1>3, SubSeqProperties
<1> HIDE DEF u
<1>5. u \in ComboLists /\ Len(u) = e /\ \A i \in 1 .. e : u[i] = s[m + i - 1]
  BY <1>4, Lists
<1>6. ASSUME CombosAscend(s), NEW i \in 1 .. e, NEW j \in 1 .. e, i < j
      PROVE  MaskLess(u[i].mask, u[j].mask)
  <2> DEFINE a == m + i - 1
             b == m + j - 1
  <2>1. a \in 1 .. Len(s) /\ b \in 1 .. Len(s) /\ a < b
    BY <1>1, <1>6
  <2>2. u[i] = s[a] /\ u[j] = s[b]
    BY <1>5
  <2> HIDE DEF a, b
  <2> QED
    BY <1>6, <2>1, <2>2 DEF CombosAscend
<1> QED
  BY <1>5, <1>6 DEF u, CombosAscend
-----------------------------------------------------------------------------
(* Sorting by insertion.                                                   *)

(* d is how many combos from the back of s come after c.                   *)
GoesBefore(d, s, c) ==
  /\ d = Len(s) \/ MaskLess(s[Len(s) - d].mask, c.mask)
  /\ d = 0 \/ ~MaskLess(s[Len(s) - d + 1].mask, c.mask)

(* There is a place for any combo in any list.                             *)
LEMMA InsertIs ==
  ASSUME NEW s \in ComboLists, NEW c \in Weighted
  PROVE  \E d \in 0 .. Len(s) :
           /\ GoesBefore(d, s, c)
           /\ Insert(s, c) = SubSeq(s, 1, Len(s) - d) \o <<c>> \o SubSeq(s, Len(s) - d + 1, Len(s))
<1> DEFINE l == Len(s)
           Lower(n) == MaskLess(s[l - n].mask, c.mask)
           T == {n \in 0 .. l : n = l \/ Lower(n)}
           chosen == CHOOSE n \in 0 .. l : GoesBefore(n, s, c)
<1>1. l \in Nat
  BY Lists, LenProperties
<1>2. T \subseteq Nat /\ T # {}
  <2>1. l \in 0 .. l
    BY <1>1
  <2> HIDE DEF Lower
  <2> QED
    BY <1>1, <2>1
<1>3. PICK n \in T : \A m \in T : n <= m
  <2> HIDE DEF T
  <2> QED
    BY <1>2, LeastNumber
<1>4. n \in 0 .. l /\ (n = l \/ Lower(n))
  OBVIOUS
<1>5. n = 0 \/ ~Lower(n - 1)
  <2>1. ASSUME n # 0, Lower(n - 1)
        PROVE  FALSE
    <3>1. n - 1 \in 0 .. l /\ ~(n <= n - 1)
      BY <1>1, <1>4, <2>1
    <3>2. n - 1 \in T
      <4> HIDE DEF l, Lower
      <4> QED
        BY <2>1, <3>1
    <3> QED
      BY <1>3, <3>1, <3>2
  <2> HIDE DEF Lower
  <2> QED
    BY <2>1
<1>6. l - (n - 1) = l - n + 1
  BY <1>1, <1>4
<1>7. GoesBefore(n, s, c)
  BY <1>4, <1>5, <1>6 DEF GoesBefore
<1>8. chosen \in 0 .. l /\ GoesBefore(chosen, s, c)
  <2>1. \E x \in 0 .. l : GoesBefore(x, s, c)
    BY <1>4, <1>7
  <2> HIDE DEF l
  <2> QED
    BY <2>1
<1>9. Insert(s, c) = SubSeq(s, 1, l - chosen) \o <<c>> \o SubSeq(s, l - chosen + 1, l)
  BY DEF Insert, GoesBefore
<1> HIDE DEF chosen
<1> QED
  BY <1>8, <1>9

(* An insertion gives a list.                                              *)
LEMMA InsertTyped ==
  ASSUME NEW s \in ComboLists, NEW c \in Weighted
  PROVE  Insert(s, c) \in ComboLists
<1>1. PICK d \in 0 .. Len(s) :
        Insert(s, c) = SubSeq(s, 1, Len(s) - d) \o <<c>> \o SubSeq(s, Len(s) - d + 1, Len(s))
  BY InsertIs
<1> DEFINE m == Len(s) - d
           k == Len(s) - d + 1
           n == Len(s)
<1>2. n \in Nat
  BY Lists, LenProperties
<1>3. m \in Nat /\ k \in Nat /\ k >= 1 /\ k <= n + 1 /\ m <= n /\ 1 <= m + 1 /\ n <= n /\ 1 \in Nat /\ 1 >= 1
  BY <1>2
<1>4. Insert(s, c) = SubSeq(s, 1, m) \o <<c>> \o SubSeq(s, k, n)
  BY <1>1
<1> HIDE DEF m, k
<1>5. SubSeq(s, 1, m) \in ComboLists /\ SubSeq(s, k, n) \in ComboLists
  BY <1>2, <1>3, PartOfList
<1>6. <<c>> \in ComboLists
  BY OneCombo
<1>7. SubSeq(s, 1, m) \o <<c>> \in ComboLists
  BY <1>5, <1>6, Joined
<1> QED
  BY <1>4, <1>5, <1>7, Joined

(* A combo with a new mask, inserted into an ascending list.               *)
LEMMA InsertAscends ==
  ASSUME NEW s \in ComboLists, NEW c \in Weighted, CombosAscend(s), c.mask \notin FirstsOf(Meaning(s))
  PROVE  CombosAscend(Insert(s, c)) /\ Meaning(Insert(s, c)) = Meaning(s) \union {Pair(c)}
<1>1. PICK d \in 0 .. Len(s) :
        /\ GoesBefore(d, s, c)
        /\ Insert(s, c) = SubSeq(s, 1, Len(s) - d) \o <<c>> \o SubSeq(s, Len(s) - d + 1, Len(s))
  BY InsertIs
<1> DEFINE n == Len(s)
           m == Len(s) - d
           k == Len(s) - d + 1
           left == SubSeq(s, 1, m)
           right == SubSeq(s, k, n)
<1>2. n \in Nat
  BY Lists, LenProperties
<1>3. /\ m \in Nat /\ k \in Nat /\ k >= 1 /\ k <= n + 1 /\ m <= n /\ 1 <= m + 1 /\ n <= n /\ 1 \in Nat /\ 1 >= 1
      /\ m = n - d /\ k = m + 1 /\ d \in Nat /\ d <= n
  BY <1>2
<1>4. Insert(s, c) = left \o <<c>> \o right
  BY <1>1
<1>5. /\ m = 0 \/ MaskLess(s[m].mask, c.mask)
      /\ d = 0 \/ ~MaskLess(s[k].mask, c.mask)
  <2>1. d = n \/ MaskLess(s[m].mask, c.mask)
    BY <1>1 DEF GoesBefore
  <2>2. d = 0 \/ ~MaskLess(s[k].mask, c.mask)
    BY <1>1 DEF GoesBefore
  <2> HIDE DEF n, m, k
  <2>3. d = n => m = 0
    BY <1>3
  <2> QED
    BY <2>1, <2>2, <2>3
<1> HIDE DEF m, k, n
<1>6. /\ left \in ComboLists /\ Len(left) = m
      /\ \A i \in 1 .. m : left[i] = s[i]
      /\ CombosAscend(left)
  <2>1. /\ left \in ComboLists /\ Len(left) = m + 1 - 1
        /\ \A i \in 1 .. m + 1 - 1 : left[i] = s[1 + i - 1]
        /\ CombosAscend(left)
    BY <1>3, PartOfList DEF n
  <2>2. m + 1 - 1 = m /\ \A i \in 1 .. m : 1 + i - 1 = i
    BY <1>3
  <2> HIDE DEF left
  <2> QED
    BY <2>1, <2>2
<1>7. /\ right \in ComboLists /\ Len(right) = d
      /\ \A i \in 1 .. d : right[i] = s[m + i]
      /\ CombosAscend(right)
  <2>1. /\ right \in ComboLists /\ Len(right) = n + 1 - k
        /\ \A i \in 1 .. n + 1 - k : right[i] = s[k + i - 1]
        /\ CombosAscend(right)
    BY <1>3, PartOfList DEF n
  <2>2. n + 1 - k = d /\ \A i \in 1 .. d : k + i - 1 = m + i
    BY <1>2, <1>3
  <2> HIDE DEF right
  <2> QED
    BY <2>1, <2>2
<1>8. \A i \in 1 .. n : s[i].mask \in SUBSET Deck /\ s[i].mask # c.mask
  <2> TAKE i \in 1 .. n
  <2>1. s[i].mask \in SUBSET Deck
    BY EntryIs DEF n
  <2>2. Pair(s[i]) \in Meaning(s)
    BY MeaningIs DEF n
  <2>3. s[i].mask \in FirstsOf(Meaning(s))
    <3>1. Pair(s[i])[1] = s[i].mask
      BY DEF Pair
    <3> QED
      BY <2>2, <3>1 DEF FirstsOf
  <2> QED
    BY <2>1, <2>3
<1>9. c.mask \in SUBSET Deck
  BY DEF Weighted
<1>10. \A i \in 1 .. m : MaskLess(s[i].mask, c.mask)
  <2> TAKE i \in 1 .. m
  <2>1. m # 0 /\ m \in 1 .. n /\ i \in 1 .. n /\ (i = m \/ i < m)
    BY <1>2, <1>3
  <2>2. MaskLess(s[m].mask, c.mask)
    BY <1>5, <2>1
  <2>3. CASE i < m
    <3>1. MaskLess(s[i].mask, s[m].mask)
      BY <2>1, <2>3 DEF CombosAscend, n
    <3> QED
      BY <1>8, <1>9, <2>1, <2>2, <3>1, LessThenLess
  <2> QED
    BY <2>1, <2>2, <2>3
<1>11. \A i \in 1 .. d : MaskLess(c.mask, s[m + i].mask)
  <2> TAKE i \in 1 .. d
  <2>1. d # 0 /\ k \in 1 .. n /\ m + i \in 1 .. n /\ (m + i = k \/ k < m + i)
    BY <1>2, <1>3
  <2>2. MaskLess(c.mask, s[k].mask)
    BY <1>5, <1>8, <1>9, <2>1, SomeLess
  <2>3. CASE k < m + i
    <3>1. MaskLess(s[k].mask, s[m + i].mask)
      BY <2>1, <2>3 DEF CombosAscend, n
    <3> QED
      BY <1>8, <1>9, <2>1, <2>2, <3>1, LessThenLess
  <2> QED
    BY <2>1, <2>2, <2>3
<1>12. \A i \in 1 .. m : \A j \in 1 .. d : MaskLess(s[i].mask, s[m + j].mask)
  <2> TAKE i \in 1 .. m
  <2> TAKE j \in 1 .. d
  <2>1. i \in 1 .. n /\ m + j \in 1 .. n
    BY <1>2, <1>3
  <2> QED
    BY <1>8, <1>9, <1>10, <1>11, <2>1, LessThenLess
<1> HIDE DEF left, right
<1> DEFINE one == <<c>>
           both == left \o one
<1>13. /\ one \in ComboLists /\ Len(one) = 1 /\ one[1] = c
       /\ CombosAscend(one) /\ Meaning(one) = {Pair(c)}
  BY OneCombo
<1> HIDE DEF one
<1>14. both \in ComboLists /\ Len(both) = m + 1 /\ (\A i \in 1 .. m : both[i] = s[i]) /\ both[m + 1] = c
  <2>1. /\ both \in ComboLists /\ Len(both) = Len(left) + Len(one)
        /\ \A i \in 1 .. Len(left) : both[i] = left[i]
        /\ \A i \in 1 .. Len(one) : both[Len(left) + i] = one[i]
    BY <1>6, <1>13, Joined
  <2>2. 1 \in 1 .. Len(one)
    BY <1>13
  <2> HIDE DEF both
  <2> QED
    BY <1>6, <1>13, <2>1, <2>2
<1>15. CombosAscend(both)
  <2>1. \A i \in 1 .. Len(left) : \A j \in 1 .. Len(one) : MaskLess(left[i].mask, one[j].mask)
    BY <1>6, <1>10, <1>13
  <2> QED
    BY <1>6, <1>13, <2>1, JoinedAscend
<1>16. Meaning(both) = Meaning(left) \union {Pair(c)}
  BY <1>6, <1>13, JoinedMeans
<1> HIDE DEF both
<1>17. CombosAscend(both \o right)
  <2>1. \A i \in 1 .. Len(both) : \A j \in 1 .. Len(right) : MaskLess(both[i].mask, right[j].mask)
    <3> TAKE i \in 1 .. Len(both)
    <3> TAKE j \in 1 .. Len(right)
    <3>1. i \in 1 .. m \/ i = m + 1
      BY <1>3, <1>14
    <3>2. j \in 1 .. d
      BY <1>7
    <3> QED
      BY <1>7, <1>11, <1>12, <1>14, <3>1, <3>2
  <2> QED
    BY <1>7, <1>14, <1>15, <2>1, JoinedAscend
<1>18. Meaning(both \o right) = Meaning(left) \union {Pair(c)} \union Meaning(right)
  BY <1>7, <1>14, <1>16, JoinedMeans
<1>19. Meaning(s) = Meaning(left) \union Meaning(right)
  <2>1. /\ \A p : p \in Meaning(s) <=> \E i \in 1 .. n : p = Pair(s[i])
        /\ \A p : p \in Meaning(left) <=> \E i \in 1 .. m : p = Pair(s[i])
        /\ \A p : p \in Meaning(right) <=> \E i \in 1 .. d : p = Pair(s[m + i])
    <3>1. \A p : p \in Meaning(s) <=> \E i \in 1 .. n : p = Pair(s[i])
      BY MeaningIs DEF n
    <3>2. \A p : p \in Meaning(left) <=> \E i \in 1 .. m : p = Pair(s[i])
      <4>1. \A p : p \in Meaning(left) <=> \E i \in 1 .. m : p = Pair(left[i])
        BY <1>6, MeaningIs
      <4>2. \A i \in 1 .. m : left[i] = s[i]
        BY <1>6
      <4> QED
        BY <4>1, <4>2
    <3>3. \A p : p \in Meaning(right) <=> \E i \in 1 .. d : p = Pair(s[m + i])
      <4>1. \A p : p \in Meaning(right) <=> \E i \in 1 .. d : p = Pair(right[i])
        BY <1>7, MeaningIs
      <4>2. \A i \in 1 .. d : right[i] = s[m + i]
        BY <1>7
      <4> QED
        BY <4>1, <4>2
    <3> QED
      BY <3>1, <3>2, <3>3
  <2>2. ASSUME NEW p, p \in Meaning(s)
        PROVE  p \in Meaning(left) \/ p \in Meaning(right)
    <3>1. PICK i \in 1 .. n : p = Pair(s[i])
      BY <2>1, <2>2
    <3>2. CASE i <= m
      <4>1. i \in 1 .. m
        BY <1>2, <1>3, <3>2
      <4> QED
        BY <2>1, <3>1, <4>1
    <3>3. CASE ~(i <= m)
      <4> DEFINE j == i - m
      <4>1. j \in 1 .. d /\ m + j = i
        BY <1>2, <1>3, <3>3
      <4> HIDE DEF j
      <4> QED
        BY <2>1, <3>1, <4>1
    <3> QED
      BY <3>2, <3>3
  <2>3. ASSUME NEW p, p \in Meaning(left)
        PROVE  p \in Meaning(s)
    <3>1. PICK i \in 1 .. m : p = Pair(s[i])
      BY <2>1, <2>3
    <3>2. i \in 1 .. n
      BY <1>2, <1>3
    <3> QED
      BY <2>1, <3>1, <3>2
  <2>4. ASSUME NEW p, p \in Meaning(right)
        PROVE  p \in Meaning(s)
    <3>1. PICK i \in 1 .. d : p = Pair(s[m + i])
      BY <2>1, <2>4
    <3>2. m + i \in 1 .. n
      BY <1>2, <1>3
    <3> QED
      BY <2>1, <3>1, <3>2
  <2> QED
    BY <2>2, <2>3, <2>4
<1>20. Insert(s, c) = both \o right
  BY <1>4 DEF both, one
<1> QED
  BY <1>17, <1>18, <1>19, <1>20

(* A list whose masks are all different has no mask twice.                 *)
LEMMA NoneTwice ==
  ASSUME NEW s \in ComboLists, NoRepeats(s)
  PROVE  \A i, j \in 1 .. Len(s) : s[i].mask = s[j].mask => i = j
<1> DEFINE n == Len(s)
           I == 1 .. n
           f == [i \in I |-> s[i].mask]
           T == MaskSet(s)
<1>1. n \in Nat
  BY Lists, LenProperties
<1>2. DOMAIN s = I
  BY Lists, LenProperties
<1>3. \A m : m \in T <=> \E i \in I : m = s[i].mask
  BY <1>2 DEF MaskSet
<1>4. Cardinality(T) = n
  BY DEF NoRepeats
<1>5. IsFiniteSet(I) /\ Cardinality(I) = n
  <2>1. 1 \in Int /\ n \in Int
    BY <1>1
  <2>2. IsFiniteSet(1 .. n) /\ Cardinality(1 .. n) = IF 1 > n THEN 0 ELSE n - 1 + 1
    BY <2>1, FS_Interval
  <2> HIDE DEF n
  <2> QED
    BY <1>1, <2>2
<1> HIDE DEF T, n, I
<1>6. f \in Surjection(I, T)
  BY <1>3 DEF Surjection
<1> HIDE DEF f
<1>7. f \in Injection(I, T)
  BY <1>4, <1>5, <1>6, FS_Surjection
<1>8. \A i, j \in I : f[i] = f[j] => i = j
  BY <1>7 DEF Injection, IsInjective
<1>9. \A i \in I : f[i] = s[i].mask
  BY DEF f
<1> QED
  BY <1>8, <1>9 DEF I, n

(* The loop of the sort.                                                   *)
IsSort(g, combos) ==
  g = [n \in 0 .. Len(combos) |-> IF n = 0 THEN << >> ELSE Insert(g[n - 1], combos[n])]

(* The recursion of the sort has a solution.                               *)
LEMMA SortExists ==
  ASSUME NEW combos \in ComboLists
  PROVE  \E g : IsSort(g, combos)
<1> DEFINE m == Len(combos)
           D == ComboLists
           start == << >>
           step == [i \in 1 .. m |-> [s \in D |-> Insert(s, combos[i])]]
<1>1. m \in Nat
  BY Lists, LenProperties
<1>2. start \in D
  BY NoCombo
<1>3. \A i \in 1 .. m : \A s \in D : Insert(s, combos[i]) \in D
  BY EntryIs, InsertTyped
<1>4. step \in [1 .. m -> [D -> D]]
  <2> HIDE DEF D, m
  <2> QED
    BY <1>3
<1>5. PICK g : Solves(g, m, D, start, step)
  <2> HIDE DEF m, D, start, step
  <2> QED
    BY <1>1, <1>2, <1>4, Recursion
<1>6. g \in [0 .. m -> D] /\ g[0] = << >> /\ \A i \in 1 .. m : g[i] = step[i][g[i - 1]]
  BY <1>5 DEF Solves
<1>7. \A i \in 1 .. m : g[i] = Insert(g[i - 1], combos[i])
  <2> TAKE i \in 1 .. m
  <2>1. i - 1 \in 0 .. m
    BY <1>1
  <2>2. g[i - 1] \in D
    <3> HIDE DEF D, step
    <3> QED
      BY <1>6, <2>1
  <2>3. g[i] = step[i][g[i - 1]]
    BY <1>6
  <2> HIDE DEF m, D
  <2> QED
    BY <2>2, <2>3
<1>8. \A n \in 0 .. m : n = 0 \/ n \in 1 .. m
  BY <1>1
<1>9. g = [n \in 0 .. m |-> IF n = 0 THEN << >> ELSE Insert(g[n - 1], combos[n])]
  <2>1. \A n \in 0 .. m : g[n] = IF n = 0 THEN << >> ELSE Insert(g[n - 1], combos[n])
    BY <1>6, <1>7, <1>8
  <2> HIDE DEF m, D
  <2> QED
    BY <1>6, <2>1
<1> QED
  BY <1>9 DEF IsSort

(* A list without repeats, sorted: ascending, and with the same combos.    *)
LEMMA SortedWell ==
  ASSUME NEW combos \in ComboLists, NoRepeats(combos)
  PROVE  /\ SortedCombos(combos) \in ComboLists
         /\ CombosAscend(SortedCombos(combos))
         /\ Meaning(SortedCombos(combos)) = Meaning(combos)
<1> DEFINE m == Len(combos)
           g == CHOOSE f : IsSort(f, combos)
           Upto(n) == {Pair(combos[i]) : i \in 1 .. n}
           Right(n) == g[n] \in ComboLists /\ CombosAscend(g[n]) /\ Meaning(g[n]) = Upto(n)
           Wrong == {n \in 0 .. m : ~Right(n)}
<1>1. m \in Nat
  BY Lists, LenProperties
<1>2. IsSort(g, combos)
  <2>1. \E f : IsSort(f, combos)
    BY SortExists
  <2> QED
    BY <2>1
<1>3. SortedCombos(combos) = g[m]
  BY DEF SortedCombos, IsSort
<1> HIDE DEF g
<1>4. \A n \in 0 .. m : g[n] = IF n = 0 THEN << >> ELSE Insert(g[n - 1], combos[n])
  BY <1>2 DEF IsSort
<1>5. Right(0)
  <2>1. g[0] = << >>
    BY <1>1, <1>4
  <2>2. Upto(0) = {}
    OBVIOUS
  <2> QED
    BY <2>1, <2>2, NoCombo
<1>6. ASSUME NEW n \in 1 .. m, Right(n - 1)
      PROVE  Right(n)
  <2> DEFINE s == g[n - 1]
             c == combos[n]
  <2>1. n \in 0 .. m /\ n # 0 /\ \A i : i \in 1 .. n <=> i \in 1 .. n - 1 \/ i = n
    BY <1>1
  <2>2. g[n] = Insert(s, c)
    BY <1>4, <2>1
  <2>3. s \in ComboLists /\ CombosAscend(s) /\ Meaning(s) = Upto(n - 1)
    BY <1>6
  <2>4. c \in Weighted
    BY EntryIs
  <2>5. c.mask \notin FirstsOf(Meaning(s))
    <3> SUFFICES ASSUME NEW p \in Meaning(s), c.mask = p[1] PROVE FALSE
      BY DEF FirstsOf
    <3>1. PICK i \in 1 .. n - 1 : p = Pair(combos[i])
      BY <2>3
    <3>2. combos[i].mask = combos[n].mask
      BY <3>1 DEF Pair
    <3>3. i \in 1 .. m /\ n \in 1 .. m /\ i # n
      BY <1>1
    <3> QED
      BY <3>2, <3>3, NoneTwice
  <2>6. Insert(s, c) \in ComboLists
    BY <2>3, <2>4, InsertTyped
  <2>7. CombosAscend(Insert(s, c)) /\ Meaning(Insert(s, c)) = Meaning(s) \union {Pair(c)}
    BY <2>3, <2>4, <2>5, InsertAscends
  <2>8. Upto(n) = Upto(n - 1) \union {Pair(c)}
    BY <2>1
  <2> QED
    BY <2>2, <2>3, <2>6, <2>7, <2>8
<1>7. Wrong = {}
  <2> SUFFICES ASSUME Wrong # {} PROVE FALSE
    OBVIOUS
  <2>1. Wrong \subseteq Nat
    BY <1>1
  <2>2. PICK n \in Wrong : \A k \in Wrong : n <= k
    <3> HIDE DEF Wrong
    <3> QED
      BY <2>1, LeastNumber
  <2> HIDE DEF Right
  <2>3. n # 0
    BY <1>5, <2>2
  <2>4. n \in 1 .. m /\ n - 1 \in 0 .. m /\ ~(n <= n - 1)
    BY <1>1, <2>2, <2>3
  <2>5. Right(n - 1)
    BY <2>2, <2>4
  <2> QED
    BY <1>6, <2>2, <2>4, <2>5
<1>8. Right(m)
  <2>1. m \in 0 .. m
    BY <1>1
  <2> HIDE DEF Right
  <2> QED
    BY <1>7, <2>1
<1>9. Upto(m) = Meaning(combos)
  <2>1. \A p : p \in Meaning(combos) <=> \E i \in 1 .. m : p = Pair(combos[i])
    BY MeaningIs
  <2> QED
    BY <2>1
<1> QED
  BY <1>3, <1>8, <1>9
-----------------------------------------------------------------------------
(* The merges.                                                             *)

Has(set, m) == \E x : <<m, x>> \in set

(* What an operation gives for two sets of pairs of a mask and a weight.   *)
Gives(op, A, B, m, w) ==
  /\ w > 0
  /\ \/ <<m, w>> \in A /\ ~Has(B, m) /\ KeepsLeft(op)
     \/ <<m, w>> \in B /\ ~Has(A, m) /\ KeepsRight(op)
     \/ \E x, y : <<m, x>> \in A /\ <<m, y>> \in B /\ w = Weigh(op, x, y)

(* A pair of one set only, of the other only, and a mask of both.          *)
LEMMA LeftOnly ==
  ASSUME NEW op, NEW A, NEW B, NEW C, NEW n, NEW v, A = C \union {<<n, v>>}, ~Has(C, n), ~Has(B, n), NEW m, NEW w
  PROVE  Gives(op, A, B, m, w) <=> Gives(op, C, B, m, w) \/ (KeepsLeft(op) /\ v > 0 /\ m = n /\ w = v)
<1>1. \A k, x : <<k, x>> \in A <=> <<k, x>> \in C \/ (k = n /\ x = v)
  OBVIOUS
<1>2. (\A x : <<n, x>> \notin C) /\ (\A x : <<n, x>> \notin B)
  BY DEF Has
<1>3. CASE m = n
  BY <1>1, <1>2, <1>3 DEF Gives, Has
<1>4. CASE m # n
  <2>1. (\A x : <<m, x>> \in A <=> <<m, x>> \in C) /\ (Has(A, m) <=> Has(C, m))
    BY <1>1, <1>4 DEF Has
  <2> QED
    BY <1>4, <2>1 DEF Gives
<1> QED
  BY <1>3, <1>4

(* A mask that only the right set has: its pair stays when the operation   *)
(* keeps the right side.                                                   *)
LEMMA RightOnly ==
  ASSUME NEW op, NEW A, NEW B, NEW C, NEW n, NEW v, B = C \union {<<n, v>>}, ~Has(C, n), ~Has(A, n), NEW m, NEW w
  PROVE  Gives(op, A, B, m, w) <=> Gives(op, A, C, m, w) \/ (KeepsRight(op) /\ v > 0 /\ m = n /\ w = v)
<1>1. \A k, x : <<k, x>> \in B <=> <<k, x>> \in C \/ (k = n /\ x = v)
  OBVIOUS
<1>2. (\A x : <<n, x>> \notin C) /\ (\A x : <<n, x>> \notin A)
  BY DEF Has
<1>3. CASE m = n
  BY <1>1, <1>2, <1>3 DEF Gives, Has
<1>4. CASE m # n
  <2>1. (\A x : <<m, x>> \in B <=> <<m, x>> \in C) /\ (Has(B, m) <=> Has(C, m))
    BY <1>1, <1>4 DEF Has
  <2> QED
    BY <1>4, <2>1 DEF Gives
<1> QED
  BY <1>3, <1>4

(* A mask of both sets: what the operation makes of the two weights.       *)
LEMMA OfBoth ==
  ASSUME NEW op, NEW A, NEW B, NEW C, NEW D, NEW n, NEW u, NEW v,
         A = C \union {<<n, u>>}, B = D \union {<<n, v>>}, ~Has(C, n), ~Has(D, n), NEW m, NEW w
  PROVE  Gives(op, A, B, m, w) <=>
           Gives(op, C, D, m, w) \/ (Weigh(op, u, v) > 0 /\ m = n /\ w = Weigh(op, u, v))
<1>1. /\ \A k, x : <<k, x>> \in A <=> <<k, x>> \in C \/ (k = n /\ x = u)
      /\ \A k, x : <<k, x>> \in B <=> <<k, x>> \in D \/ (k = n /\ x = v)
  OBVIOUS
<1>2. (\A x : <<n, x>> \notin C) /\ (\A x : <<n, x>> \notin D)
  BY DEF Has
<1>3. CASE m = n
  <2>1. Has(A, m) /\ Has(B, m)
    BY <1>1, <1>3 DEF Has
  <2>2. ~Gives(op, C, D, m, w)
    BY <1>2, <1>3 DEF Gives
  <2>3. (\E x, y : <<m, x>> \in A /\ <<m, y>> \in B /\ w = Weigh(op, x, y)) <=> w = Weigh(op, u, v)
    BY <1>1, <1>2, <1>3
  <2>4. Gives(op, A, B, m, w) <=> w > 0 /\ w = Weigh(op, u, v)
    BY <2>1, <2>3 DEF Gives
  <2> QED
    BY <1>3, <2>2, <2>4
<1>4. CASE m # n
  <2>1. /\ \A x : <<m, x>> \in A <=> <<m, x>> \in C
        /\ \A x : <<m, x>> \in B <=> <<m, x>> \in D
        /\ Has(A, m) <=> Has(C, m)
        /\ Has(B, m) <=> Has(D, m)
    BY <1>1, <1>4 DEF Has
  <2> QED
    BY <1>4, <2>1 DEF Gives
<1> QED
  BY <1>3, <1>4

(* A list from an index on.                                                *)
After(s, i) == {Pair(s[k]) : k \in i .. Len(s)}

(* A list from an index on is its entry and the rest, which is above that  *)
(* entry.                                                                  *)
LEMMA AfterIs ==
  ASSUME NEW s \in ComboLists, CombosAscend(s), NEW i \in 1 .. Len(s)
  PROVE  /\ After(s, i) = After(s, i + 1) \union {<<s[i].mask, s[i].weight>>}
         /\ \A m : Has(After(s, i + 1), m) => m \in SUBSET Deck /\ MaskLess(s[i].mask, m)
         /\ ~Has(After(s, i + 1), s[i].mask)
<1>1. Len(s) \in Nat
  BY Lists, LenProperties
<1>2. \A k : k \in i .. Len(s) <=> k = i \/ k \in i + 1 .. Len(s)
  BY <1>1
<1>3. After(s, i) = After(s, i + 1) \union {<<s[i].mask, s[i].weight>>}
  BY <1>2 DEF After, Pair
<1>4. ASSUME NEW m, Has(After(s, i + 1), m)
      PROVE  m \in SUBSET Deck /\ MaskLess(s[i].mask, m)
  <2>1. PICK x : <<m, x>> \in After(s, i + 1)
    BY <1>4 DEF Has
  <2>2. PICK k \in i + 1 .. Len(s) : <<m, x>> = Pair(s[k])
    BY <2>1 DEF After
  <2>3. m = s[k].mask
    BY <2>2 DEF Pair
  <2>4. k \in 1 .. Len(s) /\ i < k
    BY <1>1
  <2>5. s[k].mask \in SUBSET Deck
    BY <2>4, EntryIs
  <2> QED
    BY <2>3, <2>4, <2>5 DEF CombosAscend
<1>5. ~Has(After(s, i + 1), s[i].mask)
  BY <1>4, NotLess
<1> QED
  BY <1>3, <1>4, <1>5

(* A mask before the entry at i is before all from i on.                   *)
LEMMA BeforeAll ==
  ASSUME NEW s \in ComboLists, CombosAscend(s), NEW i \in 1 .. Len(s) + 1, NEW c \in SUBSET Deck,
         i > Len(s) \/ MaskLess(c, s[i].mask)
  PROVE  (\A m : Has(After(s, i), m) => MaskLess(c, m)) /\ ~Has(After(s, i), c)
<1>1. Len(s) \in Nat
  BY Lists, LenProperties
<1>2. ASSUME NEW m, Has(After(s, i), m)
      PROVE  MaskLess(c, m)
  <2>1. PICK x : <<m, x>> \in After(s, i)
    BY <1>2 DEF Has
  <2>2. PICK k \in i .. Len(s) : <<m, x>> = Pair(s[k])
    BY <2>1 DEF After
  <2>3. m = s[k].mask
    BY <2>2 DEF Pair
  <2>4. k \in 1 .. Len(s) /\ i \in 1 .. Len(s) /\ (i = k \/ i < k)
    BY <1>1
  <2>5. ~(i > Len(s))
    BY <1>1, <2>4
  <2>6. MaskLess(c, s[i].mask)
    BY <2>5
  <2>7. s[k].mask \in SUBSET Deck /\ s[i].mask \in SUBSET Deck
    BY <2>4, EntryIs
  <2>8. CASE i < k
    <3>1. MaskLess(s[i].mask, s[k].mask)
      BY <2>4, <2>8 DEF CombosAscend
    <3> QED
      BY <2>3, <2>6, <2>7, <3>1, LessThenLess
  <2> QED
    BY <2>3, <2>4, <2>6, <2>8
<1> QED
  BY <1>2, NotLess

(* Past its end a list has nothing left, and from its start everything.    *)
LEMMA AfterEnd ==
  ASSUME NEW s \in ComboLists
  PROVE  After(s, Len(s) + 1) = {} /\ After(s, 1) = Meaning(s)
<1>1. Len(s) \in Nat
  BY Lists, LenProperties
<1>2. \A k : k \notin Len(s) + 1 .. Len(s)
  BY <1>1
<1>3. After(s, Len(s) + 1) = {}
  BY <1>2 DEF After
<1>4. \A p : p \in After(s, 1) <=> p \in Meaning(s)
  BY MeaningIs DEF After
<1> QED
  BY <1>3, <1>4

(* A combo kept or dropped before the rest of a merge.                     *)
LEMMA KeptBefore ==
  ASSUME NEW c \in Weighted, NEW keep, NEW s \in ComboLists, CombosAscend(s),
         \A m : Has(Meaning(s), m) => MaskLess(c.mask, m)
  PROVE  /\ Kept(c, keep) \o s \in ComboLists
         /\ CombosAscend(Kept(c, keep) \o s)
         /\ \A m, w : <<m, w>> \in Meaning(Kept(c, keep) \o s) <=>
                        <<m, w>> \in Meaning(s) \/ (keep /\ c.weight > 0 /\ m = c.mask /\ w = c.weight)
<1> DEFINE k == Kept(c, keep)
<1>1. CASE keep /\ c.weight > 0
  <2>1. k = <<c>>
    BY <1>1 DEF Kept
  <2> HIDE DEF k
  <2>2. k \in ComboLists /\ Len(k) = 1 /\ k[1] = c /\ CombosAscend(k) /\ Meaning(k) = {Pair(c)}
    BY <2>1, OneCombo
  <2>3. \A i \in 1 .. Len(k) : \A j \in 1 .. Len(s) : MaskLess(k[i].mask, s[j].mask)
    <3> TAKE i \in 1 .. Len(k)
    <3> TAKE j \in 1 .. Len(s)
    <3>1. k[i] = c
      BY <2>2
    <3>2. <<s[j].mask, s[j].weight>> \in Meaning(s)
      BY MeaningIs DEF Pair
    <3>3. Has(Meaning(s), s[j].mask)
      BY <3>2 DEF Has
    <3> QED
      BY <3>1, <3>3
  <2>4. k \o s \in ComboLists
    BY <2>2, Joined
  <2>5. CombosAscend(k \o s)
    BY <2>2, <2>3, JoinedAscend
  <2>6. Meaning(k \o s) = {Pair(c)} \union Meaning(s)
    BY <2>2, JoinedMeans
  <2>7. \A m, w : <<m, w>> \in Meaning(k \o s) <=> <<m, w>> \in Meaning(s) \/ (m = c.mask /\ w = c.weight)
    BY <2>6 DEF Pair
  <2> QED
    BY <1>1, <2>4, <2>5, <2>7 DEF k
<1>2. CASE ~(keep /\ c.weight > 0)
  <2>1. k = << >>
    BY <1>2 DEF Kept
  <2>2. k \o s = s
    BY <2>1, Lists, ConcatEmptySeq
  <2> HIDE DEF k
  <2> QED
    BY <1>2, <2>2 DEF k
<1> QED
  BY <1>1, <1>2
(* The two indices, as the recursion they are.                             *)
MergeStates(a, b) == (1 .. Len(a) + 1) \X (1 .. Len(b) + 1)

Merged(f, op, a, b, i, j) ==
  IF i > Len(a) /\ j > Len(b) THEN << >>
  ELSE IF j > Len(b) \/ (i <= Len(a) /\ MaskLess(a[i].mask, b[j].mask))
       THEN Kept(a[i], KeepsLeft(op)) \o f[<<i + 1, j>>]
  ELSE IF i > Len(a) \/ MaskLess(b[j].mask, a[i].mask)
       THEN Kept(b[j], KeepsRight(op)) \o f[<<i, j + 1>>]
  ELSE Kept(Combo(a[i].mask, Weigh(op, a[i].weight, b[j].weight)), TRUE) \o f[<<i + 1, j + 1>>]

IsMerge(f, op, a, b) == f = [x \in MergeStates(a, b) |-> Merged(f, op, a, b, x[1], x[2])]

(* Both lists are at their ends; the left one's combo goes first, or the   *)
(* right one's, or both do.                                                *)
Ends(a, b, i, j) == i = Len(a) + 1 /\ j = Len(b) + 1

TakesLeft(a, b, i, j) ==
  /\ i \in 1 .. Len(a) /\ j \in 1 .. Len(b) + 1
  /\ j > Len(b) \/ MaskLess(a[i].mask, b[j].mask)

TakesRight(a, b, i, j) ==
  /\ j \in 1 .. Len(b) /\ i \in 1 .. Len(a) + 1
  /\ i > Len(a) \/ MaskLess(b[j].mask, a[i].mask)

TakesBoth(a, b, i, j) ==
  i \in 1 .. Len(a) /\ j \in 1 .. Len(b) /\ a[i].mask = b[j].mask

(* The loop is always in one of the four cases.                            *)
LEMMA MergeCases ==
  ASSUME NEW a \in ComboLists, NEW b \in ComboLists,
         NEW i \in 1 .. Len(a) + 1, NEW j \in 1 .. Len(b) + 1
  PROVE  Ends(a, b, i, j) \/ TakesLeft(a, b, i, j) \/ TakesRight(a, b, i, j) \/ TakesBoth(a, b, i, j)
<1>1. Len(a) \in Nat /\ Len(b) \in Nat
  BY Lists, LenProperties
<1>2. /\ i \in 1 .. Len(a) => a[i].mask \in SUBSET Deck
      /\ j \in 1 .. Len(b) => b[j].mask \in SUBSET Deck
  BY EntryIs
<1>3. (i \in 1 .. Len(a) /\ j \in 1 .. Len(b)) =>
        a[i].mask = b[j].mask \/ MaskLess(a[i].mask, b[j].mask) \/ MaskLess(b[j].mask, a[i].mask)
  BY <1>2, SomeLess
<1>4. /\ i > Len(a) => i = Len(a) + 1
      /\ j > Len(b) => j = Len(b) + 1
      /\ i \in 1 .. Len(a) \/ i > Len(a)
      /\ j \in 1 .. Len(b) \/ j > Len(b)
  BY <1>1
<1> QED
  BY <1>3, <1>4 DEF Ends, TakesLeft, TakesRight, TakesBoth

(* What the loop does in each of the four.                                 *)
GoOnLeft(f, op, a, b, i, j) == Kept(a[i], KeepsLeft(op)) \o f[<<i + 1, j>>]
GoOnRight(f, op, a, b, i, j) == Kept(b[j], KeepsRight(op)) \o f[<<i, j + 1>>]
GoOnBoth(f, op, a, b, i, j) ==
  Kept(Combo(a[i].mask, Weigh(op, a[i].weight, b[j].weight)), TRUE) \o f[<<i + 1, j + 1>>]

(* At both ends the loop is over.                                          *)
LEMMA EndStep ==
  ASSUME NEW a \in ComboLists, NEW b \in ComboLists, NEW op, NEW i, NEW j, NEW f, Ends(a, b, i, j)
  PROVE  Merged(f, op, a, b, i, j) = << >>
<1>1. Len(a) \in Nat /\ Len(b) \in Nat
  BY Lists, LenProperties
<1>2. i > Len(a) /\ j > Len(b)
  BY <1>1 DEF Ends
<1> QED
  BY <1>2 DEF Merged

(* The lower mask is on the left.                                          *)
LEMMA LeftStep ==
  ASSUME NEW a \in ComboLists, NEW b \in ComboLists, NEW op, NEW i, NEW j, NEW f, TakesLeft(a, b, i, j)
  PROVE  Merged(f, op, a, b, i, j) = GoOnLeft(f, op, a, b, i, j)
<1>1. Len(a) \in Nat /\ Len(b) \in Nat
  BY Lists, LenProperties
<1>2. i <= Len(a) /\ ~(i > Len(a)) /\ (j > Len(b) \/ MaskLess(a[i].mask, b[j].mask))
  BY <1>1 DEF TakesLeft
<1> QED
  BY <1>2 DEF Merged, GoOnLeft

(* The lower mask is on the right.                                         *)
LEMMA RightStep ==
  ASSUME NEW a \in ComboLists, NEW b \in ComboLists, NEW op, NEW i, NEW j, NEW f, TakesRight(a, b, i, j)
  PROVE  Merged(f, op, a, b, i, j) = GoOnRight(f, op, a, b, i, j)
<1>1. Len(a) \in Nat /\ Len(b) \in Nat
  BY Lists, LenProperties
<1>2. j <= Len(b) /\ ~(j > Len(b)) /\ (i > Len(a) \/ MaskLess(b[j].mask, a[i].mask))
  BY <1>1 DEF TakesRight
<1>3. ASSUME i <= Len(a), MaskLess(a[i].mask, b[j].mask)
      PROVE  FALSE
  <2>1. i \in 1 .. Len(a) /\ ~(i > Len(a)) /\ j \in 1 .. Len(b)
    BY <1>1, <1>3 DEF TakesRight
  <2>2. a[i].mask \in SUBSET Deck /\ b[j].mask \in SUBSET Deck
    BY <2>1, EntryIs
  <2>3. MaskLess(b[j].mask, a[i].mask)
    BY <1>2, <2>1
  <2> QED
    BY <1>3, <2>2, <2>3, NotLess, LessThenLess
<1> QED
  BY <1>2, <1>3 DEF Merged, GoOnRight

(* Both have the same mask.                                                *)
LEMMA BothStep ==
  ASSUME NEW a \in ComboLists, NEW b \in ComboLists, NEW op, NEW i, NEW j, NEW f, TakesBoth(a, b, i, j)
  PROVE  Merged(f, op, a, b, i, j) = GoOnBoth(f, op, a, b, i, j)
<1>1. Len(a) \in Nat /\ Len(b) \in Nat
  BY Lists, LenProperties
<1>2. i <= Len(a) /\ ~(i > Len(a)) /\ j <= Len(b) /\ ~(j > Len(b))
  BY <1>1 DEF TakesBoth
<1>3. ~MaskLess(a[i].mask, b[j].mask) /\ ~MaskLess(b[j].mask, a[i].mask)
  BY NotLess DEF TakesBoth
<1> QED
  BY <1>2, <1>3 DEF Merged, GoOnBoth

(* The weight of a mask that both have is a number.                        *)
LEMMA WeighIs ==
  ASSUME NEW op, NEW x \in Int, NEW y \in Int
  PROVE  Weigh(op, x, y) \in Int
BY DEF Weigh, Larger, Smaller

(* A mask and a weight make a combo.                                       *)
LEMMA ComboIs ==
  ASSUME NEW m \in SUBSET Deck, NEW w \in Int
  PROVE  Combo(m, w) \in Weighted /\ Combo(m, w).mask = m /\ Combo(m, w).weight = w
BY DEF Combo, Weighted

(* A combo kept or dropped before a list is a list.                        *)
LEMMA KeptTyped ==
  ASSUME NEW c \in Weighted, NEW keep, NEW s \in ComboLists
  PROVE  Kept(c, keep) \o s \in ComboLists
<1>1. << >> \in ComboLists /\ <<c>> \in ComboLists
  BY NoCombo, OneCombo
<1>2. Kept(c, keep) \in ComboLists
  BY <1>1 DEF Kept
<1> QED
  BY <1>2, Joined

(* The recursion of the merge has a solution.                              *)
LEMMA MergeExists ==
  ASSUME NEW a \in ComboLists, NEW b \in ComboLists, NEW op
  PROVE  \E f : IsMerge(f, op, a, b)
<1> DEFINE S == MergeStates(a, b)
           D == ComboLists
           M == Len(a) + Len(b)
           mu == [x \in S |-> (Len(a) + 1 - x[1]) + (Len(b) + 1 - x[2])]
           body(x, h) == Merged(h, op, a, b, x[1], x[2])
           F == [x \in S |-> [h \in [S -> D] |-> body(x, h)]]
<1>1. Len(a) \in Nat /\ Len(b) \in Nat
  BY Lists, LenProperties
<1>2. \A x \in S : x[1] \in 1 .. Len(a) + 1 /\ x[2] \in 1 .. Len(b) + 1
  BY DEF MergeStates
<1>3. \A i \in 1 .. Len(a) + 1 : \A j \in 1 .. Len(b) + 1 :
        /\ <<i, j>> \in S
        /\ mu[<<i, j>>] = (Len(a) + 1 - i) + (Len(b) + 1 - j)
  BY DEF MergeStates
<1>4. \A x \in S : mu[x] = (Len(a) + 1 - x[1]) + (Len(b) + 1 - x[2])
  OBVIOUS
<1>5. \A i \in 1 .. Len(a) + 1 : \A j \in 1 .. Len(b) + 1 :
        /\ TakesLeft(a, b, i, j) => i + 1 \in 1 .. Len(a) + 1
        /\ TakesRight(a, b, i, j) => j + 1 \in 1 .. Len(b) + 1
        /\ TakesBoth(a, b, i, j) => i + 1 \in 1 .. Len(a) + 1 /\ j + 1 \in 1 .. Len(b) + 1
  BY <1>1 DEF TakesLeft, TakesRight, TakesBoth
<1> HIDE DEF mu
<1>6. ASSUME NEW x \in S, NEW h \in [S -> D]
      PROVE  body(x, h) \in D
  <2> DEFINE i == x[1]
             j == x[2]
  <2>1. i \in 1 .. Len(a) + 1 /\ j \in 1 .. Len(b) + 1
    BY <1>2
  <2> HIDE DEF i, j
  <2>2. CASE Ends(a, b, i, j)
    <3>1. Merged(h, op, a, b, i, j) = << >>
      BY <2>2, EndStep
    <3> QED
      BY <3>1, NoCombo DEF i, j
  <2>3. CASE TakesLeft(a, b, i, j)
    <3>0. Merged(h, op, a, b, i, j) = GoOnLeft(h, op, a, b, i, j)
      BY <2>3, LeftStep
    <3>1. Merged(h, op, a, b, i, j) = Kept(a[i], KeepsLeft(op)) \o h[<<i + 1, j>>]
      BY <3>0 DEF GoOnLeft
    <3>2. <<i + 1, j>> \in S
      BY <1>3, <1>5, <2>1, <2>3
    <3>3. h[<<i + 1, j>>] \in D
      <4> HIDE DEF S, D
      <4> QED
        BY <3>2
    <3>4. a[i] \in Weighted
      BY <2>3, EntryIs DEF TakesLeft
    <3> QED
      BY <3>1, <3>3, <3>4, KeptTyped DEF i, j
  <2>4. CASE TakesRight(a, b, i, j)
    <3>0. Merged(h, op, a, b, i, j) = GoOnRight(h, op, a, b, i, j)
      BY <2>4, RightStep
    <3>1. Merged(h, op, a, b, i, j) = Kept(b[j], KeepsRight(op)) \o h[<<i, j + 1>>]
      BY <3>0 DEF GoOnRight
    <3>2. <<i, j + 1>> \in S
      BY <1>3, <1>5, <2>1, <2>4
    <3>3. h[<<i, j + 1>>] \in D
      <4> HIDE DEF S, D
      <4> QED
        BY <3>2
    <3>4. b[j] \in Weighted
      BY <2>4, EntryIs DEF TakesRight
    <3> QED
      BY <3>1, <3>3, <3>4, KeptTyped DEF i, j
  <2>5. CASE TakesBoth(a, b, i, j)
    <3> DEFINE c == Combo(a[i].mask, Weigh(op, a[i].weight, b[j].weight))
    <3>0. Merged(h, op, a, b, i, j) = GoOnBoth(h, op, a, b, i, j)
      BY <2>5, BothStep
    <3>1. Merged(h, op, a, b, i, j) = Kept(c, TRUE) \o h[<<i + 1, j + 1>>]
      BY <3>0 DEF GoOnBoth
    <3>2. <<i + 1, j + 1>> \in S
      BY <1>3, <1>5, <2>1, <2>5
    <3>3. h[<<i + 1, j + 1>>] \in D
      <4> HIDE DEF S, D
      <4> QED
        BY <3>2
    <3>4. a[i].mask \in SUBSET Deck /\ a[i].weight \in Int /\ b[j].weight \in Int
      BY <2>5, EntryIs DEF TakesBoth
    <3>5. c \in Weighted
      BY <3>4, WeighIs, ComboIs
    <3> HIDE DEF c
    <3> QED
      BY <3>1, <3>3, <3>5, KeptTyped DEF i, j
  <2> QED
    BY <2>1, <2>2, <2>3, <2>4, <2>5, MergeCases
<1>7. Bodies(F, S, D)
  <2>1. D # {}
    BY NoCombo
  <2>2. F \in [S -> [[S -> D] -> D]]
    <3> HIDE DEF S, D, body
    <3> QED
      BY <1>6
  <2> HIDE DEF F, S, D
  <2> QED
    BY <2>1, <2>2 DEF Bodies
<1>8. Measures(mu, S, M)
  <2>1. M \in Nat
    BY <1>1
  <2>2. ASSUME NEW x \in S
        PROVE  mu[x] \in 0 .. M
    <3> DEFINE i == x[1]
               j == x[2]
               m == Len(a)
               n == Len(b)
    <3>1. i \in 1 .. m + 1 /\ j \in 1 .. n + 1
      BY <1>2
    <3>2. mu[x] = (m + 1 - i) + (n + 1 - j)
      BY <1>4
    <3>3. m \in Nat /\ n \in Nat
      BY <1>1
    <3> HIDE DEF S, i, j, m, n
    <3>4. (m + 1 - i) + (n + 1 - j) \in 0 .. m + n
      BY <3>1, <3>3
    <3> QED
      BY <3>2, <3>4 DEF m, n
  <2> HIDE DEF S, M
  <2> QED
    BY <2>1, <2>2 DEF Measures
<1>9. LooksDown(F, S, D, mu)
  <2> SUFFICES ASSUME NEW x \in S, NEW h \in [S -> D], NEW g \in [S -> D],
                      \A y \in S : mu[y] < mu[x] => h[y] = g[y]
               PROVE  F[x][h] = F[x][g]
    <3> HIDE DEF F, S, D
    <3> QED
      BY DEF LooksDown
  <2> DEFINE i == x[1]
             j == x[2]
  <2>1. i \in 1 .. Len(a) + 1 /\ j \in 1 .. Len(b) + 1 /\ mu[x] = (Len(a) + 1 - i) + (Len(b) + 1 - j)
    BY <1>2, <1>4
  <2> HIDE DEF i, j
  <2>2. ASSUME NEW k \in 1 .. Len(a) + 1, NEW l \in 1 .. Len(b) + 1, k + l > i + j
        PROVE  h[<<k, l>>] = g[<<k, l>>]
    <3>1. mu[<<k, l>>] = (Len(a) + 1 - k) + (Len(b) + 1 - l)
      BY <1>3
    <3>2. mu[<<k, l>>] < mu[x]
      BY <1>1, <2>1, <2>2, <3>1
    <3> QED
      BY <1>3, <3>2
  <2>3. Merged(h, op, a, b, i, j) = Merged(g, op, a, b, i, j)
    <3>0. i + 1 + j > i + j /\ i + (j + 1) > i + j /\ (i + 1) + (j + 1) > i + j
      BY <2>1
    <3>1. CASE Ends(a, b, i, j)
      BY <3>1, EndStep
    <3>2. CASE TakesLeft(a, b, i, j)
      <4>1. h[<<i + 1, j>>] = g[<<i + 1, j>>]
        BY <1>5, <2>1, <2>2, <3>0, <3>2
      <4>2. GoOnLeft(h, op, a, b, i, j) = GoOnLeft(g, op, a, b, i, j)
        BY <4>1 DEF GoOnLeft
      <4> QED
        BY <3>2, <4>2, LeftStep
    <3>3. CASE TakesRight(a, b, i, j)
      <4>1. h[<<i, j + 1>>] = g[<<i, j + 1>>]
        BY <1>5, <2>1, <2>2, <3>0, <3>3
      <4>2. GoOnRight(h, op, a, b, i, j) = GoOnRight(g, op, a, b, i, j)
        BY <4>1 DEF GoOnRight
      <4> QED
        BY <3>3, <4>2, RightStep
    <3>4. CASE TakesBoth(a, b, i, j)
      <4>1. h[<<i + 1, j + 1>>] = g[<<i + 1, j + 1>>]
        BY <1>5, <2>1, <2>2, <3>0, <3>4
      <4>2. GoOnBoth(h, op, a, b, i, j) = GoOnBoth(g, op, a, b, i, j)
        BY <4>1 DEF GoOnBoth
      <4> QED
        BY <3>4, <4>2, BothStep
    <3> QED
      BY <2>1, <3>1, <3>2, <3>3, <3>4, MergeCases
  <2>4. body(x, h) = body(x, g)
    BY <2>3 DEF i, j
  <2> HIDE DEF S, D, body
  <2> QED
    BY <2>4
<1>10. \E f : Obeys(f, F, S, D)
  <2> HIDE DEF F, S, D, M
  <2> QED
    BY <1>7, <1>8, <1>9, BoundedRecursion
<1>11. PICK f : Obeys(f, F, S, D)
  BY <1>10
<1>12. f \in [S -> D] /\ \A x \in S : f[x] = body(x, f)
  <2> HIDE DEF S, D, body
  <2> QED
    BY <1>11 DEF Obeys
<1>13. f = [x \in S |-> body(x, f)]
  <2> HIDE DEF S, D, body
  <2> QED
    BY <1>12
<1> QED
  BY <1>13 DEF IsMerge
(* A merge from the indices i and j on gives what the operation gives for  *)
(* the rests of the two lists, ascending.                                  *)
MergedRight(f, op, a, b, i, j) ==
  /\ f[<<i, j>>] \in ComboLists /\ CombosAscend(f[<<i, j>>])
  /\ \A m, w : <<m, w>> \in Meaning(f[<<i, j>>]) <=> Gives(op, After(a, i), After(b, j), m, w)

(* An operation gives no mask that neither set has.                        *)
LEMMA GivesHas ==
  ASSUME NEW op, NEW A, NEW B, NEW m, NEW w, Gives(op, A, B, m, w)
  PROVE  Has(A, m) \/ Has(B, m)
BY DEF Gives, Has

(* At both ends the merge gives what the operation gives for two empty     *)
(* rests.                                                                  *)
LEMMA MergeEnd ==
  ASSUME NEW a \in ComboLists, NEW b \in ComboLists, NEW op, NEW f, NEW i, NEW j,
         Ends(a, b, i, j), f[<<i, j>>] = Merged(f, op, a, b, i, j)
  PROVE  MergedRight(f, op, a, b, i, j)
<1>1. f[<<i, j>>] = << >>
  BY EndStep
<1>2. After(a, i) = {} /\ After(b, j) = {}
  BY AfterEnd DEF Ends
<1>3. \A m, w : ~Gives(op, {}, {}, m, w)
  BY DEF Gives
<1> QED
  BY <1>1, <1>2, <1>3, NoCombo DEF MergedRight

(* The left combo, kept or dropped, before what is right for the rests.    *)
LEMMA MergeLeft ==
  ASSUME NEW a \in ComboLists, NEW b \in ComboLists, CombosAscend(a), CombosAscend(b), NEW op, NEW f, NEW i, NEW j,
         TakesLeft(a, b, i, j), f[<<i, j>>] = Merged(f, op, a, b, i, j), MergedRight(f, op, a, b, i + 1, j)
  PROVE  MergedRight(f, op, a, b, i, j)
<1> DEFINE s == f[<<i + 1, j>>]
           c == a[i]
           t == f[<<i, j>>]
           A == After(a, i)
           B == After(b, j)
           C == After(a, i + 1)
<1>1. i \in 1 .. Len(a) /\ j \in 1 .. Len(b) + 1 /\ (j > Len(b) \/ MaskLess(a[i].mask, b[j].mask))
  BY DEF TakesLeft
<1>2. s \in ComboLists /\ CombosAscend(s) /\ \A m, w : <<m, w>> \in Meaning(s) <=> Gives(op, C, B, m, w)
  BY DEF MergedRight
<1>3. c \in Weighted /\ c.mask \in SUBSET Deck
  BY <1>1, EntryIs
<1>4. t = Kept(c, KeepsLeft(op)) \o s
  <2>1. t = GoOnLeft(f, op, a, b, i, j)
    BY LeftStep
  <2> QED
    BY <2>1 DEF GoOnLeft
<1>5. A = C \union {<<c.mask, c.weight>>} /\ (\A m : Has(C, m) => MaskLess(c.mask, m)) /\ ~Has(C, c.mask)
  BY <1>1, AfterIs
<1>6. (\A m : Has(B, m) => MaskLess(c.mask, m)) /\ ~Has(B, c.mask)
  BY <1>1, <1>3, BeforeAll
<1> HIDE DEF s, c, t, A, B, C
<1>7. \A m : Has(Meaning(s), m) => MaskLess(c.mask, m)
  <2> SUFFICES ASSUME NEW m, Has(Meaning(s), m) PROVE MaskLess(c.mask, m)
    OBVIOUS
  <2>1. PICK x : <<m, x>> \in Meaning(s)
    BY DEF Has
  <2>2. Gives(op, C, B, m, x)
    BY <1>2, <2>1
  <2>3. Has(C, m) \/ Has(B, m)
    BY <2>2, GivesHas
  <2> QED
    BY <1>5, <1>6, <2>3
<1> DEFINE u == Kept(c, KeepsLeft(op)) \o s
<1>8. /\ u \in ComboLists /\ CombosAscend(u)
      /\ \A m, w : <<m, w>> \in Meaning(u) <=>
           <<m, w>> \in Meaning(s) \/ (KeepsLeft(op) /\ c.weight > 0 /\ m = c.mask /\ w = c.weight)
  BY <1>2, <1>3, <1>7, KeptBefore
<1>9. \A m, w : Gives(op, A, B, m, w) <=>
        Gives(op, C, B, m, w) \/ (KeepsLeft(op) /\ c.weight > 0 /\ m = c.mask /\ w = c.weight)
  <2> DEFINE n == c.mask
             v == c.weight
  <2>1. A = C \union {<<n, v>>} /\ ~Has(C, n) /\ ~Has(B, n)
    BY <1>5, <1>6
  <2> HIDE DEF n, v
  <2>2. \A m, w : Gives(op, A, B, m, w) <=>
          Gives(op, C, B, m, w) \/ (KeepsLeft(op) /\ v > 0 /\ m = n /\ w = v)
    BY <2>1, LeftOnly
  <2> QED
    BY <2>2 DEF n, v
<1> HIDE DEF u
<1>10. \A m, w : <<m, w>> \in Meaning(u) <=> Gives(op, A, B, m, w)
  BY <1>2, <1>8, <1>9
<1>11. t \in ComboLists /\ CombosAscend(t) /\ \A m, w : <<m, w>> \in Meaning(t) <=> Gives(op, A, B, m, w)
  BY <1>4, <1>8, <1>10 DEF u
<1> QED
  BY <1>11 DEF MergedRight, t, A, B

(* The right combo, kept or dropped, before what is right for the rests.   *)
LEMMA MergeRight ==
  ASSUME NEW a \in ComboLists, NEW b \in ComboLists, CombosAscend(a), CombosAscend(b), NEW op, NEW f, NEW i, NEW j,
         TakesRight(a, b, i, j), f[<<i, j>>] = Merged(f, op, a, b, i, j), MergedRight(f, op, a, b, i, j + 1)
  PROVE  MergedRight(f, op, a, b, i, j)
<1> DEFINE s == f[<<i, j + 1>>]
           c == b[j]
           t == f[<<i, j>>]
           A == After(a, i)
           B == After(b, j)
           C == After(b, j + 1)
<1>1. j \in 1 .. Len(b) /\ i \in 1 .. Len(a) + 1 /\ (i > Len(a) \/ MaskLess(b[j].mask, a[i].mask))
  BY DEF TakesRight
<1>2. s \in ComboLists /\ CombosAscend(s) /\ \A m, w : <<m, w>> \in Meaning(s) <=> Gives(op, A, C, m, w)
  BY DEF MergedRight
<1>3. c \in Weighted /\ c.mask \in SUBSET Deck
  BY <1>1, EntryIs
<1>4. t = Kept(c, KeepsRight(op)) \o s
  <2>1. t = GoOnRight(f, op, a, b, i, j)
    BY RightStep
  <2> QED
    BY <2>1 DEF GoOnRight
<1>5. B = C \union {<<c.mask, c.weight>>} /\ (\A m : Has(C, m) => MaskLess(c.mask, m)) /\ ~Has(C, c.mask)
  BY <1>1, AfterIs
<1>6. (\A m : Has(A, m) => MaskLess(c.mask, m)) /\ ~Has(A, c.mask)
  BY <1>1, <1>3, BeforeAll
<1> HIDE DEF s, c, t, A, B, C
<1>7. \A m : Has(Meaning(s), m) => MaskLess(c.mask, m)
  <2> SUFFICES ASSUME NEW m, Has(Meaning(s), m) PROVE MaskLess(c.mask, m)
    OBVIOUS
  <2>1. PICK x : <<m, x>> \in Meaning(s)
    BY DEF Has
  <2>2. Gives(op, A, C, m, x)
    BY <1>2, <2>1
  <2>3. Has(A, m) \/ Has(C, m)
    BY <2>2, GivesHas
  <2> QED
    BY <1>5, <1>6, <2>3
<1> DEFINE u == Kept(c, KeepsRight(op)) \o s
<1>8. /\ u \in ComboLists /\ CombosAscend(u)
      /\ \A m, w : <<m, w>> \in Meaning(u) <=>
           <<m, w>> \in Meaning(s) \/ (KeepsRight(op) /\ c.weight > 0 /\ m = c.mask /\ w = c.weight)
  BY <1>2, <1>3, <1>7, KeptBefore
<1>9. \A m, w : Gives(op, A, B, m, w) <=>
        Gives(op, A, C, m, w) \/ (KeepsRight(op) /\ c.weight > 0 /\ m = c.mask /\ w = c.weight)
  <2> DEFINE n == c.mask
             v == c.weight
  <2>1. B = C \union {<<n, v>>} /\ ~Has(C, n) /\ ~Has(A, n)
    BY <1>5, <1>6
  <2> HIDE DEF n, v
  <2>2. \A m, w : Gives(op, A, B, m, w) <=>
          Gives(op, A, C, m, w) \/ (KeepsRight(op) /\ v > 0 /\ m = n /\ w = v)
    BY <2>1, RightOnly
  <2> QED
    BY <2>2 DEF n, v
<1> HIDE DEF u
<1>10. \A m, w : <<m, w>> \in Meaning(u) <=> Gives(op, A, B, m, w)
  BY <1>2, <1>8, <1>9
<1>11. t \in ComboLists /\ CombosAscend(t) /\ \A m, w : <<m, w>> \in Meaning(t) <=> Gives(op, A, B, m, w)
  BY <1>4, <1>8, <1>10 DEF u
<1> QED
  BY <1>11 DEF MergedRight, t, A, B

(* The combo of both, if its weight is positive, before what is right for  *)
(* the rests.                                                              *)
LEMMA MergeBoth ==
  ASSUME NEW a \in ComboLists, NEW b \in ComboLists, CombosAscend(a), CombosAscend(b), NEW op, NEW f, NEW i, NEW j,
         TakesBoth(a, b, i, j), f[<<i, j>>] = Merged(f, op, a, b, i, j), MergedRight(f, op, a, b, i + 1, j + 1)
  PROVE  MergedRight(f, op, a, b, i, j)
<1> DEFINE s == f[<<i + 1, j + 1>>]
           n == a[i].mask
           x == a[i].weight
           y == b[j].weight
           v == Weigh(op, x, y)
           c == Combo(n, v)
           t == f[<<i, j>>]
           A == After(a, i)
           B == After(b, j)
           C == After(a, i + 1)
           D == After(b, j + 1)
<1>1. i \in 1 .. Len(a) /\ j \in 1 .. Len(b) /\ b[j].mask = n
  BY DEF TakesBoth
<1>2. s \in ComboLists /\ CombosAscend(s) /\ \A m, w : <<m, w>> \in Meaning(s) <=> Gives(op, C, D, m, w)
  BY DEF MergedRight
<1>3. n \in SUBSET Deck /\ x \in Int /\ y \in Int
  BY <1>1, EntryIs
<1>4. c \in Weighted /\ c.mask = n /\ c.weight = v
  <2>1. v \in Int
    BY <1>3, WeighIs
  <2> HIDE DEF n, v
  <2> QED
    BY <1>3, <2>1, ComboIs
<1>5. t = Kept(c, TRUE) \o s
  <2>1. t = GoOnBoth(f, op, a, b, i, j)
    BY BothStep
  <2> QED
    BY <2>1 DEF GoOnBoth
<1>6. A = C \union {<<n, x>>} /\ (\A m : Has(C, m) => MaskLess(n, m)) /\ ~Has(C, n)
  BY <1>1, AfterIs
<1>7. B = D \union {<<n, y>>} /\ (\A m : Has(D, m) => MaskLess(n, m)) /\ ~Has(D, n)
  <2>1. /\ B = D \union {<<b[j].mask, b[j].weight>>}
        /\ (\A m : Has(D, m) => MaskLess(b[j].mask, m)) /\ ~Has(D, b[j].mask)
    BY <1>1, AfterIs
  <2> QED
    BY <1>1, <2>1
<1> HIDE DEF s, c, t, A, B, C, D, n, x, y
<1>8. \A m : Has(Meaning(s), m) => MaskLess(c.mask, m)
  <2> SUFFICES ASSUME NEW m, Has(Meaning(s), m) PROVE MaskLess(c.mask, m)
    OBVIOUS
  <2>1. PICK z : <<m, z>> \in Meaning(s)
    BY DEF Has
  <2>2. Gives(op, C, D, m, z)
    BY <1>2, <2>1
  <2>3. Has(C, m) \/ Has(D, m)
    BY <2>2, GivesHas
  <2> QED
    BY <1>4, <1>6, <1>7, <2>3
<1> DEFINE u == Kept(c, TRUE) \o s
<1>9. /\ u \in ComboLists /\ CombosAscend(u)
      /\ \A m, w : <<m, w>> \in Meaning(u) <=>
           <<m, w>> \in Meaning(s) \/ (TRUE /\ c.weight > 0 /\ m = c.mask /\ w = c.weight)
  BY <1>2, <1>4, <1>8, KeptBefore
<1>10. \A m, w : Gives(op, A, B, m, w) <=>
         Gives(op, C, D, m, w) \/ (v > 0 /\ m = n /\ w = v)
  BY <1>6, <1>7, OfBoth
<1> HIDE DEF u, v
<1>11. \A m, w : <<m, w>> \in Meaning(u) <=> Gives(op, A, B, m, w)
  BY <1>2, <1>4, <1>9, <1>10
<1>12. t \in ComboLists /\ CombosAscend(t) /\ \A m, w : <<m, w>> \in Meaning(t) <=> Gives(op, A, B, m, w)
  BY <1>5, <1>9, <1>11 DEF u
<1> QED
  BY <1>12 DEF MergedRight, t, A, B

(* The merge of two ascending lists: ascending, and what the operation     *)
(* gives.                                                                  *)
LEMMA MergesWell ==
  ASSUME NEW a \in ComboLists, NEW b \in ComboLists, CombosAscend(a), CombosAscend(b), NEW op
  PROVE  /\ Merge(op, a, b) \in ComboLists /\ CombosAscend(Merge(op, a, b))
         /\ \A m, w : <<m, w>> \in Meaning(Merge(op, a, b)) <=> Gives(op, Meaning(a), Meaning(b), m, w)
<1> DEFINE la == Len(a)
           lb == Len(b)
           M == la + lb
           f == CHOOSE g : IsMerge(g, op, a, b)
           Right(i, j) == MergedRight(f, op, a, b, i, j)
           Wrong == {n \in 0 .. M : \E i \in 1 .. la + 1 : \E j \in 1 .. lb + 1 :
                       (la + 1 - i) + (lb + 1 - j) = n /\ ~Right(i, j)}
<1>1. la \in Nat /\ lb \in Nat
  BY Lists, LenProperties
<1>2. IsMerge(f, op, a, b)
  <2>1. \E g : IsMerge(g, op, a, b)
    BY MergeExists
  <2> QED
    BY <2>1
<1>3. Merge(op, a, b) = f[<<1, 1>>]
  BY DEF Merge, IsMerge, MergeStates, Merged
<1> HIDE DEF f
<1>4. \A i \in 1 .. la + 1 : \A j \in 1 .. lb + 1 : f[<<i, j>>] = Merged(f, op, a, b, i, j)
  <2> TAKE i \in 1 .. la + 1
  <2> TAKE j \in 1 .. lb + 1
  <2>1. <<i, j>> \in MergeStates(a, b)
    BY DEF MergeStates
  <2>2. f[<<i, j>>] = Merged(f, op, a, b, <<i, j>>[1], <<i, j>>[2])
    BY <1>2, <2>1 DEF IsMerge
  <2> QED
    BY <2>2
<1>5. Wrong = {}
  <2> SUFFICES ASSUME Wrong # {} PROVE FALSE
    OBVIOUS
  <2>1. Wrong \subseteq Nat
    BY <1>1
  <2>2. PICK n \in Wrong : \A k \in Wrong : n <= k
    <3> HIDE DEF Wrong
    <3> QED
      BY <2>1, LeastNumber
  <2> HIDE DEF Right
  <2>3. PICK i \in 1 .. la + 1, j \in 1 .. lb + 1 : (la + 1 - i) + (lb + 1 - j) = n /\ ~Right(i, j)
    BY <2>2
  <2>4. ASSUME NEW k \in 1 .. la + 1, NEW l \in 1 .. lb + 1, k + l > i + j
        PROVE  Right(k, l)
    <3> DEFINE d == (la + 1 - k) + (lb + 1 - l)
    <3>0. k \in Int /\ l \in Int /\ i \in Int /\ j \in Int /\ n = (la + 1 - i) + (lb + 1 - j)
      BY <2>3
    <3>1. d \in 0 .. M /\ ~(n <= d)
      <4>1. k >= 1 /\ l >= 1 /\ k <= la + 1 /\ l <= lb + 1
        BY <1>1
      <4> HIDE DEF la, lb
      <4> QED
        BY <1>1, <2>4, <3>0, <4>1
    <3>2. d \notin Wrong
      BY <2>2, <3>1
    <3> QED
      BY <3>1, <3>2
  <2>5. f[<<i, j>>] = Merged(f, op, a, b, i, j)
    BY <1>4
  <2>6. CASE Ends(a, b, i, j)
    BY <2>3, <2>5, <2>6, MergeEnd DEF Right
  <2>7. CASE TakesLeft(a, b, i, j)
    <3>1. i + 1 \in 1 .. la + 1 /\ i + 1 + j > i + j
      BY <1>1, <2>7 DEF TakesLeft
    <3>2. MergedRight(f, op, a, b, i + 1, j)
      BY <2>4, <3>1 DEF Right
    <3> QED
      BY <2>3, <2>5, <2>7, <3>2, MergeLeft DEF Right
  <2>8. CASE TakesRight(a, b, i, j)
    <3>1. j + 1 \in 1 .. lb + 1 /\ i + (j + 1) > i + j
      BY <1>1, <2>8 DEF TakesRight
    <3>2. MergedRight(f, op, a, b, i, j + 1)
      BY <2>4, <3>1 DEF Right
    <3> QED
      BY <2>3, <2>5, <2>8, <3>2, MergeRight DEF Right
  <2>9. CASE TakesBoth(a, b, i, j)
    <3>1. i + 1 \in 1 .. la + 1 /\ j + 1 \in 1 .. lb + 1 /\ (i + 1) + (j + 1) > i + j
      BY <1>1, <2>9 DEF TakesBoth
    <3>2. MergedRight(f, op, a, b, i + 1, j + 1)
      BY <2>4, <3>1 DEF Right
    <3> QED
      BY <2>3, <2>5, <2>9, <3>2, MergeBoth DEF Right
  <2> QED
    BY <2>6, <2>7, <2>8, <2>9, MergeCases
<1>6. MergedRight(f, op, a, b, 1, 1)
  <2>1. 1 \in 1 .. la + 1 /\ 1 \in 1 .. lb + 1 /\ (la + 1 - 1) + (lb + 1 - 1) \in 0 .. M
    BY <1>1
  <2> HIDE DEF Right
  <2>2. Right(1, 1)
    BY <1>5, <2>1
  <2> QED
    BY <2>2 DEF Right
<1>7. After(a, 1) = Meaning(a) /\ After(b, 1) = Meaning(b)
  BY AfterEnd
<1> QED
  BY <1>3, <1>6, <1>7 DEF MergedRight
-----------------------------------------------------------------------------
(* The operations as they are defined.                                     *)

(* Pairs with one weight for each mask, as lists without repeats mean.     *)
Assigns(A) ==
  /\ \A p \in A : \E m, x : x \in Int /\ p = <<m, x>>
  /\ \A m, x, y : <<m, x>> \in A /\ <<m, y>> \in A => x = y

(* The weight a set of pairs gives a mask, zero when it has none.          *)
LEMMA WeightInIs ==
  ASSUME NEW A, Assigns(A), NEW m
  PROVE  /\ Has(A, m) => <<m, WeightIn(A, m)>> \in A
         /\ ~Has(A, m) => WeightIn(A, m) = 0
         /\ WeightIn(A, m) \in Int
<1> DEFINE there == {p \in A : p[1] = m}
<1>1. \A p \in there : p = <<m, p[2]>> /\ p \in A /\ p[2] \in Int
  <2> TAKE p \in there
  <2>1. PICK k, x : x \in Int /\ p = <<k, x>>
    BY DEF Assigns
  <2> QED
    BY <2>1
<1>2. Has(A, m) <=> there # {}
  <2>1. ASSUME Has(A, m)
        PROVE  there # {}
    <3>1. PICK x : <<m, x>> \in A
      BY <2>1 DEF Has
    <3>2. <<m, x>> \in there
      BY <3>1
    <3> QED
      BY <3>2
  <2>2. ASSUME there # {}
        PROVE  Has(A, m)
    <3>1. PICK p : p \in there
      BY <2>2
    <3>2. <<m, p[2]>> \in A
      BY <1>1, <3>1
    <3> QED
      BY <3>2 DEF Has
  <2> QED
    BY <2>1, <2>2
<1>3. WeightIn(A, m) = IF there = {} THEN 0 ELSE (CHOOSE p \in there : TRUE)[2]
  BY DEF WeightIn
<1> DEFINE q == CHOOSE p \in there : TRUE
<1>4. there # {} => q \in there
  OBVIOUS
<1>5. WeightIn(A, m) = IF there = {} THEN 0 ELSE q[2]
  BY <1>3
<1> HIDE DEF q
<1>6. ASSUME there # {}
      PROVE  <<m, WeightIn(A, m)>> \in A /\ WeightIn(A, m) \in Int
  <2>1. q = <<m, q[2]>> /\ q \in A /\ q[2] \in Int
    BY <1>1, <1>4, <1>6
  <2>2. WeightIn(A, m) = q[2]
    BY <1>5, <1>6
  <2> QED
    BY <2>1, <2>2
<1> HIDE DEF there
<1> QED
  BY <1>2, <1>5, <1>6

(* Max and Min of two weights.                                             *)
LEMMA BetterOf ==
  ASSUME NEW x \in Int, NEW y \in Int
  PROVE  Max({x, y}) = Larger(x, y) /\ Min({x, y}) = Smaller(x, y)
<1>1. {x, y} \subseteq Int /\ IsFiniteSet({x, y}) /\ {x, y} # {}
  <2>1. IsFiniteSet({} \union {x})
    BY FS_EmptySet, FS_AddElement
  <2>2. IsFiniteSet(({} \union {x}) \union {y})
    BY <2>1, FS_AddElement
  <2>3. ({} \union {x}) \union {y} = {x, y}
    OBVIOUS
  <2>4. IsFiniteSet({x, y})
    BY <2>2, <2>3
  <2> QED
    BY <2>4
<1>2. Max({x, y}) \in {x, y} /\ \A z \in {x, y} : Max({x, y}) >= z
  <2> DEFINE S == {x, y}
  <2> HIDE DEF S
  <2>1. S \subseteq Int /\ IsFiniteSet(S) /\ S # {}
    BY <1>1 DEF S
  <2>2. Max(S) \in S /\ \A z \in S : Max(S) >= z
    BY <2>1, MaxIs
  <2> QED
    BY <2>2 DEF S
<1>3. Max({x, y}) = Larger(x, y)
  <2> DEFINE k == Max({x, y})
  <2>1. (k = x \/ k = y) /\ k >= x /\ k >= y
    BY <1>2
  <2> HIDE DEF k
  <2>2. k = Larger(x, y)
    BY <2>1 DEF Larger
  <2> QED
    BY <2>2 DEF k
<1>4. Min({x, y}) = Smaller(x, y)
  <2> DEFINE S == {x, y}
             low(k) == k \in S /\ \A z \in S : k <= z
  <2>1. low(Smaller(x, y))
    BY DEF Smaller
  <2>2. \A k : low(k) => k = Smaller(x, y)
    BY DEF Smaller
  <2>3. Min(S) = CHOOSE k \in S : \A z \in S : k <= z
    BY DEF Min
  <2>4. low(CHOOSE k \in S : \A z \in S : k <= z)
    BY <2>1
  <2> HIDE DEF low
  <2> QED
    BY <2>2, <2>3, <2>4
<1> QED
  BY <1>3, <1>4

(* What an operation leaves of one mask, from its weights in the two sets. *)
WeightOf(op, A, B, m) ==
  CASE op = "union"        -> Max({WeightIn(A, m), WeightIn(B, m)})
    [] op = "intersection" -> Min({WeightIn(A, m), WeightIn(B, m)})
    [] OTHER               -> Max({0, WeightIn(A, m) - WeightIn(B, m)})

(* The merges decide for each mask as the definition of the operation      *)
(* does.                                                                   *)
LEMMA WeightOfIs ==
  ASSUME NEW op \in Operations, NEW A, NEW B, Assigns(A), Assigns(B), NEW m, NEW w
  PROVE  Gives(op, A, B, m, w) <=>
           /\ w = WeightOf(op, A, B, m) /\ w > 0
           /\ Has(A, m) \/ (op # "difference" /\ Has(B, m))
<1> DEFINE x == WeightIn(A, m)
           y == WeightIn(B, m)
           v == WeightOf(op, A, B, m)
<1>1. x \in Int /\ y \in Int /\ (Has(A, m) => <<m, x>> \in A) /\ (~Has(A, m) => x = 0)
      /\ (Has(B, m) => <<m, y>> \in B) /\ (~Has(B, m) => y = 0)
  BY WeightInIs
<1>2. /\ \A z : <<m, z>> \in A <=> Has(A, m) /\ z = x
      /\ \A z : <<m, z>> \in B <=> Has(B, m) /\ z = y
  BY <1>1 DEF Assigns, Has
<1>3. v = Weigh(op, x, y)
  <2>1. /\ Max({x, y}) = Larger(x, y) /\ Min({x, y}) = Smaller(x, y)
        /\ Max({0, x - y}) = Larger(0, x - y)
    BY <1>1, BetterOf
  <2> HIDE DEF x, y
  <2>2. v = CASE op = "union"        -> Max({x, y})
              [] op = "intersection" -> Min({x, y})
              [] OTHER               -> Max({0, x - y})
    BY DEF WeightOf, x, y
  <2> HIDE DEF v
  <2> QED
    BY <2>1, <2>2 DEF Weigh
<1> HIDE DEF x, y, v
<1>4. Gives(op, A, B, m, w) <=>
        /\ w > 0
        /\ \/ Has(A, m) /\ w = x /\ ~Has(B, m) /\ KeepsLeft(op)
           \/ Has(B, m) /\ w = y /\ ~Has(A, m) /\ KeepsRight(op)
           \/ Has(A, m) /\ Has(B, m) /\ w = Weigh(op, x, y)
  BY <1>2 DEF Gives
<1>5. CASE Has(A, m) /\ Has(B, m)
  BY <1>3, <1>4, <1>5 DEF v
<1>6. CASE Has(A, m) /\ ~Has(B, m)
  <2>1. y = 0
    BY <1>1, <1>6
  <2>2. CASE op = "intersection"
    <3>1. Weigh(op, x, y) = Smaller(x, 0)
      BY <2>1, <2>2 DEF Weigh
    <3>2. ~(Smaller(x, 0) > 0)
      BY <1>1 DEF Smaller
    <3> QED
      BY <1>3, <1>4, <1>6, <2>2, <3>1, <3>2 DEF KeepsLeft, v
  <2>3. CASE op # "intersection"
    <3>1. Weigh(op, x, y) = Larger(x, 0) \/ Weigh(op, x, y) = Larger(0, x)
      BY <1>1, <2>1, <2>3 DEF Weigh
    <3>2. \A z : z > 0 => (z = Larger(x, 0) <=> z = x) /\ (z = Larger(0, x) <=> z = x)
      BY <1>1 DEF Larger
    <3>3. w > 0 => (w = Weigh(op, x, y) <=> w = x)
      BY <3>1, <3>2
    <3> QED
      BY <1>3, <1>4, <1>6, <2>3, <3>3 DEF KeepsLeft, v
  <2> QED
    BY <2>2, <2>3
<1>7. CASE ~Has(A, m) /\ Has(B, m)
  <2>1. x = 0
    BY <1>1, <1>7
  <2>2. CASE op = "intersection"
    <3>1. Weigh(op, x, y) = Smaller(0, y)
      BY <2>1, <2>2 DEF Weigh
    <3>2. ~(Smaller(0, y) > 0)
      BY <1>1 DEF Smaller
    <3> QED
      BY <1>3, <1>4, <1>7, <2>2, <3>1, <3>2 DEF KeepsRight, v
  <2>3. CASE op = "union"
    <3>1. Weigh(op, x, y) = Larger(0, y)
      BY <2>1, <2>3 DEF Weigh
    <3>2. \A z : z > 0 => (z = Larger(0, y) <=> z = y)
      BY <1>1 DEF Larger
    <3> QED
      BY <1>3, <1>4, <1>7, <2>3, <3>1, <3>2 DEF KeepsRight, v
  <2>4. CASE op = "difference"
    BY <1>3, <1>4, <1>7, <2>4 DEF KeepsRight, v
  <2> QED
    BY <2>2, <2>3, <2>4 DEF Operations
<1>8. CASE ~Has(A, m) /\ ~Has(B, m)
  BY <1>4, <1>8
<1> QED
  BY <1>5, <1>6, <1>7, <1>8

(* An operation on sets consists of the pairs it gives.                    *)
LEMMA OperationIs ==
  ASSUME NEW op \in Operations, NEW A, NEW B, Assigns(A), Assigns(B)
  PROVE  /\ \A p \in OperationMeans(op, A, B) : \E m, w : p = <<m, w>>
         /\ \A m, w : <<m, w>> \in OperationMeans(op, A, B) <=> Gives(op, A, B, m, w)
<1> DEFINE from == IF op = "difference" THEN A ELSE A \union B
           masks == {p[1] : p \in from}
           all == {<<m, WeightOf(op, A, B, m)>> : m \in masks}
<1>1. OperationMeans(op, A, B) = {p \in all : p[2] > 0}
  BY DEF OperationMeans, WeightOf
<1>2. \A m : m \in masks <=> Has(A, m) \/ (op # "difference" /\ Has(B, m))
  <2>1. \A m : m \in masks <=> \E p \in from : p[1] = m
    OBVIOUS
  <2>2. \A p : p \in from <=> p \in A \/ (op # "difference" /\ p \in B)
    OBVIOUS
  <2>3. \A m : (\E p \in A : p[1] = m) <=> Has(A, m)
    <3> TAKE m
    <3>1. ASSUME NEW p \in A, p[1] = m
          PROVE  Has(A, m)
      <4>1. PICK k, x : x \in Int /\ p = <<k, x>>
        BY DEF Assigns
      <4>2. <<m, x>> \in A
        BY <3>1, <4>1
      <4> QED
        BY <4>2 DEF Has
    <3>2. ASSUME Has(A, m)
          PROVE  \E p \in A : p[1] = m
      <4>1. PICK x : <<m, x>> \in A
        BY <3>2 DEF Has
      <4> QED
        BY <4>1
    <3> QED
      BY <3>1, <3>2
  <2>4. \A m : (\E p \in B : p[1] = m) <=> Has(B, m)
    <3> TAKE m
    <3>1. ASSUME NEW p \in B, p[1] = m
          PROVE  Has(B, m)
      <4>1. PICK k, x : x \in Int /\ p = <<k, x>>
        BY DEF Assigns
      <4>2. <<m, x>> \in B
        BY <3>1, <4>1
      <4> QED
        BY <4>2 DEF Has
    <3>2. ASSUME Has(B, m)
          PROVE  \E p \in B : p[1] = m
      <4>1. PICK x : <<m, x>> \in B
        BY <3>2 DEF Has
      <4> QED
        BY <4>1
    <3> QED
      BY <3>1, <3>2
  <2> HIDE DEF masks, from
  <2> QED
    BY <2>1, <2>2, <2>3, <2>4
<1> HIDE DEF masks
<1>3. \A m, w : <<m, w>> \in all <=> m \in masks /\ w = WeightOf(op, A, B, m)
  OBVIOUS
<1>4. \A p \in all : \E m, w : p = <<m, w>>
  OBVIOUS
<1> HIDE DEF all
<1>5. \A m, w : <<m, w>> \in OperationMeans(op, A, B) <=> m \in masks /\ w = WeightOf(op, A, B, m) /\ w > 0
  BY <1>1, <1>3
<1>6. \A m, w : Gives(op, A, B, m, w) <=>
        w = WeightOf(op, A, B, m) /\ w > 0 /\ (Has(A, m) \/ (op # "difference" /\ Has(B, m)))
  BY WeightOfIs
<1>7. \A m, w : <<m, w>> \in OperationMeans(op, A, B) <=> Gives(op, A, B, m, w)
  BY <1>2, <1>5, <1>6
<1>8. \A p \in OperationMeans(op, A, B) : p \in all
  BY <1>1
<1> QED
  BY <1>4, <1>7, <1>8

(* A list without repeats has one weight for each mask.                    *)
LEMMA ListAssigns ==
  ASSUME NEW s \in ComboLists, NoRepeats(s)
  PROVE  Assigns(Meaning(s))
<1>1. ASSUME NEW p \in Meaning(s)
      PROVE  \E m, x : x \in Int /\ p = <<m, x>>
  <2>1. PICK i \in 1 .. Len(s) : p = Pair(s[i])
    BY MeaningIs
  <2>2. s[i].weight \in Int
    BY EntryIs
  <2> QED
    BY <2>1, <2>2 DEF Pair
<1>2. ASSUME NEW m, NEW x, NEW y, <<m, x>> \in Meaning(s), <<m, y>> \in Meaning(s)
      PROVE  x = y
  <2>1. PICK i \in 1 .. Len(s) : <<m, x>> = Pair(s[i])
    BY <1>2, MeaningIs
  <2>2. PICK j \in 1 .. Len(s) : <<m, y>> = Pair(s[j])
    BY <1>2, MeaningIs
  <2>3. s[i].mask = s[j].mask
    BY <2>1, <2>2 DEF Pair
  <2>4. i = j
    BY <2>3, NoneTwice
  <2> QED
    BY <2>1, <2>2, <2>4 DEF Pair
<1> QED
  BY <1>1, <1>2 DEF Assigns

(* A set operation gives a list in order, whatever its arguments.          *)
LEMMA OperatesWell ==
  ASSUME NEW op, NEW a \in ComboLists, NEW b \in ComboLists
  PROVE  /\ SetOperation(op, a, b).combos \in ComboLists
         /\ CombosAscend(SetOperation(op, a, b).combos)
<1>1. CASE NoRepeats(a) /\ NoRepeats(b)
  <2> DEFINE s == SortedCombos(a)
             t == SortedCombos(b)
  <2>1. s \in ComboLists /\ CombosAscend(s) /\ t \in ComboLists /\ CombosAscend(t)
    BY <1>1, SortedWell
  <2>2. SetOperation(op, a, b).combos = Merge(op, s, t)
    BY <1>1 DEF SetOperation, Parsed
  <2> HIDE DEF s, t
  <2> QED
    BY <2>1, <2>2, MergesWell
<1>2. CASE ~(NoRepeats(a) /\ NoRepeats(b))
  <2>1. SetOperation(op, a, b).combos = << >>
    BY <1>2 DEF SetOperation, Malformed
  <2> QED
    BY <2>1, NoCombo
<1> QED
  BY <1>1, <1>2

(* range_union, range_intersection and range_difference answer for any two *)
(* lists without repeats, however they are ordered, with the combos of the *)
(* union, the intersection and the difference, at the larger, the smaller  *)
(* and the remaining weight, in ascending order: the merges of sorted      *)
(* lists compute what the operations are.                                  *)
THEOREM MergesAreSetOperations ==
  ASSUME NEW op \in Operations, NEW a \in ComboLists, NEW b \in ComboLists, NoRepeats(a), NoRepeats(b)
  PROVE  /\ SetOperation(op, a, b).ok
         /\ Meaning(SetOperation(op, a, b).combos) = OperationMeans(op, Meaning(a), Meaning(b))
         /\ CombosAscend(SetOperation(op, a, b).combos)
<1> DEFINE s == SortedCombos(a)
           t == SortedCombos(b)
           u == Merge(op, s, t)
           A == Meaning(a)
           B == Meaning(b)
           set == OperationMeans(op, A, B)
<1>1. s \in ComboLists /\ CombosAscend(s) /\ Meaning(s) = A /\ t \in ComboLists /\ CombosAscend(t) /\ Meaning(t) = B
  BY SortedWell
<1>2. SetOperation(op, a, b).ok /\ SetOperation(op, a, b).combos = u
  BY DEF SetOperation, Parsed
<1>3. Assigns(A) /\ Assigns(B)
  BY ListAssigns
<1> HIDE DEF s, t, A, B
<1>4. u \in ComboLists /\ CombosAscend(u) /\ \A m, w : <<m, w>> \in Meaning(u) <=> Gives(op, A, B, m, w)
  <2>1. u \in ComboLists /\ CombosAscend(u) /\ \A m, w : <<m, w>> \in Meaning(u) <=> Gives(op, Meaning(s), Meaning(t), m, w)
    BY <1>1, MergesWell
  <2> HIDE DEF u
  <2> QED
    BY <1>1, <2>1
<1>5. /\ \A p \in set : \E m, w : p = <<m, w>>
      /\ \A m, w : <<m, w>> \in set <=> Gives(op, A, B, m, w)
  BY <1>3, OperationIs
<1> HIDE DEF u, set
<1>6. \A p \in Meaning(u) : \E m, w : p = <<m, w>>
  <2> TAKE p \in Meaning(u)
  <2>1. PICK i \in 1 .. Len(u) : p = Pair(u[i])
    BY <1>4, MeaningIs
  <2> QED
    BY <2>1 DEF Pair
<1>7. Meaning(u) = set
  <2>1. ASSUME NEW p \in Meaning(u)
        PROVE  p \in set
    <3>1. PICK m, w : p = <<m, w>>
      BY <1>6
    <3> QED
      BY <1>4, <1>5, <3>1
  <2>2. ASSUME NEW p \in set
        PROVE  p \in Meaning(u)
    <3>1. PICK m, w : p = <<m, w>>
      BY <1>5
    <3> QED
      BY <1>4, <1>5, <3>1
  <2> QED
    BY <2>1, <2>2
<1> QED
  BY <1>2, <1>4, <1>7 DEF set, A, B
-----------------------------------------------------------------------------
(* The calls that make a range of their arguments.                         *)

(* Masks at one weight are a list in the order of the masks.               *)
LEMMA AtWeightIs ==
  ASSUME NEW masks \in Seq(SUBSET Deck), NEW w \in Int
  PROVE  /\ AtWeight(masks, w) \in ComboLists
         /\ MasksAscend(masks) => CombosAscend(AtWeight(masks, w))
<1> DEFINE n == Len(masks)
           s == AtWeight(masks, w)
<1>1. n \in Nat /\ DOMAIN masks = 1 .. n
  BY LenProperties
<1>2. \A i \in 1 .. n : masks[i] \in SUBSET Deck
  BY ElementOfSeq
<1>3. s = [i \in 1 .. n |-> Combo(masks[i], w)]
  BY <1>1 DEF AtWeight
<1>4. \A i \in 1 .. n : Combo(masks[i], w) \in Weighted /\ Combo(masks[i], w).mask = masks[i]
  BY <1>2, ComboIs
<1> HIDE DEF s, n
<1>5. s \in [1 .. n -> Weighted]
  BY <1>3, <1>4
<1>6. s \in Seq(Weighted) /\ Len(s) = n
  BY <1>1, <1>5
<1>7. ASSUME MasksAscend(masks), NEW i \in 1 .. n, NEW j \in 1 .. n, i < j
      PROVE  MaskLess(s[i].mask, s[j].mask)
  BY <1>3, <1>4, <1>7 DEF MasksAscend, n
<1> QED
  BY <1>6, <1>7, Lists DEF s, CombosAscend

(* Hold'em notation: a list, of any order.                                 *)
IsHoldemList(g, text) ==
  g = [n \in 0 .. Len(text) |->
         IF n = 0 THEN << >>
         ELSE IF text[n] = Blank THEN g[n - 1]
         ELSE g[n - 1] \o AtWeight(Ascending(TokenMasks(text[n]), "holdem"), text[n].weight)]

(* A sorted set of Hold'em masks at one weight is a list in order.         *)
LEMMA SortedHoldem ==
  ASSUME NEW masks, NEW w \in Int
  PROVE  /\ AtWeight(Ascending(masks, "holdem"), w) \in ComboLists
         /\ CombosAscend(AtWeight(Ascending(masks, "holdem"), w))
<1> DEFINE s == InOrder(2, masks)
<1>1. Ascending(masks, "holdem") = s
  BY DEF Ascending, CardsPerHand
<1>2. 2 \in Nat
  OBVIOUS
<1>3. s \in Seq(SUBSET Deck) /\ MasksAscend(s)
  BY <1>2, InOrderAscends
<1> HIDE DEF s
<1> QED
  BY <1>1, <1>3, AtWeightIs

(* What Hold'em notation is to give: nothing when a token is malformed or  *)
(* a combo comes twice.                                                    *)
TokensStand(text) ==
  \A i \in DOMAIN text : text[i] # Blank => LegalWeight(text[i].weight) /\ TokenMasks(text[i]) # {}

(* Hold'em notation adds the combos of one token after the other.          *)
LEMMA HoldemListIs ==
  ASSUME NEW text \in Seq(Tokens)
  PROVE  \E g : /\ IsHoldemList(g, text)
                /\ \A i \in 0 .. Len(text) : g[i] \in ComboLists
                /\ ParseHoldem(text) = IF TokensStand(text) /\ NoRepeats(g[Len(text)])
                                       THEN Parsed(g[Len(text)]) ELSE Malformed
<1> DEFINE m == Len(text)
           D == ComboLists
           block(i) == AtWeight(Ascending(TokenMasks(text[i]), "holdem"), text[i].weight)
           start == << >>
           step == [i \in 1 .. m |-> [s \in D |-> IF text[i] = Blank THEN s ELSE s \o block(i)]]
           g == CHOOSE f : IsHoldemList(f, text)
<1>1. m \in Nat
  BY LenProperties
<1>2. \A i \in 1 .. m : block(i) \in D
  <2> TAKE i \in 1 .. m
  <2>1. text[i] \in Tokens
    BY ElementOfSeq
  <2>2. text[i].weight \in Int
    BY <2>1 DEF Tokens
  <2> QED
    BY <2>2, SortedHoldem
<1> HIDE DEF block
<1>3. \A i \in 1 .. m : \A s \in D : s \o block(i) \in D
  BY <1>2, Joined
<1>4. start \in D
  BY NoCombo
<1>5. step \in [1 .. m -> [D -> D]]
  <2> HIDE DEF m, D
  <2> QED
    BY <1>3
<1>6. \E f : IsHoldemList(f, text)
  <2>1. PICK f : Solves(f, m, D, start, step)
    <3> HIDE DEF m, D, start, step
    <3> QED
      BY <1>1, <1>4, <1>5, Recursion
  <2>2. f \in [0 .. m -> D] /\ f[0] = << >> /\ \A i \in 1 .. m : f[i] = step[i][f[i - 1]]
    BY <2>1 DEF Solves
  <2>3. \A i \in 1 .. m : f[i] = IF text[i] = Blank THEN f[i - 1] ELSE f[i - 1] \o block(i)
    <3> TAKE i \in 1 .. m
    <3>1. i - 1 \in 0 .. m
      BY <1>1
    <3>2. f[i - 1] \in D
      <4> HIDE DEF D, step
      <4> QED
        BY <2>2, <3>1
    <3>3. f[i] = step[i][f[i - 1]]
      BY <2>2
    <3> HIDE DEF m, D
    <3> QED
      BY <3>2, <3>3
  <2>4. \A n \in 0 .. m : n = 0 \/ n \in 1 .. m
    BY <1>1
  <2>5. f = [n \in 0 .. m |-> IF n = 0 THEN << >> ELSE IF text[n] = Blank THEN f[n - 1] ELSE f[n - 1] \o block(n)]
    <3>1. \A n \in 0 .. m :
            f[n] = IF n = 0 THEN << >> ELSE IF text[n] = Blank THEN f[n - 1] ELSE f[n - 1] \o block(n)
      BY <2>2, <2>3, <2>4
    <3> HIDE DEF m, D
    <3> QED
      BY <2>2, <3>1
  <2> QED
    BY <2>5 DEF IsHoldemList, block
<1>7. IsHoldemList(g, text)
  BY <1>6
<1>8. ParseHoldem(text) = IF TokensStand(text) /\ NoRepeats(g[m]) THEN Parsed(g[m]) ELSE Malformed
  BY DEF ParseHoldem, IsHoldemList, TokensStand
<1> HIDE DEF g
<1>9. /\ g[0] = << >>
      /\ \A i \in 1 .. m : g[i] = IF text[i] = Blank THEN g[i - 1] ELSE g[i - 1] \o block(i)
  <2>1. \A n \in 0 .. m :
          g[n] = IF n = 0 THEN << >> ELSE IF text[n] = Blank THEN g[n - 1] ELSE g[n - 1] \o block(n)
    BY <1>7 DEF IsHoldemList, block
  <2>2. 0 \in 0 .. m /\ \A i \in 1 .. m : i \in 0 .. m /\ i # 0
    BY <1>1
  <2> QED
    BY <2>1, <2>2
<1>10. \A i \in 0 .. m : g[i] \in D
  <2>1. g[0] \in D
    BY <1>4, <1>9
  <2>2. \A i \in 1 .. m : g[i - 1] \in D => g[i] \in D
    BY <1>3, <1>9
  <2> HIDE DEF m, D
  <2> QED
    BY <1>1, <2>1, <2>2, Stays
<1> QED
  BY <1>7, <1>8, <1>10 DEF m

(* Hold'em notation gives a list of combos.                                *)
LEMMA ParseHoldemTyped ==
  ASSUME NEW text \in Seq(Tokens)
  PROVE  ParseHoldem(text).combos \in ComboLists
<1>1. PICK g : /\ \A i \in 0 .. Len(text) : g[i] \in ComboLists
               /\ ParseHoldem(text) = IF TokensStand(text) /\ NoRepeats(g[Len(text)])
                                      THEN Parsed(g[Len(text)]) ELSE Malformed
  BY HoldemListIs
<1>2. Len(text) \in 0 .. Len(text)
  BY LenProperties
<1>3. << >> \in ComboLists
  BY NoCombo
<1> QED
  BY <1>1, <1>2, <1>3 DEF Parsed, Malformed

(* PLO notation: ascending.                                                *)
LEMMA ParsePloWell ==
  ASSUME NEW text \in Seq(Items)
  PROVE  ParsePlo(text).combos \in ComboLists /\ CombosAscend(ParsePlo(text).combos)
<1> DEFINE masks == {<<i, ItemMasks(text[i])>> : i \in DOMAIN text}
           hands == UNION {m[2] : m \in masks}
           from(h) == CHOOSE m \in masks : h \in m[2]
           weight(h) == text[from(h)[1]].weight
           list == InOrder(4, hands)
           combos == [i \in DOMAIN list |-> Combo(list[i], weight(list[i]))]
           n == Len(list)
<1>1. ParsePlo(text).combos = combos \/ ParsePlo(text).combos = << >>
  BY DEF ParsePlo, Ascending, CardsPerHand, Parsed, Malformed
<1>2. \A h \in hands : weight(h) \in Int
  <2> TAKE h \in hands
  <2>1. \E m \in masks : h \in m[2]
    OBVIOUS
  <2>2. from(h) \in masks
    BY <2>1
  <2>3. \A m \in masks : m[1] \in DOMAIN text
    OBVIOUS
  <2> HIDE DEF masks, hands, from
  <2>4. from(h)[1] \in DOMAIN text
    BY <2>2, <2>3
  <2>5. DOMAIN text = 1 .. Len(text)
    BY LenProperties
  <2>6. text[from(h)[1]] \in Items
    BY <2>4, <2>5, ElementOfSeq
  <2> QED
    BY <2>6 DEF Items
<1>3. 4 \in Nat
  OBVIOUS
<1> HIDE DEF masks, hands, weight
<1>4. list \in Seq(SUBSET Deck) /\ Within(list, hands) /\ MasksAscend(list)
  BY <1>3, InOrderAscends
<1> HIDE DEF list
<1>5. n \in Nat /\ DOMAIN list = 1 .. n /\ \A i \in 1 .. n : list[i] \in SUBSET Deck
  BY <1>4, LenProperties, ElementOfSeq
<1>6. \A i \in 1 .. n : list[i] \in hands /\ \A j \in 1 .. n : i < j => MaskLess(list[i], list[j])
  BY <1>4 DEF Within, MasksAscend
<1> HIDE DEF n
<1>7. \A i \in 1 .. n : Combo(list[i], weight(list[i])) \in Weighted /\ Combo(list[i], weight(list[i])).mask = list[i]
  <2> TAKE i \in 1 .. n
  <2> DEFINE w == weight(list[i])
  <2>1. w \in Int /\ list[i] \in SUBSET Deck
    BY <1>2, <1>5, <1>6
  <2> HIDE DEF w
  <2>2. Combo(list[i], w) \in Weighted /\ Combo(list[i], w).mask = list[i]
    BY <2>1, ComboIs
  <2> QED
    BY <2>2 DEF w
<1>8. combos = [i \in 1 .. n |-> Combo(list[i], weight(list[i]))]
  BY <1>5
<1> HIDE DEF combos
<1>9. combos \in [1 .. n -> Weighted] /\ \A i \in 1 .. n : combos[i].mask = list[i]
  BY <1>7, <1>8
<1>10. combos \in Seq(Weighted) /\ Len(combos) = n
  BY <1>5, <1>9
<1>11. combos \in ComboLists /\ CombosAscend(combos)
  BY <1>6, <1>9, <1>10, Lists DEF CombosAscend
<1> QED
  BY <1>1, <1>11, NoCombo

(* All hands of two cards: a list of masks.                                *)
IsPairLoop(g) ==
  g = [c \in 0 .. NumCards |->
         IF c = NumCards THEN << >>
         ELSE [i \in 1 .. NumCards - 1 - c |-> {c, c + i}] \o g[c + 1]]

(* The list of all Hold'em hands, and each end of it, is a list of masks.  *)
LEMMA PairLoopIs ==
  \E g : /\ IsPairLoop(g) /\ AllHoldem = g[0]
         /\ \A c \in 0 .. NumCards : g[c] \in Seq(SUBSET Deck)
<1> DEFINE N == NumCards
           S == 0 .. N
           D == Seq(SUBSET Deck)
           row(c) == [i \in 1 .. N - 1 - c |-> {c, c + i}]
           body(c, h) == IF c = N THEN << >> ELSE row(c) \o h[c + 1]
           F == [c \in S |-> [h \in [S -> D] |-> body(c, h)]]
           mu == [c \in S |-> N - c]
           g == CHOOSE f : IsPairLoop(f)
<1>1. N \in Nat /\ Deck = 0 .. N - 1
  BY DeckIs DEF Deck
<1> HIDE DEF N
<1>2. \A c \in S : c # N => row(c) \in D
  <2> SUFFICES ASSUME NEW c \in S, c # N PROVE row(c) \in D
    OBVIOUS
  <2> DEFINE n == N - 1 - c
  <2>1. n \in Nat /\ c \in Deck /\ \A i \in 1 .. n : c + i \in Deck
    BY <1>1
  <2> HIDE DEF n
  <2>2. [i \in 1 .. n |-> {c, c + i}] \in [1 .. n -> SUBSET Deck]
    BY <2>1
  <2>3. [i \in 1 .. n |-> {c, c + i}] \in D
    BY <2>1, <2>2
  <2> QED
    BY <2>3 DEF n
<1>3. << >> \in D
  BY EmptySeq
<1>4. \A c \in S : c # N => c + 1 \in S
  BY <1>1
<1> HIDE DEF row
<1>5. ASSUME NEW c \in S, NEW h, h[c + 1] \in D
      PROVE  body(c, h) \in D
  <2>1. c # N => row(c) \o h[c + 1] \in D
    BY <1>2, <1>5, ConcatProperties
  <2> QED
    BY <1>3, <2>1
<1>6. Bodies(F, S, D)
  <2>1. \A c \in S : \A h \in [S -> D] : body(c, h) \in D
    <3> TAKE c \in S
    <3> TAKE h \in [S -> D]
    <3>1. CASE c = N
      BY <1>3, <3>1
    <3>2. CASE c # N
      <4>1. h[c + 1] \in D
        <5> HIDE DEF S, D
        <5> QED
          BY <1>4, <3>2
      <4> HIDE DEF body, D
      <4> QED
        BY <1>5, <4>1
    <3> QED
      BY <3>1, <3>2
  <2>2. F \in [S -> [[S -> D] -> D]]
    <3> HIDE DEF S, D, body
    <3> QED
      BY <2>1
  <2> HIDE DEF F, S, D
  <2> QED
    BY <1>3, <2>2 DEF Bodies
<1>7. Measures(mu, S, N)
  BY <1>1 DEF Measures
<1>8. LooksDown(F, S, D, mu)
  <2> SUFFICES ASSUME NEW c \in S, NEW h \in [S -> D], NEW k \in [S -> D],
                      \A y \in S : mu[y] < mu[c] => h[y] = k[y]
               PROVE  F[c][h] = F[c][k]
    <3> HIDE DEF F, S, D, mu
    <3> QED
      BY DEF LooksDown
  <2>1. body(c, h) = body(c, k)
    <3>1. CASE c = N
      BY <3>1
    <3>2. CASE c # N
      <4>1. c + 1 \in S /\ mu[c + 1] < mu[c]
        BY <1>1, <3>2
      <4>2. h[c + 1] = k[c + 1]
        <5> HIDE DEF mu, S
        <5> QED
          BY <4>1
      <4> QED
        BY <4>2
    <3> QED
      BY <3>1, <3>2
  <2> HIDE DEF S, D, body
  <2> QED
    BY <2>1
<1>9. \E f : IsPairLoop(f)
  <2>1. \E f : Obeys(f, F, S, D)
    <3> HIDE DEF F, S, D, mu
    <3> QED
      BY <1>6, <1>7, <1>8, BoundedRecursion
  <2>2. PICK f : Obeys(f, F, S, D)
    BY <2>1
  <2>3. f \in [S -> D] /\ \A c \in S : f[c] = body(c, f)
    <3> HIDE DEF S, D, body
    <3> QED
      BY <2>2 DEF Obeys
  <2>4. f = [c \in S |-> body(c, f)]
    <3> HIDE DEF S, D, body
    <3> QED
      BY <2>3
  <2> QED
    BY <2>4 DEF IsPairLoop, row, N
<1>10. IsPairLoop(g)
  BY <1>9
<1>11. AllHoldem = g[0]
  BY DEF AllHoldem, IsPairLoop
<1> HIDE DEF g
<1>12. \A c \in S : g[c] = body(c, g)
  BY <1>10 DEF IsPairLoop, row, N
<1> DEFINE back == [i \in S |-> g[N - i]]
<1>13. back[0] \in D
  <2>1. back[0] = g[N] /\ N \in S
    BY <1>1
  <2>2. g[N] = << >>
    BY <1>12, <2>1
  <2> QED
    BY <1>3, <2>1, <2>2
<1>14. \A i \in 1 .. N : back[i - 1] \in D => back[i] \in D
  <2> SUFFICES ASSUME NEW i \in 1 .. N, back[i - 1] \in D PROVE back[i] \in D
    OBVIOUS
  <2> DEFINE c == N - i
  <2>1. c \in S /\ c # N /\ c + 1 = N - (i - 1) /\ i \in S /\ i - 1 \in S
    BY <1>1
  <2>2. back[i] = g[c] /\ back[i - 1] = g[c + 1]
    BY <2>1
  <2> HIDE DEF c, back
  <2>3. g[c] = body(c, g)
    BY <1>12, <2>1
  <2> HIDE DEF body, D
  <2> QED
    BY <1>5, <2>1, <2>2, <2>3
<1>15. \A i \in 0 .. N : back[i] \in D
  <2> HIDE DEF back, D
  <2> QED
    BY <1>1, <1>13, <1>14, Stays
<1>16. \A c \in S : N - c \in S /\ N - (N - c) = c
  BY <1>1
<1>17. \A c \in S : g[c] \in D
  <2> TAKE c \in S
  <2>1. back[N - c] = g[c]
    BY <1>16
  <2> HIDE DEF back, D
  <2> QED
    BY <1>15, <1>16, <2>1
<1> QED
  BY <1>10, <1>11, <1>17 DEF N

(* The list of all Hold'em hands is a list of masks.                       *)
LEMMA AllHoldemTyped == AllHoldem \in Seq(SUBSET Deck)
<1>1. 0 \in 0 .. NumCards
  BY DeckIs
<1> QED
  BY <1>1, PairLoopIs

(* Every construction gives a list of combos, in order where that is       *)
(* promised.                                                               *)
LEMMA MadeWell ==
  ASSUME NEW c \in Sources
  PROVE  /\ Made(c).combos \in ComboLists
         /\ Made(c).ok /\ SourceMeans(c).ordered => CombosAscend(Made(c).combos)
<1> DEFINE game == GameOf(c)
<1>1. /\ c \in SourceCalls
      /\ IF c.game = "plo" THEN c.op # "try" /\ c.text \in Seq(Items) ELSE c.text \in Seq(Tokens)
  BY StoreAssumption
<1>2. c.op \in {"empty", "combos", "string", "try", "all", "top"} /\ c.combos \in ComboLists
  BY <1>1 DEF SourceCalls
<1>3. game = "plo" <=> c.game = "plo"
  BY DEF GameOf
<1>4. Full \in Int
  BY CombosAssumption
<1>5. Malformed.combos = << >> /\ Malformed.ok = FALSE /\ \A s : Parsed(s).combos = s
  BY DEF Malformed, Parsed
<1>6. /\ SourceMeans(c).ordered <=> c.op = "top" \/ (GameMade(c) = "plo" /\ c.op \in {"string", "all"})
      /\ c.op \in {"string", "all"} => GameMade(c) = game
  BY DEF SourceMeans, GameMade
<1> HIDE DEF game
<1>7. CASE Made(c) = Malformed
  BY <1>5, <1>7, NoCombo
<1>8. CASE c.op = "empty"
  <2>1. Made(c) = Parsed(<< >>)
    BY <1>8 DEF Made
  <2> QED
    BY <1>5, <2>1, NoCombo
<1>9. CASE Made(c) # Malformed /\ c.op = "try"
  <2>1. Made(c) = ParseHoldem(c.text)
    BY <1>9 DEF Made
  <2>2. c.text \in Seq(Tokens)
    BY <1>1, <1>9
  <2>3. ~SourceMeans(c).ordered
    BY <1>6, <1>9
  <2> QED
    BY <2>1, <2>2, <2>3, ParseHoldemTyped
<1>10. CASE Made(c) # Malformed /\ c.op \notin {"empty", "try"}
  <2>1. Made(c) = CASE c.op = "combos" -> IF RightSizes(c.combos, game) THEN Parsed(c.combos) ELSE Malformed
                    [] c.op = "string" -> FromString(c.text, game)
                    [] c.op = "all"    -> Parsed(AllCombos(game))
                    [] c.op = "top"    -> IF game = "holdem" /\ LegalPercent(c.percent)
                                          THEN Parsed(TopCombos(c.percent)) ELSE Malformed
    BY <1>10 DEF Made, game
  <2>2. CASE c.op = "combos"
    <3>1. Made(c) = Parsed(c.combos)
      BY <1>10, <2>1, <2>2
    <3>2. ~SourceMeans(c).ordered
      BY <1>6, <2>2
    <3> QED
      BY <1>2, <1>5, <3>1, <3>2
  <2>3. CASE c.op = "string"
    <3>1. Made(c) = FromString(c.text, game)
      BY <2>1, <2>3
    <3>2. CASE game = "plo"
      <4>1. Made(c) = ParsePlo(c.text) /\ c.text \in Seq(Items)
        BY <1>1, <1>3, <3>1, <3>2 DEF FromString
      <4> QED
        BY <4>1, ParsePloWell
    <3>3. CASE game # "plo"
      <4>1. Made(c) = ParseHoldem(c.text) /\ c.text \in Seq(Tokens)
        BY <1>1, <1>3, <3>1, <3>3 DEF FromString
      <4>2. ~SourceMeans(c).ordered
        BY <1>6, <2>3, <3>3
      <4> QED
        BY <4>1, <4>2, ParseHoldemTyped
    <3> QED
      BY <3>2, <3>3
  <2>4. CASE c.op = "all"
    <3>1. Made(c) = Parsed(AllCombos(game))
      BY <2>1, <2>4
    <3>2. CASE game = "plo"
      <4>1. AllCombos(game) = AtWeight(InOrder(4, SUBSET Deck), Full)
        BY <3>2 DEF AllCombos, PloMasks
      <4>2. 4 \in Nat
        OBVIOUS
      <4>3. InOrder(4, SUBSET Deck) \in Seq(SUBSET Deck) /\ MasksAscend(InOrder(4, SUBSET Deck))
        BY <4>2, InOrderAscends
      <4> QED
        BY <1>4, <1>5, <3>1, <4>1, <4>3, AtWeightIs
    <3>3. CASE game # "plo"
      <4>1. AllCombos(game) = AtWeight(AllHoldem, Full)
        BY <3>3 DEF AllCombos
      <4>2. ~SourceMeans(c).ordered
        BY <1>6, <2>4, <3>3
      <4> QED
        BY <1>4, <1>5, <3>1, <4>1, <4>2, AtWeightIs, AllHoldemTyped
    <3> QED
      BY <3>2, <3>3
  <2>5. CASE c.op = "top"
    <3>1. Made(c) = Parsed(TopCombos(c.percent))
      BY <1>10, <2>1, <2>5
    <3>2. TopCombos(c.percent) =
            AtWeight(Ascending(UNION {ClassMasks(RankedHands(c.percent)[n]) : n \in DOMAIN RankedHands(c.percent)}, "holdem"), Full)
      BY DEF TopCombos
    <3>3. TopCombos(c.percent) \in ComboLists /\ CombosAscend(TopCombos(c.percent))
      <4> DEFINE masks == UNION {ClassMasks(RankedHands(c.percent)[n]) : n \in DOMAIN RankedHands(c.percent)}
      <4>1. TopCombos(c.percent) = AtWeight(Ascending(masks, "holdem"), Full)
        BY <3>2
      <4> HIDE DEF masks
      <4> QED
        BY <1>4, <4>1, SortedHoldem
    <3> QED
      BY <1>5, <3>1, <3>3
  <2> QED
    BY <1>2, <1>10, <2>2, <2>3, <2>4, <2>5
<1> QED
  BY <1>7, <1>8, <1>9, <1>10

-----------------------------------------------------------------------------
(* The store.                                                              *)

(* Every range is a list of combos, in order where that was promised.      *)
ListsHeld ==
  \A s \in Alive : /\ store[s].combos \in ComboLists
                   /\ means[s].ordered => CombosAscend(store[s].combos)

(* There is a slot left for whatever is made.                              *)
RoomLeft ==
  /\ Alive \subseteq Slots
  /\ calls \in Nat
  /\ calls = 0 => Alive = {}

StoreInv == SlotTellsSuccess /\ RoomLeft /\ DOMAIN means = Alive /\ ListsHeld

(* There are as many slots as ranges may be alive, and NULL is none of     *)
(* them.                                                                   *)
LEMMA SlotsAre ==
  /\ Slots \subseteq Nat /\ IsFiniteSet(Slots) /\ Cardinality(Slots) = MaxRanges /\ Slots # {}
  /\ Null \notin Slots /\ MaxRanges \in Nat
<1>1. MaxRanges \in Nat /\ MaxRanges >= 1
  BY StoreAssumption
<1>2. 1 \in Int /\ MaxRanges \in Int
  BY <1>1
<1>3. IsFiniteSet(1 .. MaxRanges) /\ Cardinality(1 .. MaxRanges) = IF 1 > MaxRanges THEN 0 ELSE MaxRanges - 1 + 1
  BY <1>2, FS_Interval
<1>4. Cardinality(1 .. MaxRanges) = MaxRanges
  BY <1>1, <1>3
<1> QED
  BY <1>1, <1>3, <1>4 DEF Slots, Null

(* A new range takes a slot that is not in use.                            *)
LEMMA FreeSlotIs ==
  ASSUME RoomLeft, calls = 0 \/ Cardinality(Alive) < MaxRanges
  PROVE  FreeSlot \in Slots /\ FreeSlot \notin Alive /\ FreeSlot # Null
<1>1. Slots \ Alive # {}
  <2>1. CASE calls = 0
    BY <2>1, SlotsAre DEF RoomLeft
  <2>2. CASE Cardinality(Alive) < MaxRanges
    <3>1. Alive # Slots
      BY <2>2, SlotsAre
    <3> QED
      BY <3>1 DEF RoomLeft
  <2> QED
    BY <2>1, <2>2
<1> DEFINE free == Slots \ Alive
<1>2. free \subseteq Nat /\ free # {}
  BY <1>1, SlotsAre
<1> HIDE DEF free
<1>3. Min(free) \in free
  BY <1>2, MinIs
<1> QED
  BY <1>3, SlotsAre DEF FreeSlot, free

(* The session starts with an empty store.                                 *)
LEMMA InitStore == Init => StoreInv
<1> SUFFICES ASSUME Init PROVE StoreInv
  OBVIOUS
<1>1. DOMAIN store = {} /\ DOMAIN means = {}
  BY DEF Init
<1> QED
  BY <1>1 DEF Init, StoreInv, SlotTellsSuccess, RoomLeft, ListsHeld, Alive, Null

(* A call that makes a range of a list keeps the invariant.                *)
LEMMA Given ==
  ASSUME StoreInv, FreeSlot \in Slots, FreeSlot # Null, NEW range, NEW meaning, Give(range, meaning),
         range.combos \in ComboLists, meaning.ordered => CombosAscend(range.combos),
         asked' = "made", MoreCalls
  PROVE  StoreInv'
<1>1. /\ DOMAIN store' = Alive \union {FreeSlot} /\ DOMAIN means' = Alive \union {FreeSlot}
      /\ \A s \in Alive \union {FreeSlot} :
           /\ store'[s] = IF s = FreeSlot THEN range ELSE store[s]
           /\ means'[s] = IF s = FreeSlot THEN meaning ELSE means[s]
      /\ out' = FreeSlot /\ status' = "ok"
  BY DEF Give
<1>2. Alive' = Alive \union {FreeSlot}
  BY <1>1 DEF Alive
<1>3. ListsHeld'
  <2> SUFFICES ASSUME NEW s \in Alive'
               PROVE  store'[s].combos \in ComboLists /\ (means'[s].ordered => CombosAscend(store'[s].combos))
    BY DEF ListsHeld
  <2>1. CASE s = FreeSlot
    BY <1>1, <1>2, <2>1
  <2>2. CASE s # FreeSlot
    <3>1. s \in Alive /\ store'[s] = store[s] /\ means'[s] = means[s]
      BY <1>1, <1>2, <2>2
    <3> QED
      BY <3>1 DEF StoreInv, ListsHeld
  <2> QED
    BY <2>1, <2>2
<1>4. RoomLeft'
  <2>1. calls \in Nat /\ calls' = calls + 1
    BY DEF StoreInv, RoomLeft, MoreCalls
  <2> QED
    BY <1>2, <2>1 DEF StoreInv, RoomLeft, Slots
<1>5. SlotTellsSuccess'
  BY <1>1, <1>2 DEF SlotTellsSuccess, Null
<1>6. DOMAIN means' = Alive'
  BY <1>1, <1>2
<1> QED
  BY <1>3, <1>4, <1>5, <1>6 DEF StoreInv

(* A refused call clears the output slot and makes nothing.                *)
LEMMA Refused ==
  ASSUME StoreInv, NEW code, Refuse(code), asked' = "refused", MoreCalls
  PROVE  StoreInv'
<1>1. out' = Null /\ store' = store /\ means' = means
  BY DEF Refuse
<1>2. Alive' = Alive
  BY <1>1 DEF Alive
<1>3. calls \in Nat /\ calls' = calls + 1
  BY DEF StoreInv, RoomLeft, MoreCalls
<1>4. RoomLeft' /\ ListsHeld' /\ DOMAIN means' = Alive'
  BY <1>1, <1>2, <1>3 DEF StoreInv, RoomLeft, ListsHeld, Slots
<1>5. SlotTellsSuccess'
  BY <1>1 DEF SlotTellsSuccess
<1> QED
  BY <1>4, <1>5 DEF StoreInv

(* A call that only reads leaves ranges and slot alone.                    *)
LEMMA Answered ==
  ASSUME StoreInv, MoreCalls, asked' = "other", UNCHANGED <<store, means, out>>
  PROVE  StoreInv'
<1>1. Alive' = Alive
  BY DEF Alive
<1>2. calls \in Nat /\ calls' = calls + 1
  BY DEF StoreInv, RoomLeft, MoreCalls
<1>3. RoomLeft' /\ ListsHeld' /\ DOMAIN means' = Alive'
  BY <1>1, <1>2 DEF StoreInv, RoomLeft, ListsHeld, Slots
<1>4. SlotTellsSuccess'
  BY <1>1 DEF StoreInv, SlotTellsSuccess
<1> QED
  BY <1>3, <1>4 DEF StoreInv

(* A creation keeps the invariant, whether it succeeds or not.             *)
LEMMA CreateKeeps ==
  ASSUME StoreInv, NEW c \in Sources, Create(c)
  PROVE  StoreInv'
<1>1. MoreCalls /\ asked' = IF Made(c).ok THEN "made" ELSE "refused"
  BY DEF Create
<1>2. CASE Made(c).ok
  <2> DEFINE range == [game |-> GameMade(c), tag |-> TagOf(c), combos |-> Made(c).combos]
             meaning == SourceMeans(c)
  <2>1. Give(range, meaning)
    BY <1>2 DEF Create
  <2>2. calls = 0 \/ Cardinality(Alive) < MaxRanges
    <3>1. calls = 0 \/ Cardinality(Alive) < MaxRanges - 1
      BY DEF Create
    <3>2. Cardinality(Alive) \in Nat
      <4>1. IsFiniteSet(Alive)
        BY SlotsAre, FS_Subset DEF StoreInv, RoomLeft
      <4> QED
        BY <4>1, FS_CardinalityType
    <3> QED
      BY <3>1, <3>2, SlotsAre
  <2>3. FreeSlot \in Slots /\ FreeSlot # Null
    BY <2>2, FreeSlotIs DEF StoreInv
  <2>4. range.combos \in ComboLists /\ (meaning.ordered => CombosAscend(range.combos))
    <3>1. range.combos = Made(c).combos
      OBVIOUS
    <3> QED
      BY <1>2, <3>1, MadeWell
  <2>5. asked' = "made"
    BY <1>1, <1>2
  <2> HIDE DEF range, meaning
  <2> QED
    BY <1>1, <2>1, <2>3, <2>4, <2>5, Given
<1>3. CASE ~Made(c).ok
  <2> DEFINE code == IF c.op = "try" /\ ~c.missing THEN "ok" ELSE "invalid_argument"
  <2>1. Refuse(code)
    BY <1>3 DEF Create
  <2>2. asked' = "refused"
    BY <1>1, <1>3
  <2> HIDE DEF code
  <2> QED
    BY <1>1, <2>1, <2>2, Refused
<1> QED
  BY <1>2, <1>3

(* A set operation keeps the invariant.                                    *)
LEMMA OperateKeeps ==
  ASSUME StoreInv, NEW op \in Operations, NEW a \in Alive, NEW b \in Alive, Operate(op, a, b)
  PROVE  StoreInv'
<1> DEFINE x == store[a].combos
           y == store[b].combos
           made == IF SameGame(a, b) THEN SetOperation(op, x, y) ELSE Malformed
<1>1. MoreCalls /\ Cardinality(Alive) < MaxRanges /\ asked' = IF made.ok THEN "made" ELSE "refused"
  BY DEF Operate
<1>2. x \in ComboLists /\ y \in ComboLists
  BY DEF StoreInv, ListsHeld
<1>3. made.combos \in ComboLists /\ CombosAscend(made.combos)
  <2>1. SetOperation(op, x, y).combos \in ComboLists /\ CombosAscend(SetOperation(op, x, y).combos)
    <3> HIDE DEF x, y
    <3> QED
      BY <1>2, OperatesWell
  <2>2. Malformed.combos = << >>
    BY DEF Malformed
  <2> HIDE DEF x, y
  <2> QED
    BY <2>1, <2>2, NoCombo
<1>4. CASE made.ok
  <2> DEFINE range == [game |-> store[a].game, tag |-> store[a].tag, combos |-> made.combos]
             meaning == [ordered |-> TRUE, set |-> OperationMeans(op, means[a].set, means[b].set)]
  <2>1. Give(range, meaning)
    BY <1>4 DEF Operate
  <2>2. FreeSlot \in Slots /\ FreeSlot # Null
    BY <1>1, FreeSlotIs DEF StoreInv
  <2>3. range.combos \in ComboLists /\ (meaning.ordered => CombosAscend(range.combos))
    <3>1. range.combos = made.combos
      OBVIOUS
    <3> HIDE DEF made, range
    <3> QED
      BY <1>3, <3>1
  <2>4. asked' = "made"
    BY <1>1, <1>4
  <2> HIDE DEF range, meaning
  <2> QED
    BY <1>1, <2>1, <2>2, <2>3, <2>4, Given
<1>5. CASE ~made.ok
  <2>1. Refuse("invalid_argument")
    BY <1>5 DEF Operate
  <2>2. asked' = "refused"
    BY <1>1, <1>5
  <2> QED
    BY <1>1, <2>1, <2>2, Refused
<1> QED
  BY <1>4, <1>5

(* A destroyed range leaves neither a list nor the slot behind.            *)
LEMMA DestroyKeeps ==
  ASSUME StoreInv, NEW s \in Alive, Destroy(s)
  PROVE  StoreInv'
<1>1. /\ MoreCalls /\ out' = (IF out = s THEN Null ELSE out) /\ asked' = "other"
      /\ DOMAIN store' = Alive \ {s} /\ DOMAIN means' = Alive \ {s}
      /\ \A t \in Alive \ {s} : store'[t] = store[t] /\ means'[t] = means[t]
  BY DEF Destroy
<1>2. Alive' = Alive \ {s}
  BY <1>1 DEF Alive
<1>3. ListsHeld'
  <2> SUFFICES ASSUME NEW t \in Alive'
               PROVE  store'[t].combos \in ComboLists /\ (means'[t].ordered => CombosAscend(store'[t].combos))
    BY DEF ListsHeld
  <2>1. t \in Alive /\ store'[t] = store[t] /\ means'[t] = means[t]
    BY <1>1, <1>2
  <2> QED
    BY <2>1 DEF StoreInv, ListsHeld
<1>4. RoomLeft'
  <2>1. calls \in Nat /\ calls' = calls + 1
    BY <1>1 DEF StoreInv, RoomLeft, MoreCalls
  <2> QED
    BY <1>2, <2>1 DEF StoreInv, RoomLeft, Slots
<1>5. SlotTellsSuccess'
  BY <1>1, <1>2 DEF StoreInv, SlotTellsSuccess
<1> QED
  BY <1>1, <1>2, <1>3, <1>4, <1>5 DEF StoreInv

(* An answer keeps the invariant.                                          *)
LEMMA AnswerKeeps ==
  ASSUME StoreInv, NEW r, Answer(r)
  PROVE  StoreInv'
<1>1. MoreCalls /\ asked' = "other" /\ UNCHANGED <<store, means, out>>
  BY DEF Answer
<1> QED
  BY <1>1, Answered

(* Every step keeps the invariant.                                         *)
LEMMA StepStore == StoreInv /\ [Next]_vars => StoreInv'
<1> SUFFICES ASSUME StoreInv, [Next]_vars PROVE StoreInv'
  OBVIOUS
<1>1. CASE \E c \in Sources : Create(c)
  BY <1>1, CreateKeeps
<1>2. CASE \E op \in Operations, a, b \in Alive : Operate(op, a, b)
  BY <1>2, OperateKeeps
<1>3. CASE CreateFails
  <2>1. PICK code \in {"invalid_argument", "bad_alloc"} : Refuse(code)
    BY <1>3 DEF CreateFails
  <2>2. MoreCalls /\ asked' = "refused"
    BY <1>3 DEF CreateFails
  <2> QED
    BY <2>1, <2>2, Refused
<1>4. CASE \E s \in Alive : Destroy(s)
  BY <1>4, DestroyKeeps
<1>5. CASE \E s \in Alive, dead \in DeadMasks, n \in Capacities : ReadCombos(s, dead, n)
  <2>1. \E r : Answer(r)
    BY <1>5 DEF ReadCombos
  <2> QED
    BY <2>1, AnswerKeeps
<1>6. CASE \E s \in Alive, dead \in DeadMasks : ReadWeight(s, dead)
  <2>1. \E r : Answer(r)
    BY <1>6 DEF ReadWeight
  <2> QED
    BY <2>1, AnswerKeeps
<1>7. CASE \E s \in Alive : ReadHead(s)
  <2>1. \E r : Answer(r)
    BY <1>7 DEF ReadHead
  <2> QED
    BY <2>1, AnswerKeeps
<1>8. CASE \E p \in Percents, game \in {"holdem", "plo", "unknown"}, n \in Capacities : ReadRanking(p, game, n)
  <2>1. PICK p \in Percents, game \in {"holdem", "plo", "unknown"}, n \in Capacities : ReadRanking(p, game, n)
    BY <1>8
  <2>2. CASE game = "holdem" /\ LegalPercent(p)
    <3>1. \E r : Answer(r)
      BY <2>1, <2>2 DEF ReadRanking
    <3> QED
      BY <3>1, AnswerKeeps
  <2>3. CASE ~(game = "holdem" /\ LegalPercent(p))
    <3>1. MoreCalls /\ asked' = "other" /\ UNCHANGED <<store, means, out>>
      BY <2>1, <2>3 DEF ReadRanking
    <3> QED
      BY <3>1, Answered
  <2> QED
    BY <2>2, <2>3
<1>9. CASE UNCHANGED vars
  BY <1>9 DEF vars, StoreInv, SlotTellsSuccess, RoomLeft, ListsHeld, Alive, Slots
<1> QED
  BY <1>1, <1>2, <1>3, <1>4, <1>5, <1>6, <1>7, <1>8, <1>9 DEF Next

(* The handles of waist_handles.cpp: for any number of ranges and calls,   *)
(* every range alive is a list of combos, ascending where its constructor  *)
(* promises that; the slot tells success; and there is room for the next   *)
(* range.                                                                  *)
THEOREM StoreHolds == Spec => []StoreInv
<1> QED
  BY InitStore, StepStore, PTL DEF Spec

(* The output slot after a call, xiapl_range_create and its siblings in    *)
(* api/waist_handles.cpp: not NULL exactly when the call made a range, and *)
(* never a range that was destroyed.                                       *)
THEOREM SlotTellsTruth == Spec => []SlotTellsSuccess
<1>1. StoreInv => SlotTellsSuccess
  BY DEF StoreInv
<1> QED
  BY <1>1, StoreHolds, PTL

(* PLO parsing, all PLO hands, the selection of top hands and the set      *)
(* operations of core/range_plo.cpp, preflop_rank.cpp and                  *)
(* range_setops.cpp: whatever their arguments, the combos come in          *)
(* ascending order of their masks, for a deck of any ranks.                *)
THEOREM PromisedOrderKept == Spec => []AscendingWherePromised
<1>1. StoreInv => AscendingWherePromised
  <2> SUFFICES ASSUME StoreInv, NEW s \in Alive, means[s].ordered, NEW i \in 2 .. Len(store[s].combos)
               PROVE  MaskLess(store[s].combos[i - 1].mask, store[s].combos[i].mask)
    BY DEF AscendingWherePromised
  <2>1. store[s].combos \in ComboLists /\ CombosAscend(store[s].combos)
    BY DEF StoreInv, ListsHeld
  <2>2. Len(store[s].combos) \in Nat
    BY <2>1, Lists, LenProperties
  <2>3. i - 1 \in 1 .. Len(store[s].combos) /\ i \in 1 .. Len(store[s].combos) /\ i - 1 < i
    BY <2>2
  <2> QED
    BY <2>1, <2>3 DEF CombosAscend
<1> QED
  BY <1>1, StoreHolds, PTL

-----------------------------------------------------------------------------
(* What a range means: cards, masks and the lists of them.                 *)

(* The ranks of the deck, and how many there are.                          *)
LEMMA WidthIs ==
  /\ LowRank \in 2 .. 14 /\ Full \in Nat /\ Full > 0
  /\ Cardinality(Ranks) = 15 - LowRank /\ Cardinality(Ranks) \in 1 .. 13
  /\ IsFiniteSet(Ranks) /\ Ranks \subseteq 2 .. 14
  /\ NumCards = 4 * Cardinality(Ranks)
<1>1. LowRank \in 2 .. 14 /\ Full \in Nat /\ Full > 0
  BY CombosAssumption
<1>2. IsFiniteSet(LowRank .. 14) /\ Cardinality(LowRank .. 14) = IF LowRank > 14 THEN 0 ELSE 14 - LowRank + 1
  <2>1. LowRank \in Int /\ 14 \in Int
    BY <1>1
  <2> QED
    BY <2>1, FS_Interval
<1> QED
  BY <1>1, <1>2 DEF Ranks, NumCards

(* Ranks are numbers.                                                      *)
LEMMA RankIsNumber == \A r \in Ranks : r \in Int /\ r \in 2 .. 14 /\ r # 0
<1>1. Ranks \subseteq 2 .. 14
  BY WidthIs
<1> QED BY <1>1

(* A number below four times w is a quotient and a remainder.              *)
LEMMA Split ==
  ASSUME NEW w \in 1 .. 13, NEW c \in 0 .. 4 * w - 1
  PROVE  c % w \in 0 .. w - 1 /\ c \div w \in 0 .. 3 /\ (c \div w) * w + (c % w) = c
<1>1. CASE w = 1
  BY <1>1
<1>2. CASE w = 2
  BY <1>2
<1>3. CASE w = 3
  BY <1>3
<1>4. CASE w = 4
  BY <1>4
<1>5. CASE w = 5
  BY <1>5
<1>6. CASE w = 6
  BY <1>6
<1>7. CASE w = 7
  BY <1>7
<1>8. CASE w = 8
  BY <1>8
<1>9. CASE w = 9
  BY <1>9
<1>10. CASE w = 10
  BY <1>10
<1>11. CASE w = 11
  BY <1>11
<1>12. CASE w = 12
  BY <1>12
<1>13. CASE w = 13
  BY <1>13
<1> QED
  BY <1>1, <1>2, <1>3, <1>4, <1>5, <1>6, <1>7, <1>8, <1>9, <1>10, <1>11, <1>12, <1>13

(* And each quotient and remainder are those of one number.                *)
LEMMA Unsplit ==
  ASSUME NEW w \in 1 .. 13, NEW x \in 0 .. w - 1, NEW s \in 0 .. 3
  PROVE  s * w + x \in 0 .. 4 * w - 1 /\ (s * w + x) % w = x /\ (s * w + x) \div w = s
<1>0. s = 0 \/ s = 1 \/ s = 2 \/ s = 3
  OBVIOUS
<1>1. CASE w = 1
  BY <1>0, <1>1
<1>2. CASE w = 2
  BY <1>0, <1>2
<1>3. CASE w = 3
  BY <1>0, <1>3
<1>4. CASE w = 4
  BY <1>0, <1>4
<1>5. CASE w = 5
  BY <1>0, <1>5
<1>6. CASE w = 6
  BY <1>0, <1>6
<1>7. CASE w = 7
  BY <1>0, <1>7
<1>8. CASE w = 8
  BY <1>0, <1>8
<1>9. CASE w = 9
  BY <1>0, <1>9
<1>10. CASE w = 10
  BY <1>0, <1>10
<1>11. CASE w = 11
  BY <1>0, <1>11
<1>12. CASE w = 12
  BY <1>0, <1>12
<1>13. CASE w = 13
  BY <1>0, <1>13
<1> QED
  BY <1>1, <1>2, <1>3, <1>4, <1>5, <1>6, <1>7, <1>8, <1>9, <1>10, <1>11, <1>12, <1>13

(* A card is its rank and its suit.                                        *)
LEMMA CardParts ==
  /\ \A c \in Deck : RankOf(c) \in Ranks /\ SuitOf(c) \in Suits /\ CardId(RankOf(c), SuitOf(c)) = c
  /\ \A r \in Ranks : \A s \in Suits :
       CardId(r, s) \in Deck /\ RankOf(CardId(r, s)) = r /\ SuitOf(CardId(r, s)) = s
<1> DEFINE w == Cardinality(Ranks)
<1>0. w \in 1 .. 13 /\ LowRank \in 2 .. 14 /\ w = 15 - LowRank /\ Deck = 0 .. 4 * w - 1
  BY WidthIs DEF Deck
<1>1. ASSUME NEW c \in Deck
      PROVE  RankOf(c) \in Ranks /\ SuitOf(c) \in Suits /\ CardId(RankOf(c), SuitOf(c)) = c
  <2>1. c % w \in 0 .. w - 1 /\ c \div w \in 0 .. 3 /\ (c \div w) * w + (c % w) = c
    <3> HIDE DEF w
    <3> QED
      BY <1>0, <1>1, Split
  <2>2. RankOf(c) = (c % w) + LowRank /\ SuitOf(c) = c \div w /\ Suits = 0 .. 3 /\ Ranks = LowRank .. 14
    BY DEF RankOf, SuitOf, Suits, Ranks
  <2>3. CardId(RankOf(c), SuitOf(c)) = (c \div w) * w + ((c % w) + LowRank) - LowRank
    BY <2>2 DEF CardId
  <2> DEFINE q == c \div w
             x == c % w
             y == q * w
  <2>4. q \in 0 .. 3 /\ x \in 0 .. w - 1 /\ y + x = c
    BY <2>1
  <2>5. y \in Int
    <3> HIDE DEF q, w
    <3> QED
      BY <1>0, <2>4
  <2>6. CardId(RankOf(c), SuitOf(c)) = y + (x + LowRank) - LowRank
    BY <2>3
  <2>7. RankOf(c) = x + LowRank /\ SuitOf(c) = q
    BY <2>2
  <2> HIDE DEF q, x, y, w
  <2> QED
    BY <1>0, <2>2, <2>4, <2>5, <2>6, <2>7
<1>2. ASSUME NEW r \in Ranks, NEW s \in Suits
      PROVE  CardId(r, s) \in Deck /\ RankOf(CardId(r, s)) = r /\ SuitOf(CardId(r, s)) = s
  <2> DEFINE x == r - LowRank
             y == s * w
  <2>1. x \in 0 .. w - 1 /\ s \in 0 .. 3 /\ r = x + LowRank /\ r \in Int
    BY <1>0, <1>2 DEF Ranks, Suits
  <2>2. y \in Int
    <3> HIDE DEF w
    <3> QED
      BY <1>0, <2>1
  <2>3. CardId(r, s) = y + r - LowRank
    BY DEF CardId
  <2>4. CardId(r, s) = y + x
    <3> HIDE DEF y, w
    <3> QED
      BY <2>1, <2>2, <2>3, <1>0
  <2>5. y + x \in 0 .. 4 * w - 1 /\ (y + x) % w = x /\ (y + x) \div w = s
    <3> HIDE DEF w, x
    <3> QED
      BY <1>0, <2>1, Unsplit
  <2>6. RankOf(CardId(r, s)) = ((y + x) % w) + LowRank /\ SuitOf(CardId(r, s)) = (y + x) \div w
    BY <2>4 DEF RankOf, SuitOf
  <2> HIDE DEF x, y, w
  <2> QED
    BY <1>0, <2>1, <2>4, <2>5, <2>6
<1> QED
  BY <1>1, <1>2

(* Cards are one when their ranks and suits are.                           *)
LEMMA SameCard ==
  ASSUME NEW c \in Deck, NEW d \in Deck, RankOf(c) = RankOf(d), SuitOf(c) = SuitOf(d)
  PROVE  c = d
BY CardParts

(* What a list holds.                                                      *)
Entries(s) == {s[i] : i \in 1 .. Len(s)}

(* Lists joined hold what both hold.                                       *)
LEMMA EntriesJoined ==
  ASSUME NEW X, NEW s \in Seq(X), NEW t \in Seq(X)
  PROVE  Entries(s \o t) = Entries(s) \union Entries(t)
<1>1. Len(s) \in Nat /\ Len(t) \in Nat
  BY LenProperties
<1>2. /\ Len(s \o t) = Len(s) + Len(t)
      /\ \A i \in 1 .. Len(s) + Len(t) : (s \o t)[i] = IF i <= Len(s) THEN s[i] ELSE t[i - Len(s)]
  BY ConcatProperties
<1>3. ASSUME NEW e \in Entries(s \o t) PROVE e \in Entries(s) \union Entries(t)
  <2>1. PICK i \in 1 .. Len(s) + Len(t) : e = (s \o t)[i]
    BY <1>2, <1>3 DEF Entries
  <2>2. CASE i <= Len(s)
    <3>1. i \in 1 .. Len(s) /\ e = s[i]
      BY <1>1, <1>2, <2>1, <2>2
    <3> QED BY <3>1 DEF Entries
  <2>3. CASE ~(i <= Len(s))
    <3>1. i - Len(s) \in 1 .. Len(t) /\ e = t[i - Len(s)]
      BY <1>1, <1>2, <2>1, <2>3
    <3> QED BY <3>1 DEF Entries
  <2> QED BY <2>2, <2>3
<1>4. ASSUME NEW e \in Entries(s) PROVE e \in Entries(s \o t)
  <2>1. PICK i \in 1 .. Len(s) : e = s[i]
    BY <1>4 DEF Entries
  <2>2. i \in 1 .. Len(s) + Len(t) /\ i <= Len(s)
    BY <1>1, <2>1
  <2>3. (s \o t)[i] = e
    BY <1>2, <2>1, <2>2
  <2> QED BY <1>2, <2>2, <2>3 DEF Entries
<1>5. ASSUME NEW e \in Entries(t) PROVE e \in Entries(s \o t)
  <2>1. PICK i \in 1 .. Len(t) : e = t[i]
    BY <1>5 DEF Entries
  <2>2. i + Len(s) \in 1 .. Len(s) + Len(t) /\ ~(i + Len(s) <= Len(s)) /\ (i + Len(s)) - Len(s) = i
    BY <1>1, <2>1
  <2>3. (s \o t)[i + Len(s)] = e
    BY <1>2, <2>1, <2>2
  <2> QED BY <1>2, <2>2, <2>3 DEF Entries
<1> QED BY <1>3, <1>4, <1>5

(* A set of so many more cards, all below n.                               *)
Completes(m, n, left, above) ==
  /\ m \in SUBSET Deck /\ above \subseteq m
  /\ \A c \in m \ above : c < n
  /\ Cardinality(m \ above) = left

(* No card more is missing, or more than there are.                        *)
LEMMA CompletesEnd ==
  ASSUME NEW n \in Nat, NEW left \in Nat, NEW above \in SUBSET Deck, NEW m
  PROVE  /\ left = 0 => (Completes(m, n, left, above) <=> m = above)
         /\ n < left => ~Completes(m, n, left, above)
<1>1. ASSUME m \in SUBSET Deck PROVE IsFiniteSet(m \ above) /\ (Cardinality(m \ above) = 0 <=> m \ above = {})
  <2>1. m \ above \subseteq Deck
    BY <1>1
  <2>2. IsFiniteSet(m \ above)
    BY <2>1, DeckIs, FS_Subset
  <2> QED BY <2>2, FS_EmptySet
<1>2. ASSUME left = 0 PROVE Completes(m, n, left, above) <=> m = above
  <2>1. ASSUME Completes(m, n, left, above) PROVE m = above
    BY <1>1, <1>2, <2>1 DEF Completes
  <2>2. ASSUME m = above PROVE Completes(m, n, left, above)
    <3>1. m \ above = {} /\ m \in SUBSET Deck
      BY <2>2
    <3> QED BY <1>1, <1>2, <2>2, <3>1 DEF Completes
  <2> QED BY <2>1, <2>2
<1>3. ASSUME n < left, Completes(m, n, left, above) PROVE FALSE
  <2>1. m \ above \subseteq 0 .. n - 1
    BY <1>3, DeckIs DEF Completes
  <2>2. IsFiniteSet(0 .. n - 1) /\ Cardinality(0 .. n - 1) = n
    <3>1. 0 \in Int /\ n - 1 \in Int
      OBVIOUS
    <3>2. IsFiniteSet(0 .. n - 1) /\ Cardinality(0 .. n - 1) = IF 0 > n - 1 THEN 0 ELSE (n - 1) - 0 + 1
      BY <3>1, FS_Interval
    <3> QED BY <3>2
  <2>3. Cardinality(m \ above) <= n
    BY <2>1, <2>2, FS_Subset
  <2> QED BY <1>3, <2>3 DEF Completes
<1> QED BY <1>2, <1>3

(* The highest card that may be taken is taken, or it is not.              *)
LEMMA CompletesStep ==
  ASSUME NEW c \in Deck, NEW left \in Nat \ {0}, NEW above \in SUBSET Deck, c \notin above, NEW m
  PROVE  Completes(m, c + 1, left, above) <=>
           Completes(m, c, left, above) \/ Completes(m, c, left - 1, above \union {c})
<1>0. c \in Nat
  BY DeckIs
<1>1. ASSUME NEW d \in Deck PROVE d \in Nat /\ (d < c + 1 <=> d < c \/ d = c)
  <2>1. d \in Nat
    BY DeckIs
  <2> QED BY <1>0, <2>1
<1>2. ASSUME m \in SUBSET Deck, c \in m
      PROVE  Cardinality(m \ (above \union {c})) = Cardinality(m \ above) - 1 /\ Cardinality(m \ above) \in Nat
  <2>1. m \ above \subseteq Deck
    BY <1>2
  <2>2. IsFiniteSet(m \ above) /\ c \in m \ above
    BY <1>2, <2>1, DeckIs, FS_Subset
  <2>3. (m \ above) \ {c} = m \ (above \union {c})
    OBVIOUS
  <2> DEFINE T == m \ above
  <2>4. IsFiniteSet(T) /\ c \in T
    BY <2>2
  <2>5. Cardinality(T \ {c}) = Cardinality(T) - 1 /\ Cardinality(T) \in Nat
    <3> HIDE DEF T
    <3> QED BY <2>4, FS_RemoveElement, FS_CardinalityType
  <2> QED BY <2>3, <2>5
<1>3. ASSUME Completes(m, c + 1, left, above)
      PROVE  Completes(m, c, left, above) \/ Completes(m, c, left - 1, above \union {c})
  <2>1. m \in SUBSET Deck /\ above \subseteq m /\ (\A d \in m \ above : d < c + 1) /\ Cardinality(m \ above) = left
    BY <1>3 DEF Completes
  <2>2. CASE c \in m
    <3>1. \A d \in m \ (above \union {c}) : d < c
      BY <1>1, <2>1
    <3> QED BY <1>2, <2>1, <2>2, <3>1 DEF Completes
  <2>3. CASE c \notin m
    <3>1. \A d \in m \ above : d < c
      BY <1>1, <2>1, <2>3
    <3> QED BY <2>1, <3>1 DEF Completes
  <2> QED BY <2>2, <2>3
<1>4. ASSUME Completes(m, c, left, above)
      PROVE  Completes(m, c + 1, left, above)
  BY <1>1, <1>4 DEF Completes
<1>5. ASSUME Completes(m, c, left - 1, above \union {c})
      PROVE  Completes(m, c + 1, left, above)
  <2>1. /\ m \in SUBSET Deck /\ above \union {c} \subseteq m /\ \A d \in m \ (above \union {c}) : d < c
        /\ Cardinality(m \ (above \union {c})) = left - 1
    BY <1>5 DEF Completes
  <2>2. c \in m /\ above \subseteq m
    BY <2>1
  <2>3. Cardinality(m \ above) = left
    BY <1>2, <2>1, <2>2
  <2>4. \A d \in m \ above : d < c + 1
    BY <1>1, <2>1
  <2> QED BY <2>1, <2>2, <2>3, <2>4 DEF Completes
<1> QED BY <1>3, <1>4, <1>5

(* The loops give the masks that complete what was taken so far, and all   *)
(* of them.                                                                *)
LEMMA LoopsGive ==
  ASSUME NEW k \in Nat, NEW masks, NEW f, IsLoops(f, k, masks),
         NEW y \in LoopStates(k), \A c \in y[3] : c >= y[1]
  PROVE  \A m : m \in Entries(f[y]) <=> m \in masks /\ Completes(m, y[1], y[2], y[3])
<1> DEFINE S == LoopStates(k)
           Right(x) == (\A c \in x[3] : c >= x[1]) =>
             \A m : m \in Entries(f[x]) <=> m \in masks /\ Completes(m, x[1], x[2], x[3])
           Wrong == {n \in 0 .. NumCards : \E x \in S : x[1] = n /\ ~Right(x)}
<1>1. \A x \in S : f[x] = Level(f, masks, x[1], x[2], x[3])
  BY DEF IsLoops
<1>2. Wrong = {} => Right(y)
  <2>1. y[1] \in 0 .. NumCards
    BY NextStates
  <2> HIDE DEF Right
  <2> QED
    BY <2>1
<1>0. SUFFICES ASSUME Wrong # {} PROVE FALSE
  <2>1. Wrong = {}
    BY <1>0
  <2> HIDE DEF Right
  <2>2. Right(y)
    BY <1>2, <2>1
  <2> QED
    BY <2>2 DEF Right
<1>3. NumCards \in Nat
  BY DeckIs
<1>4. PICK n \in Wrong : \A m \in Wrong : n <= m
  <2>1. Wrong \subseteq Nat
    BY <1>3
  <2> HIDE DEF Wrong
  <2> QED
    BY <1>0, <2>1, LeastNumber
<1>5. PICK x \in S : x[1] = n /\ ~Right(x)
  BY <1>4
<1>6. \A c \in x[3] : c >= x[1]
  BY <1>5
<1>7. x[1] \in 0 .. NumCards /\ x[2] \in 0 .. k /\ x[3] \in SUBSET Deck
  BY NextStates
<1>8. \A v \in S : v[1] < n => Right(v)
  <2> TAKE v \in S
  <2> HAVE v[1] < n
  <2>1. v[1] \in 0 .. NumCards /\ n \in 0 .. NumCards
    BY NextStates, <1>4
  <2>2. ~(n <= v[1])
    BY <2>1, <1>3
  <2>3. v[1] \notin Wrong
    BY <1>4, <2>2
  <2> HIDE DEF Right, S
  <2> QED
    BY <2>1, <2>3
<1>10. x[1] \in Nat /\ x[2] \in Nat
  BY <1>3, <1>7
<1>9. ASSUME NEW m PROVE m \in Entries(f[x]) <=> m \in masks /\ Completes(m, x[1], x[2], x[3])
  <2>1. CASE x[2] = 0
    <3>1. f[x] = IF x[3] \in masks THEN <<x[3]>> ELSE << >>
      BY <1>1, <2>1 DEF Level
    <3>2. Completes(m, x[1], x[2], x[3]) <=> m = x[3]
      BY <1>7, <1>10, <2>1, CompletesEnd
    <3>3. CASE x[3] \in masks
      <4>1. Entries(f[x]) = {x[3]}
        <5>1. Len(<<x[3]>>) = 1 /\ <<x[3]>>[1] = x[3]
          OBVIOUS
        <5>2. f[x] = <<x[3]>>
          BY <3>1, <3>3
        <5>3. Len(f[x]) = 1 /\ f[x][1] = x[3] /\ 1 .. 1 = {1}
          BY <5>1, <5>2
        <5> HIDE DEF S
        <5> QED BY <5>3 DEF Entries
      <4> QED BY <3>2, <3>3, <4>1
    <3>4. CASE x[3] \notin masks
      <4>1. f[x] = << >> /\ Len(<< >>) = 0 /\ 1 .. 0 = {}
        BY <3>1, <3>4
      <4>2. Entries(f[x]) = {}
        BY <4>1 DEF Entries
      <4> QED BY <3>2, <3>4, <4>2
    <3> QED BY <3>3, <3>4
  <2>2. CASE x[2] # 0 /\ x[1] < x[2]
    <3>1. f[x] = << >>
      BY <1>1, <2>2 DEF Level
    <3>2. Entries(f[x]) = {}
      <4>1. Len(<< >>) = 0 /\ 1 .. 0 = {}
        OBVIOUS
      <4> QED BY <3>1, <4>1 DEF Entries
    <3>3. ~Completes(m, x[1], x[2], x[3])
      BY <1>7, <1>10, <2>2, CompletesEnd
    <3> QED BY <3>2, <3>3
  <2>3. CASE x[2] # 0 /\ ~(x[1] < x[2])
    <3> DEFINE c == x[1] - 1
               u == <<c, x[2], x[3]>>
               v == <<c, x[2] - 1, x[3] \union {c}>>
               s == f[u]
               t == f[v]
    <3>1. u \in S /\ v \in S /\ c \in Deck /\ c < x[1]
      BY <2>3, NextStates
    <3>2. /\ u[1] = c /\ u[2] = x[2] /\ u[3] = x[3]
          /\ v[1] = c /\ v[2] = x[2] - 1 /\ v[3] = x[3] \union {c}
      OBVIOUS
    <3>3. f[x] = s \o t
      BY <1>1, <2>3 DEF Level
    <3>5. c \in Int /\ x[1] \in Int /\ c = x[1] - 1 /\ \A d \in x[3] : d \in Int
      <4>1. \A d \in x[3] : d \in Deck
        BY <1>7
      <4>2. x[1] \in Int
        BY <1>7
      <4> HIDE DEF S, c
      <4>3. c \in Nat /\ \A d \in x[3] : d \in Nat
        BY <3>1, <4>1, DeckIs
      <4> QED
        BY <4>2, <4>3 DEF c
    <3>6. (\A d \in x[3] : d >= c) /\ c \notin x[3] /\ (\A d \in x[3] \union {c} : d >= c)
      BY <1>6, <3>5
    <3> HIDE DEF c
    <3>7. Right(u) /\ Right(v)
      <4>1. u[1] < n /\ v[1] < n
        BY <1>5, <3>1, <3>2
      <4> HIDE DEF u, v, Right, S
      <4> QED
        BY <1>8, <3>1, <4>1
    <3>8. /\ m \in Entries(s) <=> m \in masks /\ Completes(m, c, x[2], x[3])
          /\ m \in Entries(t) <=> m \in masks /\ Completes(m, c, x[2] - 1, x[3] \union {c})
      <4>1. (\A d \in u[3] : d >= u[1]) /\ (\A d \in v[3] : d >= v[1])
        BY <3>2, <3>6
      <4>2. /\ m \in Entries(s) <=> m \in masks /\ Completes(m, u[1], u[2], u[3])
            /\ m \in Entries(t) <=> m \in masks /\ Completes(m, v[1], v[2], v[3])
        BY <3>7, <4>1
      <4> HIDE DEF u, v
      <4> QED
        BY <3>2, <4>2
    <3>9. s \in Seq(SUBSET Deck) /\ t \in Seq(SUBSET Deck)
      <4>1. (\A d \in u[3] : d >= u[1]) /\ (\A d \in v[3] : d >= v[1])
        BY <3>2, <3>6
      <4> HIDE DEF u, v, Right
      <4> QED BY <3>1, <4>1, LoopsAscend
    <3> HIDE DEF s, t, u, v, S
    <3>10. Entries(f[x]) = Entries(s) \union Entries(t)
      BY <3>3, <3>9, EntriesJoined
    <3>11. Completes(m, c + 1, x[2], x[3]) <=>
             Completes(m, c, x[2], x[3]) \/ Completes(m, c, x[2] - 1, x[3] \union {c})
      BY <1>7, <1>10, <2>3, <3>1, <3>6, CompletesStep
    <3>12. c + 1 = x[1]
      BY <3>5
    <3> QED BY <3>8, <3>10, <3>11, <3>12
  <2> QED
    BY <1>10, <2>1, <2>2, <2>3
<1> QED
  BY <1>5, <1>9

(* The masks of so many cards, and all of them.                            *)
LEMMA InOrderGives ==
  ASSUME NEW k \in Nat, NEW masks
  PROVE  \A m : m \in Entries(InOrder(k, masks)) <=>
                  m \in masks /\ m \in SUBSET Deck /\ Cardinality(m) = k
<1> DEFINE S == LoopStates(k)
           start == <<NumCards, k, {}>>
           chosen == CHOOSE g : IsLoops(g, k, masks)
<1>1. IsLoops(chosen, k, masks)
  <2>1. \E g : IsLoops(g, k, masks)
    BY LoopsExist
  <2> QED
    BY <2>1
<1>2. InOrder(k, masks) = chosen[start]
  BY DEF InOrder, IsLoops, LoopStates, Level
<1>3. start \in S /\ \A c \in start[3] : c >= start[1]
  BY DeckIs DEF LoopStates
<1>4. start[1] = NumCards /\ start[2] = k /\ start[3] = {}
  OBVIOUS
<1> HIDE DEF chosen, start
<1> SUFFICES ASSUME NEW m
             PROVE  m \in Entries(InOrder(k, masks)) <=>
                      m \in masks /\ m \in SUBSET Deck /\ Cardinality(m) = k
  OBVIOUS
<1>5. m \in Entries(chosen[start]) <=> m \in masks /\ Completes(m, NumCards, k, {})
  <2>1. m \in Entries(chosen[start]) <=> m \in masks /\ Completes(m, start[1], start[2], start[3])
    BY <1>1, <1>3, LoopsGive
  <2> QED BY <1>4, <2>1
<1>6. Completes(m, NumCards, k, {}) <=> m \in SUBSET Deck /\ Cardinality(m) = k
  <2>1. m \ {} = m
    OBVIOUS
  <2>2. \A c \in Deck : c < NumCards
    BY DeckIs DEF Deck
  <2> QED BY <2>1, <2>2 DEF Completes
<1> QED BY <1>2, <1>5, <1>6

(* Two different cards, and nothing but that, is a set of two.             *)
LEMMA TwoIs ==
  /\ \A a \in Deck, b \in Deck : a # b => Cardinality({a, b}) = 2 /\ {a, b} \in SUBSET Deck
  /\ \A m \in SUBSET Deck : Cardinality(m) = 2 => \E a \in Deck : \E b \in Deck : a # b /\ m = {a, b}
<1>1. ASSUME NEW a \in Deck, NEW b \in Deck, a # b
      PROVE  Cardinality({a, b}) = 2 /\ {a, b} \in SUBSET Deck
  <2>1. IsFiniteSet({a}) /\ Cardinality({a}) = 1
    BY FS_Singleton
  <2>2. {a} \union {b} = {a, b} /\ b \notin {a}
    BY <1>1
  <2>3. Cardinality({a} \union {b}) = Cardinality({a}) + 1
    BY <2>1, <2>2, FS_AddElement
  <2> QED BY <2>1, <2>2, <2>3
<1>2. ASSUME NEW m \in SUBSET Deck, Cardinality(m) = 2
      PROVE  \E a \in Deck : \E b \in Deck : a # b /\ m = {a, b}
  <2>1. IsFiniteSet(m)
    BY DeckIs, FS_Subset
  <2>2. m # {}
    BY <1>2, <2>1, FS_EmptySet
  <2>3. PICK a \in m : TRUE
    BY <2>2
  <2>4. IsFiniteSet(m \ {a}) /\ Cardinality(m \ {a}) = 1
    BY <1>2, <2>1, <2>3, FS_RemoveElement
  <2>5. PICK b : m \ {a} = {b}
    BY <2>4, FS_Singleton
  <2>6. m = {a, b} /\ a # b /\ a \in Deck /\ b \in Deck
    BY <2>3, <2>5
  <2> QED BY <2>6
<1> QED BY <1>1, <1>2

(* The hands of two cards.                                                 *)
LEMMA TwoCardsAre ==
  \A m : m \in TwoCards <=> m \in SUBSET Deck /\ Cardinality(m) = 2
<1> SUFFICES ASSUME NEW m PROVE m \in TwoCards <=> m \in SUBSET Deck /\ Cardinality(m) = 2
  OBVIOUS
<1>1. ASSUME m \in TwoCards PROVE m \in SUBSET Deck /\ Cardinality(m) = 2
  <2>1. /\ m \in {{a, b} : a \in Deck, b \in Deck}
        /\ m \notin {{a} : a \in Deck}
    BY <1>1 DEF TwoCards, Deck
  <2>2. PICK a \in Deck, b \in Deck : m = {a, b}
    BY <2>1
  <2>3. a # b
    BY <2>1, <2>2
  <2> QED BY <2>2, <2>3, TwoIs
<1>2. ASSUME m \in SUBSET Deck, Cardinality(m) = 2 PROVE m \in TwoCards
  <2>1. PICK a \in Deck, b \in Deck : a # b /\ m = {a, b}
    BY <1>2, TwoIs
  <2>2. m \notin {{c} : c \in Deck}
    BY <2>1
  <2>3. m \in {{c, d} : c \in Deck, d \in Deck}
    BY <2>1
  <2> QED BY <2>2, <2>3 DEF TwoCards, Deck
<1> QED BY <1>1, <1>2

(* A set of so many cards is one card and the others.                      *)
LEMMA OneAndRest ==
  ASSUME NEW n \in Nat, NEW m \in SUBSET Deck, Cardinality(m) = n + 1
  PROVE  \E a \in m : m \ {a} \in SUBSET Deck /\ Cardinality(m \ {a}) = n
<1>1. IsFiniteSet(m)
  BY DeckIs, FS_Subset
<1>2. m # {}
  BY <1>1, FS_EmptySet
<1>3. PICK a \in m : TRUE
  BY <1>2
<1>4. Cardinality(m \ {a}) = n
  BY <1>1, <1>3, FS_RemoveElement
<1> QED BY <1>3, <1>4

(* The hands of four cards.                                                *)
LEMMA FourCardsAre ==
  \A m : m \in FourCards <=> m \in SUBSET Deck /\ Cardinality(m) = 4
<1> SUFFICES ASSUME NEW m PROVE m \in FourCards <=> m \in SUBSET Deck /\ Cardinality(m) = 4
  OBVIOUS
<1>1. ASSUME m \in FourCards PROVE m \in SUBSET Deck /\ Cardinality(m) = 4
  <2>1. m \in {a \union b : a \in TwoCards, b \in TwoCards} /\ Cardinality(m) = 4
    BY <1>1 DEF FourCards
  <2>2. PICK a \in TwoCards, b \in TwoCards : m = a \union b
    BY <2>1
  <2>3. a \in SUBSET Deck /\ b \in SUBSET Deck
    BY TwoCardsAre
  <2> QED BY <2>1, <2>2, <2>3
<1>2. ASSUME m \in SUBSET Deck, Cardinality(m) = 4 PROVE m \in FourCards
  <2>1. PICK a \in m : m \ {a} \in SUBSET Deck /\ Cardinality(m \ {a}) = 3
    <3>1. Cardinality(m) = 3 + 1 /\ 3 \in Nat
      BY <1>2
    <3> QED BY <1>2, <3>1, OneAndRest
  <2>2. PICK b \in m \ {a} : (m \ {a}) \ {b} \in SUBSET Deck /\ Cardinality((m \ {a}) \ {b}) = 2
    <3>1. Cardinality(m \ {a}) = 2 + 1 /\ 2 \in Nat
      BY <2>1
    <3> QED BY <2>1, <3>1, OneAndRest
  <2>3. (m \ {a}) \ {b} \in TwoCards
    BY <2>2, TwoCardsAre
  <2>4. {a, b} \in TwoCards
    <3>1. a \in Deck /\ b \in Deck /\ a # b
      BY <1>2, <2>1, <2>2
    <3> QED BY <3>1, TwoIs, TwoCardsAre
  <2>5. m = {a, b} \union ((m \ {a}) \ {b})
    BY <2>1, <2>2
  <2>6. m \in {x \union y : x \in TwoCards, y \in TwoCards}
    BY <2>3, <2>4, <2>5
  <2> QED BY <1>2, <2>6 DEF FourCards
<1> QED BY <1>1, <1>2

(* The hands of a game are the sets of as many cards.                      *)
LEMMA HandsAre ==
  ASSUME NEW game
  PROVE  /\ \A m : m \in HandsOf(game) <=> m \in SUBSET Deck /\ Cardinality(m) = CardsPerHand(game)
         /\ CardsPerHand(game) \in Nat
BY TwoCardsAre, FourCardsAre DEF HandsOf, CardsPerHand

(* A set of masks in order: those of a hand, each once.                    *)
LEMMA AscendingIs ==
  ASSUME NEW masks, NEW game
  PROVE  /\ Ascending(masks, game) \in Seq(SUBSET Deck) /\ MasksAscend(Ascending(masks, game))
         /\ \A m : m \in Entries(Ascending(masks, game)) <=> m \in masks /\ m \in HandsOf(game)
<1>1. CardsPerHand(game) \in Nat
  BY HandsAre
<1> QED
  BY <1>1, InOrderAscends, InOrderGives, HandsAre DEF Ascending

(* Weighting a list of masks weights what it holds.                        *)
LEMMA WeightedMeans ==
  ASSUME NEW masks \in Seq(SUBSET Deck), NEW w \in Int
  PROVE  \A p : p \in Meaning(AtWeight(masks, w)) <=> \E m \in Entries(masks) : p = <<m, w>>
<1> DEFINE n == Len(masks)
           s == AtWeight(masks, w)
<1>1. n \in Nat /\ DOMAIN masks = 1 .. n
  BY LenProperties
<1>2. s = [i \in 1 .. n |-> Combo(masks[i], w)]
  BY <1>1 DEF AtWeight
<1>3. \A i \in 1 .. n : s[i].mask = masks[i] /\ s[i].weight = w
  BY <1>2 DEF Combo
<1>4. DOMAIN s = 1 .. n
  BY <1>2
<1>5. Meaning(s) = {<<s[i].mask, s[i].weight>> : i \in 1 .. n}
  BY <1>4 DEF Meaning
<1> HIDE DEF s, n
<1>6. ASSUME NEW p, p \in Meaning(s) PROVE \E m \in Entries(masks) : p = <<m, w>>
  BY <1>3, <1>5, <1>6 DEF Entries, n
<1>7. ASSUME NEW m \in Entries(masks) PROVE <<m, w>> \in Meaning(s)
  <2>1. PICK i \in 1 .. n : m = masks[i]
    BY <1>7 DEF Entries, n
  <2>2. <<m, w>> = <<s[i].mask, s[i].weight>>
    BY <1>3, <2>1
  <2> QED BY <1>5, <2>2
<1> QED BY <1>6, <1>7 DEF s

(* Every hand of four cards is dealt with.                                 *)
LEMMA AllFour == AllPloMasks = FourCards
<1>1. 4 \in Nat
  OBVIOUS
<1>2. PloMasks \in Seq(SUBSET Deck)
  BY <1>1, InOrderAscends DEF PloMasks
<1>3. AllPloMasks = Entries(PloMasks)
  BY <1>2, LenProperties DEF AllPloMasks, Entries
<1>4. \A m : m \in Entries(PloMasks) <=> m \in SUBSET Deck /\ Cardinality(m) = 4
  BY <1>1, InOrderGives DEF PloMasks
<1>5. \A m : m \in AllPloMasks <=> m \in FourCards
  BY <1>3, <1>4, FourCardsAre
<1> QED BY <1>5

(* The hands whose lower card is not below c.                              *)
From(c) == {m \in TwoCards : \A d \in m : d >= c}

(* The hands with a card as the lower one, and those without it.           *)
LEMMA FromStep ==
  ASSUME NEW c \in Deck, NEW m
  PROVE  m \in From(c) <=> m \in From(c + 1) \/ \E i \in 1 .. NumCards - 1 - c : m = {c, c + i}
<1>0. NumCards \in Nat /\ Deck = 0 .. NumCards - 1
  BY DeckIs DEF Deck
<1>1. ASSUME m \in From(c), m \notin From(c + 1)
      PROVE  \E i \in 1 .. NumCards - 1 - c : m = {c, c + i}
  <2>1. m \in TwoCards /\ (\A d \in m : d >= c) /\ \E d \in m : ~(d >= c + 1)
    BY <1>1 DEF From
  <2>2. PICK a \in Deck, b \in Deck : a # b /\ m = {a, b}
    BY <2>1, TwoCardsAre, TwoIs
  <2>3. a = c \/ b = c
    BY <1>0, <2>1, <2>2
  <2>4. PICK d \in Deck : d # c /\ m = {c, d}
    BY <2>2, <2>3
  <2>5. d - c \in 1 .. NumCards - 1 - c /\ c + (d - c) = d
    BY <1>0, <2>1, <2>4
  <2> QED BY <2>4, <2>5
<1>2. ASSUME m \in From(c + 1) PROVE m \in From(c)
  <2>1. m \in SUBSET Deck
    BY <1>2, TwoCardsAre DEF From
  <2>2. \A d \in m : d >= c + 1 => d >= c
    BY <1>0, <2>1
  <2> QED BY <1>2, <2>2 DEF From
<1>3. ASSUME NEW i \in 1 .. NumCards - 1 - c, m = {c, c + i} PROVE m \in From(c)
  <2>1. c + i \in Deck /\ c + i # c /\ c + i >= c /\ c >= c
    BY <1>0
  <2>2. m \in TwoCards
    BY <1>3, <2>1, TwoIs, TwoCardsAre
  <2> QED BY <1>3, <2>1, <2>2 DEF From
<1> QED BY <1>1, <1>2, <1>3

(* The list of all Hold'em hands holds them all.                           *)
LEMMA AllHoldemAre == Entries(AllHoldem) = TwoCards
<1> DEFINE N == NumCards
           row(c) == [i \in 1 .. N - 1 - c |-> {c, c + i}]
<1>1. PICK g : /\ IsPairLoop(g) /\ AllHoldem = g[0]
               /\ \A c \in 0 .. N : g[c] \in Seq(SUBSET Deck)
  BY PairLoopIs
<1>2. \A c \in 0 .. N : g[c] = IF c = N THEN << >> ELSE row(c) \o g[c + 1]
  BY <1>1 DEF IsPairLoop
<1>3. N \in Nat /\ Deck = 0 .. N - 1
  BY DeckIs DEF Deck
<1> HIDE DEF N
<1>4. ASSUME NEW c \in 0 .. N, c # N
      PROVE  row(c) \in Seq(SUBSET Deck) /\ \A m : m \in Entries(row(c)) <=> \E i \in 1 .. N - 1 - c : m = {c, c + i}
  <2> DEFINE n == N - 1 - c
  <2>1. n \in Nat /\ c \in Deck /\ \A i \in 1 .. n : c + i \in Deck
    BY <1>3, <1>4
  <2> HIDE DEF n
  <2>2. [i \in 1 .. n |-> {c, c + i}] \in [1 .. n -> SUBSET Deck]
    BY <2>1
  <2>3. [i \in 1 .. n |-> {c, c + i}] \in Seq(SUBSET Deck) /\ Len([i \in 1 .. n |-> {c, c + i}]) = n
    BY <2>1, <2>2
  <2>4. \A m : m \in Entries([i \in 1 .. n |-> {c, c + i}]) <=> \E i \in 1 .. n : m = {c, c + i}
    BY <2>3 DEF Entries
  <2> QED
    BY <2>3, <2>4 DEF n
<1> HIDE DEF row
<1> DEFINE Right(c) == \A m : m \in Entries(g[c]) <=> m \in From(c)
           good == [i \in 0 .. N |-> Right(N - i)]
<1>5. Right(N)
  <2>1. g[N] = << >> /\ Len(<< >>) = 0 /\ 1 .. 0 = {}
    BY <1>2, <1>3
  <2>2. Entries(g[N]) = {}
    BY <2>1 DEF Entries
  <2>3. ASSUME NEW m \in From(N) PROVE FALSE
    <3>1. m \in TwoCards /\ \A d \in m : d >= N
      BY <2>3 DEF From
    <3>2. PICK a \in Deck, b \in Deck : a # b /\ m = {a, b}
      BY <3>1, TwoCardsAre, TwoIs
    <3> QED BY <1>3, <3>1, <3>2
  <2> QED BY <2>2, <2>3
<1>6. ASSUME NEW c \in 0 .. N, c # N, Right(c + 1) PROVE Right(c)
  <2>1. c \in Deck /\ c + 1 \in 0 .. N
    BY <1>3, <1>6
  <2>2. g[c] = row(c) \o g[c + 1]
    BY <1>2, <1>6
  <2>3. Entries(g[c]) = Entries(row(c)) \union Entries(g[c + 1])
    BY <1>1, <1>4, <1>6, <2>1, <2>2, EntriesJoined DEF N
  <2> SUFFICES ASSUME NEW m PROVE m \in Entries(g[c]) <=> m \in From(c)
    OBVIOUS
  <2>4. m \in Entries(row(c)) <=> \E i \in 1 .. N - 1 - c : m = {c, c + i}
    BY <1>4, <1>6
  <2>5. m \in Entries(g[c + 1]) <=> m \in From(c + 1)
    BY <1>6
  <2>6. m \in From(c) <=> m \in From(c + 1) \/ \E i \in 1 .. N - 1 - c : m = {c, c + i}
    BY <2>1, FromStep DEF N
  <2> QED BY <2>3, <2>4, <2>5, <2>6
<1>7. good[0] \in {TRUE}
  <2>1. good[0] = Right(N - 0) /\ N - 0 = N
    BY <1>3
  <2> HIDE DEF Right, good
  <2> QED BY <1>5, <2>1
<1>8. ASSUME NEW i \in 1 .. N, good[i - 1] \in {TRUE} PROVE good[i] \in {TRUE}
  <2>1. i \in 0 .. N /\ i - 1 \in 0 .. N /\ N - i \in 0 .. N /\ N - i # N /\ (N - i) + 1 = N - (i - 1)
    BY <1>3
  <2>2. good[i - 1] = Right(N - (i - 1)) /\ good[i] = Right(N - i)
    BY <2>1
  <2> HIDE DEF Right, good
  <2>3. Right((N - i) + 1)
    BY <1>8, <2>1, <2>2
  <2>4. Right(N - i)
    BY <1>6, <2>1, <2>3
  <2> QED BY <2>2, <2>4
<1>9. \A i \in 0 .. N : good[i] \in {TRUE}
  <2>1. \A i \in 1 .. N : good[i - 1] \in {TRUE} => good[i] \in {TRUE}
    BY <1>8
  <2> DEFINE D == {TRUE}
  <2>2. good[0] \in D /\ \A i \in 1 .. N : good[i - 1] \in D => good[i] \in D
    BY <1>7, <2>1
  <2>3. \A i \in 0 .. N : good[i] \in D
    <3> HIDE DEF good, D
    <3> QED BY <1>3, <2>2, Stays
  <2> QED BY <2>3
<1>10. Right(0)
  <2>1. N \in 0 .. N /\ N - N = 0
    BY <1>3
  <2>2. good[N] = Right(N - N)
    BY <2>1
  <2>3. good[N]
    BY <1>9, <2>1
  <2> HIDE DEF Right, good
  <2> QED BY <2>1, <2>2, <2>3
<1>11. \A m : m \in From(0) <=> m \in TwoCards
  <2> SUFFICES ASSUME NEW m \in TwoCards PROVE \A d \in m : d >= 0
    BY DEF From
  <2>1. m \in SUBSET Deck
    BY TwoCardsAre
  <2> QED BY <1>3, <2>1
<1> QED BY <1>1, <1>10, <1>11

-----------------------------------------------------------------------------

(* The shape of two cards.                                                 *)
LEMMA ShapeIs ==
  ASSUME NEW a \in Deck, NEW b \in Deck
  PROVE  /\ Shape({a, b}).hi = Larger(RankOf(a), RankOf(b))
         /\ Shape({a, b}).lo = Smaller(RankOf(a), RankOf(b))
         /\ Shape({a, b}).type = IF SuitOf(a) = SuitOf(b) THEN "s" ELSE "o"
<1>1. RankOf(a) \in Int /\ RankOf(b) \in Int
  <2>1. RankOf(a) \in Ranks /\ RankOf(b) \in Ranks
    BY CardParts
  <2> QED BY <2>1, RankIsNumber
<1>2. {RankOf(c) : c \in {a, b}} = {RankOf(a), RankOf(b)}
  OBVIOUS
<1>3. {SuitOf(c) : c \in {a, b}} = {SuitOf(a), SuitOf(b)}
  OBVIOUS
<1>4. Cardinality({SuitOf(a), SuitOf(b)}) = 1 <=> SuitOf(a) = SuitOf(b)
  <2>1. IsFiniteSet({SuitOf(a)}) /\ Cardinality({SuitOf(a)}) = 1
    BY FS_Singleton
  <2>2. {SuitOf(a), SuitOf(b)} = {SuitOf(a)} \union {SuitOf(b)}
    OBVIOUS
  <2>3. Cardinality({SuitOf(a)} \union {SuitOf(b)}) =
          IF SuitOf(b) \in {SuitOf(a)} THEN Cardinality({SuitOf(a)}) ELSE Cardinality({SuitOf(a)}) + 1
    BY <2>1, FS_AddElement
  <2> QED BY <2>1, <2>2, <2>3
<1>5. /\ Shape({a, b}).hi = Max({RankOf(a), RankOf(b)}) /\ Shape({a, b}).lo = Min({RankOf(a), RankOf(b)})
      /\ Shape({a, b}).type = IF Cardinality({SuitOf(a), SuitOf(b)}) = 1 THEN "s" ELSE "o"
  BY <1>2, <1>3 DEF Shape
<1> QED BY <1>1, <1>4, <1>5, BetterOf

(* A shape is that of a class: a pair's class has no mark.                 *)
IsOf(x, c) == x.hi = c.hi /\ x.lo = c.lo /\ (c.type = "" \/ c.type = x.type)

(* The combos of a class are the hands of its shape.                       *)
LEMMA ClassMasksAre ==
  ASSUME NEW c \in Classes
  PROVE  \A m : m \in ClassMasks(c) <=> m \in TwoCards /\ IsOf(Shape(m), c)
<1>0. /\ c.hi \in Ranks /\ c.lo \in Ranks /\ c.type \in {"", "s", "o"} /\ c.hi >= c.lo
      /\ c.type = "" <=> c.hi = c.lo
      /\ c.hi \in Int /\ c.lo \in Int
  BY RankIsNumber DEF Classes
<1> DEFINE both(s, t) == {CardId(c.hi, s), CardId(c.lo, t)}
<1>1. ASSUME NEW s \in Suits, NEW t \in Suits, s # t \/ c.hi # c.lo
      PROVE  /\ both(s, t) \in TwoCards
             /\ Shape(both(s, t)).hi = c.hi /\ Shape(both(s, t)).lo = c.lo
             /\ Shape(both(s, t)).type = IF s = t THEN "s" ELSE "o"
  <2> DEFINE a == CardId(c.hi, s)
             b == CardId(c.lo, t)
  <2>1. a \in Deck /\ b \in Deck /\ RankOf(a) = c.hi /\ RankOf(b) = c.lo /\ SuitOf(a) = s /\ SuitOf(b) = t
    BY <1>0, CardParts
  <2>2. a # b
    BY <1>1, <2>1
  <2> HIDE DEF a, b
  <2>3. {a, b} \in TwoCards
    BY <2>1, <2>2, TwoIs, TwoCardsAre
  <2>4. Larger(c.hi, c.lo) = c.hi /\ Smaller(c.hi, c.lo) = c.lo
    <3> DEFINE x == c.hi
               y == c.lo
    <3>1. x \in Int /\ y \in Int /\ x >= y
      BY <1>0
    <3> HIDE DEF x, y
    <3>2. Larger(x, y) = x /\ Smaller(x, y) = y
      BY <3>1 DEF Larger, Smaller
    <3> QED BY <3>2 DEF x, y
  <2> QED BY <2>1, <2>3, <2>4, ShapeIs DEF a, b
<1>2. ASSUME NEW m \in ClassMasks(c) PROVE m \in TwoCards /\ IsOf(Shape(m), c)
  <2>1. CASE c.type = "s"
    <3>1. PICK s \in Suits : m = both(s, s)
      BY <1>2, <2>1 DEF ClassMasks
    <3>2. c.hi # c.lo
      BY <1>0, <2>1
    <3> QED BY <1>1, <2>1, <3>1, <3>2 DEF IsOf
  <2>2. CASE c.type # "s"
    <3>1. PICK p \in Suits \X Suits : p[1] # p[2] /\ m = both(p[1], p[2])
      BY <1>2, <2>2 DEF ClassMasks
    <3>2. p[1] \in Suits /\ p[2] \in Suits
      OBVIOUS
    <3> HIDE DEF both
    <3> QED BY <1>0, <1>1, <2>2, <3>1, <3>2 DEF IsOf
  <2> QED BY <2>1, <2>2
<1>3. ASSUME NEW m \in TwoCards, IsOf(Shape(m), c) PROVE m \in ClassMasks(c)
  <2>1. PICK a \in Deck, b \in Deck : a # b /\ m = {a, b} /\ RankOf(a) >= RankOf(b)
    <3>1. PICK x \in Deck, y \in Deck : x # y /\ m = {x, y}
      BY TwoCardsAre, TwoIs
    <3>2. RankOf(x) \in Int /\ RankOf(y) \in Int
      <4>1. RankOf(x) \in Ranks /\ RankOf(y) \in Ranks
        BY CardParts
      <4> QED BY <4>1, RankIsNumber
    <3>3. RankOf(x) >= RankOf(y) \/ RankOf(y) >= RankOf(x)
      BY <3>2
    <3>4. {x, y} = {y, x}
      OBVIOUS
    <3> QED BY <3>1, <3>3, <3>4
  <2>2. /\ RankOf(a) \in Ranks /\ RankOf(b) \in Ranks /\ RankOf(a) \in Int /\ RankOf(b) \in Int
        /\ SuitOf(a) \in Suits /\ SuitOf(b) \in Suits
        /\ CardId(RankOf(a), SuitOf(a)) = a /\ CardId(RankOf(b), SuitOf(b)) = b
    BY CardParts, RankIsNumber
  <2>3. Larger(RankOf(a), RankOf(b)) = RankOf(a) /\ Smaller(RankOf(a), RankOf(b)) = RankOf(b)
    BY <2>1, <2>2 DEF Larger, Smaller
  <2>4. Shape(m).hi = RankOf(a) /\ Shape(m).lo = RankOf(b) /\ Shape(m).type = IF SuitOf(a) = SuitOf(b) THEN "s" ELSE "o"
    BY <2>1, <2>3, ShapeIs
  <2>5. RankOf(a) = c.hi /\ RankOf(b) = c.lo /\ (c.type = "" \/ c.type = Shape(m).type)
    BY <1>3, <2>4 DEF IsOf
  <2>6. m = both(SuitOf(a), SuitOf(b))
    BY <2>1, <2>2, <2>5
  <2> HIDE DEF both
  <2>7. CASE c.type = "s"
    <3>1. SuitOf(a) = SuitOf(b)
      BY <2>4, <2>5, <2>7
    <3>2. m \in {both(s, s) : s \in Suits}
      BY <2>2, <2>6, <3>1
    <3> QED BY <2>7, <3>2 DEF ClassMasks, both
  <2>8. CASE c.type # "s"
    <3>1. SuitOf(a) # SuitOf(b)
      <4>1. CASE c.type = ""
        BY <1>0, <2>1, <2>5, <4>1, SameCard
      <4>2. CASE c.type # ""
        BY <2>4, <2>5, <2>8, <4>2
      <4> QED BY <4>1, <4>2
    <3> DEFINE p == <<SuitOf(a), SuitOf(b)>>
    <3>2. p \in {q \in Suits \X Suits : q[1] # q[2]} /\ m = both(p[1], p[2])
      BY <2>2, <2>6, <3>1
    <3> HIDE DEF p
    <3>3. m \in {both(q[1], q[2]) : q \in {x \in Suits \X Suits : x[1] # x[2]}}
      BY <3>2
    <3> QED BY <2>8, <3>3 DEF ClassMasks, both
  <2> QED BY <2>7, <2>8
<1> QED BY <1>2, <1>3

(* What the shape of a hand is.                                            *)
LEMMA ShapeTyped ==
  ASSUME NEW m \in TwoCards
  PROVE  /\ Shape(m).hi \in Ranks /\ Shape(m).lo \in Ranks /\ Shape(m).hi >= Shape(m).lo
         /\ Shape(m).type \in {"s", "o"}
         /\ Shape(m).hi = Shape(m).lo => Shape(m).type = "o"
<1>1. PICK a \in Deck, b \in Deck : a # b /\ m = {a, b}
  BY TwoCardsAre, TwoIs
<1>2. RankOf(a) \in Ranks /\ RankOf(b) \in Ranks /\ RankOf(a) \in Int /\ RankOf(b) \in Int
  BY CardParts, RankIsNumber
<1>3. ASSUME RankOf(a) = RankOf(b) PROVE SuitOf(a) # SuitOf(b)
  BY <1>1, <1>3, SameCard
<1>4. /\ Shape(m).hi = Larger(RankOf(a), RankOf(b)) /\ Shape(m).lo = Smaller(RankOf(a), RankOf(b))
      /\ Shape(m).type = IF SuitOf(a) = SuitOf(b) THEN "s" ELSE "o"
  BY <1>1, ShapeIs
<1> DEFINE x == RankOf(a)
           y == RankOf(b)
<1>5. /\ Larger(x, y) \in Ranks /\ Smaller(x, y) \in Ranks /\ Larger(x, y) >= Smaller(x, y)
      /\ Larger(x, y) = Smaller(x, y) => x = y
  BY <1>2 DEF Larger, Smaller
<1> QED BY <1>3, <1>4, <1>5

-----------------------------------------------------------------------------
(* What Hold'em notation means.                                            *)

(* The shapes two cards have.                                              *)
Shapes ==
  {x \in [hi : Ranks, lo : Ranks, type : {"s", "o"}] : x.hi >= x.lo /\ (x.hi = x.lo => x.type = "o")}

(* Two cards have a shape.                                                 *)
LEMMA ShapesAre == \A m \in TwoCards : Shape(m) \in Shapes
<1> SUFFICES ASSUME NEW m \in TwoCards PROVE Shape(m) \in Shapes
  OBVIOUS
<1>1. /\ Shape(m).hi \in Ranks /\ Shape(m).lo \in Ranks /\ Shape(m).hi >= Shape(m).lo
      /\ Shape(m).type \in {"s", "o"}
      /\ Shape(m).hi = Shape(m).lo => Shape(m).type = "o"
  BY ShapeTyped
<1>2. Shape(m) = [hi |-> Shape(m).hi, lo |-> Shape(m).lo, type |-> Shape(m).type]
  BY DEF Shape
<1> QED BY <1>1, <1>2 DEF Shapes

(* The shape x is that of a class of the set.                              *)
OneOf(x, set) == \E c \in set : IsOf(x, c)

(* Which shapes a class is: the type counts unless it is empty.            *)
LEMMA ClassFits ==
  ASSUME NEW x
  PROVE  /\ \A h, l : IsOf(x, Class(h, l, "")) <=> x.hi = h /\ x.lo = l
         /\ \A h, l : \A type \in {"s", "o"} : IsOf(x, Class(h, l, type)) <=> x.hi = h /\ x.lo = l /\ x.type = type
<1>1. ASSUME NEW h, NEW l PROVE IsOf(x, Class(h, l, "")) <=> x.hi = h /\ x.lo = l
  BY DEF IsOf, Class
<1>2. ASSUME NEW h, NEW l, NEW type \in {"s", "o"}
      PROVE  IsOf(x, Class(h, l, type)) <=> x.hi = h /\ x.lo = l /\ x.type = type
  <2>1. type # ""
    OBVIOUS
  <2> QED BY <2>1 DEF IsOf, Class
<1> QED BY <1>1, <1>2

(* The pairs from one rank to another.                                     *)
LEMMA PairClassesAre ==
  ASSUME NEW low \in Ranks, NEW high \in Ranks
  PROVE  /\ PairClasses(low, high) \subseteq Classes
         /\ \A x \in Shapes : OneOf(x, PairClasses(low, high)) <=> x.hi = x.lo /\ low <= x.hi /\ x.hi <= high
<1>0. Ranks = LowRank .. 14 /\ LowRank \in 2 .. 14 /\ low \in Int /\ high \in Int
  BY WidthIs, RankIsNumber DEF Ranks
<1>1. ASSUME NEW r \in low .. high PROVE Class(r, r, "") \in Classes
  <2>1. r \in Ranks /\ r >= r
    BY <1>0
  <2> QED BY <2>1 DEF Classes, Class
<1>2. ASSUME NEW x \in Shapes
      PROVE  OneOf(x, PairClasses(low, high)) <=> x.hi = x.lo /\ low <= x.hi /\ x.hi <= high
  <2>1. x.hi \in Ranks /\ x.hi \in Int
    BY RankIsNumber DEF Shapes
  <2>2. OneOf(x, PairClasses(low, high)) <=> \E r \in low .. high : x.hi = r /\ x.lo = r
    <3>1. \A r \in low .. high : IsOf(x, Class(r, r, "")) <=> x.hi = r /\ x.lo = r
      BY ClassFits
    <3>2. OneOf(x, PairClasses(low, high)) <=> \E r \in low .. high : IsOf(x, Class(r, r, ""))
      BY DEF OneOf, PairClasses
    <3> QED BY <3>1, <3>2
  <2>3. x.hi \in low .. high <=> low <= x.hi /\ x.hi <= high
    BY <1>0, <2>1
  <2> QED BY <2>2, <2>3
<1> QED BY <1>1, <1>2 DEF PairClasses

(* A rank with the kickers from one rank to another.                       *)
LEMMA KickerClassesAre ==
  ASSUME NEW hi \in Ranks, NEW low \in Ranks, NEW high \in Int, high < hi, NEW type \in {"s", "o"}
  PROVE  /\ KickerClasses(hi, low, high, type) \subseteq Classes
         /\ \A x \in Shapes : OneOf(x, KickerClasses(hi, low, high, type)) <=>
              x.hi = hi /\ low <= x.lo /\ x.lo <= high /\ x.type = type
<1>0. Ranks = LowRank .. 14 /\ LowRank \in 2 .. 14 /\ low \in Int /\ high \in Int /\ hi \in Int
  BY WidthIs, RankIsNumber DEF Ranks
<1>1. ASSUME NEW r \in low .. high PROVE Class(hi, r, type) \in Classes
  <2>1. r \in Ranks /\ hi >= r /\ hi # r
    BY <1>0
  <2> QED BY <2>1 DEF Classes, Class
<1>2. ASSUME NEW x \in Shapes
      PROVE  OneOf(x, KickerClasses(hi, low, high, type)) <=>
               x.hi = hi /\ low <= x.lo /\ x.lo <= high /\ x.type = type
  <2>1. x.lo \in Ranks /\ x.lo \in Int
    BY RankIsNumber DEF Shapes
  <2>2. OneOf(x, KickerClasses(hi, low, high, type)) <=>
          \E r \in low .. high : x.hi = hi /\ x.lo = r /\ x.type = type
    <3>1. \A r \in low .. high : IsOf(x, Class(hi, r, type)) <=> x.hi = hi /\ x.lo = r /\ x.type = type
      BY ClassFits
    <3>2. OneOf(x, KickerClasses(hi, low, high, type)) <=> \E r \in low .. high : IsOf(x, Class(hi, r, type))
      BY DEF OneOf, KickerClasses
    <3> QED BY <3>1, <3>2
  <2>3. x.lo \in low .. high <=> low <= x.lo /\ x.lo <= high
    BY <1>0, <2>1
  <2> QED BY <2>2, <2>3
<1> QED BY <1>1, <1>2 DEF KickerClasses

(* Hands with one gap, from one high rank to another.                      *)
LEMMA LadderClassesAre ==
  ASSUME NEW low \in Ranks, NEW high \in Ranks, NEW gap \in Nat \ {0}, low - gap \in Ranks, NEW type \in {"s", "o"}
  PROVE  /\ LadderClasses(low, high, gap, type) \subseteq Classes
         /\ \A x \in Shapes : OneOf(x, LadderClasses(low, high, gap, type)) <=>
              low <= x.hi /\ x.hi <= high /\ x.hi - x.lo = gap /\ x.type = type
<1>0. Ranks = LowRank .. 14 /\ LowRank \in 2 .. 14 /\ low \in Int /\ high \in Int
  BY WidthIs, RankIsNumber DEF Ranks
<1>1. ASSUME NEW r \in low .. high PROVE Class(r, r - gap, type) \in Classes
  <2>1. r \in Ranks /\ r - gap \in Ranks /\ r >= r - gap /\ r # r - gap
    BY <1>0
  <2> QED BY <2>1 DEF Classes, Class
<1>2. ASSUME NEW x \in Shapes
      PROVE  OneOf(x, LadderClasses(low, high, gap, type)) <=>
               low <= x.hi /\ x.hi <= high /\ x.hi - x.lo = gap /\ x.type = type
  <2>1. x.lo \in Int /\ x.hi \in Int
    BY RankIsNumber DEF Shapes
  <2>2. OneOf(x, LadderClasses(low, high, gap, type)) <=>
          \E r \in low .. high : x.hi = r /\ x.lo = r - gap /\ x.type = type
    <3>1. \A r \in low .. high : IsOf(x, Class(r, r - gap, type)) <=> x.hi = r /\ x.lo = r - gap /\ x.type = type
      BY ClassFits
    <3>2. OneOf(x, LadderClasses(low, high, gap, type)) <=> \E r \in low .. high : IsOf(x, Class(r, r - gap, type))
      BY DEF OneOf, LadderClasses
    <3> QED BY <3>1, <3>2
  <2> DEFINE h == x.hi
             l == x.lo
  <2>3. (\E r \in low .. high : h = r /\ l = r - gap) <=> low <= h /\ h <= high /\ h - l = gap
    <3>1. h \in Int /\ l \in Int
      BY <2>1
    <3> HIDE DEF h, l
    <3> QED BY <1>0, <3>1
  <2> QED BY <2>2, <2>3
<1> QED BY <1>1, <1>2 DEF LadderClasses

(* A hand as it is written: a class, or both classes of two ranks.         *)
WrittenHands ==
  {p \in [hi : Ranks, lo : Ranks, type : {"", "s", "o"}] : p.hi >= p.lo /\ (p.hi = p.lo => p.type = "")}

HandSyntax == [first : Int, second : Int, type : {"", "s", "o", "x"}, plus : BOOLEAN]

(* A readable hand, its higher rank first.                                 *)
LEMMA BasicIs ==
  ASSUME NEW h \in HandSyntax, Readable(h)
  PROVE  Basic(h) \in WrittenHands
<1> DEFINE a == h.first
           b == h.second
<1>1. a \in Ranks /\ b \in Ranks /\ a \in Int /\ b \in Int /\ (a = b \/ h.type # "x") /\ h.type \in {"", "s", "o", "x"}
  BY RankIsNumber DEF Readable, HandSyntax
<1>2. /\ Basic(h).hi = Larger(a, b) /\ Basic(h).lo = Smaller(a, b)
      /\ Basic(h).type = IF a = b THEN "" ELSE h.type
      /\ Basic(h) = [hi |-> Basic(h).hi, lo |-> Basic(h).lo, type |-> Basic(h).type]
  BY <1>1, BetterOf DEF Basic
<1>3. Larger(a, b) \in Ranks /\ Smaller(a, b) \in Ranks /\ Larger(a, b) >= Smaller(a, b) /\ (Larger(a, b) = Smaller(a, b) => a = b)
  <2>1. a \in Ranks /\ b \in Ranks /\ a \in Int /\ b \in Int
    BY <1>1
  <2> HIDE DEF a, b
  <2> QED BY <2>1 DEF Larger, Smaller
<1>4. Basic(h).type \in {"", "s", "o"} /\ (a = b => Basic(h).type = "")
  BY <1>1, <1>2
<1> HIDE DEF a, b
<1> QED BY <1>2, <1>3, <1>4 DEF WrittenHands

(* Both classes of two ranks are any hand of those ranks.                  *)
LEMMA BothClassesAre ==
  ASSUME NEW p \in WrittenHands, p.hi # p.lo
  PROVE  /\ BothClasses(p) \subseteq Classes
         /\ \A x \in Shapes : OneOf(x, BothClasses(p)) <=> x.hi = p.hi /\ x.lo = p.lo
<1>0. p.hi \in Ranks /\ p.lo \in Ranks /\ p.hi >= p.lo
  BY DEF WrittenHands
<1>1. BothClasses(p) \subseteq Classes
  <2>1. ASSUME NEW type \in {"s", "o"} PROVE Class(p.hi, p.lo, type) \in Classes
    BY <1>0 DEF Classes, Class
  <2> QED BY <2>1 DEF BothClasses
<1>2. ASSUME NEW x \in Shapes PROVE OneOf(x, BothClasses(p)) <=> x.hi = p.hi /\ x.lo = p.lo
  <2>1. x.type \in {"s", "o"}
    BY DEF Shapes
  <2>2. OneOf(x, BothClasses(p)) <=> IsOf(x, Class(p.hi, p.lo, "s")) \/ IsOf(x, Class(p.hi, p.lo, "o"))
    BY DEF OneOf, BothClasses
  <2> QED BY <2>1, <2>2, ClassFits
<1> QED BY <1>1, <1>2

(* A hand alone stands for the shapes it names.                            *)
LEMMA HandClassesAre ==
  ASSUME NEW p \in WrittenHands
  PROVE  /\ HandClasses(p) \subseteq Classes
         /\ \A x \in Shapes : OneOf(x, HandClasses(p)) <=> x.hi = p.hi /\ x.lo = p.lo /\ SameSuits(x, p)
<1>0. p.hi \in Ranks /\ p.lo \in Ranks /\ p.hi >= p.lo /\ (p.hi = p.lo => p.type = "") /\ p.type \in {"", "s", "o"}
  BY DEF WrittenHands
<1>9. p.hi \in Int /\ p.lo \in Int
  BY <1>0, RankIsNumber
<1>1. CASE p.hi = p.lo
  <2>1. HandClasses(p) = PairClasses(p.hi, p.hi)
    BY <1>1 DEF HandClasses, IsPair
  <2>2. ASSUME NEW x \in Shapes PROVE x.hi = x.lo /\ p.hi <= x.hi /\ x.hi <= p.hi <=> x.hi = p.hi /\ x.lo = p.lo /\ SameSuits(x, p)
    <3>1. x.hi \in Int
      BY RankIsNumber DEF Shapes
    <3>2. p.hi <= x.hi /\ x.hi <= p.hi <=> x.hi = p.hi
      BY <1>9, <3>1
    <3> QED BY <1>0, <1>1, <3>2 DEF SameSuits
  <2>3. /\ PairClasses(p.hi, p.hi) \subseteq Classes
        /\ \A x \in Shapes : OneOf(x, PairClasses(p.hi, p.hi)) <=> x.hi = x.lo /\ p.hi <= x.hi /\ x.hi <= p.hi
    BY <1>0, PairClassesAre
  <2> QED BY <2>1, <2>2, <2>3
<1>2. CASE p.hi # p.lo /\ p.type = ""
  <2>1. HandClasses(p) = BothClasses(p)
    BY <1>2 DEF HandClasses, IsPair
  <2>2. \A x \in Shapes : SameSuits(x, p)
    BY <1>2 DEF SameSuits
  <2> QED BY <1>2, <2>1, <2>2, BothClassesAre
<1>3. CASE p.hi # p.lo /\ p.type # ""
  <2>1. HandClasses(p) = {p} /\ p \in Classes
    BY <1>3 DEF HandClasses, IsPair, Classes, WrittenHands
  <2>2. \A x \in Shapes : OneOf(x, {p}) <=> x.hi = p.hi /\ x.lo = p.lo /\ SameSuits(x, p)
    BY <1>3 DEF OneOf, IsOf, SameSuits
  <2> QED BY <2>1, <2>2
<1> QED BY <1>1, <1>2, <1>3

(* What a hand with a plus should hold.                                    *)
PlusMeans(x, p) ==
  IF IsPair(p) THEN IsPair(x) /\ x.hi >= p.hi
  ELSE IF p.type = "" THEN x.hi = p.hi /\ x.lo = p.lo
  ELSE IF Gap(p) = 1 /\ p.hi # 14 THEN x.hi >= p.hi /\ Gap(x) = 1 /\ SameSuits(x, p)
  ELSE x.hi = p.hi /\ x.lo >= p.lo /\ ~IsPair(x) /\ SameSuits(x, p)

(* A hand with a plus stands for the shapes it should, whatever branch of  *)
(* the code it takes.                                                      *)
LEMMA PlusClassesAre ==
  ASSUME NEW p \in WrittenHands, PlusClasses(p) # {}
  PROVE  /\ PlusClasses(p) \subseteq Classes
         /\ \A x \in Shapes : OneOf(x, PlusClasses(p)) <=> PlusMeans(x, p)
<1>8. /\ p.hi \in Ranks /\ p.lo \in Ranks /\ p.hi >= p.lo
      /\ p.type \in {"", "s", "o"}
  BY DEF WrittenHands
<1>0. p.hi \in Int /\ p.lo \in Int /\ p.hi >= p.lo /\ 14 \in Ranks /\ p.hi <= 14 /\ p.hi \in Ranks /\ p.lo \in Ranks
  <2>1. 14 \in Ranks
    BY WidthIs DEF Ranks
  <2>2. p.hi \in 2 .. 14 /\ p.hi \in Int /\ p.lo \in Int
    BY <1>8, RankIsNumber
  <2>3. p.hi <= 14
    BY <2>2
  <2> QED BY <1>8, <2>1, <2>2, <2>3
<1>9. ASSUME NEW x \in Shapes
      PROVE  x.hi \in Int /\ x.lo \in Int /\ x.lo <= x.hi /\ x.hi <= 14
  <2>1. x.hi \in Ranks /\ x.lo \in Ranks /\ x.lo <= x.hi
    <3>1. x.hi \in Ranks /\ x.lo \in Ranks /\ x.hi >= x.lo
      BY DEF Shapes
    <3> QED BY <3>1, RankIsNumber
  <2>2. x.hi \in 2 .. 14
    BY <2>1, RankIsNumber
  <2> QED BY <2>1, <2>2, RankIsNumber
<1>1. CASE p.hi = p.lo
  <2>1. PlusClasses(p) = PairClasses(p.hi, 14)
    BY <1>1 DEF PlusClasses, IsPair
  <2>2. ASSUME NEW x \in Shapes PROVE x.hi = x.lo /\ p.hi <= x.hi /\ x.hi <= 14 <=> PlusMeans(x, p)
    <3>1. PlusMeans(x, p) <=> x.hi = x.lo /\ x.hi >= p.hi
      BY <1>1 DEF PlusMeans, IsPair
    <3>2. (x.hi >= p.hi <=> p.hi <= x.hi) /\ x.hi <= 14
      BY <1>0, <1>9
    <3> QED BY <3>1, <3>2
  <2> QED BY <1>0, <2>1, <2>2, PairClassesAre
<1>2. CASE p.hi # p.lo /\ p.type = ""
  <2>1. PlusClasses(p) = BothClasses(p)
    BY <1>2 DEF PlusClasses, IsPair
  <2>2. \A x \in Shapes : PlusMeans(x, p) <=> x.hi = p.hi /\ x.lo = p.lo
    BY <1>2 DEF PlusMeans, IsPair
  <2> QED BY <1>2, <2>1, <2>2, BothClassesAre
<1>3. CASE p.hi # p.lo /\ p.type # "" /\ Gap(p) = 1 /\ p.hi # 14
  <2>1. PlusClasses(p) = LadderClasses(p.hi, 14, 1, p.type) /\ p.type \in {"s", "o"}
    BY <1>8, <1>3 DEF PlusClasses, IsPair
  <2>2. p.hi - 1 \in Ranks
    <3> DEFINE a == p.hi
               b == p.lo
    <3>1. a \in Int /\ b \in Int /\ a - b = 1 /\ b \in Ranks
      BY <1>0, <1>3 DEF Gap
    <3>2. a - 1 = b
      <4> HIDE DEF a, b
      <4> QED BY <3>1
    <3> QED BY <3>1, <3>2
  <2>3. ASSUME NEW x \in Shapes
        PROVE  p.hi <= x.hi /\ x.hi <= 14 /\ x.hi - x.lo = 1 /\ x.type = p.type <=> PlusMeans(x, p)
    <3>1. PlusMeans(x, p) <=> x.hi >= p.hi /\ x.hi - x.lo = 1 /\ x.type = p.type
      BY <1>3 DEF PlusMeans, IsPair, SameSuits, Gap
    <3>2. (x.hi >= p.hi <=> p.hi <= x.hi) /\ x.hi <= 14
      BY <1>0, <1>9
    <3> QED BY <3>1, <3>2
  <2>4. 1 \in Nat \ {0}
    OBVIOUS
  <2>5. /\ LadderClasses(p.hi, 14, 1, p.type) \subseteq Classes
        /\ \A x \in Shapes : OneOf(x, LadderClasses(p.hi, 14, 1, p.type)) <=>
             p.hi <= x.hi /\ x.hi <= 14 /\ x.hi - x.lo = 1 /\ x.type = p.type
    BY <1>0, <2>1, <2>2, <2>4, LadderClassesAre
  <2> QED BY <2>1, <2>3, <2>5
<1>4. CASE p.hi # p.lo /\ p.type # "" /\ ~(Gap(p) = 1 /\ p.hi # 14)
  <2>1. PlusClasses(p) = KickerClasses(p.hi, p.lo, p.hi - 1, p.type) /\ p.type \in {"s", "o"}
    BY <1>8, <1>4 DEF PlusClasses, IsPair
  <2>2. p.hi - 1 \in Int /\ p.hi - 1 < p.hi
    <3> DEFINE a == p.hi
    <3>1. a \in Int
      BY <1>0
    <3> HIDE DEF a
    <3>2. a - 1 \in Int /\ a - 1 < a
      BY <3>1
    <3> QED BY <3>2 DEF a
  <2>3. ASSUME NEW x \in Shapes
        PROVE  x.hi = p.hi /\ p.lo <= x.lo /\ x.lo <= p.hi - 1 /\ x.type = p.type <=> PlusMeans(x, p)
    <3>1. PlusMeans(x, p) <=> x.hi = p.hi /\ x.lo >= p.lo /\ x.hi # x.lo /\ x.type = p.type
      BY <1>4 DEF PlusMeans, IsPair, SameSuits
    <3> DEFINE a == x.hi
               b == x.lo
               c == p.hi
               d == p.lo
    <3>2. a = c /\ d <= b /\ b <= c - 1 <=> a = c /\ b >= d /\ a # b
      <4>1. a \in Int /\ b \in Int /\ c \in Int /\ d \in Int /\ b <= a
        BY <1>0, <1>9
      <4> HIDE DEF a, b, c, d
      <4> QED BY <4>1
    <3> QED BY <3>1, <3>2
  <2>4. /\ KickerClasses(p.hi, p.lo, p.hi - 1, p.type) \subseteq Classes
        /\ \A x \in Shapes : OneOf(x, KickerClasses(p.hi, p.lo, p.hi - 1, p.type)) <=>
             x.hi = p.hi /\ p.lo <= x.lo /\ x.lo <= p.hi - 1 /\ x.type = p.type
    BY <1>0, <2>1, <2>2, KickerClassesAre
  <2> QED BY <2>1, <2>3, <2>4
<1> QED BY <1>1, <1>2, <1>3, <1>4

(* What a span should hold.                                                *)
SpanMeans(x, p, q) ==
  /\ Between(x.hi, p.hi, q.hi) /\ Between(x.lo, p.lo, q.lo)
  /\ SameSuits(x, p)
  /\ p.hi = q.hi \/ Gap(x) = Gap(p)

(* A span stands for the shapes between its ends.                          *)
LEMMA SpanClassesAre ==
  ASSUME NEW p \in WrittenHands, NEW q \in WrittenHands, SpanClasses(p, q) # {}
  PROVE  /\ SpanClasses(p, q) \subseteq Classes
         /\ \A x \in Shapes : OneOf(x, SpanClasses(p, q)) <=> SpanMeans(x, p, q)
<1> DEFINE lh == Smaller(p.hi, q.hi)
           hh == Larger(p.hi, q.hi)
           ll == Smaller(p.lo, q.lo)
           hl == Larger(p.lo, q.lo)
<1>8. /\ p.hi \in Ranks /\ p.lo \in Ranks /\ p.hi >= p.lo /\ q.hi \in Ranks /\ q.lo \in Ranks /\ q.hi >= q.lo
      /\ p.type \in {"", "s", "o"} /\ q.type \in {"", "s", "o"}
      /\ p.hi = p.lo => p.type = ""
  BY DEF WrittenHands
<1>0. /\ p.hi \in Ranks /\ p.lo \in Ranks /\ p.hi \in Int /\ p.lo \in Int /\ p.hi >= p.lo
      /\ q.hi \in Ranks /\ q.lo \in Ranks /\ q.hi \in Int /\ q.lo \in Int /\ q.hi >= q.lo
  BY <1>8, RankIsNumber
<1>1. /\ Min({p.hi, q.hi}) = lh /\ Max({p.hi, q.hi}) = hh /\ Min({p.lo, q.lo}) = ll /\ Max({p.lo, q.lo}) = hl
      /\ lh \in Ranks /\ hh \in Ranks /\ ll \in Ranks /\ hl \in Ranks
  <2>1. Min({p.hi, q.hi}) = lh /\ Max({p.hi, q.hi}) = hh /\ Min({p.lo, q.lo}) = ll /\ Max({p.lo, q.lo}) = hl
    BY <1>0, BetterOf
  <2> QED BY <1>0, <2>1 DEF Smaller, Larger
<1>9. ASSUME NEW x \in Shapes
      PROVE  x.hi \in Int /\ x.lo \in Int /\ x.lo <= x.hi
  <2>1. x.hi \in Ranks /\ x.lo \in Ranks /\ x.hi >= x.lo
    BY DEF Shapes
  <2> QED BY <2>1, RankIsNumber
<1>2. ASSUME NEW a \in Int, NEW b \in Int, NEW c \in Int
      PROVE  Between(a, b, c) <=> Smaller(b, c) <= a /\ a <= Larger(b, c)
  BY DEF Between, Smaller, Larger
<1>3. SpanClasses(p, q) =
        IF IsPair(p) /\ IsPair(q) THEN PairClasses(lh, hh)
        ELSE IF IsPair(p) \/ IsPair(q) \/ p.type # q.type \/ p.type = "" THEN {}
        ELSE IF p.hi = q.hi THEN KickerClasses(p.hi, ll, hl, p.type)
        ELSE IF Gap(p) = Gap(q) THEN LadderClasses(lh, hh, Gap(p), p.type)
        ELSE {}
  BY <1>1 DEF SpanClasses
<1>4. CASE IsPair(p) /\ IsPair(q)
  <2>1. SpanClasses(p, q) = PairClasses(lh, hh)
    BY <1>3, <1>4
  <2>2. ASSUME NEW x \in Shapes PROVE x.hi = x.lo /\ lh <= x.hi /\ x.hi <= hh <=> SpanMeans(x, p, q)
    <3> DEFINE a == x.hi
               b == x.lo
               c == p.hi
               d == q.hi
    <3>1. p.lo = c /\ q.lo = d /\ p.type = ""
      BY <1>8, <1>4 DEF IsPair
    <3>2. SpanMeans(x, p, q) <=> Between(a, c, d) /\ Between(b, c, d) /\ (c = d \/ a - b = c - c)
      BY <3>1 DEF SpanMeans, SameSuits, Gap
    <3>3. a = b /\ Smaller(c, d) <= a /\ a <= Larger(c, d) <=>
            Between(a, c, d) /\ Between(b, c, d) /\ (c = d \/ a - b = c - c)
      <4>1. a \in Int /\ b \in Int /\ c \in Int /\ d \in Int
        BY <1>0, <1>9
      <4> HIDE DEF a, b, c, d
      <4> QED BY <4>1 DEF Between, Smaller, Larger
    <3> QED BY <3>2, <3>3
  <2> HIDE DEF lh, hh
  <2> QED BY <1>1, <2>1, <2>2, PairClassesAre
<1>5. CASE ~IsPair(p) /\ ~IsPair(q) /\ p.type # "" /\ p.type = q.type /\ p.hi = q.hi
  <2>1. SpanClasses(p, q) = KickerClasses(p.hi, ll, hl, p.type) /\ p.type \in {"s", "o"}
    BY <1>8, <1>3, <1>5
  <2>2. ll \in Ranks /\ hl \in Int /\ hl < p.hi
    <3> DEFINE a == p.hi
               b == p.lo
               c == q.lo
    <3>1. Larger(b, c) \in Int /\ Larger(b, c) < a
      <4>1. a \in Int /\ b \in Int /\ c \in Int /\ b <= a /\ c <= a /\ a # b /\ a # c
        BY <1>0, <1>5 DEF IsPair
      <4> HIDE DEF a, b, c
      <4> QED BY <4>1 DEF Larger
    <3> QED BY <1>1, <3>1
  <2>3. ASSUME NEW x \in Shapes
        PROVE  x.hi = p.hi /\ ll <= x.lo /\ x.lo <= hl /\ x.type = p.type <=> SpanMeans(x, p, q)
    <3> DEFINE a == x.hi
               b == x.lo
               c == p.hi
               d == p.lo
               e == q.lo
    <3>2. SpanMeans(x, p, q) <=> Between(a, c, c) /\ Between(b, d, e) /\ x.type = p.type
      BY <1>5 DEF SpanMeans, SameSuits
    <3>3. a = c /\ Smaller(d, e) <= b /\ b <= Larger(d, e) <=> Between(a, c, c) /\ Between(b, d, e)
      <4>1. a \in Int /\ b \in Int /\ c \in Int /\ d \in Int /\ e \in Int
        BY <1>0, <1>9
      <4> HIDE DEF a, b, c, d, e
      <4> QED BY <4>1 DEF Between, Smaller, Larger
    <3> QED BY <3>2, <3>3
  <2> HIDE DEF ll, hl
  <2>4. /\ KickerClasses(p.hi, ll, hl, p.type) \subseteq Classes
        /\ \A x \in Shapes : OneOf(x, KickerClasses(p.hi, ll, hl, p.type)) <=>
             x.hi = p.hi /\ ll <= x.lo /\ x.lo <= hl /\ x.type = p.type
    BY <1>0, <2>1, <2>2, KickerClassesAre
  <2> QED BY <2>1, <2>3, <2>4
<1>6. CASE ~IsPair(p) /\ ~IsPair(q) /\ p.type # "" /\ p.type = q.type /\ p.hi # q.hi /\ Gap(p) = Gap(q)
  <2>1. SpanClasses(p, q) = LadderClasses(lh, hh, Gap(p), p.type) /\ p.type \in {"s", "o"}
    BY <1>8, <1>3, <1>6
  <2>2. lh \in Ranks /\ hh \in Ranks /\ Gap(p) \in Nat \ {0} /\ lh - Gap(p) \in Ranks
    <3> DEFINE a == p.hi
               b == p.lo
               c == q.hi
               d == q.lo
    <3>1. a \in Int /\ b \in Int /\ c \in Int /\ d \in Int /\ b <= a /\ a # b /\ a - b = c - d /\ b \in Ranks /\ d \in Ranks
      BY <1>0, <1>6 DEF IsPair, Gap
    <3>2. a - b \in Nat \ {0} /\ Smaller(a, c) - (a - b) \in Ranks
      <4> HIDE DEF a, b, c, d
      <4>1. Smaller(a, c) - (a - b) = b \/ Smaller(a, c) - (a - b) = d
        BY <3>1 DEF Smaller
      <4> QED BY <3>1, <4>1
    <3> QED BY <1>1, <3>2 DEF Gap
  <2>3. ASSUME NEW x \in Shapes
        PROVE  lh <= x.hi /\ x.hi <= hh /\ x.hi - x.lo = Gap(p) /\ x.type = p.type <=> SpanMeans(x, p, q)
    <3> DEFINE a == x.hi
               b == x.lo
               c == p.hi
               d == p.lo
               e == q.hi
               f == q.lo
    <3>2. SpanMeans(x, p, q) <=> Between(a, c, e) /\ Between(b, d, f) /\ x.type = p.type /\ a - b = c - d
      BY <1>6 DEF SpanMeans, SameSuits, Gap
    <3>3. Smaller(c, e) <= a /\ a <= Larger(c, e) /\ a - b = c - d <=>
            Between(a, c, e) /\ Between(b, d, f) /\ a - b = c - d
      <4>1. a \in Int /\ b \in Int /\ c \in Int /\ d \in Int /\ e \in Int /\ f \in Int /\ c - d = e - f
        BY <1>0, <1>6, <1>9 DEF Gap
      <4> HIDE DEF a, b, c, d, e, f
      <4> QED BY <4>1 DEF Between, Smaller, Larger
    <3>4. Gap(p) = c - d
      BY DEF Gap
    <3> QED BY <3>2, <3>3, <3>4
  <2> DEFINE g == Gap(p)
  <2> HIDE DEF lh, hh, g
  <2>4. \A x \in Shapes : OneOf(x, LadderClasses(lh, hh, g, p.type)) <=>
          lh <= x.hi /\ x.hi <= hh /\ x.hi - x.lo = g /\ x.type = p.type
    BY <2>1, <2>2, LadderClassesAre DEF g
  <2>5. LadderClasses(lh, hh, g, p.type) \subseteq Classes
    BY <2>1, <2>2, LadderClassesAre DEF g
  <2> QED BY <2>1, <2>3, <2>4, <2>5 DEF g
<1> HIDE DEF lh, hh, ll, hl
<1> QED BY <1>3, <1>4, <1>5, <1>6

(* What a token of hands should hold.                                      *)
Holds(t, x) ==
  LET p == Basic(t.hands[1])
      q == Basic(t.hands[2])
  IN  IF Len(t.hands) = 2 THEN SpanMeans(x, p, q)
      ELSE IF ~t.hands[1].plus THEN x.hi = p.hi /\ x.lo = p.lo /\ SameSuits(x, p)
      ELSE PlusMeans(x, p)

(* The classes of a token are those of the hands it stands for.            *)
LEMMA TokenClassesAre ==
  ASSUME NEW t \in Tokens, Len(t.hands) \in 1 .. 2, TokenClasses(t) # {}
  PROVE  /\ TokenClasses(t) \subseteq Classes
         /\ \A x \in Shapes : OneOf(x, TokenClasses(t)) <=> Holds(t, x)
<1> DEFINE h == t.hands
           p == Basic(h[1])
           q == Basic(h[2])
<1>1. h \in Seq(HandSyntax) /\ DOMAIN h = 1 .. Len(h)
  <2>1. h \in Seq(HandSyntax)
    BY DEF Tokens, HandSyntax
  <2> HIDE DEF h
  <2> QED BY <2>1, LenProperties
<1>2. \A i \in 1 .. Len(h) : h[i] \in HandSyntax
  BY <1>1
<1>3. ~(\E i \in 1 .. Len(h) : ~Readable(h[i]))
  BY <1>1 DEF TokenClasses
<1>4. TokenClasses(t) =
        IF Len(h) = 2 THEN IF h[1].plus \/ h[2].plus THEN {} ELSE SpanClasses(p, q)
        ELSE IF h[1].plus THEN PlusClasses(p)
        ELSE HandClasses(p)
  BY <1>1, <1>3 DEF TokenClasses
<1>5. 1 \in 1 .. Len(h) /\ (Len(h) = 2 => 2 \in 1 .. Len(h))
  OBVIOUS
<1>6. p \in WrittenHands
  BY <1>2, <1>3, <1>5, BasicIs
<1>7. CASE Len(h) = 2
  <2>1. q \in WrittenHands
    BY <1>2, <1>3, <1>5, <1>7, BasicIs
  <2>2. TokenClasses(t) = SpanClasses(p, q)
    BY <1>4, <1>7
  <2>3. \A x : Holds(t, x) <=> SpanMeans(x, p, q)
    BY <1>7 DEF Holds
  <2> HIDE DEF p, q
  <2> QED BY <1>6, <2>1, <2>2, <2>3, SpanClassesAre
<1>8. CASE Len(h) # 2 /\ h[1].plus
  <2>2. TokenClasses(t) = PlusClasses(p)
    BY <1>4, <1>8
  <2>3. \A x : Holds(t, x) <=> PlusMeans(x, p)
    BY <1>8 DEF Holds
  <2> HIDE DEF p
  <2> QED BY <1>6, <2>2, <2>3, PlusClassesAre
<1>9. CASE Len(h) # 2 /\ ~h[1].plus
  <2>2. TokenClasses(t) = HandClasses(p)
    BY <1>4, <1>9
  <2>3. \A x : Holds(t, x) <=> x.hi = p.hi /\ x.lo = p.lo /\ SameSuits(x, p)
    BY <1>9 DEF Holds
  <2> HIDE DEF p
  <2> QED BY <1>6, <2>2, <2>3, HandClassesAre
<1> QED BY <1>7, <1>8, <1>9

(* A token that stands for anything stands for the hands its text means.   *)
LEMMA TokenMasksAre ==
  ASSUME NEW t \in Tokens, t # Blank, TokenMasks(t) # {}
  PROVE  \A m : m \in TokenMasks(t) <=> m \in TwoCards /\ TokenMeans(t, m)
<1> SUFFICES ASSUME NEW m PROVE m \in TokenMasks(t) <=> m \in TwoCards /\ TokenMeans(t, m)
  OBVIOUS
<1>1. /\ t.cards \in Seq(Deck)
      /\ Len(t.cards) = 2 \/ (t.cards = << >> /\ Len(t.hands) \in 1 .. 2)
  BY DEF Tokens
<1>2. CASE t.cards # << >>
  <2>1. t.cards[1] \in Deck /\ t.cards[2] \in Deck
    BY <1>1, <1>2
  <2>2. t.cards[1] # t.cards[2] /\ TokenMasks(t) = {{t.cards[1], t.cards[2]}}
    BY <1>2 DEF TokenMasks
  <2>3. {t.cards[1], t.cards[2]} \in TwoCards
    BY <2>1, <2>2, TwoIs, TwoCardsAre
  <2>4. TokenMeans(t, m) <=> m = {t.cards[1], t.cards[2]}
    BY <1>2 DEF TokenMeans
  <2> QED BY <2>2, <2>3, <2>4
<1>3. CASE t.cards = << >>
  <2>1. TokenMasks(t) = UNION {ClassMasks(c) : c \in TokenClasses(t)}
    BY <1>3 DEF TokenMasks
  <2>2. TokenClasses(t) # {} /\ Len(t.hands) \in 1 .. 2
    <3>1. Len(<< >>) = 0
      OBVIOUS
    <3>2. Len(t.hands) \in 1 .. 2
      BY <1>1, <1>3, <3>1
    <3>3. TokenClasses(t) # {}
      BY <2>1
    <3> QED BY <3>2, <3>3
  <2>3. TokenClasses(t) \subseteq Classes /\ \A x \in Shapes : OneOf(x, TokenClasses(t)) <=> Holds(t, x)
    BY <2>2, TokenClassesAre
  <2>4. m \in TokenMasks(t) <=> \E c \in TokenClasses(t) : m \in ClassMasks(c)
    BY <2>1
  <2>5. m \in TokenMasks(t) <=> \E c \in TokenClasses(t) : m \in TwoCards /\ IsOf(Shape(m), c)
    BY <2>3, <2>4, ClassMasksAre
  <2>6. m \in TokenMasks(t) <=> m \in TwoCards /\ OneOf(Shape(m), TokenClasses(t))
    BY <2>5 DEF OneOf
  <2>7. TokenMeans(t, m) <=> Holds(t, Shape(m))
    BY <1>3 DEF TokenMeans, Holds, SpanMeans, PlusMeans
  <2> QED BY <2>3, <2>6, <2>7, ShapesAre
<1> QED BY <1>2, <1>3

(* What the tokens up to one mean.                                         *)
MeansUpTo(text, n) ==
  UNION {{<<m, text[i].weight>> : m \in {x \in TwoCards : TokenMeans(text[i], x)}} :
           i \in {j \in 1 .. n : text[j] # Blank}}

(* One token more: its own hands are added, none for an empty one.         *)
LEMMA MeansNext ==
  ASSUME NEW text, NEW n \in Nat \ {0}
  PROVE  /\ text[n] = Blank => MeansUpTo(text, n) = MeansUpTo(text, n - 1)
         /\ text[n] # Blank =>
              \A p : p \in MeansUpTo(text, n) <=>
                       \/ p \in MeansUpTo(text, n - 1)
                       \/ \E m \in TwoCards : TokenMeans(text[n], m) /\ p = <<m, text[n].weight>>
<1> DEFINE of(i) == {<<m, text[i].weight>> : m \in {x \in TwoCards : TokenMeans(text[i], x)}}
           at(k) == {j \in 1 .. k : text[j] # Blank}
<1>0. \A k : MeansUpTo(text, k) = UNION {of(i) : i \in at(k)}
  BY DEF MeansUpTo
<1>1. 1 .. n = (1 .. n - 1) \union {n}
  OBVIOUS
<1>2. text[n] = Blank => at(n) = at(n - 1)
  BY <1>1
<1>3. text[n] # Blank => at(n) = at(n - 1) \union {n}
  BY <1>1
<1>4. \A p : p \in of(n) <=> \E m \in TwoCards : TokenMeans(text[n], m) /\ p = <<m, text[n].weight>>
  OBVIOUS
<1> HIDE DEF of, at
<1>5. ASSUME text[n] # Blank PROVE \A p : p \in MeansUpTo(text, n) <=> p \in MeansUpTo(text, n - 1) \/ p \in of(n)
  <2>1. MeansUpTo(text, n) = UNION {of(i) : i \in at(n - 1) \union {n}} /\ MeansUpTo(text, n - 1) = UNION {of(i) : i \in at(n - 1)}
    BY <1>0, <1>3, <1>5
  <2> QED BY <2>1
<1>6. text[n] = Blank => MeansUpTo(text, n) = MeansUpTo(text, n - 1)
  BY <1>0, <1>2
<1> QED BY <1>4, <1>5, <1>6

(* A token's masks in order, at its weight, are what it means.             *)
LEMMA TokenListMeans ==
  ASSUME NEW t \in Tokens, t # Blank, TokenMasks(t) # {}
  PROVE  /\ AtWeight(Ascending(TokenMasks(t), "holdem"), t.weight) \in ComboLists
         /\ \A p : p \in Meaning(AtWeight(Ascending(TokenMasks(t), "holdem"), t.weight)) <=>
                     \E m \in TwoCards : TokenMeans(t, m) /\ p = <<m, t.weight>>
<1> DEFINE list == Ascending(TokenMasks(t), "holdem")
<1>1. t.weight \in Int
  BY DEF Tokens
<1>2. HandsOf("holdem") = TwoCards
  BY DEF HandsOf
<1>3. list \in Seq(SUBSET Deck) /\ \A m : m \in Entries(list) <=> m \in TokenMasks(t) /\ m \in HandsOf("holdem")
  BY AscendingIs
<1>4. \A m : m \in Entries(list) <=> m \in TwoCards /\ TokenMeans(t, m)
  BY <1>2, <1>3, TokenMasksAre
<1> HIDE DEF list
<1>5. \A p : p \in Meaning(AtWeight(list, t.weight)) <=> \E m \in Entries(list) : p = <<m, t.weight>>
  BY <1>1, <1>3, WeightedMeans
<1>6. AtWeight(list, t.weight) \in ComboLists
  BY <1>1, <1>3, AtWeightIs
<1> QED BY <1>4, <1>5, <1>6 DEF list

(* A Hold'em range that is parsed holds what its text means.               *)
THEOREM HoldemMeansItsText ==
  ASSUME NEW text \in Seq(Tokens), ParseHoldem(text).ok
  PROVE  Meaning(ParseHoldem(text).combos) = HoldemTextMeans(text)
<1> DEFINE N == Len(text)
<1>1. N \in Nat /\ DOMAIN text = 1 .. N /\ \A i \in 1 .. N : text[i] \in Tokens
  BY LenProperties
<1>2. PICK g : /\ IsHoldemList(g, text)
               /\ \A i \in 0 .. N : g[i] \in ComboLists
               /\ ParseHoldem(text) = IF TokensStand(text) /\ NoRepeats(g[N]) THEN Parsed(g[N]) ELSE Malformed
  BY HoldemListIs
<1>3. TokensStand(text) /\ ParseHoldem(text).combos = g[N]
  <2>1. ~Malformed.ok
    BY DEF Malformed
  <2>2. TokensStand(text) /\ ParseHoldem(text) = Parsed(g[N])
    BY <1>2, <2>1
  <2> QED BY <2>2 DEF Parsed
<1> DEFINE step(i) == AtWeight(Ascending(TokenMasks(text[i]), "holdem"), text[i].weight)
<1>4. \A i \in 0 .. N : g[i] = IF i = 0 THEN << >> ELSE IF text[i] = Blank THEN g[i - 1] ELSE g[i - 1] \o step(i)
  BY <1>2 DEF IsHoldemList
<1>5. \A i \in 1 .. N : text[i] # Blank => text[i] \in Tokens /\ TokenMasks(text[i]) # {}
  BY <1>1, <1>3 DEF TokensStand
<1> DEFINE Right(i) == Meaning(g[i]) = MeansUpTo(text, i)
<1>6. Right(0)
  <2>1. 0 \in 0 .. N
    BY <1>1
  <2>2. g[0] = << >>
    BY <1>4, <2>1
  <2>3. 1 .. 0 = {}
    OBVIOUS
  <2>4. {j \in 1 .. 0 : text[j] # Blank} = {}
    BY <2>3
  <2>5. MeansUpTo(text, 0) = {}
    BY <2>4 DEF MeansUpTo
  <2> QED BY <2>2, <2>5, NoCombo
<1>7. ASSUME NEW i \in 1 .. N, Right(i - 1) PROVE Right(i)
  <2>1. i \in 0 .. N /\ i - 1 \in 0 .. N /\ i # 0 /\ i \in Nat \ {0}
    BY <1>1
  <2>2. CASE text[i] = Blank
    <3>1. g[i] = g[i - 1]
      BY <1>4, <2>1, <2>2
    <3>2. MeansUpTo(text, i) = MeansUpTo(text, i - 1)
      BY <2>1, <2>2, MeansNext
    <3> QED BY <1>7, <3>1, <3>2
  <2>3. CASE text[i] # Blank
    <3> DEFINE rest == g[i - 1]
               own == step(i)
    <3>1. g[i] = rest \o own
      BY <1>4, <2>1, <2>3
    <3>2. /\ own \in ComboLists
          /\ \A p : p \in Meaning(own) <=> \E m \in TwoCards : TokenMeans(text[i], m) /\ p = <<m, text[i].weight>>
      BY <1>5, <2>3, TokenListMeans
    <3>3. rest \in ComboLists
      BY <1>2, <2>1
    <3> HIDE DEF own, rest
    <3>4. Meaning(g[i]) = Meaning(rest) \union Meaning(own)
      BY <3>1, <3>2, <3>3, JoinedMeans
    <3>5. Meaning(rest) = MeansUpTo(text, i - 1)
      BY <1>7 DEF rest
    <3>6. \A p : p \in MeansUpTo(text, i) <=>
                   p \in MeansUpTo(text, i - 1) \/ \E m \in TwoCards : TokenMeans(text[i], m) /\ p = <<m, text[i].weight>>
      BY <2>1, <2>3, MeansNext
    <3>7. \A p : p \in Meaning(g[i]) <=> p \in MeansUpTo(text, i)
      BY <3>2, <3>4, <3>5, <3>6
    <3> QED BY <3>7
  <2> QED BY <2>2, <2>3
<1>8. Right(N)
  <2> DEFINE good == [i \in 0 .. N |-> Right(i)]
             D == {TRUE}
  <2>1. good[0] \in D
    <3>1. good[0] = Right(0)
      BY <1>1
    <3> HIDE DEF Right
    <3> QED BY <1>6, <3>1
  <2>2. \A i \in 1 .. N : good[i - 1] \in D => good[i] \in D
    <3> TAKE i \in 1 .. N
    <3>1. i \in 0 .. N /\ i - 1 \in 0 .. N
      BY <1>1
    <3>2. good[i - 1] = Right(i - 1) /\ good[i] = Right(i)
      BY <3>1
    <3> HIDE DEF Right, good
    <3> QED BY <1>7, <3>2
  <2>3. \A i \in 0 .. N : good[i] \in D
    <3> HIDE DEF good, D
    <3> QED BY <1>1, <2>1, <2>2, Stays
  <2>4. N \in 0 .. N
    BY <1>1
  <2>5. good[N] = Right(N)
    BY <2>4
  <2> HIDE DEF Right, good
  <2> QED BY <2>3, <2>4, <2>5
<1>9. HoldemTextMeans(text) = MeansUpTo(text, N)
  BY <1>1 DEF HoldemTextMeans, MeansUpTo
<1> QED BY <1>3, <1>8, <1>9

-----------------------------------------------------------------------------
(* What PLO notation means.                                                *)

(* The cards of a rank, and the places of a symbol.                        *)
OfRank(H, r) == {c \in H : RankOf(c) = r}
Places(ranks, P, r) == {i \in P : ranks[i] = r}

PlaceSets == SUBSET (1 .. 4)

(* Four symbols: ranks and wildcards.                                      *)
IsRanks(ranks) == \A i \in 1 .. 4 : ranks[i] \in Ranks \union {0}

(* A card taken away leaves one less of its rank.                          *)
LEMMA OfRankIs ==
  ASSUME NEW H \in SUBSET Deck, NEW r
  PROVE  /\ IsFiniteSet(H) /\ IsFiniteSet(OfRank(H, r)) /\ Cardinality(OfRank(H, r)) \in Nat
         /\ \A a \in H : Cardinality(OfRank(H \ {a}, r)) =
              IF RankOf(a) = r THEN Cardinality(OfRank(H, r)) - 1 ELSE Cardinality(OfRank(H, r))
         /\ \A a \in H : RankOf(a) = r => Cardinality(OfRank(H, r)) # 0
         /\ Cardinality(OfRank(H, r)) # 0 => \E a \in H : RankOf(a) = r
<1>1. IsFiniteSet(H)
  BY DeckIs, FS_Subset
<1>2. OfRank(H, r) \in SUBSET H /\ \A a : a \in OfRank(H, r) <=> a \in H /\ RankOf(a) = r
  BY DEF OfRank
<1>3. IsFiniteSet(OfRank(H, r))
  BY <1>1, <1>2, FS_Subset
<1>4. \A a \in H : OfRank(H \ {a}, r) = OfRank(H, r) \ {a}
  BY DEF OfRank
<1> DEFINE S == OfRank(H, r)
<1>5. \A a : Cardinality(S \ {a}) = IF a \in S THEN Cardinality(S) - 1 ELSE Cardinality(S)
  <2> HIDE DEF S
  <2> QED BY <1>3, FS_RemoveElement DEF S
<1>6. Cardinality(S) \in Nat /\ (Cardinality(S) = 0 <=> S = {})
  BY <1>3, FS_CardinalityType, FS_EmptySet
<1> QED BY <1>1, <1>2, <1>3, <1>4, <1>5, <1>6

(* A place taken away leaves one less for its symbol.                      *)
LEMMA PlacesAre ==
  ASSUME NEW ranks, NEW P \in PlaceSets, NEW r
  PROVE  /\ IsFiniteSet(P) /\ IsFiniteSet(Places(ranks, P, r)) /\ Cardinality(Places(ranks, P, r)) \in Nat
         /\ \A k \in P : Cardinality(Places(ranks, P \ {k}, r)) =
              IF ranks[k] = r THEN Cardinality(Places(ranks, P, r)) - 1 ELSE Cardinality(Places(ranks, P, r))
         /\ \A k \in P : ranks[k] = r => Cardinality(Places(ranks, P, r)) # 0
         /\ Cardinality(Places(ranks, P, r)) # 0 => \E k \in P : ranks[k] = r
<1>1. IsFiniteSet(P)
  <2>1. 1 \in Int /\ 4 \in Int
    OBVIOUS
  <2>2. IsFiniteSet(1 .. 4)
    BY <2>1, FS_Interval
  <2> QED BY <2>2, FS_Subset DEF PlaceSets
<1>2. Places(ranks, P, r) \in SUBSET P /\ \A k : k \in Places(ranks, P, r) <=> k \in P /\ ranks[k] = r
  BY DEF Places
<1>3. IsFiniteSet(Places(ranks, P, r))
  BY <1>1, <1>2, FS_Subset
<1>4. \A k \in P : Places(ranks, P \ {k}, r) = Places(ranks, P, r) \ {k}
  BY DEF Places
<1> DEFINE S == Places(ranks, P, r)
<1>5. \A k : Cardinality(S \ {k}) = IF k \in S THEN Cardinality(S) - 1 ELSE Cardinality(S)
  <2> HIDE DEF S
  <2> QED BY <1>3, FS_RemoveElement DEF S
<1>6. Cardinality(S) \in Nat /\ (Cardinality(S) = 0 <=> S = {})
  BY <1>3, FS_CardinalityType, FS_EmptySet
<1> QED BY <1>1, <1>2, <1>3, <1>4, <1>5, <1>6

(* The same for one place.                                                 *)
LEMMA PlacesWithout ==
  ASSUME NEW ranks, NEW P \in PlaceSets, NEW k \in P, NEW r
  PROVE  Cardinality(Places(ranks, P \ {k}, r)) =
           IF ranks[k] = r THEN Cardinality(Places(ranks, P, r)) - 1 ELSE Cardinality(Places(ranks, P, r))
<1>1. \A x \in P : Cardinality(Places(ranks, P \ {x}, r)) =
        IF ranks[x] = r THEN Cardinality(Places(ranks, P, r)) - 1 ELSE Cardinality(Places(ranks, P, r))
  BY PlacesAre
<1> QED BY <1>1

(* There is a place for every card.                                        *)
Placed(H, P, ranks) == \A r \in Ranks : Cardinality(OfRank(H, r)) <= Cardinality(Places(ranks, P, r))

(* Some of the four places stay some of the four places.                   *)
LEMMA PlacesLess ==
  ASSUME NEW P \in PlaceSets, NEW k \in P
  PROVE  P \ {k} \in PlaceSets
BY DEF PlaceSets

(* A card takes a place of its rank, and there is one for every other card *)
(* still.                                                                  *)
LEMMA PlacedOne ==
  ASSUME NEW ranks, NEW H \in SUBSET Deck, NEW P \in PlaceSets, Placed(H, P, ranks), NEW a \in H
  PROVE  \E k \in P : Placed(H \ {a}, P \ {k}, ranks)
<1> DEFINE r == RankOf(a)
<1>1. r \in Ranks
  BY CardParts
<1>2. Cardinality(OfRank(H, r)) \in Nat /\ Cardinality(OfRank(H, r)) # 0
  BY OfRankIs
<1>3. Cardinality(Places(ranks, P, r)) \in Nat /\ Cardinality(OfRank(H, r)) <= Cardinality(Places(ranks, P, r))
  BY <1>1, PlacesAre DEF Placed
<1>4. Cardinality(Places(ranks, P, r)) # 0
  BY <1>2, <1>3
<1>5. PICK k \in P : ranks[k] = r
  BY <1>4, PlacesAre
<1>6. ASSUME NEW x \in Ranks
      PROVE  Cardinality(OfRank(H \ {a}, x)) <= Cardinality(Places(ranks, P \ {k}, x))
  <2> DEFINE m == Cardinality(OfRank(H, x))
             n == Cardinality(Places(ranks, P, x))
  <2>1. m \in Nat /\ n \in Nat /\ m <= n
    BY OfRankIs, PlacesAre DEF Placed
  <2>2. Cardinality(OfRank(H \ {a}, x)) = IF r = x THEN m - 1 ELSE m
    BY OfRankIs
  <2>3. Cardinality(Places(ranks, P \ {k}, x)) = IF r = x THEN n - 1 ELSE n
    <3>1. Cardinality(Places(ranks, P \ {k}, x)) = IF ranks[k] = x THEN n - 1 ELSE n
      BY <1>5, PlacesAre
    <3> HIDE DEF n, r
    <3> QED BY <1>5, <3>1
  <2> HIDE DEF m, n, r
  <2> QED BY <2>1, <2>2, <2>3
<1> QED BY <1>5, <1>6 DEF Placed

(* With a place for every card there are at least as many places as cards. *)
LEMMA PlacedFits ==
  ASSUME NEW ranks, NEW H \in SUBSET Deck, NEW P \in PlaceSets, Placed(H, P, ranks)
  PROVE  Cardinality(H) <= Cardinality(P)
<1> DEFINE Over(X, Q) == Placed(X, Q, ranks) /\ ~(Cardinality(X) <= Cardinality(Q))
           F == {X \in SUBSET Deck : \E Q \in PlaceSets : Over(X, Q)}
<1>0. SUFFICES ASSUME F # {} PROVE FALSE
  OBVIOUS
<1>1. \A X \in F : IsFiniteSet(X)
  BY DeckIs, FS_Subset
<1>2. PICK X \in F : \A Y \in F : Cardinality(X) <= Cardinality(Y)
  <2> HIDE DEF F
  <2> QED BY <1>0, <1>1, SmallestSet
<1>3. PICK Q \in PlaceSets : Over(X, Q)
  BY <1>2
<1>4. X \in SUBSET Deck /\ IsFiniteSet(X) /\ IsFiniteSet(Q) /\ Cardinality(X) \in Nat /\ Cardinality(Q) \in Nat
  BY <1>1, <1>2, PlacesAre, FS_CardinalityType
<1>5. X # {}
  BY <1>3, <1>4, FS_EmptySet
<1>6. PICK a \in X : TRUE
  BY <1>5
<1>7. PICK k \in Q : Placed(X \ {a}, Q \ {k}, ranks)
  BY <1>3, <1>4, <1>6, PlacedOne
<1>8. Cardinality(X \ {a}) = Cardinality(X) - 1 /\ Cardinality(Q \ {k}) = Cardinality(Q) - 1
  BY <1>4, <1>6, <1>7, FS_RemoveElement
<1>9. ~(Cardinality(X \ {a}) <= Cardinality(Q \ {k}))
  BY <1>3, <1>4, <1>8
<1>10. X \ {a} \in F
  BY <1>4, <1>7, <1>9, PlacesLess
<1>11. Cardinality(X) <= Cardinality(X \ {a})
  BY <1>2, <1>10
<1> QED BY <1>4, <1>8, <1>11

(* There is a card for every named rank.                                   *)
Dealt(ranks, P, H) == \A r \in Ranks : Cardinality(Places(ranks, P, r)) <= Cardinality(OfRank(H, r))

(* A card is dealt to a place, and the others to the others.               *)
DealtAt(ranks, P, H, k) == \E a \in H : Stands(ranks[k], a) /\ Dealt(ranks, P \ {k}, H \ {a})

(* Ranks and wildcards can be dealt a hand exactly when one of the places  *)
(* can be given a card and the others the rest.                            *)
LEMMA DealOne ==
  ASSUME NEW ranks, IsRanks(ranks), NEW P \in PlaceSets, NEW H \in SUBSET Deck,
         Cardinality(H) = Cardinality(P), NEW k \in P
  PROVE  Dealt(ranks, P, H) <=> DealtAt(ranks, P, H, k)
<1>0. 0 \notin Ranks /\ ranks[k] \in Ranks \union {0}
  BY RankIsNumber DEF IsRanks, PlaceSets
<1> DEFINE m(r) == Cardinality(OfRank(H, r))
           n(r) == Cardinality(Places(ranks, P, r))
<1>1. \A r : m(r) \in Nat /\ n(r) \in Nat
  BY OfRankIs, PlacesAre
<1>2. \A r : Cardinality(Places(ranks, P \ {k}, r)) = IF ranks[k] = r THEN n(r) - 1 ELSE n(r)
  BY PlacesWithout
<1>3. \A a \in H : \A r : Cardinality(OfRank(H \ {a}, r)) = IF RankOf(a) = r THEN m(r) - 1 ELSE m(r)
  BY OfRankIs
<1>4. Dealt(ranks, P, H) <=> \A r \in Ranks : n(r) <= m(r)
  BY DEF Dealt
<1>5. \A a \in H : Dealt(ranks, P \ {k}, H \ {a}) <=>
         \A r \in Ranks : (IF ranks[k] = r THEN n(r) - 1 ELSE n(r)) <= (IF RankOf(a) = r THEN m(r) - 1 ELSE m(r))
  BY <1>2, <1>3 DEF Dealt
<1>6. \A a \in H : RankOf(a) \in Ranks /\ (Stands(ranks[k], a) <=> ranks[k] = 0 \/ ranks[k] = RankOf(a))
  BY CardParts DEF Stands
<1>7. ASSUME NEW a \in H, Stands(ranks[k], a), Dealt(ranks, P \ {k}, H \ {a})
      PROVE  Dealt(ranks, P, H)
  <2> SUFFICES ASSUME NEW r \in Ranks PROVE n(r) <= m(r)
    BY <1>4
  <2>1. (IF ranks[k] = r THEN n(r) - 1 ELSE n(r)) <= (IF RankOf(a) = r THEN m(r) - 1 ELSE m(r))
    BY <1>5, <1>7
  <2>2. ranks[k] = 0 \/ ranks[k] = RankOf(a)
    BY <1>6, <1>7
  <2>3. ranks[k] = 0 => ranks[k] # r
    BY <1>0
  <2>4. n(r) \in Nat /\ m(r) \in Nat
    BY <1>1
  <2> HIDE DEF m, n
  <2> QED BY <2>1, <2>2, <2>3, <2>4
<1>8. ASSUME Dealt(ranks, P, H), ranks[k] # 0
      PROVE  \E a \in H : Stands(ranks[k], a) /\ Dealt(ranks, P \ {k}, H \ {a})
  <2> DEFINE x == ranks[k]
  <2>1. n(x) # 0 /\ n(x) <= m(x) /\ x \in Ranks
    BY <1>0, <1>4, <1>8, PlacesAre
  <2>2. m(x) # 0
    <3> HIDE DEF m, n
    <3> QED BY <1>1, <2>1
  <2>3. PICK a \in H : RankOf(a) = x
    BY <2>2, OfRankIs
  <2>4. \A r \in Ranks : (IF x = r THEN n(r) - 1 ELSE n(r)) <= (IF RankOf(a) = r THEN m(r) - 1 ELSE m(r))
    <3> HIDE DEF m, n, x
    <3> QED BY <1>1, <1>4, <1>8, <2>3
  <2> QED BY <1>5, <1>6, <2>3, <2>4
<1>9. ASSUME Dealt(ranks, P, H), ranks[k] = 0
      PROVE  \E a \in H : Stands(ranks[k], a) /\ Dealt(ranks, P \ {k}, H \ {a})
  <2>1. \A r \in Ranks : ranks[k] # r
    BY <1>0, <1>9
  <2>2. \E a \in H : n(RankOf(a)) < m(RankOf(a))
    <3> SUFFICES ASSUME \A a \in H : ~(n(RankOf(a)) < m(RankOf(a))) PROVE FALSE
      OBVIOUS
    <3>1. ASSUME NEW r \in Ranks PROVE Cardinality(OfRank(H, r)) <= Cardinality(Places(ranks, P \ {k}, r))
      <4>1. Cardinality(Places(ranks, P \ {k}, r)) = n(r)
        BY <1>2, <2>1
      <4>2. CASE m(r) = 0
        BY <1>1, <4>1, <4>2
      <4>3. CASE m(r) # 0
        <5>1. PICK a \in H : RankOf(a) = r
          BY <4>3, OfRankIs
        <5>2. ~(n(r) < m(r))
          BY <5>1
        <5> QED BY <1>1, <4>1, <5>2
      <4> QED BY <4>2, <4>3
    <3>2. Placed(H, P \ {k}, ranks)
      BY <3>1 DEF Placed
    <3>3. Cardinality(H) <= Cardinality(P \ {k})
      BY <3>2, PlacedFits, PlacesLess
    <3>4. Cardinality(P \ {k}) = Cardinality(P) - 1 /\ Cardinality(P) \in Nat
      BY PlacesAre, FS_RemoveElement, FS_CardinalityType
    <3> QED BY <3>3, <3>4
  <2>3. PICK a \in H : n(RankOf(a)) < m(RankOf(a))
    BY <2>2
  <2>4. \A r \in Ranks : (IF ranks[k] = r THEN n(r) - 1 ELSE n(r)) <= (IF RankOf(a) = r THEN m(r) - 1 ELSE m(r))
    <3> HIDE DEF m, n
    <3> QED BY <1>1, <1>4, <1>9, <2>1, <2>3
  <2> QED BY <1>5, <1>6, <1>9, <2>4
<1> QED BY <1>7, <1>8, <1>9 DEF DealtAt

(* A hand has a card for every symbol when it has enough of every rank.    *)
LEMMA DealsIs ==
  ASSUME NEW ranks, IsRanks(ranks), NEW hand \in FourCards
  PROVE  Dealt(ranks, 1 .. 4, hand) <=> Deals(ranks, hand)
<1>0. hand \in SUBSET Deck /\ Cardinality(hand) = 4 /\ IsFiniteSet(hand)
  <2>1. hand \in SUBSET Deck /\ Cardinality(hand) = 4
    BY FourCardsAre
  <2> QED BY <2>1, OfRankIs
<1> DEFINE P1 == 1 .. 4
           P2 == 2 .. 4
           P3 == 3 .. 4
           P4 == 4 .. 4
<1>1. /\ P1 \ {1} = P2 /\ P2 \ {2} = P3 /\ P3 \ {3} = P4 /\ P4 \ {4} = {}
      /\ 1 \in P1 /\ 2 \in P2 /\ 3 \in P3 /\ 4 \in P4
      /\ P1 \in PlaceSets /\ P2 \in PlaceSets /\ P3 \in PlaceSets /\ P4 \in PlaceSets
  BY DEF PlaceSets
<1>2. Cardinality(P1) = 4 /\ Cardinality(P2) = 3 /\ Cardinality(P3) = 2 /\ Cardinality(P4) = 1
  <2>1. 1 \in Int /\ 2 \in Int /\ 3 \in Int /\ 4 \in Int
    OBVIOUS
  <2>2. \A i \in Int : \A j \in Int : Cardinality(i .. j) = IF i > j THEN 0 ELSE j - i + 1
    BY FS_Interval
  <2>3. Cardinality(P1) = (IF 1 > 4 THEN 0 ELSE 4 - 1 + 1) /\ Cardinality(P2) = (IF 2 > 4 THEN 0 ELSE 4 - 2 + 1)
    BY <2>1, <2>2
  <2>4. Cardinality(P3) = (IF 3 > 4 THEN 0 ELSE 4 - 3 + 1) /\ Cardinality(P4) = (IF 4 > 4 THEN 0 ELSE 4 - 4 + 1)
    BY <2>1, <2>2
  <2> QED BY <2>3, <2>4
<1> HIDE DEF P1, P2, P3, P4
<1>9. ASSUME NEW H \in SUBSET Deck, IsFiniteSet(H), NEW a \in H
      PROVE  IsFiniteSet(H \ {a}) /\ Cardinality(H \ {a}) = Cardinality(H) - 1 /\ H \ {a} \in SUBSET Deck
  BY <1>9, FS_RemoveElement
<1>3. Dealt(ranks, P1, hand) <=> \E a \in hand : Stands(ranks[1], a) /\ Dealt(ranks, P2, hand \ {a})
  <2>1. Dealt(ranks, P1, hand) <=> DealtAt(ranks, P1, hand, 1)
    BY <1>0, <1>1, <1>2, DealOne
  <2> QED BY <1>1, <2>1 DEF DealtAt
<1>4. ASSUME NEW a \in hand
      PROVE  Dealt(ranks, P2, hand \ {a}) <=>
               \E b \in hand \ {a} : Stands(ranks[2], b) /\ Dealt(ranks, P3, hand \ {a, b})
  <2> DEFINE H == hand \ {a}
  <2>1. Cardinality(H) = 3 /\ H \in SUBSET Deck
    BY <1>0, <1>9
  <2>2. \A b : H \ {b} = hand \ {a, b}
    OBVIOUS
  <2>3. Dealt(ranks, P2, H) <=> DealtAt(ranks, P2, H, 2)
    <3> HIDE DEF H
    <3> QED BY <1>1, <1>2, <2>1, DealOne
  <2> QED BY <1>1, <2>2, <2>3 DEF DealtAt
<1>5. ASSUME NEW a \in hand, NEW b \in hand \ {a}
      PROVE  Dealt(ranks, P3, hand \ {a, b}) <=>
               \E c \in hand \ {a, b} : Stands(ranks[3], c) /\ Dealt(ranks, P4, hand \ {a, b, c})
  <2> DEFINE H == hand \ {a}
             I == hand \ {a, b}
  <2>0. IsFiniteSet(H) /\ Cardinality(H) = 3 /\ H \in SUBSET Deck /\ b \in H
    BY <1>0, <1>9
  <2>1. Cardinality(H \ {b}) = 2 /\ H \ {b} \in SUBSET Deck
    <3> HIDE DEF H
    <3> QED BY <2>0, <1>9
  <2>4. H \ {b} = I
    OBVIOUS
  <2>2. \A c : I \ {c} = hand \ {a, b, c}
    OBVIOUS
  <2>3. Dealt(ranks, P3, I) <=> DealtAt(ranks, P3, I, 3)
    <3> HIDE DEF H, I
    <3> QED BY <1>1, <1>2, <2>1, <2>4, DealOne
  <2> QED BY <1>1, <2>2, <2>3 DEF DealtAt
<1>6. ASSUME NEW a \in hand, NEW b \in hand \ {a}, NEW c \in hand \ {a, b}
      PROVE  Dealt(ranks, P4, hand \ {a, b, c}) <=> \E d \in hand \ {a, b, c} : Stands(ranks[4], d)
  <2> DEFINE H == hand \ {a}
             I == H \ {b}
             J == hand \ {a, b, c}
  <2>0. IsFiniteSet(H) /\ Cardinality(H) = 3 /\ H \in SUBSET Deck /\ b \in H
    BY <1>0, <1>9
  <2>1. IsFiniteSet(I) /\ Cardinality(I) = 2 /\ I \in SUBSET Deck
    <3> HIDE DEF H
    <3> QED BY <2>0, <1>9
  <2>2. c \in I /\ I \ {c} = J
    OBVIOUS
  <2>3. Cardinality(J) = 1 /\ J \in SUBSET Deck
    <3> HIDE DEF I, J
    <3> QED BY <2>1, <2>2, <1>9
  <2>6. Dealt(ranks, P4, J) <=> DealtAt(ranks, P4, J, 4)
    <3> HIDE DEF J
    <3> QED BY <1>1, <1>2, <2>3, DealOne
  <2>7. \A X \in SUBSET Deck : Dealt(ranks, {}, X)
    <3>1. \A r : Places(ranks, {}, r) = {}
      BY DEF Places
    <3>2. \A X \in SUBSET Deck : \A r : Cardinality(OfRank(X, r)) \in Nat
      BY OfRankIs
    <3>3. \A x \in Nat : 0 <= x
      OBVIOUS
    <3> QED BY <3>1, <3>2, <3>3, FS_EmptySet DEF Dealt
  <2>8. \A d : J \ {d} \in SUBSET Deck
    BY <2>3
  <2> HIDE DEF J
  <2>9. Dealt(ranks, P4, J) <=> \E d \in J : Stands(ranks[4], d)
    BY <1>1, <2>6, <2>7, <2>8 DEF DealtAt
  <2> QED BY <2>9 DEF J
<1>7. Deals(ranks, hand) <=>
        \E a \in hand : Stands(ranks[1], a) /\
          \E b \in hand \ {a} : Stands(ranks[2], b) /\
            \E c \in hand \ {a, b} : Stands(ranks[3], c) /\
              \E d \in hand \ {a, b, c} : Stands(ranks[4], d)
  BY DEF Deals
<1>10. ASSUME NEW a \in hand, NEW b \in hand \ {a}
       PROVE  Dealt(ranks, P3, hand \ {a, b}) <=>
                \E c \in hand \ {a, b} : Stands(ranks[3], c) /\ \E d \in hand \ {a, b, c} : Stands(ranks[4], d)
  BY <1>5, <1>6
<1>11. ASSUME NEW a \in hand
       PROVE  Dealt(ranks, P2, hand \ {a}) <=>
                \E b \in hand \ {a} : Stands(ranks[2], b) /\
                  \E c \in hand \ {a, b} : Stands(ranks[3], c) /\ \E d \in hand \ {a, b, c} : Stands(ranks[4], d)
  BY <1>4, <1>10
<1>8. Dealt(ranks, P1, hand) <=> Deals(ranks, hand)
  BY <1>3, <1>7, <1>11
<1> QED BY <1>8 DEF P1

(* How many of four numbers are in a set.                                  *)
Indicator(b) == IF b THEN 1 ELSE 0

(* A set of suits, counted suit by suit.                                   *)
LEMMA FourSuits ==
  ASSUME NEW T, T \subseteq Suits
  PROVE  Cardinality(T) = Indicator(0 \in T) + Indicator(1 \in T) + Indicator(2 \in T) + Indicator(3 \in T)
<1>1. Suits = {0, 1, 2, 3}
  BY DEF Suits
<1>2. IsFiniteSet({}) /\ Cardinality({}) = 0
  BY FS_EmptySet
<1> DEFINE T3 == T \intersect {3}
           T2 == T \intersect {2, 3}
           T1 == T \intersect {1, 2, 3}
<1>3. IsFiniteSet(T3) /\ Cardinality(T3) = Indicator(3 \in T)
  <2>1. IsFiniteSet({3}) /\ Cardinality({3}) = 1
    BY FS_Singleton
  <2>2. T3 = IF 3 \in T THEN {3} ELSE {}
    OBVIOUS
  <2> QED BY <1>2, <2>1, <2>2 DEF Indicator
<1>4. IsFiniteSet(T2) /\ Cardinality(T2) = Indicator(2 \in T) + Indicator(3 \in T)
  <2>1. T2 = IF 2 \in T THEN T3 \union {2} ELSE T3
    OBVIOUS
  <2>2. 2 \notin T3
    OBVIOUS
  <2> HIDE DEF T2, T3
  <2>3. IsFiniteSet(T3 \union {2}) /\ Cardinality(T3 \union {2}) = Cardinality(T3) + 1 /\ Cardinality(T3) \in Nat
    BY <1>3, <2>2, FS_AddElement, FS_CardinalityType
  <2>4. Indicator(2 \in T) = IF 2 \in T THEN 1 ELSE 0
    BY DEF Indicator
  <2> DEFINE x == Indicator(3 \in T)
             y == Cardinality(T3)
  <2> QED BY <1>3, <2>1, <2>3, <2>4
<1>5. IsFiniteSet(T1) /\ Cardinality(T1) = Indicator(1 \in T) + Indicator(2 \in T) + Indicator(3 \in T)
  <2>1. T1 = IF 1 \in T THEN T2 \union {1} ELSE T2
    OBVIOUS
  <2>2. 1 \notin T2
    OBVIOUS
  <2> HIDE DEF T1, T2
  <2>3. IsFiniteSet(T2 \union {1}) /\ Cardinality(T2 \union {1}) = Cardinality(T2) + 1 /\ Cardinality(T2) \in Nat
    BY <1>4, <2>2, FS_AddElement, FS_CardinalityType
  <2>4. Indicator(1 \in T) = (IF 1 \in T THEN 1 ELSE 0) /\ Indicator(2 \in T) \in Int /\ Indicator(3 \in T) \in Int
    BY DEF Indicator
  <2> QED BY <1>4, <2>1, <2>3, <2>4
<1>6. Cardinality(T) = Indicator(0 \in T) + Indicator(1 \in T) + Indicator(2 \in T) + Indicator(3 \in T)
  <2>1. T = IF 0 \in T THEN T1 \union {0} ELSE T1
    BY <1>1
  <2>2. 0 \notin T1
    OBVIOUS
  <2> HIDE DEF T1
  <2>3. IsFiniteSet(T1 \union {0}) /\ Cardinality(T1 \union {0}) = Cardinality(T1) + 1 /\ Cardinality(T1) \in Nat
    BY <1>5, <2>2, FS_AddElement, FS_CardinalityType
  <2>4. Indicator(0 \in T) = (IF 0 \in T THEN 1 ELSE 0) /\ Indicator(1 \in T) \in Int /\ Indicator(2 \in T) \in Int /\ Indicator(3 \in T) \in Int
    BY DEF Indicator
  <2> DEFINE n == Cardinality(T1)
             m == Cardinality(T)
             b == 0 \in T
  <2>5. m = IF b THEN n + 1 ELSE n
    BY <2>1, <2>3
  <2>6. n = Indicator(1 \in T) + Indicator(2 \in T) + Indicator(3 \in T) /\ n \in Nat
    BY <1>5, <2>3
  <2> HIDE DEF n, m, b
  <2>7. Indicator(b) = IF b THEN 1 ELSE 0
    BY DEF Indicator
  <2>8. m = Indicator(b) + Indicator(1 \in T) + Indicator(2 \in T) + Indicator(3 \in T)
    BY <2>4, <2>5, <2>6, <2>7
  <2> QED BY <2>8 DEF m, b
<1> QED BY <1>6

(* How many cards of a suit.                                               *)
OfSuit(hand, s) == {c \in hand : SuitOf(c) = s}

(* The cards of the four suits are the four of the hand.                   *)
LEMMA SuitSum ==
  ASSUME NEW hand \in FourCards
  PROVE  /\ \A s \in Suits : Cardinality(OfSuit(hand, s)) \in Nat
         /\ \A s \in Suits : Cardinality(OfSuit(hand, s)) # 0 <=> \E c \in hand : SuitOf(c) = s
         /\ Cardinality(OfSuit(hand, 0)) + Cardinality(OfSuit(hand, 1))
              + Cardinality(OfSuit(hand, 2)) + Cardinality(OfSuit(hand, 3)) = 4
<1>0. hand \in SUBSET Deck /\ Cardinality(hand) = 4 /\ IsFiniteSet(hand)
  <2>1. hand \in SUBSET Deck /\ Cardinality(hand) = 4
    BY FourCardsAre
  <2> QED BY <2>1, DeckIs, FS_Subset
<1>1. \A s : OfSuit(hand, s) \in SUBSET hand /\ \A c : c \in OfSuit(hand, s) <=> c \in hand /\ SuitOf(c) = s
  BY DEF OfSuit
<1>2. \A s : IsFiniteSet(OfSuit(hand, s))
  BY <1>0, <1>1, FS_Subset
<1>3. \A s : Cardinality(OfSuit(hand, s)) \in Nat /\ (Cardinality(OfSuit(hand, s)) = 0 <=> OfSuit(hand, s) = {})
  BY <1>2, FS_CardinalityType, FS_EmptySet
<1>4. \A s : Cardinality(OfSuit(hand, s)) # 0 <=> \E c \in hand : SuitOf(c) = s
  BY <1>1, <1>3
<1> DEFINE A == OfSuit(hand, 0)
           B == OfSuit(hand, 1)
           C == OfSuit(hand, 2)
           D == OfSuit(hand, 3)
<1>5. hand = ((A \union B) \union C) \union D
  <2>1. \A c \in hand : SuitOf(c) \in {0, 1, 2, 3}
    BY <1>0, CardParts DEF Suits
  <2> QED BY <1>1, <2>1
<1>6. A \intersect B = {} /\ (A \union B) \intersect C = {} /\ ((A \union B) \union C) \intersect D = {}
  BY <1>1
<1>7. IsFiniteSet(A) /\ IsFiniteSet(B) /\ IsFiniteSet(C) /\ IsFiniteSet(D)
  BY <1>2
<1>8. Cardinality(A) \in Nat /\ Cardinality(B) \in Nat /\ Cardinality(C) \in Nat /\ Cardinality(D) \in Nat
  BY <1>3
<1> HIDE DEF A, B, C, D
<1> DEFINE E == A \union B
           F == E \union C
<1>9. IsFiniteSet(E) /\ Cardinality(E) = Cardinality(A) + Cardinality(B) - Cardinality(A \intersect B)
  BY <1>7, FS_Union
<1>10. E \intersect C = {} /\ F \intersect D = {} /\ hand = F \union D
  BY <1>5, <1>6
<1> HIDE DEF E
<1>11. IsFiniteSet(F) /\ Cardinality(F) = Cardinality(E) + Cardinality(C) - Cardinality(E \intersect C)
  BY <1>7, <1>9, FS_Union
<1> HIDE DEF F
<1>12. Cardinality(hand) = Cardinality(F) + Cardinality(D) - Cardinality(F \intersect D)
  BY <1>7, <1>10, <1>11, FS_Union
<1>13. Cardinality(A) + Cardinality(B) + Cardinality(C) + Cardinality(D) = 4
  <2>1. Cardinality(A \intersect B) = 0 /\ Cardinality(E \intersect C) = 0 /\ Cardinality(F \intersect D) = 0
    BY <1>6, <1>10, FS_EmptySet DEF E
  <2> DEFINE a == Cardinality(A)
             b == Cardinality(B)
             c == Cardinality(C)
             d == Cardinality(D)
  <2>2. 4 = ((a + b - 0) + c - 0) + d - 0
    BY <1>0, <1>9, <1>11, <1>12, <2>1
  <2>3. a \in Nat /\ b \in Nat /\ c \in Nat /\ d \in Nat
    BY <1>8
  <2> HIDE DEF a, b, c, d
  <2>4. a + b + c + d = 4
    BY <2>2, <2>3
  <2> QED BY <2>4 DEF a, b, c, d
<1> QED BY <1>3, <1>4, <1>13 DEF A, B, C, D

(* The qualifiers, on four numbers that add up to four.                    *)
Ones(x, y, z, w, n) == Indicator(x = n) + Indicator(y = n) + Indicator(z = n) + Indicator(w = n)
Present(x, y, z, w) == Indicator(x # 0) + Indicator(y # 0) + Indicator(z # 0) + Indicator(w # 0)

MakeFour(x, y, z, w) == x \in Nat /\ y \in Nat /\ z \in Nat /\ w \in Nat /\ x + y + z + w = 4

(* The code counts the suits that occur twice, or counts to four; the      *)
(* notation asks how many suits there are.                                 *)
LEMMA FourNumbers ==
  ASSUME NEW x, NEW y, NEW z, NEW w, MakeFour(x, y, z, w)
  PROVE  /\ Ones(x, y, z, w, 2) = 2 <=>
              /\ Present(x, y, z, w) = 2
              /\ x \in {0, 2} /\ y \in {0, 2} /\ z \in {0, 2} /\ w \in {0, 2}
         /\ Ones(x, y, z, w, 2) = 1 /\ Ones(x, y, z, w, 1) = 2 <=> Present(x, y, z, w) = 3
         /\ Ones(x, y, z, w, 1) = 4 <=> Present(x, y, z, w) = 4
<1>1. x \in 0 .. 4 /\ y \in 0 .. 4 /\ z \in 0 .. 4 /\ w \in 0 .. 4
  BY DEF MakeFour
<1>2. x + y + z + w = 4
  BY DEF MakeFour
<1> QED BY <1>1, <1>2 DEF Ones, Present, Indicator

(* The qualifier the code counts out is the one the notation means.        *)
LEMMA SuitsMatchIs ==
  ASSUME NEW hand \in FourCards, NEW suit \in {"any", "ds", "ss", "r"}
  PROVE  SuitsMatch(hand, suit) <=> Suited(hand, suit)
<1> DEFINE k(s) == Cardinality(OfSuit(hand, s))
           with(n) == Cardinality({s \in Suits : k(s) = n})
           suits == {SuitOf(c) : c \in hand}
           x == k(0)
           y == k(1)
           z == k(2)
           w == k(3)
<1>1. Suits = {0, 1, 2, 3}
  BY DEF Suits
<1>2. x \in Nat /\ y \in Nat /\ z \in Nat /\ w \in Nat /\ x + y + z + w = 4
  BY <1>1, SuitSum
<1>3. \A s \in Suits : s \in suits <=> k(s) # 0
  BY SuitSum
<1>4. suits \subseteq Suits
  <2>1. \A c \in hand : SuitOf(c) \in Suits
    BY FourCardsAre, CardParts
  <2> QED BY <2>1
<1>5. ASSUME NEW n PROVE with(n) = Ones(x, y, z, w, n)
  <2> DEFINE T == {s \in Suits : k(s) = n}
  <2>1. T \subseteq Suits /\ (0 \in T <=> x = n) /\ (1 \in T <=> y = n) /\ (2 \in T <=> z = n) /\ (3 \in T <=> w = n)
    BY <1>1
  <2> HIDE DEF T, x, y, z, w
  <2>2. Cardinality(T) = Indicator(0 \in T) + Indicator(1 \in T) + Indicator(2 \in T) + Indicator(3 \in T)
    BY <2>1, FourSuits
  <2>3. /\ Indicator(0 \in T) = Indicator(x = n) /\ Indicator(1 \in T) = Indicator(y = n)
        /\ Indicator(2 \in T) = Indicator(z = n) /\ Indicator(3 \in T) = Indicator(w = n)
    BY <2>1 DEF Indicator
  <2>4. Cardinality(T) = Ones(x, y, z, w, n)
    BY <2>2, <2>3 DEF Ones
  <2> QED BY <2>4 DEF T
<1>6. Cardinality(suits) = Present(x, y, z, w)
  <2>1. (0 \in suits <=> x # 0) /\ (1 \in suits <=> y # 0) /\ (2 \in suits <=> z # 0) /\ (3 \in suits <=> w # 0)
    BY <1>1, <1>3
  <2> HIDE DEF suits, x, y, z, w
  <2>2. Cardinality(suits) = Indicator(0 \in suits) + Indicator(1 \in suits) + Indicator(2 \in suits) + Indicator(3 \in suits)
    BY <1>4, FourSuits
  <2>3. /\ Indicator(0 \in suits) = Indicator(x # 0) /\ Indicator(1 \in suits) = Indicator(y # 0)
        /\ Indicator(2 \in suits) = Indicator(z # 0) /\ Indicator(3 \in suits) = Indicator(w # 0)
    BY <2>1 DEF Indicator
  <2> QED BY <2>2, <2>3 DEF Present
<1>7. (\A s \in suits : k(s) = 2) <=> x \in {0, 2} /\ y \in {0, 2} /\ z \in {0, 2} /\ w \in {0, 2}
  <2>1. (\A s \in suits : k(s) = 2) <=> \A s \in Suits : k(s) \in {0, 2}
    BY <1>3, <1>4
  <2> QED BY <1>1, <2>1
<1>8. SuitsMatch(hand, suit) <=>
        CASE suit = "ds"  -> with(2) = 2
          [] suit = "ss"  -> with(2) = 1 /\ with(1) = 2
          [] suit = "r"   -> with(1) = 4
          [] OTHER        -> TRUE
  BY DEF SuitsMatch, OfSuit
<1>9. Suited(hand, suit) <=>
        CASE suit = "ds" -> Cardinality(suits) = 2 /\ \A s \in suits : k(s) = 2
          [] suit = "ss" -> Cardinality(suits) = 3
          [] suit = "r"  -> Cardinality(suits) = 4
          [] OTHER       -> TRUE
  BY DEF Suited, OfSuit
<1>10. /\ with(2) = 2 <=> Cardinality(suits) = 2 /\ \A s \in suits : k(s) = 2
       /\ with(2) = 1 /\ with(1) = 2 <=> Cardinality(suits) = 3
       /\ with(1) = 4 <=> Cardinality(suits) = 4
  <2>1. with(2) = Ones(x, y, z, w, 2) /\ with(1) = Ones(x, y, z, w, 1)
    BY <1>5
  <2> HIDE DEF with, suits, k, x, y, z, w
  <2>2. /\ Ones(x, y, z, w, 2) = 2 <=>
             /\ Present(x, y, z, w) = 2
             /\ x \in {0, 2} /\ y \in {0, 2} /\ z \in {0, 2} /\ w \in {0, 2}
        /\ Ones(x, y, z, w, 2) = 1 /\ Ones(x, y, z, w, 1) = 2 <=> Present(x, y, z, w) = 3
        /\ Ones(x, y, z, w, 1) = 4 <=> Present(x, y, z, w) = 4
    <3>1. MakeFour(x, y, z, w)
      BY <1>2 DEF MakeFour
    <3> QED BY <3>1, FourNumbers
  <2> QED BY <1>6, <1>7, <2>1, <2>2
<1> HIDE DEF with, suits, k, x, y, z, w
<1>11. CASE suit = "ds"
  BY <1>8, <1>9, <1>10, <1>11
<1>12. CASE suit = "ss"
  BY <1>8, <1>9, <1>10, <1>12
<1>13. CASE suit = "r"
  BY <1>8, <1>9, <1>10, <1>13
<1>14. CASE suit = "any"
  BY <1>8, <1>9, <1>14
<1> QED BY <1>11, <1>12, <1>13, <1>14

(* The ranks symbols name, and how many of each they ask for.              *)
NamedIn(ranks) == {ranks[i] : i \in 1 .. 4} \ {0}
NeedOf(ranks) == {<<r, Cardinality(Places(ranks, 1 .. 4, r))>> : r \in NamedIn(ranks)}
Asking(ranks, suit) == [need |-> NeedOf(ranks), suit |-> suit]

Qualifiers == {"any", "ds", "ss", "r"}
PatternSyntax == [ranks : Seq(Int), suit : Qualifiers]

(* A legible pattern asks for the ranks it names, as often as it names     *)
(* them.                                                                   *)
LEMMA PatternIs ==
  ASSUME NEW p \in PatternSyntax, Legible(p)
  PROVE  /\ Pattern(p) = Asking(p.ranks, p.suit) /\ Named(Pattern(p)) = NamedIn(p.ranks)
         /\ p.suit \in Qualifiers
         /\ IsRanks(p.ranks) /\ p.ranks \in Seq(Int) /\ DOMAIN p.ranks = 1 .. 4
<1>1. Pattern(p) = Asking(p.ranks, p.suit)
  BY DEF Pattern, Asking, NeedOf, NamedIn, Places
<1>2. Named(Pattern(p)) = NamedIn(p.ranks)
  <2>1. Named(Pattern(p)) = {n[1] : n \in NeedOf(p.ranks)}
    BY <1>1 DEF Named, Asking
  <2> DEFINE size(r) == Cardinality(Places(p.ranks, 1 .. 4, r))
  <2>2. \A n : n \in NeedOf(p.ranks) <=> \E r \in NamedIn(p.ranks) : n = <<r, size(r)>>
    BY DEF NeedOf
  <2> HIDE DEF size
  <2>3. ASSUME NEW x \in Named(Pattern(p)) PROVE x \in NamedIn(p.ranks)
    <3>1. PICK n \in NeedOf(p.ranks) : x = n[1]
      BY <2>1, <2>3
    <3> QED BY <2>2, <3>1
  <2>4. ASSUME NEW r \in NamedIn(p.ranks) PROVE r \in Named(Pattern(p))
    <3> DEFINE n == <<r, size(r)>>
    <3>1. n \in NeedOf(p.ranks) /\ n[1] = r
      BY <2>2
    <3> HIDE DEF n
    <3> QED BY <2>1, <3>1
  <2> QED BY <2>3, <2>4
<1>3. p.suit \in Qualifiers /\ p.ranks \in Seq(Int)
  BY DEF PatternSyntax
<1>4. Len(p.ranks) = 4 /\ \A i \in 1 .. 4 : p.ranks[i] \in Ranks \union {0}
  BY DEF Legible
<1>5. DOMAIN p.ranks = 1 .. 4
  BY <1>3, <1>4, LenProperties
<1> QED BY <1>1, <1>2, <1>3, <1>4, <1>5 DEF IsRanks

(* A rank that is not named has no place.                                  *)
LEMMA NamedAre ==
  ASSUME NEW ranks, IsRanks(ranks)
  PROVE  NamedIn(ranks) \subseteq Ranks /\ \A r \in Ranks \ NamedIn(ranks) : Cardinality(Places(ranks, 1 .. 4, r)) = 0
<1>1. NamedIn(ranks) \subseteq Ranks
  BY DEF NamedIn, IsRanks
<1>2. ASSUME NEW r \in Ranks, r \notin NamedIn(ranks) PROVE Cardinality(Places(ranks, 1 .. 4, r)) = 0
  <2>1. r # 0
    BY RankIsNumber
  <2>2. Places(ranks, 1 .. 4, r) = {}
    BY <1>2, <2>1 DEF NamedIn, Places
  <2> QED BY <2>2, FS_EmptySet
<1> QED BY <1>1, <1>2

(* A hand matches a pattern when its cards are what the symbols say.       *)
LEMMA MatchesIs ==
  ASSUME NEW ranks, IsRanks(ranks), NEW hand \in FourCards, NEW suit \in Qualifiers
  PROVE  Matches(Asking(ranks, suit), hand) <=> Deals(ranks, hand) /\ Suited(hand, suit)
<1>1. Matches(Asking(ranks, suit), hand) <=>
        /\ \A n \in NeedOf(ranks) : n[2] <= Cardinality(OfRank(hand, n[1]))
        /\ SuitsMatch(hand, suit)
  BY DEF Matches, Asking, OfRank
<1>2. (\A n \in NeedOf(ranks) : n[2] <= Cardinality(OfRank(hand, n[1]))) <=>
        \A r \in NamedIn(ranks) : Cardinality(Places(ranks, 1 .. 4, r)) <= Cardinality(OfRank(hand, r))
  <2> DEFINE size(r) == Cardinality(Places(ranks, 1 .. 4, r))
             have(r) == Cardinality(OfRank(hand, r))
  <2>1. \A n : n \in NeedOf(ranks) <=> \E r \in NamedIn(ranks) : n = <<r, size(r)>>
    BY DEF NeedOf
  <2> HIDE DEF size, have
  <2>2. ASSUME \A n \in NeedOf(ranks) : n[2] <= have(n[1]), NEW r \in NamedIn(ranks) PROVE size(r) <= have(r)
    <3> DEFINE n == <<r, size(r)>>
    <3>1. n \in NeedOf(ranks) /\ n[1] = r /\ n[2] = size(r)
      BY <2>1
    <3> HIDE DEF n
    <3>2. n[2] <= have(n[1])
      BY <2>2, <3>1
    <3> QED BY <3>1, <3>2
  <2>3. ASSUME \A r \in NamedIn(ranks) : size(r) <= have(r), NEW n \in NeedOf(ranks) PROVE n[2] <= have(n[1])
    <3>1. PICK r \in NamedIn(ranks) : n = <<r, size(r)>>
      BY <2>1
    <3>2. n[1] = r /\ n[2] = size(r)
      BY <3>1
    <3> QED BY <2>3, <3>1, <3>2
  <2>4. (\A n \in NeedOf(ranks) : n[2] <= have(n[1])) <=> \A r \in NamedIn(ranks) : size(r) <= have(r)
    BY <2>2, <2>3
  <2> QED BY <2>4 DEF size, have
<1>3. ASSUME NEW r \in Ranks, r \notin NamedIn(ranks)
      PROVE  Cardinality(Places(ranks, 1 .. 4, r)) <= Cardinality(OfRank(hand, r))
  <2>1. Cardinality(Places(ranks, 1 .. 4, r)) = 0
    BY <1>3, NamedAre
  <2>2. Cardinality(OfRank(hand, r)) \in Nat
    BY FourCardsAre, OfRankIs
  <2> QED BY <2>1, <2>2
<1>4. (\A r \in NamedIn(ranks) : Cardinality(Places(ranks, 1 .. 4, r)) <= Cardinality(OfRank(hand, r)))
        <=> Dealt(ranks, 1 .. 4, hand)
  BY <1>3, NamedAre DEF Dealt
<1>5. SuitsMatch(hand, suit) <=> Suited(hand, suit)
  BY SuitsMatchIs DEF Qualifiers
<1> QED BY <1>1, <1>2, <1>4, <1>5, DealsIs

(* All ranks move, none of them off the deck.                              *)
StaysOn(ranks, d) == \A r \in NamedIn(ranks) : r + d \in Ranks

(* Moving all symbols moves what they ask for.                             *)
LEMMA MovedIs ==
  ASSUME NEW ranks, IsRanks(ranks), DOMAIN ranks = 1 .. 4, NEW d \in Int, StaysOn(ranks, d)
  PROVE  /\ IsRanks(Moved(ranks, d))
         /\ NeedOf(Moved(ranks, d)) = {<<n[1] + d, n[2]>> : n \in NeedOf(ranks)}
<1> DEFINE new == Moved(ranks, d)
<1>1. \A i \in 1 .. 4 : new[i] = IF ranks[i] = 0 THEN 0 ELSE ranks[i] + d
  BY DEF Moved
<1>2. \A i \in 1 .. 4 : ranks[i] \in Ranks \union {0} /\ (ranks[i] # 0 => ranks[i] \in NamedIn(ranks))
  BY DEF IsRanks, NamedIn
<1>3. \A i \in 1 .. 4 : ranks[i] # 0 => ranks[i] + d \in Ranks /\ ranks[i] \in Int
  BY <1>2, RankIsNumber DEF StaysOn
<1>4. IsRanks(new)
  BY <1>1, <1>3 DEF IsRanks
<1>5. ASSUME NEW r \in NamedIn(ranks) PROVE Places(new, 1 .. 4, r + d) = Places(ranks, 1 .. 4, r)
  <2>1. r \in Int /\ r # 0 /\ r + d \in Ranks /\ r + d # 0
    BY <1>5, NamedAre, RankIsNumber DEF StaysOn
  <2> SUFFICES ASSUME NEW i \in 1 .. 4 PROVE new[i] = r + d <=> ranks[i] = r
    BY DEF Places
  <2>2. CASE ranks[i] = 0
    BY <1>1, <2>1, <2>2
  <2>3. CASE ranks[i] # 0
    <3>1. new[i] = ranks[i] + d /\ ranks[i] \in Int
      BY <1>1, <1>3, <2>3
    <3> QED BY <2>1, <3>1
  <2> QED BY <2>2, <2>3
<1>6. NamedIn(new) = {r + d : r \in NamedIn(ranks)}
  <2>1. ASSUME NEW x \in NamedIn(new) PROVE x \in {r + d : r \in NamedIn(ranks)}
    <3>1. PICK i \in 1 .. 4 : x = new[i] /\ x # 0
      BY <2>1 DEF NamedIn
    <3>2. ranks[i] # 0 /\ x = ranks[i] + d
      BY <1>1, <3>1
    <3> QED BY <1>2, <3>2
  <2>2. ASSUME NEW r \in NamedIn(ranks) PROVE r + d \in NamedIn(new)
    <3>1. PICK i \in 1 .. 4 : r = ranks[i] /\ r # 0
      BY <2>2 DEF NamedIn
    <3>2. new[i] = r + d /\ r + d # 0
      BY <1>1, <3>1, RankIsNumber DEF StaysOn
    <3> QED BY <3>2 DEF NamedIn
  <2> QED BY <2>1, <2>2
<1> HIDE DEF new
<1>7. NeedOf(new) = {<<n[1] + d, n[2]>> : n \in NeedOf(ranks)}
  <2> DEFINE size(r) == Cardinality(Places(ranks, 1 .. 4, r))
  <2>1. NeedOf(new) = {<<x, Cardinality(Places(new, 1 .. 4, x))>> : x \in {r + d : r \in NamedIn(ranks)}}
    BY <1>6 DEF NeedOf
  <2>2. NeedOf(new) = {<<r + d, Cardinality(Places(new, 1 .. 4, r + d))>> : r \in NamedIn(ranks)}
    BY <2>1
  <2>3. NeedOf(new) = {<<r + d, size(r)>> : r \in NamedIn(ranks)}
    <3>1. \A r \in NamedIn(ranks) : Cardinality(Places(new, 1 .. 4, r + d)) = size(r)
      BY <1>5
    <3> HIDE DEF size
    <3> QED BY <2>2, <3>1
  <2>4. NeedOf(ranks) = {<<r, size(r)>> : r \in NamedIn(ranks)}
    BY DEF NeedOf
  <2> HIDE DEF size
  <2> DEFINE put(n) == <<n[1] + d, n[2]>>
  <2>6. \A r \in NamedIn(ranks) : put(<<r, size(r)>>) = <<r + d, size(r)>>
    OBVIOUS
  <2>5. {put(n) : n \in {<<r, size(r)>> : r \in NamedIn(ranks)}} = {<<r + d, size(r)>> : r \in NamedIn(ranks)}
    <3> HIDE DEF put
    <3> QED BY <2>6
  <2> QED BY <2>3, <2>4, <2>5
<1> QED BY <1>4, <1>7 DEF new

(* Patterns moved are those of the symbols moved.                          *)
LEMMA ShiftIs ==
  ASSUME NEW p \in PatternSyntax, Legible(p), NEW d \in Int
  PROVE  /\ Shiftable(Pattern(p), d) <=> StaysOn(p.ranks, d)
         /\ StaysOn(p.ranks, d) =>
              IsRanks(Moved(p.ranks, d)) /\ Shift(Pattern(p), d) = Asking(Moved(p.ranks, d), p.suit)
         /\ (\A i \in 1 .. 4 : p.ranks[i] # 0 => p.ranks[i] + d \in Ranks) <=> StaysOn(p.ranks, d)
<1>1. /\ Pattern(p) = Asking(p.ranks, p.suit) /\ Named(Pattern(p)) = NamedIn(p.ranks)
      /\ IsRanks(p.ranks) /\ DOMAIN p.ranks = 1 .. 4
  BY PatternIs
<1>2. Shiftable(Pattern(p), d) <=> StaysOn(p.ranks, d)
  BY <1>1 DEF Shiftable, StaysOn
<1>3. ASSUME StaysOn(p.ranks, d)
      PROVE  IsRanks(Moved(p.ranks, d)) /\ Shift(Pattern(p), d) = Asking(Moved(p.ranks, d), p.suit)
  <2>1. /\ IsRanks(Moved(p.ranks, d))
        /\ NeedOf(Moved(p.ranks, d)) = {<<n[1] + d, n[2]>> : n \in NeedOf(p.ranks)}
    BY <1>1, <1>3, MovedIs
  <2>2. Shift(Pattern(p), d) = [need |-> {<<n[1] + d, n[2]>> : n \in NeedOf(p.ranks)}, suit |-> p.suit]
    <3> DEFINE q == Asking(p.ranks, p.suit)
               more == {<<n[1] + d, n[2]>> : n \in NeedOf(p.ranks)}
    <3>1. q.need = NeedOf(p.ranks) /\ q = [need |-> NeedOf(p.ranks), suit |-> p.suit]
      BY DEF Asking
    <3>2. Shift(q, d) = [q EXCEPT !.need = more]
      BY <3>1 DEF Shift
    <3> HIDE DEF more
    <3>3. [q EXCEPT !.need = more] = [need |-> more, suit |-> p.suit]
      BY <3>1
    <3> HIDE DEF q
    <3> QED BY <1>1, <3>2, <3>3 DEF more, q
  <2> QED BY <2>1, <2>2 DEF Asking
<1>4. (\A i \in 1 .. 4 : p.ranks[i] # 0 => p.ranks[i] + d \in Ranks) <=> StaysOn(p.ranks, d)
  BY DEF StaysOn, NamedIn
<1> QED BY <1>2, <1>3, <1>4

(* The highest symbol is the highest rank named.                           *)
LEMMA TopNamed ==
  ASSUME NEW ranks, IsRanks(ranks), DOMAIN ranks = 1 .. 4, NamedIn(ranks) # {}
  PROVE  Max({ranks[i] : i \in DOMAIN ranks}) = Max(NamedIn(ranks)) /\ Max(NamedIn(ranks)) \in NamedIn(ranks)
<1> DEFINE S == {ranks[i] : i \in 1 .. 4}
           N == NamedIn(ranks)
<1>1. N = S \ {0} /\ N \subseteq Ranks /\ S \subseteq Ranks \union {0}
  BY NamedAre DEF NamedIn, IsRanks
<1>2. S \subseteq Int /\ N \subseteq Int /\ \A r \in N : r > 0
  BY <1>1, RankIsNumber
<1>3. IsFiniteSet(S) /\ IsFiniteSet(N)
  <2>1. IsFiniteSet(Ranks \union {0})
    BY WidthIs, FS_AddElement
  <2> HIDE DEF S, N
  <2>2. S \in SUBSET (Ranks \union {0}) /\ N \in SUBSET S
    BY <1>1
  <2>3. IsFiniteSet(S)
    BY <2>1, <2>2, FS_Subset
  <2> QED BY <2>2, <2>3, FS_Subset
<1>4. S # {} /\ N # {}
  BY <1>1
<1> HIDE DEF S, N
<1>5. Max(S) \in S /\ \A y \in S : Max(S) >= y
  BY <1>2, <1>3, <1>4, MaxIs
<1>6. Max(N) \in N /\ \A y \in N : Max(N) >= y
  BY <1>2, <1>3, <1>4, MaxIs
<1>7. Max(S) >= Max(N) /\ Max(N) > 0 /\ Max(N) \in Int /\ Max(S) \in Int
  BY <1>1, <1>2, <1>5, <1>6
<1>8. Max(S) \in N
  BY <1>1, <1>5, <1>7
<1>9. Max(N) >= Max(S)
  BY <1>6, <1>8
<1> QED BY <1>6, <1>7, <1>9 DEF S, N

(* A form has ranks.                                                       *)
LEMMA FormNames ==
  ASSUME NEW q, Form(q) # "none"
  PROVE  Named(q) # {}
<1>1. PICK r \in Ranks : q.need = {<<r, 2>>} \/ q.need = {<<x, 1>> : x \in r .. r + 3}
  BY DEF Form
<1>2. r \in r .. r + 3
  BY RankIsNumber
<1>3. q.need # {}
  BY <1>1, <1>2
<1> QED BY <1>3 DEF Named

(* Shifted patterns ask for the moved symbols.                             *)
LEMMA ShiftsAre ==
  ASSUME NEW p \in PatternSyntax, Legible(p), NEW D, D \subseteq Int, \A d \in D : StaysOn(p.ranks, d)
  PROVE  /\ \A ranks \in {Moved(p.ranks, d) : d \in D} : IsRanks(ranks)
         /\ {Shift(Pattern(p), d) : d \in D} = {Asking(ranks, p.suit) : ranks \in {Moved(p.ranks, d) : d \in D}}
<1>1. \A d \in D : IsRanks(Moved(p.ranks, d)) /\ Shift(Pattern(p), d) = Asking(Moved(p.ranks, d), p.suit)
  BY ShiftIs
<1> DEFINE to(d) == Shift(Pattern(p), d)
           new(d) == Moved(p.ranks, d)
           ask(ranks) == Asking(ranks, p.suit)
<1>2. \A d \in D : IsRanks(new(d)) /\ to(d) = ask(new(d))
  BY <1>1
<1> HIDE DEF to, new, ask
<1>3. \A ranks \in {new(d) : d \in D} : IsRanks(ranks)
  BY <1>2
<1>4. {to(d) : d \in D} = {ask(ranks) : ranks \in {new(d) : d \in D}}
  BY <1>2
<1> QED BY <1>3, <1>4 DEF to, new, ask

(* The moves an item writes down.                                          *)
MovesOf(t) ==
  LET p == t.patterns[1].ranks
      top(q) == Max({q[i] : i \in DOMAIN q})
  IN  IF Len(t.patterns) = 2 THEN top(t.patterns[2].ranks) - top(p) .. 0
      ELSE IF t.mark = "+" THEN Steps ELSE IF t.mark = "-" THEN {-d : d \in Steps} ELSE {0}

(* What an item writes down are the moves that stay on the deck.           *)
LEMMA WrittenIs ==
  ASSUME NEW t, NEW p \in PatternSyntax, p = t.patterns[1], Legible(p), MovesOf(t) \subseteq Int
  PROVE  Written(t) = {Moved(p.ranks, d) : d \in {x \in MovesOf(t) : StaysOn(p.ranks, x)}}
<1>1. DOMAIN p.ranks = 1 .. 4
  BY PatternIs
<1> DEFINE onDeck(d) == \A i \in DOMAIN p.ranks : p.ranks[i] # 0 => p.ranks[i] + d \in Ranks
<1>2. Written(t) = {Moved(p.ranks, d) : d \in {x \in MovesOf(t) : onDeck(x)}}
  BY DEF Written, MovesOf
<1>3. \A d \in MovesOf(t) : onDeck(d) <=> StaysOn(p.ranks, d)
  BY <1>1, ShiftIs
<1> HIDE DEF onDeck
<1>4. {x \in MovesOf(t) : onDeck(x)} = {x \in MovesOf(t) : StaysOn(p.ranks, x)}
  BY <1>3
<1> QED BY <1>2, <1>4

(* The patterns of an item are those of the symbols it writes down.        *)
LEMMA ItemPatternsAre ==
  ASSUME NEW t \in Items, ItemPatterns(t) # {}
  PROVE  /\ t.patterns[1].suit \in Qualifiers
         /\ \A ranks \in Written(t) : IsRanks(ranks)
         /\ ItemPatterns(t) = {Asking(ranks, t.patterns[1].suit) : ranks \in Written(t)}
<1> DEFINE ps == t.patterns
           p == ps[1]
           q == Pattern(p)
<1>1. ps \in Seq(PatternSyntax) /\ t.mark \in {"", "+", "-"} /\ (Len(ps) \in 0 .. 2)
  <2>1. ps \in Seq(PatternSyntax) /\ t.mark \in {"", "+", "-"} /\ (ps = << >> \/ Len(ps) \in 0 .. 2)
    BY DEF Items, PatternSyntax, Qualifiers
  <2> HIDE DEF ps
  <2>2. ps = << >> \/ Len(ps) \in 0 .. 2
    BY <2>1
  <2>3. CASE ps = << >>
    <3>1. Len(ps) = 0
      BY <2>3, EmptySeq
    <3>2. Len(ps) \in 0 .. 2
      BY <3>1
    <3> QED BY <2>1, <3>2
  <2>4. CASE Len(ps) \in 0 .. 2
    BY <2>1, <2>4
  <2> QED BY <2>2, <2>3, <2>4
<1>2. ps # << >> /\ ~(\E i \in DOMAIN ps : ~Legible(ps[i]))
  BY DEF ItemPatterns
<1>3. Len(ps) # 0 /\ DOMAIN ps = 1 .. Len(ps)
  <2> HIDE DEF ps
  <2> QED BY <1>1, <1>2, EmptySeq, LenProperties
<1>4. p \in PatternSyntax /\ Legible(p)
  <2> HIDE DEF ps
  <2> DEFINE n == Len(ps)
  <2>0. n \in 0 .. 2 /\ n # 0
    BY <1>1, <1>3
  <2>1. 1 \in 1 .. n
    <3> HIDE DEF n
    <3> QED BY <2>0
  <2>4. \A i \in 1 .. n : ps[i] \in PatternSyntax
    BY <1>1, LenProperties
  <2>2. ps[1] \in PatternSyntax
    BY <2>1, <2>4
  <2>3. Legible(ps[1])
    BY <1>2, <1>3, <2>1
  <2> QED BY <2>2, <2>3
<1>5. ItemPatterns(t) =
        IF Len(ps) = 2 THEN IF t.mark = "" THEN SpanPatterns(q, Pattern(ps[2])) ELSE {}
        ELSE IF t.mark # "" THEN OpenPatterns(q, t.mark)
        ELSE {q}
  BY <1>2 DEF ItemPatterns
<1>6. p.suit \in Qualifiers /\ IsRanks(p.ranks) /\ DOMAIN p.ranks = 1 .. 4 /\ p.ranks \in Seq(Int)
      /\ q = Asking(p.ranks, p.suit) /\ Named(q) = NamedIn(p.ranks)
  BY <1>4, PatternIs
<1>11. MovesOf(t) \subseteq Int
  <2>1. Steps \subseteq Int
    BY WidthIs DEF Steps
  <2>2. {-d : d \in Steps} \subseteq Int
    BY <2>1
  <2>3. \A a, b : a .. b \subseteq Int
    OBVIOUS
  <2> DEFINE top(x) == Max({x[i] : i \in DOMAIN x})
             a == top(ps[2].ranks) - top(p.ranks)
  <2>4. MovesOf(t) = IF Len(ps) = 2 THEN a .. 0
                     ELSE IF t.mark = "+" THEN Steps ELSE IF t.mark = "-" THEN {-d : d \in Steps} ELSE {0}
    BY DEF MovesOf
  <2>5. a .. 0 \subseteq Int
    BY <2>3
  <2> HIDE DEF a
  <2>6. {0} \subseteq Int
    OBVIOUS
  <2> DEFINE down == {-d : d \in Steps}
  <2>7. MovesOf(t) = a .. 0 \/ MovesOf(t) = Steps \/ MovesOf(t) = down \/ MovesOf(t) = {0}
    <3> HIDE DEF down
    <3> QED BY <2>4 DEF down
  <2> HIDE DEF down
  <2> QED BY <2>1, <2>2, <2>5, <2>6, <2>7 DEF down
<1> DEFINE D == {x \in MovesOf(t) : StaysOn(p.ranks, x)}
<1>7. ItemPatterns(t) = {Shift(q, d) : d \in D}
  <2>1. CASE Len(ps) # 2 /\ t.mark = ""
    <3>1. MovesOf(t) = {0}
      BY <2>1 DEF MovesOf
    <3>2. StaysOn(p.ranks, 0)
      <4>1. \A r \in NamedIn(p.ranks) : r \in Ranks /\ r \in Int
        BY <1>6, NamedAre, RankIsNumber
      <4>2. \A r \in NamedIn(p.ranks) : r + 0 = r
        BY <4>1
      <4> QED BY <4>1, <4>2 DEF StaysOn
    <3>3. D = {0}
      BY <3>1, <3>2
    <3>4. Moved(p.ranks, 0) = p.ranks
      <4> DEFINE s == p.ranks
      <4>1. s \in Seq(Int) /\ DOMAIN s = 1 .. 4
        BY <1>6
      <4>2. s = [i \in 1 .. 4 |-> s[i]] /\ \A i \in 1 .. 4 : s[i] \in Int
        <5> HIDE DEF s
        <5>1. s \in [DOMAIN s -> Int]
          BY <4>1, LenProperties
        <5>2. s \in [1 .. 4 -> Int]
          BY <4>1, <5>1
        <5> QED BY <5>2
      <4>3. Moved(s, 0) = [i \in 1 .. 4 |-> IF s[i] = 0 THEN 0 ELSE s[i] + 0]
        BY <4>1 DEF Moved
      <4>4. \A i \in 1 .. 4 : (IF s[i] = 0 THEN 0 ELSE s[i] + 0) = s[i]
        <5> HIDE DEF s
        <5> QED BY <4>2
      <4> HIDE DEF s
      <4>5. Moved(s, 0) = [i \in 1 .. 4 |-> s[i]]
        BY <4>3, <4>4
      <4> QED BY <4>2, <4>5 DEF s
    <3>5. Shift(q, 0) = q
      BY <1>4, <1>6, <3>2, <3>4, ShiftIs
    <3> QED BY <1>5, <2>1, <3>3, <3>5
  <2>2. CASE Len(ps) # 2 /\ t.mark # ""
    <3> DEFINE to(d) == IF t.mark = "+" THEN d ELSE -d
               moves == {d \in Steps : Shiftable(q, to(d))}
    <3>1. ItemPatterns(t) = {Shift(q, to(d)) : d \in moves}
      BY <1>5, <2>2 DEF OpenPatterns
    <3>2. \A d \in Steps : to(d) \in Int
      <4>1. \A d \in Steps : d \in Int
        BY WidthIs DEF Steps
      <4> QED BY <4>1
    <3>3. MovesOf(t) = {to(d) : d \in Steps}
      BY <1>1, <2>2 DEF MovesOf
    <3>4. \A d \in Steps : Shiftable(q, to(d)) <=> StaysOn(p.ranks, to(d))
      <4> HIDE DEF to
      <4> QED BY <1>4, <3>2, ShiftIs
    <3> HIDE DEF to, q, p
    <3> QED BY <3>1, <3>3, <3>4
  <2>3. CASE Len(ps) = 2
    <3> DEFINE o == ps[2]
               qo == Pattern(o)
               delta == Max(Named(q)) - Max(Named(qo))
    <3>1. o \in PatternSyntax /\ Legible(o)
      <4> HIDE DEF ps
      <4>1. 2 \in 1 .. Len(ps)
        BY <2>3
      <4>4. \A i \in 1 .. Len(ps) : ps[i] \in PatternSyntax
        BY <1>1, LenProperties
      <4>2. ps[2] \in PatternSyntax
        BY <4>1, <4>4
      <4>3. Legible(ps[2])
        BY <1>2, <1>3, <4>1
      <4> QED BY <4>2, <4>3
    <3>2. ItemPatterns(t) = SpanPatterns(q, qo)
      BY <1>5, <2>3
    <3>3. /\ Form(q) # "none" /\ Form(q) = Form(qo) /\ delta > 0 /\ Shiftable(q, -delta)
          /\ ItemPatterns(t) = {Shift(q, -d) : d \in 0 .. delta}
      <4> HIDE DEF q, qo
      <4> QED BY <3>2 DEF SpanPatterns
    <3>4. IsRanks(o.ranks) /\ DOMAIN o.ranks = 1 .. 4 /\ Named(qo) = NamedIn(o.ranks)
      BY <3>1, PatternIs
    <3>5. NamedIn(p.ranks) # {} /\ NamedIn(o.ranks) # {}
      BY <1>6, <3>3, <3>4, FormNames
    <3>6. /\ Max({p.ranks[i] : i \in DOMAIN p.ranks}) = Max(Named(q)) /\ Max(Named(q)) \in Ranks
          /\ Max({o.ranks[i] : i \in DOMAIN o.ranks}) = Max(Named(qo)) /\ Max(Named(qo)) \in Ranks
      BY <1>6, <3>4, <3>5, TopNamed, NamedAre
    <3>7. MovesOf(t) = Max(Named(qo)) - Max(Named(q)) .. 0
      BY <2>3, <3>6 DEF MovesOf
    <3>8. delta \in Nat /\ MovesOf(t) = -delta .. 0
      <4> DEFINE a == Max(Named(q))
                 b == Max(Named(qo))
      <4>1. a \in Int /\ b \in Int
        BY <3>6, RankIsNumber
      <4>2. a - b > 0
        BY <3>3
      <4> HIDE DEF a, b
      <4>3. a - b \in Nat /\ b - a = -(a - b)
        BY <4>1, <4>2
      <4> QED BY <3>7, <4>3 DEF a, b
    <3> HIDE DEF delta
    <3>9. \A d \in 0 .. delta : StaysOn(p.ranks, -d)
      <4>1. \A r \in NamedIn(p.ranks) : r + -delta \in Ranks
        BY <1>6, <3>3 DEF Shiftable
      <4>2. ASSUME NEW d \in 0 .. delta, NEW r \in NamedIn(p.ranks) PROVE r + -d \in Ranks
        <5>1. r \in Ranks /\ r \in Int
          BY <1>6, NamedAre, RankIsNumber
        <5>2. r + -delta \in Ranks
          BY <4>1
        <5>3. LowRank \in Int
          BY WidthIs
        <5> QED BY <3>8, <5>1, <5>2, <5>3 DEF Ranks
      <4> QED BY <4>2 DEF StaysOn
    <3>10. \A x : x \in D <=> \E d \in 0 .. delta : x = -d
      <4>1. \A x : x \in -delta .. 0 <=> \E d \in 0 .. delta : x = -d
        <5>1. ASSUME NEW x \in -delta .. 0 PROVE -x \in 0 .. delta /\ x = -(-x)
          BY <3>8
        <5>2. ASSUME NEW d \in 0 .. delta PROVE -d \in -delta .. 0
          BY <3>8
        <5> QED BY <5>1, <5>2
      <4> QED BY <3>8, <3>9, <4>1
    <3> HIDE DEF D, q
    <3> QED BY <3>3, <3>10
  <2> QED BY <2>1, <2>2, <2>3
<1>8. Written(t) = {Moved(p.ranks, d) : d \in D}
  BY <1>4, <1>11, WrittenIs
<1>9. D \subseteq Int /\ \A d \in D : StaysOn(p.ranks, d)
  BY <1>11
<1> HIDE DEF D
<1>10. /\ \A ranks \in {Moved(p.ranks, d) : d \in D} : IsRanks(ranks)
       /\ {Shift(q, d) : d \in D} = {Asking(ranks, p.suit) : ranks \in {Moved(p.ranks, d) : d \in D}}
  BY <1>4, <1>9, ShiftsAre
<1> QED BY <1>6, <1>7, <1>8, <1>10

(* An item that is accepted stands for the hands its text means.           *)
LEMMA ItemMasksAre ==
  ASSUME NEW t \in Items, ItemStands(t)
  PROVE  ItemMasks(t) = ItemMeans(t) /\ ItemMasks(t) \subseteq FourCards
<1>1. CASE t.cards # << >>
  <2> DEFINE hand == {t.cards[i] : i \in DOMAIN t.cards}
  <2>1. t.cards \in Seq(Deck) /\ Cardinality(hand) = 4
    BY <1>1 DEF ItemStands, Items
  <2>2. hand \in SUBSET Deck
    BY <2>1
  <2>3. ItemMasks(t) = {hand} /\ ItemMeans(t) = {hand}
    BY <1>1 DEF ItemMasks, ItemMeans
  <2> HIDE DEF hand
  <2>4. hand \in FourCards
    BY <2>1, <2>2, FourCardsAre
  <2> QED BY <2>3, <2>4
<1>2. CASE t.cards = << >>
  <2> DEFINE suit == t.patterns[1].suit
             patterns == ItemPatterns(t)
             written == Written(t)
  <2>1. patterns # {}
    BY <1>2 DEF ItemStands
  <2>2. /\ suit \in Qualifiers /\ (\A ranks \in written : IsRanks(ranks))
        /\ patterns = {Asking(ranks, suit) : ranks \in written}
    BY <2>1, ItemPatternsAre
  <2>3. ItemMasks(t) = {hand \in FourCards : \E q \in patterns : Matches(q, hand)}
    BY <1>2, AllFour DEF ItemMasks
  <2>4. ItemMeans(t) = {hand \in FourCards : Suited(hand, suit) /\ \E ranks \in written : Deals(ranks, hand)}
    BY <1>2 DEF ItemMeans
  <2> HIDE DEF suit, patterns, written
  <2>5. ASSUME NEW hand \in FourCards
        PROVE  (\E q \in patterns : Matches(q, hand)) <=> Suited(hand, suit) /\ \E ranks \in written : Deals(ranks, hand)
    <3>1. (\E q \in patterns : Matches(q, hand)) <=> \E ranks \in written : Matches(Asking(ranks, suit), hand)
      BY <2>2
    <3>2. \A ranks \in written : Matches(Asking(ranks, suit), hand) <=> Deals(ranks, hand) /\ Suited(hand, suit)
      BY <2>2, MatchesIs
    <3> QED BY <3>1, <3>2
  <2> QED BY <2>3, <2>4, <2>5
<1> QED BY <1>1, <1>2

(* A PLO range that is parsed holds what its text means.                   *)
THEOREM PloMeansItsText ==
  ASSUME NEW text \in Seq(Items), ParsePlo(text).ok
  PROVE  Meaning(ParsePlo(text).combos) = PloTextMeans(text)
<1> DEFINE own(i) == ItemMasks(text[i])
           w(i) == text[i].weight
           masks == {<<i, own(i)>> : i \in DOMAIN text}
           clash == \E m, n \in masks : /\ text[m[1]].weight # text[n[1]].weight
                                        /\ m[2] \intersect n[2] # {}
           hands == UNION {m[2] : m \in masks}
           weight(h) == text[(CHOOSE m \in masks : h \in m[2])[1]].weight
           list == Ascending(hands, "plo")
           stands == text # << >> /\ \A i \in DOMAIN text : ItemStands(text[i])
           made == [i \in DOMAIN list |-> Combo(list[i], weight(list[i]))]
<1>1. ParsePlo(text) = IF stands /\ ~clash THEN Parsed(made) ELSE Malformed
  BY DEF ParsePlo
<1>2. stands /\ ~clash /\ ParsePlo(text).combos = made
  <2> HIDE DEF stands, clash, made
  <2> QED BY <1>1 DEF Malformed, Parsed
<1>3. \A i \in DOMAIN text : text[i] \in Items
  OBVIOUS
<1>4. \A i \in DOMAIN text : own(i) = ItemMeans(text[i]) /\ own(i) \subseteq FourCards /\ w(i) \in Int
  <2>1. \A t \in Items : t.weight \in Int
    BY DEF Items
  <2> QED BY <1>2, <1>3, <2>1, ItemMasksAre
<1>5. \A m : m \in masks <=> \E i \in DOMAIN text : m = <<i, own(i)>>
  OBVIOUS
<1>6. \A i \in DOMAIN text : \A j \in DOMAIN text : own(i) \intersect own(j) # {} => w(i) = w(j)
  <2> SUFFICES ASSUME NEW i \in DOMAIN text, NEW j \in DOMAIN text, own(i) \intersect own(j) # {}, w(i) # w(j)
               PROVE  FALSE
    OBVIOUS
  <2> DEFINE m == <<i, own(i)>>
             n == <<j, own(j)>>
  <2>1. m \in masks /\ n \in masks /\ m[1] = i /\ n[1] = j /\ m[2] = own(i) /\ n[2] = own(j)
    OBVIOUS
  <2> HIDE DEF m, n, masks, own
  <2>2. clash
    BY <2>1
  <2> QED BY <1>2, <2>2
<1>7. \A h : h \in hands <=> \E i \in DOMAIN text : h \in own(i)
  <2> SUFFICES ASSUME NEW h PROVE h \in hands <=> \E i \in DOMAIN text : h \in own(i)
    OBVIOUS
  <2>1. h \in hands <=> \E m \in masks : h \in m[2]
    <3> HIDE DEF masks
    <3> QED OBVIOUS
  <2>2. \A i : <<i, own(i)>>[2] = own(i)
    OBVIOUS
  <2> HIDE DEF masks, hands, own
  <2>3. ASSUME h \in hands PROVE \E i \in DOMAIN text : h \in own(i)
    <3>1. PICK m \in masks : h \in m[2]
      BY <2>1, <2>3
    <3>2. PICK i \in DOMAIN text : m = <<i, own(i)>>
      BY <1>5, <3>1
    <3>3. m[2] = own(i)
      BY <2>2, <3>2
    <3> QED BY <3>1, <3>2, <3>3
  <2>4. ASSUME NEW i \in DOMAIN text, h \in own(i) PROVE h \in hands
    <3> DEFINE m == <<i, own(i)>>
    <3>1. m \in masks
      BY <1>5
    <3>2. m[2] = own(i)
      BY <2>2
    <3> HIDE DEF m
    <3> QED BY <2>1, <2>4, <3>1, <3>2
  <2> QED BY <2>3, <2>4
<1>8. ASSUME NEW i \in DOMAIN text, NEW h \in own(i) PROVE weight(h) = w(i)
  <2> DEFINE c == CHOOSE m \in masks : h \in m[2]
  <2>1. \E m \in masks : h \in m[2]
    <3> DEFINE n == <<i, own(i)>>
    <3>1. n \in masks /\ h \in n[2]
      BY <1>8
    <3> QED BY <3>1
  <2>2. c \in masks /\ h \in c[2]
    <3> HIDE DEF masks
    <3> QED BY <2>1
  <2>3. weight(h) = text[c[1]].weight
    OBVIOUS
  <2> HIDE DEF c, masks
  <2>4. PICK j \in DOMAIN text : c = <<j, own(j)>>
    BY <1>5, <2>2
  <2>5. c[1] = j /\ c[2] = own(j)
    BY <2>4
  <2>6. own(i) \intersect own(j) # {}
    BY <1>8, <2>2, <2>5
  <2>7. w(i) = w(j)
    BY <1>6, <2>6
  <2> QED BY <2>3, <2>5, <2>7
<1> HIDE DEF masks, clash, hands, weight, own
<1>9. /\ list \in Seq(SUBSET Deck)
      /\ \A m : m \in Entries(list) <=> m \in hands
  <2>1. /\ list \in Seq(SUBSET Deck)
        /\ \A m : m \in Entries(list) <=> m \in hands /\ m \in HandsOf("plo")
    BY AscendingIs
  <2>2. HandsOf("plo") = FourCards
    BY DEF HandsOf
  <2>3. hands \subseteq FourCards
    BY <1>4, <1>7
  <2> QED BY <2>1, <2>2, <2>3
<1> HIDE DEF list
<1>10. \A p : p \in Meaning(made) <=> \E h \in hands : p = <<h, weight(h)>>
  <2> DEFINE n == Len(list)
  <2>1. DOMAIN list = 1 .. n
    BY <1>9, LenProperties
  <2>2. DOMAIN made = 1 .. n /\ \A i \in 1 .. n : made[i].mask = list[i] /\ made[i].weight = weight(list[i])
    BY <2>1 DEF Combo
  <2>3. Meaning(made) = {<<made[i].mask, made[i].weight>> : i \in 1 .. n}
    BY <2>2 DEF Meaning
  <2> HIDE DEF made
  <2>4. Entries(list) = {list[i] : i \in 1 .. n}
    BY DEF Entries
  <2>5. \A p : p \in Meaning(made) <=> \E i \in 1 .. n : p = <<list[i], weight(list[i])>>
    BY <2>2, <2>3
  <2>6. \A h : h \in hands <=> \E i \in 1 .. n : h = list[i]
    BY <1>9, <2>4
  <2> QED BY <2>5, <2>6
<1>11. \A p : p \in PloTextMeans(text) <=> \E i \in DOMAIN text : \E h \in own(i) : p = <<h, w(i)>>
  <2> DEFINE of(i) == {<<h, w(i)>> : h \in ItemMeans(text[i])}
  <2>1. PloTextMeans(text) = UNION {of(i) : i \in DOMAIN text}
    BY DEF PloTextMeans
  <2>2. \A i \in DOMAIN text : \A p : p \in of(i) <=> \E h \in own(i) : p = <<h, w(i)>>
    BY <1>4
  <2> HIDE DEF of
  <2> QED BY <2>1, <2>2
<1>12. \A p : p \in Meaning(made) <=> p \in PloTextMeans(text)
  <2>1. ASSUME NEW p \in Meaning(made) PROVE p \in PloTextMeans(text)
    <3>1. PICK h \in hands : p = <<h, weight(h)>>
      BY <1>10, <2>1
    <3>2. PICK i \in DOMAIN text : h \in own(i)
      BY <1>7, <3>1
    <3>3. weight(h) = w(i)
      BY <1>8, <3>2
    <3> QED BY <1>11, <3>1, <3>2, <3>3
  <2>2. ASSUME NEW p \in PloTextMeans(text) PROVE p \in Meaning(made)
    <3>1. PICK i \in DOMAIN text : \E h \in own(i) : p = <<h, w(i)>>
      BY <1>11, <2>2
    <3>2. PICK h \in own(i) : p = <<h, w(i)>>
      BY <3>1
    <3>3. weight(h) = w(i) /\ h \in hands
      BY <1>7, <1>8, <3>2
    <3> QED BY <1>10, <3>2, <3>3
  <2> QED BY <2>1, <2>2
<1> HIDE DEF made
<1> QED BY <1>2, <1>12

-----------------------------------------------------------------------------
(* What the other sources mean.                                            *)

(* A list that means hands of a game holds hands of their size.            *)
LEMMA SizesAre ==
  ASSUME NEW s \in ComboLists, NEW game
  PROVE  RightSizes(s, game) <=> \A p \in Meaning(s) : Cardinality(p[1]) = CardsPerHand(game)
<1>1. \A p : p \in Meaning(s) <=> \E i \in 1 .. Len(s) : p = Pair(s[i])
  BY MeaningIs
<1>2. DOMAIN s = 1 .. Len(s)
  BY Lists, LenProperties
<1>3. \A c : Pair(c)[1] = c.mask
  BY DEF Pair
<1>4. RightSizes(s, game) <=> \A i \in 1 .. Len(s) : Cardinality(s[i].mask) = CardsPerHand(game)
  BY <1>2 DEF RightSizes
<1> QED BY <1>1, <1>3, <1>4

(* The labels a percentage keeps are those that fit into it.               *)
LEMMA KeptLabels ==
  ASSUME NEW p, LegalPercent(p)
  PROVE  /\ DOMAIN RankedHands(p) = 1 .. Keep(p)
         /\ \A n \in 1 .. Keep(p) : RankedHands(p)[n] = RankTable[n] /\ n \in 1 .. Len(RankTable)
         /\ \A n \in 1 .. Len(RankTable) : n * Percent <= Len(RankTable) * p <=> n \in 1 .. Keep(p)
<1> DEFINE L == Len(RankTable)
           x == L * p
<1>1. RankTable \in Seq(Classes) /\ L \in Nat /\ p \in 1 .. 100
  BY TableAssumption, LenProperties DEF LegalPercent, Percent
<1>2. x \in Nat /\ x <= 100 * L
  <2> HIDE DEF L
  <2> QED BY <1>1
<1>3. Keep(p) = x \div 100 /\ Percent = 100
  BY DEF Keep, Percent
<1> HIDE DEF x
<1>4. Keep(p) \in 0 .. L
  <2> HIDE DEF L
  <2> QED BY <1>1, <1>2, <1>3
<1>5. \A n \in 1 .. L : n * 100 <= x <=> n <= Keep(p)
  <2> HIDE DEF L
  <2> QED BY <1>1, <1>2, <1>3
<1>6. \A i \in 1 .. Keep(p) : RankTable[i] \in Classes
  BY <1>1, <1>4
<1>7. /\ RankedHands(p) \in Seq(Classes) /\ Len(RankedHands(p)) = Keep(p)
      /\ \A i \in 1 .. Keep(p) : RankedHands(p)[i] = RankTable[i]
  <2> DEFINE k == Keep(p)
  <2>1. k \in Int /\ 1 \in Int
    BY <1>4
  <2>2. /\ SubSeq(RankTable, 1, k) \in Seq(Classes)
        /\ Len(SubSeq(RankTable, 1, k)) = IF 1 <= k THEN k - 1 + 1 ELSE 0
        /\ \A i \in 1 .. k - 1 + 1 : SubSeq(RankTable, 1, k)[i] = RankTable[1 + i - 1]
    <3> HIDE DEF k
    <3> QED BY <1>6, <2>1, SubSeqProperties DEF k
  <2>3. RankedHands(p) = SubSeq(RankTable, 1, k)
    BY DEF RankedHands
  <2>4. k \in Nat
    BY <1>4
  <2> HIDE DEF k
  <2>5. (IF 1 <= k THEN k - 1 + 1 ELSE 0) = k /\ k - 1 + 1 = k /\ \A i \in 1 .. k : 1 + i - 1 = i
    BY <2>4
  <2> QED BY <2>2, <2>3, <2>5 DEF k
<1>8. DOMAIN RankedHands(p) = 1 .. Keep(p)
  BY <1>7, LenProperties
<1>9. \A n \in 1 .. Keep(p) : n \in 1 .. L
  BY <1>1, <1>4
<1>10. \A n \in 1 .. L : n \in 1 .. Keep(p) <=> n <= Keep(p)
  BY <1>4
<1> QED BY <1>3, <1>5, <1>7, <1>8, <1>9, <1>10 DEF x

(* A percentage gives the hands of the labels that fit into it.            *)
LEMMA TopMeansIt ==
  ASSUME NEW p, LegalPercent(p)
  PROVE  Meaning(TopCombos(p)) = TopMeans(p)
<1> DEFINE labels == RankedHands(p)
           masks == UNION {ClassMasks(labels[n]) : n \in DOMAIN labels}
           list == Ascending(masks, "holdem")
           fits(n) == n * Percent <= Len(RankTable) * p
           picked == {x \in TwoCards : \E n \in 1 .. Len(RankTable) : fits(n) /\ IsOf(Shape(x), RankTable[n])}
<1>1. \A n \in 1 .. Len(RankTable) : RankTable[n] \in Classes
  BY TableAssumption
<1>2. \A m : m \in masks <=> \E n \in DOMAIN labels : m \in ClassMasks(labels[n])
  <2> HIDE DEF labels
  <2> QED OBVIOUS
<1>3. \A m : m \in masks <=> \E n \in 1 .. Keep(p) : m \in ClassMasks(RankTable[n])
  BY <1>2, KeptLabels
<1>4. \A n \in 1 .. Keep(p) : \A m : m \in ClassMasks(RankTable[n]) <=> m \in TwoCards /\ IsOf(Shape(m), RankTable[n])
  BY <1>1, KeptLabels, ClassMasksAre
<1>5. \A m : m \in masks <=> m \in picked
  <2> HIDE DEF masks
  <2>1. \A n \in 1 .. Len(RankTable) : fits(n) <=> n \in 1 .. Keep(p)
    BY KeptLabels
  <2>2. \A n \in 1 .. Keep(p) : n \in 1 .. Len(RankTable)
    BY KeptLabels
  <2> HIDE DEF fits
  <2> QED BY <1>3, <1>4, <2>1, <2>2
<1>6. TopCombos(p) = AtWeight(list, Full)
  BY DEF TopCombos
<1>7. TopMeans(p) = {<<m, Full>> : m \in picked}
  <2>1. \A x, n : /\ Shape(x).hi = RankTable[n].hi /\ Shape(x).lo = RankTable[n].lo
                  /\ RankTable[n].type \in {"", Shape(x).type}
                  <=> IsOf(Shape(x), RankTable[n])
    BY DEF IsOf
  <2>2. picked = {x \in TwoCards : \E n \in 1 .. Len(RankTable) :
                    /\ n * Percent <= Len(RankTable) * p
                    /\ Shape(x).hi = RankTable[n].hi /\ Shape(x).lo = RankTable[n].lo
                    /\ RankTable[n].type \in {"", Shape(x).type}}
    BY <2>1
  <2> HIDE DEF picked
  <2> QED BY <2>2 DEF TopMeans
<1>8. /\ list \in Seq(SUBSET Deck)
      /\ \A m : m \in Entries(list) <=> m \in masks /\ m \in HandsOf("holdem")
  <2> HIDE DEF masks
  <2> QED BY AscendingIs
<1>9. HandsOf("holdem") = TwoCards
  BY DEF HandsOf
<1>10. Full \in Int
  BY CombosAssumption
<1> HIDE DEF list, masks
<1>11. \A m : m \in Entries(list) <=> m \in picked
  <2>1. \A m : m \in picked => m \in TwoCards
    OBVIOUS
  <2> HIDE DEF picked
  <2> QED BY <1>5, <1>8, <1>9, <2>1
<1>12. \A q : q \in Meaning(AtWeight(list, Full)) <=> \E m \in Entries(list) : q = <<m, Full>>
  BY <1>8, <1>10, WeightedMeans
<1> HIDE DEF picked
<1> QED BY <1>6, <1>7, <1>11, <1>12

(* They are hands of two cards.                                            *)
LEMMA TopsAreHands ==
  ASSUME NEW p
  PROVE  \A q \in TopMeans(p) : q[1] \in TwoCards
<1> DEFINE fits(x, n) == /\ n * Percent <= Len(RankTable) * p
                         /\ LET s == Shape(x)
                            IN  /\ s.hi = RankTable[n].hi /\ s.lo = RankTable[n].lo
                                /\ RankTable[n].type \in {"", s.type}
           picked == {x \in TwoCards : \E n \in 1 .. Len(RankTable) : fits(x, n)}
<1>1. TopMeans(p) = {<<m, Full>> : m \in picked}
  BY DEF TopMeans
<1>2. picked \subseteq TwoCards
  <2> HIDE DEF fits
  <2> QED OBVIOUS
<1> HIDE DEF picked
<1> QED BY <1>1, <1>2

(* All the hands of a game.                                                *)
LEMMA AllMeansIt ==
  ASSUME NEW game
  PROVE  Meaning(AllCombos(game)) = {<<m, Full>> : m \in HandsOf(game)}
<1> DEFINE list == IF game = "plo" THEN PloMasks ELSE AllHoldem
<1>1. AllCombos(game) = AtWeight(list, Full)
  BY DEF AllCombos
<1>2. list \in Seq(SUBSET Deck) /\ \A m : m \in Entries(list) <=> m \in HandsOf(game)
  <2>1. CASE game = "plo"
    <3>1. PloMasks \in Seq(SUBSET Deck)
      BY InOrderAscends DEF PloMasks
    <3>2. \A m : m \in Entries(PloMasks) <=> m \in SUBSET Deck /\ Cardinality(m) = 4
      BY InOrderGives DEF PloMasks
    <3>3. list = PloMasks /\ HandsOf(game) = FourCards
      BY <2>1 DEF HandsOf
    <3> QED BY <3>1, <3>2, <3>3, FourCardsAre
  <2>2. CASE game # "plo"
    BY <2>2, AllHoldemAre, AllHoldemTyped DEF HandsOf
  <2> QED BY <2>1, <2>2
<1>3. Full \in Int
  BY CombosAssumption
<1> HIDE DEF list
<1>4. \A q : q \in Meaning(AtWeight(list, Full)) <=> \E m \in Entries(list) : q = <<m, Full>>
  BY <1>2, <1>3, WeightedMeans
<1> QED BY <1>1, <1>2, <1>4

(* What a set of weighted hands of a game is.                              *)
OfGame(set, game) == \A p \in set : Cardinality(p[1]) = CardsPerHand(game)

(* What the texts mean is hands of their game.                             *)
LEMMA TextsOfGame ==
  /\ \A text : OfGame(HoldemTextMeans(text), "holdem")
  /\ \A text \in Seq(Items) : ParsePlo(text).ok => OfGame(PloTextMeans(text), "plo")
<1>1. \A m \in TwoCards : Cardinality(m) = CardsPerHand("holdem")
  BY TwoCardsAre DEF CardsPerHand
<1>2. \A m \in FourCards : Cardinality(m) = CardsPerHand("plo")
  BY FourCardsAre DEF CardsPerHand
<1>3. ASSUME NEW text PROVE OfGame(HoldemTextMeans(text), "holdem")
  <2>1. \A p \in HoldemTextMeans(text) : p[1] \in TwoCards
    BY DEF HoldemTextMeans
  <2> QED BY <1>1, <2>1 DEF OfGame
<1>4. ASSUME NEW text \in Seq(Items), ParsePlo(text).ok PROVE OfGame(PloTextMeans(text), "plo")
  <2>1. \A i \in DOMAIN text : text[i] \in Items /\ ItemStands(text[i])
    <3> DEFINE stands == text # << >> /\ \A i \in DOMAIN text : ItemStands(text[i])
    <3>1. ~stands => ~ParsePlo(text).ok
      BY DEF ParsePlo, Malformed
    <3> QED BY <1>4, <3>1
  <2>2. \A i \in DOMAIN text : ItemMeans(text[i]) \subseteq FourCards
    BY <2>1, ItemMasksAre
  <2>3. ASSUME NEW p \in PloTextMeans(text) PROVE p[1] \in FourCards
    <3>1. PICK i \in DOMAIN text : p \in {<<h, text[i].weight>> : h \in ItemMeans(text[i])}
      BY <2>3 DEF PloTextMeans
    <3>2. PICK h \in ItemMeans(text[i]) : p = <<h, text[i].weight>>
      BY <3>1
    <3>3. p[1] = h
      BY <3>2
    <3> QED BY <2>2, <3>2, <3>3
  <2> QED BY <1>2, <2>3 DEF OfGame
<1> QED BY <1>3, <1>4

(* Every source gives what it should: the set its notation, its percentage *)
(* or its arguments say, of hands of its game.                             *)
LEMMA SourcesMeanIt ==
  ASSUME NEW c \in Sources, Made(c).ok
  PROVE  /\ Made(c).combos \in ComboLists
         /\ Meaning(Made(c).combos) = SourceMeans(c).set
         /\ RightSizes(Made(c).combos, GameMade(c))
<1> DEFINE game == GameOf(c)
           list == Made(c).combos
           set == SourceMeans(c).set
<1>1. /\ c \in SourceCalls
      /\ IF c.game = "plo" THEN c.op # "try" /\ c.text \in Seq(Items) ELSE c.text \in Seq(Tokens)
  BY StoreAssumption
<1>2. c.op \in {"empty", "combos", "string", "try", "all", "top"} /\ c.combos \in ComboLists
  BY <1>1 DEF SourceCalls
<1>3. game = "plo" <=> c.game = "plo"
  BY DEF GameOf
<1>4. Malformed.ok = FALSE /\ \A s : Parsed(s).combos = s
  BY DEF Malformed, Parsed
<1>5. list \in ComboLists
  BY MadeWell
<1>6. GameMade(c) = IF c.op \in {"empty", "try"} THEN "holdem" ELSE game
  BY DEF GameMade
<1>7. set = CASE c.op = "empty"  -> {}
              [] c.op = "combos" -> Meaning(c.combos)
              [] c.op = "top"    -> TopMeans(c.percent)
              [] c.op = "all"    -> {<<m, Full>> : m \in HandsOf(GameMade(c))}
              [] OTHER           -> IF GameMade(c) = "plo" THEN PloTextMeans(c.text) ELSE HoldemTextMeans(c.text)
  BY DEF SourceMeans
<1>8. RightSizes(list, GameMade(c)) <=> OfGame(Meaning(list), GameMade(c))
  BY <1>5, SizesAre DEF OfGame
<1>9. SUFFICES Meaning(list) = set /\ OfGame(Meaning(list), GameMade(c))
  BY <1>5, <1>8
<1> HIDE DEF game, list, set
<1>10. CASE c.op = "empty"
  <2>1. list = << >>
    BY <1>10, <1>4 DEF Made, list
  <2> QED BY <1>7, <1>10, <2>1, NoCombo DEF OfGame
<1>11. CASE c.op = "try"
  <2>1. Made(c) = ParseHoldem(c.text) /\ c.text \in Seq(Tokens)
    BY <1>1, <1>4, <1>11 DEF Made
  <2>2. Meaning(list) = HoldemTextMeans(c.text)
    BY <2>1, HoldemMeansItsText DEF list
  <2>3. GameMade(c) = "holdem"
    BY <1>6, <1>11
  <2>4. set = HoldemTextMeans(c.text)
    BY <1>7, <1>11, <2>3
  <2> QED BY <2>2, <2>3, <2>4, TextsOfGame
<1>12. CASE c.op \notin {"empty", "try"}
  <2>1. Made(c) = CASE c.op = "combos" -> IF RightSizes(c.combos, game) THEN Parsed(c.combos) ELSE Malformed
                    [] c.op = "string" -> FromString(c.text, game)
                    [] c.op = "all"    -> Parsed(AllCombos(game))
                    [] c.op = "top"    -> IF game = "holdem" /\ LegalPercent(c.percent)
                                          THEN Parsed(TopCombos(c.percent)) ELSE Malformed
    BY <1>4, <1>12 DEF Made, game
  <2>2. GameMade(c) = game
    BY <1>6, <1>12
  <2>3. game \in {"holdem", "plo"}
    BY <1>4, <1>12 DEF Made, game
  <2>4. CASE c.op = "combos"
    <3>1. RightSizes(c.combos, game) /\ list = c.combos
      BY <1>4, <2>1, <2>4 DEF list
    <3>2. OfGame(Meaning(c.combos), game)
      BY <1>2, <3>1, SizesAre DEF OfGame
    <3>3. set = Meaning(c.combos)
      BY <1>7, <2>4
    <3> QED BY <2>2, <3>1, <3>2, <3>3
  <2>5. CASE c.op = "string"
    <3>1. Made(c) = FromString(c.text, game)
      BY <2>1, <2>5
    <3>2. CASE game = "plo"
      <4>1. Made(c) = ParsePlo(c.text) /\ c.text \in Seq(Items)
        BY <1>1, <1>3, <3>1, <3>2 DEF FromString
      <4>2. Meaning(list) = PloTextMeans(c.text)
        BY <4>1, PloMeansItsText DEF list
      <4>3. set = PloTextMeans(c.text)
        BY <1>7, <2>2, <2>5, <3>2
      <4> QED BY <2>2, <3>2, <4>1, <4>2, <4>3, TextsOfGame
    <3>3. CASE game = "holdem"
      <4>1. Made(c) = ParseHoldem(c.text) /\ c.text \in Seq(Tokens)
        BY <1>1, <1>3, <3>1, <3>3 DEF FromString
      <4>2. Meaning(list) = HoldemTextMeans(c.text)
        BY <4>1, HoldemMeansItsText DEF list
      <4>3. set = HoldemTextMeans(c.text)
        BY <1>7, <2>2, <2>5, <3>3
      <4> QED BY <2>2, <3>3, <4>2, <4>3, TextsOfGame
    <3> QED BY <2>3, <3>2, <3>3
  <2>6. CASE c.op = "all"
    <3>1. list = AllCombos(game)
      BY <1>4, <2>1, <2>6 DEF list
    <3>2. Meaning(list) = {<<m, Full>> : m \in HandsOf(game)}
      BY <3>1, AllMeansIt
    <3>3. set = {<<m, Full>> : m \in HandsOf(game)}
      BY <1>7, <2>2, <2>6
    <3>4. \A m \in HandsOf(game) : Cardinality(m) = CardsPerHand(game)
      BY HandsAre
    <3>5. \A p \in Meaning(list) : \E m \in HandsOf(game) : p = <<m, Full>>
      BY <3>2
    <3> QED BY <2>2, <3>2, <3>3, <3>4, <3>5 DEF OfGame
  <2>7. CASE c.op = "top"
    <3>1. game = "holdem" /\ LegalPercent(c.percent) /\ list = TopCombos(c.percent)
      BY <1>4, <2>1, <2>7 DEF list
    <3>2. Meaning(list) = TopMeans(c.percent)
      BY <3>1, TopMeansIt
    <3>3. set = TopMeans(c.percent)
      BY <1>7, <2>7
    <3>4. \A p \in TopMeans(c.percent) : p[1] \in TwoCards
      BY TopsAreHands
    <3>5. \A m \in TwoCards : Cardinality(m) = CardsPerHand("holdem")
      BY TwoCardsAre DEF CardsPerHand
    <3> QED BY <2>2, <3>1, <3>2, <3>3, <3>4, <3>5 DEF OfGame
  <2> QED BY <1>2, <1>12, <2>4, <2>5, <2>6, <2>7
<1> QED BY <1>10, <1>11, <1>12

-----------------------------------------------------------------------------
(* Reading a range.                                                        *)

(* The recursion of ValidCombos.                                           *)
HalfStates(combos) == (1 .. Len(combos) + 1) \X (0 .. Len(combos))
Half(lo, hi) == (lo + hi) \div 2
Halve(f, combos, dead, lo, hi) ==
  IF lo > hi THEN << >>
  ELSE IF lo = hi THEN IF combos[lo].mask \intersect dead = {} THEN <<combos[lo]>> ELSE << >>
  ELSE f[<<lo, Half(lo, hi)>>] \o f[<<Half(lo, hi) + 1, hi>>]
IsHalves(f, combos, dead) ==
  f = [x \in HalfStates(combos) |-> Halve(f, combos, dead, x[1], x[2])]
Wide(lo, hi) == IF lo > hi THEN 0 ELSE hi - lo + 1

(* Both halves of an interval are shorter than it.                         *)
LEMMA HalvesAreShorter ==
  ASSUME NEW n \in Nat, NEW lo \in 1 .. n + 1, NEW hi \in 0 .. n
  PROVE  /\ Wide(lo, hi) \in 0 .. n
         /\ lo < hi => /\ Half(lo, hi) \in lo .. hi - 1
                       /\ Half(lo, hi) \in 0 .. n /\ Half(lo, hi) + 1 \in 1 .. n + 1
                       /\ Wide(lo, Half(lo, hi)) < Wide(lo, hi)
                       /\ Wide(Half(lo, hi) + 1, hi) < Wide(lo, hi)
<1>1. Wide(lo, hi) \in 0 .. n
  BY DEF Wide
<1>2. ASSUME lo < hi PROVE Half(lo, hi) \in lo .. hi - 1
  BY <1>2 DEF Half
<1>3. ASSUME NEW m \in lo .. hi - 1, lo < hi
      PROVE  m \in 0 .. n /\ m + 1 \in 1 .. n + 1 /\ Wide(lo, m) < Wide(lo, hi) /\ Wide(m + 1, hi) < Wide(lo, hi)
  BY <1>3 DEF Wide
<1> QED BY <1>1, <1>2, <1>3

(* A function with that recursion exists.                                  *)
LEMMA HalvesExist ==
  ASSUME NEW combos \in ComboLists, NEW dead
  PROVE  \E f : IsHalves(f, combos, dead)
<1> DEFINE n == Len(combos)
           S == HalfStates(combos)
           D == ComboLists
           mu == [x \in S |-> Wide(x[1], x[2])]
           body(x, h) == Halve(h, combos, dead, x[1], x[2])
           F == [x \in S |-> [h \in [S -> D] |-> body(x, h)]]
<1>1. n \in Nat
  BY Lists, LenProperties
<1>2. \A x \in S : x[1] \in 1 .. n + 1 /\ x[2] \in 0 .. n /\ mu[x] = Wide(x[1], x[2])
  BY DEF HalfStates
<1>3. \A i \in 1 .. n + 1 : \A j \in 0 .. n : <<i, j>> \in S /\ mu[<<i, j>>] = Wide(i, j)
  BY DEF HalfStates
<1> HIDE DEF mu
<1>4. ASSUME NEW x \in S, NEW h \in [S -> D]
      PROVE  body(x, h) \in D
  <2> DEFINE lo == x[1]
             hi == x[2]
             mid == Half(lo, hi)
  <2>1. lo \in 1 .. n + 1 /\ hi \in 0 .. n
    BY <1>2
  <2> HIDE DEF lo, hi
  <2>2. CASE lo > hi
    <3>1. Halve(h, combos, dead, lo, hi) = << >>
      BY <2>2 DEF Halve
    <3> QED BY <3>1, NoCombo DEF lo, hi
  <2>3. CASE lo = hi
    <3>1. Halve(h, combos, dead, lo, hi) \in {<<combos[lo]>>, << >>}
      BY <2>1, <2>3 DEF Halve
    <3>2. lo \in 1 .. Len(combos)
      BY <1>1, <2>1, <2>3
    <3>3. <<combos[lo]>> \in ComboLists
      BY <3>2, EntryIs, OneCombo
    <3> QED BY <3>1, <3>3, NoCombo DEF lo, hi
  <2>4. CASE lo < hi
    <3>0. ~(lo > hi) /\ ~(lo = hi)
      BY <1>1, <2>1, <2>4
    <3>1. Halve(h, combos, dead, lo, hi) = h[<<lo, mid>>] \o h[<<mid + 1, hi>>]
      BY <3>0 DEF Halve
    <3>2. mid \in 0 .. n /\ mid + 1 \in 1 .. n + 1
      BY <1>1, <2>1, <2>4, HalvesAreShorter
    <3>3. <<lo, mid>> \in S /\ <<mid + 1, hi>> \in S
      BY <1>3, <2>1, <3>2
    <3>4. h[<<lo, mid>>] \in D /\ h[<<mid + 1, hi>>] \in D
      <4> HIDE DEF S, D, mid
      <4> QED BY <3>3
    <3> HIDE DEF mid
    <3> QED BY <3>1, <3>4, Joined DEF lo, hi
  <2> QED BY <1>1, <2>1, <2>2, <2>3, <2>4
<1>5. Bodies(F, S, D)
  <2>1. D # {}
    BY NoCombo
  <2>2. F \in [S -> [[S -> D] -> D]]
    <3> HIDE DEF S, D, body
    <3> QED BY <1>4
  <2> HIDE DEF F, S, D
  <2> QED BY <2>1, <2>2 DEF Bodies
<1>6. Measures(mu, S, n)
  <2>1. \A x \in S : mu[x] \in 0 .. n
    <3> TAKE x \in S
    <3>1. x[1] \in 1 .. n + 1 /\ x[2] \in 0 .. n /\ mu[x] = Wide(x[1], x[2])
      BY <1>2
    <3>2. \A i \in 1 .. n + 1 : \A j \in 0 .. n : Wide(i, j) \in 0 .. n
      BY <1>1, HalvesAreShorter
    <3> HIDE DEF S, n
    <3> QED BY <3>1, <3>2
  <2> HIDE DEF S, n
  <2> QED BY <1>1, <2>1 DEF Measures
<1>7. LooksDown(F, S, D, mu)
  <2> SUFFICES ASSUME NEW x \in S, NEW h \in [S -> D], NEW g \in [S -> D],
                      \A y \in S : mu[y] < mu[x] => h[y] = g[y]
               PROVE  F[x][h] = F[x][g]
    <3> HIDE DEF F, S, D
    <3> QED BY DEF LooksDown
  <2> DEFINE lo == x[1]
             hi == x[2]
             mid == Half(lo, hi)
  <2>1. lo \in 1 .. n + 1 /\ hi \in 0 .. n /\ mu[x] = Wide(lo, hi)
    BY <1>2
  <2> HIDE DEF lo, hi
  <2>2. Halve(h, combos, dead, lo, hi) = Halve(g, combos, dead, lo, hi)
    <3>1. CASE ~(lo < hi)
      <4>1. lo > hi \/ lo = hi
        BY <1>1, <2>1, <3>1
      <4> QED BY <4>1 DEF Halve
    <3>2. CASE lo < hi
      <4>1. /\ mid \in 0 .. n /\ mid + 1 \in 1 .. n + 1
            /\ Wide(lo, mid) < Wide(lo, hi) /\ Wide(mid + 1, hi) < Wide(lo, hi)
        BY <1>1, <2>1, <3>2, HalvesAreShorter
      <4> HIDE DEF mid
      <4>2. /\ <<lo, mid>> \in S /\ mu[<<lo, mid>>] < mu[x]
            /\ <<mid + 1, hi>> \in S /\ mu[<<mid + 1, hi>>] < mu[x]
        BY <1>3, <2>1, <4>1
      <4>3. h[<<lo, mid>>] = g[<<lo, mid>>] /\ h[<<mid + 1, hi>>] = g[<<mid + 1, hi>>]
        BY <4>2
      <4> QED BY <4>3 DEF Halve, mid
    <3> QED BY <3>1, <3>2
  <2>3. body(x, h) = body(x, g)
    BY <2>2 DEF lo, hi
  <2> HIDE DEF S, D, body
  <2> QED BY <2>3
<1>8. \E f : Obeys(f, F, S, D)
  <2> HIDE DEF F, S, D, n
  <2> QED BY <1>5, <1>6, <1>7, BoundedRecursion
<1>9. PICK f : Obeys(f, F, S, D)
  BY <1>8
<1>10. f \in [S -> D] /\ \A x \in S : f[x] = body(x, f)
  <2> HIDE DEF S, D, body
  <2> QED BY <1>9 DEF Obeys
<1>11. f = [x \in S |-> body(x, f)]
  <2> HIDE DEF S, D, body
  <2> QED BY <1>10
<1> QED BY <1>11 DEF IsHalves

(* The positions from lo to hi of combos without a dead card, and a list   *)
(* of exactly their combos.                                                *)
LiveIn(combos, dead, lo, hi) == {i \in lo .. hi : combos[i].mask \intersect dead = {}}
Selects(s, combos, dead, lo, hi) ==
  /\ s \in ComboLists
  /\ \A p : p \in Meaning(s) <=> \E i \in LiveIn(combos, dead, lo, hi) : p = Pair(combos[i])
  /\ Len(s) = Cardinality(LiveIn(combos, dead, lo, hi))

(* Nothing and one combo.                                                  *)
LEMMA SelectsFew ==
  ASSUME NEW combos \in ComboLists, NEW dead, NEW f, NEW lo \in 1 .. Len(combos) + 1, NEW hi \in 0 .. Len(combos),
         ~(lo < hi)
  PROVE  Selects(Halve(f, combos, dead, lo, hi), combos, dead, lo, hi)
<1> DEFINE none == combos[lo].mask \intersect dead = {}
           live == LiveIn(combos, dead, lo, hi)
           s == Halve(f, combos, dead, lo, hi)
<1>1. Len(combos) \in Nat
  BY Lists, LenProperties
<1>2. lo > hi \/ lo = hi
  BY <1>1
<1>3. Cardinality({}) = 0 /\ Cardinality({lo}) = 1
  BY FS_EmptySet, FS_Singleton
<1>4. CASE lo > hi \/ (lo = hi /\ ~none)
  <2>1. s = << >>
    BY <1>1, <1>4 DEF Halve
  <2>2. live = {}
    BY <1>1, <1>4 DEF LiveIn
  <2> HIDE DEF s, live
  <2> QED BY <1>3, <2>1, <2>2, NoCombo DEF Selects, s, live
<1>5. CASE lo = hi /\ none
  <2> DEFINE c == combos[lo]
  <2>1. s = <<c>>
    BY <1>1, <1>5 DEF Halve
  <2>2. live = {lo}
    BY <1>1, <1>5 DEF LiveIn
  <2>3. lo \in 1 .. Len(combos)
    BY <1>1, <1>5
  <2>4. c \in Weighted
    BY <2>3, EntryIs
  <2> HIDE DEF c
  <2>5. <<c>> \in ComboLists /\ Len(<<c>>) = 1 /\ Meaning(<<c>>) = {Pair(c)}
    BY <2>4, OneCombo
  <2> HIDE DEF s, live
  <2>6. \A p : p \in Meaning(s) <=> \E i \in live : p = Pair(combos[i])
    BY <2>1, <2>2, <2>5 DEF c
  <2> QED BY <1>3, <2>1, <2>2, <2>5, <2>6 DEF Selects, s, live
<1> QED BY <1>2, <1>4, <1>5

(* Two halves.                                                             *)
LEMMA SelectsHalves ==
  ASSUME NEW combos \in ComboLists, NEW dead, NEW lo \in Nat, NEW hi \in Nat, NEW mid \in lo .. hi - 1,
         NEW s, NEW t, Selects(s, combos, dead, lo, mid), Selects(t, combos, dead, mid + 1, hi)
  PROVE  Selects(s \o t, combos, dead, lo, hi)
<1> DEFINE A == LiveIn(combos, dead, lo, mid)
           B == LiveIn(combos, dead, mid + 1, hi)
           C == LiveIn(combos, dead, lo, hi)
<1>1. s \in ComboLists /\ t \in ComboLists /\ Len(s) = Cardinality(A) /\ Len(t) = Cardinality(B)
  BY DEF Selects
<1>2. C = A \union B /\ A \intersect B = {}
  BY DEF LiveIn
<1>3. IsFiniteSet(A) /\ IsFiniteSet(B)
  <2>1. lo \in Int /\ mid \in Int /\ mid + 1 \in Int /\ hi \in Int
    OBVIOUS
  <2>2. IsFiniteSet(lo .. mid) /\ IsFiniteSet(mid + 1 .. hi)
    BY <2>1, FS_Interval
  <2>3. A \subseteq lo .. mid /\ B \subseteq mid + 1 .. hi
    BY DEF LiveIn
  <2> HIDE DEF A, B
  <2> QED BY <2>2, <2>3, FS_Subset
<1>4. /\ \A p : p \in Meaning(s) <=> \E i \in A : p = Pair(combos[i])
      /\ \A p : p \in Meaning(t) <=> \E i \in B : p = Pair(combos[i])
  BY DEF Selects
<1> HIDE DEF A, B, C
<1>5. Cardinality(C) = Cardinality(A) + Cardinality(B)
  <2>1. Cardinality({}) = 0
    BY FS_EmptySet
  <2>2. Cardinality(A) \in Nat /\ Cardinality(B) \in Nat
    BY <1>3, FS_CardinalityType
  <2>3. Cardinality(A \union B) = Cardinality(A) + Cardinality(B) - Cardinality(A \intersect B)
    BY <1>3, FS_Union
  <2>4. Cardinality(C) = Cardinality(A \union B) /\ Cardinality(A \intersect B) = 0
    BY <1>2, <2>1
  <2> QED BY <2>2, <2>3, <2>4
<1>6. s \o t \in ComboLists /\ Len(s \o t) = Cardinality(C)
  <2>1. s \o t \in ComboLists /\ Len(s \o t) = Len(s) + Len(t)
    BY <1>1, Joined
  <2> QED BY <1>1, <1>5, <2>1
<1>7. Meaning(s \o t) = Meaning(s) \union Meaning(t)
  BY <1>1, JoinedMeans
<1>8. \A p : p \in Meaning(s \o t) <=> \E i \in C : p = Pair(combos[i])
  BY <1>2, <1>4, <1>7
<1> QED BY <1>6, <1>8 DEF Selects, C

(* What is left of a list when the combos with a dead card are gone.       *)
LEMMA ValidSelects ==
  ASSUME NEW combos \in ComboLists, NEW dead
  PROVE  Selects(ValidCombos(combos, dead), combos, dead, 1, Len(combos))
<1> DEFINE n == Len(combos)
           f == CHOOSE g : IsHalves(g, combos, dead)
           Right(i, j) == Selects(f[<<i, j>>], combos, dead, i, j)
           Wrong == {k \in 0 .. n : \E i \in 1 .. n + 1 : \E j \in 0 .. n : Wide(i, j) = k /\ ~Right(i, j)}
<1>1. n \in Nat
  BY Lists, LenProperties
<1>2. IsHalves(f, combos, dead)
  <2>1. \E g : IsHalves(g, combos, dead)
    BY HalvesExist
  <2> QED BY <2>1
<1>3. ValidCombos(combos, dead) = f[<<1, n>>]
  BY DEF ValidCombos, IsHalves, HalfStates, Halve, Half
<1> HIDE DEF f
<1>4. \A i \in 1 .. n + 1 : \A j \in 0 .. n : f[<<i, j>>] = Halve(f, combos, dead, i, j)
  <2> TAKE i \in 1 .. n + 1
  <2> TAKE j \in 0 .. n
  <2>1. <<i, j>> \in HalfStates(combos)
    BY DEF HalfStates
  <2>2. f[<<i, j>>] = Halve(f, combos, dead, <<i, j>>[1], <<i, j>>[2])
    BY <1>2, <2>1 DEF IsHalves
  <2> QED BY <2>2
<1>5. Wrong = {}
  <2> SUFFICES ASSUME Wrong # {} PROVE FALSE
    OBVIOUS
  <2>1. Wrong \subseteq Nat
    BY <1>1
  <2>2. PICK k \in Wrong : \A l \in Wrong : k <= l
    <3> HIDE DEF Wrong
    <3> QED BY <2>1, LeastNumber
  <2> HIDE DEF Right
  <2>3. PICK lo \in 1 .. n + 1, hi \in 0 .. n : Wide(lo, hi) = k /\ ~Right(lo, hi)
    BY <2>2
  <2>4. ASSUME NEW i \in 1 .. n + 1, NEW j \in 0 .. n, Wide(i, j) < Wide(lo, hi)
        PROVE  Right(i, j)
    <3>1. Wide(i, j) \in 0 .. n /\ k \in 0 .. n
      BY <1>1, <2>2, HalvesAreShorter
    <3>2. ~(k <= Wide(i, j))
      BY <2>3, <2>4, <3>1
    <3>3. Wide(i, j) \notin Wrong
      BY <2>2, <3>2
    <3> QED BY <3>1, <3>3
  <2>5. f[<<lo, hi>>] = Halve(f, combos, dead, lo, hi)
    BY <1>4
  <2>6. CASE ~(lo < hi)
    BY <2>3, <2>5, <2>6, SelectsFew DEF Right
  <2>7. CASE lo < hi
    <3> DEFINE mid == Half(lo, hi)
    <3>1. /\ mid \in lo .. hi - 1 /\ mid \in 0 .. n /\ mid + 1 \in 1 .. n + 1
          /\ Wide(lo, mid) < Wide(lo, hi) /\ Wide(mid + 1, hi) < Wide(lo, hi)
      BY <1>1, <2>7, HalvesAreShorter
    <3>2. Right(lo, mid) /\ Right(mid + 1, hi)
      <4> HIDE DEF mid
      <4> QED BY <2>4, <3>1
    <3>3. f[<<lo, hi>>] = f[<<lo, mid>>] \o f[<<mid + 1, hi>>]
      <4>1. ~(lo > hi) /\ ~(lo = hi)
        BY <1>1, <2>7
      <4> QED BY <2>5, <4>1 DEF Halve
    <3>4. lo \in Nat /\ hi \in Nat
      BY <1>1
    <3> HIDE DEF mid
    <3>5. Selects(f[<<lo, mid>>] \o f[<<mid + 1, hi>>], combos, dead, lo, hi)
      BY <3>1, <3>2, <3>4, SelectsHalves DEF Right
    <3> QED BY <2>3, <3>3, <3>5 DEF Right
  <2> QED BY <2>6, <2>7
<1>6. Right(1, n)
  <2>1. 1 \in 1 .. n + 1 /\ n \in 0 .. n /\ Wide(1, n) \in 0 .. n
    BY <1>1, HalvesAreShorter
  <2> HIDE DEF Right
  <2> QED BY <1>5, <2>1
<1> QED BY <1>3, <1>6

(* What is left of a list means what the list means less the combos with a *)
(* dead card, and repeats nothing when the list does not.                  *)
LEMMA ValidMeansIt ==
  ASSUME NEW combos \in ComboLists, NEW dead
  PROVE  /\ ValidCombos(combos, dead) \in ComboLists
         /\ Meaning(ValidCombos(combos, dead)) = {p \in Meaning(combos) : p[1] \intersect dead = {}}
         /\ NoRepeats(combos) => NoRepeats(ValidCombos(combos, dead))
<1> DEFINE n == Len(combos)
           v == ValidCombos(combos, dead)
           live == LiveIn(combos, dead, 1, n)
<1>1. n \in Nat
  BY Lists, LenProperties
<1>2. v \in ComboLists /\ Len(v) = Cardinality(live)
  BY ValidSelects DEF Selects
<1>3. \A p : p \in Meaning(v) <=> \E i \in live : p = Pair(combos[i])
  BY ValidSelects DEF Selects
<1>4. \A i : i \in live <=> i \in 1 .. n /\ combos[i].mask \intersect dead = {}
  BY DEF LiveIn
<1> HIDE DEF v, live
<1>5. \A p : p \in Meaning(combos) <=> \E i \in 1 .. n : p = Pair(combos[i])
  BY MeaningIs
<1>6. \A c : Pair(c)[1] = c.mask
  BY DEF Pair
<1>7. Meaning(v) = {p \in Meaning(combos) : p[1] \intersect dead = {}}
  <2>1. \A p : p \in Meaning(v) <=> p \in Meaning(combos) /\ p[1] \intersect dead = {}
    <3> SUFFICES ASSUME NEW p PROVE p \in Meaning(v) <=> p \in Meaning(combos) /\ p[1] \intersect dead = {}
      OBVIOUS
    <3>1. ASSUME p \in Meaning(v) PROVE p \in Meaning(combos) /\ p[1] \intersect dead = {}
      <4>1. PICK i \in live : p = Pair(combos[i])
        BY <1>3, <3>1
      <4> QED BY <1>4, <1>5, <1>6, <4>1
    <3>2. ASSUME p \in Meaning(combos), p[1] \intersect dead = {} PROVE p \in Meaning(v)
      <4>1. PICK i \in 1 .. n : p = Pair(combos[i])
        BY <1>5, <3>2
      <4>2. i \in live
        BY <1>4, <1>6, <3>2, <4>1
      <4> QED BY <1>3, <4>1, <4>2
    <3> QED BY <3>1, <3>2
  <2> QED BY <2>1
<1>8. ASSUME NoRepeats(combos) PROVE NoRepeats(v)
  <2> DEFINE f == [i \in live |-> combos[i].mask]
  <2>1. \A m : m \in MaskSet(v) <=> \E i \in live : m = combos[i].mask
    <3>1. \A m : m \in MaskSet(v) <=> \E p \in Meaning(v) : m = p[1]
      <4>1. \A p : p \in Meaning(v) <=> \E i \in 1 .. Len(v) : p = Pair(v[i])
        BY <1>2, MeaningIs
      <4>2. DOMAIN v = 1 .. Len(v)
        BY <1>2, Lists, LenProperties
      <4>3. \A m : m \in MaskSet(v) <=> \E i \in 1 .. Len(v) : m = v[i].mask
        BY <4>2 DEF MaskSet
      <4> QED BY <1>6, <4>1, <4>3
    <3> QED BY <1>3, <1>6, <3>1
  <2>2. \A i \in live : \A j \in live : combos[i].mask = combos[j].mask => i = j
    BY <1>4, <1>8, NoneTwice
  <2>3. IsFiniteSet(live)
    <3>1. n \in Int /\ 1 \in Int
      BY <1>1
    <3>2. IsFiniteSet(1 .. n)
      BY <3>1, FS_Interval
    <3>3. live \subseteq 1 .. n
      BY <1>4
    <3> QED BY <3>2, <3>3, FS_Subset
  <2>4. Corresponds(live, MaskSet(v), f)
    <3>1. \A i \in live : f[i] = combos[i].mask
      OBVIOUS
    <3> HIDE DEF f
    <3>2. \A i \in live : f[i] \in MaskSet(v)
      BY <2>1, <3>1
    <3>3. \A i, j \in live : f[i] = f[j] => i = j
      BY <2>2, <3>1
    <3>4. \A m \in MaskSet(v) : \E i \in live : f[i] = m
      BY <2>1, <3>1
    <3> QED BY <3>2, <3>3, <3>4 DEF Corresponds
  <2> HIDE DEF f
  <2>5. Cardinality(MaskSet(v)) = Cardinality(live)
    BY <2>3, <2>4, SameSize
  <2> QED BY <1>2, <2>5 DEF NoRepeats
<1> QED BY <1>2, <1>7, <1>8 DEF v

(* A list without repeats is as long as its meaning is large.              *)
LEMMA SizeOfMeaning ==
  ASSUME NEW s \in ComboLists, NoRepeats(s)
  PROVE  /\ Len(s) = Cardinality(Meaning(s))
         /\ IsFiniteSet(Meaning(s))
         /\ \A i, j \in 1 .. Len(s) : Pair(s[i]) = Pair(s[j]) => i = j
<1> DEFINE n == Len(s)
           f == [i \in 1 .. n |-> Pair(s[i])]
<1>1. n \in Nat
  BY Lists, LenProperties
<1>2. \A p : p \in Meaning(s) <=> \E i \in 1 .. n : p = Pair(s[i])
  BY MeaningIs
<1>3. \A i, j \in 1 .. n : Pair(s[i]) = Pair(s[j]) => i = j
  <2>1. \A c : Pair(c)[1] = c.mask
    BY DEF Pair
  <2>2. \A i, j \in 1 .. n : s[i].mask = s[j].mask => i = j
    BY NoneTwice
  <2> QED BY <2>1, <2>2
<1>4. IsFiniteSet(1 .. n) /\ Cardinality(1 .. n) = n
  <2>1. n \in Int /\ 1 \in Int
    BY <1>1
  <2> HIDE DEF n
  <2>2. IsFiniteSet(1 .. n) /\ Cardinality(1 .. n) = IF 1 > n THEN 0 ELSE n - 1 + 1
    BY <2>1, FS_Interval
  <2> QED BY <1>1, <2>2
<1>5. Corresponds(1 .. n, Meaning(s), f)
  <2>1. \A i \in 1 .. n : f[i] = Pair(s[i])
    OBVIOUS
  <2> HIDE DEF f
  <2>2. \A i \in 1 .. n : f[i] \in Meaning(s)
    BY <1>2, <2>1
  <2>3. \A i, j \in 1 .. n : f[i] = f[j] => i = j
    BY <1>3, <2>1
  <2>4. \A p \in Meaning(s) : \E i \in 1 .. n : f[i] = p
    BY <1>2, <2>1
  <2> QED BY <2>2, <2>3, <2>4 DEF Corresponds
<1> HIDE DEF f
<1>6. IsFiniteSet(Meaning(s)) /\ Cardinality(Meaning(s)) = Cardinality(1 .. n)
  BY <1>4, <1>5, SameSize
<1> QED BY <1>3, <1>4, <1>6

(* The library's sum of the second parts of pairs.                         *)
IsPairSum(g, S) ==
  g = [s \in SUBSET S |-> IF s = {} THEN 0 ELSE Some(s)[2] + g[s \ {Some(s)}]]

(* It is the sum the lemmas on sums are about.                             *)
LEMMA SumOfSeconds ==
  ASSUME NEW S, IsFiniteSet(S), \A p \in S : p[2] \in Int
  PROVE  MapThenSumSet(LAMBDA p : p[2], S) = SumOn([p \in S |-> p[2]], S)
<1> DEFINE f == [p \in S |-> p[2]]
           c == CHOOSE g : IsPairSum(g, S)
           d == CHOOSE g : IsSum(g, f, S)
<1>1. MapThenSumSet(LAMBDA p : p[2], S) = c[S]
  BY DEF MapThenSumSet, MapThenFoldSet, IsPairSum, Some
<1>2. SumOn(f, S) = d[S]
  BY DEF SumOn
<1>3. \A s \in SUBSET S : s # {} => Some(s) \in S /\ f[Some(s)] = Some(s)[2]
  <2> TAKE s \in SUBSET S
  <2>1. ASSUME s # {} PROVE Some(s) \in s
    BY <2>1 DEF Some
  <2>2. \A p \in S : f[p] = p[2]
    OBVIOUS
  <2> HIDE DEF f
  <2> QED BY <2>1, <2>2
<1>4. \A x \in S : f[x] \in Int
  OBVIOUS
<1> HIDE DEF f
<1>5. ASSUME NEW g PROVE IsPairSum(g, S) <=> IsSum(g, f, S)
  <2>1. [s \in SUBSET S |-> IF s = {} THEN 0 ELSE Some(s)[2] + g[s \ {Some(s)}]]
          = [s \in SUBSET S |-> IF s = {} THEN 0 ELSE f[Some(s)] + g[s \ {Some(s)}]]
    BY <1>3
  <2> QED BY <2>1 DEF IsPairSum, IsSum
<1>6. \E g : IsSum(g, f, S)
  BY <1>4, SumExists
<1>7. IsSum(c, f, S) /\ IsSum(d, f, S)
  <2>1. \E g : IsPairSum(g, S)
    BY <1>5, <1>6
  <2>2. IsPairSum(c, S)
    BY <2>1
  <2>3. IsSum(d, f, S)
    BY <1>6
  <2> QED BY <1>5, <2>2, <2>3
<1> HIDE DEF c, d
<1>8. c[S] = d[S]
  BY <1>7, OneSum
<1> QED BY <1>1, <1>2, <1>8 DEF f

(* The total weight of a list without repeats is that of what it means.    *)
LEMMA WeighsItsMeaning ==
  ASSUME NEW s \in ComboLists, NoRepeats(s)
  PROVE  TotalWeight(s) = MapThenSumSet(LAMBDA p : p[2], Meaning(s))
<1> DEFINE n == Len(s)
           S == Meaning(s)
           f == [p \in S |-> p[2]]
           step == [i \in 1 .. n |-> [x \in Int |-> x + s[i].weight]]
           IsTotal(g) == g = [i \in 0 .. n |-> IF i = 0 THEN 0 ELSE g[i - 1] + s[i].weight]
           total == CHOOSE g : IsTotal(g)
           upto(i) == {Pair(s[k]) : k \in 1 .. i}
<1>1. n \in Nat
  BY Lists, LenProperties
<1>2. \A i \in 1 .. n : s[i].weight \in Int
  BY EntryIs
<1>3. \E g : IsTotal(g)
  <2>1. step \in [1 .. n -> [Int -> Int]]
    <3> HIDE DEF n
    <3> QED BY <1>2
  <2>2. PICK g : Solves(g, n, Int, 0, step)
    <3>1. 0 \in Int
      OBVIOUS
    <3> HIDE DEF step, n
    <3> QED BY <1>1, <2>1, <3>1, Recursion
  <2>3. g \in [0 .. n -> Int] /\ g[0] = 0 /\ \A i \in 1 .. n : g[i] = step[i][g[i - 1]]
    BY <2>2 DEF Solves
  <2>4. \A i \in 1 .. n : g[i] = g[i - 1] + s[i].weight
    <3> TAKE i \in 1 .. n
    <3>1. i - 1 \in 0 .. n
      BY <1>1
    <3>2. g[i - 1] \in Int
      BY <2>3, <3>1
    <3>3. step[i] = [x \in Int |-> x + s[i].weight]
      OBVIOUS
    <3> HIDE DEF step
    <3> QED BY <2>3, <3>2, <3>3
  <2>5. \A i \in 0 .. n : i = 0 \/ i \in 1 .. n
    BY <1>1
  <2>6. g = [i \in 0 .. n |-> IF i = 0 THEN 0 ELSE g[i - 1] + s[i].weight]
    <3> HIDE DEF n, step
    <3> QED BY <2>3, <2>4, <2>5
  <2> QED BY <2>6
<1>4. TotalWeight(s) = total[n] /\ IsTotal(total)
  <2>1. TotalWeight(s) = total[n]
    BY DEF TotalWeight
  <2>2. IsTotal(total)
    <3> HIDE DEF IsTotal
    <3> QED BY <1>3
  <2> QED BY <2>1, <2>2
<1>5. total[0] = 0 /\ \A i \in 1 .. n : total[i] = total[i - 1] + s[i].weight
  <2>1. 0 \in 0 .. n /\ \A i \in 1 .. n : i \in 0 .. n /\ i # 0
    BY <1>1
  <2> HIDE DEF total, n
  <2> QED BY <1>4, <2>1
<1> HIDE DEF total, IsTotal, step
<1>6. \A p : p \in S <=> \E i \in 1 .. n : p = Pair(s[i])
  BY MeaningIs
<1>7. IsFiniteSet(S) /\ \A i, j \in 1 .. n : Pair(s[i]) = Pair(s[j]) => i = j
  BY SizeOfMeaning
<1>8. \A p \in S : p[2] \in Int
  <2>1. \A c : Pair(c)[2] = c.weight
    BY DEF Pair
  <2> HIDE DEF S, n
  <2> QED BY <1>2, <1>6, <2>1
<1>9. \A i \in 1 .. n : f[Pair(s[i])] = s[i].weight
  <2> TAKE i \in 1 .. n
  <2>1. Pair(s[i]) \in S
    BY <1>6
  <2>2. \A c : Pair(c)[2] = c.weight
    BY DEF Pair
  <2> HIDE DEF S
  <2> QED BY <2>1, <2>2
<1>10. \A p \in S : f[p] \in Int
  BY <1>8
<1> HIDE DEF f
<1>11. ASSUME NEW i \in 1 .. n, total[i - 1] = SumOn(f, upto(i - 1))
       PROVE  total[i] = SumOn(f, upto(i))
  <2> DEFINE e == Pair(s[i])
             T == upto(i - 1)
  <2>1. upto(i) = T \union {e}
    <3>1. 1 .. i = (1 .. i - 1) \union {i}
      BY <1>1
    <3> QED BY <3>1
  <2>2. e \notin T
    <3>1. \A k \in 1 .. i - 1 : k \in 1 .. n /\ k # i
      BY <1>1
    <3> QED BY <1>7, <3>1
  <2>3. T \subseteq S /\ e \in S
    <3>1. \A k \in 1 .. i - 1 : k \in 1 .. n
      BY <1>1
    <3> HIDE DEF S
    <3> QED BY <1>6, <3>1
  <2>4. IsFiniteSet(T)
    <3> HIDE DEF T, S
    <3> QED BY <1>7, <2>3, FS_Subset
  <2>5. SumOn(f, T \union {e}) = f[e] + SumOn(f, T)
    <3>1. (\A x \in T : f[x] \in Int) /\ f[e] \in Int
      BY <1>10, <2>3
    <3> HIDE DEF T, e
    <3> QED BY <2>2, <2>4, <3>1, SumOnNew
  <2>6. SumOn(f, T) \in Int
    <3>1. \A x \in T : f[x] \in Int
      BY <1>10, <2>3
    <3> HIDE DEF T
    <3> QED BY <2>4, <3>1, SumOnIs
  <2>7. f[e] = s[i].weight /\ s[i].weight \in Int
    BY <1>2, <1>9
  <2>8. total[i] = total[i - 1] + s[i].weight
    BY <1>5
  <2>9. total[i - 1] = SumOn(f, T)
    BY <1>11
  <2>10. SumOn(f, upto(i)) = SumOn(f, T \union {e})
    BY <2>1
  <2>11. SumOn(f, T \union {e}) = total[i]
    <3> HIDE DEF T, e, upto
    <3> QED BY <2>5, <2>6, <2>7, <2>8, <2>9
  <2> QED BY <2>10, <2>11
<1>12. total[n] = SumOn(f, upto(n))
  <2> DEFINE right(i) == total[i] = SumOn(f, upto(i))
             good == [i \in 0 .. n |-> right(i)]
             D == {TRUE}
  <2>1. good[0] \in D
    <3>1. 0 \in 0 .. n
      BY <1>1
    <3>2. upto(0) = {}
      OBVIOUS
    <3>3. SumOn(f, {}) = 0
      BY <1>7, <1>10, SumOnIs
    <3>4. right(0)
      BY <1>5, <3>2, <3>3
    <3>5. good[0] = right(0)
      BY <3>1
    <3> HIDE DEF right, good
    <3> QED BY <3>4, <3>5
  <2>2. \A i \in 1 .. n : good[i - 1] \in D => good[i] \in D
    <3> TAKE i \in 1 .. n
    <3>1. i \in 0 .. n /\ i - 1 \in 0 .. n
      BY <1>1
    <3>2. good[i - 1] = right(i - 1) /\ good[i] = right(i)
      BY <3>1
    <3>3. right(i - 1) => right(i)
      <4> HIDE DEF upto
      <4> QED BY <1>11
    <3> HIDE DEF right, good
    <3> QED BY <3>2, <3>3
  <2>3. \A i \in 0 .. n : good[i] \in D
    <3> HIDE DEF good, D
    <3> QED BY <1>1, <2>1, <2>2, Stays
  <2>4. n \in 0 .. n
    BY <1>1
  <2>5. good[n] = right(n)
    BY <2>4
  <2> HIDE DEF right, good
  <2>6. right(n)
    BY <2>3, <2>4, <2>5
  <2> QED BY <2>6 DEF right
<1>13. upto(n) = S
  <2>1. \A p : p \in upto(n) <=> \E i \in 1 .. n : p = Pair(s[i])
    OBVIOUS
  <2> HIDE DEF upto, S
  <2> QED BY <1>6, <2>1
<1>14. MapThenSumSet(LAMBDA p : p[2], S) = SumOn(f, S)
  <2> HIDE DEF S
  <2> QED BY <1>7, <1>8, SumOfSeconds DEF f
<1> QED BY <1>4, <1>12, <1>13, <1>14

-----------------------------------------------------------------------------
(* What the ranges of a session mean.                                      *)

(* What is written of a list of combos.                                    *)
LEMMA EmittedMeansIt ==
  ASSUME NEW s \in ComboLists, NEW n \in Nat
  PROVE  /\ Emitted(s, n).total = Len(s)
         /\ Meaning(Emitted(s, n).combos) \subseteq Meaning(s)
         /\ n = Len(s) => Meaning(Emitted(s, n).combos) = Meaning(s)
<1> DEFINE L == Len(s)
           k == Smaller(L, n)
           u == SubSeq(s, 1, k)
<1>1. L \in Nat
  BY Lists, LenProperties
<1>2. k \in Nat /\ k <= L /\ (n = L => k = L)
  <2> HIDE DEF L
  <2> QED BY <1>1 DEF Smaller
<1>3. Emitted(s, n).total = L /\ Emitted(s, n).combos = u
  BY DEF Emitted
<1>4. u \in ComboLists /\ Len(u) = k /\ \A i \in 1 .. k : u[i] = s[i]
  <2> DEFINE v(m) == SubSeq(s, 1, m)
  <2>1. \A m \in 0 .. L : /\ v(m) \in ComboLists /\ Len(v(m)) = m + 1 - 1
                          /\ \A i \in 1 .. m + 1 - 1 : v(m)[i] = s[1 + i - 1]
    <3> TAKE m \in 0 .. L
    <3>1. 1 \in Nat /\ m \in Nat /\ 1 >= 1 /\ 1 <= m + 1 /\ m <= Len(s)
      BY <1>1
    <3> QED BY <3>1, PartOfList
  <2>2. k \in 0 .. L
    BY <1>1, <1>2
  <2> HIDE DEF k, L
  <2>3. k + 1 - 1 = k /\ \A i \in 1 .. k : 1 + i - 1 = i
    BY <1>2
  <2> QED BY <2>1, <2>2, <2>3
<1> HIDE DEF u, k
<1>5. \A p : p \in Meaning(u) <=> \E i \in 1 .. k : p = Pair(s[i])
  <2>1. \A p : p \in Meaning(u) <=> \E i \in 1 .. Len(u) : p = Pair(u[i])
    BY <1>4, MeaningIs
  <2> QED BY <1>4, <2>1
<1>6. \A p : p \in Meaning(s) <=> \E i \in 1 .. L : p = Pair(s[i])
  BY MeaningIs
<1>7. \A i \in 1 .. k : i \in 1 .. L
  BY <1>1, <1>2
<1>8. Meaning(u) \subseteq Meaning(s)
  <2> HIDE DEF L
  <2> QED BY <1>5, <1>6, <1>7
<1>9. ASSUME n = L PROVE Meaning(u) = Meaning(s)
  <2>1. k = L
    BY <1>2, <1>9
  <2>2. \A p : p \in Meaning(u) <=> p \in Meaning(s)
    BY <1>5, <1>6, <2>1
  <2> QED BY <2>2
<1> QED BY <1>3, <1>8, <1>9

(* The weights of a set of pairs, added up.                                *)
WeightOfAll(set) == MapThenSumSet(LAMBDA p : p[2], set)

(* The two halves of the property: the ranges and the reply.               *)
RangesMean ==
  \A s \in Alive : Meaning(store[s].combos) = means[s].set /\ RightSizes(store[s].combos, store[s].game)
ReplyMeans ==
  "of" \in DOMAIN reply =>
    LET set == means[reply.of].set
        live == {p \in set : p[1] \intersect reply.dead = {}}
    IN  NoRepeats(store[reply.of].combos) =>
          /\ "weight" \in DOMAIN reply => reply.weight = WeightOfAll(live)
          /\ "emitted" \in DOMAIN reply =>
               /\ reply.emitted.total = Cardinality(live)
               /\ Meaning(reply.emitted.combos) \subseteq live
               /\ front = "python" => Meaning(reply.emitted.combos) = live

(* No reply: nothing to compare.                                           *)
LEMMA NoReply ==
  ASSUME reply' = Nothing
  PROVE  ReplyMeans'
<1>1. DOMAIN reply' = {}
  <2>1. DOMAIN << >> = {}
    OBVIOUS
  <2> QED BY <2>1 DEF Nothing
<1>2. "of" \notin DOMAIN reply'
  BY <1>1
<1> QED BY <1>2 DEF ReplyMeans

(* A new range keeps the others.                                           *)
LEMMA GivenMeans ==
  ASSUME StoreInv, RangesMean, FreeSlot \notin Alive, NEW range, NEW meaning, Give(range, meaning),
         Meaning(range.combos) = meaning.set, RightSizes(range.combos, range.game)
  PROVE  RangesMean'
<1>1. /\ DOMAIN store' = Alive \union {FreeSlot}
      /\ \A s \in Alive \union {FreeSlot} :
           /\ store'[s] = IF s = FreeSlot THEN range ELSE store[s]
           /\ means'[s] = IF s = FreeSlot THEN meaning ELSE means[s]
  BY DEF Give
<1>2. Alive' = Alive \union {FreeSlot}
  BY <1>1 DEF Alive
<1> SUFFICES ASSUME NEW s \in Alive'
             PROVE  Meaning(store'[s].combos) = means'[s].set /\ RightSizes(store'[s].combos, store'[s].game)
  BY DEF RangesMean
<1>3. CASE s = FreeSlot
  BY <1>1, <1>2, <1>3
<1>4. CASE s # FreeSlot
  <2>1. s \in Alive /\ store'[s] = store[s] /\ means'[s] = means[s]
    BY <1>1, <1>2, <1>4
  <2> QED BY <2>1 DEF RangesMean
<1> QED BY <1>3, <1>4

(* A source.                                                               *)
LEMMA CreateMeans ==
  ASSUME StoreInv, RangesMean, NEW c \in Sources, Create(c)
  PROVE  RangesMean'
<1>1. CASE Made(c).ok
  <2> DEFINE range == [game |-> GameMade(c), tag |-> TagOf(c), combos |-> Made(c).combos]
             meaning == SourceMeans(c)
  <2>1. Give(range, meaning)
    BY <1>1 DEF Create
  <2>2. calls = 0 \/ Cardinality(Alive) < MaxRanges
    <3>1. calls = 0 \/ Cardinality(Alive) < MaxRanges - 1
      BY DEF Create
    <3>2. Cardinality(Alive) \in Nat
      <4>1. IsFiniteSet(Alive)
        BY SlotsAre, FS_Subset DEF StoreInv, RoomLeft
      <4> QED BY <4>1, FS_CardinalityType
    <3> QED BY <3>1, <3>2, SlotsAre
  <2>3. FreeSlot \notin Alive
    BY <2>2, FreeSlotIs DEF StoreInv
  <2>4. Meaning(range.combos) = meaning.set /\ RightSizes(range.combos, range.game)
    <3>1. range.combos = Made(c).combos /\ range.game = GameMade(c)
      OBVIOUS
    <3> HIDE DEF range
    <3> QED BY <1>1, <3>1, SourcesMeanIt
  <2> HIDE DEF range, meaning
  <2> QED BY <2>1, <2>3, <2>4, GivenMeans
<1>2. CASE ~Made(c).ok
  <2>1. store' = store /\ means' = means
    BY <1>2 DEF Create, Refuse
  <2> QED BY <2>1 DEF RangesMean, Alive
<1> QED BY <1>1, <1>2

(* An operation.                                                           *)
LEMMA OperateMeans ==
  ASSUME StoreInv, RangesMean, NEW op \in Operations, NEW a \in Alive, NEW b \in Alive, Operate(op, a, b)
  PROVE  RangesMean'
<1> DEFINE x == store[a].combos
           y == store[b].combos
           game == store[a].game
           made == IF SameGame(a, b) THEN SetOperation(op, x, y) ELSE Malformed
<1>1. x \in ComboLists /\ y \in ComboLists
  BY DEF StoreInv, ListsHeld
<1>2. /\ Meaning(x) = means[a].set /\ RightSizes(x, game)
      /\ Meaning(y) = means[b].set /\ RightSizes(y, store[b].game)
  BY DEF RangesMean
<1>3. CASE made.ok
  <2> DEFINE meaning == [ordered |-> TRUE, set |-> OperationMeans(op, means[a].set, means[b].set)]
             range == [game |-> game, tag |-> store[a].tag, combos |-> made.combos]
  <2>1. Give(range, meaning)
    BY <1>3 DEF Operate
  <2>2. FreeSlot \notin Alive
    <3>1. Cardinality(Alive) < MaxRanges
      BY DEF Operate
    <3> QED BY <3>1, FreeSlotIs DEF StoreInv
  <2>3. SameGame(a, b) /\ made = SetOperation(op, x, y)
    <3>1. Malformed.ok = FALSE
      BY DEF Malformed
    <3> QED BY <1>3, <3>1
  <2>4. NoRepeats(x) /\ NoRepeats(y)
    <3>1. Malformed.ok = FALSE
      BY DEF Malformed
    <3> HIDE DEF x, y
    <3>2. ~NoRepeats(x) \/ ~NoRepeats(y) => SetOperation(op, x, y) = Malformed
      BY DEF SetOperation
    <3> QED BY <1>3, <2>3, <3>1, <3>2
  <2>5. game = store[b].game
    BY <2>3 DEF SameGame
  <2> HIDE DEF x, y, game
  <2>6. Meaning(made.combos) = OperationMeans(op, Meaning(x), Meaning(y)) /\ made.combos \in ComboLists
    BY <1>1, <2>3, <2>4, MergesAreSetOperations, OperatesWell
  <2>7. RightSizes(made.combos, game)
    <3> DEFINE A == Meaning(x)
               B == Meaning(y)
    <3>1. Assigns(A) /\ Assigns(B)
      BY <1>1, <2>4, ListAssigns
    <3>2. /\ \A p \in A : Cardinality(p[1]) = CardsPerHand(game)
          /\ \A p \in B : Cardinality(p[1]) = CardsPerHand(game)
      BY <1>1, <1>2, <2>5, SizesAre
    <3> HIDE DEF A, B
    <3>3. ASSUME NEW p \in OperationMeans(op, A, B) PROVE Cardinality(p[1]) = CardsPerHand(game)
      <4>1. PICK m, w : p = <<m, w>>
        BY <3>1, <3>3, OperationIs
      <4>2. Gives(op, A, B, m, w)
        BY <3>1, <3>3, <4>1, OperationIs
      <4>3. Has(A, m) \/ Has(B, m)
        BY <4>2, GivesHas
      <4>4. \E v : <<m, v>> \in A \/ <<m, v>> \in B
        BY <4>3 DEF Has
      <4>5. p[1] = m
        BY <4>1
      <4>6. PICK v : <<m, v>> \in A \/ <<m, v>> \in B
        BY <4>4
      <4>7. <<m, v>>[1] = m
        OBVIOUS
      <4> QED BY <3>2, <4>5, <4>6, <4>7
    <3>4. \A p \in Meaning(made.combos) : Cardinality(p[1]) = CardsPerHand(game)
      BY <2>6, <3>3 DEF A, B
    <3> HIDE DEF made
    <3> QED BY <2>6, <3>4, SizesAre
  <2>8. Meaning(range.combos) = meaning.set /\ RightSizes(range.combos, range.game)
    <3>1. range.combos = made.combos /\ range.game = game /\ meaning.set = OperationMeans(op, means[a].set, means[b].set)
      OBVIOUS
    <3> HIDE DEF range, made, meaning
    <3> QED BY <1>2, <2>6, <2>7, <3>1
  <2> HIDE DEF range, meaning
  <2> QED BY <2>1, <2>2, <2>8, GivenMeans
<1>4. CASE ~made.ok
  <2>1. store' = store /\ means' = means
    BY <1>4 DEF Operate, Refuse
  <2> QED BY <2>1 DEF RangesMean, Alive
<1> QED BY <1>3, <1>4

(* A range that is gone.                                                   *)
LEMMA DestroyMeans ==
  ASSUME RangesMean, NEW s \in Alive, Destroy(s)
  PROVE  RangesMean'
<1>1. /\ DOMAIN store' = Alive \ {s}
      /\ \A t \in Alive \ {s} : store'[t] = store[t] /\ means'[t] = means[t]
  BY DEF Destroy
<1>2. Alive' = Alive \ {s}
  BY <1>1 DEF Alive
<1> SUFFICES ASSUME NEW t \in Alive'
             PROVE  Meaning(store'[t].combos) = means'[t].set /\ RightSizes(store'[t].combos, store'[t].game)
  BY DEF RangesMean
<1>3. t \in Alive /\ store'[t] = store[t] /\ means'[t] = means[t]
  BY <1>1, <1>2
<1> QED BY <1>3 DEF RangesMean

(* Reading combos.                                                         *)
LEMMA CombosReadMean ==
  ASSUME StoreInv, RangesMean, NEW s \in Alive, NEW dead, NEW n \in Capacities, ReadCombos(s, dead, n)
  PROVE  ReplyMeans'
<1> DEFINE combos == store[s].combos
           set == means[s].set
           valid == ValidCombos(combos, dead)
           k == CapacityFor(valid, n)
           live == {p \in set : p[1] \intersect dead = {}}
           e == Emitted(valid, k)
<1>1. /\ reply' = [of |-> s, dead |-> dead, emitted |-> e]
      /\ store' = store /\ means' = means /\ front' = front
  BY DEF ReadCombos, Answer
<1>2. combos \in ComboLists /\ Meaning(combos) = set
  BY DEF StoreInv, ListsHeld, RangesMean
<1> HIDE DEF combos, set
<1>3. valid \in ComboLists /\ Meaning(valid) = live /\ (NoRepeats(combos) => NoRepeats(valid))
  BY <1>2, ValidMeansIt
<1> HIDE DEF valid, live
<1>4. k \in Nat /\ (front = "python" => k = Len(valid))
  <2>1. n \in Nat /\ Len(valid) \in Nat
    BY <1>3, StoreAssumption, Lists, LenProperties
  <2>2. Emitted(valid, 0).total = Len(valid)
    BY DEF Emitted
  <2> QED BY <2>1, <2>2 DEF CapacityFor
<1> HIDE DEF k
<1>5. e.total = Len(valid) /\ Meaning(e.combos) \subseteq live /\ (front = "python" => Meaning(e.combos) = live)
  BY <1>3, <1>4, EmittedMeansIt
<1>6. NoRepeats(combos) => e.total = Cardinality(live)
  BY <1>3, <1>5, SizeOfMeaning
<1> HIDE DEF e
<1>7. /\ reply'.of = s /\ reply'.dead = dead /\ reply'.emitted = e
      /\ "weight" \notin DOMAIN reply'
  BY <1>1
<1>8. means'[reply'.of].set = set /\ store'[reply'.of].combos = combos
  BY <1>1, <1>7 DEF set, combos
<1>9. {p \in means'[reply'.of].set : p[1] \intersect reply'.dead = {}} = live
  BY <1>7, <1>8 DEF live
<1> QED BY <1>1, <1>5, <1>6, <1>7, <1>8, <1>9 DEF ReplyMeans

(* Reading the total weight.                                               *)
LEMMA WeightReadMeans ==
  ASSUME StoreInv, RangesMean, NEW s \in Alive, NEW dead, ReadWeight(s, dead)
  PROVE  ReplyMeans'
<1> DEFINE combos == store[s].combos
           set == means[s].set
           valid == ValidCombos(combos, dead)
           live == {p \in set : p[1] \intersect dead = {}}
           w == TotalWeight(valid)
<1>1. /\ reply' = [of |-> s, dead |-> dead, weight |-> w]
      /\ store' = store /\ means' = means /\ front' = front
  BY DEF ReadWeight, Answer
<1>2. combos \in ComboLists /\ Meaning(combos) = set
  BY DEF StoreInv, ListsHeld, RangesMean
<1> HIDE DEF combos, set
<1>3. valid \in ComboLists /\ Meaning(valid) = live /\ (NoRepeats(combos) => NoRepeats(valid))
  BY <1>2, ValidMeansIt
<1> HIDE DEF valid, live
<1>4. NoRepeats(combos) => w = WeightOfAll(Meaning(valid))
  BY <1>3, WeighsItsMeaning DEF WeightOfAll
<1>5. NoRepeats(combos) => w = WeightOfAll(live)
  BY <1>3, <1>4
<1> HIDE DEF w
<1>6. /\ reply'.of = s /\ reply'.dead = dead /\ reply'.weight = w
      /\ "emitted" \notin DOMAIN reply'
  BY <1>1
<1>7. means'[reply'.of].set = set /\ store'[reply'.of].combos = combos
  BY <1>1, <1>6 DEF set, combos
<1>8. {p \in means'[reply'.of].set : p[1] \intersect reply'.dead = {}} = live
  BY <1>6, <1>7 DEF live
<1> QED BY <1>5, <1>6, <1>7, <1>8 DEF ReplyMeans

(* Every step keeps what ranges and replies mean.                          *)
LEMMA StepMeans ==
  StoreInv /\ RangesMean /\ ReplyMeans /\ [Next]_vars => RangesMean' /\ ReplyMeans'
<1> SUFFICES ASSUME StoreInv, RangesMean, ReplyMeans, [Next]_vars PROVE RangesMean' /\ ReplyMeans'
  OBVIOUS
<1>0. ASSUME store' = store, means' = means PROVE RangesMean'
  BY <1>0 DEF RangesMean, Alive
<1>1. ASSUME NEW c \in Sources, Create(c) PROVE RangesMean' /\ ReplyMeans'
  <2>1. reply' = Nothing
    BY <1>1 DEF Create
  <2> QED BY <1>1, <2>1, CreateMeans, NoReply
<1>2. ASSUME NEW op \in Operations, NEW a \in Alive, NEW b \in Alive, Operate(op, a, b)
      PROVE  RangesMean' /\ ReplyMeans'
  <2>1. reply' = Nothing
    BY <1>2 DEF Operate
  <2> QED BY <1>2, <2>1, OperateMeans, NoReply
<1>3. CASE CreateFails
  <2>1. reply' = Nothing /\ store' = store /\ means' = means
    BY <1>3 DEF CreateFails, Refuse
  <2> QED BY <1>0, <2>1, NoReply
<1>4. ASSUME NEW s \in Alive, Destroy(s) PROVE RangesMean' /\ ReplyMeans'
  <2>1. reply' = Nothing
    BY <1>4 DEF Destroy
  <2> QED BY <1>4, <2>1, DestroyMeans, NoReply
<1>5. ASSUME NEW s \in Alive, NEW dead \in DeadMasks, NEW n \in Capacities, ReadCombos(s, dead, n)
      PROVE  RangesMean' /\ ReplyMeans'
  <2>1. store' = store /\ means' = means
    BY <1>5 DEF ReadCombos, Answer
  <2> QED BY <1>0, <1>5, <2>1, CombosReadMean
<1>6. ASSUME NEW s \in Alive, NEW dead \in DeadMasks, ReadWeight(s, dead)
      PROVE  RangesMean' /\ ReplyMeans'
  <2>1. store' = store /\ means' = means
    BY <1>6 DEF ReadWeight, Answer
  <2> QED BY <1>0, <1>6, <2>1, WeightReadMeans
<1>7. ASSUME NEW s \in Alive, ReadHead(s) PROVE RangesMean' /\ ReplyMeans'
  <2>1. store' = store /\ means' = means
    BY <1>7 DEF ReadHead, Answer
  <2>2. "weight" \notin DOMAIN reply' /\ "emitted" \notin DOMAIN reply'
    BY <1>7 DEF ReadHead, Answer
  <2>3. ReplyMeans'
    BY <2>2 DEF ReplyMeans
  <2> QED BY <1>0, <2>1, <2>3
<1>8. ASSUME NEW p \in Percents, NEW game \in {"holdem", "plo", "unknown"}, NEW n \in Capacities,
             ReadRanking(p, game, n)
      PROVE  RangesMean' /\ ReplyMeans'
  <2>1. store' = store /\ means' = means
    BY <1>8 DEF ReadRanking, Answer
  <2>2. "of" \notin DOMAIN reply'
    <3>1. CASE game = "holdem" /\ LegalPercent(p)
      BY <1>8, <3>1 DEF ReadRanking, Answer
    <3>2. CASE ~(game = "holdem" /\ LegalPercent(p))
      <4>1. reply' = Nothing
        BY <1>8, <3>2 DEF ReadRanking
      <4>2. DOMAIN << >> = {}
        OBVIOUS
      <4> QED BY <4>1, <4>2 DEF Nothing
    <3> QED BY <3>1, <3>2
  <2>3. ReplyMeans'
    BY <2>2 DEF ReplyMeans
  <2> QED BY <1>0, <2>1, <2>3
<1>9. CASE UNCHANGED vars
  <2>1. store' = store /\ means' = means /\ reply' = reply /\ front' = front
    BY <1>9 DEF vars
  <2> QED BY <1>0, <2>1 DEF ReplyMeans
<1> QED BY <1>1, <1>2, <1>3, <1>4, <1>5, <1>6, <1>7, <1>8, <1>9 DEF Next

(* The range handles of waist_handles.cpp over core/range.cpp: after any   *)
(* calls, every range alive holds exactly the combos, at the weights, that *)
(* its notation, its percentage or the operations it came from say, hands  *)
(* of the size of its game; and what a reading call writes, the total      *)
(* weight included, is that set less the dead cards.                       *)
THEOREM RangesMeanIt == Spec => []RangesMeanWhatTheySay
<1>1. Init => RangesMean /\ ReplyMeans
  <2> SUFFICES ASSUME Init PROVE RangesMean /\ ReplyMeans
    OBVIOUS
  <2>1. DOMAIN << >> = {}
    OBVIOUS
  <2>2. Alive = {} /\ "of" \notin DOMAIN reply
    BY <2>1 DEF Init, Alive, Nothing
  <2> QED BY <2>2 DEF RangesMean, ReplyMeans
<1>2. RangesMean /\ ReplyMeans <=> RangesMeanWhatTheySay
  BY DEF RangesMean, ReplyMeans, RangesMeanWhatTheySay, WeightOfAll
<1>3. Spec => []StoreInv
  BY StoreHolds
<1>4. Spec => [](RangesMean /\ ReplyMeans)
  BY <1>1, <1>3, StepMeans, PTL DEF Spec
<1> QED BY <1>2, <1>4, PTL
=============================================================================
