------------------------------- MODULE DeckProofs -------------------------------
(***************************************************************************)
(* Theorems about the deck: for a deck of any size, any lists of cards and *)
(* any requests, what is in the deck and what was dealt from it are the    *)
(* deck as it was last ordered, from front to back.                        *)
(***************************************************************************)
EXTENDS Deck, SequenceTheorems, FunctionTheorems, Induction

-----------------------------------------------------------------------------
(* Helpers.                                                                *)

(* How many cards a request takes off a deck: from none to all.            *)
LEMMA TakenCount ==
  ASSUME NEW l \in Nat, NEW n \in Int
  PROVE  Min({l, Max({n, 0})}) \in 0 .. l
<1> DEFINE m == Max({n, 0})
<1>1. m \in Nat
  <2>1. \E x \in {n, 0} : \A y \in {n, 0} : x >= y
    OBVIOUS
  <2>2. m \in {n, 0} /\ \A y \in {n, 0} : m >= y
    BY <2>1 DEF Max
  <2> QED
    BY <2>2
<1> HIDE DEF m
<1>2. \E x \in {l, m} : \A y \in {l, m} : x <= y
  BY <1>1
<1>3. Min({l, m}) \in {l, m} /\ \A y \in {l, m} : Min({l, m}) <= y
  BY <1>2 DEF Min
<1>4. Min({l, m}) \in 0 .. l
  BY <1>1, <1>3
<1> QED
  BY <1>4 DEF m

(* A sequence read backwards.                                              *)
LEMMA ReverseIs ==
  ASSUME NEW D, NEW s \in Seq(D)
  PROVE  /\ Reverse(s) \in Seq(D)
         /\ Len(Reverse(s)) = Len(s)
         /\ \A i \in 1 .. Len(s) : Reverse(s)[i] = s[Len(s) + 1 - i]
<1>1. Len(s) \in Nat /\ s \in [1 .. Len(s) -> D]
  BY LenProperties
<1>2. ASSUME NEW i \in 1 .. Len(s)
      PROVE  (Len(s) - i) + 1 \in 1 .. Len(s) /\ (Len(s) - i) + 1 = Len(s) + 1 - i
  BY <1>1
<1>3. \A i \in 1 .. Len(s) : Reverse(s)[i] = s[Len(s) + 1 - i]
  BY <1>2 DEF Reverse
<1>4. Reverse(s) \in [1 .. Len(s) -> D]
  BY <1>1, <1>2 DEF Reverse
<1>5. Reverse(s) \in Seq(D) /\ Len(Reverse(s)) = Len(s)
  BY <1>1, <1>4, LenProperties, IsASeq
<1> QED
  BY <1>3, <1>5

(* What is left of what is left.                                           *)
LEMMA LeftOfLeft ==
  ASSUME NEW r, NEW s, NEW t, NEW A, NEW B, IsLeft(r, s, A), IsLeft(s, t, B)
  PROVE  IsLeft(r, t, A \union B)
<1>1. InOrderOf(r, t)
  <2> SUFFICES ASSUME NEW i \in DOMAIN r, NEW j \in DOMAIN r, NEW p \in DOMAIN t, NEW q \in DOMAIN t,
                      i < j, t[p] = r[i], t[q] = r[j]
               PROVE  p < q
    BY DEF InOrderOf
  <2>1. Range(r) \subseteq Range(s)
    BY DEF IsLeft
  <2>2. PICK u \in DOMAIN s : s[u] = r[i]
    BY <2>1 DEF Range
  <2>3. PICK v \in DOMAIN s : s[v] = r[j]
    BY <2>1 DEF Range
  <2>4. u < v
    BY <2>2, <2>3 DEF IsLeft, InOrderOf
  <2> QED
    BY <2>2, <2>3, <2>4 DEF IsLeft, InOrderOf
<1>2. Range(r) = Range(t) \ (A \union B)
  BY DEF IsLeft
<1> QED
  BY <1>1, <1>2 DEF IsLeft

(* A sequence without its place k.                                         *)
Dropped(r, s, k) ==
  /\ Len(r) = Len(s) - 1
  /\ \A j \in 1 .. Len(r) : r[j] = IF j < k THEN s[j] ELSE s[j + 1]

(* The library's RemoveAt takes one place out of a sequence.               *)
LEMMA RemoveAtDrops ==
  ASSUME NEW D, NEW s \in Seq(D), NEW k \in 1 .. Len(s)
  PROVE  RemoveAt(s, k) \in Seq(D) /\ Dropped(RemoveAt(s, k), s, k)
<1> DEFINE a == SubSeq(s, 1, k - 1)
           b == SubSeq(s, k + 1, Len(s))
           r == a \o b
<1>1. Len(s) \in Nat
  BY LenProperties
<1>2. /\ a \in Seq(D) /\ Len(a) = k - 1
      /\ \A i \in 1 .. k - 1 : a[i] = s[i]
  <2>1. \A i \in 1 .. k - 1 : s[i] \in D
    BY <1>1, ElementOfSeq
  <2>2. a \in Seq(D) /\ Len(a) = IF 1 <= k - 1 THEN k - 1 - 1 + 1 ELSE 0
    BY <1>1, <2>1, SubSeqProperties
  <2>3. \A i \in 1 .. k - 1 : a[i] = s[i]
    BY <1>1, SubSeqProperties
  <2>4. Len(a) = k - 1
    BY <1>1, <2>2
  <2> QED
    BY <2>2, <2>3, <2>4
<1>3. /\ b \in Seq(D) /\ Len(b) = Len(s) - k
      /\ \A i \in 1 .. Len(s) - k : b[i] = s[k + i]
  <2>1. \A i \in k + 1 .. Len(s) : s[i] \in D
    BY <1>1, ElementOfSeq
  <2>2. b \in Seq(D) /\ Len(b) = IF k + 1 <= Len(s) THEN Len(s) - (k + 1) + 1 ELSE 0
    BY <1>1, <2>1, SubSeqProperties
  <2>3. \A i \in 1 .. Len(s) - k : b[i] = s[k + i]
    BY <1>1, SubSeqProperties
  <2>4. Len(b) = Len(s) - k
    BY <1>1, <2>2
  <2> QED
    BY <2>2, <2>3, <2>4
<1>4. /\ r \in Seq(D) /\ Len(r) = Len(a) + Len(b)
      /\ \A i \in 1 .. Len(a) + Len(b) : r[i] = IF i <= Len(a) THEN a[i] ELSE b[i - Len(a)]
  <2> HIDE DEF a, b
  <2> QED
    BY <1>2, <1>3, ConcatProperties
<1>5. Dropped(r, s, k)
  <2>1. Len(r) = Len(s) - 1
    <3> HIDE DEF a, b, r
    <3> QED
      BY <1>1, <1>2, <1>3, <1>4
  <2>2. ASSUME NEW j \in 1 .. Len(r)
        PROVE  r[j] = IF j < k THEN s[j] ELSE s[j + 1]
    <3> HIDE DEF a, b, r
    <3>1. CASE j < k
      <4>1. j \in 1 .. k - 1 /\ j \in 1 .. Len(a) + Len(b) /\ j <= Len(a)
        BY <1>1, <1>2, <1>3, <1>4, <2>1, <3>1
      <4>2. r[j] = a[j] /\ a[j] = s[j]
        BY <1>2, <1>4, <4>1
      <4> QED
        BY <3>1, <4>2
    <3>2. CASE ~(j < k)
      <4>1. j - Len(a) \in 1 .. Len(s) - k /\ j \in 1 .. Len(a) + Len(b) /\ ~(j <= Len(a))
        BY <1>1, <1>2, <1>3, <1>4, <2>1, <3>2
      <4>2. r[j] = b[j - Len(a)]
        BY <1>4, <4>1
      <4>3. b[j - Len(a)] = s[k + (j - Len(a))] /\ k + (j - Len(a)) = j + 1
        BY <1>1, <1>2, <1>3, <4>1
      <4> QED
        BY <3>2, <4>2, <4>3
    <3> QED
      BY <3>1, <3>2
  <2> QED
    BY <2>1, <2>2 DEF Dropped
<1>6. RemoveAt(s, k) = r
  BY DEF RemoveAt
<1> HIDE DEF r
<1> QED
  BY <1>4, <1>5, <1>6

(* Of a sequence without repeats the one at k is out, the others keep      *)
(* their order.                                                            *)
LEMMA DroppedIsLeft ==
  ASSUME NEW D, NEW r \in Seq(D), NEW s \in Seq(D), NEW k \in 1 .. Len(s),
         Dropped(r, s, k), IsInjective(s)
  PROVE  IsLeft(r, s, {s[k]})
<1> DEFINE n == Len(s)
           at(j) == IF j < k THEN j ELSE j + 1
<1>1. /\ n \in Nat /\ Len(r) = n - 1
      /\ DOMAIN s = 1 .. n /\ DOMAIN r = 1 .. n - 1
  BY LenProperties DEF Dropped
<1>2. \A j \in 1 .. n - 1 : at(j) \in 1 .. n /\ at(j) # k /\ r[j] = s[at(j)]
  BY <1>1 DEF Dropped
<1>3. \A i, j \in 1 .. n - 1 : (i < j => at(i) < at(j)) /\ (at(i) = at(j) => i = j)
  BY <1>1
<1>4. \A p \in 1 .. n : p # k => \E j \in 1 .. n - 1 : at(j) = p
  <2> TAKE p \in 1 .. n
  <2> HAVE p # k
  <2>1. CASE p < k
    <3>1. p \in 1 .. n - 1 /\ at(p) = p
      BY <1>1, <2>1
    <3> QED
      BY <3>1
  <2>2. CASE p > k
    <3>1. p - 1 \in 1 .. n - 1 /\ at(p - 1) = p
      BY <1>1, <2>2
    <3> QED
      BY <3>1
  <2> QED
    BY <1>1, <2>1, <2>2
<1> HIDE DEF at, n
<1>5. \A p, q \in 1 .. n : s[p] = s[q] => p = q
  BY <1>1 DEF IsInjective
<1>6. k \in 1 .. n
  BY DEF n
<1>7. IsInjective(r)
  BY <1>1, <1>2, <1>3, <1>5 DEF IsInjective
<1>8. InOrderOf(r, s)
  <2> SUFFICES ASSUME NEW i \in DOMAIN r, NEW j \in DOMAIN r, NEW p \in DOMAIN s, NEW q \in DOMAIN s,
                      i < j, s[p] = r[i], s[q] = r[j]
               PROVE  p < q
    BY DEF InOrderOf
  <2>1. p = at(i) /\ q = at(j)
    BY <1>1, <1>2, <1>5
  <2> QED
    BY <1>1, <1>3, <2>1
<1>9. Range(r) = Range(s) \ {s[k]}
  <2>1. ASSUME NEW x
        PROVE  x \in Range(r) <=> x \in Range(s) \ {s[k]}
    <3>1. ASSUME NEW j \in 1 .. n - 1
          PROVE  r[j] \in Range(s) \ {s[k]}
      BY <1>1, <1>2, <1>5, <1>6 DEF Range
    <3>2. ASSUME NEW p \in 1 .. n, s[p] # s[k]
          PROVE  s[p] \in Range(r)
      <4>1. PICK j \in 1 .. n - 1 : at(j) = p
        BY <1>4, <3>2
      <4>2. r[j] = s[p]
        BY <1>2, <4>1
      <4> QED
        BY <1>1, <4>2 DEF Range
    <3>3. x \in Range(r) => \E j \in 1 .. n - 1 : x = r[j]
      BY <1>1 DEF Range
    <3>4. x \in Range(s) => \E p \in 1 .. n : x = s[p]
      BY <1>1 DEF Range
    <3> QED
      BY <3>1, <3>2, <3>3, <3>4
  <2> QED
    BY <2>1
<1> QED
  BY <1>7, <1>8, <1>9 DEF IsLeft

(* Erasing a card leaves the others.                                       *)
LEMMA EraseLeaves ==
  ASSUME NEW s \in Seq(Nat), IsInjective(s), NEW c
  PROVE  Erase(s, c) \in Seq(Nat) /\ IsLeft(Erase(s, c), s, {c})
<1>1. CASE c \in Range(s)
  <2> DEFINE At == {i \in DOMAIN s : s[i] = c}
             k == Min(At)
  <2>1. At # {} /\ At \subseteq Nat
    <3>1. DOMAIN s \subseteq Nat
      BY LenProperties
    <3>2. \E i \in DOMAIN s : s[i] = c
      BY <1>1 DEF Range
    <3> QED
      BY <3>1, <3>2
  <2>2. \E x \in At : \A y \in At : x <= y
    <3> HIDE DEF At
    <3> QED
      BY <2>1, LeastNumber
  <2>3. k \in At
    BY <2>2 DEF Min
  <2>4. k \in 1 .. Len(s) /\ s[k] = c
    BY <2>3, LenProperties
  <2>5. Erase(s, c) = RemoveAt(s, k)
    BY <1>1 DEF Erase
  <2> HIDE DEF k
  <2>6. RemoveAt(s, k) \in Seq(Nat) /\ Dropped(RemoveAt(s, k), s, k)
    BY <2>4, RemoveAtDrops
  <2>7. IsLeft(RemoveAt(s, k), s, {s[k]})
    BY <2>4, <2>6, DroppedIsLeft
  <2> QED
    BY <2>4, <2>5, <2>6, <2>7
<1>2. CASE c \notin Range(s)
  <2>1. Erase(s, c) = s
    BY <1>2 DEF Erase
  <2>2. InOrderOf(s, s)
    BY DEF InOrderOf, IsInjective
  <2>3. IsLeft(s, s, {c})
    BY <1>2, <2>2 DEF IsLeft
  <2> QED
    BY <2>1, <2>3
<1> QED
  BY <1>1, <1>2

(* Erasing the cards of a list, one after the other, leaves the others.    *)
LEMMA EraseAllLeaves ==
  ASSUME NEW s \in Seq(Nat), IsInjective(s), NEW list \in Seq(Nat)
  PROVE  EraseAll(s, list) \in Seq(Nat) /\ IsLeft(EraseAll(s, list), s, Range(list))
<1> DEFINE n == Len(list)
           D == {r \in Seq(Nat) : IsInjective(r)}
           step == [i \in 1 .. n |-> [r \in D |-> Erase(r, list[i])]]
           IsRun(g) == g = [k \in 0 .. n |-> IF k = 0 THEN s ELSE Erase(g[k - 1], list[k])]
           chosen == CHOOSE g : IsRun(g)
           upto(k) == {list[i] : i \in 1 .. k}
           Good(r, k) == r \in D /\ IsLeft(r, s, upto(k))
<1>1. n \in Nat /\ DOMAIN list = 1 .. n
  BY LenProperties
<1>2. \A r \in D : \A c : Erase(r, c) \in D
  BY EraseLeaves DEF IsLeft
<1>3. step \in [1 .. n -> [D -> D]]
  <2> HIDE DEF D
  <2> QED
    BY <1>2
<1>4. s \in D
  OBVIOUS
<1>5. PICK g : Solves(g, n, D, s, step)
  <2> HIDE DEF n, D, step
  <2> QED
    BY <1>1, <1>3, <1>4, Recursion
<1>6. /\ g \in [0 .. n -> D] /\ g[0] = s
      /\ \A k \in 1 .. n : g[k] = Erase(g[k - 1], list[k])
  <2>1. g \in [0 .. n -> D] /\ g[0] = s /\ \A k \in 1 .. n : g[k] = step[k][g[k - 1]]
    BY <1>5 DEF Solves
  <2>2. ASSUME NEW k \in 1 .. n
        PROVE  g[k] = Erase(g[k - 1], list[k])
    <3>1. g[k - 1] \in D
      <4>1. k - 1 \in 0 .. n
        BY <1>1
      <4> HIDE DEF D
      <4> QED
        BY <2>1, <4>1
    <3> HIDE DEF D
    <3> QED
      BY <2>1, <3>1
  <2> QED
    BY <2>1, <2>2
<1>7. IsRun(g)
  <2> DEFINE v(k) == IF k = 0 THEN s ELSE Erase(g[k - 1], list[k])
  <2>1. ASSUME NEW k \in 0 .. n
        PROVE  g[k] = v(k)
    <3>1. k = 0 \/ k \in 1 .. n
      BY <1>1
    <3> QED
      BY <3>1, <1>6
  <2>2. g = [k \in 0 .. n |-> g[k]]
    BY <1>6
  <2> HIDE DEF v
  <2>3. [k \in 0 .. n |-> g[k]] = [k \in 0 .. n |-> v(k)]
    BY <2>1
  <2> QED
    BY <2>2, <2>3 DEF v
<1>8. IsRun(chosen)
  <2> HIDE DEF IsRun
  <2> QED
    BY <1>7
<1>9. \A k \in 0 .. n : chosen[k] = IF k = 0 THEN s ELSE Erase(chosen[k - 1], list[k])
  <2> DEFINE h == chosen
  <2> HIDE DEF h
  <2>1. h = [k \in 0 .. n |-> IF k = 0 THEN s ELSE Erase(h[k - 1], list[k])]
    BY <1>8 DEF h
  <2>2. \A k \in 0 .. n : h[k] = IF k = 0 THEN s ELSE Erase(h[k - 1], list[k])
    BY <2>1
  <2> QED
    BY <2>2 DEF h
<1>10. EraseAll(s, list) = chosen[n]
  BY DEF EraseAll
<1> HIDE DEF chosen
<1> DEFINE Wrong == {k \in 0 .. n : ~Good(chosen[k], k)}
<1>11. Good(chosen[0], 0)
  <2>1. chosen[0] = s /\ upto(0) = {}
    BY <1>1, <1>9
  <2>2. InOrderOf(s, s)
    BY DEF InOrderOf, IsInjective
  <2>3. IsLeft(s, s, {})
    BY <2>2 DEF IsLeft
  <2> HIDE DEF upto, D
  <2> QED
    BY <1>4, <2>1, <2>3
<1>12. ASSUME NEW k \in 1 .. n, Good(chosen[k - 1], k - 1)
       PROVE  Good(chosen[k], k)
  <2> DEFINE r == chosen[k - 1]
  <2>1. chosen[k] = Erase(r, list[k])
    BY <1>1, <1>9
  <2>2. r \in Seq(Nat) /\ IsInjective(r) /\ IsLeft(r, s, upto(k - 1))
    BY <1>12
  <2> HIDE DEF r
  <2>3. Erase(r, list[k]) \in Seq(Nat) /\ IsLeft(Erase(r, list[k]), r, {list[k]})
    BY <2>2, EraseLeaves
  <2>4. IsLeft(Erase(r, list[k]), s, {list[k]} \union upto(k - 1))
    <3> HIDE DEF upto
    <3> QED
      BY <2>2, <2>3, LeftOfLeft
  <2>5. {list[k]} \union upto(k - 1) = upto(k)
    <3>1. \A i : i \in 1 .. k <=> i \in 1 .. k - 1 \/ i = k
      BY <1>1
    <3> QED
      BY <3>1
  <2>6. IsInjective(Erase(r, list[k]))
    BY <2>3 DEF IsLeft
  <2> HIDE DEF upto
  <2> QED
    BY <2>1, <2>3, <2>4, <2>5, <2>6
<1>13. Wrong = {}
  <2> SUFFICES ASSUME Wrong # {} PROVE FALSE
    OBVIOUS
  <2>1. Wrong \subseteq Nat
    BY <1>1
  <2>2. \E x \in Wrong : \A y \in Wrong : x <= y
    <3> HIDE DEF Wrong
    <3> QED
      BY <2>1, LeastNumber
  <2>3. PICK k \in Wrong : \A y \in Wrong : k <= y
    BY <2>2
  <2> HIDE DEF Good
  <2>4. k # 0
    BY <1>11, <2>3
  <2>5. k \in 1 .. n /\ k - 1 \in 0 .. n /\ ~(k <= k - 1)
    BY <1>1, <2>3, <2>4
  <2>6. Good(chosen[k - 1], k - 1)
    BY <2>3, <2>5
  <2> QED
    BY <1>12, <2>3, <2>5, <2>6
<1>14. Good(chosen[n], n)
  <2> HIDE DEF Good
  <2> QED
    BY <1>1, <1>13
<1>15. upto(n) = Range(list)
  BY <1>1 DEF Range
<1> HIDE DEF upto
<1> QED
  BY <1>10, <1>14, <1>15

(* A sequence in two parts: the first of them loses cards.                 *)
LEMMA FirstPartLeaves ==
  ASSUME NEW r \in Seq(Nat), NEW s \in Seq(Nat), NEW d \in Seq(Nat), NEW A,
         IsLeft(r, s, A), IsInjective(s \o d)
  PROVE  IsLeft(r \o d, s \o d, A \intersect Range(s))
<1> DEFINE l == Len(r)
           m == Len(s)
           e == Len(d)
           t == r \o d
           u == s \o d
<1>1. l \in Nat /\ m \in Nat /\ e \in Nat
      /\ DOMAIN r = 1 .. l /\ DOMAIN s = 1 .. m /\ DOMAIN d = 1 .. e
  BY LenProperties
<1>2. /\ DOMAIN t = 1 .. l + e
      /\ \A i \in 1 .. l + e : t[i] = IF i <= l THEN r[i] ELSE d[i - l]
  <2>1. t \in Seq(Nat) /\ Len(t) = l + e
        /\ \A i \in 1 .. l + e : t[i] = IF i <= l THEN r[i] ELSE d[i - l]
    BY ConcatProperties
  <2>2. DOMAIN t = 1 .. Len(t)
    BY <2>1, LenProperties
  <2> QED
    BY <2>1, <2>2
<1>3. /\ DOMAIN u = 1 .. m + e
      /\ \A i \in 1 .. m + e : u[i] = IF i <= m THEN s[i] ELSE d[i - m]
  <2>1. u \in Seq(Nat) /\ Len(u) = m + e
        /\ \A i \in 1 .. m + e : u[i] = IF i <= m THEN s[i] ELSE d[i - m]
    BY ConcatProperties
  <2>2. DOMAIN u = 1 .. Len(u)
    BY <2>1, LenProperties
  <2> QED
    BY <2>1, <2>2
<1>4. IsInjective(u)
  OBVIOUS
<1> HIDE DEF l, m, e, t, u
<1>5. \A i \in 1 .. l : i \in 1 .. l + e /\ t[i] = r[i]
  BY <1>1, <1>2
<1>6. \A i \in 1 .. m : i \in 1 .. m + e /\ u[i] = s[i]
  BY <1>1, <1>3
<1>7. \A i \in 1 .. e : l + i \in 1 .. l + e /\ t[l + i] = d[i]
  <2> TAKE i \in 1 .. e
  <2>1. l + i \in 1 .. l + e /\ ~(l + i <= l) /\ (l + i) - l = i
    BY <1>1
  <2> QED
    BY <1>2, <2>1
<1>8. \A i \in 1 .. e : m + i \in 1 .. m + e /\ u[m + i] = d[i]
  <2> TAKE i \in 1 .. e
  <2>1. m + i \in 1 .. m + e /\ ~(m + i <= m) /\ (m + i) - m = i
    BY <1>1
  <2> QED
    BY <1>3, <2>1
<1>9. \A p, q \in 1 .. m + e : u[p] = u[q] => p = q
  BY <1>3, <1>4 DEF IsInjective
<1>10. \A i \in 1 .. l : \E p \in 1 .. m : s[p] = r[i] /\ s[p] \notin A
  <2>1. Range(r) = Range(s) \ A
    BY DEF IsLeft
  <2>2. \A i \in 1 .. l : r[i] \in Range(r)
    BY <1>1 DEF Range
  <2>3. \A x \in Range(s) : \E p \in 1 .. m : s[p] = x
    BY <1>1 DEF Range
  <2> QED
    BY <2>1, <2>2, <2>3
<1>11. \A p \in 1 .. m : s[p] \notin A => \E i \in 1 .. l : r[i] = s[p]
  <2>1. Range(r) = Range(s) \ A
    BY DEF IsLeft
  <2>2. \A p \in 1 .. m : s[p] \in Range(s)
    BY <1>1 DEF Range
  <2>3. \A x \in Range(r) : \E i \in 1 .. l : r[i] = x
    BY <1>1 DEF Range
  <2> QED
    BY <2>1, <2>2, <2>3
<1>12. \A i, j \in 1 .. l, p, q \in 1 .. m : i < j /\ s[p] = r[i] /\ s[q] = r[j] => p < q
  BY <1>1 DEF IsLeft, InOrderOf
<1>13. \A i, j \in 1 .. l : r[i] = r[j] => i = j
  BY <1>1 DEF IsLeft, IsInjective
<1>14. \A i \in 1 .. l + e : i \in 1 .. l \/ (i - l \in 1 .. e /\ t[i] = d[i - l] /\ i = l + (i - l))
  BY <1>1, <1>2
<1>15. \A p \in 1 .. m + e : p \in 1 .. m \/ (p - m \in 1 .. e /\ u[p] = d[p - m] /\ p = m + (p - m))
  BY <1>1, <1>3
<1>16. \A i \in 1 .. l : \E p \in 1 .. m : u[p] = t[i] /\ s[p] = r[i] /\ s[p] \notin A
  BY <1>5, <1>6, <1>10
<1>17. ASSUME NEW i \in 1 .. l + e, NEW j \in 1 .. l + e, NEW p \in 1 .. m + e, NEW q \in 1 .. m + e,
              u[p] = t[i], u[q] = t[j]
       PROVE  (i < j => p < q) /\ (p = q => i = j)
  <2>1. CASE i \in 1 .. l /\ j \in 1 .. l
    <3>1. PICK a \in 1 .. m : u[a] = t[i] /\ s[a] = r[i]
      BY <1>16, <2>1
    <3>2. PICK b \in 1 .. m : u[b] = t[j] /\ s[b] = r[j]
      BY <1>16, <2>1
    <3>3. a = p /\ b = q
      BY <1>6, <1>9, <1>17, <3>1, <3>2
    <3> QED
      BY <1>12, <1>13, <2>1, <3>1, <3>2, <3>3
  <2>2. CASE i \in 1 .. l /\ ~(j \in 1 .. l)
    <3>1. PICK a \in 1 .. m : u[a] = t[i] /\ s[a] = r[i]
      BY <1>16, <2>2
    <3>2. a = p
      BY <1>6, <1>9, <1>17, <3>1
    <3>3. j - l \in 1 .. e /\ t[j] = d[j - l]
      BY <1>14, <2>2
    <3>4. m + (j - l) \in 1 .. m + e /\ u[m + (j - l)] = d[j - l]
      BY <1>8, <3>3
    <3>5. q = m + (j - l)
      BY <1>9, <1>17, <3>3, <3>4
    <3>6. p <= m
      BY <1>1, <3>2
    <3>7. q >= m + 1
      BY <1>1, <3>3, <3>5
    <3>8. p < q
      BY <1>1, <3>6, <3>7
    <3> QED
      BY <3>8
  <2>3. CASE ~(i \in 1 .. l) /\ j \in 1 .. l
    <3>1. PICK b \in 1 .. m : u[b] = t[j] /\ s[b] = r[j]
      BY <1>16, <2>3
    <3>2. b = q
      BY <1>6, <1>9, <1>17, <3>1
    <3>3. i - l \in 1 .. e /\ t[i] = d[i - l]
      BY <1>14, <2>3
    <3>4. m + (i - l) \in 1 .. m + e /\ u[m + (i - l)] = d[i - l]
      BY <1>8, <3>3
    <3>5. p = m + (i - l)
      BY <1>9, <1>17, <3>3, <3>4
    <3>6. j <= l /\ b <= m
      BY <1>1, <2>3
    <3> QED
      BY <1>1, <3>2, <3>3, <3>5, <3>6
  <2>4. CASE ~(i \in 1 .. l) /\ ~(j \in 1 .. l)
    <3>1. i - l \in 1 .. e /\ t[i] = d[i - l] /\ j - l \in 1 .. e /\ t[j] = d[j - l]
      BY <1>14, <2>4
    <3>2. /\ m + (i - l) \in 1 .. m + e /\ u[m + (i - l)] = d[i - l]
          /\ m + (j - l) \in 1 .. m + e /\ u[m + (j - l)] = d[j - l]
      BY <1>8, <3>1
    <3>3. p = m + (i - l) /\ q = m + (j - l)
      BY <1>9, <1>17, <3>1, <3>2
    <3> QED
      BY <1>1, <3>3
  <2> QED
    BY <2>1, <2>2, <2>3, <2>4
<1>18. \A i \in 1 .. l + e : \E p \in 1 .. m + e : u[p] = t[i]
  <2> TAKE i \in 1 .. l + e
  <2>1. CASE i \in 1 .. l
    BY <1>6, <1>16, <2>1
  <2>2. CASE ~(i \in 1 .. l)
    BY <1>8, <1>14, <2>2
  <2> QED
    BY <2>1, <2>2
<1>19. IsInjective(t)
  <2> SUFFICES ASSUME NEW i \in 1 .. l + e, NEW j \in 1 .. l + e, t[i] = t[j]
               PROVE  i = j
    BY <1>2 DEF IsInjective
  <2>1. PICK p \in 1 .. m + e : u[p] = t[i]
    BY <1>18
  <2> QED
    BY <1>17, <2>1
<1>20. InOrderOf(t, u)
  BY <1>2, <1>3, <1>17 DEF InOrderOf
<1>21. Range(t) = Range(u) \ (A \intersect Range(s))
  <2>1. \A i \in 1 .. l + e : t[i] \in Range(u)
    BY <1>3, <1>18 DEF Range
  <2>2. ASSUME NEW i \in 1 .. l + e, t[i] \in A, t[i] \in Range(s)
        PROVE  FALSE
    <3>1. PICK p \in 1 .. m : s[p] = t[i]
      BY <1>1, <2>2 DEF Range
    <3>2. p \in 1 .. m + e /\ u[p] = t[i]
      BY <1>6, <3>1
    <3>3. CASE i \in 1 .. l
      <4>1. PICK a \in 1 .. m : u[a] = t[i] /\ s[a] \notin A
        BY <1>16, <3>3
      <4>2. s[a] = t[i]
        BY <1>6, <4>1
      <4> QED
        BY <2>2, <4>1, <4>2
    <3>4. CASE ~(i \in 1 .. l)
      <4>1. i - l \in 1 .. e /\ t[i] = d[i - l]
        BY <1>14, <3>4
      <4>2. m + (i - l) \in 1 .. m + e /\ u[m + (i - l)] = t[i]
        BY <1>8, <4>1
      <4>3. p = m + (i - l)
        BY <1>9, <3>2, <4>2
      <4> QED
        BY <1>1, <4>1, <4>3
    <3> QED
      BY <3>3, <3>4
  <2>3. ASSUME NEW p \in 1 .. m + e, ~(u[p] \in A /\ u[p] \in Range(s))
        PROVE  \E i \in 1 .. l + e : t[i] = u[p]
    <3>1. CASE p \in 1 .. m
      <4>1. u[p] = s[p] /\ s[p] \in Range(s)
        BY <1>1, <1>6, <3>1 DEF Range
      <4>2. PICK i \in 1 .. l : r[i] = s[p]
        BY <1>11, <2>3, <3>1, <4>1
      <4> QED
        BY <1>5, <4>1, <4>2
    <3>2. CASE ~(p \in 1 .. m)
      <4>1. p - m \in 1 .. e /\ u[p] = d[p - m]
        BY <1>15, <3>2
      <4>2. l + (p - m) \in 1 .. l + e /\ t[l + (p - m)] = u[p]
        BY <1>7, <4>1
      <4> QED
        BY <4>2
    <3> QED
      BY <3>1, <3>2
  <2>4. ASSUME NEW x
        PROVE  x \in Range(t) <=> x \in Range(u) \ (A \intersect Range(s))
    <3>1. x \in Range(t) => \E i \in 1 .. l + e : x = t[i]
      BY <1>2 DEF Range
    <3>2. x \in Range(u) => \E p \in 1 .. m + e : x = u[p]
      BY <1>3 DEF Range
    <3>3. \A i \in 1 .. l + e : t[i] \in Range(t)
      BY <1>2 DEF Range
    <3> QED
      BY <2>1, <2>2, <2>3, <3>1, <3>2, <3>3
  <2> QED
    BY <2>4
<1>22. IsLeft(t, u, A \intersect Range(s))
  BY <1>19, <1>20, <1>21 DEF IsLeft
<1> QED
  BY <1>22 DEF t, u

-----------------------------------------------------------------------------
(* The invariant.                                                          *)

DeckInv ==
  /\ cards \in Seq(Nat) /\ base \in Seq(Nat) /\ dealt \in Seq(Nat)
  /\ DealtFromTheBack

(* The deck holds each of its cards once.                                  *)
LEMMA HeldOnce ==
  ASSUME DeckInv
  PROVE  IsInjective(cards) /\ Range(cards) \subseteq Ids
<1> DEFINE d == Reverse(dealt)
           t == cards \o d
<1>1. Len(cards) \in Nat /\ DOMAIN cards = 1 .. Len(cards) /\ cards \in Seq(Nat) /\ d \in Seq(Nat)
  BY LenProperties, ReverseIs DEF DeckInv
<1>2. Len(d) \in Nat
  BY <1>1, LenProperties
<1>3. IsInjective(t) /\ Range(t) = Range(base) \ gone /\ Range(base) \subseteq Ids
  BY DEF DeckInv, DealtFromTheBack, IsLeft
<1> HIDE DEF d
<1>4. /\ t \in Seq(Nat) /\ Len(t) = Len(cards) + Len(d)
      /\ \A i \in 1 .. Len(cards) + Len(d) : t[i] = IF i <= Len(cards) THEN cards[i] ELSE d[i - Len(cards)]
  BY <1>1, ConcatProperties
<1>5. DOMAIN t = 1 .. Len(t)
  BY <1>4, LenProperties
<1> HIDE DEF t
<1>6. \A i \in 1 .. Len(cards) : i \in DOMAIN t /\ t[i] = cards[i]
  BY <1>1, <1>2, <1>4, <1>5
<1>7. IsInjective(cards)
  BY <1>1, <1>3, <1>6 DEF IsInjective
<1>8. Range(cards) \subseteq Ids
  BY <1>1, <1>3, <1>6 DEF Range
<1> QED
  BY <1>7, <1>8

(* A deck that was just ordered.                                           *)
LEMMA LoadsWell ==
  ASSUME NEW s \in Seq(Nat), Range(s) \subseteq Ids, IsInjective(s), Load(s)
  PROVE  DeckInv'
<1>1. cards' = s /\ base' = s /\ dealt' = << >> /\ gone' = {}
  BY DEF Load
<1>2. << >> \in Seq(Nat) /\ Len(<< >>) = 0
  OBVIOUS
<1>3. Reverse(<< >>) = << >>
  <2> DEFINE none == << >>
  <2>1. Reverse(none) \in Seq(Nat) /\ Len(Reverse(none)) = Len(none)
    BY <1>2, ReverseIs
  <2>2. Len(Reverse(none)) = 0
    BY <1>2, <2>1
  <2> QED
    BY <2>1, <2>2, EmptySeq
<1>4. s \o << >> = s
  BY ConcatEmptySeq
<1>5. InOrderOf(s, s)
  BY DEF InOrderOf, IsInjective
<1>6. IsLeft(s, s, {})
  BY <1>5 DEF IsLeft
<1>7. IsLeft(s \o Reverse(<< >>), s, {})
  BY <1>3, <1>4, <1>6
<1>8. DealtFromTheBack'
  BY <1>1, <1>7 DEF DealtFromTheBack
<1> QED
  BY <1>1, <1>2, <1>8 DEF DeckInv

(* A deal moves cards from the back of the deck to the end of what was     *)
(* dealt: read backwards, that is the same sequence.                       *)
LEMMA TakesWell ==
  ASSUME DeckInv, NEW n \in Int, Take(n)
  PROVE  DeckInv'
<1> DEFINE l == Len(cards)
           k == Min({l, Max({n, 0})})
           taken == [i \in 1 .. k |-> cards[l + 1 - i]]
           more == dealt \o taken
           less == SubSeq(cards, 1, l - k)
           m == Len(dealt)
<1>1. l \in Nat /\ cards \in Seq(Nat) /\ dealt \in Seq(Nat) /\ m \in Nat
      /\ \A i \in 1 .. l : cards[i] \in Nat
  BY LenProperties, ElementOfSeq DEF DeckInv
<1>2. k \in 0 .. l
  BY <1>1, TakenCount
<1>3. dealt' = more /\ cards' = less /\ base' = base /\ gone' = gone
  BY DEF Take
<1> HIDE DEF l, k, m
<1>4. taken \in Seq(Nat) /\ Len(taken) = k
  <2>1. \A i \in 1 .. k : l + 1 - i \in 1 .. l
    BY <1>1, <1>2
  <2>2. \A i \in 1 .. k : cards[l + 1 - i] \in Nat
    BY <1>1, <2>1
  <2>3. taken \in [1 .. k -> Nat]
    BY <2>2
  <2>4. k \in Nat
    BY <1>1, <1>2
  <2> HIDE DEF taken
  <2> QED
    BY <2>3, <2>4, IsASeq, LenProperties
<1>5. \A i \in 1 .. k : taken[i] = cards[l + 1 - i]
  OBVIOUS
<1> HIDE DEF taken
<1>6. /\ more \in Seq(Nat) /\ Len(more) = m + k
      /\ \A i \in 1 .. m + k : more[i] = IF i <= m THEN dealt[i] ELSE taken[i - m]
  BY <1>1, <1>4, ConcatProperties DEF m
<1>7. /\ less \in Seq(Nat) /\ Len(less) = l - k
      /\ \A i \in 1 .. l - k : less[i] = cards[i]
  <2>1. \A i \in 1 .. l - k : cards[i] \in Nat
    BY <1>1, <1>2
  <2>2. less \in Seq(Nat) /\ Len(less) = IF 1 <= l - k THEN l - k - 1 + 1 ELSE 0
    BY <1>1, <1>2, <2>1, SubSeqProperties
  <2>3. \A i \in 1 .. l - k : less[i] = cards[i]
    BY <1>1, <1>2, SubSeqProperties
  <2>4. Len(less) = l - k
    BY <1>1, <1>2, <2>2
  <2> QED
    BY <2>2, <2>3, <2>4
<1> HIDE DEF more, less
<1> DEFINE f == Reverse(more)
           d == Reverse(dealt)
<1>8. /\ f \in Seq(Nat) /\ Len(f) = m + k
      /\ \A i \in 1 .. m + k : f[i] = more[m + k + 1 - i]
  <2>1. /\ f \in Seq(Nat) /\ Len(f) = Len(more)
        /\ \A i \in 1 .. Len(more) : f[i] = more[Len(more) + 1 - i]
    BY <1>6, ReverseIs
  <2> HIDE DEF f
  <2> QED
    BY <1>6, <2>1
<1>9. /\ d \in Seq(Nat) /\ Len(d) = m
      /\ \A i \in 1 .. m : d[i] = dealt[m + 1 - i]
  BY <1>1, ReverseIs DEF m
<1> HIDE DEF f, d
<1> DEFINE u == less \o f
           t == cards \o d
<1>10. /\ u \in Seq(Nat) /\ Len(u) = (l - k) + (m + k)
       /\ \A i \in 1 .. (l - k) + (m + k) : u[i] = IF i <= l - k THEN less[i] ELSE f[i - (l - k)]
  <2>1. /\ u \in Seq(Nat) /\ Len(u) = Len(less) + Len(f)
        /\ \A i \in 1 .. Len(less) + Len(f) : u[i] = IF i <= Len(less) THEN less[i] ELSE f[i - Len(less)]
    BY <1>7, <1>8, ConcatProperties
  <2> HIDE DEF u
  <2> QED
    BY <1>7, <1>8, <2>1
<1>11. /\ t \in Seq(Nat) /\ Len(t) = l + m
       /\ \A i \in 1 .. l + m : t[i] = IF i <= l THEN cards[i] ELSE d[i - l]
  <2>1. /\ t \in Seq(Nat) /\ Len(t) = Len(cards) + Len(d)
        /\ \A i \in 1 .. Len(cards) + Len(d) : t[i] = IF i <= Len(cards) THEN cards[i] ELSE d[i - Len(cards)]
    BY <1>1, <1>9, ConcatProperties
  <2> HIDE DEF t
  <2> QED
    BY <1>9, <2>1 DEF l
<1> HIDE DEF u, t
<1>12. ASSUME NEW i \in 1 .. l + m
       PROVE  u[i] = t[i]
  <2>1. (l - k) + (m + k) = l + m
    BY <1>1, <1>2
  <2>2. CASE i <= l - k
    <3>1. i \in 1 .. l - k /\ i <= l
      BY <1>1, <1>2, <2>2
    <3> QED
      BY <1>7, <1>10, <1>11, <2>1, <2>2, <3>1
  <2>3. CASE ~(i <= l - k) /\ i <= l
    <3> DEFINE e == i - (l - k)
               c == m + k + 1 - e
    <3>1. /\ e \in 1 .. m + k
          /\ c \in 1 .. m + k
          /\ ~(c <= m)
          /\ c - m \in 1 .. k
          /\ l + 1 - (c - m) = i
      BY <1>1, <1>2, <2>3
    <3>2. u[i] = f[e] /\ t[i] = cards[i]
      BY <1>10, <1>11, <2>1, <2>3
    <3>3. f[e] = more[c]
      BY <1>8, <3>1
    <3> HIDE DEF c, e
    <3>4. more[c] = taken[c - m]
      BY <1>6, <3>1
    <3>5. taken[c - m] = cards[i]
      BY <1>5, <3>1
    <3> QED
      BY <3>2, <3>3, <3>4, <3>5
  <2>4. CASE ~(i <= l)
    <3>1. /\ ~(i <= l - k)
          /\ i - (l - k) \in 1 .. m + k
          /\ m + k + 1 - (i - (l - k)) \in 1 .. m + k
          /\ m + k + 1 - (i - (l - k)) <= m
          /\ i - l \in 1 .. m
          /\ m + 1 - (i - l) = m + k + 1 - (i - (l - k))
      BY <1>1, <1>2, <2>4
    <3>2. u[i] = f[i - (l - k)] /\ t[i] = d[i - l]
      BY <1>10, <1>11, <2>1, <2>4, <3>1
    <3>3. f[i - (l - k)] = more[m + k + 1 - (i - (l - k))]
      BY <1>8, <3>1
    <3>4. more[m + k + 1 - (i - (l - k))] = dealt[m + k + 1 - (i - (l - k))]
      BY <1>6, <3>1
    <3>5. d[i - l] = dealt[m + k + 1 - (i - (l - k))]
      BY <1>9, <3>1
    <3> QED
      BY <3>2, <3>3, <3>4, <3>5
  <2> QED
    BY <2>2, <2>3, <2>4
<1>13. u = t
  <2>1. Len(u) = l + m
    BY <1>1, <1>2, <1>10
  <2>2. Len(t) = l + m
    BY <1>11
  <2>3. \A i \in 1 .. Len(u) : u[i] = t[i]
    BY <1>12, <2>1
  <2> QED
    BY <1>10, <1>11, <2>1, <2>2, <2>3, SeqEqual
<1>14. IsLeft(t, base, gone) /\ Range(base) \subseteq Ids /\ IsInjective(base)
  BY DEF DeckInv, DealtFromTheBack, t, d
<1>15. IsLeft(u, base, gone)
  BY <1>13, <1>14
<1>16. IsLeft(less \o Reverse(more), base, gone)
  BY <1>15 DEF u, f
<1>17. DealtFromTheBack'
  BY <1>3, <1>14, <1>16 DEF DealtFromTheBack
<1>18. base \in Seq(Nat)
  BY DEF DeckInv
<1> QED
  BY <1>3, <1>6, <1>7, <1>17, <1>18 DEF DeckInv

(* Cards taken out of the deck.                                            *)
LEMMA RemovesWell ==
  ASSUME DeckInv, NEW list \in Seq(Nat), RemoveCards(list)
  PROVE  DeckInv'
<1> DEFINE left == EraseAll(cards, list)
           d == Reverse(dealt)
           out == Range(list)
<1>1. cards \in Seq(Nat) /\ base \in Seq(Nat) /\ dealt \in Seq(Nat) /\ d \in Seq(Nat)
  BY ReverseIs DEF DeckInv
<1>2. IsInjective(cards)
  BY HeldOnce
<1>3. left \in Seq(Nat) /\ IsLeft(left, cards, out)
  BY <1>1, <1>2, EraseAllLeaves
<1>4. IsLeft(cards \o d, base, gone) /\ Range(base) \subseteq Ids /\ IsInjective(base)
  BY DEF DeckInv, DealtFromTheBack
<1>5. cards' = left /\ gone' = gone \union (out \intersect Range(cards)) /\ base' = base /\ dealt' = dealt
  BY DEF RemoveCards
<1> HIDE DEF left, d, out
<1>6. IsInjective(cards \o d)
  BY <1>4 DEF IsLeft
<1>7. IsLeft(left \o d, cards \o d, out \intersect Range(cards))
  BY <1>1, <1>3, <1>6, FirstPartLeaves
<1>8. IsLeft(left \o d, base, (out \intersect Range(cards)) \union gone)
  BY <1>4, <1>7, LeftOfLeft
<1>9. (out \intersect Range(cards)) \union gone = gone'
  BY <1>5
<1>10. IsLeft(left \o d, base, gone')
  BY <1>8, <1>9
<1>11. DealtFromTheBack'
  BY <1>4, <1>5, <1>10 DEF DealtFromTheBack, d
<1> QED
  BY <1>1, <1>3, <1>5, <1>11 DEF DeckInv

(* Another order of a deck holds the same cards, each once.                *)
LEMMA OrderedAnew ==
  ASSUME NEW c \in Seq(Nat), IsInjective(c), Range(c) \subseteq Ids,
         NEW p, p \in [DOMAIN c -> DOMAIN c], IsInjective(p)
  PROVE  /\ [i \in DOMAIN c |-> c[p[i]]] \in Seq(Nat)
         /\ IsInjective([i \in DOMAIN c |-> c[p[i]]])
         /\ Range([i \in DOMAIN c |-> c[p[i]]]) \subseteq Ids
<1> DEFINE D == DOMAIN c
           s == [i \in D |-> c[p[i]]]
<1>1. Len(c) \in Nat /\ D = 1 .. Len(c) /\ \A i \in D : c[i] \in Nat
  BY LenProperties, ElementOfSeq
<1>2. \A i \in D : p[i] \in D /\ s[i] = c[p[i]]
  OBVIOUS
<1>3. DOMAIN s = D
  OBVIOUS
<1>4. s \in Seq(Nat)
  <2>1. \A i \in D : c[p[i]] \in Nat
    BY <1>1, <1>2
  <2>2. s \in [D -> Nat]
    BY <2>1
  <2> DEFINE n == Len(c)
  <2>3. n \in Nat /\ D = 1 .. n
    BY <1>1
  <2> HIDE DEF s, D, n
  <2>4. s \in [1 .. n -> Nat]
    BY <2>2, <2>3
  <2> QED
    BY <2>3, <2>4
<1>5. IsInjective(s)
  <2>1. DOMAIN p = D
    OBVIOUS
  <2> HIDE DEF s
  <2> QED
    BY <1>2, <1>3, <2>1 DEF IsInjective
<1>6. Range(s) \subseteq Ids
  <2> HIDE DEF s
  <2> QED
    BY <1>2, <1>3 DEF Range
<1> QED
  BY <1>4, <1>5, <1>6

(* A shuffle, seeded or not, gives a sequence of the same cards.           *)
LEMMA OrdersWell ==
  ASSUME NEW c \in Seq(Nat), IsInjective(c), Range(c) \subseteq Ids, NEW s \in Orders(c)
  PROVE  s \in Seq(Nat) /\ IsInjective(s) /\ Range(s) \subseteq Ids
<1>1. PICK p \in {f \in [DOMAIN c -> DOMAIN c] : IsInjective(f)} : s = [i \in DOMAIN c |-> c[p[i]]]
  BY DEF Orders
<1>2. p \in [DOMAIN c -> DOMAIN c] /\ IsInjective(p)
  OBVIOUS
<1> QED
  BY <1>1, <1>2, OrderedAnew

(* A new deck.                                                             *)
LEMMA SortedWell == Sorted \in Seq(Nat) /\ IsInjective(Sorted) /\ Range(Sorted) \subseteq Ids
<1>1. DeckSize \in Nat
  BY DeckAssumption
<1>2. Sorted \in [1 .. DeckSize -> Nat]
  BY <1>1 DEF Sorted
<1>3. Sorted \in Seq(Nat)
  BY <1>1, <1>2, IsASeq
<1>4. IsInjective(Sorted)
  BY <1>1 DEF Sorted, IsInjective
<1>5. Range(Sorted) \subseteq Ids
  BY <1>1 DEF Sorted, Range, Ids
<1> QED
  BY <1>3, <1>4, <1>5

(* A deck is never larger than a full one.                                 *)
LEMMA FitsTheDeck ==
  ASSUME NEW c \in Seq(Nat), IsInjective(c), Range(c) \subseteq Ids
  PROVE  Len(c) \in 0 .. DeckSize
<1>1. Len(c) \in Nat /\ DOMAIN c = 1 .. Len(c) /\ c \in [1 .. Len(c) -> Nat]
  BY LenProperties
<1>2. DeckSize \in Nat
  BY DeckAssumption
<1>3. c \in [1 .. Len(c) -> Ids]
  BY <1>1 DEF Range
<1>4. c \in Injection(1 .. Len(c), Ids)
  BY <1>3 DEF Injection
<1>5. IsFiniteSet(Ids) /\ Cardinality(Ids) = DeckSize
  <2>1. 0 \in Int /\ DeckSize - 1 \in Int
    BY <1>2
  <2>2. IsFiniteSet(0 .. DeckSize - 1)
        /\ Cardinality(0 .. DeckSize - 1) = IF 0 > DeckSize - 1 THEN 0 ELSE DeckSize - 1 - 0 + 1
    BY <2>1, FS_Interval
  <2>3. Ids = 0 .. DeckSize - 1
    BY DEF Ids
  <2>4. (IF 0 > DeckSize - 1 THEN 0 ELSE DeckSize - 1 - 0 + 1) = DeckSize
    BY <1>2
  <2> QED
    BY <2>2, <2>3, <2>4
<1>6. Cardinality(1 .. Len(c)) <= Cardinality(Ids)
  BY <1>4, <1>5, FS_Injection
<1>7. Cardinality(1 .. Len(c)) = Len(c)
  <2>1. 1 \in Int /\ Len(c) \in Int
    BY <1>1
  <2>2. Cardinality(1 .. Len(c)) = IF 1 > Len(c) THEN 0 ELSE Len(c) - 1 + 1
    BY <2>1, FS_Interval
  <2>3. (IF 1 > Len(c) THEN 0 ELSE Len(c) - 1 + 1) = Len(c)
    BY <1>1
  <2> QED
    BY <2>2, <2>3
<1>8. Len(c) <= DeckSize
  BY <1>5, <1>6, <1>7
<1> QED
  BY <1>1, <1>2, <1>8

(* Dealing through the C function: the deck is dealt or not touched.       *)
LEMMA DealsWell ==
  ASSUME DeckInv, NEW op, NEW n \in Int, NEW b, NEW c, WaistDeal(op, n, b, c)
  PROVE  DeckInv'
<1>1. CASE Take(n)
  BY <1>1, TakesWell
<1>2. CASE UNCHANGED <<cards, base, dealt, gone>>
  BY <1>2 DEF DeckInv, DealtFromTheBack
<1> QED
  BY <1>1, <1>2 DEF WaistDeal, Rejected

(* A new deck satisfies the invariant.                                     *)
LEMMA InitDeck == Init => DeckInv
<1> SUFFICES ASSUME Init PROVE DeckInv
  OBVIOUS
<1>1. cards = Sorted /\ base = Sorted /\ dealt = << >> /\ gone = {}
  BY DEF Init
<1>2. << >> \in Seq(Nat) /\ Len(<< >>) = 0
  OBVIOUS
<1>3. Reverse(<< >>) = << >>
  <2> DEFINE none == << >>
  <2>1. Reverse(none) \in Seq(Nat) /\ Len(Reverse(none)) = Len(none)
    BY <1>2, ReverseIs
  <2>2. Len(Reverse(none)) = 0
    BY <1>2, <2>1
  <2> QED
    BY <2>1, <2>2, EmptySeq
<1>4. Sorted \o << >> = Sorted
  BY SortedWell, ConcatEmptySeq
<1>5. InOrderOf(Sorted, Sorted)
  BY SortedWell DEF InOrderOf, IsInjective
<1>6. IsLeft(Sorted, Sorted, {})
  BY <1>5, SortedWell DEF IsLeft
<1>7. IsLeft(Sorted \o Reverse(<< >>), Sorted, {})
  BY <1>3, <1>4, <1>6
<1> QED
  BY <1>1, <1>2, <1>7, SortedWell DEF DeckInv, DealtFromTheBack

(* Every step of the deck keeps the invariant.                             *)
LEMMA StepDeck ==
  ASSUME DeckInv, [Next]_vars
  PROVE  DeckInv'
<1>1. Requests \subseteq Int /\ CardLists \subseteq Seq(Nat) /\ DeckSize \in Nat
  BY DeckAssumption
<1>2. cards \in Seq(Nat) /\ IsInjective(cards) /\ Range(cards) \subseteq Ids
  BY HeldOnce DEF DeckInv
<1>3. Len(cards) \in 0 .. DeckSize /\ DOMAIN cards = 1 .. Len(cards)
  BY <1>2, FitsTheDeck, LenProperties
<1>4. ASSUME NEW n \in Requests, NEW b \in BOOLEAN, NEW c \in Capacities, Deal(n, b, c)
      PROVE  DeckInv'
  BY <1>1, <1>4, DealsWell DEF Deal
<1>5. ASSUME NEW n \in Requests, PyDeal(n)
      PROVE  DeckInv'
  <2> DEFINE request == IF n > DeckSize /\ Len(cards) < n THEN Len(cards) ELSE n
  <2>1. request \in Int
    BY <1>1, <1>3
  <2>2. WaistDeal("py_deal", request, TRUE, Max({request, 0}))
    BY <1>5 DEF PyDeal
  <2> HIDE DEF request
  <2> QED
    BY <2>1, <2>2, DealsWell
<1>6. ASSUME NEW n \in Requests, DealMask(n) \/ Burn(n)
      PROVE  DeckInv'
  BY <1>1, <1>6, TakesWell DEF DealMask, Burn
<1>7. CASE PyDealOne
  <2>1. WaistDeal("py_deal_one", 1, TRUE, 1)
    BY <1>7 DEF PyDealOne
  <2>2. 1 \in Int
    OBVIOUS
  <2> QED
    BY <2>1, <2>2, DealsWell
<1>8. CASE Shuffle
  <2>1. PICK s \in Orders(cards) : Load(s)
    BY <1>8 DEF Shuffle
  <2>2. s \in Seq(Nat) /\ IsInjective(s) /\ Range(s) \subseteq Ids
    BY <1>2, OrdersWell
  <2> QED
    BY <2>1, <2>2, LoadsWell
<1>9. ASSUME NEW seed \in Seeds, ShuffleSeeded(seed)
      PROVE  DeckInv'
  <2> DEFINE p == SeededOrder(seed, Len(cards))
             s == [i \in DOMAIN cards |-> cards[p[i]]]
  <2>1. p \in Injection(1 .. Len(cards), 1 .. Len(cards))
    BY <1>3, DeckAssumption
  <2>2. p \in [DOMAIN cards -> DOMAIN cards] /\ IsInjective(p)
    BY <1>3, <2>1 DEF Injection
  <2>3. Load(s)
    BY <1>9 DEF ShuffleSeeded
  <2> HIDE DEF p
  <2>4. s \in Seq(Nat) /\ IsInjective(s) /\ Range(s) \subseteq Ids
    BY <1>2, <2>2, OrderedAnew
  <2> HIDE DEF s
  <2> QED
    BY <2>3, <2>4, LoadsWell
<1>10. ASSUME NEW shuffle \in BOOLEAN, Reset(shuffle)
       PROVE  DeckInv'
  <2>1. CASE Load(Sorted)
    BY <2>1, SortedWell, LoadsWell
  <2>2. ASSUME NEW s \in Orders(Sorted), Load(s)
        PROVE  DeckInv'
    <3>1. s \in Seq(Nat) /\ IsInjective(s) /\ Range(s) \subseteq Ids
      BY SortedWell, OrdersWell
    <3> QED
      BY <2>2, <3>1, LoadsWell
  <2> QED
    BY <1>10, <2>1, <2>2 DEF Reset
<1>11. ASSUME NEW list \in CardLists, RemoveCards(list)
       PROVE  DeckInv'
  BY <1>1, <1>11, RemovesWell
<1>12. ASSUME NEW list \in CardLists, SetCards(list)
       PROVE  DeckInv'
  <2>1. CASE Range(list) \subseteq Ids /\ IsInjective(list)
    <3>1. Load(list)
      BY <1>12, <2>1 DEF SetCards
    <3> QED
      BY <1>1, <2>1, <3>1, LoadsWell
  <2>2. CASE ~(Range(list) \subseteq Ids /\ IsInjective(list))
    BY <1>12, <2>2 DEF SetCards, Rejected, DeckInv, DealtFromTheBack
  <2> QED
    BY <2>1, <2>2
<1>13. CASE Pickle
  BY <1>13 DEF Pickle, DeckInv, DealtFromTheBack
<1>14. CASE UNCHANGED vars
  BY <1>14 DEF vars, DeckInv, DealtFromTheBack
<1> QED
  BY <1>4, <1>5, <1>6, <1>7, <1>8, <1>9, <1>10, <1>11, <1>12, <1>13, <1>14 DEF Next

-----------------------------------------------------------------------------
(* However deals, burns, shuffles, removals and loads are mixed, the deck  *)
(* and what was dealt from it, read backwards, are the cards last ordered  *)
(* in their order, less the removed ones.                                  *)
THEOREM NoCardTwice == Spec => []DealtFromTheBack
<1>1. Init => DeckInv
  BY InitDeck
<1>2. DeckInv /\ [Next]_vars => DeckInv'
  BY StepDeck
<1>3. DeckInv => DealtFromTheBack
  BY DEF DeckInv
<1> QED
  BY <1>1, <1>2, <1>3, PTL DEF Spec

(* No step that reports an error touches the deck, what was dealt or what  *)
(* was removed: the C functions check their arguments first, set_cards the *)
(* whole list.                                                             *)
THEOREM Untouched == Spec => FailedCallChangesNothing
<1>1. ASSUME Next, ~reply'.ok
      PROVE  UNCHANGED <<cards, dealt, gone>>
  <2>1. ASSUME NEW op, NEW n, NEW b, NEW c, WaistDeal(op, n, b, c)
        PROVE  UNCHANGED <<cards, dealt, gone>>
    BY <1>1, <2>1 DEF WaistDeal, Rejected, Ok
  <2>2. ASSUME NEW list, SetCards(list)
        PROVE  UNCHANGED <<cards, dealt, gone>>
    BY <1>1, <2>2 DEF SetCards, Rejected, Ok
  <2>3. ASSUME NEW n, DealMask(n) \/ Burn(n)
        PROVE  FALSE
    BY <1>1, <2>3 DEF DealMask, Burn, Ok
  <2>4. CASE Shuffle \/ Pickle
    BY <1>1, <2>4 DEF Shuffle, Pickle, Ok
  <2>5. ASSUME NEW seed, ShuffleSeeded(seed)
        PROVE  FALSE
    BY <1>1, <2>5 DEF ShuffleSeeded, Ok
  <2>6. ASSUME NEW shuffle, Reset(shuffle)
        PROVE  FALSE
    BY <1>1, <2>6 DEF Reset, Ok
  <2>7. ASSUME NEW list, RemoveCards(list)
        PROVE  FALSE
    BY <1>1, <2>7 DEF RemoveCards, Ok
  <2> QED
    BY <1>1, <2>1, <2>2, <2>3, <2>4, <2>5, <2>6, <2>7 DEF Next, Deal, PyDeal, PyDealOne
<1>2. [Next]_vars => [~reply'.ok => UNCHANGED <<cards, dealt, gone>>]_vars
  BY <1>1
<1> QED
  BY <1>2, PTL DEF Spec, FailedCallChangesNothing

(* The buffer the Python class passes is as large as what it asks for, so  *)
(* that the C function refuses none of its deals.                          *)
THEOREM NeverTripped == Spec => []PyDealServed
<1>1. Init => DeckInv /\ PyDealServed
  BY InitDeck DEF Init, PyDealServed
<1>2. ASSUME DeckInv, PyDealServed, [Next]_vars
      PROVE  PyDealServed'
  <2>1. ASSUME NEW n \in Int
        PROVE  Max({n, 0}) >= n
    <3>1. \E x \in {n, 0} : \A y \in {n, 0} : x >= y
      BY <2>1
    <3>2. Max({n, 0}) \in {n, 0} /\ \A y \in {n, 0} : Max({n, 0}) >= y
      BY <3>1 DEF Max
    <3> QED
      BY <3>2
  <2>2. ASSUME NEW n \in Requests, PyDeal(n)
        PROVE  reply'.ok
    <3> DEFINE request == IF n > DeckSize /\ Len(cards) < n THEN Len(cards) ELSE n
    <3>1. request \in Int
      <4>1. Len(cards) \in Nat
        BY <1>2, LenProperties DEF DeckInv
      <4> QED
        BY <4>1, DeckAssumption
    <3>2. WaistDeal("py_deal", request, TRUE, Max({request, 0}))
      BY <2>2 DEF PyDeal
    <3> HIDE DEF request
    <3>3. ~(Max({request, 0}) < request)
      <4>1. Max({request, 0}) >= request
        BY <2>1, <3>1
      <4>2. Max({request, 0}) \in Int
        <5>1. \E x \in {request, 0} : \A y \in {request, 0} : x >= y
          BY <3>1
        <5>2. Max({request, 0}) \in {request, 0}
          BY <5>1 DEF Max
        <5> QED
          BY <3>1, <5>2
      <4> QED
        BY <3>1, <4>1, <4>2
    <3> QED
      BY <3>2, <3>3 DEF WaistDeal, Ok
  <2>3. PyDealOne => reply'.ok
    BY DEF PyDealOne, WaistDeal, Ok
  <2>5. ASSUME NEW n, NEW b, NEW c, Deal(n, b, c)
        PROVE  reply'.op = "deal"
    BY <2>5 DEF Deal, WaistDeal, Rejected, Ok
  <2>6. ASSUME NEW list, SetCards(list)
        PROVE  reply'.op = "set_cards"
    BY <2>6 DEF SetCards, Rejected, Ok
  <2>7. ASSUME NEW list, RemoveCards(list)
        PROVE  reply'.ok
    BY <2>7 DEF RemoveCards, Ok
  <2>8. ASSUME NEW n, DealMask(n) \/ Burn(n)
        PROVE  reply'.ok
    BY <2>8 DEF DealMask, Burn, Ok
  <2>9. ASSUME NEW seed, ShuffleSeeded(seed)
        PROVE  reply'.ok
    BY <2>9 DEF ShuffleSeeded, Ok
  <2>10. ASSUME NEW shuffle, Reset(shuffle)
         PROVE  reply'.ok
    BY <2>10 DEF Reset, Ok
  <2>11. Shuffle \/ Pickle => reply'.ok
    BY DEF Shuffle, Pickle, Ok
  <2>12. reply'.ok => PyDealServed'
    BY DEF PyDealServed
  <2>13. UNCHANGED vars => PyDealServed'
    BY <1>2 DEF vars, PyDealServed
  <2>14. reply'.op = "deal" \/ reply'.op = "set_cards" => PyDealServed'
    BY DEF PyDealServed
  <2> QED
    BY <1>2, <2>2, <2>3, <2>5, <2>6, <2>7, <2>8, <2>9, <2>10, <2>11, <2>12, <2>13, <2>14 DEF Next
<1>3. DeckInv /\ [Next]_vars => DeckInv'
  BY StepDeck
<1> QED
  BY <1>1, <1>2, <1>3, PTL DEF Spec
=============================================================================
