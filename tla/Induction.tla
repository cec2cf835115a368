------------------------------- MODULE Induction -------------------------------
(***************************************************************************)
(* What the proofs about numbers, sums and finite sets rest on. A property *)
(* that fails somewhere fails somewhere first: the proofs take the least   *)
(* element of the set of failures, since the induction rules of the        *)
(* library take the property as a parameter, which the provers cannot      *)
(* instantiate. From that: recursive definitions have a solution, a finite *)
(* set of numbers has an ascending list, a sum over a finite set does not  *)
(* depend on the order, and the sets of k of n elements are counted.       *)
(***************************************************************************)
EXTENDS WellFoundedInduction, FiniteSetTheorems, FunctionTheorems, FiniteSetsExt, TLAPS

(* A set of natural numbers that is not empty has a least element.         *)
LEMMA LeastNumber ==
  ASSUME NEW T, T \subseteq Nat, T # {}
  PROVE  \E x \in T : \A y \in T : x <= y
<1> DEFINE R == {ss \in Nat \X Nat : ss[1] < ss[2]}
<1>1. IsWellFoundedOn(R, Nat)
  BY NatLessThanWellFounded DEF OpToRel
<1> HIDE DEF R
<1>2. PICK x \in T : \A y \in T : <<y, x>> \notin R
  BY <1>1, WFMin
<1>3. ASSUME NEW y \in T
      PROVE  x <= y
  <2>1. x \in Nat /\ y \in Nat
    OBVIOUS
  <2>2. ~(y < x)
    BY <2>1, <1>2 DEF R
  <2> QED
    BY <2>1, <2>2
<1> QED
  BY <1>3

(* A bounded one has a greatest.                                           *)
LEMMA GreatestNumber ==
  ASSUME NEW T, T \subseteq Nat, T # {}, NEW n \in Nat, \A x \in T : x <= n
  PROVE  \E x \in T : \A y \in T : y <= x
<1> DEFINE Left == {n - x : x \in T}
<1>1. Left \subseteq Nat /\ Left # {}
  <2>1. \A x \in T : n - x \in Nat
    OBVIOUS
  <2>2. PICK x \in T : TRUE
    OBVIOUS
  <2>3. n - x \in Left
    BY Zenon
  <2> QED
    BY <2>1, <2>3
<1>2. PICK z \in Left : \A y \in Left : z <= y
  <2> HIDE DEF Left
  <2> QED
    BY <1>1, LeastNumber
<1>3. PICK x \in T : z = n - x
  OBVIOUS
<1>4. ASSUME NEW y \in T
      PROVE  y <= x
  <2>1. n - y \in Left
    BY Zenon
  <2>2. n - x <= n - y
    BY <1>2, <1>3, <2>1
  <2>3. x \in Nat /\ y \in Nat
    OBVIOUS
  <2> QED
    BY <2>2, <2>3
<1> QED
  BY <1>4

(* g is the function on 0 .. m that starts at a, where step[i] gives the   *)
(* value at i from the one before.                                         *)
Solves(g, m, D, a, step) ==
  /\ g \in [0 .. m -> D]
  /\ g[0] = a
  /\ \A i \in 1 .. m : g[i] = step[i][g[i - 1]]

(* A recursive definition over 0 .. m has a solution.                      *)
LEMMA Recursion ==
  ASSUME NEW D, NEW m \in Nat, NEW a \in D, NEW step \in [1 .. m -> [D -> D]]
  PROVE  \E g : Solves(g, m, D, a, step)
<1> DEFINE Upto(g, k) == g \in [0 .. k -> D] /\ g[0] = a /\ \A i \in 1 .. k : g[i] = step[i][g[i - 1]]
           Open == {k \in 0 .. m : ~ \E g : Upto(g, k)}
<1>1. SUFFICES ASSUME Open # {} PROVE FALSE
  <2>1. ASSUME Open = {} PROVE \E g : Upto(g, m)
    <3>1. m \in 0 .. m /\ m \notin Open
      <4> HIDE DEF Open
      <4> QED
        BY <2>1
    <3> HIDE DEF Upto
    <3> QED
      BY <3>1
  <2> QED
    BY <2>1 DEF Solves
<1>2. PICK k \in Open : \A l \in Open : k <= l
  <2>1. Open \subseteq Nat
    OBVIOUS
  <2> HIDE DEF Open
  <2> QED
    BY <1>1, <2>1, LeastNumber
<1>3. k # 0
  <2>1. Upto([i \in 0 .. 0 |-> a], 0)
    OBVIOUS
  <2> HIDE DEF Upto
  <2> QED
    BY <2>1, <1>2
<1>4. PICK g : Upto(g, k - 1)
  <2>1. k - 1 \in 0 .. m /\ ~(k <= k - 1)
    BY <1>3
  <2>2. k - 1 \notin Open
    <3> HIDE DEF Open
    <3> QED
      BY <1>2, <2>1
  <2> HIDE DEF Upto
  <2> QED
    BY <2>1, <2>2
<1> DEFINE h == [i \in 0 .. k |-> IF i = k THEN step[k][g[k - 1]] ELSE g[i]]
<1>5. h \in [0 .. k -> D]
  <2>1. k - 1 \in 0 .. k - 1 /\ k \in 1 .. m
    BY <1>3
  <2>2. step[k][g[k - 1]] \in D
    BY <1>4, <2>1
  <2>3. \A i \in 0 .. k : i # k => g[i] \in D
    BY <1>4
  <2> QED
    BY <2>2, <2>3
<1>6. Upto(h, k)
  <2>1. h[0] = a
    BY <1>3, <1>4
  <2>2. ASSUME NEW i \in 1 .. k
        PROVE  h[i] = step[i][h[i - 1]]
    <3>1. CASE i = k
      <4>1. k - 1 \in 0 .. k /\ k - 1 # k /\ k \in 0 .. k
        BY <1>3
      <4>2. h[k - 1] = g[k - 1] /\ h[k] = step[k][g[k - 1]]
        BY <4>1
      <4> QED
        BY <3>1, <4>2
    <3>2. CASE i # k
      <4>1. i \in 1 .. k - 1 /\ i \in 0 .. k /\ i - 1 \in 0 .. k /\ i - 1 # k
        BY <3>2
      <4>2. h[i] = g[i] /\ h[i - 1] = g[i - 1]
        BY <3>2, <4>1
      <4> QED
        BY <1>4, <4>1, <4>2
    <3> QED
      BY <3>1, <3>2
  <2> QED
    BY <1>5, <2>1, <2>2
<1> QED
  <2> HIDE DEF Upto
  <2> QED
    BY <1>2, <1>6

(* A sequence of values that starts in a set and leaves it at no step      *)
(* stays in it.                                                            *)
LEMMA Stays ==
  ASSUME NEW D, NEW m \in Nat, NEW g, g[0] \in D, \A i \in 1 .. m : g[i - 1] \in D => g[i] \in D
  PROVE  \A i \in 0 .. m : g[i] \in D
<1> DEFINE Out == {i \in 0 .. m : g[i] \notin D}
<1>1. SUFFICES ASSUME Out # {} PROVE FALSE
  OBVIOUS
<1>2. Out \subseteq Nat
  OBVIOUS
<1>3. PICK k \in Out : \A l \in Out : k <= l
  <2> HIDE DEF Out
  <2> QED
    BY <1>1, <1>2, LeastNumber
<1>4. k \in 1 .. m /\ k - 1 \in 0 .. m /\ ~(k <= k - 1)
  OBVIOUS
<1>5. k - 1 \notin Out
  BY <1>3, <1>4
<1> QED
  BY <1>3, <1>4, <1>5

(* A recursive definition over any set: a value depends on values of lower *)
(* measure, and the measure has a bound.                                   *)
LooksDown(F, S, D, mu) ==
  \A x \in S : \A h, k \in [S -> D] :
    (\A y \in S : mu[y] < mu[x] => h[y] = k[y]) => F[x][h] = F[x][k]

Measures(mu, S, M) == M \in Nat /\ \A x \in S : mu[x] \in 0 .. M
Bodies(F, S, D) == D # {} /\ F \in [S -> [[S -> D] -> D]]
Obeys(f, F, S, D) == f \in [S -> D] /\ \A x \in S : f[x] = F[x][f]

(* A recursion whose arguments have a measure in 0 .. M, and which looks   *)
(* at lower measures only, has a solution.                                 *)
LEMMA BoundedRecursion ==
  ASSUME NEW S, NEW D, NEW M, NEW mu, Measures(mu, S, M),
         NEW F, Bodies(F, S, D), LooksDown(F, S, D, mu)
  PROVE  \E f : Obeys(f, F, S, D)
<1>0. /\ M \in Nat /\ (\A x \in S : mu[x] \in 0 .. M)
      /\ D # {} /\ F \in [S -> [[S -> D] -> D]]
  BY DEF Measures, Bodies
<1> USE <1>0
<1> DEFINE E == [S -> D]
           n == M + 1
           start == [x \in S |-> CHOOSE d \in D : TRUE]
           next(h) == [x \in S |-> F[x][h]]
           step == [i \in 1 .. n |-> [h \in E |-> next(h)]]
<1>1. start \in E
  OBVIOUS
<1>2. \A h \in E : next(h) \in E
  <2> TAKE h \in E
  <2>1. \A x \in S : F[x] \in [E -> D]
    OBVIOUS
  <2>2. \A x \in S : F[x][h] \in D
    <3> HIDE DEF E
    <3> QED
      BY <2>1
  <2> QED
    BY <2>2
<1>3. step \in [1 .. n -> [E -> E]]
  <2> HIDE DEF E, next
  <2> QED
    BY <1>2
<1>4. n \in Nat /\ n \in 1 .. n
  OBVIOUS
<1>5. PICK g : Solves(g, n, E, start, step)
  <2> HIDE DEF E, n, start, step
  <2> QED
    BY <1>1, <1>3, <1>4, Recursion
<1>6. g \in [0 .. n -> E] /\ \A i \in 1 .. n : g[i] = step[i][g[i - 1]]
  BY <1>5 DEF Solves
<1>7. \A i \in 1 .. n : g[i - 1] \in E /\ g[i] \in E
  <2> TAKE i \in 1 .. n
  <2>1. i \in 0 .. n /\ i - 1 \in 0 .. n
    OBVIOUS
  <2> HIDE DEF E
  <2> QED
    BY <1>6, <2>1
<1>8. \A i \in 1 .. n : \A x \in S : g[i][x] = F[x][g[i - 1]]
  <2> TAKE i \in 1 .. n
  <2>1. g[i] = next(g[i - 1])
    <3> HIDE DEF E, next
    <3> QED
      BY <1>6, <1>7
  <2> QED
    BY <2>1
<1> DEFINE Settled(k) == \A x \in S : mu[x] < k => g[k][x] = g[k + 1][x]
           Wrong == {k \in 0 .. M : ~Settled(k)}
<1>9. Settled(0)
  <2>1. \A x \in S : ~(mu[x] < 0)
    OBVIOUS
  <2> QED
    BY <2>1
<1>10. \A k \in 1 .. M : k \in 1 .. n /\ k + 1 \in 1 .. n /\ (k + 1) - 1 = k /\ (k - 1) + 1 = k
  OBVIOUS
<1>11. ASSUME NEW k \in 1 .. M, Settled(k - 1)
       PROVE  Settled(k)
  <2> SUFFICES ASSUME NEW x \in S, mu[x] < k
               PROVE  g[k][x] = g[k + 1][x]
    OBVIOUS
  <2>1. k \in 1 .. n /\ k + 1 \in 1 .. n /\ (k + 1) - 1 = k /\ (k - 1) + 1 = k
    BY <1>10
  <2>2. g[k][x] = F[x][g[k - 1]] /\ g[k + 1][x] = F[x][g[k]]
    BY <1>8, <2>1
  <2>3. ASSUME NEW y \in S, mu[y] < mu[x]
        PROVE  g[k - 1][y] = g[k][y]
    <3>1. mu[y] < k - 1
      BY <2>3
    <3> QED
      BY <1>11, <2>1, <3>1
  <2>4. g[k - 1] \in E /\ g[k] \in E
    BY <1>7, <2>1
  <2>5. F[x][g[k - 1]] = F[x][g[k]]
    BY <2>3, <2>4 DEF LooksDown
  <2> QED
    BY <2>2, <2>5
<1>12. Wrong = {}
  <2> SUFFICES ASSUME Wrong # {} PROVE FALSE
    OBVIOUS
  <2>1. Wrong \subseteq Nat
    OBVIOUS
  <2>2. \E x \in Wrong : \A y \in Wrong : x <= y
    <3> HIDE DEF Wrong
    <3> QED
      BY <2>1, LeastNumber
  <2>3. PICK k \in Wrong : \A y \in Wrong : k <= y
    BY <2>2
  <2> HIDE DEF Settled
  <2>4. k # 0
    BY <1>9, <2>3
  <2>5. k \in 1 .. M /\ k - 1 \in 0 .. M /\ ~(k <= k - 1)
    BY <2>3, <2>4
  <2>6. Settled(k - 1)
    BY <2>3, <2>5
  <2> QED
    BY <1>11, <2>3, <2>5, <2>6
<1>13. Settled(M)
  <2> HIDE DEF Settled
  <2> QED
    BY <1>12
<1>14. ASSUME NEW x \in S
       PROVE  g[n][x] = F[x][g[n]]
  <2>1. n \in 1 .. n /\ n - 1 = M
    OBVIOUS
  <2>2. g[n][x] = F[x][g[M]] /\ g[M] \in E /\ g[n] \in E
    BY <1>7, <1>8, <2>1
  <2>3. ASSUME NEW y \in S, mu[y] < mu[x]
        PROVE  g[M][y] = g[n][y]
    <3>1. mu[y] < M
      BY <2>3
    <3> QED
      BY <1>13, <3>1
  <2>4. F[x][g[M]] = F[x][g[n]]
    BY <2>2, <2>3 DEF LooksDown
  <2> QED
    BY <2>2, <2>4
<1>15. g[n] \in E
  BY <1>7, <1>4
<1> QED
  BY <1>14, <1>15 DEF Obeys

-----------------------------------------------------------------------------
(* Elements of a finite set are ranked by how many others come before      *)
(* them.                                                                   *)
Before(R, S, c) == {x \in S : <<x, c>> \in R}

RankBy(R, S, c) == Cardinality(Before(R, S, c))

OrdersStrictly(R, S) ==
  /\ \A x \in S : <<x, x>> \notin R
  /\ \A x, y \in S : x # y => <<x, y>> \in R \/ <<y, x>> \in R
  /\ \A x, y, z \in S : <<x, y>> \in R /\ <<y, z>> \in R => <<x, z>> \in R

(* In a strict total order the ranks are 0, 1, ... and each is had once.   *)
RanksFill(R, S) ==
  /\ Cardinality(S) \in Nat
  /\ \A c \in S : RankBy(R, S, c) \in 0 .. Cardinality(S) - 1
  /\ \A c, e \in S : <<c, e>> \in R => RankBy(R, S, c) < RankBy(R, S, e)
  /\ \A c, e \in S : RankBy(R, S, c) = RankBy(R, S, e) => c = e
  /\ \A i \in 1 .. Cardinality(S) : \E c \in S : RankBy(R, S, c) = i - 1

(* The ranks of the members of a finite ordered set are 1, 2, and so on.   *)
LEMMA RanksAreDense ==
  ASSUME NEW S, IsFiniteSet(S), NEW R, OrdersStrictly(R, S)
  PROVE  RanksFill(R, S)
<1> DEFINE n == Cardinality(S)
           rank == [c \in S |-> RankBy(R, S, c)]
<1>1. n \in Nat
  BY FS_CardinalityType
<1>2. ASSUME NEW c \in S
      PROVE  /\ IsFiniteSet(Before(R, S, c)) /\ RankBy(R, S, c) \in Nat
             /\ RankBy(R, S, c) = Cardinality(Before(R, S, c))
             /\ Before(R, S, c) \in SUBSET S /\ c \notin Before(R, S, c)
  <2>1. Before(R, S, c) \in SUBSET S /\ c \notin Before(R, S, c)
    BY DEF Before, OrdersStrictly
  <2> QED
    BY <2>1, FS_Subset, FS_CardinalityType DEF RankBy
<1>3. ASSUME NEW c \in S, NEW e \in S, <<c, e>> \in R
      PROVE  RankBy(R, S, c) < RankBy(R, S, e)
  <2>1. Before(R, S, c) \in SUBSET Before(R, S, e) /\ c \in Before(R, S, e)
    BY <1>3 DEF Before, OrdersStrictly
  <2>2. /\ Cardinality(Before(R, S, c)) <= Cardinality(Before(R, S, e))
        /\ Cardinality(Before(R, S, c)) # Cardinality(Before(R, S, e))
    BY <1>2, <2>1, FS_Subset
  <2> QED
    BY <1>2, <2>2
<1>4. ASSUME NEW c \in S
      PROVE  RankBy(R, S, c) \in 0 .. n - 1
  <2>1. Cardinality(Before(R, S, c)) <= n /\ Cardinality(Before(R, S, c)) # n
    BY <1>2, FS_Subset
  <2> QED
    BY <1>1, <1>2, <2>1
<1>5. ASSUME NEW c \in S, NEW e \in S, RankBy(R, S, c) = RankBy(R, S, e)
      PROVE  c = e
  <2>1. ~(<<c, e>> \in R) /\ ~(<<e, c>> \in R)
    BY <1>2, <1>3, <1>5
  <2> QED
    BY <2>1 DEF OrdersStrictly
<1>6. rank \in Injection(S, 0 .. n - 1)
  BY <1>4, <1>5 DEF Injection, IsInjective
<1>7. IsFiniteSet(0 .. n - 1) /\ Cardinality(0 .. n - 1) = n
  BY <1>1, FS_Interval
<1>8. rank \in Surjection(S, 0 .. n - 1)
  BY <1>6, <1>7, FS_Injection
<1>9. ASSUME NEW i \in 1 .. n
      PROVE  \E c \in S : RankBy(R, S, c) = i - 1
  <2>1. i - 1 \in 0 .. n - 1
    BY <1>1
  <2>2. PICK c \in S : rank[c] = i - 1
    BY <1>8, <2>1 DEF Surjection
  <2> QED
    BY <2>2
<1> QED
  BY <1>1, <1>3, <1>4, <1>5, <1>9 DEF RanksFill

(* The elements of a finite set of numbers, ascending, as deck_indices_of  *)
(* lists the cards of a mask.                                              *)
Rank(S, c) == Cardinality({x \in S : x < c})

SmallestFirst(S) == [i \in 1 .. Cardinality(S) |-> CHOOSE c \in S : Rank(S, c) = i - 1]

(* Each of them is there once and in order.                                *)
LEMMA AscendingLists ==
  ASSUME NEW S, S \subseteq Int, IsFiniteSet(S)
  PROVE  /\ Cardinality(S) \in Nat
         /\ SmallestFirst(S) \in [1 .. Cardinality(S) -> S]
         /\ \A i, j \in 1 .. Cardinality(S) : i < j => SmallestFirst(S)[i] < SmallestFirst(S)[j]
         /\ \A c \in S : \E i \in 1 .. Cardinality(S) : SmallestFirst(S)[i] = c
         /\ \A i \in 1 .. Cardinality(S) : Rank(S, SmallestFirst(S)[i]) = i - 1
<1> DEFINE n == Cardinality(S)
           R == {p \in Int \X Int : p[1] < p[2]}
<1>1. \A x, y \in S : x \in Int /\ y \in Int /\ (<<x, y>> \in R <=> x < y)
  <2>1. \A x \in S : x \in Int
    OBVIOUS
  <2> QED
    BY <2>1
<1> HIDE DEF R
<1>2. OrdersStrictly(R, S)
  BY <1>1 DEF OrdersStrictly
<1>3. \A c \in S : Rank(S, c) = RankBy(R, S, c)
  BY <1>1 DEF Rank, RankBy, Before
<1>4. /\ n \in Nat
      /\ \A c \in S : Rank(S, c) \in 0 .. n - 1
      /\ \A c, e \in S : c < e => Rank(S, c) < Rank(S, e)
      /\ \A c, e \in S : Rank(S, c) = Rank(S, e) => c = e
      /\ \A i \in 1 .. n : \E c \in S : Rank(S, c) = i - 1
  <2>1. RanksFill(R, S)
    BY <1>2, RanksAreDense
  <2>2. n \in Nat /\ \A c \in S : Rank(S, c) \in 0 .. n - 1
    BY <1>3, <2>1 DEF RanksFill
  <2>3. ASSUME NEW c \in S, NEW e \in S
        PROVE  /\ c < e => Rank(S, c) < Rank(S, e)
               /\ Rank(S, c) = Rank(S, e) => c = e
    <3>1. Rank(S, c) = RankBy(R, S, c) /\ Rank(S, e) = RankBy(R, S, e)
      BY <1>3
    <3> QED
      BY <1>1, <2>1, <3>1 DEF RanksFill
  <2>4. ASSUME NEW i \in 1 .. n
        PROVE  \E c \in S : Rank(S, c) = i - 1
    <3>1. PICK c \in S : RankBy(R, S, c) = i - 1
      BY <2>1 DEF RanksFill
    <3> QED
      BY <1>3, <3>1
  <2> QED
    BY <2>2, <2>3, <2>4
<1>5. ASSUME NEW i \in 1 .. n
      PROVE  SmallestFirst(S)[i] \in S /\ Rank(S, SmallestFirst(S)[i]) = i - 1
  <2>1. PICK c \in S : Rank(S, c) = i - 1
    BY <1>4
  <2> QED
    BY <2>1 DEF SmallestFirst
<1>6. SmallestFirst(S) \in [1 .. n -> S]
  BY <1>5 DEF SmallestFirst
<1>7. ASSUME NEW i \in 1 .. n, NEW j \in 1 .. n, i < j
      PROVE  SmallestFirst(S)[i] < SmallestFirst(S)[j]
  <2>1. SmallestFirst(S)[i] \in Int /\ SmallestFirst(S)[j] \in Int
    BY <1>5
  <2>2. ~(Rank(S, SmallestFirst(S)[j]) < Rank(S, SmallestFirst(S)[i])) /\ SmallestFirst(S)[i] # SmallestFirst(S)[j]
    BY <1>5, <1>7
  <2> QED
    BY <2>1, <2>2, <1>4, <1>5
<1>8. ASSUME NEW c \in S
      PROVE  \E i \in 1 .. n : SmallestFirst(S)[i] = c
  <2>1. Rank(S, c) \in Nat /\ Rank(S, c) + 1 \in 1 .. n
    BY <1>4
  <2>2. (Rank(S, c) + 1) - 1 = Rank(S, c)
    BY <2>1
  <2>3. SmallestFirst(S)[Rank(S, c) + 1] \in S /\ Rank(S, SmallestFirst(S)[Rank(S, c) + 1]) = Rank(S, c)
    BY <1>5, <2>1, <2>2
  <2> QED
    BY <2>1, <2>3, <1>4
<1> QED
  BY <1>4, <1>5, <1>6, <1>7, <1>8

-----------------------------------------------------------------------------
(* A family of finite sets has a smallest one.                             *)
LEMMA SmallestSet ==
  ASSUME NEW F, F # {}, \A T \in F : IsFiniteSet(T)
  PROVE  \E T \in F : \A U \in F : Cardinality(T) <= Cardinality(U)
<1> DEFINE Sizes == {Cardinality(T) : T \in F}
<1>1. Sizes \subseteq Nat /\ Sizes # {}
  BY FS_CardinalityType
<1>2. PICK n \in Sizes : \A m \in Sizes : n <= m
  <2> HIDE DEF Sizes
  <2> QED
    BY <1>1, LeastNumber
<1> QED
  BY <1>2

(* g[s] is the sum of f over s, for every subset s of S, the way the folds *)
(* of the community modules compute it.                                    *)
Some(s) == CHOOSE x \in s : TRUE

IsSum(g, f, S) == g = [s \in SUBSET S |-> IF s = {} THEN 0 ELSE f[Some(s)] + g[s \ {Some(s)}]]

(* The first step of a sum.                                                *)
LEMMA SumStep ==
  ASSUME NEW g, NEW f, NEW S, IsSum(g, f, S), NEW s \in SUBSET S
  PROVE  /\ s = {} => g[s] = 0
         /\ s # {} => Some(s) \in s /\ g[s] = f[Some(s)] + g[s \ {Some(s)}]
<1>1. \A t \in SUBSET S : g[t] = IF t = {} THEN 0 ELSE f[Some(t)] + g[t \ {Some(t)}]
  BY DEF IsSum
<1>2. s # {} => Some(s) \in s
  BY DEF Some
<1> QED
  BY <1>1, <1>2

(* The sum is a matter of the values on the set.                           *)
LEMMA OneSum ==
  ASSUME NEW S, NEW T, NEW f, NEW h, NEW g, NEW k, NEW u,
         IsFiniteSet(u), u \subseteq S, u \subseteq T, IsSum(g, f, S), IsSum(k, h, T),
         \A x \in u : f[x] = h[x]
  PROVE  g[u] = k[u]
<1> DEFINE Wrong == {s \in SUBSET u : g[s] # k[s]}
<1>1. SUFFICES ASSUME Wrong # {} PROVE FALSE
  <2>1. u \in SUBSET u
    OBVIOUS
  <2> QED
    BY <2>1
<1>2. PICK s \in Wrong : \A r \in Wrong : Cardinality(s) <= Cardinality(r)
  <2>1. \A r \in Wrong : IsFiniteSet(r)
    BY FS_Subset
  <2> HIDE DEF Wrong
  <2> QED
    BY <1>1, <2>1, SmallestSet
<1>3. s \in SUBSET S /\ s \in SUBSET T /\ s \subseteq u /\ IsFiniteSet(s)
  BY <1>2, FS_Subset
<1>4. s # {}
  BY <1>2, <1>3, SumStep
<1> DEFINE x == Some(s)
           r == s \ {x}
<1>5. x \in s /\ g[s] = f[x] + g[r] /\ k[s] = h[x] + k[r]
  BY <1>3, <1>4, SumStep
<1>6. r \notin Wrong
  <2>1. Cardinality(r) = Cardinality(s) - 1 /\ Cardinality(s) \in Nat
    BY <1>3, <1>5, FS_RemoveElement, FS_CardinalityType
  <2>2. ~(Cardinality(s) <= Cardinality(r))
    BY <2>1
  <2> QED
    BY <1>2, <2>2
<1>7. g[r] = k[r] /\ f[x] = h[x]
  BY <1>3, <1>5, <1>6
<1> QED
  BY <1>2, <1>5, <1>7

(* There is a sum.                                                         *)
LEMMA SumExists ==
  ASSUME NEW S, IsFiniteSet(S), NEW f, \A x \in S : f[x] \in Int
  PROVE  \E g : IsSum(g, f, S) /\ \A s \in SUBSET S : g[s] \in Int
<1> DEFINE n == Cardinality(S)
           D == [SUBSET S -> Int]
           zero == [s \in SUBSET S |-> 0]
           more(g) == [s \in SUBSET S |-> IF s = {} THEN 0 ELSE f[Some(s)] + g[s \ {Some(s)}]]
           step == [i \in 1 .. n + 1 |-> [g \in D |-> more(g)]]
<1>1. n \in Nat /\ n + 1 \in Nat
  BY FS_CardinalityType
<1>2. \A s \in SUBSET S : s # {} => Some(s) \in s
  BY DEF Some
<1>3. ASSUME NEW g \in D
      PROVE  more(g) \in D
  BY <1>2
<1>4. zero \in D /\ step \in [1 .. n + 1 -> [D -> D]]
  <2>1. zero \in D
    OBVIOUS
  <2> HIDE DEF D, more, zero
  <2>2. [g \in D |-> more(g)] \in [D -> D]
    BY <1>3
  <2> QED
    BY <2>1, <2>2
<1>5. PICK G : Solves(G, n + 1, D, zero, step)
  <2> HIDE DEF D, zero, step, n
  <2> QED
    BY <1>1, <1>4, Recursion
<1>6. \A i \in 0 .. n + 1 : G[i] \in D
  BY <1>5 DEF Solves
<1>7. ASSUME NEW i \in 1 .. n + 1
      PROVE  G[i] = more(G[i - 1])
  <2>1. i - 1 \in 0 .. n + 1
    BY <1>1
  <2>2. G[i] = step[i][G[i - 1]]
    BY <1>5 DEF Solves
  <2>3. G[i - 1] \in D
    BY <1>6, <2>1
  <2> HIDE DEF D, more
  <2> QED
    BY <2>2, <2>3
<1> HIDE DEF D, zero, step
<1> DEFINE Wrong == {i \in 0 .. n : \E s \in SUBSET S : Cardinality(s) <= i /\ G[i][s] # G[i + 1][s]}
<1>8. Wrong = {}
  <2> SUFFICES ASSUME Wrong # {} PROVE FALSE
    OBVIOUS
  <2>1. PICK i \in Wrong : \A j \in Wrong : i <= j
    <3>1. Wrong \subseteq Nat
      BY <1>1
    <3> HIDE DEF Wrong
    <3> QED
      BY <3>1, LeastNumber
  <2>2. i \in 0 .. n /\ i \in Nat /\ i + 1 \in 1 .. n + 1 /\ (i + 1) - 1 = i
    BY <1>1, <2>1
  <2>3. PICK s \in SUBSET S : Cardinality(s) <= i /\ G[i][s] # G[i + 1][s]
    BY <2>1
  <2>4. IsFiniteSet(s) /\ Cardinality(s) \in Nat
    BY FS_Subset, FS_CardinalityType
  <2>5. G[i + 1] = more(G[i])
    BY <2>2, <1>7
  <2>6. CASE i = 0
    <3>1. s = {}
      BY <2>3, <2>4, <2>6, FS_EmptySet
    <3>2. G[0] = zero
      BY <1>5 DEF Solves
    <3> QED
      BY <2>3, <2>5, <2>6, <3>1, <3>2 DEF zero
  <2>7. CASE i # 0
    <3>1. i \in 1 .. n + 1 /\ i - 1 \in 0 .. n /\ (i - 1) + 1 = i /\ ~(i <= i - 1)
      <4> HIDE DEF n
      <4> QED
        BY <1>1, <2>2, <2>7
    <3>2. G[i] = more(G[i - 1])
      BY <3>1, <1>7
    <3>3. s # {}
      BY <2>3, <2>5, <3>2
    <3>4. G[i][s] = f[Some(s)] + G[i - 1][s \ {Some(s)}] /\ G[i + 1][s] = f[Some(s)] + G[i][s \ {Some(s)}]
      BY <2>5, <3>2, <3>3
    <3>5. Cardinality(s \ {Some(s)}) <= i - 1
      <4>1. Cardinality(s \ {Some(s)}) = Cardinality(s) - 1
        BY <1>2, <2>4, <3>3, FS_RemoveElement
      <4> QED
        BY <4>1, <2>2, <2>3, <2>4
    <3>6. i - 1 \notin Wrong
      BY <2>1, <3>1
    <3>7. G[i - 1][s \ {Some(s)}] = G[i][s \ {Some(s)}]
      BY <3>1, <3>5, <3>6
    <3> QED
      BY <2>3, <3>4, <3>7
  <2> QED
    BY <2>6, <2>7
<1>9. G[n] = G[n + 1]
  <2>1. n \notin Wrong /\ n \in 0 .. n
    <3> HIDE DEF Wrong
    <3> QED
      BY <1>1, <1>8
  <2>2. \A s \in SUBSET S : Cardinality(s) <= n
    BY FS_Subset
  <2>3. \A s \in SUBSET S : G[n][s] = G[n + 1][s]
    BY <2>1, <2>2
  <2>4. G[n] \in D /\ G[n + 1] \in D
    BY <1>1, <1>6
  <2> QED
    BY <2>3, <2>4 DEF D
<1>10. IsSum(G[n], f, S)
  <2>1. n + 1 \in 1 .. n + 1 /\ (n + 1) - 1 = n
    BY <1>1
  <2>2. G[n + 1] = more(G[n])
    BY <2>1, <1>7
  <2> QED
    BY <2>2, <1>9 DEF IsSum
<1>11. \A s \in SUBSET S : G[n][s] \in Int
  BY <1>1, <1>6 DEF D
<1> QED
  BY <1>10, <1>11

(* What the sum over a set is: any element and the sum of the others.      *)
SumOn(f, S) == (CHOOSE g : IsSum(g, f, S))[S]

(* A sum over a finite set of numbers is a number, by one element at a     *)
(* time.                                                                   *)
LEMMA SumOnIs ==
  ASSUME NEW S, IsFiniteSet(S), NEW f, \A x \in S : f[x] \in Int
  PROVE  /\ SumOn(f, {}) = 0
         /\ SumOn(f, S) \in Int
         /\ S # {} => SumOn(f, S) = f[Some(S)] + SumOn(f, S \ {Some(S)})
<1> DEFINE chosen(T) == CHOOSE g : IsSum(g, f, T)
<1>1. ASSUME NEW T \in SUBSET S
      PROVE  IsSum(chosen(T), f, T) /\ chosen(T)[T] \in Int
  <2>1. IsFiniteSet(T)
    BY FS_Subset
  <2>2. PICK g : IsSum(g, f, T) /\ \A s \in SUBSET T : g[s] \in Int
    BY <2>1, SumExists
  <2>3. IsSum(chosen(T), f, T)
    BY <2>2
  <2>4. g[T] = chosen(T)[T]
    <3> HIDE DEF chosen
    <3> QED
      BY <2>1, <2>2, <2>3, OneSum
  <2> QED
    BY <2>2, <2>3, <2>4
<1>2. \A T : SumOn(f, T) = chosen(T)[T]
  BY DEF SumOn
<1> HIDE DEF chosen
<1>3. SumOn(f, {}) = 0
  <2>1. IsSum(chosen({}), f, {}) /\ {} \in SUBSET {}
    BY <1>1
  <2>2. chosen({})[{}] = 0
    BY <2>1, SumStep
  <2> QED
    BY <2>2, <1>2
<1>4. ASSUME S # {}
      PROVE  SumOn(f, S) = f[Some(S)] + SumOn(f, S \ {Some(S)})
  <2> DEFINE r == S \ {Some(S)}
  <2>1. chosen(S)[S] = f[Some(S)] + chosen(S)[r]
    BY <1>1, <1>4, SumStep
  <2>2. chosen(S)[r] = chosen(r)[r]
    <3>1. IsFiniteSet(r) /\ r \subseteq S /\ r \in SUBSET S
      BY FS_Subset
    <3> HIDE DEF r
    <3> QED
      BY <3>1, <1>1, OneSum
  <2> QED
    BY <2>1, <2>2, <1>2
<1> QED
  BY <1>1, <1>2, <1>3, <1>4

(* Functions that agree on a set have the same sum over it.                *)
LEMMA SumOnSame ==
  ASSUME NEW S, IsFiniteSet(S), NEW f, NEW h, \A x \in S : f[x] \in Int /\ f[x] = h[x]
  PROVE  SumOn(f, S) = SumOn(h, S)
<1>1. \E g : IsSum(g, f, S)
  BY SumExists
<1>2. \E g : IsSum(g, h, S)
  <2>1. \A x \in S : h[x] \in Int
    OBVIOUS
  <2> QED
    BY <2>1, SumExists
<1>3. IsSum(CHOOSE g : IsSum(g, f, S), f, S)
  BY <1>1
<1>4. IsSum(CHOOSE g : IsSum(g, h, S), h, S)
  BY <1>2
<1> DEFINE a == CHOOSE g : IsSum(g, f, S)
           b == CHOOSE g : IsSum(g, h, S)
<1>5. IsSum(a, f, S) /\ IsSum(b, h, S) /\ SumOn(f, S) = a[S] /\ SumOn(h, S) = b[S]
  BY <1>3, <1>4 DEF SumOn
<1> HIDE DEF a, b
<1>6. a[S] = b[S]
  <2>1. S \subseteq S /\ \A x \in S : f[x] = h[x]
    OBVIOUS
  <2> QED
    BY <2>1, <1>5, OneSum
<1> QED
  BY <1>5, <1>6

(* Any element may be taken out first.                                     *)
LEMMA SumOnRemove ==
  ASSUME NEW S, IsFiniteSet(S), NEW f, \A x \in S : f[x] \in Int, NEW e \in S
  PROVE  SumOn(f, S) = f[e] + SumOn(f, S \ {e})
<1> DEFINE Wrong == {s \in SUBSET S : \E x \in s : SumOn(f, s) # f[x] + SumOn(f, s \ {x})}
<1>1. SUFFICES ASSUME Wrong # {} PROVE FALSE
  <2>1. S \in SUBSET S
    OBVIOUS
  <2> QED
    BY <2>1
<1>2. PICK s \in Wrong : \A r \in Wrong : Cardinality(s) <= Cardinality(r)
  <2>1. \A r \in Wrong : IsFiniteSet(r)
    BY FS_Subset
  <2> HIDE DEF Wrong
  <2> QED
    BY <1>1, <2>1, SmallestSet
<1>3. s \in SUBSET S /\ IsFiniteSet(s)
  BY <1>2, FS_Subset
<1>4. PICK x \in s : SumOn(f, s) # f[x] + SumOn(f, s \ {x})
  BY <1>2
<1> DEFINE y == Some(s)
<1>5. y \in s /\ SumOn(f, s) = f[y] + SumOn(f, s \ {y})
  BY <1>3, <1>4, SumOnIs DEF Some
<1>6. x # y
  BY <1>4, <1>5
<1> HIDE DEF y
<1>7. ASSUME NEW z \in s
      PROVE  s \ {z} \notin Wrong /\ s \ {z} \in SUBSET S
  <2>1. Cardinality(s \ {z}) = Cardinality(s) - 1 /\ Cardinality(s) \in Nat
    BY <1>3, FS_RemoveElement, FS_CardinalityType
  <2>2. ~(Cardinality(s) <= Cardinality(s \ {z}))
    BY <2>1
  <2> QED
    BY <1>2, <1>3, <2>2
<1>8. SumOn(f, s \ {y}) = f[x] + SumOn(f, (s \ {y}) \ {x})
  BY <1>4, <1>5, <1>6, <1>7
<1>9. SumOn(f, s \ {x}) = f[y] + SumOn(f, (s \ {x}) \ {y})
  BY <1>4, <1>5, <1>6, <1>7
<1>10. (s \ {y}) \ {x} = (s \ {x}) \ {y}
  OBVIOUS
<1>11. SumOn(f, (s \ {x}) \ {y}) \in Int /\ f[x] \in Int /\ f[y] \in Int
  <2>1. (s \ {x}) \ {y} \in SUBSET S
    BY <1>3
  <2>2. IsFiniteSet((s \ {x}) \ {y}) /\ \A z \in (s \ {x}) \ {y} : f[z] \in Int
    BY <2>1, FS_Subset
  <2> QED
    BY <2>2, <1>3, <1>5, SumOnIs
<1> DEFINE rest == SumOn(f, (s \ {x}) \ {y})
<1>12. SumOn(f, s) = f[y] + (f[x] + rest)
  BY <1>5, <1>8, <1>10
<1>13. f[x] + SumOn(f, s \ {x}) = f[x] + (f[y] + rest)
  BY <1>9
<1>14. f[y] + (f[x] + rest) = f[x] + (f[y] + rest)
  <2> HIDE DEF rest
  <2>1. rest \in Int /\ f[x] \in Int /\ f[y] \in Int
    BY <1>11 DEF rest
  <2> QED
    BY <2>1
<1> QED
  BY <1>4, <1>12, <1>13, <1>14

(* The community modules' sum of a function.                               *)
LEMMA SumFunctionIs ==
  ASSUME NEW f
  PROVE  SumFunction(f) = SumOn(f, DOMAIN f)
BY DEF SumFunction, SumFunctionOnSet, FoldFunctionOnSet, MapThenFoldSet, SumOn, IsSum, Some

(* The sum when one value grows by d.                                      *)
LEMMA SumOnChanged ==
  ASSUME NEW S, IsFiniteSet(S), NEW f, NEW h, NEW e \in S, NEW d \in Int,
         \A x \in S : f[x] \in Int, h[e] = f[e] + d, \A x \in S \ {e} : h[x] = f[x]
  PROVE  SumOn(h, S) = SumOn(f, S) + d
<1> DEFINE R == S \ {e}
<1>1. IsFiniteSet(R) /\ \A x \in R : f[x] \in Int /\ f[x] = h[x]
  BY FS_RemoveElement
<1>2. \A x \in S : h[x] \in Int
  BY <1>1
<1>3. SumOn(f, S) = f[e] + SumOn(f, R) /\ SumOn(h, S) = h[e] + SumOn(h, R)
  BY <1>2, SumOnRemove
<1>4. SumOn(f, R) = SumOn(h, R) /\ SumOn(f, R) \in Int
  <2> HIDE DEF R
  <2> QED
    BY <1>1, SumOnSame, SumOnIs
<1> QED
  BY <1>3, <1>4

(* By one, in particular.                                                  *)
LEMMA SumOnMore ==
  ASSUME NEW S, IsFiniteSet(S), NEW f, NEW h, NEW e \in S,
         \A x \in S : f[x] \in Int, h[e] = f[e] + 1, \A x \in S \ {e} : h[x] = f[x]
  PROVE  SumOn(h, S) = SumOn(f, S) + 1
<1>1. 1 \in Int
  OBVIOUS
<1> QED
  BY <1>1, SumOnChanged

(* And when one is added.                                                  *)
LEMMA SumOnNew ==
  ASSUME NEW S, IsFiniteSet(S), NEW f, NEW h, NEW e, e \notin S,
         \A x \in S : f[x] \in Int, h[e] \in Int, \A x \in S : h[x] = f[x]
  PROVE  SumOn(h, S \union {e}) = h[e] + SumOn(f, S)
<1> DEFINE T == S \union {e}
<1>1. IsFiniteSet(T) /\ e \in T /\ T \ {e} = S /\ \A x \in T : h[x] \in Int
  BY FS_AddElement
<1>2. SumOn(h, T) = h[e] + SumOn(h, T \ {e})
  <2> HIDE DEF T
  <2> QED
    BY <1>1, SumOnRemove
<1>3. SumOn(f, S) = SumOn(h, S)
  BY SumOnSame
<1> QED
  BY <1>1, <1>2, <1>3

(* Nothing adds up to nothing.                                             *)
LEMMA SumOnZero ==
  ASSUME NEW S, IsFiniteSet(S), NEW f, \A x \in S : f[x] = 0
  PROVE  SumOn(f, S) = 0
<1> DEFINE Wrong == {s \in SUBSET S : SumOn(f, s) # 0}
<1>1. SUFFICES ASSUME Wrong # {} PROVE FALSE
  <2>1. S \in SUBSET S
    OBVIOUS
  <2> QED
    BY <2>1
<1>2. PICK s \in Wrong : \A r \in Wrong : Cardinality(s) <= Cardinality(r)
  <2>1. \A r \in Wrong : IsFiniteSet(r)
    BY FS_Subset
  <2> HIDE DEF Wrong
  <2> QED
    BY <1>1, <2>1, SmallestSet
<1>3. s \in SUBSET S /\ IsFiniteSet(s) /\ SumOn(f, s) # 0 /\ \A x \in s : f[x] \in Int
  BY <1>2, FS_Subset
<1>4. SumOn(f, {}) = 0 /\ (s # {} => SumOn(f, s) = f[Some(s)] + SumOn(f, s \ {Some(s)}))
  BY <1>3, SumOnIs
<1>5. s # {} /\ Some(s) \in s
  BY <1>3, <1>4 DEF Some
<1>6. s \ {Some(s)} \notin Wrong
  <2>1. Cardinality(s \ {Some(s)}) = Cardinality(s) - 1 /\ Cardinality(s) \in Nat
    BY <1>3, <1>5, FS_RemoveElement, FS_CardinalityType
  <2>2. ~(Cardinality(s) <= Cardinality(s \ {Some(s)}))
    BY <2>1
  <2> QED
    BY <1>2, <2>2
<1>7. SumOn(f, s \ {Some(s)}) = 0
  BY <1>3, <1>6
<1> QED
  BY <1>3, <1>4, <1>5, <1>7

(* The numbers of S, and no more, decide: a smaller table has a smaller    *)
(* sum.                                                                    *)
LEMMA SumOnAtMost ==
  ASSUME NEW S, IsFiniteSet(S), NEW f, NEW h,
         \A x \in S : f[x] \in Int /\ h[x] \in Int /\ f[x] <= h[x]
  PROVE  SumOn(f, S) <= SumOn(h, S)
<1> DEFINE Wrong == {s \in SUBSET S : ~(SumOn(f, s) <= SumOn(h, s))}
<1>1. SUFFICES ASSUME Wrong # {} PROVE FALSE
  <2>1. S \in SUBSET S
    OBVIOUS
  <2> QED
    BY <2>1
<1>2. PICK s \in Wrong : \A r \in Wrong : Cardinality(s) <= Cardinality(r)
  <2>1. \A r \in Wrong : IsFiniteSet(r)
    BY FS_Subset
  <2> HIDE DEF Wrong
  <2> QED
    BY <1>1, <2>1, SmallestSet
<1>3. /\ s \in SUBSET S /\ IsFiniteSet(s) /\ ~(SumOn(f, s) <= SumOn(h, s))
      /\ (\A x \in s : f[x] \in Int) /\ (\A x \in s : h[x] \in Int)
  BY <1>2, FS_Subset
<1>4. s # {}
  <2>1. ASSUME s = {} PROVE FALSE
    <3>1. SumOn(f, s) = 0 /\ SumOn(h, s) = 0
      BY <1>3, <2>1, SumOnIs
    <3> QED
      BY <3>1, <1>3
  <2> QED
    BY <2>1
<1>5. PICK e \in s : TRUE
  BY <1>4
<1> DEFINE r == s \ {e}
<1>6. SumOn(f, s) = f[e] + SumOn(f, r) /\ SumOn(h, s) = h[e] + SumOn(h, r)
  BY <1>3, <1>5, SumOnRemove
<1>7. r \in SUBSET S /\ IsFiniteSet(r) /\ (\A x \in r : f[x] \in Int) /\ (\A x \in r : h[x] \in Int)
  BY <1>3, <1>5, FS_RemoveElement
<1>8. SumOn(f, r) \in Int /\ SumOn(h, r) \in Int
  <2> HIDE DEF r
  <2> QED
    BY <1>7, SumOnIs
<1>9. SumOn(f, r) <= SumOn(h, r)
  <2>1. Cardinality(r) = Cardinality(s) - 1 /\ Cardinality(s) \in Nat
    BY <1>3, <1>5, FS_RemoveElement, FS_CardinalityType
  <2>2. ~(Cardinality(s) <= Cardinality(r))
    BY <2>1
  <2>3. r \notin Wrong
    <3> HIDE DEF Wrong, r
    <3> QED
      BY <1>2, <2>2
  <2> QED
    BY <2>3, <1>7
<1>10. e \in S /\ f[e] \in Int /\ h[e] \in Int /\ f[e] <= h[e]
  BY <1>3, <1>5
<1> HIDE DEF r
<1> QED
  BY <1>3, <1>6, <1>8, <1>9, <1>10

(* Tables one of which is the smaller everywhere, and which have the same  *)
(* sum, are the same.                                                      *)
AtMost(f, h, S) == \A x \in S : f[x] \in Int /\ h[x] \in Int /\ f[x] <= h[x]

(* Equal sums, equal tables.                                               *)
LEMMA SumOnTight ==
  ASSUME NEW S, IsFiniteSet(S), NEW f, NEW h, NEW e \in S, AtMost(f, h, S),
         SumOn(f, S) = SumOn(h, S)
  PROVE  f[e] = h[e]
<1> USE DEF AtMost
<1> DEFINE r == S \ {e}
<1>1. SumOn(f, S) = f[e] + SumOn(f, r) /\ SumOn(h, S) = h[e] + SumOn(h, r)
  BY SumOnRemove
<1>2. IsFiniteSet(r) /\ \A x \in r : f[x] \in Int /\ h[x] \in Int /\ f[x] <= h[x]
  BY FS_RemoveElement
<1>3. SumOn(f, r) \in Int /\ SumOn(h, r) \in Int
  <2> HIDE DEF r
  <2> QED
    BY <1>2, SumOnIs
<1>4. SumOn(f, r) <= SumOn(h, r)
  <2> HIDE DEF r
  <2> QED
    BY <1>2, SumOnAtMost
<1>5. f[e] \in Int /\ h[e] \in Int /\ f[e] <= h[e]
  OBVIOUS
<1>6. f[e] + SumOn(f, r) = h[e] + SumOn(h, r)
  BY <1>1
<1> HIDE DEF r
<1> QED
  BY <1>3, <1>4, <1>5, <1>6

(* What one element passes to another leaves the sum alone.                *)
LEMMA SumOnMoved ==
  ASSUME NEW S, IsFiniteSet(S), NEW f, NEW h, NEW e \in S, NEW o \in S, e # o,
         \A x \in S : f[x] \in Int /\ h[x] \in Int,
         h[e] + h[o] = f[e] + f[o], \A x \in S \ {e, o} : h[x] = f[x]
  PROVE  SumOn(h, S) = SumOn(f, S)
<1> DEFINE R == S \ {e}
           Q == R \ {o}
<1>1. IsFiniteSet(R) /\ IsFiniteSet(Q) /\ o \in R
  BY FS_RemoveElement
<1>2. SumOn(f, S) = f[e] + SumOn(f, R) /\ SumOn(h, S) = h[e] + SumOn(h, R)
  BY SumOnRemove
<1>3. SumOn(f, R) = f[o] + SumOn(f, Q) /\ SumOn(h, R) = h[o] + SumOn(h, Q)
  <2>1. \A x \in R : f[x] \in Int /\ h[x] \in Int
    OBVIOUS
  <2> HIDE DEF R
  <2> QED
    BY <1>1, <2>1, SumOnRemove
<1>4. SumOn(f, Q) = SumOn(h, Q) /\ SumOn(f, Q) \in Int
  <2>1. \A x \in Q : f[x] \in Int /\ f[x] = h[x]
    OBVIOUS
  <2> HIDE DEF Q, R
  <2> QED
    BY <1>1, <2>1, SumOnSame, SumOnIs
<1>5. f[e] \in Int /\ f[o] \in Int /\ h[e] \in Int /\ h[o] \in Int
  OBVIOUS
<1> HIDE DEF Q, R
<1> QED
  BY <1>2, <1>3, <1>4, <1>5

(* Every number multiplied by n and lowered by c.                          *)
Shifts(h, f, S, n, c) == \A x \in S : f[x] \in Int /\ h[x] = n * f[x] - c

(* The sum of a table that is shifted and scaled.                          *)
LEMMA SumOnShifted ==
  ASSUME NEW S, IsFiniteSet(S), NEW f, NEW h, NEW n \in Int, NEW c \in Int, Shifts(h, f, S, n, c)
  PROVE  SumOn(h, S) = n * SumOn(f, S) - c * Cardinality(S)
<1> USE DEF Shifts
<1> DEFINE Wrong == {s \in SUBSET S : SumOn(h, s) # n * SumOn(f, s) - c * Cardinality(s)}
<1>1. SUFFICES ASSUME Wrong # {} PROVE FALSE
  <2>1. S \in SUBSET S
    OBVIOUS
  <2> QED
    BY <2>1
<1>2. PICK s \in Wrong : \A r \in Wrong : Cardinality(s) <= Cardinality(r)
  <2>1. \A r \in Wrong : IsFiniteSet(r)
    BY FS_Subset
  <2> HIDE DEF Wrong
  <2> QED
    BY <1>1, <2>1, SmallestSet
<1>3. /\ s \in SUBSET S /\ IsFiniteSet(s) /\ SumOn(h, s) # n * SumOn(f, s) - c * Cardinality(s)
      /\ (\A x \in s : f[x] \in Int) /\ (\A x \in s : h[x] \in Int)
  <2>1. \A x \in S : h[x] \in Int
    OBVIOUS
  <2> QED
    BY <1>2, <2>1, FS_Subset
<1>4. s # {}
  <2>1. ASSUME s = {} PROVE FALSE
    <3>1. SumOn(f, s) = 0 /\ SumOn(h, s) = 0 /\ Cardinality(s) = 0
      BY <1>3, <2>1, SumOnIs, FS_EmptySet
    <3> QED
      BY <3>1, <1>3
  <2> QED
    BY <2>1
<1>5. PICK e \in s : TRUE
  BY <1>4
<1> DEFINE r == s \ {e}
<1>6. SumOn(f, s) = f[e] + SumOn(f, r) /\ SumOn(h, s) = h[e] + SumOn(h, r)
  BY <1>3, <1>5, SumOnRemove
<1>7. r \in SUBSET S /\ IsFiniteSet(r) /\ (\A x \in r : f[x] \in Int)
  BY <1>3, <1>5, FS_RemoveElement
<1>8. SumOn(f, r) \in Int
  <2> HIDE DEF r
  <2> QED
    BY <1>7, SumOnIs
<1>9. Cardinality(r) = Cardinality(s) - 1 /\ Cardinality(s) \in Nat
  BY <1>3, <1>5, FS_RemoveElement, FS_CardinalityType
<1>10. SumOn(h, r) = n * SumOn(f, r) - c * Cardinality(r)
  <2>2. ~(Cardinality(s) <= Cardinality(r))
    BY <1>9
  <2>3. r \notin Wrong
    <3> HIDE DEF Wrong, r
    <3> QED
      BY <1>2, <2>2
  <2> QED
    BY <2>3, <1>7
<1>11. e \in S /\ f[e] \in Int /\ h[e] = n * f[e] - c
  BY <1>3, <1>5
<1> HIDE DEF r
<1> DEFINE a == f[e]
           b == SumOn(f, r)
           k == Cardinality(s)
<1>12. (n * a - c) + (n * b - c * (k - 1)) = n * (a + b) - c * k
  <2>1. a \in Int /\ b \in Int /\ k \in Int
    BY <1>8, <1>9, <1>11
  <2> HIDE DEF a, b, k
  <2> QED
    BY <2>1
<1> QED
  BY <1>3, <1>6, <1>9, <1>10, <1>11, <1>12

-----------------------------------------------------------------------------
(* A correspondence between two finite sets: each has an inverse image.    *)
Corresponds(S, T, f) ==
  /\ \A x \in S : f[x] \in T
  /\ \A x, y \in S : f[x] = f[y] => x = y
  /\ \A z \in T : \E x \in S : f[x] = z

(* Sets that correspond have as many elements.                             *)
LEMMA SameSize ==
  ASSUME NEW S, NEW T, NEW f, IsFiniteSet(S), Corresponds(S, T, f)
  PROVE  IsFiniteSet(T) /\ Cardinality(T) = Cardinality(S)
<1> DEFINE g == [x \in S |-> f[x]]
<1>1. g \in [S -> T]
  BY DEF Corresponds
<1>2. g \in Bijection(S, T)
  <2>1. \A x, y \in S : g[x] = g[y] => x = y
    BY DEF Corresponds
  <2>2. \A z \in T : \E x \in S : g[x] = z
    BY DEF Corresponds
  <2> HIDE DEF g
  <2> QED
    BY <1>1, <2>1, <2>2 DEF Bijection, Injection, Surjection, IsInjective
<1>3. ExistsBijection(S, T)
  BY <1>2 DEF ExistsBijection
<1> QED
  BY <1>3, FS_Bijection

(* The pairs of an element of F and one of the set that goes with it.      *)
Pairs(F, X, g) == {p \in F \X X : p[2] \in g[p[1]]}

(* Pairs are counted by what goes with each: always c.                     *)
LEMMA EqualShares ==
  ASSUME NEW F, NEW X, NEW g, NEW c \in Nat, IsFiniteSet(F), IsFiniteSet(X),
         \A T \in F : g[T] \subseteq X /\ Cardinality(g[T]) = c
  PROVE  /\ IsFiniteSet(Pairs(F, X, g))
         /\ Cardinality(Pairs(F, X, g)) = c * Cardinality(F)
<1> DEFINE Wrong == {G \in SUBSET F : Cardinality(Pairs(G, X, g)) # c * Cardinality(G)}
<1>0. ASSUME NEW G \in SUBSET F
      PROVE  IsFiniteSet(G) /\ Cardinality(G) \in Nat /\ IsFiniteSet(Pairs(G, X, g))
  <2>1. IsFiniteSet(G)
    BY FS_Subset
  <2>2. IsFiniteSet(G \X X)
    BY <2>1, FS_Product
  <2>3. Pairs(G, X, g) \in SUBSET (G \X X)
    BY DEF Pairs
  <2>4. IsFiniteSet(Pairs(G, X, g))
    BY <2>2, <2>3, FS_Subset
  <2> QED
    BY <2>1, <2>4, FS_CardinalityType
<1>1. SUFFICES ASSUME Wrong # {} PROVE FALSE
  <2>1. F \in SUBSET F
    OBVIOUS
  <2> QED
    BY <2>1, <1>0
<1>2. PICK G \in Wrong : \A H \in Wrong : Cardinality(G) <= Cardinality(H)
  <2>1. \A H \in Wrong : IsFiniteSet(H)
    BY <1>0
  <2> HIDE DEF Wrong
  <2> QED
    BY <1>1, <2>1, SmallestSet
<1>3. G \in SUBSET F /\ Cardinality(Pairs(G, X, g)) # c * Cardinality(G)
  BY <1>2
<1>4. G # {}
  <2>1. ASSUME G = {} PROVE FALSE
    <3>1. Pairs(G, X, g) = {}
      BY <2>1 DEF Pairs
    <3>2. Cardinality(G) = 0 /\ Cardinality(Pairs(G, X, g)) = 0
      BY <2>1, <3>1, FS_EmptySet
    <3> QED
      BY <3>2, <1>3
  <2> QED
    BY <2>1
<1>5. PICK T \in G : TRUE
  BY <1>4
<1> DEFINE H == G \ {T}
           mine == Pairs({T}, X, g)
<1>6. H \in SUBSET F /\ T \in F /\ Cardinality(H) = Cardinality(G) - 1
  <2>1. IsFiniteSet(G)
    BY <1>0, <1>3
  <2> QED
    BY <2>1, <1>3, <1>5, FS_RemoveElement
<1>7. Cardinality(Pairs(H, X, g)) = c * Cardinality(H)
  <2>1. ~(Cardinality(G) <= Cardinality(H))
    BY <1>0, <1>3, <1>6
  <2>2. H \notin Wrong
    <3> HIDE DEF Wrong
    <3> QED
      BY <1>2, <2>1
  <2> QED
    BY <1>6, <2>2
<1>8. Cardinality(mine) = c /\ IsFiniteSet(mine)
  <2> DEFINE f == [x \in g[T] |-> <<T, x>>]
  <2>1. g[T] \subseteq X /\ Cardinality(g[T]) = c /\ IsFiniteSet(g[T])
    BY <1>6, FS_Subset
  <2>2. Corresponds(g[T], mine, f)
    <3>1. \A x \in g[T] : f[x] \in mine
      BY <2>1 DEF Pairs
    <3>2. \A x, y \in g[T] : f[x] = f[y] => x = y
      OBVIOUS
    <3>3. ASSUME NEW z \in mine PROVE \E x \in g[T] : f[x] = z
      <4>1. z = <<T, z[2]>> /\ z[2] \in g[T]
        BY <3>3 DEF Pairs
      <4> QED
        BY <4>1
    <3> QED
      BY <3>1, <3>2, <3>3 DEF Corresponds
  <2> HIDE DEF f, mine
  <2> QED
    BY <2>1, <2>2, SameSize
<1>9. Pairs(G, X, g) = Pairs(H, X, g) \union mine /\ Pairs(H, X, g) \cap mine = {}
  BY <1>5 DEF Pairs
<1>10. Cardinality(Pairs(G, X, g)) = c * Cardinality(H) + c
  <2>1. IsFiniteSet(Pairs(H, X, g))
    BY <1>0, <1>6
  <2>2. Cardinality(Pairs(H, X, g) \union mine)
          = Cardinality(Pairs(H, X, g)) + Cardinality(mine) - Cardinality(Pairs(H, X, g) \cap mine)
    BY <2>1, <1>8, FS_Union
  <2>3. Cardinality(Pairs(H, X, g) \cap mine) = 0
    BY <1>9, FS_EmptySet
  <2>4. c * Cardinality(H) \in Nat
    BY <1>0, <1>6
  <2> QED
    BY <2>2, <2>3, <2>4, <1>7, <1>8, <1>9
<1>11. c * (Cardinality(G) - 1) + c = c * Cardinality(G)
  <2>1. Cardinality(G) \in Nat
    BY <1>0, <1>3
  <2> QED
    BY <2>1
<1> QED
  BY <1>3, <1>6, <1>10, <1>11

(* Pairs are counted by what goes with each, in general.                   *)
LEMMA SharesAddUp ==
  ASSUME NEW F, NEW X, NEW g, NEW c, IsFiniteSet(F), IsFiniteSet(X),
         \A T \in F : g[T] \subseteq X /\ Cardinality(g[T]) = c[T]
  PROVE  /\ IsFiniteSet(Pairs(F, X, g))
         /\ Cardinality(Pairs(F, X, g)) = SumOn(c, F)
<1> DEFINE Wrong == {G \in SUBSET F : Cardinality(Pairs(G, X, g)) # SumOn(c, G)}
<1>0. ASSUME NEW G \in SUBSET F
      PROVE  IsFiniteSet(G) /\ Cardinality(G) \in Nat /\ IsFiniteSet(Pairs(G, X, g))
  <2>1. IsFiniteSet(G)
    BY FS_Subset
  <2>2. IsFiniteSet(G \X X)
    BY <2>1, FS_Product
  <2>3. Pairs(G, X, g) \in SUBSET (G \X X)
    BY DEF Pairs
  <2>4. IsFiniteSet(Pairs(G, X, g))
    BY <2>2, <2>3, FS_Subset
  <2> QED
    BY <2>1, <2>4, FS_CardinalityType
<1>1. SUFFICES ASSUME Wrong # {} PROVE FALSE
  <2>1. F \in SUBSET F
    OBVIOUS
  <2> QED
    BY <2>1, <1>0
<1>2. PICK G \in Wrong : \A H \in Wrong : Cardinality(G) <= Cardinality(H)
  <2>1. \A H \in Wrong : IsFiniteSet(H)
    BY <1>0
  <2> HIDE DEF Wrong
  <2> QED
    BY <1>1, <2>1, SmallestSet
<1>3. G \in SUBSET F /\ Cardinality(Pairs(G, X, g)) # SumOn(c, G)
  BY <1>2
<1>a. \A T \in F : c[T] \in Int
  BY FS_Subset, FS_CardinalityType
<1>4. G # {}
  <2>1. ASSUME G = {} PROVE FALSE
    <3>1. Pairs(G, X, g) = {}
      BY <2>1 DEF Pairs
    <3>2. SumOn(c, {}) = 0 /\ Cardinality(Pairs(G, X, g)) = 0
      BY <3>1, <1>a, SumOnIs, FS_EmptySet
    <3> QED
      BY <3>2, <2>1, <1>3
  <2> QED
    BY <2>1
<1>5. PICK T \in G : TRUE
  BY <1>4
<1> DEFINE H == G \ {T}
           mine == Pairs({T}, X, g)
<1>6. H \in SUBSET F /\ T \in F /\ Cardinality(H) = Cardinality(G) - 1
  <2>1. IsFiniteSet(G)
    BY <1>0, <1>3
  <2> QED
    BY <2>1, <1>3, <1>5, FS_RemoveElement
<1>7. Cardinality(Pairs(H, X, g)) = SumOn(c, H)
  <2>1. ~(Cardinality(G) <= Cardinality(H))
    BY <1>0, <1>3, <1>6
  <2>2. H \notin Wrong
    <3> HIDE DEF Wrong
    <3> QED
      BY <1>2, <2>1
  <2> QED
    BY <1>6, <2>2
<1>8. Cardinality(mine) = c[T] /\ IsFiniteSet(mine)
  <2> DEFINE f == [x \in g[T] |-> <<T, x>>]
  <2>1. g[T] \subseteq X /\ Cardinality(g[T]) = c[T] /\ IsFiniteSet(g[T])
    BY <1>6, FS_Subset
  <2>2. Corresponds(g[T], mine, f)
    <3>1. \A x \in g[T] : f[x] \in mine
      BY <2>1 DEF Pairs
    <3>2. \A x, y \in g[T] : f[x] = f[y] => x = y
      OBVIOUS
    <3>3. ASSUME NEW z \in mine PROVE \E x \in g[T] : f[x] = z
      <4>1. z = <<T, z[2]>> /\ z[2] \in g[T]
        BY <3>3 DEF Pairs
      <4> QED
        BY <4>1
    <3> QED
      BY <3>1, <3>2, <3>3 DEF Corresponds
  <2> HIDE DEF f, mine
  <2> QED
    BY <2>1, <2>2, SameSize
<1>9. Pairs(G, X, g) = Pairs(H, X, g) \union mine /\ Pairs(H, X, g) \cap mine = {}
  BY <1>5 DEF Pairs
<1>10. Cardinality(Pairs(G, X, g)) = SumOn(c, H) + c[T]
  <2>1. IsFiniteSet(Pairs(H, X, g))
    BY <1>0, <1>6
  <2>2. Cardinality(Pairs(H, X, g) \union mine)
          = Cardinality(Pairs(H, X, g)) + Cardinality(mine) - Cardinality(Pairs(H, X, g) \cap mine)
    BY <2>1, <1>8, FS_Union
  <2>3. Cardinality(Pairs(H, X, g) \cap mine) = 0
    BY <1>9, FS_EmptySet
  <2>4. SumOn(c, H) \in Int /\ c[T] \in Int
    <3>1. IsFiniteSet(H) /\ \A x \in H : c[x] \in Int
      BY <1>0, <1>6, <1>a
    <3> HIDE DEF H
    <3> QED
      BY <1>6, <1>a, <3>1, SumOnIs
  <2> QED
    BY <2>2, <2>3, <2>4, <1>7, <1>8, <1>9
<1>11. SumOn(c, G) = c[T] + SumOn(c, H) /\ SumOn(c, H) \in Int /\ c[T] \in Int
  <2>1. IsFiniteSet(G) /\ \A x \in G : c[x] \in Int
    BY <1>0, <1>3, <1>a
  <2>2. SumOn(c, G) = c[T] + SumOn(c, H)
    BY <2>1, <1>5, SumOnRemove
  <2>3. IsFiniteSet(H) /\ \A x \in H : c[x] \in Int
    BY <1>0, <1>6, <1>a
  <2> HIDE DEF H
  <2> QED
    BY <2>2, <2>3, <1>6, <1>a, SumOnIs
<1> HIDE DEF H
<1> QED
  BY <1>3, <1>10, <1>11

(* The subsets of a finite set are finitely many.                          *)
LEMMA SubsetsFinite ==
  ASSUME NEW S, IsFiniteSet(S), NEW k
  PROVE  IsFiniteSet(kSubset(k, S)) /\ Cardinality(kSubset(k, S)) \in Nat
<1>1. kSubset(k, S) \in SUBSET (SUBSET S)
  BY DEF kSubset
<1>2. IsFiniteSet(SUBSET S)
  BY FS_SUBSET
<1> QED
  BY <1>1, <1>2, FS_Subset, FS_CardinalityType

(* A set of k elements is got in k ways by adding one element to a set of  *)
(* k - 1.                                                                  *)
LEMMA SubsetsStep ==
  ASSUME NEW S, IsFiniteSet(S), NEW k \in 1 .. Cardinality(S)
  PROVE  k * Cardinality(kSubset(k, S))
           = (Cardinality(S) - k + 1) * Cardinality(kSubset(k - 1, S))
<1> DEFINE n == Cardinality(S)
           A == kSubset(k - 1, S)
           B == kSubset(k, S)
           out == [T \in A |-> S \ T]
           own == [T \in B |-> T]
<1>1. n \in Nat /\ k \in 1 .. n /\ k \in Nat /\ IsFiniteSet(A) /\ IsFiniteSet(B)
  BY SubsetsFinite, FS_CardinalityType
<1>2. IsFiniteSet(Pairs(A, S, out)) /\ Cardinality(Pairs(A, S, out)) = (n - k + 1) * Cardinality(A)
  <2>1. ASSUME NEW T \in A PROVE out[T] \subseteq S /\ Cardinality(out[T]) = n - k + 1
    <3>1. T \in SUBSET S /\ Cardinality(T) = k - 1 /\ S \cap T = T
      BY DEF kSubset
    <3>2. Cardinality(S \ T) = n - Cardinality(S \cap T)
      BY FS_Difference
    <3>3. Cardinality(S \cap T) = k - 1
      BY <3>1
    <3>4. n - (k - 1) = n - k + 1
      BY <1>1
    <3> QED
      BY <3>1, <3>2, <3>3, <3>4
  <2>2. n - k + 1 \in Nat
    BY <1>1
  <2> HIDE DEF A, out
  <2> QED
    BY <2>1, <2>2, <1>1, EqualShares
<1>3. Cardinality(Pairs(B, S, own)) = k * Cardinality(B)
  <2>1. ASSUME NEW T \in B PROVE own[T] \subseteq S /\ Cardinality(own[T]) = k
    BY DEF kSubset
  <2>2. k \in Nat
    OBVIOUS
  <2> HIDE DEF B, own
  <2> QED
    BY <2>1, <2>2, <1>1, EqualShares
<1> DEFINE f == [p \in Pairs(A, S, out) |-> <<p[1] \union {p[2]}, p[2]>>]
<1>4. \A p \in Pairs(A, S, out) : /\ p = <<p[1], p[2]>>
                                  /\ p[1] \in A /\ p[2] \in S /\ p[2] \notin p[1]
  BY DEF Pairs
<1>5. Corresponds(Pairs(A, S, out), Pairs(B, S, own), f)
  <2>1. ASSUME NEW p \in Pairs(A, S, out) PROVE f[p] \in Pairs(B, S, own)
    <3>1. p[1] \in SUBSET S /\ Cardinality(p[1]) = k - 1 /\ p[2] \in S /\ p[2] \notin p[1]
      BY <1>4 DEF kSubset
    <3>2. IsFiniteSet(p[1])
      BY <3>1, FS_Subset
    <3>3. Cardinality(p[1] \union {p[2]}) = (k - 1) + 1
      BY <3>1, <3>2, FS_AddElement
    <3>4. p[1] \union {p[2]} \in B
      BY <3>1, <3>3, <1>1 DEF kSubset
    <3> QED
      BY <3>1, <3>4 DEF Pairs
  <2>2. ASSUME NEW p \in Pairs(A, S, out), NEW q \in Pairs(A, S, out), f[p] = f[q] PROVE p = q
    <3>1. p[1] \union {p[2]} = q[1] \union {q[2]} /\ p[2] = q[2]
      BY <2>2
    <3>2. p[2] \notin p[1] /\ q[2] \notin q[1]
      BY <1>4
    <3>3. p[1] = (p[1] \union {p[2]}) \ {p[2]} /\ q[1] = (q[1] \union {q[2]}) \ {q[2]}
      BY <3>2
    <3>4. p = <<p[1], p[2]>> /\ q = <<q[1], q[2]>>
      BY <1>4
    <3> QED
      BY <3>1, <3>3, <3>4, Zenon
  <2>3. ASSUME NEW z \in Pairs(B, S, own) PROVE \E p \in Pairs(A, S, out) : f[p] = z
    <3>1. z = <<z[1], z[2]>> /\ z[1] \in B /\ z[2] \in S /\ z[2] \in z[1]
      BY <2>3 DEF Pairs
    <3> DEFINE p == <<z[1] \ {z[2]}, z[2]>>
    <3>2. z[1] \in SUBSET S /\ Cardinality(z[1]) = k
      BY <3>1 DEF kSubset
    <3>3. IsFiniteSet(z[1])
      BY <3>2, FS_Subset
    <3>4. Cardinality(z[1] \ {z[2]}) = Cardinality(z[1]) - 1
      BY <3>1, <3>3, FS_RemoveElement
    <3>5. z[1] \ {z[2]} \in A
      BY <3>2, <3>4 DEF kSubset
    <3>6. p \in Pairs(A, S, out)
      BY <3>1, <3>5 DEF Pairs
    <3>7. f[p] = z
      BY <3>1, <3>6
    <3> QED
      BY <3>6, <3>7
  <2> HIDE DEF A, B, out, own, f
  <2> QED
    BY <2>1, <2>2, <2>3 DEF Corresponds
<1>6. Cardinality(Pairs(B, S, own)) = Cardinality(Pairs(A, S, out))
  <2> HIDE DEF f, A, B, out, own
  <2> QED
    BY <1>2, <1>5, SameSize
<1> QED
  BY <1>2, <1>3, <1>6

(* The sets left out are as many.                                          *)
LEMMA SubsetsMirror ==
  ASSUME NEW S, IsFiniteSet(S), NEW k \in 0 .. Cardinality(S)
  PROVE  Cardinality(kSubset(k, S)) = Cardinality(kSubset(Cardinality(S) - k, S))
<1> DEFINE n == Cardinality(S)
           f == [T \in kSubset(k, S) |-> S \ T]
<1>1. n \in Nat
  BY FS_CardinalityType
<1>2. ASSUME NEW j \in 0 .. n, NEW T \in kSubset(j, S)
      PROVE  S \ T \in kSubset(n - j, S) /\ S \ (S \ T) = T
  <2>1. T \in SUBSET S /\ Cardinality(T) = j /\ S \cap T = T
    BY DEF kSubset
  <2>2. Cardinality(S \ T) = n - Cardinality(S \cap T)
    BY FS_Difference
  <2>3. S \ T \in SUBSET S /\ S \ (S \ T) = T
    BY <2>1
  <2> QED
    BY <2>1, <2>2, <2>3 DEF kSubset
<1>3. Corresponds(kSubset(k, S), kSubset(n - k, S), f)
  <2>1. \A T \in kSubset(k, S) : f[T] \in kSubset(n - k, S)
    BY <1>2
  <2>2. ASSUME NEW T \in kSubset(k, S), NEW U \in kSubset(k, S), f[T] = f[U]
        PROVE  T = U
    <3>1. S \ T = S \ U /\ T \subseteq S /\ U \subseteq S
      BY <2>2 DEF kSubset
    <3> QED
      BY <3>1
  <2>3. ASSUME NEW U \in kSubset(n - k, S) PROVE \E T \in kSubset(k, S) : f[T] = U
    <3>1. n - k \in 0 .. n /\ n - (n - k) = k
      BY <1>1
    <3>2. S \ U \in kSubset(k, S) /\ S \ (S \ U) = U
      BY <3>1, <1>2
    <3> QED
      BY <3>2
  <2> QED
    BY <2>1, <2>2, <2>3 DEF Corresponds
<1>4. IsFiniteSet(kSubset(k, S))
  BY SubsetsFinite
<1> HIDE DEF f
<1> QED
  BY <1>3, <1>4, SameSize

(* There are sets of every size up to that of the whole.                   *)
LEMMA SubsetsExist ==
  ASSUME NEW S, IsFiniteSet(S), NEW k \in Nat, k <= Cardinality(S)
  PROVE  kSubset(k, S) # {}
<1> DEFINE F == {T \in SUBSET S : Cardinality(T) >= k}
<1>1. S \in F
  BY FS_CardinalityType
<1>2. PICK T \in F : \A U \in F : Cardinality(T) <= Cardinality(U)
  <2>1. F # {} /\ \A U \in F : IsFiniteSet(U)
    BY <1>1, FS_Subset
  <2> HIDE DEF F
  <2> QED
    BY <2>1, SmallestSet
<1>3. IsFiniteSet(T) /\ Cardinality(T) \in Nat /\ Cardinality(T) >= k /\ T \in SUBSET S
  BY <1>2, FS_Subset, FS_CardinalityType
<1>4. ASSUME Cardinality(T) # k PROVE FALSE
  <2>1. T # {}
    BY <1>3, <1>4, FS_EmptySet
  <2>2. PICK x \in T : TRUE
    BY <2>1
  <2>3. Cardinality(T \ {x}) = Cardinality(T) - 1
    BY <1>3, <2>2, FS_RemoveElement
  <2>4. Cardinality(T \ {x}) >= k /\ T \ {x} \in SUBSET S
    BY <2>3, <1>3, <1>4
  <2>5. T \ {x} \in F
    BY <2>4
  <2>6. Cardinality(T) <= Cardinality(T \ {x})
    BY <2>5, <1>2
  <2> QED
    BY <2>3, <2>6, <1>3
<1> QED
  BY <1>3, <1>4 DEF kSubset

(* One set has no elements.                                                *)
LEMMA OneEmptySubset ==
  ASSUME NEW S, IsFiniteSet(S)
  PROVE  kSubset(0, S) = {{}}
<1>1. \A T \in SUBSET S : Cardinality(T) = 0 <=> T = {}
  BY FS_Subset, FS_EmptySet
<1> QED
  BY <1>1 DEF kSubset

-----------------------------------------------------------------------------
(* A quotient times the divisor is the number, up to the remainder.        *)
LEMMA DividesInto ==
  ASSUME NEW a \in Nat, NEW c \in Nat \ {0}
  PROVE  a \div c \in Nat /\ (a \div c) * c <= a /\ a < (a \div c) * c + c
OBVIOUS

(* A product is divided without a remainder.                               *)
LEMMA TimesThenDivide ==
  ASSUME NEW i \in Nat \ {0}, NEW x \in Nat
  PROVE  (i * x) \div i = x
OBVIOUS

(* The parts a number is cut into: full ones of the same size, and what is *)
(* left.                                                                   *)
Parts(total, size) == (total + size - 1) \div size

Part(total, size, k) ==
  LET left == total - (k - 1) * size
  IN  IF left < size THEN left ELSE size

(* The parts add up to the whole.                                          *)
LEMMA PartsAddUp ==
  ASSUME NEW total \in Nat, NEW size \in Nat \ {0}, NEW f,
         \A k \in 1 .. Parts(total, size) : f[k] = Part(total, size, k)
  PROVE  /\ Parts(total, size) \in Nat
         /\ \A k \in 1 .. Parts(total, size) : f[k] \in Int
         /\ SumOn(f, 1 .. Parts(total, size)) = total
<1> DEFINE n == Parts(total, size)
           upto(m) == IF total < m * size THEN total ELSE m * size
<1>2. n \in Nat /\ total <= n * size /\ n * size < total + size
  <2>1. total + size - 1 \in Nat
    OBVIOUS
  <2>2. /\ (total + size - 1) \div size \in Nat
        /\ ((total + size - 1) \div size) * size <= total + size - 1
        /\ total + size - 1 < ((total + size - 1) \div size) * size + size
    BY <2>1, DividesInto
  <2> DEFINE q == (total + size - 1) \div size
  <2>3. n = q
    BY DEF Parts
  <2> HIDE DEF q, n
  <2>4. q * size \in Int
    BY <2>2 DEF q
  <2>5. total <= q * size /\ q * size < total + size
    BY <2>2, <2>4 DEF q
  <2> QED
    BY <2>2, <2>3, <2>5 DEF q
<1>3. \A k \in 1 .. n : f[k] \in Int
  <2>1. ASSUME NEW k \in 1 .. n
        PROVE  Part(total, size, k) \in Int
    <3>1. k \in Int /\ (k - 1) * size \in Int
      BY <1>2
    <3>2. total - (k - 1) * size \in Int
      BY <3>1
    <3> QED
      BY <3>2 DEF Part
  <2> QED
    BY <2>1
<1> DEFINE Wrong == {m \in 0 .. n : SumOn(f, 1 .. m) # upto(m)}
<1>6. ASSUME NEW m \in 0 .. n
      PROVE  IsFiniteSet(1 .. m) /\ \A k \in 1 .. m : f[k] \in Int
  <2>1. 1 \in Int /\ m \in Int /\ \A k \in 1 .. m : k \in 1 .. n
    BY <1>2
  <2> QED
    BY <2>1, <1>3, FS_Interval
<1>7. Wrong = {}
  <2> SUFFICES ASSUME Wrong # {} PROVE FALSE
    OBVIOUS
  <2>1. PICK m \in Wrong : \A j \in Wrong : m <= j
    <3>1. Wrong \subseteq Nat
      BY <1>2
    <3> HIDE DEF Wrong
    <3> QED
      BY <3>1, LeastNumber
  <2>2. m \in 0 .. n /\ m \in Nat /\ SumOn(f, 1 .. m) # upto(m)
    BY <2>1, <1>2
  <2>3. m # 0
    <3>1. 1 .. 0 = {}
      OBVIOUS
    <3>2. SumOn(f, {}) = 0
      BY FS_EmptySet, SumOnIs
    <3>3. upto(0) = 0
      OBVIOUS
    <3> QED
      BY <2>2, <3>1, <3>2, <3>3
  <2>4. m - 1 \in 0 .. n /\ m - 1 \notin Wrong
    <3>1. m - 1 \in 0 .. n /\ ~(m <= m - 1)
      BY <2>2, <2>3, <1>2
    <3> HIDE DEF Wrong
    <3> QED
      BY <2>1, <3>1
  <2>5. SumOn(f, 1 .. m - 1) = upto(m - 1)
    BY <2>4
  <2>6. SumOn(f, 1 .. m) = f[m] + SumOn(f, 1 .. m - 1)
    <3>1. m \in 1 .. m /\ (1 .. m) \ {m} = 1 .. m - 1
      BY <2>2, <2>3
    <3>2. IsFiniteSet(1 .. m) /\ \A k \in 1 .. m : f[k] \in Int
      BY <2>2, <1>6
    <3>3. SumOn(f, 1 .. m) = f[m] + SumOn(f, (1 .. m) \ {m})
      BY <3>1, <3>2, SumOnRemove
    <3> QED
      BY <3>1, <3>3
  <2>7. f[m] = IF total - (m - 1) * size < size THEN total - (m - 1) * size ELSE size
    <3>1. m \in 1 .. n
      BY <2>2, <2>3, <1>2
    <3> QED
      BY <3>1 DEF Part
  <2>8. m * size = (m - 1) * size + size /\ (m - 1) * size \in Nat /\ m * size \in Nat
    BY <2>2, <2>3
  <2>9. (m - 1) * size < total
    <3>1. (m - 1) * size <= (n - 1) * size /\ (n - 1) * size = n * size - size /\ n * size \in Int
      <4>1. m - 1 \in Nat /\ n - 1 \in Nat /\ m - 1 <= n - 1
        BY <2>2, <2>3, <1>2
      <4> QED
        BY <4>1, <1>2
    <3>2. n * size < total + size
      BY <1>2
    <3> DEFINE u == (m - 1) * size
               w == n * size
    <3>3. u <= w - size /\ w < total + size /\ u \in Int /\ w \in Int
      BY <3>1, <3>2, <2>8
    <3> HIDE DEF u, w, n
    <3>4. u < total
      BY <3>3
    <3> QED
      BY <3>4 DEF u
  <2> DEFINE w == (m - 1) * size
             v == m * size
  <2>10. upto(m - 1) = w /\ upto(m) = IF total < v THEN total ELSE v
    BY <2>8, <2>9
  <2>11. f[m] = (IF total - w < size THEN total - w ELSE size) /\ v = w + size /\ w \in Nat /\ v \in Nat
    BY <2>7, <2>8
  <2> HIDE DEF w, v, upto
  <2>12. upto(m) = f[m] + w
    BY <2>10, <2>11
  <2> QED
    BY <2>2, <2>5, <2>6, <2>10, <2>12
<1>8. SumOn(f, 1 .. n) = upto(n)
  <2>1. n \in 0 .. n /\ n \notin Wrong
    <3> HIDE DEF Wrong
    <3> QED
      BY <1>2, <1>7
  <2> QED
    BY <2>1
<1>9. upto(n) = total
  BY <1>2
<1> QED
  BY <1>2, <1>3, <1>8, <1>9

(* The greatest and the least number of a set.                             *)
LEMMA MaxIs ==
  ASSUME NEW S, S \subseteq Int, IsFiniteSet(S), S # {}
  PROVE  Max(S) \in S /\ \A y \in S : Max(S) >= y
<1> DEFINE n == Cardinality(S)
           a == SmallestFirst(S)
<1>1. /\ n \in Nat /\ n # 0 /\ a \in [1 .. n -> S]
      /\ \A i, j \in 1 .. n : i < j => a[i] < a[j]
      /\ \A c \in S : \E i \in 1 .. n : a[i] = c
  BY AscendingLists, FS_EmptySet
<1> HIDE DEF n, a
<1>2. n \in 1 .. n
  BY <1>1
<1>3. a[n] \in S
  BY <1>1, <1>2
<1>4. ASSUME NEW y \in S
      PROVE  a[n] >= y
  <2>1. PICK i \in 1 .. n : a[i] = y
    BY <1>1
  <2>2. i = n \/ i < n
    BY <1>1
  <2>3. a[n] \in Int /\ y \in Int
    BY <1>3
  <2> QED
    BY <2>1, <2>2, <2>3, <1>1, <1>2
<1> QED
  BY <1>3, <1>4 DEF Max

(* Min is the least of a set of numbers.                                   *)
LEMMA MinIs ==
  ASSUME NEW S, S \subseteq Nat, S # {}
  PROVE  Min(S) \in S /\ \A y \in S : Min(S) <= y
<1>1. \E x \in S : \A y \in S : x <= y
  BY LeastNumber
<1> QED
  BY <1>1 DEF Min

(* The highest card two masks differ in.                                   *)
Top(a, b) == Max((a \ b) \union (b \ a))

IsMask(a, C) == C \subseteq Nat /\ IsFiniteSet(C) /\ a \subseteq C

(* Top is the highest card that one of two masks has and the other has     *)
(* not.                                                                    *)
LEMMA TopIs ==
  ASSUME NEW C, NEW a, NEW b, IsMask(a, C), IsMask(b, C), a # b
  PROVE  /\ Top(a, b) \in Nat
         /\ Top(a, b) \in a <=> Top(a, b) \notin b
         /\ \A x \in C : x > Top(a, b) => (x \in a <=> x \in b)
         /\ Top(a, b) \in C
         /\ Top(a, b) \in (a \ b) \union (b \ a)
<1>0. C \subseteq Nat /\ IsFiniteSet(C) /\ a \in SUBSET C /\ b \in SUBSET C
  BY DEF IsMask
<1> DEFINE D == (a \ b) \union (b \ a)
<1>1. D \in SUBSET C /\ D # {}
  BY <1>0
<1>2. IsFiniteSet(D) /\ D \subseteq Int
  <2> HIDE DEF D
  <2>1. IsFiniteSet(D)
    BY <1>0, <1>1, FS_Subset
  <2>2. D \subseteq Int
    BY <1>0, <1>1
  <2> QED
    BY <2>1, <2>2
<1>3. Max(D) \in D /\ \A y \in D : Max(D) >= y
  <2> HIDE DEF D
  <2> QED
    BY <1>1, <1>2, MaxIs
<1>4. Top(a, b) \in D /\ \A y \in D : Top(a, b) >= y
  BY <1>3 DEF Top
<1>5. Top(a, b) \in C /\ Top(a, b) \in Nat
  BY <1>0, <1>1, <1>4
<1>6. ASSUME NEW x \in C, x > Top(a, b)
      PROVE  x \in a <=> x \in b
  <2>1. x \in Nat
    BY <1>0
  <2>2. x \notin D
    BY <2>1, <1>4, <1>5, <1>6
  <2> QED
    BY <2>2
<1> QED
  BY <1>4, <1>5, <1>6

(* Masks are ordered like the numbers they are.                            *)
MaskOrder(C) == {p \in (SUBSET C) \X (SUBSET C) : p[1] # p[2] /\ Top(p[1], p[2]) \in p[2]}

(* Sets of numbers are strictly ordered by their highest difference.       *)
LEMMA MasksOrdered ==
  ASSUME NEW C, C \subseteq Nat, IsFiniteSet(C), NEW masks, masks \subseteq SUBSET C
  PROVE  OrdersStrictly(MaskOrder(C), masks)
<1> DEFINE R == MaskOrder(C)
<1>1. \A a, b \in masks : <<a, b>> \in R <=> a # b /\ Top(a, b) \in b
  <2> SUFFICES ASSUME NEW a \in masks, NEW b \in masks
               PROVE  <<a, b>> \in R <=> a # b /\ Top(a, b) \in b
    OBVIOUS
  <2>1. <<a, b>> \in (SUBSET C) \X (SUBSET C)
    OBVIOUS
  <2> QED
    BY <2>1 DEF MaskOrder
<1> HIDE DEF R
<1>0. \A a \in masks : IsMask(a, C)
  BY DEF IsMask
<1>2. \A a, b \in masks : Top(a, b) = Top(b, a)
  <2>1. \A a, b \in masks : (a \ b) \union (b \ a) = (b \ a) \union (a \ b)
    OBVIOUS
  <2> QED
    BY <2>1 DEF Top
<1>3. ASSUME NEW a \in masks, NEW b \in masks, a # b
      PROVE  <<a, b>> \in R \/ <<b, a>> \in R
  <2>1. IsMask(a, C) /\ IsMask(b, C)
    BY <1>0
  <2>2. Top(a, b) \in a <=> Top(a, b) \notin b
    BY <2>1, <1>3, TopIs
  <2>3. Top(a, b) \in (a \ b) \union (b \ a)
    BY <2>1, <1>3, TopIs
  <2> QED
    BY <1>1, <1>2, <1>3, <2>2, <2>3
<1>4. ASSUME NEW a \in masks, NEW b \in masks, NEW c \in masks,
             <<a, b>> \in R, <<b, c>> \in R
      PROVE  <<a, c>> \in R
  <2> DEFINE x == Top(a, b)
             y == Top(b, c)
             z == Top(a, c)
  <2>1. a # b /\ x \in b /\ b # c /\ y \in c
    BY <1>1, <1>4
  <2>2. /\ x \in Nat /\ x \in C /\ x \notin a
        /\ \A w \in C : w > x => (w \in a <=> w \in b)
    BY <1>0, <2>1, TopIs
  <2>3. /\ y \in Nat /\ y \in C /\ y \notin b
        /\ \A w \in C : w > y => (w \in b <=> w \in c)
    BY <1>0, <2>1, TopIs
  <2>4. a # c
    <3>1. ASSUME a = c PROVE FALSE
      <4> HIDE DEF x, y
      <4>1. ~(y > x)
        BY <3>1, <2>1, <2>2, <2>3
      <4>2. ~(x > y)
        BY <3>1, <2>1, <2>2, <2>3
      <4>3. x = y
        BY <4>1, <4>2, <2>2, <2>3
      <4> QED
        BY <4>3, <2>1, <2>3
    <3> QED
      BY <3>1
  <2>5. /\ z \in Nat /\ z \in C /\ (z \in a <=> z \notin c)
        /\ \A w \in C : w > z => (w \in a <=> w \in c)
    BY <1>0, <2>4, TopIs
  <2>6. z \in c
    <3> HIDE DEF x, y, z
    <3>1. x # y
      BY <2>1, <2>3
    <3>2. CASE x > y
      <4>1. x \in c
        BY <3>2, <2>1, <2>2, <2>3
      <4>2. ~(z < x)
        BY <4>1, <2>2, <2>5
      <4>3. ~(z > x)
        <5>1. ASSUME z > x PROVE FALSE
          <6>1. z > y
            BY <5>1, <3>2, <2>2, <2>3, <2>5
          <6> QED
            BY <5>1, <6>1, <2>2, <2>3, <2>5
        <5> QED
          BY <5>1
      <4>4. z = x
        BY <4>2, <4>3, <2>2, <2>5
      <4> QED
        BY <4>1, <4>4
    <3>3. CASE y > x
      <4>1. y \notin a
        BY <3>3, <2>2, <2>3
      <4>2. ~(z < y)
        BY <4>1, <2>1, <2>3, <2>5
      <4>3. ~(z > y)
        <5>1. ASSUME z > y PROVE FALSE
          <6>1. z > x
            BY <5>1, <3>3, <2>2, <2>3, <2>5
          <6> QED
            BY <5>1, <6>1, <2>2, <2>3, <2>5
        <5> QED
          BY <5>1
      <4>4. z = y
        BY <4>2, <4>3, <2>3, <2>5
      <4> QED
        BY <2>1, <4>4
    <3> QED
      BY <3>1, <3>2, <3>3, <2>2, <2>3
  <2> QED
    BY <1>1, <2>4, <2>6
<1>5. \A a \in masks : <<a, a>> \notin R
  BY <1>1
<1>6. OrdersStrictly(R, masks)
  BY <1>3, <1>4, <1>5 DEF OrdersStrictly
<1> QED
  BY <1>6 DEF R
=============================================================================
