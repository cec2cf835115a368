--------------------------- MODULE EquityHandsProofs ---------------------------
(***************************************************************************)
(* A run of equity_hands reported as exact has run every completion of the *)
(* board once, and any other as many as it was asked for, which were       *)
(* fewer.                                                                  *)
(*                                                                         *)
(* The enumeration goes through the combinations of indices in the order   *)
(* in which the first index that differs decides: next_combination gives   *)
(* the next of them, the first and the last are where it starts and stops, *)
(* and each stands for another completion. binomial_coefficient counts the *)
(* completions, so a sampled run is shorter; a trial counts one because    *)
(* somebody wins every showdown, every hand having a score above zero; and *)
(* the counters of the chunks add up to the trials asked for.              *)
(*                                                                         *)
(* The second half is the hand evaluator. The score of five to seven cards *)
(* is the packed number of the best hand they make, so the evaluator's     *)
(* shortcuts (one walk over the rank counts, one look for a flush, windows *)
(* of five ranks for a straight) lose nothing, and five cards make no hand *)
(* but the one they are. Packed numbers compare as category and kickers    *)
(* do, and so do the values decoded from them: the players a table leaves  *)
(* with the pot are those whose five cards the rules of poker put on top.  *)
(***************************************************************************)
EXTENDS EquityHands, FunctionTheorems, Induction

-----------------------------------------------------------------------------

(* The combinations of k of n indices, ascending.                          *)
Combs(n, k) ==
  {c \in [1 .. k -> 0 .. n - 1] : \A i, j \in 1 .. k : i < j => c[i] < c[j]}

(* The order they are enumerated in: the first index that differs decides. *)
Earlier(c, e, k) == \E i \in 1 .. k : c[i] < e[i] /\ \A j \in 1 .. i - 1 : c[j] = e[j]

(* An index leaves room for those after it.                                *)
LEMMA CombBounded ==
  ASSUME NEW n \in Nat, NEW k \in Nat, NEW c \in Combs(n, k), NEW i \in 1 .. k
  PROVE  c[i] \in Nat /\ c[i] <= n - k + i - 1
<1> DEFINE Wrong == {x \in Nat : x <= k - i /\ ~ (c[k - x] <= n - x - 1)}
<1>1. \A j \in 1 .. k : c[j] \in 0 .. n - 1
  BY DEF Combs
<1>2. Wrong = {}
  <2> SUFFICES ASSUME Wrong # {} PROVE FALSE
    OBVIOUS
  <2>1. PICK x \in Wrong : \A y \in Wrong : x <= y
    <3>1. Wrong \subseteq Nat
      OBVIOUS
    <3> HIDE DEF Wrong
    <3> QED
      BY <3>1, LeastNumber
  <2>2. x # 0
    BY <1>1
  <2>3. x - 1 \notin Wrong /\ x - 1 \in Nat /\ x - 1 <= k - i
    BY <2>1, <2>2
  <2>4. c[k - (x - 1)] <= n - (x - 1) - 1
    BY <2>3
  <2>5. k - x \in 1 .. k /\ k - (x - 1) \in 1 .. k /\ k - x < k - (x - 1)
    BY <2>1, <2>2, <2>3
  <2>6. c[k - x] < c[k - (x - 1)]
    BY <2>5 DEF Combs
  <2>7. c[k - x] \in Int /\ c[k - (x - 1)] \in Int
    BY <2>5, <1>1
  <2> QED
    BY <2>1, <2>4, <2>6, <2>7
<1>3. k - i \in Nat /\ k - (k - i) = i /\ n - (k - i) - 1 = n - k + i - 1
  OBVIOUS
<1>4. c[k - (k - i)] <= n - (k - i) - 1
  <2>1. k - i \notin Wrong
    <3> HIDE DEF Wrong
    <3> QED
      BY <1>2
  <2>2. (k - i) <= k - i
    BY <1>3
  <2> QED
    BY <2>1, <2>2, <1>3
<1> QED
  BY <1>1, <1>3, <1>4

(* Two combinations that are not the same are one before the other.        *)
LEMMA CombsAreOrdered ==
  ASSUME NEW n \in Nat, NEW k \in Nat, NEW c \in Combs(n, k), NEW e \in Combs(n, k)
  PROVE  c = e \/ Earlier(c, e, k) \/ Earlier(e, c, k)
<1> DEFINE Differ == {i \in 1 .. k : c[i] # e[i]}
<1>1. CASE Differ = {}
  BY <1>1 DEF Combs
<1>2. CASE Differ # {}
  <2>1. PICK i \in Differ : \A j \in Differ : i <= j
    <3>1. Differ \subseteq Nat
      OBVIOUS
    <3> HIDE DEF Differ
    <3> QED
      BY <1>2, <3>1, LeastNumber
  <2>2. \A j \in 1 .. i - 1 : c[j] = e[j]
    <3>1. ASSUME NEW j \in 1 .. i - 1
          PROVE  c[j] = e[j]
      <4>1. j \in 1 .. k /\ ~(i <= j)
        OBVIOUS
      <4> QED
        BY <4>1, <2>1
    <3> QED
      BY <3>1
  <2>3. c[i] \in Int /\ e[i] \in Int /\ c[i] # e[i]
    BY <2>1 DEF Combs
  <2> QED
    BY <2>2, <2>3 DEF Earlier
<1> QED
  BY <1>1, <1>2

(* None is before itself.                                                  *)
LEMMA NotBeforeItself ==
  ASSUME NEW n \in Nat, NEW k \in Nat, NEW c \in Combs(n, k)
  PROVE  ~Earlier(c, c, k)
<1>1. \A i \in 1 .. k : c[i] \in Int
  BY DEF Combs
<1> QED
  BY <1>1 DEF Earlier

(* Nothing is before the first indices.                                    *)
LEMMA FirstIsFirst ==
  ASSUME NEW n \in Nat, NEW k \in Nat, k <= n
  PROVE  /\ [i \in 1 .. k |-> i - 1] \in Combs(n, k)
         /\ \A c \in Combs(n, k) : ~Earlier(c, [i \in 1 .. k |-> i - 1], k)
<1> DEFINE f == [i \in 1 .. k |-> i - 1]
<1>1. f \in Combs(n, k)
  BY DEF Combs
<1>2. ASSUME NEW c \in Combs(n, k), NEW i \in 1 .. k, c[i] < i - 1, \A j \in 1 .. i - 1 : c[j] = j - 1
      PROVE  FALSE
  <2>1. \A j \in 1 .. k : c[j] \in 0 .. n - 1
    BY DEF Combs
  <2>2. i # 1
    BY <1>2, <2>1
  <2>3. i - 1 \in 1 .. k /\ i - 1 \in 1 .. i - 1 /\ i - 1 < i
    BY <2>2
  <2>4. c[i - 1] < c[i]
    BY <2>3 DEF Combs
  <2> QED
    BY <1>2, <2>1, <2>3, <2>4
<1>3. ASSUME NEW c \in Combs(n, k)
      PROVE  ~Earlier(c, f, k)
  <2>1. \A i \in 1 .. k : f[i] = i - 1 /\ \A j \in 1 .. i - 1 : f[j] = j - 1
    OBVIOUS
  <2> HIDE DEF f
  <2> QED
    BY <1>2, <2>1 DEF Earlier
<1> QED
  BY <1>1, <1>3

(* Index i moves up and those after it follow it.                          *)
Successor(c, i, k) == [j \in 1 .. k |-> IF j < i THEN c[j] ELSE c[i] + 1 + (j - i)]

(* No index after i can move up.                                           *)
Stuck(c, i, n, k) == \A j \in i + 1 .. k : c[j] >= n - k + j - 1

(* The combination after c: the last index that can moves up, at i.        *)
LEMMA NextIsNext ==
  ASSUME NEW n \in Nat, NEW k \in Nat, NEW c \in Combs(n, k), NEW i \in 1 .. k,
         c[i] < n - k + i - 1,
         Stuck(c, i, n, k)
  PROVE  /\ Successor(c, i, k) \in Combs(n, k)
         /\ \A x \in Combs(n, k) :
              Earlier(x, Successor(c, i, k), k) <=> (x = c \/ Earlier(x, c, k))
<1> DEFINE e == Successor(c, i, k)
<1>1. /\ \A j \in 1 .. k : c[j] \in 0 .. n - 1
      /\ \A j, l \in 1 .. k : j < l => c[j] < c[l]
  BY DEF Combs
<1>2. /\ \A j \in 1 .. k : j < i => e[j] = c[j]
      /\ \A j \in 1 .. k : j >= i => e[j] = c[i] + 1 + (j - i)
  BY DEF Successor
<1>3. e \in Combs(n, k)
  <2>1. e \in [1 .. k -> 0 .. n - 1]
    BY <1>1 DEF Successor
  <2>2. ASSUME NEW j \in 1 .. k, NEW l \in 1 .. k, j < l
        PROVE  e[j] < e[l]
    <3>1. CASE l < i
      BY <3>1, <2>2, <1>1, <1>2
    <3>2. CASE j >= i
      BY <3>2, <2>2, <1>1, <1>2
    <3>3. CASE j < i /\ l >= i
      <4>1. c[j] < c[i] /\ c[j] \in Int /\ c[i] \in Int
        BY <3>3, <1>1
      <4> QED
        BY <3>3, <4>1, <1>2
    <3> QED
      BY <3>1, <3>2, <3>3
  <2> QED
    BY <2>1, <2>2 DEF Combs
<1> HIDE DEF e
<1>4. Earlier(c, e, k)
  <2>1. c[i] < e[i] /\ \A j \in 1 .. i - 1 : c[j] = e[j]
    BY <1>1, <1>2
  <2> QED
    BY <2>1 DEF Earlier
<1>5. ASSUME NEW x \in Combs(n, k), NEW p \in 1 .. k, x[p] < c[p], \A j \in 1 .. p - 1 : x[j] = c[j]
      PROVE  Earlier(x, e, k)
  <2>1. /\ \A j \in 1 .. k : x[j] \in 0 .. n - 1
    BY DEF Combs
  <2>2. CASE p < i
    <3>1. x[p] < e[p] /\ \A j \in 1 .. p - 1 : x[j] = e[j]
      BY <2>2, <1>2, <1>5
    <3> QED
      BY <3>1 DEF Earlier
  <2>3. CASE p >= i
    <3>1. x[i] < e[i]
      <4>1. x[i] <= c[i]
        <5>1. CASE p = i
          BY <5>1, <2>1, <1>1, <1>5
        <5>2. CASE p > i
          <6>1. i \in 1 .. p - 1
            BY <5>2
          <6> QED
            BY <6>1, <2>1, <1>5
        <5> QED
          BY <5>1, <5>2, <2>3
      <4> QED
        BY <4>1, <2>1, <1>1, <1>2
    <3>2. \A j \in 1 .. i - 1 : x[j] = e[j]
      BY <2>3, <1>2, <1>5
    <3> QED
      BY <3>1, <3>2 DEF Earlier
  <2> QED
    BY <2>2, <2>3
<1>6. ASSUME NEW x \in Combs(n, k), NEW p \in 1 .. k, x[p] < e[p], \A j \in 1 .. p - 1 : x[j] = e[j]
      PROVE  x = c \/ Earlier(x, c, k)
  <2>1. /\ \A j \in 1 .. k : x[j] \in 0 .. n - 1
        /\ \A j, l \in 1 .. k : j < l => x[j] < x[l]
    BY DEF Combs
  <2>2. CASE p < i
    <3>1. x[p] < c[p] /\ \A j \in 1 .. p - 1 : x[j] = c[j]
      <4>1. e[p] = c[p] /\ \A j \in 1 .. p - 1 : j \in 1 .. k /\ j < i
        BY <2>2, <1>2
      <4>2. \A j \in 1 .. p - 1 : e[j] = c[j]
        BY <4>1, <1>2
      <4> QED
        BY <4>1, <4>2, <1>6
    <3> QED
      BY <3>1 DEF Earlier
  <2>3. CASE p > i
    <3>1. p - 1 \in 1 .. k /\ p - 1 \in 1 .. p - 1 /\ p - 1 >= i /\ p - 1 < p
      BY <2>3
    <3>2. x[p - 1] = c[i] + 1 + (p - 1 - i) /\ e[p] = c[i] + 1 + (p - i) /\ x[p - 1] < x[p]
      <4>1. x[p - 1] = e[p - 1]
        BY <3>1, <1>6
      <4>2. e[p - 1] = c[i] + 1 + (p - 1 - i)
        BY <3>1, <1>2
      <4>3. e[p] = c[i] + 1 + (p - i)
        BY <2>3, <1>2
      <4>4. x[p - 1] < x[p]
        BY <3>1, <2>1
      <4> QED
        BY <4>1, <4>2, <4>3, <4>4
    <3>3. x[p - 1] \in Int /\ x[p] \in Int /\ c[i] \in Int
      BY <3>1, <2>1, <1>1
    <3> QED
      BY <3>2, <3>3, <1>6
  <2>4. CASE p = i
    <3>1. x[i] <= c[i] /\ \A j \in 1 .. i - 1 : x[j] = c[j]
      <4>1. \A j \in 1 .. i - 1 : j \in 1 .. k /\ j < i
        OBVIOUS
      <4>2. \A j \in 1 .. i - 1 : x[j] = c[j]
        BY <4>1, <2>4, <1>2, <1>6
      <4>3. e[i] = c[i] + 1 + (i - i)
        BY <1>2
      <4>4. x[i] < e[i] /\ x[i] \in Int /\ c[i] \in Int
        BY <2>1, <2>4, <1>1, <1>6
      <4> QED
        BY <4>2, <4>3, <4>4
    <3>2. CASE x[i] < c[i]
      BY <3>1, <3>2 DEF Earlier
    <3>3. CASE x[i] = c[i]
      <4>1. ASSUME Earlier(c, x, k)
            PROVE  FALSE
        <5>1. PICK q \in 1 .. k : c[q] < x[q] /\ \A j \in 1 .. q - 1 : c[j] = x[j]
          BY <4>1 DEF Earlier
        <5>2. q > i
          BY <5>1, <3>1, <3>3, <1>1, <2>1
        <5>3. c[q] >= n - k + q - 1
          BY <5>2 DEF Stuck
        <5>4. x[q] <= n - k + q - 1 /\ x[q] \in Nat /\ c[q] \in Nat
          BY CombBounded
        <5> QED
          BY <5>1, <5>3, <5>4
      <4> QED
        BY <4>1, CombsAreOrdered
    <3> QED
      BY <3>1, <3>2, <3>3, <2>1, <1>1
  <2> QED
    BY <2>2, <2>3, <2>4
<1>7. ASSUME NEW x \in Combs(n, k)
      PROVE  Earlier(x, e, k) <=> (x = c \/ Earlier(x, c, k))
  <2>1. Earlier(x, e, k) => (x = c \/ Earlier(x, c, k))
    BY <1>6 DEF Earlier
  <2>2. Earlier(x, c, k) => Earlier(x, e, k)
    BY <1>5 DEF Earlier
  <2> QED
    BY <2>1, <2>2, <1>4
<1> QED
  BY <1>3, <1>7 DEF e

(* Where no index can move up, every other combination is before.          *)
LEMMA LastIsLast ==
  ASSUME NEW n \in Nat, NEW k \in Nat, NEW c \in Combs(n, k),
         \A j \in 1 .. k : c[j] >= n - k + j - 1,
         NEW x \in Combs(n, k)
  PROVE  x = c \/ Earlier(x, c, k)
<1>1. ASSUME Earlier(c, x, k)
      PROVE  FALSE
  <2>1. PICK q \in 1 .. k : c[q] < x[q]
    BY <1>1 DEF Earlier
  <2>2. x[q] <= n - k + q - 1 /\ x[q] \in Nat /\ c[q] \in Nat
    BY CombBounded
  <2> QED
    BY <2>1, <2>2
<1> QED
  BY <1>1, CombsAreOrdered

-----------------------------------------------------------------------------
(* The boards.                                                             *)

Completions == {Board \union drawn : drawn \in Draws}

(* The deck covers the board.                                              *)
Covered == Live \subseteq Int /\ IsFiniteSet(Live) /\ ToDraw \in Nat /\ ToDraw <= Cardinality(Live)

LiveCombs == Combs(Cardinality(Live), ToDraw)

(* The sets got by adding an element.                                      *)
Extended(F, S) == {p[1] \union {p[2]} : p \in {q \in F \X S : q[2] \notin q[1]}}

(* Every set of k elements is one of k - 1 and one more.                   *)
LEMMA ExtendedSubsets ==
  ASSUME NEW S, IsFiniteSet(S), NEW k \in Nat \ {0}
  PROVE  Extended(kSubset(k - 1, S), S) = kSubset(k, S)
<1>1. ASSUME NEW T \in kSubset(k - 1, S), NEW x \in S, x \notin T
      PROVE  T \union {x} \in kSubset(k, S)
  <2>1. T \in SUBSET S /\ Cardinality(T) = k - 1
    BY DEF kSubset
  <2>2. IsFiniteSet(T)
    BY <2>1, FS_Subset
  <2>3. Cardinality(T \union {x}) = Cardinality(T) + 1
    BY <2>2, <1>1, FS_AddElement
  <2> QED
    BY <2>1, <2>3 DEF kSubset
<1>2. ASSUME NEW T \in kSubset(k, S)
      PROVE  \E x \in T : T \ {x} \in kSubset(k - 1, S)
  <2>1. T \in SUBSET S /\ Cardinality(T) = k
    BY DEF kSubset
  <2>2. IsFiniteSet(T)
    BY <2>1, FS_Subset
  <2>3. PICK x \in T : TRUE
    BY <2>1, <2>2, FS_EmptySet
  <2>4. Cardinality(T \ {x}) = Cardinality(T) - 1
    BY <2>2, FS_RemoveElement
  <2> QED
    BY <2>1, <2>4 DEF kSubset
<1>3. Extended(kSubset(k - 1, S), S) \subseteq kSubset(k, S)
  BY <1>1 DEF Extended
<1>4. ASSUME NEW T \in kSubset(k, S)
      PROVE  T \in Extended(kSubset(k - 1, S), S)
  <2>1. PICK x \in T : T \ {x} \in kSubset(k - 1, S)
    BY <1>2
  <2>2. x \in S /\ x \notin T \ {x} /\ (T \ {x}) \union {x} = T
    BY DEF kSubset
  <2>3. <<T \ {x}, x>> \in {q \in kSubset(k - 1, S) \X S : q[2] \notin q[1]}
    BY <2>1, <2>2
  <2> QED
    BY <2>2, <2>3 DEF Extended
<1> QED
  BY <1>3, <1>4

(* The sets of live cards that complete the board.                         *)
LEMMA DrawsAre ==
  ASSUME Covered
  PROVE  Draws = kSubset(ToDraw, Live)
<1> DEFINE m == ToDraw
           body(f, k) == IF k = 0 THEN {{}} ELSE Extended(f[k - 1], Live)
           IsD(f) == f = [k \in 0 .. m |-> body(f, k)]
           d == CHOOSE f : IsD(f)
<1>1. Draws = d[ToDraw]
  BY DEF Draws, Extended
<1>2. \E f : IsD(f)
  <2> DEFINE D == SUBSET SUBSET Live
             step == [i \in 1 .. m |-> [F \in D |-> Extended(F, Live)]]
  <2>1. {{}} \in D /\ \A F \in D : Extended(F, Live) \in D
    BY DEF Extended
  <2>2. step \in [1 .. m -> [D -> D]]
    BY <2>1
  <2>3. PICK g : Solves(g, m, D, {{}}, step)
    <3> DEFINE none == {{}}
    <3>1. m \in Nat /\ none \in D /\ step \in [1 .. m -> [D -> D]]
      BY <2>1, <2>2 DEF Covered
    <3> HIDE DEF step, D, m, none
    <3>2. \E g : Solves(g, m, D, none, step)
      BY <3>1, Recursion
    <3> QED
      BY <3>2 DEF none
  <2>4. ASSUME NEW i \in 1 .. m
        PROVE  g[i] = Extended(g[i - 1], Live)
    <3>1. i - 1 \in 0 .. m /\ g[i - 1] \in D
      BY <2>3 DEF Covered, Solves
    <3> QED
      BY <2>3, <3>1 DEF Solves
  <2>5. \A i \in 0 .. m : g[i] = body(g, i)
    BY <2>3, <2>4 DEF Covered, Solves
  <2>6. IsD(g)
    BY <2>3, <2>5 DEF Solves
  <2> QED
    BY <2>6
<1>3. IsD(d)
  <2> HIDE DEF IsD
  <2> QED
    BY <1>2
<1>4. d[0] = {{}} /\ \A k \in 1 .. m : d[k] = Extended(d[k - 1], Live)
  <2> HIDE DEF d
  <2>1. \A k \in 0 .. m : d[k] = body(d, k)
    BY <1>3
  <2>2. 0 \in 0 .. m /\ \A k \in 1 .. m : k \in 0 .. m /\ k # 0
    BY DEF Covered
  <2> QED
    BY <2>1, <2>2
<1> HIDE DEF d
<1> DEFINE Wrong == {k \in 0 .. m : d[k] # kSubset(k, Live)}
<1>5. Wrong = {}
  <2> SUFFICES ASSUME Wrong # {} PROVE FALSE
    OBVIOUS
  <2>1. PICK k \in Wrong : \A l \in Wrong : k <= l
    <3>1. Wrong \subseteq Nat
      OBVIOUS
    <3> HIDE DEF Wrong
    <3> QED
      BY <3>1, LeastNumber
  <2>2. kSubset(0, Live) = {{}}
    BY OneEmptySubset DEF Covered
  <2>3. k # 0
    BY <2>2, <1>4
  <2>4. k \in Nat \ {0} /\ k \in 1 .. m /\ k - 1 \in 0 .. m /\ k - 1 \notin Wrong
    BY <2>1, <2>3 DEF Covered
  <2>5. d[k] = Extended(kSubset(k - 1, Live), Live)
    BY <2>4, <1>4
  <2> QED
    BY <2>4, <2>5, ExtendedSubsets DEF Covered
<1> QED
  <2>1. m \in 0 .. m /\ m \notin Wrong
    <3> HIDE DEF Wrong
    <3> QED
      BY <1>5 DEF Covered
  <2> QED
    BY <1>1, <2>1

-----------------------------------------------------------------------------
(* The elements of S a combination stands for.                             *)
Chosen(S, k, c) == {SmallestFirst(S)[c[i] + 1] : i \in 1 .. k}

(* A combination stands for k elements.                                    *)
LEMMA ChosenAreSubsets ==
  ASSUME NEW S, S \subseteq Int, IsFiniteSet(S), NEW k \in Nat, NEW c \in Combs(Cardinality(S), k)
  PROVE  Chosen(S, k, c) \in kSubset(k, S)
<1> DEFINE n == Cardinality(S)
           a == SmallestFirst(S)
           f == [i \in 1 .. k |-> a[c[i] + 1]]
<1>1. /\ n \in Nat /\ a \in [1 .. n -> S]
      /\ \A i, j \in 1 .. n : i < j => a[i] < a[j]
  BY AscendingLists
<1> HIDE DEF n, a
<1>2. /\ \A i \in 1 .. k : c[i] + 1 \in 1 .. n /\ c[i] \in Nat
      /\ \A i, j \in 1 .. k : i < j => c[i] < c[j]
  BY <1>1 DEF Combs, n
<1>3. f \in [1 .. k -> S] /\ Chosen(S, k, c) \subseteq S
  BY <1>1, <1>2 DEF Chosen, a
<1>4. ASSUME NEW i \in 1 .. k, NEW j \in 1 .. k, i < j
      PROVE  f[i] # f[j]
  <2>1. c[i] + 1 < c[j] + 1
    BY <1>2, <1>4
  <2>2. a[c[i] + 1] < a[c[j] + 1]
    BY <2>1, <1>1, <1>2
  <2>3. a[c[i] + 1] \in Int /\ a[c[j] + 1] \in Int
    BY <1>1, <1>2
  <2> QED
    BY <2>2, <2>3
<1>5. f \in Injection(1 .. k, Chosen(S, k, c))
  <2>1. f \in [1 .. k -> Chosen(S, k, c)]
    BY DEF Chosen, a
  <2>2. ASSUME NEW i \in 1 .. k, NEW j \in 1 .. k, f[i] = f[j]
        PROVE  i = j
    <3>1. ~(i < j) /\ ~(j < i)
      <4> HIDE DEF f
      <4> QED
        BY <1>4, <2>2
    <3> QED
      BY <3>1
  <2> HIDE DEF f
  <2> QED
    BY <2>1, <2>2 DEF Injection, IsInjective
<1>6. f \in Surjection(1 .. k, Chosen(S, k, c))
  BY <1>5 DEF Surjection, Injection, Chosen, a
<1>7. IsFiniteSet(1 .. k) /\ Cardinality(1 .. k) = k
  BY FS_Interval
<1>8. Cardinality(Chosen(S, k, c)) = k
  <2> HIDE DEF f
  <2> QED
    BY <1>5, <1>6, <1>7, FS_Surjection
<1> QED
  BY <1>3, <1>8 DEF kSubset

(* Another combination stands for others.                                  *)
LEMMA ChosenOnce ==
  ASSUME NEW S, S \subseteq Int, IsFiniteSet(S), NEW k \in Nat,
         NEW c \in Combs(Cardinality(S), k), NEW e \in Combs(Cardinality(S), k),
         NEW i \in 1 .. k, c[i] < e[i], \A j \in 1 .. i - 1 : c[j] = e[j]
  PROVE  Chosen(S, k, c) # Chosen(S, k, e)
<1> DEFINE n == Cardinality(S)
           a == SmallestFirst(S)
<1>1. /\ n \in Nat /\ a \in [1 .. n -> S]
      /\ \A x, y \in 1 .. n : x < y => a[x] < a[y]
  BY AscendingLists
<1> HIDE DEF n, a
<1>2. /\ \A x \in 1 .. k : c[x] + 1 \in 1 .. n /\ c[x] \in Nat /\ e[x] + 1 \in 1 .. n /\ e[x] \in Nat
      /\ \A x, y \in 1 .. k : x < y => c[x] < c[y] /\ e[x] < e[y]
  <2>1. \A x \in 1 .. k : c[x] \in 0 .. n - 1 /\ e[x] \in 0 .. n - 1
    BY DEF Combs, n
  <2>2. \A x, y \in 1 .. k : x < y => c[x] < c[y] /\ e[x] < e[y]
    BY DEF Combs
  <2> QED
    BY <1>1, <2>1, <2>2
<1>3. ASSUME NEW x \in 1 .. n, NEW y \in 1 .. n, a[x] = a[y]
      PROVE  x = y
  <2>1. a[x] \in Int
    BY <1>1
  <2>3. ~(a[x] < a[x])
    BY <2>1
  <2>2. ~(x < y) /\ ~(y < x)
    BY <1>1, <1>3, <2>3
  <2> QED
    BY <2>2
<1>4. SUFFICES ASSUME NEW j \in 1 .. k, a[c[i] + 1] = a[e[j] + 1]
               PROVE  FALSE
  BY DEF Chosen, a
<1>5. c[i] = e[j]
  BY <1>2, <1>3, <1>4
<1>6. CASE j < i
  <2>1. c[j] = e[j] /\ c[j] < c[i]
    BY <1>2, <1>6
  <2> QED
    BY <2>1, <1>2, <1>5
<1>7. CASE j = i
  BY <1>2, <1>5, <1>7
<1>8. CASE j > i
  <2>1. e[i] < e[j]
    BY <1>2, <1>8
  <2> QED
    BY <2>1, <1>2, <1>5
<1> QED
  BY <1>6, <1>7, <1>8

(* Every k elements have their combination.                                *)
LEMMA EveryChoice ==
  ASSUME NEW S, S \subseteq Int, IsFiniteSet(S), NEW k \in Nat, NEW T \in kSubset(k, S)
  PROVE  \E c \in Combs(Cardinality(S), k) : Chosen(S, k, c) = T
<1> DEFINE n == Cardinality(S)
           a == SmallestFirst(S)
           X == {i \in 0 .. n - 1 : a[i + 1] \in T}
           f == [x \in X |-> a[x + 1]]
<1>1. /\ n \in Nat /\ a \in [1 .. n -> S]
      /\ \A i, j \in 1 .. n : i < j => a[i] < a[j]
      /\ \A t \in S : \E i \in 1 .. n : a[i] = t
  BY AscendingLists
<1> HIDE DEF n, a
<1>2. T \subseteq S /\ Cardinality(T) = k
  BY DEF kSubset
<1>3. X \subseteq 0 .. n - 1 /\ X \subseteq Int /\ IsFiniteSet(X)
  <2>1. X \in SUBSET (0 .. n - 1) /\ X \subseteq Int
    OBVIOUS
  <2>2. IsFiniteSet(0 .. n - 1)
    BY <1>1, FS_Interval
  <2> HIDE DEF X
  <2> QED
    BY <2>1, <2>2, FS_Subset
<1>4. ASSUME NEW t \in T
      PROVE  \E x \in X : a[x + 1] = t
  <2>1. PICK i \in 1 .. n : a[i] = t
    BY <1>1, <1>2
  <2>2. i - 1 \in 0 .. n - 1 /\ (i - 1) + 1 = i
    BY <1>1
  <2>3. i - 1 \in X
    BY <2>1, <2>2
  <2> QED
    BY <2>1, <2>2, <2>3
<1>5. f \in Surjection(X, T)
  BY <1>4 DEF Surjection
<1>6. ASSUME NEW x \in X, NEW y \in X, a[x + 1] = a[y + 1]
      PROVE  x = y
  <2>1. x + 1 \in 1 .. n /\ y + 1 \in 1 .. n /\ x \in Int /\ y \in Int
    BY <1>1
  <2>4. a[x + 1] \in Int
    BY <1>1, <2>1
  <2>2. ~(a[x + 1] < a[x + 1])
    BY <2>4
  <2>3. ~(x + 1 < y + 1) /\ ~(y + 1 < x + 1)
    BY <1>1, <1>6, <2>1, <2>2
  <2> QED
    BY <2>1, <2>3
<1>7. f \in Injection(X, T)
  BY <1>5, <1>6 DEF Surjection, Injection, IsInjective
<1>8. Cardinality(X) = k
  <2> HIDE DEF f, X
  <2>1. Cardinality(T) = Cardinality(X)
    BY <1>3, <1>5, <1>7, FS_Surjection
  <2> QED
    BY <2>1, <1>2
<1> DEFINE c == SmallestFirst(X)
<1>9. /\ c \in [1 .. k -> X]
      /\ \A i, j \in 1 .. k : i < j => c[i] < c[j]
      /\ \A x \in X : \E i \in 1 .. k : c[i] = x
  <2> HIDE DEF X
  <2> QED
    BY <1>3, <1>8, AscendingLists
<1> HIDE DEF c
<1>10. c \in Combs(n, k)
  BY <1>3, <1>9 DEF Combs
<1>11. Chosen(S, k, c) \subseteq T
  BY <1>9 DEF Chosen, a
<1>12. ASSUME NEW t \in T
       PROVE  t \in Chosen(S, k, c)
  <2>1. PICK x \in X : a[x + 1] = t
    BY <1>4
  <2>2. PICK i \in 1 .. k : c[i] = x
    BY <1>9
  <2> QED
    BY <2>1, <2>2 DEF Chosen, a
<1> QED
  BY <1>10, <1>11, <1>12 DEF n

-----------------------------------------------------------------------------
(* The deck is a finite set of ids.                                        *)
LEMMA DeckFinite == IsFiniteSet(Deck) /\ Deck \subseteq Int
<1>1. Deck \in SUBSET (0 .. 51)
  BY HandsAssumption
<1>2. IsFiniteSet(0 .. 51)
  <2>1. 0 \in Int /\ 51 \in Int
    OBVIOUS
  <2> QED
    BY <2>1, FS_Interval
<1>3. IsFiniteSet(Deck)
  BY <1>1, <1>2, FS_Subset
<1> QED
  BY <1>1, <1>3

(* A call that is run, or has been; on a deck that can fill its board.     *)
Accepted == Verdict = "ok" /\ call.op = "equity" /\ Holes # <<>>

Runs == Accepted /\ EnoughCards

(* The board of a call and the cards left are finite and apart.            *)
LEMMA AcceptedFinite ==
  ASSUME call \in Calls, Accepted
  PROVE  /\ IsFiniteSet(Board) /\ Board \cap Live = {}
         /\ IsFiniteSet(Live) /\ Live \subseteq Int /\ Cardinality(Live) \in Nat
         /\ ToDraw \in Nat
<1>1. Deck \subseteq Int /\ IsFiniteSet(Deck)
  BY DeckFinite
<1>2. IsFiniteSet(Board) /\ Board \cap Live = {} /\ IsFiniteSet(Live) /\ Live \subseteq Int
  BY <1>1, FS_Subset DEF Board, Live
<1>3. Cardinality(Board) \in {0, 3, 4, 5}
  BY DEF Accepted, Verdict, EquityVerdict, LegalBoardCount
<1> QED
  BY <1>2, <1>3, FS_CardinalityType DEF ToDraw

(* A call whose cards run out is reported as exact, whatever it asked for. *)
LEMMA ShortIsExact ==
  ASSUME call \in Calls, Accepted, ~EnoughCards
  PROVE  RunIsExact
<1>1. Cardinality(Live) \in Nat /\ ToDraw \in Nat
  BY AcceptedFinite
<1>2. ToDraw # 0 /\ ToDraw > Cardinality(Live)
  BY <1>1 DEF EnoughCards
<1>3. BoardSpace = 0
  BY <1>2 DEF BoardSpace, Binomial
<1>4. call.iterations \in Int
  BY HandsAssumption
<1>5. ~(call.iterations < 0)
  BY DEF Accepted, Verdict, EquityVerdict
<1> QED
  BY <1>3, <1>4, <1>5 DEF RunIsExact

(* A call that runs has an input the deck covers.                          *)
LEMMA RunsCovered ==
  ASSUME call \in Calls, Runs
  PROVE  /\ Covered
         /\ IsFiniteSet(Board) /\ Board \cap Live = {}
BY AcceptedFinite DEF Runs, EnoughCards, Covered

(* The board of a combination is the board and the cards it chooses.       *)
LEMMA CombBoardIs ==
  ASSUME Covered, NEW c \in LiveCombs
  PROVE  CombBoard(c) = Board \union Chosen(Live, ToDraw, c)
<1>1. DOMAIN c = 1 .. ToDraw
  BY DEF LiveCombs, Combs
<1>2. DeckIndices = SmallestFirst(Live)
  BY DEF DeckIndices, SmallestFirst, Rank
<1> QED
  BY <1>1, <1>2 DEF CombBoard, Chosen

(* The boards of the combinations are the completions, each of one of      *)
(* them.                                                                   *)
LEMMA BoardsOfCombs ==
  ASSUME call \in Calls, Runs
  PROVE  /\ \A c, e \in LiveCombs : CombBoard(c) = CombBoard(e) => c = e
         /\ Completions = {CombBoard(c) : c \in LiveCombs}
<1>1. /\ Live \subseteq Int /\ IsFiniteSet(Live) /\ ToDraw \in Nat /\ Cardinality(Live) \in Nat
      /\ Covered /\ Board \cap Live = {}
  BY RunsCovered, FS_CardinalityType DEF Covered
<1>2. ASSUME NEW c \in LiveCombs
      PROVE  CombBoard(c) = Board \union Chosen(Live, ToDraw, c) /\ Chosen(Live, ToDraw, c) \in kSubset(ToDraw, Live)
  BY <1>1, CombBoardIs, ChosenAreSubsets DEF LiveCombs
<1>3. ASSUME NEW c \in LiveCombs, NEW e \in LiveCombs, CombBoard(c) = CombBoard(e)
      PROVE  c = e
  <2>1. Chosen(Live, ToDraw, c) = Chosen(Live, ToDraw, e)
    <3>1. Chosen(Live, ToDraw, c) \subseteq Live /\ Chosen(Live, ToDraw, e) \subseteq Live
      BY <1>2 DEF kSubset
    <3> QED
      BY <3>1, <1>1, <1>2, <1>3
  <2>2. ~Earlier(c, e, ToDraw) /\ ~Earlier(e, c, ToDraw)
    BY <2>1, <1>1, ChosenOnce DEF Earlier, LiveCombs
  <2> QED
    BY <2>2, <1>1, CombsAreOrdered DEF LiveCombs
<1>4. Draws = kSubset(ToDraw, Live)
  BY <1>1, DrawsAre
<1>5. ASSUME NEW drawn \in Draws
      PROVE  \E c \in LiveCombs : CombBoard(c) = Board \union drawn
  <2>1. PICK c \in LiveCombs : Chosen(Live, ToDraw, c) = drawn
    BY <1>1, <1>4, EveryChoice DEF LiveCombs
  <2> QED
    BY <2>1, <1>2
<1>6. ASSUME NEW c \in LiveCombs
      PROVE  \E drawn \in Draws : CombBoard(c) = Board \union drawn
  BY <1>2, <1>4
<1> QED
  <2>1. Completions = {Board \union drawn : drawn \in Draws}
    BY DEF Completions
  <2>2. Completions = {CombBoard(c) : c \in LiveCombs}
    BY <2>1, <1>5, <1>6
  <2> QED
    BY <2>2, <1>3

(* The combinations enumerated before c.                                   *)
Behind(c) == {x \in LiveCombs : Earlier(x, c, ToDraw)}

OnceEach(combs) == [b \in {CombBoard(c) : c \in combs} |-> 1]

(* A run past the end of the deck ran one board: what was left of it and   *)
(* some bits.                                                              *)
OneStrayBoard == \E stray \in Strays : evaluated = [b \in {Board \union Live \union stray} |-> 1]

(* What an exact run has run at the end.                                   *)
RanItAll ==
  /\ EnoughCards => evaluated = [b \in Completions |-> 1]
  /\ ~EnoughCards => OneStrayBoard

(* The enumeration has run the boards of the combinations behind it; a run *)
(* that is exact has run them all at the end. A deck that cannot fill the  *)
(* board is never sampled.                                                 *)
ExactInv ==
  /\ call \in Calls
  /\ pc \in {"call", "exact", "sample", "result", "done"}
  /\ pc = "call" => evaluated = [b \in {} |-> 0]
  /\ pc = "exact" => /\ Accepted /\ RunIsExact
                     /\ EnoughCards => comb \in LiveCombs /\ evaluated = OnceEach(Behind(comb))
                     /\ ~EnoughCards => evaluated = [b \in {} |-> 0]
  /\ pc = "sample" => Runs /\ ~RunIsExact
  /\ pc = "result" => /\ Accepted
                      /\ EnoughCards \/ RunIsExact
                      /\ RunIsExact => RanItAll
  /\ Answered => /\ summary.exact = RunIsExact
                 /\ EnoughCards \/ RunIsExact
                 /\ RunIsExact => RanItAll

(* One board more.                                                         *)
LEMMA CountNew ==
  ASSUME call \in Calls, Runs, NEW c \in LiveCombs, evaluated = OnceEach(Behind(c)),
         CountBoard(CombBoard(c))
  PROVE  evaluated' = OnceEach(Behind(c) \union {c})
<1>1. Covered /\ ToDraw \in Nat /\ Cardinality(Live) \in Nat
  BY RunsCovered, FS_CardinalityType DEF Covered
<1>2. ~Earlier(c, c, ToDraw)
  BY <1>1, NotBeforeItself DEF LiveCombs
<1>3. CombBoard(c) \notin DOMAIN evaluated
  BY <1>2, BoardsOfCombs DEF OnceEach, Behind
<1>4. evaluated' = [b \in DOMAIN evaluated \union {CombBoard(c)} |->
                      IF b = CombBoard(c) THEN 1 ELSE evaluated[b]]
  BY <1>3 DEF CountBoard
<1>5. DOMAIN evaluated = {CombBoard(x) : x \in Behind(c)} /\ \A b \in DOMAIN evaluated : evaluated[b] = 1
  BY DEF OnceEach
<1>6. {CombBoard(x) : x \in Behind(c) \union {c}} = DOMAIN evaluated \union {CombBoard(c)}
  BY <1>5
<1> QED
  BY <1>4, <1>5, <1>6 DEF OnceEach

(* The step of the enumeration.                                            *)
LEMMA Onward ==
  ASSUME call \in Calls, Runs, NEW c \in LiveCombs
  PROVE  /\ Movable(c) # {} => NextComb(c) \in LiveCombs /\ Behind(NextComb(c)) = Behind(c) \union {c}
         /\ Movable(c) = {} => LiveCombs = Behind(c) \union {c}
<1> DEFINE n == Cardinality(Live)
           k == ToDraw
<1>1. /\ Covered /\ k \in Nat /\ n \in Nat /\ c \in Combs(n, k)
  BY RunsCovered, FS_CardinalityType DEF Covered, LiveCombs
<1>2. DOMAIN c = 1 .. k /\ Len(c) = k /\ Len(DeckIndices) = n
  BY <1>1 DEF Combs, DeckIndices
<1> HIDE DEF n, k
<1>3. \A i : i \in Movable(c) <=> i \in 1 .. k /\ c[i] < n - k + i - 1
  BY <1>2 DEF Movable
<1>4. \A i \in 1 .. k : c[i] \in Nat
  BY <1>1, CombBounded
<1>5. CASE Movable(c) # {}
  <2> DEFINE i == Max(Movable(c))
  <2>1. i \in Movable(c) /\ \A j \in Movable(c) : i >= j
    <3>1. \E x \in Movable(c) : \A y \in Movable(c) : y <= x
      <4>1. Movable(c) \subseteq Nat /\ \A x \in Movable(c) : x <= k
        BY <1>1, <1>3
      <4> QED
        BY <4>1, <1>1, <1>5, GreatestNumber
    <3>2. \E x \in Movable(c) : \A y \in Movable(c) : x >= y
      <4>1. Movable(c) \subseteq Int
        BY <1>1, <1>3
      <4> QED
        BY <3>1, <4>1
    <3> QED
      BY <3>2 DEF Max
  <2> HIDE DEF i
  <2>2. i \in 1 .. k /\ c[i] < n - k + i - 1
    BY <2>1, <1>3
  <2>3. Stuck(c, i, n, k)
    <3>1. ASSUME NEW j \in i + 1 .. k
          PROVE  c[j] >= n - k + j - 1
      <4>1. j \in 1 .. k /\ ~(i >= j)
        BY <2>2
      <4>2. ~(c[j] < n - k + j - 1)
        BY <4>1, <2>1, <1>3
      <4> QED
        BY <4>1, <4>2, <1>1, <1>4
    <3> QED
      BY <3>1 DEF Stuck
  <2>4. NextComb(c) = Successor(c, i, k)
    BY <1>2 DEF NextComb, Successor, i
  <2>5. /\ Successor(c, i, k) \in Combs(n, k)
        /\ \A x \in Combs(n, k) : Earlier(x, Successor(c, i, k), k) <=> (x = c \/ Earlier(x, c, k))
    BY <2>2, <2>3, <1>1, NextIsNext
  <2> QED
    BY <2>4, <2>5, <1>5, <1>1 DEF LiveCombs, Behind, n, k
<1>6. CASE Movable(c) = {}
  <2>1. ASSUME NEW j \in 1 .. k
        PROVE  c[j] >= n - k + j - 1
    <3>1. ~(c[j] < n - k + j - 1)
      BY <1>3, <1>6
    <3> QED
      BY <3>1, <1>1, <1>4
  <2>2. \A x \in Combs(n, k) : x = c \/ Earlier(x, c, k)
    BY <2>1, <1>1, LastIsLast
  <2> QED
    BY <2>2, <1>6, <1>1 DEF LiveCombs, Behind, n, k
<1> QED
  BY <1>5, <1>6

(* What the steps leave alone: everything that is a matter of the call.    *)
LEMMA SameCall ==
  ASSUME call' = call
  PROVE  /\ Board' = Board /\ Holes' = Holes /\ Live' = Live /\ ToDraw' = ToDraw
         /\ Draws' = Draws /\ Completions' = Completions /\ DeckIndices' = DeckIndices
         /\ LiveCombs' = LiveCombs
         /\ Verdict' = Verdict /\ (Runs' <=> Runs) /\ RunIsExact' = RunIsExact
         /\ (Accepted' <=> Accepted) /\ (EnoughCards' <=> EnoughCards) /\ Strays' = Strays
<1>1. Board' = Board
  BY DEF Board
<1>2. Holes' = Holes
  BY DEF Holes, Stripped
<1>3. Live' = Live
  BY <1>1, <1>2 DEF Live
<1>4. ToDraw' = ToDraw
  BY <1>1 DEF ToDraw
<1>5. Draws' = Draws
  BY <1>3, <1>4 DEF Draws
<1>6. Verdict' = Verdict
  BY <1>1, <1>2 DEF Verdict, Arguments, EquityVerdict, JudgeVerdict, KnownGame, LegalBoardCount,
                    MaxPlayers, HandsFit
<1>7. RunIsExact' = RunIsExact
  BY <1>3, <1>4 DEF RunIsExact, BoardSpace
<1>8. (Runs' <=> Runs) /\ (Accepted' <=> Accepted) /\ (EnoughCards' <=> EnoughCards)
  BY <1>2, <1>3, <1>4, <1>6 DEF Runs, Accepted, EnoughCards
<1>9. Completions' = Completions
  BY <1>1, <1>5 DEF Completions
<1>10. DeckIndices' = DeckIndices
  <2>1. DeckIndices = SmallestFirst(Live)
    BY DEF DeckIndices, SmallestFirst, Rank
  <2>2. DeckIndices' = SmallestFirst(Live')
    BY DEF DeckIndices, SmallestFirst, Rank
  <2> QED
    BY <2>1, <2>2, <1>3
<1>11. LiveCombs' = LiveCombs
  BY <1>3, <1>4 DEF LiveCombs
<1>12. Strays' = Strays
  BY <1>3, <1>4 DEF Strays
<1> QED
  BY <1>1, <1>2, <1>3, <1>4, <1>5, <1>6, <1>7, <1>8, <1>9, <1>10, <1>11, <1>12

(* And what a run has at the end, when it runs nothing more.               *)
LEMMA SameEnd ==
  ASSUME call' = call, evaluated' = evaluated
  PROVE  RanItAll' <=> RanItAll
<1>1. OneStrayBoard' <=> OneStrayBoard
  BY SameCall DEF OneStrayBoard
<1> QED
  BY <1>1, SameCall DEF RanItAll

(* Nothing has been run at first.                                          *)
LEMMA InitExact == Init => ExactInv
BY DEF Init, ExactInv, Answered

(* The enumeration starts with nothing behind it.                          *)
LEMMA StartExact ==
  ASSUME ExactInv, Start
  PROVE  ExactInv'
<1>1. call' = call /\ call \in Calls /\ evaluated' = evaluated /\ evaluated = [b \in {} |-> 0]
  BY DEF ExactInv, Start
<1>2. Accepted
  BY DEF Start, Accepted
<1>3. CASE RunIsExact
  <2>1. pc' = "exact" /\ comb' = FirstComb
    BY <1>3 DEF Start
  <2>2. ASSUME EnoughCards
        PROVE  FirstComb \in LiveCombs /\ evaluated = OnceEach(Behind(FirstComb))
    <3>1. ToDraw \in Nat /\ Cardinality(Live) \in Nat /\ ToDraw <= Cardinality(Live)
      BY <1>1, <1>2, <2>2, AcceptedFinite DEF EnoughCards
    <3>2. FirstComb \in LiveCombs /\ \A c \in LiveCombs : ~Earlier(c, FirstComb, ToDraw)
      BY <3>1, FirstIsFirst DEF FirstComb, LiveCombs
    <3>3. Behind(FirstComb) = {}
      BY <3>2 DEF Behind
    <3> QED
      BY <3>2, <3>3, <1>1 DEF OnceEach
  <2>3. OnceEach(Behind(comb))' = OnceEach(Behind(FirstComb))
    BY <1>1, <2>1, SameCall DEF OnceEach, Behind, CombBoard
  <2> QED
    BY <1>1, <1>2, <1>3, <2>1, <2>2, <2>3, SameCall DEF ExactInv, Answered
<1>4. CASE ~RunIsExact
  <2>1. pc' = "sample"
    BY <1>4 DEF Start
  <2>2. Runs
    BY <1>1, <1>2, <1>4, ShortIsExact DEF Runs
  <2> QED
    BY <1>1, <1>4, <2>1, <2>2, SameCall DEF ExactInv, Answered
<1> QED
  BY <1>3, <1>4

(* Each step of it runs the board it is at.                                *)
LEMMA EnumerateExact ==
  ASSUME ExactInv, Enumerate
  PROVE  ExactInv'
<1>1. /\ call' = call /\ call \in Calls /\ Runs /\ RunIsExact /\ Accepted /\ EnoughCards
      /\ comb \in LiveCombs /\ evaluated = OnceEach(Behind(comb))
  BY DEF ExactInv, Enumerate, Runs
<1>2. evaluated' = OnceEach(Behind(comb) \union {comb})
  BY <1>1, CountNew DEF Enumerate
<1>3. CASE Movable(comb) # {}
  <2>1. pc' = "exact" /\ comb' = NextComb(comb)
    BY <1>3 DEF Enumerate
  <2>2. NextComb(comb) \in LiveCombs /\ Behind(NextComb(comb)) = Behind(comb) \union {comb}
    BY <1>1, <1>3, Onward
  <2>3. OnceEach(Behind(comb))' = OnceEach(Behind(NextComb(comb)))
    BY <1>1, <2>1, SameCall DEF OnceEach, Behind, CombBoard
  <2> QED
    BY <1>1, <1>2, <2>1, <2>2, <2>3, SameCall DEF ExactInv, Answered
<1>4. CASE Movable(comb) = {}
  <2>1. pc' = "result"
    BY <1>4 DEF Enumerate
  <2>2. OnceEach(Behind(comb) \union {comb}) = [b \in Completions |-> 1]
    BY <1>1, <1>4, Onward, BoardsOfCombs DEF OnceEach
  <2>3. RanItAll'
    BY <1>1, <1>2, <2>2, SameCall DEF RanItAll
  <2> QED
    BY <1>1, <2>1, <2>3, SameCall DEF ExactInv, Answered
<1> QED
  BY <1>3, <1>4

(* Past the end of the deck it runs one board.                             *)
LEMMA PastEndExact ==
  ASSUME ExactInv, EnumeratePastEnd
  PROVE  ExactInv'
<1>1. /\ call' = call /\ call \in Calls /\ Accepted /\ RunIsExact /\ ~EnoughCards
      /\ evaluated = [b \in {} |-> 0] /\ pc' = "result"
  BY DEF ExactInv, EnumeratePastEnd
<1>2. PICK stray \in Strays : CountBoard(Board \union Live \union stray)
  BY DEF EnumeratePastEnd
<1> DEFINE b == Board \union Live \union stray
<1>3. evaluated' = [c \in {b} |-> 1]
  <2>1. DOMAIN evaluated = {}
    BY <1>1
  <2>2. CountBoard(b)
    BY <1>2
  <2> HIDE DEF b
  <2>3. evaluated' = [c \in DOMAIN evaluated \union {b} |-> IF c = b THEN 1 ELSE evaluated[c]]
    BY <2>1, <2>2 DEF CountBoard
  <2> QED
    BY <2>1, <2>3
<1>4. OneStrayBoard'
  BY <1>1, <1>3, SameCall DEF OneStrayBoard
<1>5. RanItAll'
  BY <1>1, <1>4, SameCall DEF RanItAll
<1> QED
  BY <1>1, <1>5, SameCall DEF ExactInv, Answered

(* The exact half holds after every step.                                  *)
LEMMA StepExact ==
  ASSUME ExactInv, [Next]_vars
  PROVE  ExactInv'
<1>1. CASE Reject
  BY <1>1, SameCall DEF ExactInv, Reject, Return, Answered
<1>2. CASE NoPlayers
  BY <1>2, SameCall DEF ExactInv, NoPlayers, Return, Answered
<1>3. CASE Judge
  BY <1>3, SameCall DEF ExactInv, Judge, Return, Answered
<1>4. CASE Start
  BY <1>4, StartExact
<1>5. CASE Enumerate
  BY <1>5, EnumerateExact
<1>6. ASSUME NEW k \in Chunks, SampleTrial(k)
      PROVE  ExactInv'
  BY <1>6, SameCall DEF ExactInv, SampleTrial, Answered
<1>7. CASE FoldChunk
  BY <1>7, SameCall, SameEnd DEF ExactInv, FoldChunk, Answered, Runs
<1>8. CASE Emit
  <2>1. call' = call /\ pc' = "done" /\ call' \in Calls /\ evaluated' = evaluated
    BY <1>8 DEF ExactInv, Emit, Return
  <2>2. summary' = [chops |-> totals.chops, trials |-> totals.trials, exact |-> RunIsExact]
    BY <1>8 DEF Emit
  <2>3. summary'.exact = RunIsExact
    BY <2>2, Zenon
  <2>4. (EnoughCards \/ RunIsExact) /\ (RunIsExact => RanItAll)
    BY <1>8 DEF ExactInv, Emit
  <2>5. RunIsExact' = RunIsExact /\ (EnoughCards' <=> EnoughCards) /\ (RanItAll' <=> RanItAll)
    BY <2>1, SameCall, SameEnd
  <2> QED
    BY <2>1, <2>3, <2>4, <2>5 DEF ExactInv
<1>9. CASE UNCHANGED vars
  <2>1. call' = call /\ OnceEach(Behind(comb))' = OnceEach(Behind(comb))
    BY <1>9, SameCall DEF vars, OnceEach, Behind, CombBoard
  <2>2. Answered' <=> Answered
    BY <2>1, <1>9, SameCall DEF vars, Answered
  <2> QED
    BY <2>1, <2>2, <1>9, SameCall, SameEnd DEF vars, ExactInv
<1>10. CASE EnumeratePastEnd
  BY <1>10, PastEndExact
<1> QED
  BY <1>1, <1>2, <1>3, <1>4, <1>5, <1>6, <1>7, <1>8, <1>9, <1>10 DEF Next

-----------------------------------------------------------------------------
(* binomial_coefficient counts the sets of k out of n.                     *)
LEMMA BinomialCounts ==
  ASSUME NEW S, IsFiniteSet(S), NEW k \in 0 .. Cardinality(S)
  PROVE  Binomial(Cardinality(S), k) = Cardinality(kSubset(k, S))
<1> DEFINE n == Cardinality(S)
           m == IF k > n - k THEN n - k ELSE k
           body(f, i) == IF i = 0 THEN 1 ELSE (f[i - 1] * (n - i + 1)) \div i
           IsF(f) == f = [i \in 0 .. m |-> body(f, i)]
           f == CHOOSE f : IsF(f)
           size(i) == Cardinality(kSubset(i, S))
<1>1. n \in Nat /\ k \in 0 .. n /\ m \in 0 .. n
  BY FS_CardinalityType
<1>2. Binomial(n, k) = f[m]
  <2>1. ~(k > n)
    BY <1>1
  <2> QED
    BY <2>1 DEF Binomial
<1>3. ASSUME NEW i \in 1 .. m
      PROVE  size(i) = (size(i - 1) * (n - i + 1)) \div i
  <2>1. i * size(i) = (n - i + 1) * size(i - 1)
    BY <1>1, SubsetsStep
  <2>2. size(i) \in Nat /\ size(i - 1) \in Nat /\ i \in Nat \ {0} /\ n - i + 1 \in Nat
    BY <1>1, SubsetsFinite
  <2> HIDE DEF size, n, m
  <2>3. (n - i + 1) * size(i - 1) = size(i - 1) * (n - i + 1)
    BY <2>2
  <2>4. (i * size(i)) \div i = size(i)
    BY <2>2, TimesThenDivide
  <2> QED
    BY <2>1, <2>3, <2>4
<1>4. size(0) = 1
  <2>1. kSubset(0, S) = {{}}
    BY OneEmptySubset
  <2> QED
    BY <2>1, FS_Singleton
<1>5. \E g : IsF(g)
  <2> DEFINE g == [i \in 0 .. m |-> size(i)]
  <2>1. \A i \in 0 .. m : g[i] = body(g, i)
    <3>1. ASSUME NEW i \in 0 .. m, i # 0
          PROVE  g[i] = body(g, i)
      <4>1. i \in 1 .. m /\ i - 1 \in 0 .. m
        BY <1>1, <3>1
      <4>2. g[i] = size(i) /\ g[i - 1] = size(i - 1)
        BY <4>1
      <4> QED
        BY <4>1, <4>2, <3>1, <1>3
    <3> QED
      BY <3>1, <1>4
  <2>2. g = [i \in 0 .. m |-> body(g, i)]
    BY <2>1
  <2>3. IsF(g)
    BY <2>2
  <2> HIDE DEF g, IsF
  <2> QED
    BY <2>3
<1>6. IsF(f)
  <2> HIDE DEF IsF
  <2> QED
    BY <1>5
<1>7. f[0] = 1 /\ \A i \in 1 .. m : f[i] = (f[i - 1] * (n - i + 1)) \div i
  <2> HIDE DEF f
  <2>1. \A i \in 0 .. m : f[i] = body(f, i)
    BY <1>6
  <2>2. 0 \in 0 .. m /\ \A i \in 1 .. m : i \in 0 .. m /\ i # 0
    BY <1>1
  <2> QED
    BY <2>1, <2>2
<1> HIDE DEF f
<1> DEFINE Wrong == {i \in 0 .. m : f[i] # size(i)}
<1>8. Wrong = {}
  <2> SUFFICES ASSUME Wrong # {} PROVE FALSE
    OBVIOUS
  <2>1. PICK i \in Wrong : \A j \in Wrong : i <= j
    <3>1. Wrong \subseteq Nat
      BY <1>1
    <3> HIDE DEF Wrong
    <3> QED
      BY <3>1, LeastNumber
  <2>2. i # 0
    BY <1>4, <1>7
  <2>3. i \in 1 .. m /\ i - 1 \in 0 .. m /\ i - 1 \notin Wrong
    BY <2>1, <2>2, <1>1
  <2>4. f[i - 1] = size(i - 1)
    BY <2>3
  <2>5. f[i] = (f[i - 1] * (n - i + 1)) \div i
    BY <2>3, <1>7
  <2>6. f[i] = size(i)
    BY <2>3, <2>4, <2>5, <1>3
  <2> QED
    BY <2>6
<1>9. f[m] = size(m)
  <2>1. m \in 0 .. m /\ m \notin Wrong
    <3> HIDE DEF Wrong
    <3> QED
      BY <1>1, <1>8
  <2> QED
    BY <2>1
<1>10. size(m) = size(k)
  <2>1. size(n - k) = size(k)
    BY <1>1, SubsetsMirror
  <2> QED
    BY <2>1
<1> QED
  BY <1>2, <1>9, <1>10

-----------------------------------------------------------------------------
(* The top of a set of ranks.                                              *)
LEMMA MaxIsThere ==
  ASSUME NEW R, R \subseteq Nat, R # {}, NEW n \in Nat, \A r \in R : r <= n
  PROVE  Max(R) \in R /\ \A r \in R : Max(R) >= r
<1>1. PICK x \in R : \A y \in R : y <= x
  BY GreatestNumber
<1>2. \A y \in R : x >= y
  BY <1>1
<1> QED
  BY <1>2 DEF Max

(* The highest of a set of ranks is one of them.                           *)
LEMMA MaxIsARank ==
  ASSUME NEW R, R \subseteq Ranks, R # {}
  PROVE  Max(R) \in R
<1>1. R \subseteq Nat /\ \A r \in R : r <= 14
  BY DEF Ranks
<1> QED
  BY <1>1, MaxIsThere

(* Sets of ranks are finite.                                               *)
LEMMA RanksFinite == \A R \in SUBSET Ranks : IsFiniteSet(R) /\ R \subseteq Int
<1>1. IsFiniteSet(2 .. 14)
  <2>1. 2 \in Int /\ 14 \in Int
    OBVIOUS
  <2> QED
    BY <2>1, FS_Interval
<1>2. IsFiniteSet(Ranks)
  BY <1>1 DEF Ranks
<1>3. Ranks \subseteq Int
  BY DEF Ranks
<1> QED
  BY <1>2, <1>3, FS_Subset

(* The kickers are ranks of those given, and as many as are wanted.        *)
LEMMA TakeTopIs ==
  ASSUME NEW R, R \subseteq Ranks, NEW n \in Nat
  PROVE  /\ \A i \in DOMAIN TakeTop(R, n) : TakeTop(R, n)[i] \in Ranks
         /\ TakeTop(R, n) \in Seq(Ranks)
<1> DEFINE above(r) == Cardinality({q \in R : q > r})
           size == IF Cardinality(R) < n THEN Cardinality(R) ELSE n
<1>1. IsFiniteSet(R) /\ Cardinality(R) \in Nat /\ R \subseteq Int
  <2>1. R \in SUBSET Ranks
    OBVIOUS
  <2>2. IsFiniteSet(R) /\ R \subseteq Int
    BY <2>1, RanksFinite
  <2> QED
    BY <2>2, FS_CardinalityType
<1>2. TakeTop(R, n) = [i \in 1 .. size |-> CHOOSE r \in R : above(r) = i - 1]
  BY DEF TakeTop
<1>3. ASSUME NEW r \in R
      PROVE  above(r) = Cardinality(R) - 1 - Rank(R, r)
  <2> DEFINE up == {q \in R : q > r}
             down == {q \in R : q < r}
  <2>1. IsFiniteSet(up) /\ IsFiniteSet(down) /\ Cardinality(up) \in Nat /\ Cardinality(down) \in Nat
    <3>1. up \in SUBSET R /\ down \in SUBSET R
      OBVIOUS
    <3> QED
      BY <3>1, <1>1, FS_Subset, FS_CardinalityType
  <2>2. R \ {r} = up \union down /\ up \cap down = {}
    <3>1. \A q \in R : q \in Int
      BY <1>1
    <3> QED
      BY <3>1
  <2>3. Cardinality(R \ {r}) = Cardinality(R) - 1
    BY <1>1, FS_RemoveElement
  <2> HIDE DEF up, down
  <2>4. Cardinality(up \union down) = Cardinality(up) + Cardinality(down) - Cardinality(up \cap down)
    BY <2>1, FS_Union
  <2>5. Cardinality(up \cap down) = 0
    BY <2>2, FS_EmptySet
  <2>6. Cardinality(R \ {r}) = Cardinality(up \union down)
    BY <2>2
  <2>7. Cardinality(up) = Cardinality(R) - 1 - Cardinality(down)
    BY <1>1, <2>1, <2>3, <2>4, <2>5, <2>6
  <2> QED
    BY <2>7 DEF up, down, Rank
<1> HIDE DEF above
<1>4. ASSUME NEW i \in 1 .. size
      PROVE  \E r \in R : above(r) = i - 1
  <2> DEFINE j == Cardinality(R) - i + 1
             r == SmallestFirst(R)[j]
  <2>1. j \in 1 .. Cardinality(R) /\ i \in Int
    BY <1>1
  <2>2. r \in R /\ Rank(R, r) = j - 1
    BY <2>1, <1>1, AscendingLists
  <2> HIDE DEF r
  <2>3. above(r) = Cardinality(R) - 1 - (j - 1)
    BY <1>3, <2>2
  <2>4. above(r) = i - 1
    BY <1>1, <2>1, <2>3
  <2> QED
    BY <2>2, <2>4
<1> DEFINE t == [i \in 1 .. size |-> CHOOSE r \in R : above(r) = i - 1]
<1>5. size \in Nat /\ \A i \in 1 .. size : t[i] \in R
  BY <1>1, <1>4
<1>6. t \in [1 .. size -> Ranks]
  <2> HIDE DEF size
  <2> QED
    BY <1>5
<1>7. TakeTop(R, n) = t
  BY <1>2
<1> HIDE DEF t, size
<1> QED
  BY <1>5, <1>6, <1>7

(* The packed scores of a hand: six hexadecimal digits, the first not      *)
(* zero.                                                                   *)
ScoreBound == 16777216

Scores == {s \in Nat : s > 0 /\ s < ScoreBound}

(* The packed scores are numbers, and bounded.                             *)
LEMMA ScoresAre == ScoreBound \in Nat /\ Scores \subseteq Nat /\ \A s \in Scores : s > 0 /\ s <= ScoreBound
<1>1. ScoreBound \in Nat
  BY SMT DEF ScoreBound
<1> QED
  BY <1>1 DEF Scores

(* A category and its kickers pack into one.                               *)
LEMMA PackedIs ==
  ASSUME NEW category \in 1 .. 9, NEW kickers \in Seq(0 .. 14)
  PROVE  Packed(category, kickers) \in Scores
<1> DEFINE nibble(i) == IF i \in DOMAIN kickers THEN kickers[i] ELSE 0
<1>1. \A i \in 1 .. 5 : nibble(i) \in 0 .. 14
  <2>1. \A i \in DOMAIN kickers : kickers[i] \in 0 .. 14
    OBVIOUS
  <2> QED
    BY <2>1
<1>2. Packed(category, kickers) =
        ((((category * 16 + nibble(1)) * 16 + nibble(2)) * 16 + nibble(3)) * 16 + nibble(4)) * 16
          + nibble(5)
  BY DEF Packed
<1> DEFINE n1 == nibble(1)
           n2 == nibble(2)
           n3 == nibble(3)
           n4 == nibble(4)
           n5 == nibble(5)
           a == category * 16 + n1
           b == a * 16 + n2
           c == b * 16 + n3
           d == c * 16 + n4
<1>3. n1 \in 0 .. 14 /\ n2 \in 0 .. 14 /\ n3 \in 0 .. 14 /\ n4 \in 0 .. 14 /\ n5 \in 0 .. 14
  BY <1>1
<1>4. Packed(category, kickers) = d * 16 + n5
  BY <1>2
<1> HIDE DEF n1, n2, n3, n4, n5, a, b, c, d
<1>5. a \in 1 .. 255
  BY <1>3 DEF a
<1>6. b \in 1 .. 4095
  BY <1>3, <1>5 DEF b
<1>7. c \in Nat /\ c > 0 /\ c < 65536
  BY <1>3, <1>6 DEF c
<1>8. d \in Nat /\ d > 0 /\ d < 1048576
  BY <1>3, <1>7 DEF d
<1>9. d * 16 + n5 \in Scores
  BY <1>3, <1>8, SMT DEF Scores, ScoreBound
<1> QED
  BY <1>4, <1>9

(* Every hand scores: what eval_score7 returns is never the zero of no     *)
(* hand.                                                                   *)
LEMMA ScoreIs ==
  ASSUME NEW mask
  PROVE  Score(mask) \in Scores
<1> DEFINE c1 == HeldTimes(mask, 1)
           c2 == HeldTimes(mask, 2)
           c3 == HeldTimes(mask, 3)
           c4 == HeldTimes(mask, 4)
<1>0. /\ \A c \in 1 .. 9 : \A s \in Seq(0 .. 14) : Packed(c, s) \in Scores
      /\ HighCard \in 1 .. 9 /\ OnePair \in 1 .. 9 /\ TwoPair \in 1 .. 9
      /\ ThreeOfAKind \in 1 .. 9 /\ Straight \in 1 .. 9 /\ Flush \in 1 .. 9
      /\ FullHouse \in 1 .. 9 /\ FourOfAKind \in 1 .. 9 /\ StraightFlush \in 1 .. 9
  <2>1. ASSUME NEW c \in 1 .. 9, NEW s \in Seq(0 .. 14)
        PROVE  Packed(c, s) \in Scores
    BY PackedIs
  <2> QED
    BY <2>1 DEF HighCard, OnePair, TwoPair, ThreeOfAKind, Straight, Flush, FullHouse, FourOfAKind,
                StraightFlush
<1>1. c1 \subseteq Ranks /\ c2 \subseteq Ranks /\ c3 \subseteq Ranks /\ c4 \subseteq Ranks
  BY DEF HeldTimes
<1>2. \A s : Lane(mask, s) \subseteq Ranks
  BY DEF Lane
<1>3. Ranks \subseteq 0 .. 14 /\ Ranks \subseteq Nat
  BY DEF Ranks
<1>4. ASSUME NEW R, R \subseteq Ranks, NEW n \in Nat
      PROVE  TakeTop(R, n) \in Seq(0 .. 14)
  <2>1. TakeTop(R, n) \in Seq(Ranks)
    BY <1>4, TakeTopIs
  <2> DEFINE s == TakeTop(R, n)
  <2>2. s \in Seq(0 .. 14)
    <3>1. s \in Seq(Ranks)
      BY <2>1
    <3> HIDE DEF s
    <3>2. Len(s) \in Nat /\ s \in [1 .. Len(s) -> Ranks]
      BY <3>1
    <3>3. s \in [1 .. Len(s) -> 0 .. 14]
      BY <3>2, <1>3
    <3> QED
      BY <3>2, <3>3
  <2> QED
    BY <2>2
<1>5. ASSUME NEW R, R \subseteq Ranks
      PROVE  StraightHigh(R) \in 0 .. 14
  <2> DEFINE tops == {h \in 6 .. 14 : h - 4 .. h \subseteq R}
  <2>1. tops # {} => Max(tops) \in 0 .. 14
    <3>1. tops \subseteq Ranks
      BY DEF Ranks
    <3> HIDE DEF tops
    <3> QED
      BY <3>1, <1>3, MaxIsARank
  <2> HIDE DEF tops
  <2> QED
    BY <2>1 DEF StraightHigh, tops
<1>6. ASSUME NEW R, R \subseteq Ranks, R # {}
      PROVE  Max(R) \in 0 .. 14
  BY <1>6, <1>3, MaxIsARank
<1>7. ASSUME NEW x \in 0 .. 14, NEW s \in Seq(0 .. 14)
      PROVE  <<x>> \o s \in Seq(0 .. 14) /\ <<x>> \in Seq(0 .. 14)
  OBVIOUS
<1>8. ASSUME NEW R, R \subseteq Ranks
      PROVE  ScoreFlush(R) \in Scores
  <2>1. <<StraightHigh(R)>> \in Seq(0 .. 14) /\ TakeTop(R, 5) \in Seq(0 .. 14)
    <3>1. StraightHigh(R) \in 0 .. 14
      BY <1>5, <1>8
    <3>2. TakeTop(R, 5) \in Seq(0 .. 14)
      BY <1>4, <1>8
    <3> QED
      BY <3>1, <3>2
  <2>2. Packed(StraightFlush, <<StraightHigh(R)>>) \in Scores /\ Packed(Flush, TakeTop(R, 5)) \in Scores
    BY <2>1, <1>0
  <2> QED
    BY <2>2 DEF ScoreFlush
<1> HIDE DEF c1, c2, c3, c4
<1>9. ASSUME c3 # {}
      PROVE  ScoreTrips(c1, c2, c3) \in Scores
  <2> DEFINE t == Max(c3)
  <2>1. t \in 0 .. 14
    BY <1>1, <1>6, <1>9
  <2> HIDE DEF t
  <2>2. CASE c2 \ {t} # {}
    <3>1. Max(c2 \ {t}) \in 0 .. 14
      <4>1. c2 \ {t} \subseteq Ranks
        BY <1>1
      <4> QED
        BY <4>1, <2>2, <1>6
    <3>2. <<t, Max(c2 \ {t})>> \in Seq(0 .. 14)
      BY <2>1, <3>1
    <3>3. Packed(FullHouse, <<t, Max(c2 \ {t})>>) \in Scores
      BY <3>2, <1>0
    <3> QED
      BY <3>3, <2>2 DEF ScoreTrips, t
  <2>3. CASE ~(c2 \ {t} # {})
    <3>1. <<t>> \o TakeTop(c1 \ {t}, 2) \in Seq(0 .. 14)
      <4>1. c1 \ {t} \subseteq Ranks
        BY <1>1
      <4> QED
        BY <4>1, <1>4, <1>7, <2>1
    <3>2. Packed(ThreeOfAKind, <<t>> \o TakeTop(c1 \ {t}, 2)) \in Scores
      BY <3>1, <1>0
    <3> QED
      BY <3>2, <2>3 DEF ScoreTrips, t
  <2> QED
    BY <2>2, <2>3
<1>10. ASSUME c2 # {}
       PROVE  ScorePairs(c1, c2) \in Scores
  <2> DEFINE p1 == Max(c2)
             p2 == Max(c2 \ {p1})
  <2>1. p1 \in c2 /\ p1 \in 0 .. 14
    BY <1>1, <1>6, <1>10, MaxIsARank
  <2> HIDE DEF p1
  <2>2. CASE c2 # {p1}
    <3>1. c2 \ {p1} \subseteq Ranks /\ c2 \ {p1} # {}
      BY <1>1, <2>1, <2>2
    <3>2. p2 \in 0 .. 14
      BY <3>1, <1>6
    <3> HIDE DEF p2
    <3>3. TakeTop(c1 \ {p1, p2}, 1) \in Seq(0 .. 14)
      <4>1. c1 \ {p1, p2} \subseteq Ranks
        BY <1>1
      <4> QED
        BY <4>1, <1>4
    <3>4. <<p1, p2>> \o TakeTop(c1 \ {p1, p2}, 1) \in Seq(0 .. 14)
      <4>1. <<p1, p2>> \in Seq(0 .. 14)
        BY <2>1, <3>2
      <4> QED
        BY <3>3, <4>1
    <3>5. Packed(TwoPair, <<p1, p2>> \o TakeTop(c1 \ {p1, p2}, 1)) \in Scores
      BY <3>4, <1>0
    <3> QED
      BY <3>5, <2>2 DEF ScorePairs, p1, p2
  <2>3. CASE c2 = {p1}
    <3>1. <<p1>> \o TakeTop(c1 \ {p1}, 3) \in Seq(0 .. 14)
      <4>1. c1 \ {p1} \subseteq Ranks
        BY <1>1
      <4> QED
        BY <4>1, <1>4, <1>7, <2>1
    <3>2. Packed(OnePair, <<p1>> \o TakeTop(c1 \ {p1}, 3)) \in Scores
      BY <3>1, <1>0
    <3> QED
      BY <3>2, <2>3 DEF ScorePairs, p1
  <2> QED
    BY <2>2, <2>3
<1>11. ASSUME c4 # {}
       PROVE  Packed(FourOfAKind, <<Max(c4)>> \o TakeTop(c1 \ c4, 1)) \in Scores
  <2>1. Max(c4) \in 0 .. 14
    BY <1>1, <1>6, <1>11
  <2>2. TakeTop(c1 \ c4, 1) \in Seq(0 .. 14)
    <3>1. c1 \ c4 \subseteq Ranks
      BY <1>1
    <3> QED
      BY <3>1, <1>4
  <2>3. <<Max(c4)>> \o TakeTop(c1 \ c4, 1) \in Seq(0 .. 14)
    BY <2>1, <2>2, <1>7
  <2> QED
    BY <2>3, <1>0
<1>12. Packed(Straight, <<StraightHigh(c1)>>) \in Scores
  <2>1. <<StraightHigh(c1)>> \in Seq(0 .. 14)
    BY <1>1, <1>5
  <2> QED
    BY <2>1, <1>0
<1>13. Packed(HighCard, TakeTop(c1, 5)) \in Scores
  <2>1. TakeTop(c1, 5) \in Seq(0 .. 14)
    BY <1>1, <1>4
  <2> QED
    BY <2>1, <1>0
<1>14. ScoreFlush(Lane(mask, Min({s \in Suits : Cardinality(Lane(mask, s)) >= 5}))) \in Scores
  BY <1>2, <1>8
<1> QED
  BY <1>9, <1>10, <1>11, <1>12, <1>13, <1>14 DEF Score, c1, c2, c3, c4

-----------------------------------------------------------------------------
(* Whoever is scored, somebody wins.                                       *)
LEMMA SomebodyWins ==
  ASSUME NEW game, NEW holes, NEW board, DOMAIN holes # {},
         \A i \in DOMAIN holes : HandScore(game, holes[i], board) \in Scores
  PROVE  Winners(game, holes, board) # {}
<1> DEFINE scores == {<<i, HandScore(game, holes[i], board)>> : i \in DOMAIN holes}
           all == {0} \union {s[2] : s \in scores}
           best == Max(all)
<1>1. \A s \in scores : s[2] \in Scores
  OBVIOUS
<1>2. all \subseteq Nat /\ all # {} /\ \A x \in all : x <= ScoreBound
  <2>1. \A x \in all : x = 0 \/ x \in Scores
    BY <1>1
  <2>2. 0 \in all
    OBVIOUS
  <2>3. 0 \in Nat /\ 0 <= ScoreBound /\ \A s \in Scores : s \in Nat /\ s <= ScoreBound
    <3>1. 0 <= ScoreBound
      BY ScoresAre
    <3> QED
      BY <3>1, ScoresAre
  <2> HIDE DEF all
  <2>4. \A x \in all : x \in Nat /\ x <= ScoreBound
    BY <2>1, <2>3
  <2> QED
    BY <2>2, <2>4
<1>3. best \in all /\ \A x \in all : best >= x
  <2> HIDE DEF all
  <2> QED
    BY <1>2, ScoresAre, MaxIsThere
<1>4. PICK i \in DOMAIN holes : TRUE
  OBVIOUS
<1>5. HandScore(game, holes[i], board) \in all /\ HandScore(game, holes[i], board) \in Scores
  <2>1. <<i, HandScore(game, holes[i], board)>> \in scores
    OBVIOUS
  <2>2. <<i, HandScore(game, holes[i], board)>>[2] = HandScore(game, holes[i], board)
    OBVIOUS
  <2> HIDE DEF scores
  <2> QED
    BY <2>1, <2>2, <1>1
<1> HIDE DEF all
<1>6. best > 0
  <2>1. best \in Nat /\ best >= HandScore(game, holes[i], board)
    BY <1>2, <1>3, <1>5
  <2> QED
    <3>1. \A s \in Scores : s \in Nat /\ s > 0
      BY ScoresAre
    <3> QED
      BY <3>1, <2>1, <1>5
<1>7. PICK s \in scores : s[2] = best
  <2>1. best \in all /\ best # 0
    BY <1>3, <1>6
  <2> HIDE DEF best, scores
  <2> QED
    BY <2>1 DEF all
<1>8. s \in {x \in scores : best > 0 /\ x[2] = best}
  BY <1>6, <1>7
<1>9. Winners(game, holes, board) = {w[1] : w \in {x \in scores : best > 0 /\ x[2] = best}}
  BY DEF Winners, all
<1> HIDE DEF scores, best
<1> QED
  BY <1>8, <1>9

(* They are those no one beats.                                            *)
LEMMA WinnersAreTop ==
  ASSUME NEW game, NEW holes, NEW board, DOMAIN holes # {},
         \A i \in DOMAIN holes : HandScore(game, holes[i], board) \in Scores
  PROVE  /\ Winners(game, holes, board) \subseteq DOMAIN holes
         /\ \A i \in DOMAIN holes :
              i \in Winners(game, holes, board)
                <=> \A j \in DOMAIN holes : HandScore(game, holes[j], board) <= HandScore(game, holes[i], board)
<1> DEFINE score == [i \in DOMAIN holes |-> HandScore(game, holes[i], board)]
           scores == {<<i, HandScore(game, holes[i], board)>> : i \in DOMAIN holes}
           all == {0} \union {s[2] : s \in scores}
           best == Max(all)
<1>1. \A i \in DOMAIN holes : score[i] \in Scores
  OBVIOUS
<1>0. \A w : w \in scores <=> \E i \in DOMAIN holes : w = <<i, score[i]>>
  OBVIOUS
<1>2. \A x : x \in all <=> x = 0 \/ \E i \in DOMAIN holes : x = score[i]
  <2>1. \A x : x \in all <=> x = 0 \/ \E w \in scores : x = w[2]
    OBVIOUS
  <2> HIDE DEF all, scores, score
  <2>2. \A x : (\E w \in scores : x = w[2]) => \E i \in DOMAIN holes : x = score[i]
    BY <1>0
  <2>3. ASSUME NEW i \in DOMAIN holes
        PROVE  \E w \in scores : score[i] = w[2]
    <3>1. <<i, score[i]>> \in scores /\ <<i, score[i]>>[2] = score[i]
      BY <1>0
    <3> QED
      BY <3>1
  <2> QED
    BY <2>1, <2>2, <2>3
<1>3. Winners(game, holes, board) = {w[1] : w \in {x \in scores : best > 0 /\ x[2] = best}}
  BY DEF Winners, all
<1>4. \A i : i \in Winners(game, holes, board) <=> i \in DOMAIN holes /\ best > 0 /\ score[i] = best
  <2> HIDE DEF best, scores, score, all
  <2>1. \A i : i \in Winners(game, holes, board) <=> \E w \in scores : best > 0 /\ w[2] = best /\ i = w[1]
    BY <1>3
  <2>2. \A i : (\E w \in scores : best > 0 /\ w[2] = best /\ i = w[1]) => i \in DOMAIN holes /\ best > 0 /\ score[i] = best
    BY <1>0
  <2>3. ASSUME NEW i \in DOMAIN holes, best > 0, score[i] = best
        PROVE  \E w \in scores : best > 0 /\ w[2] = best /\ i = w[1]
    <3>1. <<i, score[i]>> \in scores /\ <<i, score[i]>>[2] = score[i] /\ <<i, score[i]>>[1] = i
      BY <1>0
    <3> QED
      BY <3>1, <2>3
  <2> QED
    BY <2>1, <2>2, <2>3
<1> HIDE DEF score, scores, all
<1>5. all \subseteq Nat /\ all # {} /\ \A x \in all : x <= ScoreBound
  <2>1. 0 \in all
    BY <1>2
  <2>2. \A x \in all : x = 0 \/ x \in Scores
    BY <1>1, <1>2
  <2>3. 0 \in Nat /\ 0 <= ScoreBound /\ \A s \in Scores : s \in Nat /\ s <= ScoreBound
    <3>1. 0 <= ScoreBound
      BY ScoresAre
    <3> QED
      BY <3>1, ScoresAre
  <2>4. \A x \in all : x \in Nat /\ x <= ScoreBound
    BY <2>2, <2>3
  <2> QED
    BY <2>1, <2>4
<1>6. best \in all /\ \A x \in all : best >= x
  BY <1>5, ScoresAre, MaxIsThere
<1> HIDE DEF best
<1>7. best \in Nat /\ best > 0
  <2>1. PICK i \in DOMAIN holes : TRUE
    OBVIOUS
  <2>2. score[i] \in all /\ score[i] \in Scores
    BY <1>1, <1>2
  <2>3. \A s \in Scores : s \in Nat /\ s > 0
    BY ScoresAre
  <2>4. best \in Nat /\ best >= score[i]
    BY <1>5, <1>6, <2>2
  <2> QED
    BY <2>2, <2>3, <2>4
<1>8. ASSUME NEW i \in DOMAIN holes
      PROVE  score[i] = best <=> \A j \in DOMAIN holes : score[j] <= score[i]
  <2>1. \A j \in DOMAIN holes : score[j] \in all /\ score[j] \in Nat
    BY <1>2, <1>5
  <2>2. PICK j \in DOMAIN holes : best = score[j]
    BY <1>2, <1>6, <1>7
  <2> QED
    BY <1>6, <1>7, <2>1, <2>2
<1>9. \A i \in DOMAIN holes : score[i] = HandScore(game, holes[i], board)
  BY DEF score
<1> QED
  BY <1>4, <1>7, <1>8, <1>9

(* The completions: as many as the ways to draw, and each a board of five  *)
(* cards.                                                                  *)
LEMMA CompletionsAre ==
  ASSUME call \in Calls, Runs
  PROVE  /\ IsFiniteSet(Completions)
         /\ Cardinality(Completions) = BoardSpace
         /\ \A drawn \in Draws : IsFiniteSet(Board \union drawn) /\ Cardinality(Board \union drawn) = 5
<1>1. Covered /\ IsFiniteSet(Board) /\ Board \cap Live = {}
  BY RunsCovered
<1>2. Draws = kSubset(ToDraw, Live)
  BY <1>1, DrawsAre
<1>3. IsFiniteSet(Draws)
  BY <1>1, <1>2, SubsetsFinite DEF Covered
<1>4. \A drawn \in Draws : drawn \in SUBSET Live /\ Cardinality(drawn) = ToDraw
  BY <1>2 DEF kSubset
<1> DEFINE f == [drawn \in Draws |-> Board \union drawn]
<1>5. Corresponds(Draws, Completions, f)
  <2>1. \A x \in Draws : f[x] \in Completions
    BY DEF Completions
  <2>2. ASSUME NEW x \in Draws, NEW y \in Draws, f[x] = f[y]
        PROVE  x = y
    <3>1. x \subseteq Live /\ y \subseteq Live /\ Board \union x = Board \union y
      BY <1>4, <2>2
    <3> QED
      BY <3>1, <1>1
  <2>3. \A z \in Completions : \E x \in Draws : f[x] = z
    BY DEF Completions
  <2> HIDE DEF f
  <2> QED
    BY <2>1, <2>2, <2>3 DEF Corresponds
<1>6. IsFiniteSet(Completions) /\ Cardinality(Completions) = Cardinality(Draws)
  <2> HIDE DEF f
  <2> QED
    BY <1>3, <1>5, SameSize
<1>7. Cardinality(Draws) = BoardSpace
  <2>1. CASE ToDraw = 0
    <3>1. kSubset(0, Live) = {{}}
      BY <1>1, OneEmptySubset DEF Covered
    <3> QED
      BY <3>1, <2>1, <1>2, FS_Singleton DEF BoardSpace
  <2>2. CASE ToDraw # 0
    <3>1. ToDraw \in 0 .. Cardinality(Live) /\ IsFiniteSet(Live)
      BY <1>1, FS_CardinalityType DEF Covered
    <3>2. Binomial(Cardinality(Live), ToDraw) = Cardinality(kSubset(ToDraw, Live))
      BY <3>1, BinomialCounts
    <3> QED
      BY <3>2, <2>2, <1>2 DEF BoardSpace
  <2> QED
    BY <2>1, <2>2
<1>8. ASSUME NEW drawn \in Draws
      PROVE  IsFiniteSet(Board \union drawn) /\ Cardinality(Board \union drawn) = 5
  <2>1. IsFiniteSet(drawn) /\ Cardinality(drawn) = ToDraw /\ Board \cap drawn = {}
    BY <1>1, <1>4, FS_Subset DEF Covered
  <2>2. Cardinality(Board \union drawn) = Cardinality(Board) + Cardinality(drawn) - Cardinality(Board \cap drawn)
    BY <1>1, <2>1, FS_Union
  <2>3. Cardinality(Board \cap drawn) = 0 /\ Cardinality(Board) \in Nat
    BY <1>1, <2>1, FS_EmptySet, FS_CardinalityType
  <2>4. IsFiniteSet(Board \union drawn)
    BY <1>1, <2>1, FS_Union
  <2> QED
    BY <2>1, <2>2, <2>3, <2>4 DEF ToDraw
<1> QED
  BY <1>6, <1>7, <1>8

(* A PLO hand of two cards or more and a board of three or more score.     *)
LEMMA PloScoreIs ==
  ASSUME NEW hole, NEW board, IsFiniteSet(hole), IsFiniteSet(board),
         Cardinality(hole) >= 2, Cardinality(board) >= 3
  PROVE  PloScore(hole, board) \in Scores
<1> DEFINE made == {Score(two \union three) : two \in kSubset(2, hole), three \in BoardTriples(board)}
           all == {0} \union made
<1>0. \A x : x \in made <=> \E two \in kSubset(2, hole), three \in BoardTriples(board) : x = Score(two \union three)
  OBVIOUS
<1> HIDE DEF made
<1>1. \A x \in made : x \in Scores
  BY <1>0, ScoreIs
<1>2. all \subseteq Nat /\ all # {} /\ \A x \in all : x <= ScoreBound
  <2>1. \A x \in all : x = 0 \/ x \in Scores
    BY <1>1
  <2>2. 0 \in all
    OBVIOUS
  <2>3. 0 \in Nat /\ 0 <= ScoreBound /\ \A s \in Scores : s \in Nat /\ s <= ScoreBound
    <3>1. 0 <= ScoreBound
      BY ScoresAre
    <3> QED
      BY <3>1, ScoresAre
  <2> HIDE DEF all
  <2>4. \A x \in all : x \in Nat /\ x <= ScoreBound
    BY <2>1, <2>3
  <2> QED
    BY <2>2, <2>4
<1>3. Max(all) \in all /\ \A x \in all : Max(all) >= x
  <2> HIDE DEF all
  <2> QED
    BY <1>2, ScoresAre, MaxIsThere
<1>4. \E two \in kSubset(2, hole) : TRUE
  BY SubsetsExist
<1>5. \E three \in BoardTriples(board) : TRUE
  BY SubsetsExist DEF BoardTriples
<1>6. \E x \in made : TRUE
  <2>1. PICK two \in kSubset(2, hole) : TRUE
    BY <1>4
  <2>2. PICK three \in BoardTriples(board) : TRUE
    BY <1>5
  <2> QED
    BY <2>1, <2>2, <1>0
<1>7. PICK x \in made : TRUE
  BY <1>6
<1>8. Max(all) # 0
  <2>1. x \in Scores /\ Max(all) >= x
    BY <1>1, <1>3, <1>7
  <2> QED
    BY <2>1, ScoresAre
<1>9. Max(all) \in Scores
  BY <1>1, <1>3, <1>8
<1> QED
  BY <1>9 DEF PloScore, made

(* Every player is scored on a completed board.                            *)
LEMMA AllScored ==
  ASSUME call \in Calls, Runs, NEW drawn \in Draws
  PROVE  /\ DOMAIN Holes # {}
         /\ \A i \in DOMAIN Holes : HandScore(call.game, Holes[i], Board \union drawn) \in Scores
<1> DEFINE b == Board \union drawn
<1>1. Holes # <<>> /\ HandsFit /\ KnownGame
  BY DEF Runs, Accepted, Verdict, EquityVerdict, Arguments
<1>2. DOMAIN Holes # {}
  <2>1. Holes = [i \in DOMAIN call.holes |-> call.holes[i] \cap Deck]
    BY DEF Holes, Stripped
  <2>2. DOMAIN Holes = {} => Holes = <<>>
    BY <2>1
  <2> QED
    BY <1>1, <2>2
<1>3. ASSUME NEW i \in DOMAIN Holes
      PROVE  HandScore(call.game, Holes[i], b) \in Scores
  <2>1. CASE call.game = "plo"
    <3>1. IsFiniteSet(Holes[i]) /\ Cardinality(Holes[i]) = 4
      <4>1. Holes[i] \in SUBSET Deck
        BY DEF Holes, Stripped
      <4>2. IsFiniteSet(Deck)
        BY DeckFinite
      <4> QED
        BY <4>1, <4>2, <1>1, <2>1, FS_Subset DEF HandsFit, CardsPerHand
    <3>2. IsFiniteSet(b) /\ Cardinality(b) = 5
      BY CompletionsAre
    <3>3. PloScore(Holes[i], b) \in Scores
      BY <3>1, <3>2, PloScoreIs
    <3> QED
      BY <2>1, <3>3 DEF HandScore
  <2>2. CASE call.game # "plo"
    BY <2>2, ScoreIs DEF HandScore
  <2> QED
    BY <2>1, <2>2
<1> QED
  BY <1>2, <1>3

(* The winners of a board.                                                 *)
Won(b) == Winners(call.game, Holes, b)

(* A trial on a whole board counts one, in every simulator.                *)
LEMMA TrialCountsOne ==
  ASSUME call \in Calls, Runs, NEW c, NEW drawn \in Draws
  PROVE  RunTrial(c, Board \union drawn).trials = c.trials + 1
<1> DEFINE b == Board \union drawn
<1>1. CASE HeadsUp
  <2>1. RunTrial(c, b) = HeadsUpTrial(c, b)
    BY <1>1 DEF RunTrial
  <2>2. HeadsUpTrial(c, b).trials = c.trials + 1
    BY DEF HeadsUpTrial
  <2> QED
    BY <2>1, <2>2
<1>2. CASE ~HeadsUp
  <2>1. RunTrial(c, b) = MultiwayTrial(c, b)
    BY <1>2 DEF RunTrial
  <2>2. Winners(call.game, Holes, b) # {}
    <3>1. DOMAIN Holes # {} /\ \A i \in DOMAIN Holes : HandScore(call.game, Holes[i], b) \in Scores
      BY AllScored
    <3> HIDE DEF b
    <3> QED
      BY <3>1, SomebodyWins
  <2>3. MultiwayTrial(c, b).trials = c.trials + 1
    <3> HIDE DEF b
    <3> QED
      BY <2>2 DEF MultiwayTrial
  <2> QED
    BY <2>1, <2>3
<1> QED
  BY <1>1, <1>2

-----------------------------------------------------------------------------
(* The iterations of a sampled run, and the chunks they are cut into.      *)
LEMMA SampledIterations ==
  ASSUME call \in Calls, Runs, ~RunIsExact
  PROVE  /\ call.iterations \in Nat \ {0}
         /\ call.iterations < Cardinality(Completions)
<1>1. call.iterations \in Int
  BY HandsAssumption
<1>2. ~(call.iterations < 0)
  BY DEF Runs, Accepted, Verdict, EquityVerdict
<1>3. call.iterations # 0 /\ ~(call.iterations >= BoardSpace)
  BY DEF RunIsExact
<1>4. BoardSpace \in Nat /\ Cardinality(Completions) = BoardSpace
  BY CompletionsAre, FS_CardinalityType
<1> QED
  BY <1>1, <1>2, <1>3, <1>4

(* The chunks hold the iterations, all of them full but the last.          *)
LEMMA ChunksAddUp ==
  ASSUME call.iterations \in Nat \ {0}
  PROVE  /\ IsFiniteSet(Chunks)
         /\ SumOn([k \in Chunks |-> TrialsOf(k)], Chunks) = call.iterations
<1> DEFINE f == [k \in Chunks |-> TrialsOf(k)]
           n == Parts(call.iterations, ChunkTrials)
<1>1. ChunkTrials \in Nat \ {0} /\ call.iterations \in Nat
  BY HandsAssumption
<1>2. Chunks = 1 .. n
  BY DEF Chunks, NumChunks, Parts
<1>3. \A k \in 1 .. n : f[k] = Part(call.iterations, ChunkTrials, k)
  BY <1>2 DEF TrialsOf, Part
<1> HIDE DEF f, n
<1>4. n \in Nat /\ SumOn(f, 1 .. n) = call.iterations
  BY <1>1, <1>3, PartsAddUp DEF n
<1>5. IsFiniteSet(1 .. n)
  BY <1>4, FS_Interval
<1> QED
  BY <1>2, <1>4, <1>5 DEF f

-----------------------------------------------------------------------------
(* The boards run so far, each as often as it was.                         *)
Ran == SumOn(evaluated, DOMAIN evaluated)

Counted == [k \in Chunks |-> counters[k].trials]

Counts == DOMAIN counters = Chunks /\ \A k \in Chunks : counters[k].trials \in Int

(* Only completions of the board are run.                                  *)
OnlyCompletions == DOMAIN evaluated \subseteq Completions /\ \A b \in DOMAIN evaluated : evaluated[b] \in Int

(* The counters of a sampled run have counted the boards it ran.           *)
SampledInv ==
  /\ ExactInv
  /\ pc = "sample" => Counts /\ OnlyCompletions /\ Ran = SumOn(Counted, Chunks)
  /\ pc = "result" => (RunIsExact \/ (OnlyCompletions /\ Ran = call.iterations))
  /\ Answered => Accepted /\ (RunIsExact \/ (OnlyCompletions /\ Ran = call.iterations))

(* The chunks are a matter of the call.                                    *)
LEMMA SameChunks ==
  ASSUME call' = call
  PROVE  /\ NumChunks' = NumChunks /\ Chunks' = Chunks
         /\ \A k : TrialsOf(k)' = TrialsOf(k)
<1>1. NumChunks' = NumChunks
  BY DEF NumChunks
<1> QED
  BY <1>1 DEF Chunks, TrialsOf

(* Nothing has been counted at first.                                      *)
LEMMA InitSampled == Init => SampledInv
BY InitExact DEF Init, SampledInv, Answered

(* The chunks start with no trial.                                         *)
LEMMA StartSampled ==
  ASSUME SampledInv, Start
  PROVE  SampledInv'
<1>1. ExactInv' /\ call' = call /\ call \in Calls /\ evaluated' = evaluated /\ evaluated = [b \in {} |-> 0]
  BY StartExact DEF SampledInv, ExactInv, Start
<1>2. Accepted /\ (RunIsExact \/ Runs)
  BY <1>1, ShortIsExact DEF Start, Accepted, Runs
<1>3. CASE RunIsExact
  <2>1. pc' = "exact"
    BY <1>3 DEF Start
  <2> QED
    BY <1>1, <2>1 DEF SampledInv, Answered
<1>4. CASE ~RunIsExact
  <2>1. pc' = "sample" /\ counters' = [k \in Chunks |-> Zero]
    BY <1>4 DEF Start
  <2>2. Chunks' = Chunks /\ Completions' = Completions
    BY <1>1, SameChunks, SameCall
  <2>3. Zero.trials = 0
    BY DEF Zero
  <2>4. \A k \in Chunks : counters'[k].trials = 0
    BY <2>1, <2>3
  <2>5. DOMAIN counters' = Chunks
    BY <2>1
  <2>6. Counts'
    BY <2>2, <2>4, <2>5 DEF Counts
  <2>7. OnlyCompletions'
    BY <1>1, <2>2 DEF OnlyCompletions
  <2>8. IsFiniteSet(Chunks)
    BY <1>1, <1>2, <1>4, SampledIterations, ChunksAddUp
  <2>9. Counted' = [k \in Chunks |-> counters'[k].trials]
    BY <2>2 DEF Counted
  <2> DEFINE f == [k \in Chunks |-> counters'[k].trials]
  <2>10. SumOn(f, Chunks) = 0
    <3>1. \A k \in Chunks : f[k] = 0
      BY <2>4
    <3> HIDE DEF f
    <3> QED
      BY <3>1, <2>8, SumOnZero
  <2>11. Ran' = 0
    <3>1. DOMAIN evaluated = {} /\ evaluated' = evaluated
      BY <1>1
    <3>2. SumOn(evaluated, {}) = 0
      BY FS_EmptySet, SumOnZero
    <3> QED
      BY <3>1, <3>2 DEF Ran
  <2>12. Ran' = SumOn(Counted, Chunks)'
    BY <2>2, <2>9, <2>10, <2>11
  <2> QED
    BY <1>1, <2>1, <2>6, <2>7, <2>12 DEF SampledInv, Answered
<1> QED
  BY <1>3, <1>4

(* One board more, whether it was run before or not.                       *)
LEMMA RanOneMore ==
  ASSUME IsFiniteSet(DOMAIN evaluated), \A x \in DOMAIN evaluated : evaluated[x] \in Int,
         NEW b, CountBoard(b)
  PROVE  /\ DOMAIN evaluated' = DOMAIN evaluated \union {b}
         /\ \A x \in DOMAIN evaluated' : evaluated'[x] \in Int
         /\ Ran' = Ran + 1
<1>1. CASE b \in DOMAIN evaluated
  <2>1. evaluated' = [evaluated EXCEPT ![b] = evaluated[b] + 1]
    BY <1>1 DEF CountBoard
  <2>2. DOMAIN evaluated' = DOMAIN evaluated
    BY <2>1
  <2>3. evaluated'[b] = evaluated[b] + 1 /\ \A x \in DOMAIN evaluated \ {b} : evaluated'[x] = evaluated[x]
    BY <1>1, <2>1
  <2>4. SumOn(evaluated', DOMAIN evaluated) = SumOn(evaluated, DOMAIN evaluated) + 1
    BY <1>1, <2>3, SumOnMore
  <2>5. Ran' = Ran + 1
    BY <2>2, <2>4 DEF Ran
  <2>6. \A x \in DOMAIN evaluated : evaluated'[x] \in Int
    BY <1>1, <2>3
  <2> QED
    BY <1>1, <2>2, <2>5, <2>6
<1>2. CASE b \notin DOMAIN evaluated
  <2>1. evaluated' = [x \in DOMAIN evaluated \union {b} |-> IF x = b THEN 1 ELSE evaluated[x]]
    BY <1>2 DEF CountBoard
  <2>2. DOMAIN evaluated' = DOMAIN evaluated \union {b}
    BY <2>1
  <2>3. evaluated'[b] = 1 /\ \A x \in DOMAIN evaluated : evaluated'[x] = evaluated[x]
    BY <1>2, <2>1
  <2>4. SumOn(evaluated', DOMAIN evaluated \union {b}) = evaluated'[b] + SumOn(evaluated, DOMAIN evaluated)
    <3>1. evaluated'[b] \in Int
      BY <2>3
    <3> QED
      BY <1>2, <2>3, <3>1, SumOnNew
  <2>5. SumOn(evaluated, DOMAIN evaluated) \in Int
    BY SumOnIs
  <2>6. Ran' = Ran + 1
    BY <2>2, <2>3, <2>4, <2>5 DEF Ran
  <2>7. \A x \in DOMAIN evaluated' : evaluated'[x] \in Int
    BY <2>2, <2>3
  <2> QED
    BY <2>2, <2>6, <2>7
<1> QED
  BY <1>1, <1>2

(* A trial is counted by its chunk, and is of a completion.                *)
LEMMA TrialSampled ==
  ASSUME SampledInv, NEW k \in Chunks, SampleTrial(k)
  PROVE  SampledInv'
<1>1. /\ call' = call /\ call \in Calls /\ Runs /\ ~RunIsExact /\ pc = "sample" /\ pc' = "sample"
      /\ Counts /\ OnlyCompletions /\ Ran = SumOn(Counted, Chunks)
  BY DEF SampledInv, ExactInv, SampleTrial
<1>2. PICK drawn \in Draws :
        /\ counters' = [counters EXCEPT ![k] = RunTrial(counters[k], Board \union drawn)]
        /\ CountBoard(Board \union drawn)
  BY DEF SampleTrial
<1>3. Chunks' = Chunks /\ Completions' = Completions
  BY <1>1, SameChunks, SameCall
<1>4. IsFiniteSet(Chunks)
  BY <1>1, SampledIterations, ChunksAddUp
<1>5. counters'[k].trials = counters[k].trials + 1 /\ \A j \in Chunks \ {k} : counters'[j] = counters[j]
  BY <1>1, <1>2, TrialCountsOne DEF Counts
<1>6. Counts'
  BY <1>1, <1>2, <1>3, <1>5 DEF Counts
<1> DEFINE f == Counted
           g == [j \in Chunks |-> counters'[j].trials]
<1>7. Counted' = g
  BY <1>3 DEF Counted
<1>8. SumOn(g, Chunks) = SumOn(f, Chunks) + 1
  <2>1. \A j \in Chunks : f[j] \in Int
    BY <1>1 DEF Counts, Counted
  <2>2. g[k] = f[k] + 1 /\ \A j \in Chunks \ {k} : g[j] = f[j]
    BY <1>5 DEF Counted
  <2> HIDE DEF f, g
  <2> QED
    BY <2>1, <2>2, <1>4, SumOnMore
<1>9. IsFiniteSet(DOMAIN evaluated) /\ Board \union drawn \in Completions
  BY <1>1, CompletionsAre, FS_Subset DEF OnlyCompletions, Completions
<1>10. /\ DOMAIN evaluated' = DOMAIN evaluated \union {Board \union drawn}
       /\ \A x \in DOMAIN evaluated' : evaluated'[x] \in Int
       /\ Ran' = Ran + 1
  BY <1>1, <1>2, <1>9, RanOneMore DEF OnlyCompletions
<1>11. OnlyCompletions'
  BY <1>1, <1>3, <1>9, <1>10 DEF OnlyCompletions
<1>12. ExactInv'
  BY StepExact DEF SampledInv, Next
<1>13. Ran' = SumOn(Counted, Chunks)'
  BY <1>1, <1>3, <1>7, <1>8, <1>10
<1> QED
  BY <1>1, <1>6, <1>11, <1>12, <1>13 DEF SampledInv, Answered

(* When the chunks are folded they have run all they were to.              *)
LEMMA FoldSampled ==
  ASSUME SampledInv, FoldChunk
  PROVE  SampledInv'
<1>1. /\ call' = call /\ call \in Calls /\ Runs /\ ~RunIsExact /\ pc = "sample"
      /\ Counts /\ OnlyCompletions /\ Ran = SumOn(Counted, Chunks)
      /\ evaluated' = evaluated /\ counters' = counters /\ pc' \in {"sample", "result"}
      /\ \A k \in Chunks : counters[k].trials = TrialsOf(k)
  BY DEF SampledInv, ExactInv, FoldChunk
<1>2. Chunks' = Chunks /\ Completions' = Completions
  BY <1>1, SameChunks, SameCall
<1>3. Counted = [k \in Chunks |-> TrialsOf(k)]
  BY <1>1 DEF Counted
<1>4. Ran = call.iterations
  BY <1>1, <1>3, SampledIterations, ChunksAddUp
<1>5. Ran' = Ran /\ Counted' = Counted /\ Counts' /\ OnlyCompletions'
  BY <1>1, <1>2 DEF Ran, Counted, Counts, OnlyCompletions
<1>6. ExactInv'
  BY StepExact DEF SampledInv, Next
<1> QED
  BY <1>1, <1>2, <1>4, <1>5, <1>6 DEF SampledInv, Answered

(* The whole invariant holds after every step.                             *)
LEMMA StepSampled ==
  ASSUME SampledInv, [Next]_vars
  PROVE  SampledInv'
<1>0. ExactInv /\ ExactInv'
  BY StepExact DEF SampledInv
<1>1. CASE Reject
  BY <1>0, <1>1, SameCall DEF SampledInv, Reject, Return, Answered
<1>2. CASE NoPlayers
  BY <1>0, <1>2, SameCall DEF SampledInv, NoPlayers, Return, Answered
<1>3. CASE Judge
  BY <1>0, <1>3, SameCall DEF SampledInv, Judge, Return, Answered
<1>4. CASE Start
  BY <1>4, StartSampled
<1>5. CASE Enumerate
  <2>1. call' = call /\ RunIsExact /\ pc' \in {"exact", "result"}
    BY <1>5 DEF ExactInv, SampledInv, Enumerate
  <2>2. RunIsExact' /\ ~Answered' /\ pc' # "sample"
    BY <2>1, SameCall DEF Answered
  <2> QED
    BY <1>0, <2>2 DEF SampledInv
<1>6. ASSUME NEW k \in Chunks, SampleTrial(k)
      PROVE  SampledInv'
  BY <1>6, TrialSampled
<1>7. CASE FoldChunk
  BY <1>7, FoldSampled
<1>8. CASE Emit
  <2>1. call' = call /\ pc = "result" /\ pc' = "done" /\ evaluated' = evaluated
    BY <1>8 DEF Emit, Return
  <2>2. /\ RunIsExact' = RunIsExact /\ Completions' = Completions
        /\ (Accepted' <=> Accepted) /\ Ran' = Ran
    BY <2>1, SameCall DEF Ran
  <2>3. Accepted
    BY <1>0, <2>1 DEF ExactInv
  <2>4. RunIsExact \/ (OnlyCompletions /\ Ran = call.iterations)
    BY <2>1 DEF SampledInv
  <2> QED
    BY <1>0, <2>1, <2>2, <2>3, <2>4 DEF SampledInv, OnlyCompletions
<1>9. CASE UNCHANGED vars
  <2>1. call' = call /\ pc' = pc /\ evaluated' = evaluated /\ counters' = counters
    BY <1>9 DEF vars
  <2>2. /\ RunIsExact' = RunIsExact /\ Completions' = Completions /\ (Accepted' <=> Accepted)
        /\ Chunks' = Chunks
    BY <2>1, SameCall, SameChunks
  <2>3. (Answered' <=> Answered) /\ Ran' = Ran /\ Counted' = Counted /\ (Counts' <=> Counts)
        /\ (OnlyCompletions' <=> OnlyCompletions)
    BY <2>1, <2>2, <1>9, SameCall DEF vars, Answered, Ran, Counted, Counts, OnlyCompletions
  <2> QED
    BY <1>0, <2>1, <2>2, <2>3 DEF SampledInv
<1>10. CASE EnumeratePastEnd
  <2>1. call' = call /\ RunIsExact /\ pc' = "result"
    BY <1>10 DEF ExactInv, SampledInv, EnumeratePastEnd
  <2>2. RunIsExact' /\ ~Answered' /\ pc' # "sample"
    BY <2>1, SameCall DEF Answered
  <2> QED
    BY <1>0, <2>2 DEF SampledInv
<1> QED
  BY <1>1, <1>2, <1>3, <1>4, <1>5, <1>6, <1>7, <1>8, <1>9, <1>10 DEF Next

(* For every call the library accepts: a run of calculate_equity reported  *)
(* as exact, on a deck that can fill the board, ran every completion of it *)
(* once; one that is not reported as exact ran as many boards as it was    *)
(* asked for, completions all of them, and those were fewer; and one whose *)
(* cards run out is reported as exact, having run the one board of the     *)
(* cards left and of the bits past the end of the deck.                    *)
THEOREM ExactOrSampled == Spec => []ExactMeansEveryBoardOnce
<1>1. SampledInv => ExactMeansEveryBoardOnce
  <2> SUFFICES ASSUME SampledInv, Answered
               PROVE  /\ summary.exact /\ EnoughCards => evaluated = [b \in Completions |-> 1]
                      /\ ~summary.exact => /\ SumFunction(evaluated) = call.iterations
                                           /\ call.iterations < Cardinality(Completions)
                                           /\ DOMAIN evaluated \subseteq Completions
                      /\ ~EnoughCards => summary.exact /\ OneStrayBoard
    BY DEF ExactMeansEveryBoardOnce, Completions, OneStrayBoard
  <2>1. /\ call \in Calls /\ Accepted /\ summary.exact = RunIsExact
        /\ EnoughCards \/ RunIsExact
        /\ RunIsExact => RanItAll
    BY DEF SampledInv, ExactInv
  <2>2. ASSUME ~RunIsExact
        PROVE  /\ SumFunction(evaluated) = call.iterations
               /\ call.iterations < Cardinality(Completions)
               /\ DOMAIN evaluated \subseteq Completions
    <3>1. OnlyCompletions /\ Ran = call.iterations
      BY <2>2 DEF SampledInv
    <3>2. SumFunction(evaluated) = Ran
      BY SumFunctionIs DEF Ran
    <3>3. Runs
      BY <2>1, <2>2 DEF Runs
    <3> QED
      BY <2>1, <2>2, <3>1, <3>2, <3>3, SampledIterations DEF OnlyCompletions
  <2>3. RunIsExact /\ EnoughCards => evaluated = [b \in Completions |-> 1]
    BY <2>1 DEF RanItAll
  <2>4. ~EnoughCards => RunIsExact /\ OneStrayBoard
    BY <2>1 DEF RanItAll
  <2> QED
    BY <2>1, <2>2, <2>3, <2>4
<1> QED
  BY <1>1, InitSampled, StepSampled, PTL DEF Spec

-----------------------------------------------------------------------------
(* The shares of the pots.                                                 *)

(* The hands are a sequence.                                               *)
LEMMA HandsAre ==
  ASSUME call \in Calls
  PROVE  /\ Len(call.holes) \in Nat /\ Len(Holes) = Len(call.holes)
         /\ DOMAIN Holes = 1 .. Len(Holes)
<1> DEFINE n == Len(call.holes)
<1>1. call.holes \in Seq(SUBSET (0 .. 63))
  BY HandsAssumption
<1>2. n \in Nat /\ DOMAIN call.holes = 1 .. n
  BY <1>1
<1>3. Holes = [i \in 1 .. n |-> call.holes[i] \cap Deck]
  BY <1>2 DEF Holes, Stripped
<1>4. Holes \in [1 .. n -> SUBSET Deck]
  BY <1>3
<1> HIDE DEF n
<1>5. Holes \in Seq(SUBSET Deck) /\ Len(Holes) = n
  BY <1>2, <1>4
<1> QED
  BY <1>2, <1>4, <1>5 DEF n

(* Somebody wins, and it is players.                                       *)
LEMMA WonBy ==
  ASSUME call \in Calls, Runs, NEW b \in Completions
  PROVE  /\ Won(b) \subseteq DOMAIN Holes /\ Won(b) # {}
         /\ Cardinality(Won(b)) \in Nat \ {0}
         /\ \A i : Won(b) = {i} <=> Cardinality(Won(b)) = 1 /\ i \in Won(b)
<1>1. PICK drawn \in Draws : b = Board \union drawn
  BY DEF Completions
<1>2. DOMAIN Holes # {} /\ \A i \in DOMAIN Holes : HandScore(call.game, Holes[i], b) \in Scores
  BY <1>1, AllScored
<1>3. Won(b) # {} /\ Won(b) \subseteq DOMAIN Holes
  BY <1>2, SomebodyWins, WinnersAreTop DEF Won
<1>4. IsFiniteSet(DOMAIN Holes)
  BY HandsAre, FS_Interval
<1>5. IsFiniteSet(Won(b)) /\ Cardinality(Won(b)) \in Nat /\ Cardinality(Won(b)) # 0
  BY <1>3, <1>4, FS_Subset, FS_CardinalityType, FS_EmptySet
<1>6. ASSUME NEW i
      PROVE  Won(b) = {i} <=> Cardinality(Won(b)) = 1 /\ i \in Won(b)
  <2>1. Cardinality({i}) = 1
    BY FS_Singleton
  <2>2. ASSUME Cardinality(Won(b)) = 1
        PROVE  \E x : Won(b) = {x}
    BY <1>5, <2>2, FS_Singleton
  <2> QED
    BY <2>1, <2>2
<1> QED
  BY <1>3, <1>5, <1>6

(* Two players of Hold'em: the two scores tell.                            *)
LEMMA HeadsUpWon ==
  ASSUME call \in Calls, Runs, HeadsUp, NEW b \in Completions
  PROVE  /\ DOMAIN Holes = {1, 2}
         /\ Score(b \union Holes[1]) \in Nat /\ Score(b \union Holes[2]) \in Nat
         /\ Score(b \union Holes[1]) > Score(b \union Holes[2]) <=> Won(b) = {1}
         /\ Score(b \union Holes[1]) < Score(b \union Holes[2]) <=> Won(b) = {2}
         /\ Score(b \union Holes[1]) = Score(b \union Holes[2]) <=> Won(b) = {1, 2}
<1> DEFINE s == Score(b \union Holes[1])
           t == Score(b \union Holes[2])
<1>1. DOMAIN Holes = {1, 2}
  BY HandsAre DEF HeadsUp
<1>2. PICK drawn \in Draws : b = Board \union drawn
  BY DEF Completions
<1>3. DOMAIN Holes # {} /\ \A i \in DOMAIN Holes : HandScore(call.game, Holes[i], b) \in Scores
  BY <1>2, AllScored
<1>4. HandScore(call.game, Holes[1], b) = s /\ HandScore(call.game, Holes[2], b) = t
  BY DEF HandScore, HeadsUp
<1>5. s \in Nat /\ t \in Nat
  BY <1>1, <1>3, <1>4, ScoresAre
<1>6. /\ Won(b) \subseteq {1, 2}
      /\ \A i \in {1, 2} : i \in Won(b) <=>
            \A j \in {1, 2} : HandScore(call.game, Holes[j], b) <= HandScore(call.game, Holes[i], b)
  BY <1>1, <1>3, WinnersAreTop DEF Won
<1> HIDE DEF s, t
<1>7. (1 \in Won(b) <=> t <= s) /\ (2 \in Won(b) <=> s <= t)
  BY <1>4, <1>5, <1>6
<1>8. Won(b) = {1} <=> 1 \in Won(b) /\ 2 \notin Won(b)
  BY <1>6
<1>9. Won(b) = {2} <=> 2 \in Won(b) /\ 1 \notin Won(b)
  BY <1>6
<1>10. Won(b) = {1, 2} <=> 1 \in Won(b) /\ 2 \in Won(b)
  BY <1>6
<1>11. s > t \/ s < t \/ s = t
  BY <1>5
<1>12. (s > t <=> Won(b) = {1}) /\ (s < t <=> Won(b) = {2}) /\ (s = t <=> Won(b) = {1, 2})
  BY <1>5, <1>7, <1>8, <1>9, <1>10, <1>11
<1> QED
  BY <1>1, <1>5, <1>12 DEF s, t

(* What a board adds to a count: of the trials, of the chops, and of the   *)
(* wins, shares and squared shares of player x[2].                         *)
ShareOf(i, b) == IF i \in Won(b) THEN ShareUnit \div Cardinality(Won(b)) ELSE 0

Pays(b, x) ==
  IF x[1] = "trials" THEN 1
  ELSE IF x[1] = "chops" THEN IF Cardinality(Won(b)) = 1 THEN 0 ELSE 1
  ELSE IF x[1] = "wins" THEN IF Won(b) = {x[2]} THEN 1 ELSE 0
  ELSE IF x[1] = "shares" THEN ShareOf(x[2], b)
  ELSE ShareOf(x[2], b) * ShareOf(x[2], b)

Sums == {"trials", "chops", "wins", "shares", "squares"} \X DOMAIN Holes

(* Half a pot.                                                             *)
Half == ShareUnit \div 2

(* The wins of a player heads up.                                          *)
WinsOf(c, i) == IF i = 1 THEN c.hero_wins ELSE c.trials - c.hero_wins - c.chops

(* What counters say of a count. Two players of Hold'em have three of      *)
(* them; the others have one for each.                                     *)
Reading(c, x) ==
  IF x[1] = "trials" THEN c.trials
  ELSE IF x[1] = "chops" THEN c.chops
  ELSE IF HeadsUp
       THEN IF x[1] = "wins" THEN WinsOf(c, x[2])
            ELSE IF x[1] = "shares" THEN WinsOf(c, x[2]) * ShareUnit + c.chops * Half
            ELSE WinsOf(c, x[2]) * (ShareUnit * ShareUnit) + c.chops * (Half * Half)
       ELSE IF x[1] = "wins" THEN c.win[x[2]]
            ELSE IF x[1] = "shares" THEN c.equity[x[2]]
            ELSE c.square[x[2]]

Seats == [DOMAIN Holes -> Int]

(* The counters of the two simulators.                                     *)
Shape(c) ==
  IF HeadsUp
  THEN /\ c.hero_wins \in Int /\ c.chops \in Int /\ c.trials \in Int
  ELSE /\ c.win \in Seats /\ c.equity \in Seats /\ c.square \in Seats
       /\ c.chops \in Int /\ c.trials \in Int

(* Half a pot is half a pot.                                               *)
LEMMA HalfIs ==
  ASSUME call \in Calls, Runs, HeadsUp
  PROVE  ShareUnit \in Nat /\ Half \in Nat /\ ShareUnit = 2 * Half
<1>1. Len(Holes) = 2 /\ Len(Holes) <= MaxSeats /\ MaxSeats \in Nat
  BY HandsAssumption DEF HeadsUp, Runs, Accepted, Verdict, EquityVerdict, MaxPlayers
<1>2. ShareUnit \in Nat /\ \A k \in 1 .. MaxSeats : ShareUnit % (2 * k) = 0
  BY HandsAssumption
<1>3. 1 \in 1 .. MaxSeats
  BY <1>1
<1>4. ShareUnit % (2 * 1) = 0
  BY <1>2, <1>3
<1> QED
  BY <1>2, <1>4 DEF Half

(* What a board is worth and what counters say are numbers.                *)
LEMMA PaysIs ==
  ASSUME call \in Calls, Runs, NEW b \in Completions, NEW x \in Sums
  PROVE  Pays(b, x) \in Int
<1>1. Cardinality(Won(b)) \in Nat \ {0} /\ ShareUnit \in Nat
  BY WonBy, HandsAssumption
<1>2. ShareOf(x[2], b) \in Int
  BY <1>1 DEF ShareOf
<1>3. ShareOf(x[2], b) * ShareOf(x[2], b) \in Int
  BY <1>2
<1> QED
  BY <1>2, <1>3 DEF Pays

(* And what counters say of it.                                            *)
LEMMA ReadingIs ==
  ASSUME call \in Calls, Runs, NEW c, Shape(c), NEW x \in Sums
  PROVE  Reading(c, x) \in Int
<1>1. x[2] \in DOMAIN Holes
  BY DEF Sums
<1>2. CASE HeadsUp
  <2>1. ShareUnit \in Int /\ Half \in Int /\ ShareUnit * ShareUnit \in Int /\ Half * Half \in Int
    BY <1>2, HalfIs
  <2>2. WinsOf(c, x[2]) \in Int /\ c.chops \in Int /\ c.trials \in Int
    BY <1>2 DEF WinsOf, Shape
  <2>3. WinsOf(c, x[2]) * ShareUnit + c.chops * Half \in Int
    BY <2>1, <2>2
  <2>4. WinsOf(c, x[2]) * (ShareUnit * ShareUnit) + c.chops * (Half * Half) \in Int
    BY <2>1, <2>2
  <2> QED
    BY <1>2, <2>2, <2>3, <2>4 DEF Reading
<1>3. CASE ~HeadsUp
  BY <1>1, <1>3 DEF Reading, Shape, Seats
<1> QED
  BY <1>2, <1>3

(* The counters start at zero.                                             *)
LEMMA ZeroReads ==
  ASSUME call \in Calls, Runs, NEW x \in Sums
  PROVE  Shape(Zero) /\ Reading(Zero, x) = 0
<1>1. x[2] \in DOMAIN Holes
  BY DEF Sums
<1>2. CASE HeadsUp
  <2>1. Zero.hero_wins = 0 /\ Zero.chops = 0 /\ Zero.trials = 0
    BY <1>2 DEF Zero
  <2>2. ShareUnit \in Int /\ Half \in Int /\ ShareUnit * ShareUnit \in Int /\ Half * Half \in Int
    BY <1>2, HalfIs
  <2>3. WinsOf(Zero, x[2]) = 0
    BY <2>1 DEF WinsOf
  <2>4. 0 * ShareUnit + 0 * Half = 0 /\ 0 * (ShareUnit * ShareUnit) + 0 * (Half * Half) = 0
    BY <2>2
  <2>5. Shape(Zero)
    BY <1>2, <2>1 DEF Shape
  <2> QED
    BY <1>2, <2>1, <2>3, <2>4, <2>5 DEF Reading
<1>3. CASE ~HeadsUp
  <2> DEFINE zeros == [i \in DOMAIN Holes |-> 0]
  <2>1. Zero.win = zeros /\ Zero.equity = zeros /\ Zero.square = zeros /\ Zero.chops = 0 /\ Zero.trials = 0
    BY <1>3 DEF Zero
  <2>2. zeros \in Seats /\ zeros[x[2]] = 0
    BY <1>1 DEF Seats
  <2> HIDE DEF zeros
  <2> QED
    BY <1>3, <2>1, <2>2 DEF Reading, Shape
<1> QED
  BY <1>2, <1>3

(* Folding adds.                                                           *)
LEMMA FoldedAdds ==
  ASSUME call \in Calls, Runs, NEW t, NEW c, Shape(t), Shape(c), NEW x \in Sums
  PROVE  Shape(Folded(t, c)) /\ Reading(Folded(t, c), x) = Reading(t, x) + Reading(c, x)
<1> DEFINE f == Folded(t, c)
<1>1. x[2] \in DOMAIN Holes
  BY DEF Sums
<1>2. CASE HeadsUp
  <2>1. f.hero_wins = t.hero_wins + c.hero_wins /\ f.chops = t.chops + c.chops /\ f.trials = t.trials + c.trials
    BY <1>2 DEF Folded
  <2> HIDE DEF f
  <2>2. /\ t.hero_wins \in Int /\ t.chops \in Int /\ t.trials \in Int
        /\ c.hero_wins \in Int /\ c.chops \in Int /\ c.trials \in Int
    BY <1>2 DEF Shape
  <2>3. Shape(f)
    BY <1>2, <2>1, <2>2 DEF Shape
  <2>4. WinsOf(f, x[2]) = WinsOf(t, x[2]) + WinsOf(c, x[2]) /\ WinsOf(t, x[2]) \in Int /\ WinsOf(c, x[2]) \in Int
    BY <2>1, <2>2 DEF WinsOf
  <2>5. \A u \in Int, v \in Int, w \in Int, z \in Int, p \in Int, q \in Int :
          (u + v) * p + (w + z) * q = (u * p + w * q) + (v * p + z * q)
    OBVIOUS
  <2>6. ShareUnit \in Int /\ Half \in Int /\ ShareUnit * ShareUnit \in Int /\ Half * Half \in Int
    BY <1>2, HalfIs
  <2>7. WinsOf(f, x[2]) * ShareUnit + f.chops * Half
          = (WinsOf(t, x[2]) * ShareUnit + t.chops * Half) + (WinsOf(c, x[2]) * ShareUnit + c.chops * Half)
    BY <2>1, <2>2, <2>4, <2>5, <2>6
  <2>8. WinsOf(f, x[2]) * (ShareUnit * ShareUnit) + f.chops * (Half * Half)
          = (WinsOf(t, x[2]) * (ShareUnit * ShareUnit) + t.chops * (Half * Half))
            + (WinsOf(c, x[2]) * (ShareUnit * ShareUnit) + c.chops * (Half * Half))
    BY <2>1, <2>2, <2>4, <2>5, <2>6
  <2>9. Reading(f, x) = Reading(t, x) + Reading(c, x)
    BY <1>2, <2>1, <2>4, <2>7, <2>8 DEF Reading
  <2> QED
    BY <2>3, <2>9 DEF f
<1>3. CASE ~HeadsUp
  <2>1. /\ f.win = Plus(t.win, c.win) /\ f.equity = Plus(t.equity, c.equity) /\ f.square = Plus(t.square, c.square)
        /\ f.chops = t.chops + c.chops /\ f.trials = t.trials + c.trials
    BY <1>3 DEF Folded
  <2> HIDE DEF f
  <2>2. \A g \in Seats, h \in Seats : Plus(g, h) \in Seats /\ Plus(g, h)[x[2]] = g[x[2]] + h[x[2]]
    BY <1>1 DEF Seats, Plus
  <2>3. /\ t.win \in Seats /\ t.equity \in Seats /\ t.square \in Seats /\ t.chops \in Int /\ t.trials \in Int
        /\ c.win \in Seats /\ c.equity \in Seats /\ c.square \in Seats /\ c.chops \in Int /\ c.trials \in Int
    BY <1>3 DEF Shape
  <2>4. Shape(f)
    BY <1>3, <2>1, <2>2, <2>3 DEF Shape
  <2>5. Reading(f, x) = Reading(t, x) + Reading(c, x)
    BY <1>3, <2>1, <2>2, <2>3 DEF Reading
  <2> QED
    BY <2>4, <2>5 DEF f
<1> QED
  BY <1>2, <1>3

(* A trial adds what its board is worth: heads up.                         *)
LEMMA HeadsUpAdds ==
  ASSUME call \in Calls, Runs, HeadsUp, NEW c, Shape(c), NEW b \in Completions, NEW x \in Sums
  PROVE  Shape(RunTrial(c, b)) /\ Reading(RunTrial(c, b), x) = Reading(c, x) + Pays(b, x)
<1> DEFINE f == RunTrial(c, b)
           s == Score(b \union Holes[1])
           t == Score(b \union Holes[2])
           w == IF s > t THEN 1 ELSE 0
           e == IF s = t THEN 1 ELSE 0
<1>1. /\ f.hero_wins = c.hero_wins + w /\ f.chops = c.chops + e /\ f.trials = c.trials + 1
  BY DEF RunTrial, HeadsUpTrial
<1>2. /\ DOMAIN Holes = {1, 2} /\ s \in Nat /\ t \in Nat
      /\ (s > t <=> Won(b) = {1}) /\ (s < t <=> Won(b) = {2}) /\ (s = t <=> Won(b) = {1, 2})
  BY HeadsUpWon
<1>3. c.hero_wins \in Int /\ c.chops \in Int /\ c.trials \in Int
  BY DEF Shape
<1>4. x[2] \in {1, 2} /\ x[1] \in {"trials", "chops", "wins", "shares", "squares"}
  BY <1>2 DEF Sums
<1>5. /\ ShareUnit \in Nat /\ Half \in Nat /\ ShareUnit = 2 * Half
      /\ ShareUnit * ShareUnit \in Int /\ Half * Half \in Int
  BY HalfIs
<1>6. Cardinality({1}) = 1 /\ Cardinality({2}) = 1 /\ Cardinality({1, 2}) = 2
  <2>1. Cardinality({1, 2}) = 2
    <3>1. {1, 2} = {1} \union {2} /\ 2 \notin {1}
      OBVIOUS
    <3>2. IsFiniteSet({1}) /\ Cardinality({1}) = 1
      BY FS_Singleton
    <3>3. Cardinality({1} \union {2}) = Cardinality({1}) + 1
      BY <3>1, <3>2, FS_AddElement
    <3> QED
      BY <3>1, <3>2, <3>3
  <2> QED
    BY <2>1, FS_Singleton
<1> DEFINE v == IF s < t THEN 1 ELSE 0
           mine == IF x[2] = 1 THEN w ELSE v
           Is == Pays(b, x) = IF x[1] = "trials" THEN 1
                               ELSE IF x[1] = "chops" THEN e
                               ELSE IF x[1] = "wins" THEN mine
                               ELSE IF x[1] = "shares" THEN mine * ShareUnit + e * Half
                               ELSE mine * (ShareUnit * ShareUnit) + e * (Half * Half)
<1>7. ASSUME s > t PROVE Is
  <2>1. Won(b) = {1} /\ w = 1 /\ e = 0 /\ v = 0
    BY <1>2, <1>7
  <2>2. ShareOf(1, b) = ShareUnit /\ ShareOf(2, b) = 0
    BY <2>1, <1>5, <1>6 DEF ShareOf
  <2>3. Won(b) = {x[2]} <=> x[2] = 1
    BY <2>1, <1>4
  <2>4. CASE x[2] = 1
    BY <2>1, <2>2, <2>3, <2>4, <1>5, <1>6 DEF Pays
  <2>5. CASE x[2] = 2
    BY <2>1, <2>2, <2>3, <2>5, <1>5, <1>6 DEF Pays
  <2> QED
    BY <1>4, <2>4, <2>5
<1>8. ASSUME s < t PROVE Is
  <2>1. Won(b) = {2} /\ w = 0 /\ e = 0 /\ v = 1
    BY <1>2, <1>8
  <2>2. ShareOf(2, b) = ShareUnit /\ ShareOf(1, b) = 0
    BY <2>1, <1>5, <1>6 DEF ShareOf
  <2>3. Won(b) = {x[2]} <=> x[2] = 2
    BY <2>1, <1>4
  <2>4. CASE x[2] = 1
    BY <2>1, <2>2, <2>3, <2>4, <1>5, <1>6 DEF Pays
  <2>5. CASE x[2] = 2
    BY <2>1, <2>2, <2>3, <2>5, <1>5, <1>6 DEF Pays
  <2> QED
    BY <1>4, <2>4, <2>5
<1>9. ASSUME s = t PROVE Is
  <2>1. Won(b) = {1, 2} /\ w = 0 /\ e = 1 /\ v = 0
    BY <1>2, <1>9
  <2>2. ShareOf(1, b) = Half /\ ShareOf(2, b) = Half
    BY <2>1, <1>6 DEF ShareOf, Half
  <2>3. Won(b) # {x[2]}
    BY <2>1, <1>4
  <2>4. ShareOf(x[2], b) = Half
    BY <2>2, <1>4
  <2> QED
    BY <2>1, <2>3, <2>4, <1>5, <1>6 DEF Pays
<1>10. Is
  BY <1>2, <1>7, <1>8, <1>9
<1> HIDE DEF f
<1>11. /\ w \in Int /\ e \in Int /\ v \in Int /\ w + e + v = 1
  BY <1>2
<1> HIDE DEF w, e, v
<1>12. Shape(f)
  BY <1>1, <1>3, <1>11 DEF Shape
<1>13. WinsOf(f, x[2]) = WinsOf(c, x[2]) + mine /\ WinsOf(c, x[2]) \in Int /\ mine \in Int
  BY <1>1, <1>3, <1>4, <1>11 DEF WinsOf
<1>14. \A k \in Int, l \in Int, m \in Int, n \in Int, p \in Int, q \in Int :
         (k + l) * p + (m + n) * q = (k * p + m * q) + (l * p + n * q)
  OBVIOUS
<1> HIDE DEF mine
<1>15. WinsOf(f, x[2]) * ShareUnit + f.chops * Half
         = (WinsOf(c, x[2]) * ShareUnit + c.chops * Half) + (mine * ShareUnit + e * Half)
  BY <1>1, <1>3, <1>5, <1>11, <1>13, <1>14
<1>16. WinsOf(f, x[2]) * (ShareUnit * ShareUnit) + f.chops * (Half * Half)
         = (WinsOf(c, x[2]) * (ShareUnit * ShareUnit) + c.chops * (Half * Half))
           + (mine * (ShareUnit * ShareUnit) + e * (Half * Half))
  <2> DEFINE p == ShareUnit * ShareUnit
             q == Half * Half
  <2>1. p \in Int /\ q \in Int
    BY <1>5
  <2> HIDE DEF p, q
  <2>2. WinsOf(f, x[2]) * p + f.chops * q
          = (WinsOf(c, x[2]) * p + c.chops * q) + (mine * p + e * q)
    BY <1>1, <1>3, <1>11, <1>13, <1>14, <2>1
  <2> QED
    BY <2>2 DEF p, q
<1>17. Reading(f, x) = Reading(c, x) + Pays(b, x)
  BY <1>1, <1>4, <1>10, <1>13, <1>15, <1>16 DEF Reading
<1> QED
  BY <1>12, <1>17 DEF f

(* And in the simulator of the others.                                     *)
LEMMA MultiwayAdds ==
  ASSUME call \in Calls, Runs, ~HeadsUp, NEW c, Shape(c), NEW b \in Completions, NEW x \in Sums
  PROVE  Shape(RunTrial(c, b)) /\ Reading(RunTrial(c, b), x) = Reading(c, x) + Pays(b, x)
<1> DEFINE f == RunTrial(c, b)
           w == Won(b)
           i == x[2]
           alone == Cardinality(w) = 1
           share == ShareUnit \div Cardinality(w)
           add(g, d) == [j \in DOMAIN g |-> IF j \in w THEN g[j] + d ELSE g[j]]
<1>1. /\ w # {} /\ Cardinality(w) \in Nat \ {0} /\ (w = {i} <=> alone /\ i \in w)
      /\ i \in DOMAIN Holes
  BY WonBy DEF Sums
<1>2. f = [win |-> IF alone THEN add(c.win, 1) ELSE c.win, equity |-> add(c.equity, share),
           square |-> add(c.square, share * share),
           chops |-> IF alone THEN c.chops ELSE c.chops + 1, trials |-> c.trials + 1]
  BY <1>1 DEF RunTrial, MultiwayTrial, Won
<1>3. /\ f.win = IF alone THEN add(c.win, 1) ELSE c.win
      /\ f.equity = add(c.equity, share) /\ f.square = add(c.square, share * share)
      /\ f.chops = (IF alone THEN c.chops ELSE c.chops + 1) /\ f.trials = c.trials + 1
  BY <1>2
<1>4. ASSUME NEW g \in Seats, NEW d \in Int
      PROVE  add(g, d) \in Seats /\ add(g, d)[i] = IF i \in w THEN g[i] + d ELSE g[i]
  BY <1>1 DEF Seats
<1>5. share \in Int /\ share * share \in Int
  <2>1. ShareUnit \in Nat
    BY HandsAssumption
  <2>2. share \in Int
    BY <1>1, <2>1
  <2> QED
    BY <2>2
<1>6. /\ c.win \in Seats /\ c.equity \in Seats /\ c.square \in Seats
      /\ c.chops \in Int /\ c.trials \in Int
  BY DEF Shape
<1>7. /\ c.win[i] \in Int /\ c.equity[i] \in Int /\ c.square[i] \in Int
  BY <1>1, <1>6 DEF Seats
<1>8. Pays(b, x) = IF x[1] = "trials" THEN 1
                    ELSE IF x[1] = "chops" THEN (IF alone THEN 0 ELSE 1)
                    ELSE IF x[1] = "wins" THEN (IF alone /\ i \in w THEN 1 ELSE 0)
                    ELSE IF x[1] = "shares" THEN (IF i \in w THEN share ELSE 0)
                    ELSE IF i \in w THEN share * share ELSE 0
  <2>1. ShareOf(i, b) = IF i \in w THEN share ELSE 0
    BY DEF ShareOf
  <2>2. 0 * 0 = 0
    OBVIOUS
  <2> HIDE DEF share
  <2>3. ShareOf(i, b) * ShareOf(i, b) = IF i \in w THEN share * share ELSE 0
    BY <2>1, <2>2
  <2> QED
    BY <1>1, <2>1, <2>3 DEF Pays
<1> HIDE DEF f, w, alone, share, add
<1>9. f.win \in Seats /\ f.win[i] = IF alone /\ i \in w THEN c.win[i] + 1 ELSE c.win[i]
  BY <1>3, <1>4, <1>6
<1>10. f.equity \in Seats /\ f.equity[i] = IF i \in w THEN c.equity[i] + share ELSE c.equity[i]
  <2> DEFINE g == c.equity
  <2>1. g \in Seats /\ share \in Int /\ f.equity = add(g, share)
    BY <1>3, <1>5, <1>6
  <2> HIDE DEF g
  <2>2. add(g, share) \in Seats /\ add(g, share)[i] = IF i \in w THEN g[i] + share ELSE g[i]
    BY <2>1, <1>4
  <2> QED
    BY <2>1, <2>2 DEF g
<1>11. f.square \in Seats /\ f.square[i] = IF i \in w THEN c.square[i] + share * share ELSE c.square[i]
  <2> DEFINE g == c.square
             d == share * share
  <2>1. g \in Seats /\ d \in Int /\ f.square = add(g, d)
    BY <1>3, <1>5, <1>6
  <2> HIDE DEF g, d
  <2>2. add(g, d) \in Seats /\ add(g, d)[i] = IF i \in w THEN g[i] + d ELSE g[i]
    BY <2>1, <1>4
  <2> QED
    BY <2>1, <2>2 DEF g, d
<1>12. f.chops \in Int /\ f.trials \in Int
  BY <1>3, <1>6
<1>13. Shape(f)
  BY <1>9, <1>10, <1>11, <1>12 DEF Shape
<1>14. Reading(f, x) = Reading(c, x) + Pays(b, x)
  <2> DEFINE sq == share * share
  <2>1. sq \in Int
    BY <1>5
  <2>2. f.square[i] = IF i \in w THEN c.square[i] + sq ELSE c.square[i]
    BY <1>11
  <2>3. Pays(b, x) = IF x[1] = "trials" THEN 1
                      ELSE IF x[1] = "chops" THEN (IF alone THEN 0 ELSE 1)
                      ELSE IF x[1] = "wins" THEN (IF alone /\ i \in w THEN 1 ELSE 0)
                      ELSE IF x[1] = "shares" THEN (IF i \in w THEN share ELSE 0)
                      ELSE IF i \in w THEN sq ELSE 0
    BY <1>8
  <2> HIDE DEF sq
  <2>4. CASE x[1] = "trials"
    BY <2>4, <2>3, <1>3, <1>6 DEF Reading
  <2>5. CASE x[1] = "chops"
    BY <2>5, <2>3, <1>3, <1>6 DEF Reading
  <2>6. CASE x[1] = "wins"
    BY <2>6, <2>3, <1>9, <1>7 DEF Reading
  <2>7. CASE x[1] = "shares"
    BY <2>7, <2>3, <1>10, <1>7, <1>5 DEF Reading
  <2>8. CASE x[1] \notin {"trials", "chops", "wins", "shares"}
    BY <2>8, <2>1, <2>2, <2>3, <1>7 DEF Reading
  <2> QED
    BY <2>4, <2>5, <2>6, <2>7, <2>8
<1> QED
  BY <1>13, <1>14 DEF f

(* A trial adds what its board is worth.                                   *)
LEMMA TrialAdds ==
  ASSUME call \in Calls, Runs, NEW c, Shape(c), NEW b \in Completions, NEW x \in Sums
  PROVE  Shape(RunTrial(c, b)) /\ Reading(RunTrial(c, b), x) = Reading(c, x) + Pays(b, x)
BY HeadsUpAdds, MultiwayAdds

-----------------------------------------------------------------------------
(* What the boards run so far are worth, each as often as it was run.      *)
Taken(x) == [b \in DOMAIN evaluated |-> evaluated[b] * Pays(b, x)]

Takings(x) == SumOn(Taken(x), DOMAIN evaluated)

(* One board more, and what it is worth.                                   *)
LEMMA TakenOneMore ==
  ASSUME call \in Calls, call' = call, Runs, OnlyCompletions, NEW b \in Completions, CountBoard(b),
         NEW x \in Sums
  PROVE  Takings(x)' = Takings(x) + Pays(b, x) /\ OnlyCompletions'
<1> DEFINE D == DOMAIN evaluated
           w == [c \in Completions |-> Pays(c, x)]
           f == [c \in D |-> evaluated[c] * w[c]]
           g == [c \in DOMAIN evaluated' |-> evaluated'[c] * w[c]]
<1>1. IsFiniteSet(D) /\ D \subseteq Completions /\ \A c \in D : evaluated[c] \in Int
  BY CompletionsAre, FS_Subset DEF OnlyCompletions
<1>2. \A c \in Completions : w[c] \in Int /\ w[c] = Pays(c, x)
  BY PaysIs
<1>3. Completions' = Completions /\ Holes' = Holes /\ \A c : Pays(c, x)' = Pays(c, x)
  BY SameCall DEF Pays, ShareOf, Won
<1>4. /\ DOMAIN evaluated' = D \union {b}
      /\ \A c \in DOMAIN evaluated' : evaluated'[c] \in Int
  BY <1>1, RanOneMore
<1>5. OnlyCompletions'
  BY <1>1, <1>3, <1>4 DEF OnlyCompletions
<1>6. Taken(x) = f
  BY <1>1, <1>2 DEF Taken
<1>7. Taken(x)' = g
  BY <1>1, <1>2, <1>3, <1>4 DEF Taken
<1>8. \A c \in D : f[c] = evaluated[c] * w[c] /\ f[c] \in Int
  BY <1>1, <1>2
<1>9. \A c \in D \union {b} : g[c] = evaluated'[c] * w[c] /\ g[c] \in Int
  BY <1>1, <1>2, <1>4
<1>10. SumOn(g, D \union {b}) = SumOn(f, D) + w[b]
  <2>1. CASE b \in D
    <3>1. evaluated'[b] = evaluated[b] + 1 /\ \A c \in D \ {b} : evaluated'[c] = evaluated[c]
      BY <2>1 DEF CountBoard
    <3>2. D \union {b} = D
      BY <2>1
    <3>3. g[b] = f[b] + w[b]
      <4>1. \A m \in Int, n \in Int : (m + 1) * n = m * n + n
        OBVIOUS
      <4>2. f[b] = evaluated[b] * w[b] /\ g[b] = (evaluated[b] + 1) * w[b]
        BY <2>1, <3>1, <1>8, <1>9
      <4>3. evaluated[b] \in Int /\ w[b] \in Int
        BY <2>1, <1>1, <1>2
      <4> HIDE DEF D, w, f, g
      <4>4. (evaluated[b] + 1) * w[b] = evaluated[b] * w[b] + w[b]
        BY <4>1, <4>3
      <4> QED
        BY <4>2, <4>4
    <3>4. \A c \in D \ {b} : g[c] = f[c]
      BY <3>1, <1>8, <1>9
    <3>5. IsFiniteSet(D) /\ w[b] \in Int /\ \A c \in D : f[c] \in Int
      BY <1>1, <1>2, <1>8
    <3> HIDE DEF D, w, f, g
    <3>6. SumOn(g, D) = SumOn(f, D) + w[b]
      BY <2>1, <3>3, <3>4, <3>5, SumOnChanged
    <3> QED
      BY <3>2, <3>6
  <2>2. CASE b \notin D
    <3>1. evaluated'[b] = 1 /\ \A c \in D : evaluated'[c] = evaluated[c]
      BY <2>2 DEF CountBoard
    <3>2. g[b] = w[b] /\ w[b] \in Int
      <4>1. g[b] = 1 * w[b] /\ w[b] \in Int
        BY <3>1, <1>2, <1>9
      <4> HIDE DEF w, g
      <4>2. 1 * w[b] = w[b]
        BY <4>1
      <4> QED
        BY <4>1, <4>2
    <3>3. \A c \in D : g[c] = f[c]
      BY <3>1, <1>8, <1>9
    <3> HIDE DEF D, w, f, g
    <3>4. SumOn(g, D \union {b}) = g[b] + SumOn(f, D)
      BY <2>2, <3>2, <3>3, <1>1, <1>8, SumOnNew
    <3>5. SumOn(f, D) \in Int
      BY <1>1, <1>8, SumOnIs
    <3> QED
      BY <3>2, <3>4, <3>5
  <2> QED
    BY <2>1, <2>2
<1>11. Takings(x)' = SumOn(g, D \union {b}) /\ Takings(x) = SumOn(f, D)
  BY <1>4, <1>6, <1>7 DEF Takings
<1> QED
  BY <1>2, <1>5, <1>10, <1>11

(* Nothing is taken before anything is run.                                *)
LEMMA NothingTaken ==
  ASSUME evaluated = [b \in {} |-> 0], NEW x
  PROVE  Takings(x) = 0
<1>1. DOMAIN evaluated = {}
  OBVIOUS
<1>2. SumOn(Taken(x), {}) = 0
  BY FS_EmptySet, SumOnZero
<1> QED
  BY <1>1, <1>2 DEF Takings

-----------------------------------------------------------------------------
(* What the chunks say of a count.                                         *)
Tally(x) == [k \in Chunks |-> Reading(counters[k], x)]

(* The chunks, between them, have counted the boards that were run.        *)
ChunksRead ==
  /\ DOMAIN counters = Chunks
  /\ \A k \in Chunks : Shape(counters[k])
  /\ \A x \in Sums : SumOn(Tally(x), Chunks) = Takings(x)

(* The totals are those of the chunks folded so far; none is folded before *)
(* all are done.                                                           *)
Folding ==
  /\ folded \in Nat /\ folded < NumChunks
  /\ folded # 0 => \A k \in Chunks : counters[k].trials = TrialsOf(k)
  /\ Shape(totals)
  /\ \A x \in Sums : Reading(totals, x) = SumOn(Tally(x), 1 .. folded)

(* The totals have counted the boards that were run.                       *)
TotalsRead ==
  /\ Shape(totals)
  /\ \A x \in Sums : Reading(totals, x) = Takings(x)

(* What the caller sees.                                                   *)
Shown ==
  /\ summary.chops = totals.chops /\ summary.trials = totals.trials
  /\ call.wants => \A i \in DOMAIN Holes : columns[i] = Rows(totals)[i]

(* At every point of a run the counters say what the boards are worth, on  *)
(* a deck that can fill the board.                                         *)
PotInv ==
  /\ SampledInv
  /\ DOMAIN columns = 1 .. call.capacity
  /\ pc = "call" => folded = 0
  /\ pc = "exact" /\ EnoughCards => OnlyCompletions /\ TotalsRead
  /\ pc = "sample" => ChunksRead /\ Folding
  /\ pc = "result" /\ EnoughCards => OnlyCompletions /\ TotalsRead
  /\ Answered /\ EnoughCards => OnlyCompletions /\ TotalsRead /\ Shown

(* What is a matter of the call.                                           *)
LEMMA SameReading ==
  ASSUME call' = call
  PROVE  /\ Sums' = Sums /\ (HeadsUp' <=> HeadsUp)
         /\ \A x : Reading(totals, x)' = Reading(totals', x)
         /\ Shape(totals)' <=> Shape(totals')
         /\ \A k, x : Reading(counters[k], x)' = Reading(counters'[k], x)
         /\ \A k : Shape(counters[k])' <=> Shape(counters'[k])
         /\ \A b, x : Pays(b, x)' = Pays(b, x)
<1>1. Holes' = Holes
  BY SameCall
<1>2. HeadsUp' <=> HeadsUp
  BY <1>1 DEF HeadsUp
<1>3. Sums' = Sums /\ Seats' = Seats
  BY <1>1 DEF Sums, Seats
<1>4. \A x : Reading(totals, x)' = Reading(totals', x)
  BY <1>2 DEF Reading, WinsOf
<1>5. \A k, x : Reading(counters[k], x)' = Reading(counters'[k], x)
  BY <1>2 DEF Reading, WinsOf
<1>6. Shape(totals)' <=> Shape(totals')
  BY <1>2, <1>3 DEF Shape
<1>7. \A k : Shape(counters[k])' <=> Shape(counters'[k])
  BY <1>2, <1>3 DEF Shape
<1>8. \A b, x : Pays(b, x)' = Pays(b, x)
  BY <1>1 DEF Pays, ShareOf, Won
<1> QED
  BY <1>2, <1>3, <1>4, <1>5, <1>6, <1>7, <1>8

(* Where no board is run nothing is taken.                                 *)
LEMMA SameTakings ==
  ASSUME call' = call, evaluated' = evaluated
  PROVE  /\ \A x : Takings(x)' = Takings(x)
         /\ OnlyCompletions' <=> OnlyCompletions
<1>1. \A x : Taken(x)' = Taken(x)
  BY SameReading DEF Taken
<1>2. \A x : Takings(x)' = Takings(x)
  BY <1>1 DEF Takings
<1>3. Completions' = Completions
  BY SameCall
<1> QED
  BY <1>2, <1>3 DEF OnlyCompletions

(* Nothing is taken at first.                                              *)
LEMMA InitPots == Init => PotInv
BY InitSampled DEF Init, PotInv, Answered

(* A sampled run has a chunk.                                              *)
LEMMA SomeChunk ==
  ASSUME call \in Calls, Runs, ~RunIsExact
  PROVE  NumChunks \in Nat /\ 0 < NumChunks /\ IsFiniteSet(Chunks)
<1> DEFINE a == call.iterations + ChunkTrials - 1
           n == a \div ChunkTrials
<1>1. call.iterations \in Nat \ {0} /\ ChunkTrials \in Nat \ {0}
  BY SampledIterations, HandsAssumption
<1>2. a \in Nat /\ a >= ChunkTrials
  BY <1>1
<1>3. NumChunks = n
  BY DEF NumChunks
<1> HIDE DEF a
<1>4. n \in Nat /\ a < n * ChunkTrials + ChunkTrials
  BY <1>1, <1>2, DividesInto
<1> HIDE DEF n
<1>5. n # 0
  <2> SUFFICES ASSUME n = 0 PROVE FALSE
    OBVIOUS
  <2>1. n * ChunkTrials = 0
    BY <1>1
  <2> QED
    BY <2>1, <1>1, <1>2, <1>4
<1>6. IsFiniteSet(Chunks)
  BY <1>1, ChunksAddUp
<1> QED
  BY <1>3, <1>4, <1>5, <1>6

(* There is something to count.                                            *)
LEMMA SomeSum ==
  ASSUME Runs
  PROVE  \E x \in Sums : TRUE
<1>1. Holes = [i \in DOMAIN call.holes |-> call.holes[i] \cap Deck]
  BY DEF Holes, Stripped
<1>2. DOMAIN Holes = {} => Holes = <<>>
  BY <1>1
<1>3. PICK i \in DOMAIN Holes : TRUE
  BY <1>2 DEF Runs, Accepted
<1>4. <<"trials", i>> \in Sums
  BY DEF Sums
<1> QED
  BY <1>4

(* The counters start with nothing.                                        *)
LEMMA StartPots ==
  ASSUME PotInv, Start
  PROVE  PotInv'
<1>1. /\ call' = call /\ call \in Calls /\ columns' = columns /\ evaluated' = evaluated
      /\ totals' = Zero /\ evaluated = [b \in {} |-> 0] /\ folded' = folded /\ folded = 0
      /\ SampledInv
  BY DEF PotInv, SampledInv, ExactInv, Start
<1>2. Accepted /\ (RunIsExact \/ Runs)
  BY <1>1, ShortIsExact DEF Start, Accepted, Runs
<1>3. SampledInv'
  BY <1>1, StartSampled
<1>4. \A x \in Sums : Takings(x) = 0 /\ Takings(x)' = 0
  BY <1>1, NothingTaken, SameTakings
<1>5. OnlyCompletions'
  <2>1. DOMAIN evaluated = {}
    BY <1>1
  <2>2. OnlyCompletions
    BY <2>1 DEF OnlyCompletions
  <2> QED
    BY <1>1, <2>2, SameTakings
<1>6. ASSUME Runs
      PROVE  Shape(totals)' /\ \A x \in Sums : Reading(totals, x)' = 0
  <2>1. \A x \in Sums : Shape(Zero) /\ Reading(Zero, x) = 0
    BY <1>1, <1>6, ZeroReads
  <2>2. \E x \in Sums : TRUE
    BY <1>6, SomeSum
  <2> QED
    BY <1>1, <2>1, <2>2, SameReading
<1>7. CASE RunIsExact
  <2>1. pc' = "exact" /\ (EnoughCards' <=> EnoughCards)
    BY <1>1, <1>7, SameCall DEF Start
  <2>2. ASSUME EnoughCards
        PROVE  TotalsRead'
    <3>1. Runs
      BY <1>2, <2>2 DEF Runs
    <3> QED
      BY <1>1, <1>4, <1>6, <3>1, SameReading DEF TotalsRead
  <2> QED
    BY <1>1, <1>3, <1>5, <2>1, <2>2 DEF PotInv, Answered
<1>8. CASE ~RunIsExact
  <2>0. Runs
    BY <1>2, <1>8
  <2>1. pc' = "sample" /\ counters' = [k \in Chunks |-> Zero]
    BY <1>8 DEF Start
  <2>2. Chunks' = Chunks /\ NumChunks' = NumChunks
    BY <1>1, SameChunks
  <2>3. NumChunks \in Nat /\ 0 < NumChunks /\ IsFiniteSet(Chunks)
    BY <1>1, <2>0, <1>8, SomeChunk
  <2>4. ASSUME NEW k \in Chunks, NEW x \in Sums
        PROVE  Shape(counters[k])' /\ Reading(counters[k], x)' = 0
    <3>1. counters'[k] = Zero
      BY <2>1
    <3> QED
      BY <1>1, <2>0, <3>1, ZeroReads, SameReading
  <2>5. ASSUME NEW x \in Sums
        PROVE  SumOn(Tally(x), Chunks)' = 0 /\ SumOn(Tally(x), 1 .. folded)' = 0
    <3> DEFINE f == [k \in Chunks |-> Reading(counters[k], x)']
    <3>1. Tally(x)' = f
      BY <2>2 DEF Tally
    <3>2. \A k \in Chunks : f[k] = 0
      BY <2>4
    <3> HIDE DEF f
    <3>3. SumOn(f, Chunks) = 0 /\ SumOn(f, {}) = 0
      BY <2>3, <3>2, SumOnZero, FS_EmptySet
    <3>4. 1 .. folded' = {}
      BY <1>1
    <3> QED
      BY <2>2, <3>1, <3>3, <3>4
  <2>6. ChunksRead'
    <3>1. \A k \in Chunks : Shape(counters[k])'
      <4>1. \E x \in Sums : TRUE
        BY <2>0, SomeSum
      <4> QED
        BY <4>1, <2>4
    <3>2. DOMAIN counters' = Chunks
      BY <2>1
    <3> QED
      BY <1>1, <1>4, <2>2, <2>5, <3>1, <3>2, SameReading DEF ChunksRead
  <2>7. Folding'
    <3>1. folded' \in Nat /\ folded' < NumChunks' /\ ~(folded' # 0)
      BY <1>1, <2>2, <2>3
    <3> QED
      BY <1>1, <1>6, <2>0, <2>5, <3>1, SameReading DEF Folding
  <2> QED
    BY <1>1, <1>3, <2>1, <2>6, <2>7 DEF PotInv, Answered
<1> QED
  BY <1>7, <1>8

(* The enumeration counts the board it is at.                              *)
LEMMA EnumeratePots ==
  ASSUME PotInv, Enumerate
  PROVE  PotInv'
<1> DEFINE b == CombBoard(comb)
<1>1. /\ call' = call /\ call \in Calls /\ Runs /\ comb \in LiveCombs /\ OnlyCompletions /\ TotalsRead
      /\ columns' = columns /\ totals' = RunTrial(totals, b) /\ CountBoard(b) /\ pc' \in {"exact", "result"}
  BY DEF PotInv, SampledInv, ExactInv, Enumerate, Runs
<1>2. b \in Completions
  BY <1>1, BoardsOfCombs
<1>3. SampledInv'
  BY StepSampled DEF PotInv, Next
<1> HIDE DEF b
<1>4. ASSUME NEW x \in Sums
      PROVE  /\ OnlyCompletions' /\ Shape(totals)'
             /\ Reading(totals, x)' = Takings(x)'
  <2>1. OnlyCompletions' /\ Takings(x)' = Takings(x) + Pays(b, x)
    BY <1>1, <1>2, TakenOneMore
  <2>2. Shape(RunTrial(totals, b)) /\ Reading(RunTrial(totals, b), x) = Reading(totals, x) + Pays(b, x)
    BY <1>1, <1>2, TrialAdds DEF TotalsRead
  <2>3. Reading(totals, x) = Takings(x)
    BY <1>1 DEF TotalsRead
  <2> QED
    BY <1>1, <2>1, <2>2, <2>3, SameReading
<1>5. OnlyCompletions' /\ TotalsRead'
  BY <1>1, <1>4, SomeSum, SameReading DEF TotalsRead
<1> QED
  BY <1>1, <1>3, <1>5 DEF PotInv, Answered

(* A trial is counted by its chunk.                                        *)
LEMMA TrialPots ==
  ASSUME PotInv, NEW k \in Chunks, SampleTrial(k)
  PROVE  PotInv'
<1>1. /\ call' = call /\ call \in Calls /\ Runs /\ ~RunIsExact /\ pc' = "sample"
      /\ Counts /\ OnlyCompletions /\ ChunksRead /\ Folding
      /\ columns' = columns /\ totals' = totals /\ folded' = folded
  BY DEF PotInv, SampledInv, ExactInv, SampleTrial
<1>2. PICK drawn \in Draws :
        /\ counters' = [counters EXCEPT ![k] = RunTrial(counters[k], Board \union drawn)]
        /\ CountBoard(Board \union drawn)
  BY DEF SampleTrial
<1> DEFINE b == Board \union drawn
<1>3. b \in Completions
  BY DEF Completions
<1>4. SampledInv'
  BY StepSampled DEF PotInv, Next
<1>5. Chunks' = Chunks /\ NumChunks' = NumChunks /\ \A j : TrialsOf(j)' = TrialsOf(j)
  BY <1>1, SameChunks
<1>6. IsFiniteSet(Chunks)
  BY <1>1, SomeChunk
<1>7. /\ DOMAIN counters' = Chunks /\ counters'[k] = RunTrial(counters[k], b)
      /\ \A j \in Chunks \ {k} : counters'[j] = counters[j]
  BY <1>1, <1>2 DEF ChunksRead
<1>8. CountBoard(b)
  BY <1>2
<1>9. folded = 0
  <2>1. counters[k].trials < TrialsOf(k) /\ counters[k].trials \in Int
    BY <1>1 DEF SampleTrial, Counts
  <2>2. folded # 0 => counters[k].trials = TrialsOf(k)
    BY <1>1 DEF Folding
  <2> QED
    BY <2>1, <2>2
<1> HIDE DEF b
<1>10. ASSUME NEW j \in Chunks
       PROVE  Shape(counters[j])'
  <2>1. \A i \in Chunks : Shape(counters[i])
    BY <1>1 DEF ChunksRead
  <2>2. \E x \in Sums : TRUE
    BY <1>1, SomeSum
  <2>3. Shape(RunTrial(counters[k], b))
    BY <1>1, <1>3, <2>1, <2>2, TrialAdds
  <2> QED
    BY <1>1, <1>7, <2>1, <2>3, SameReading
<1>11. ASSUME NEW x \in Sums
       PROVE  /\ SumOn(Tally(x), Chunks)' = Takings(x)'
              /\ SumOn(Tally(x), 1 .. folded)' = SumOn(Tally(x), 1 .. folded)
              /\ OnlyCompletions'
  <2> DEFINE f == Tally(x)
             h == Tally(x)'
             d == Pays(b, x)
  <2>1. d \in Int
    BY <1>1, <1>3, PaysIs
  <2>2. \A j \in Chunks : f[j] = Reading(counters[j], x) /\ f[j] \in Int
    <3>1. \A j \in Chunks : Shape(counters[j])
      BY <1>1 DEF ChunksRead
    <3> QED
      BY <1>1, <3>1, ReadingIs DEF Tally
  <2>3. \A j \in Chunks : h[j] = Reading(counters'[j], x)
    BY <1>1, <1>5, SameReading DEF Tally
  <2>4. Reading(RunTrial(counters[k], b), x) = Reading(counters[k], x) + d
    <3>1. Shape(counters[k])
      BY <1>1 DEF ChunksRead
    <3> QED
      BY <1>1, <1>3, <3>1, TrialAdds
  <2>5. h[k] = f[k] + d /\ \A j \in Chunks \ {k} : h[j] = f[j]
    BY <1>7, <2>2, <2>3, <2>4
  <2>6. Takings(x)' = Takings(x) + d /\ OnlyCompletions'
    BY <1>1, <1>3, <1>8, TakenOneMore
  <2>7. SumOn(f, Chunks) = Takings(x)
    BY <1>1 DEF ChunksRead
  <2>8. SumOn(Tally(x), Chunks)' = SumOn(h, Chunks)
    BY <1>5
  <2>9. SumOn(Tally(x), 1 .. folded)' = SumOn(h, {}) /\ SumOn(Tally(x), 1 .. folded) = SumOn(f, {})
    <3>1. 1 .. folded = {} /\ 1 .. folded' = {}
      BY <1>1, <1>9
    <3> QED
      BY <3>1
  <2> HIDE DEF f, h, d
  <2>10. SumOn(h, Chunks) = SumOn(f, Chunks) + d
    BY <1>6, <2>1, <2>2, <2>5, SumOnChanged
  <2>11. SumOn(h, {}) = 0 /\ SumOn(f, {}) = 0
    BY SumOnZero, FS_EmptySet
  <2> QED
    BY <2>6, <2>7, <2>8, <2>9, <2>10, <2>11
<1>12. ChunksRead' /\ OnlyCompletions'
  BY <1>1, <1>5, <1>7, <1>10, <1>11, SomeSum, SameReading DEF ChunksRead
<1>13. Folding'
  <2>1. folded' \in Nat /\ folded' < NumChunks' /\ ~(folded' # 0)
    BY <1>1, <1>5, <1>9 DEF Folding
  <2>2. Shape(totals)' /\ \A x \in Sums : Reading(totals, x)' = SumOn(Tally(x), 1 .. folded)'
    BY <1>1, <1>11, SameReading DEF Folding
  <2> QED
    BY <1>1, <2>1, <2>2, SameReading DEF Folding
<1> QED
  BY <1>1, <1>4, <1>12, <1>13 DEF PotInv, Answered

(* Folding a chunk moves what it has counted to the totals.                *)
LEMMA FoldPots ==
  ASSUME PotInv, FoldChunk
  PROVE  PotInv'
<1>1. /\ call' = call /\ call \in Calls /\ Runs /\ ~RunIsExact
      /\ OnlyCompletions /\ ChunksRead /\ Folding
      /\ columns' = columns /\ evaluated' = evaluated /\ counters' = counters
      /\ folded' = folded + 1 /\ totals' = Folded(totals, counters[folded + 1])
      /\ pc' = IF folded + 1 = NumChunks THEN "result" ELSE "sample"
      /\ \A k \in Chunks : counters[k].trials = TrialsOf(k)
  BY DEF PotInv, SampledInv, ExactInv, FoldChunk
<1>2. SampledInv'
  BY StepSampled DEF PotInv, Next
<1>3. Chunks' = Chunks /\ NumChunks' = NumChunks /\ \A j : TrialsOf(j)' = TrialsOf(j)
  BY <1>1, SameChunks
<1>4. NumChunks \in Nat /\ folded \in Nat /\ folded < NumChunks /\ Chunks = 1 .. NumChunks
  BY <1>1, SomeChunk DEF Folding, Chunks
<1> DEFINE e == folded + 1
<1>5. e \in Chunks /\ e \in Nat
  BY <1>4
<1>6. \A x : Tally(x)' = Tally(x)
  BY <1>1, <1>3, SameReading DEF Tally
<1>7. ASSUME NEW x \in Sums
      PROVE  /\ Shape(totals)'
             /\ Reading(totals, x)' = SumOn(Tally(x), 1 .. folded)'
             /\ folded + 1 = NumChunks => Reading(totals, x)' = Takings(x)'
  <2> DEFINE f == Tally(x)
  <2>1. Shape(totals) /\ Shape(counters[e]) /\ Reading(totals, x) = SumOn(f, 1 .. folded)
    BY <1>1, <1>5 DEF Folding, ChunksRead
  <2>2. \A j \in Chunks : f[j] = Reading(counters[j], x) /\ f[j] \in Int
    <3>1. \A j \in Chunks : Shape(counters[j])
      BY <1>1 DEF ChunksRead
    <3> QED
      BY <1>1, <3>1, ReadingIs DEF Tally
  <2>3. /\ Shape(Folded(totals, counters[e]))
        /\ Reading(Folded(totals, counters[e]), x) = Reading(totals, x) + Reading(counters[e], x)
    BY <1>1, <2>1, FoldedAdds
  <2>4. Reading(totals, x)' = Reading(totals, x) + f[e] /\ Shape(totals)'
    BY <1>1, <1>5, <2>2, <2>3, SameReading
  <2>5. SumOn(f, Chunks) = Takings(x) /\ Takings(x)' = Takings(x)
    BY <1>1, SameTakings DEF ChunksRead
  <2>6. SumOn(Tally(x), 1 .. folded)' = SumOn(f, 1 .. e)
    BY <1>1, <1>6
  <2>7. /\ IsFiniteSet(1 .. folded) /\ e \notin 1 .. folded /\ 1 .. e = 1 .. folded \union {e}
        /\ 1 .. folded \subseteq Chunks
    <3>1. IsFiniteSet(1 .. folded)
      BY <1>4, FS_Interval
    <3> QED
      BY <3>1, <1>4
  <2>8. SumOn(f, 1 .. folded) \in Int /\ SumOn(f, 1 .. folded \union {e}) = f[e] + SumOn(f, 1 .. folded)
    <3> DEFINE S == 1 .. folded
    <3>1. IsFiniteSet(S) /\ e \notin S /\ \A j \in S : f[j] \in Int
      BY <2>2, <2>7
    <3>2. f[e] \in Int
      BY <1>5, <2>2
    <3> HIDE DEF S, e, f
    <3>3. SumOn(f, S) \in Int
      BY <3>1, SumOnIs
    <3>4. SumOn(f, S \union {e}) = f[e] + SumOn(f, S)
      BY <3>1, <3>2, SumOnNew
    <3> QED
      BY <3>3, <3>4 DEF S
  <2>9. Reading(totals, x)' = SumOn(f, 1 .. e)
    <3>1. f[e] \in Int
      BY <1>5, <2>2
    <3> HIDE DEF e, f
    <3>2. SumOn(f, 1 .. e) = f[e] + SumOn(f, 1 .. folded)
      BY <2>7, <2>8, Zenon
    <3>3. \A m \in Int, n \in Int : m + n = n + m
      OBVIOUS
    <3>4. f[e] + SumOn(f, 1 .. folded) = SumOn(f, 1 .. folded) + f[e]
      BY <2>8, <3>1, <3>3
    <3> QED
      BY <2>1, <2>4, <3>2, <3>4
  <2>10. folded + 1 = NumChunks => 1 .. e = Chunks
    BY <1>4
  <2> QED
    BY <2>4, <2>5, <2>6, <2>9, <2>10
<1>8. Shape(totals)'
  BY <1>1, <1>7, SomeSum
<1>9. OnlyCompletions'
  BY <1>1, SameTakings
<1>10. CASE folded + 1 = NumChunks
  <2>1. TotalsRead'
    BY <1>1, <1>7, <1>8, <1>10, SameReading DEF TotalsRead
  <2> QED
    BY <1>1, <1>2, <1>9, <1>10, <2>1 DEF PotInv, Answered
<1>11. CASE folded + 1 # NumChunks
  <2>1. folded' \in Nat /\ folded' < NumChunks'
    BY <1>1, <1>3, <1>4, <1>11
  <2>2. Folding'
    BY <1>1, <1>3, <1>7, <1>8, <2>1, SameReading DEF Folding
  <2>3. ChunksRead'
    <3>1. \A k \in Chunks : Shape(counters[k])'
      BY <1>1, SameReading DEF ChunksRead
    <3>2. \A x \in Sums : SumOn(Tally(x), Chunks)' = Takings(x)'
      BY <1>1, <1>3, <1>6, SameTakings DEF ChunksRead
    <3> QED
      BY <1>1, <1>3, <3>1, <3>2, SameReading DEF ChunksRead
  <2> QED
    BY <1>1, <1>2, <1>11, <2>2, <2>3 DEF PotInv, Answered
<1> QED
  BY <1>10, <1>11

-----------------------------------------------------------------------------
(* Half of a product with a whole pot is a product with half a pot.        *)
LEMMA Halves ==
  ASSUME NEW k \in Int, NEW h \in Int
  PROVE  /\ (k * (2 * h)) \div 2 = k * h
         /\ (k * (2 * h) * (2 * h)) \div 4 = k * (h * h)
<1>1. \A p \in Int : (2 * p) \div 2 = p /\ (4 * p) \div 4 = p
  OBVIOUS
<1>2. k * h \in Int /\ k * (h * h) \in Int
  <2>1. h * h \in Int
    OBVIOUS
  <2> QED
    BY <2>1
<1>3. k * (2 * h) = 2 * (k * h) /\ k * (2 * h) * (2 * h) = 4 * (k * (h * h))
  OBVIOUS
<1> QED
  BY <1>1, <1>2, <1>3

(* The two players of a pot have the same error.                           *)
LEMMA SameError ==
  ASSUME NEW w \in Int, NEW v \in Int, NEW k \in Int, NEW h \in Int
  PROVE  (w + v + k) * (w * (2 * h * (2 * h)) + k * (h * h))
           - (w * (2 * h) + k * h) * (w * (2 * h) + k * h)
         = (w + v + k) * (v * (2 * h * (2 * h)) + k * (h * h))
             - (v * (2 * h) + k * h) * (v * (2 * h) + k * h)
OBVIOUS

(* What two players leave each other.                                      *)
LEMMA LeftOver ==
  ASSUME NEW w \in Int, NEW v \in Int, NEW k \in Int, NEW h \in Int
  PROVE  (w + v + k) * (2 * h) - (w * (2 * h) + k * h) = v * (2 * h) + k * h
OBVIOUS

(* The rows are what the counters say: heads up.                           *)
LEMMA HeadsUpRead ==
  ASSUME call \in Calls, Runs, HeadsUp, NEW c, Shape(c), NEW i \in DOMAIN Holes
  PROVE  /\ Rows(c)[i].win = Reading(c, <<"wins", i>>)
         /\ Rows(c)[i].equity = Reading(c, <<"shares", i>>)
         /\ Rows(c)[i].spread = IF RunIsExact THEN 0
                                ELSE Reading(c, <<"trials", i>>) * Reading(c, <<"squares", i>>)
                                       - Reading(c, <<"shares", i>>) * Reading(c, <<"shares", i>>)
<1> DEFINE w == c.hero_wins
           k == c.chops
           t == c.trials
           v == t - w - k
           u == ShareUnit
           h == Half
           hero == w * u + (k * u) \div 2
           square == (w * u * u) + (k * u * u) \div 4
           spread == Spread(c, hero, square)
           rows == << [win |-> w, equity |-> hero, spread |-> spread],
                      [win |-> v, equity |-> t * u - hero, spread |-> spread] >>
<1>1. Rows(c) = rows
  BY DEF Rows, HeadsUpRows
<1>2. spread = IF RunIsExact THEN 0 ELSE t * square - hero * hero
  BY DEF Spread
<1>3. /\ Reading(c, <<"trials", i>>) = t /\ Reading(c, <<"wins", i>>) = WinsOf(c, i)
      /\ Reading(c, <<"shares", i>>) = WinsOf(c, i) * u + k * h
      /\ Reading(c, <<"squares", i>>) = WinsOf(c, i) * (u * u) + k * (h * h)
  BY DEF Reading
<1>4. WinsOf(c, i) = IF i = 1 THEN w ELSE v
  BY DEF WinsOf
<1>5. i \in {1, 2}
  BY HandsAre DEF HeadsUp
<1>6. w \in Int /\ k \in Int /\ t \in Int
  BY DEF Shape
<1>7. v \in Int /\ t = w + v + k
  BY <1>6
<1>8. h \in Int /\ u = 2 * h
  BY HalfIs
<1>9. /\ rows[1].win = w /\ rows[1].equity = hero /\ rows[1].spread = spread
      /\ rows[2].win = v /\ rows[2].equity = t * u - hero /\ rows[2].spread = spread
  OBVIOUS
<1> HIDE DEF w, k, t, v, u, h, spread, rows
<1>10. hero = w * (2 * h) + k * h /\ square = w * (2 * h * (2 * h)) + k * (h * h)
  <2>1. (k * (2 * h)) \div 2 = k * h /\ (k * (2 * h) * (2 * h)) \div 4 = k * (h * h)
    BY <1>6, <1>8, Halves
  <2>2. w * (2 * h) * (2 * h) = w * (2 * h * (2 * h))
    BY <1>6, <1>8
  <2> QED
    BY <1>8, <2>1, <2>2
<1> HIDE DEF hero, square
<1>11. t * u - hero = v * (2 * h) + k * h
  BY <1>6, <1>7, <1>8, <1>10, LeftOver
<1>12. t * square - hero * hero
         = t * (v * (2 * h * (2 * h)) + k * (h * h)) - (v * (2 * h) + k * h) * (v * (2 * h) + k * h)
  BY <1>6, <1>7, <1>8, <1>10, SameError
<1>13. CASE i = 1
  BY <1>1, <1>2, <1>3, <1>4, <1>8, <1>9, <1>10, <1>13
<1>14. CASE i = 2
  BY <1>1, <1>2, <1>3, <1>4, <1>8, <1>9, <1>11, <1>12, <1>14
<1> QED
  BY <1>5, <1>13, <1>14

(* And of more players.                                                    *)
LEMMA RowsRead ==
  ASSUME call \in Calls, Runs, NEW c, Shape(c), NEW i \in DOMAIN Holes
  PROVE  /\ Rows(c)[i].win = Reading(c, <<"wins", i>>)
         /\ Rows(c)[i].equity = Reading(c, <<"shares", i>>)
         /\ Rows(c)[i].spread = IF RunIsExact THEN 0
                                ELSE Reading(c, <<"trials", i>>) * Reading(c, <<"squares", i>>)
                                       - Reading(c, <<"shares", i>>) * Reading(c, <<"shares", i>>)
<1>1. CASE HeadsUp
  BY <1>1, HeadsUpRead
<1>2. CASE ~HeadsUp
  <2>1. Rows(c)[i] = [win |-> c.win[i], equity |-> c.equity[i],
                      spread |-> Spread(c, c.equity[i], c.square[i])]
    BY <1>2 DEF Rows, MultiwayRows
  <2>2. /\ Reading(c, <<"trials", i>>) = c.trials /\ Reading(c, <<"wins", i>>) = c.win[i]
        /\ Reading(c, <<"shares", i>>) = c.equity[i] /\ Reading(c, <<"squares", i>>) = c.square[i]
    BY <1>2 DEF Reading
  <2> QED
    BY <2>1, <2>2 DEF Spread
<1> QED
  BY <1>1, <1>2

(* The caller is shown the totals.                                         *)
LEMMA EmitPots ==
  ASSUME PotInv, Emit
  PROVE  PotInv'
<1>1. /\ call' = call /\ call \in Calls /\ Accepted
      /\ EnoughCards => OnlyCompletions /\ TotalsRead
      /\ totals' = totals /\ evaluated' = evaluated /\ pc' = "done"
      /\ DOMAIN columns = 1 .. call.capacity
  BY DEF PotInv, SampledInv, ExactInv, Emit, Return
<1>2. /\ columns' = [i \in DOMAIN columns |->
                       IF call.wants /\ i <= Len(Holes) THEN Rows(totals)[i] ELSE columns[i]]
      /\ summary' = [chops |-> totals.chops, trials |-> totals.trials, exact |-> RunIsExact]
  BY DEF Emit
<1>3. SampledInv'
  BY StepSampled DEF PotInv, Next
<1>4. DOMAIN columns' = 1 .. call'.capacity
  BY <1>1, <1>2
<1>5. EnoughCards' => OnlyCompletions' /\ TotalsRead'
  BY <1>1, SameCall, SameTakings, SameReading DEF TotalsRead
<1>6. summary'.chops = totals'.chops /\ summary'.trials = totals'.trials
  <2> DEFINE a == totals.chops
             b == totals.trials
             e == RunIsExact
  <2>1. summary' = [chops |-> a, trials |-> b, exact |-> e]
    BY <1>2
  <2> HIDE DEF a, b, e
  <2>2. summary'.chops = a /\ summary'.trials = b
    BY <2>1
  <2> QED
    BY <1>1, <2>2 DEF a, b
<1>7. Holes' = Holes /\ Rows(totals)' = Rows(totals)
  <2>1. Holes' = Holes /\ (RunIsExact' <=> RunIsExact) /\ (HeadsUp' <=> HeadsUp)
    BY <1>1, SameCall, SameReading
  <2> QED
    BY <1>1, <2>1 DEF Rows, HeadsUpRows, MultiwayRows, Spread
<1>8. ASSUME call.wants, NEW i \in DOMAIN Holes
      PROVE  columns'[i] = Rows(totals)[i]
  <2>1. Len(call.holes) <= call.capacity
    BY <1>1, <1>8 DEF Accepted, Verdict, Arguments
  <2>2. i \in 1 .. Len(Holes) /\ Len(Holes) = Len(call.holes) /\ Len(call.holes) \in Nat
    BY <1>1, HandsAre
  <2>3. call.capacity \in Nat
    BY <1>1, HandsAssumption
  <2>4. i \in 1 .. call.capacity /\ i <= Len(Holes)
    BY <2>1, <2>2, <2>3
  <2> QED
    BY <1>1, <1>2, <1>8, <2>4
<1>9. Shown'
  BY <1>1, <1>6, <1>7, <1>8 DEF Shown
<1> QED
  BY <1>1, <1>3, <1>4, <1>5, <1>9 DEF PotInv

(* The invariant holds after every step.                                   *)
LEMMA StepPots ==
  ASSUME PotInv, [Next]_vars
  PROVE  PotInv'
<1>0. SampledInv'
  BY StepSampled DEF PotInv
<1>1. CASE Reject
  <2>1. ~Answered' /\ pc' = "done" /\ DOMAIN columns' = 1 .. call'.capacity
    BY <1>1, SameCall DEF PotInv, Reject, Return, Answered
  <2> QED
    BY <1>0, <2>1 DEF PotInv
<1>2. CASE NoPlayers
  <2>1. ~Answered' /\ pc' = "done" /\ DOMAIN columns' = 1 .. call'.capacity
    BY <1>2, SameCall DEF PotInv, NoPlayers, Return, Answered
  <2> QED
    BY <1>0, <2>1 DEF PotInv
<1>3. CASE Judge
  <2>1. ~Answered' /\ pc' = "done" /\ DOMAIN columns' = 1 .. call'.capacity
    BY <1>3, SameCall DEF PotInv, Judge, Return, Answered
  <2> QED
    BY <1>0, <2>1 DEF PotInv
<1>4. CASE Start
  BY <1>4, StartPots
<1>5. CASE Enumerate
  BY <1>5, EnumeratePots
<1>6. ASSUME NEW k \in Chunks, SampleTrial(k)
      PROVE  PotInv'
  BY <1>6, TrialPots
<1>7. CASE FoldChunk
  BY <1>7, FoldPots
<1>8. CASE Emit
  BY <1>8, EmitPots
<1>9. CASE UNCHANGED vars
  <2>1. /\ call' = call /\ pc' = pc /\ evaluated' = evaluated /\ counters' = counters /\ totals' = totals
        /\ folded' = folded /\ columns' = columns /\ summary' = summary
    BY <1>9 DEF vars
  <2>2. /\ Chunks' = Chunks /\ NumChunks' = NumChunks /\ \A k : TrialsOf(k)' = TrialsOf(k)
        /\ Holes' = Holes /\ (RunIsExact' <=> RunIsExact)
        /\ \A x : Takings(x)' = Takings(x)
        /\ (OnlyCompletions' <=> OnlyCompletions) /\ (Answered' <=> Answered)
        /\ (EnoughCards' <=> EnoughCards)
    BY <2>1, <1>9, SameCall, SameChunks, SameTakings DEF vars, Answered
  <2>3. /\ Sums' = Sums /\ (Shape(totals)' <=> Shape(totals))
        /\ \A x : Reading(totals, x)' = Reading(totals, x)
        /\ \A k : Shape(counters[k])' <=> Shape(counters[k])
        /\ \A x : Tally(x)' = Tally(x)
    BY <2>1, <2>2, SameReading DEF Tally
  <2>4. Rows(totals)' = Rows(totals)
    BY <2>1, <2>2, SameReading DEF Rows, HeadsUpRows, MultiwayRows, Spread
  <2>5. (TotalsRead' <=> TotalsRead) /\ (Shown' <=> Shown)
    BY <2>1, <2>2, <2>3, <2>4 DEF TotalsRead, Shown
  <2>6. (ChunksRead' <=> ChunksRead) /\ (Folding' <=> Folding)
    BY <2>1, <2>2, <2>3 DEF ChunksRead, Folding
  <2> QED
    BY <1>0, <2>1, <2>2, <2>5, <2>6 DEF PotInv
<1>10. CASE EnumeratePastEnd
  <2>1. call' = call /\ ~EnoughCards /\ columns' = columns /\ pc' = "result"
    BY <1>10 DEF EnumeratePastEnd
  <2>2. ~EnoughCards' /\ ~Answered'
    BY <2>1, SameCall DEF Answered
  <2> QED
    BY <1>0, <2>1, <2>2 DEF PotInv
<1> QED
  BY <1>1, <1>2, <1>3, <1>4, <1>5, <1>6, <1>7, <1>8, <1>9, <1>10 DEF Next

(* A sum of what the boards are worth, as the property writes it.          *)
LEMMA TakingsAre ==
  ASSUME NEW x, NEW f, f = Taken(x)
  PROVE  SumFunction(f) = Takings(x)
<1>1. DOMAIN f = DOMAIN evaluated
  BY DEF Taken
<1> QED
  BY <1>1, SumFunctionIs DEF Takings

(* The trials are the boards, each as often as it was run.                 *)
LEMMA TrialsAre ==
  ASSUME call \in Calls, Runs, OnlyCompletions, NEW i
  PROVE  SumFunction(evaluated) = Takings(<<"trials", i>>)
<1> DEFINE f == Taken(<<"trials", i>>)
           D == DOMAIN evaluated
<1>1. IsFiniteSet(D) /\ \A b \in D : evaluated[b] \in Int
  BY CompletionsAre, FS_Subset DEF OnlyCompletions
<1>2. \A b \in D : f[b] = evaluated[b] * 1
  BY DEF Taken, Pays
<1>3. \A b \in D : evaluated[b] = f[b]
  <2> SUFFICES ASSUME NEW b \in D PROVE evaluated[b] = f[b]
    OBVIOUS
  <2>1. evaluated[b] \in Int /\ f[b] = evaluated[b] * 1
    BY <1>1, <1>2
  <2> HIDE DEF f
  <2> QED
    BY <2>1
<1> HIDE DEF f
<1>4. SumOn(evaluated, D) = SumOn(f, D)
  BY <1>1, <1>3, SumOnSame
<1> QED
  BY <1>4, SumFunctionIs DEF Takings, f

(* Whichever simulator a call is sent to, and however its trials are cut   *)
(* into chunks, compute_player_equities answers the pots of the boards     *)
(* that were run, each split evenly between its winners. The cards left    *)
(* are to fill the board: where they run out there is no pot to share.     *)
THEOREM PotsShared == Spec => []EquityIsPotShare
<1>1. PotInv => EquityIsPotShare
  <2> SUFFICES ASSUME PotInv, Answered, call.wants, EnoughCards
               PROVE  EquityIsPotShare
    BY DEF EquityIsPotShare
  <2> DEFINE winners == [b \in DOMAIN evaluated |-> Winners(call.game, Holes, b)]
             share(i, b) == IF i \in winners[b] THEN ShareUnit \div Cardinality(winners[b]) ELSE 0
             chopped == [b \in DOMAIN evaluated |->
                           evaluated[b] * (IF Cardinality(winners[b]) = 1 THEN 0 ELSE 1)]
             won(i) == [b \in DOMAIN evaluated |-> evaluated[b] * (IF winners[b] = {i} THEN 1 ELSE 0)]
             shared(i) == [b \in DOMAIN evaluated |-> evaluated[b] * share(i, b)]
             squared(i) == [b \in DOMAIN evaluated |-> evaluated[b] * (share(i, b) * share(i, b))]
  <2>1. /\ call \in Calls /\ Runs /\ OnlyCompletions /\ TotalsRead /\ Shown
        /\ summary.exact = RunIsExact
    BY DEF PotInv, SampledInv, ExactInv, Runs
  <2>2. \A b \in DOMAIN evaluated : winners[b] = Won(b) /\ \A i : share(i, b) = ShareOf(i, b)
    BY DEF Won, ShareOf
  <2>3. \A i : /\ chopped = Taken(<<"chops", i>>) /\ won(i) = Taken(<<"wins", i>>)
               /\ shared(i) = Taken(<<"shares", i>>) /\ squared(i) = Taken(<<"squares", i>>)
    <3> TAKE i
    <3> HIDE DEF winners, share
    <3>1. chopped = Taken(<<"chops", i>>)
      BY <2>2 DEF Taken, Pays
    <3>2. won(i) = Taken(<<"wins", i>>)
      BY <2>2 DEF Taken, Pays
    <3>3. shared(i) = Taken(<<"shares", i>>)
      BY <2>2 DEF Taken, Pays
    <3>4. squared(i) = Taken(<<"squares", i>>)
      BY <2>2 DEF Taken, Pays
    <3> QED
      BY <3>1, <3>2, <3>3, <3>4
  <2>4. ASSUME NEW i \in DOMAIN Holes
        PROVE  /\ Reading(totals, <<"trials", i>>) = SumFunction(evaluated)
               /\ Reading(totals, <<"chops", i>>) = SumFunction(chopped)
               /\ Reading(totals, <<"wins", i>>) = SumFunction(won(i))
               /\ Reading(totals, <<"shares", i>>) = SumFunction(shared(i))
               /\ Reading(totals, <<"squares", i>>) = SumFunction(squared(i))
    <3> HIDE DEF chopped, won, shared, squared
    <3>1. /\ Takings(<<"trials", i>>) = SumFunction(evaluated)
          /\ Takings(<<"chops", i>>) = SumFunction(chopped)
          /\ Takings(<<"wins", i>>) = SumFunction(won(i))
          /\ Takings(<<"shares", i>>) = SumFunction(shared(i))
          /\ Takings(<<"squares", i>>) = SumFunction(squared(i))
      BY <2>1, <2>3, TakingsAre, TrialsAre
    <3>2. \A n \in {"trials", "chops", "wins", "shares", "squares"} : <<n, i>> \in Sums
      BY DEF Sums
    <3> QED
      BY <2>1, <3>1, <3>2 DEF TotalsRead
  <2>5. PICK j \in DOMAIN Holes : TRUE
    BY <2>1, SomeSum DEF Sums
  <2>6. Reading(totals, <<"trials", j>>) = totals.trials /\ Reading(totals, <<"chops", j>>) = totals.chops
    BY DEF Reading
  <2> HIDE DEF winners, share, chopped, won, shared, squared
  <2>7. summary.trials = SumFunction(evaluated) /\ summary.chops = SumFunction(chopped)
    BY <2>1, <2>4, <2>6 DEF Shown
  <2>8. ASSUME NEW i \in DOMAIN Holes
        PROVE  /\ columns[i].win = SumFunction(won(i))
               /\ columns[i].equity = SumFunction(shared(i))
               /\ columns[i].spread = IF summary.exact THEN 0
                                      ELSE SumFunction(evaluated) * SumFunction(squared(i))
                                             - SumFunction(shared(i)) * SumFunction(shared(i))
    <3>1. columns[i] = Rows(totals)[i]
      BY <2>1 DEF Shown
    <3>2. Shape(totals)
      BY <2>1 DEF TotalsRead
    <3>3. /\ Rows(totals)[i].win = Reading(totals, <<"wins", i>>)
          /\ Rows(totals)[i].equity = Reading(totals, <<"shares", i>>)
          /\ Rows(totals)[i].spread
               = IF RunIsExact THEN 0
                 ELSE Reading(totals, <<"trials", i>>) * Reading(totals, <<"squares", i>>)
                        - Reading(totals, <<"shares", i>>) * Reading(totals, <<"shares", i>>)
      BY <2>1, <3>2, RowsRead
    <3> QED
      BY <2>1, <2>4, <3>1, <3>3
  <2> QED
    BY <2>7, <2>8 DEF EquityIsPotShare, winners, share, chopped, won, shared, squared
<1> QED
  BY <1>1, InitPots, StepPots, PTL DEF Spec

-----------------------------------------------------------------------------

(* The cards of a deck of fifty-two, and the card of a rank and a suit.    *)
Cards == 0 .. 51
CardOf(r, s) == s * 13 + r - 2

(* A card is its rank and its suit.                                        *)
LEMMA CardIs ==
  /\ \A c \in Cards : RankOf(c) \in Ranks /\ SuitOf(c) \in Suits /\ CardOf(RankOf(c), SuitOf(c)) = c
  /\ \A r \in Ranks, s \in Suits : /\ CardOf(r, s) \in Cards
                                   /\ RankOf(CardOf(r, s)) = r /\ SuitOf(CardOf(r, s)) = s
<1>1. ASSUME NEW c \in Cards
      PROVE  RankOf(c) \in Ranks /\ SuitOf(c) \in Suits /\ CardOf(RankOf(c), SuitOf(c)) = c
  BY DEF Cards, CardOf, RankOf, SuitOf, Ranks, Suits
<1>2. ASSUME NEW r \in Ranks, NEW s \in Suits
      PROVE  /\ CardOf(r, s) \in Cards
             /\ RankOf(CardOf(r, s)) = r /\ SuitOf(CardOf(r, s)) = s
  <2>1. r \in Int /\ 2 <= r /\ r <= 14
    BY DEF Ranks
  <2>2. s = 0 \/ s = 1 \/ s = 2 \/ s = 3
    BY DEF Suits
  <2>3. CASE s = 0
    BY <2>1, <2>3 DEF Cards, CardOf, RankOf, SuitOf
  <2>4. CASE s = 1
    BY <2>1, <2>4 DEF Cards, CardOf, RankOf, SuitOf
  <2>5. CASE s = 2
    BY <2>1, <2>5 DEF Cards, CardOf, RankOf, SuitOf
  <2>6. CASE s = 3
    BY <2>1, <2>6 DEF Cards, CardOf, RankOf, SuitOf
  <2> QED
    BY <2>2, <2>3, <2>4, <2>5, <2>6
<1> QED
  BY <1>1, <1>2

(* The cards of one rank, and of one suit.                                 *)
OfRank(S, r) == {c \in S : RankOf(c) = r}
OfSuit(S, s) == {c \in S : SuitOf(c) = s}

(* Sets of cards are finite.                                               *)
LEMMA CardsFinite ==
  ASSUME NEW S, S \subseteq Cards
  PROVE  /\ IsFiniteSet(S) /\ Cardinality(S) \in Nat
         /\ \A r : IsFiniteSet(OfRank(S, r)) /\ Cardinality(OfRank(S, r)) \in Nat
         /\ \A r : IsFiniteSet(OfSuit(S, r)) /\ Cardinality(OfSuit(S, r)) \in Nat
<1>1. IsFiniteSet(Cards)
  <2>1. IsFiniteSet(0 .. 51)
    BY FS_Interval, 0 \in Int, 51 \in Int, Zenon
  <2> QED
    BY <2>1 DEF Cards
<1>2. ASSUME NEW T, T \subseteq Cards
      PROVE  IsFiniteSet(T) /\ Cardinality(T) \in Nat
  <2>1. T \in SUBSET Cards
    BY <1>2
  <2> QED
    BY <2>1, <1>1, FS_Subset, FS_CardinalityType
<1>3. \A r : OfRank(S, r) \subseteq Cards /\ OfSuit(S, r) \subseteq Cards
  BY DEF OfRank, OfSuit
<1> QED
  BY <1>2, <1>3

(* HeldTimes counts the cards of each rank; held once is held at all.      *)
LEMMA HeldIs ==
  ASSUME NEW S, S \subseteq Cards
  PROVE  /\ \A k : HeldTimes(S, k) = {r \in Ranks : Cardinality(OfRank(S, r)) >= k}
         /\ HeldTimes(S, 1) = RanksOf(S)
         /\ RanksOf(S) \subseteq Ranks
         /\ \A r \in Ranks : Cardinality(OfRank(S, r)) <= 4
<1>1. ASSUME NEW r \in Ranks
      PROVE  /\ Cardinality({s \in Suits : s * 13 + r - 2 \in S}) = Cardinality(OfRank(S, r))
             /\ Cardinality(OfRank(S, r)) <= 4
  <2> DEFINE A == {s \in Suits : s * 13 + r - 2 \in S}
             f == [s \in A |-> CardOf(r, s)]
  <2>1. IsFiniteSet(Suits) /\ Cardinality(Suits) = 4
    <3>1. Suits = 0 .. 3
      BY DEF Suits
    <3>2. /\ IsFiniteSet(0 .. 3)
          /\ Cardinality(0 .. 3) = IF 0 > 3 THEN 0 ELSE 3 - 0 + 1
      BY FS_Interval, 0 \in Int, 3 \in Int, Zenon
    <3> QED
      BY <3>1, <3>2
  <2>2. IsFiniteSet(A) /\ Cardinality(A) <= 4 /\ Cardinality(A) \in Nat
    <3>1. A \in SUBSET Suits
      OBVIOUS
    <3> HIDE DEF A
    <3> QED
      BY <2>1, <3>1, FS_Subset, FS_CardinalityType
  <2>3. Corresponds(A, OfRank(S, r), f)
    <3>1. \A s \in A : f[s] \in OfRank(S, r)
      <4> TAKE s \in A
      <4>1. s \in Suits /\ CardOf(r, s) \in S
        BY DEF CardOf
      <4>2. RankOf(CardOf(r, s)) = r
        BY <4>1, CardIs
      <4> QED
        BY <4>1, <4>2 DEF OfRank
    <3>2. \A s, t \in A : f[s] = f[t] => s = t
      <4> TAKE s, t \in A
      <4>1. s \in Suits /\ t \in Suits /\ f[s] = CardOf(r, s) /\ f[t] = CardOf(r, t)
        OBVIOUS
      <4>2. SuitOf(CardOf(r, s)) = s /\ SuitOf(CardOf(r, t)) = t
        BY <4>1, CardIs
      <4> QED
        BY <4>1, <4>2
    <3>3. \A c \in OfRank(S, r) : \E s \in A : f[s] = c
      <4> TAKE c \in OfRank(S, r)
      <4>1. c \in S /\ c \in Cards /\ RankOf(c) = r
        BY DEF OfRank
      <4>2. SuitOf(c) \in Suits /\ CardOf(r, SuitOf(c)) = c
        BY <4>1, CardIs
      <4>3. SuitOf(c) \in A
        BY <4>1, <4>2 DEF CardOf
      <4> QED
        BY <4>2, <4>3
    <3> HIDE DEF A, f
    <3> QED
      BY <3>1, <3>2, <3>3 DEF Corresponds
  <2>4. Cardinality(A) = Cardinality(OfRank(S, r))
    <3> HIDE DEF A, f
    <3> QED
      BY <2>2, <2>3, SameSize
  <2> QED
    BY <2>2, <2>4
<1>2. \A k : HeldTimes(S, k) = {r \in Ranks : Cardinality(OfRank(S, r)) >= k}
  BY <1>1 DEF HeldTimes
<1>3. RanksOf(S) \subseteq Ranks
  BY CardIs DEF RanksOf
<1>4. \A r : Cardinality(OfRank(S, r)) >= 1 <=> r \in RanksOf(S)
  <2> TAKE r
  <2>1. IsFiniteSet(OfRank(S, r)) /\ Cardinality(OfRank(S, r)) \in Nat
    BY CardsFinite
  <2>2. Cardinality(OfRank(S, r)) = 0 <=> OfRank(S, r) = {}
    BY <2>1, FS_EmptySet
  <2>3. OfRank(S, r) # {} <=> r \in RanksOf(S)
    BY DEF OfRank, RanksOf
  <2> QED
    BY <2>1, <2>2, <2>3
<1>5. HeldTimes(S, 1) = RanksOf(S)
  BY <1>2, <1>3, <1>4
<1> QED
  BY <1>1, <1>2, <1>3, <1>5

(* The lane of a suit is the ranks of its cards, one of each.              *)
LEMMA LaneIs ==
  ASSUME NEW S, S \subseteq Cards, NEW s \in Suits
  PROVE  /\ Lane(S, s) \subseteq Ranks /\ Lane(S, s) \subseteq RanksOf(S)
         /\ Cardinality(Lane(S, s)) = Cardinality(OfSuit(S, s))
         /\ \A r \in Ranks : r \in Lane(S, s) <=> CardOf(r, s) \in S
<1> DEFINE f == [c \in OfSuit(S, s) |-> RankOf(c)]
<1>0. \A r : r \in Lane(S, s) <=> r \in Ranks /\ CardOf(r, s) \in S
  BY DEF Lane, CardOf
<1>1. Corresponds(OfSuit(S, s), Lane(S, s), f)
  <2>1. \A c \in OfSuit(S, s) : f[c] \in Lane(S, s)
    <3> TAKE c \in OfSuit(S, s)
    <3>1. c \in S /\ c \in Cards /\ SuitOf(c) = s
      BY DEF OfSuit
    <3>2. RankOf(c) \in Ranks /\ CardOf(RankOf(c), s) = c
      BY <3>1, CardIs
    <3> QED
      BY <3>1, <3>2, <1>0
  <2>2. \A c, e \in OfSuit(S, s) : f[c] = f[e] => c = e
    <3> TAKE c, e \in OfSuit(S, s)
    <3>1. c \in Cards /\ SuitOf(c) = s /\ e \in Cards /\ SuitOf(e) = s
      BY DEF OfSuit
    <3>2. CardOf(RankOf(c), s) = c /\ CardOf(RankOf(e), s) = e
      BY <3>1, CardIs
    <3> QED
      BY <3>2
  <2>3. \A r \in Lane(S, s) : \E c \in OfSuit(S, s) : f[c] = r
    <3> TAKE r \in Lane(S, s)
    <3>1. r \in Ranks /\ CardOf(r, s) \in S
      BY <1>0
    <3>2. RankOf(CardOf(r, s)) = r /\ SuitOf(CardOf(r, s)) = s
      BY <3>1, CardIs
    <3>3. CardOf(r, s) \in OfSuit(S, s)
      BY <3>1, <3>2 DEF OfSuit
    <3> QED
      BY <3>2, <3>3
  <2> HIDE DEF f
  <2> QED
    BY <2>1, <2>2, <2>3 DEF Corresponds
<1>2. Cardinality(Lane(S, s)) = Cardinality(OfSuit(S, s))
  <2> HIDE DEF f
  <2> QED
    BY <1>1, CardsFinite, SameSize
<1>3. Lane(S, s) \subseteq RanksOf(S)
  <2> SUFFICES ASSUME NEW r \in Lane(S, s) PROVE r \in RanksOf(S)
    OBVIOUS
  <2>1. CardOf(r, s) \in S /\ RankOf(CardOf(r, s)) = r
    BY <1>0, CardIs
  <2> QED
    BY <2>1 DEF RanksOf
<1> QED
  BY <1>0, <1>2, <1>3

-----------------------------------------------------------------------------

(* The top ranks: descending, and each at least what any other descending  *)
(* choice has in its place.                                                *)
Descending(R, n, d) == d \in [1 .. n -> R] /\ \A i, j \in 1 .. n : i < j => d[i] > d[j]

(* TakeTop is descending, and no descending choice has more anywhere.      *)
LEMMA TopsDominate ==
  ASSUME NEW R, R \subseteq Ranks, NEW n \in Nat, n <= Cardinality(R)
  PROVE  /\ Descending(R, n, TakeTop(R, n))
         /\ \A d : Descending(R, n, d) => \A i \in 1 .. n : d[i] <= TakeTop(R, n)[i]
<1> DEFINE Above == {p \in R \X R : p[1] > p[2]}
           T == TakeTop(R, n)
<1>1. IsFiniteSet(R) /\ R \subseteq Int /\ Cardinality(R) \in Nat
  <2>1. R \in SUBSET Ranks
    OBVIOUS
  <2> QED
    BY <2>1, RanksFinite, FS_CardinalityType
<1>2. RanksFill(Above, R)
  <2>1. OrdersStrictly(Above, R)
    <3>1. \A x \in R : <<x, x>> \notin Above
      BY <1>1
    <3>2. \A x, y \in R : x # y => <<x, y>> \in Above \/ <<y, x>> \in Above
      BY <1>1
    <3>3. \A x, y, z \in R : <<x, y>> \in Above /\ <<y, z>> \in Above => <<x, z>> \in Above
      BY <1>1
    <3> HIDE DEF Above
    <3> QED
      BY <3>1, <3>2, <3>3 DEF OrdersStrictly
  <2> HIDE DEF Above
  <2> QED
    BY <1>1, <2>1, RanksAreDense
<1>3. \A r \in R : Cardinality({q \in R : q > r}) = RankBy(Above, R, r)
  <2> TAKE r \in R
  <2>1. {q \in R : q > r} = Before(Above, R, r)
    BY DEF Before
  <2> QED
    BY <2>1 DEF RankBy
<1>4. T = [i \in 1 .. n |-> CHOOSE r \in R : Cardinality({q \in R : q > r}) = i - 1]
  BY <1>1 DEF TakeTop
<1>5. ASSUME NEW i \in 1 .. n
      PROVE  T[i] \in R /\ RankBy(Above, R, T[i]) = i - 1
  <2>1. i \in 1 .. Cardinality(R)
    BY <1>1
  <2>2. \E r \in R : RankBy(Above, R, r) = i - 1
    BY <1>2, <2>1 DEF RanksFill
  <2>3. \E r \in R : Cardinality({q \in R : q > r}) = i - 1
    BY <2>2, <1>3
  <2>4. T[i] = CHOOSE r \in R : Cardinality({q \in R : q > r}) = i - 1
    BY <1>4
  <2>5. T[i] \in R /\ Cardinality({q \in R : q > T[i]}) = i - 1
    BY <2>3, <2>4
  <2> QED
    BY <2>5, <1>3
<1>6. \A x, y \in R : RankBy(Above, R, x) < RankBy(Above, R, y) => x > y
  <2> TAKE x, y \in R
  <2>1. HAVE RankBy(Above, R, x) < RankBy(Above, R, y)
  <2>2. RankBy(Above, R, x) \in Int /\ RankBy(Above, R, y) \in Int
    BY <1>1, <1>2 DEF RanksFill
  <2>3. <<y, x>> \notin Above
    <3> HIDE DEF Above
    <3>1. <<y, x>> \in Above => RankBy(Above, R, y) < RankBy(Above, R, x)
      BY <1>2 DEF RanksFill
    <3> QED
      BY <2>1, <2>2, <3>1
  <2>4. ~ (y > x)
    BY <2>3
  <2>5. x # y
    BY <2>1, <2>2
  <2> QED
    BY <1>1, <2>4, <2>5
<1>7. Descending(R, n, T)
  <2>1. T \in [1 .. n -> R]
    BY <1>4, <1>5
  <2>2. ASSUME NEW i \in 1 .. n, NEW j \in 1 .. n, i < j
        PROVE  T[i] > T[j]
    <3> HIDE DEF T, Above
    <3>1. RankBy(Above, R, T[i]) < RankBy(Above, R, T[j])
      BY <1>5, <2>2
    <3> QED
      BY <1>5, <1>6, <3>1
  <2> QED
    BY <2>1, <2>2 DEF Descending
<1>9. \A x \in R : x \in Int
  BY <1>1
<1>8. ASSUME NEW d, Descending(R, n, d), NEW i \in 1 .. n
      PROVE  d[i] <= T[i]
  <2>1. d \in [1 .. n -> R] /\ \A j, k \in 1 .. n : j < k => d[j] > d[k]
    BY <1>8 DEF Descending
  <2> DEFINE up == {d[j] : j \in 1 .. i - 1}
             g == [j \in 1 .. i - 1 |-> d[j]]
  <2>2. Corresponds(1 .. i - 1, up, g)
    <3>1. \A x, y \in 1 .. i - 1 : g[x] = g[y] => x = y
      <4> TAKE x, y \in 1 .. i - 1
      <4>1. x \in 1 .. n /\ y \in 1 .. n
        OBVIOUS
      <4>5. d[x] \in Int /\ d[y] \in Int
        BY <2>1, <4>1, <1>9
      <4>2. x < y => d[x] > d[y]
        BY <2>1, <4>1
      <4>3. y < x => d[y] > d[x]
        BY <2>1, <4>1
      <4> QED
        BY <4>5, <4>2, <4>3
    <3> QED
      BY <3>1 DEF Corresponds
  <2>3. IsFiniteSet(up) /\ Cardinality(up) = i - 1
    <3>1. IsFiniteSet(1 .. i - 1) /\ Cardinality(1 .. i - 1) = i - 1
      BY FS_Interval
    <3> HIDE DEF up, g
    <3> QED
      BY <3>1, <2>2, SameSize
  <2>4. up \in SUBSET Before(Above, R, d[i])
    <3> SUFFICES ASSUME NEW j \in 1 .. i - 1
                 PROVE  d[j] \in Before(Above, R, d[i])
      OBVIOUS
    <3>1. j \in 1 .. n /\ j < i
      OBVIOUS
    <3>2. d[j] > d[i] /\ d[j] \in R /\ d[i] \in R
      BY <2>1, <3>1
    <3> QED
      BY <3>2 DEF Before
  <2>5. IsFiniteSet(Before(Above, R, d[i]))
    <3>1. Before(Above, R, d[i]) \in SUBSET R
      BY DEF Before
    <3> QED
      BY <1>1, <3>1, FS_Subset
  <2>6. i - 1 <= RankBy(Above, R, d[i])
    <3> HIDE DEF Above, up
    <3> QED
      BY <2>3, <2>4, <2>5, FS_Subset DEF RankBy
  <2>7. d[i] \in R /\ T[i] \in R /\ RankBy(Above, R, T[i]) = i - 1
    <3> HIDE DEF T, Above
    <3> QED
      BY <2>1, <1>5
  <2>8. ~ (d[i] > T[i])
    <3> SUFFICES ASSUME d[i] > T[i] PROVE FALSE
      OBVIOUS
    <3>1. <<d[i], T[i]>> \in Above
      BY <2>7
    <3> HIDE DEF Above, T
    <3>2. RankBy(Above, R, d[i]) < RankBy(Above, R, T[i])
      BY <3>1, <2>7, <1>2 DEF RanksFill
    <3>3. RankBy(Above, R, d[i]) \in Int
      <4>1. RankBy(Above, R, d[i]) \in 0 .. Cardinality(R) - 1
        BY <2>7, <1>2 DEF RanksFill
      <4> QED
        BY <4>1, <1>1
    <3> QED
      BY <3>2, <3>3, <2>6, <2>7
  <2>9. d[i] \in Int /\ T[i] \in Int
    BY <2>7, <1>9
  <2> HIDE DEF T
  <2>10. d[i] <= T[i]
    BY <2>8, <2>9
  <2> QED
    BY <2>10 DEF T
<1> QED
  BY <1>7, <1>8

-----------------------------------------------------------------------------

(* The rank of a place in a straight: below the deuce comes the ace.       *)
Real(x) == IF x = 1 THEN 14 ELSE x
RowIn(R, h) == \A i \in 1 .. 5 : Real(h - i + 1) \in R

(* StraightHigh is the top of the highest five ranks in a row.             *)
LEMMA StraightHighIs ==
  ASSUME NEW R, R \subseteq Ranks
  PROVE  /\ StraightHigh(R) = 0 \/ (StraightHigh(R) \in 5 .. 14 /\ RowIn(R, StraightHigh(R)))
         /\ \A h \in 5 .. 14 : RowIn(R, h) => h <= StraightHigh(R)
<1> DEFINE tops == {h \in 6 .. 14 : h - 4 .. h \subseteq R}
<1>1. tops \subseteq Nat /\ \A h \in tops : h <= 14
  OBVIOUS
<1>2. \A h \in 6 .. 14 : RowIn(R, h) <=> h \in tops
  <2> TAKE h \in 6 .. 14
  <2>1. h - 4 .. h = {h, h - 1, h - 2, h - 3, h - 4}
    OBVIOUS
  <2>2. RowIn(R, h) <=> Real(h) \in R /\ Real(h - 1) \in R /\ Real(h - 2) \in R /\ Real(h - 3) \in R /\ Real(h - 4) \in R
    <3>1. 1 .. 5 = {1, 2, 3, 4, 5}
      OBVIOUS
    <3>2. h - 1 + 1 = h /\ h - 2 + 1 = h - 1 /\ h - 3 + 1 = h - 2 /\ h - 4 + 1 = h - 3 /\ h - 5 + 1 = h - 4
      OBVIOUS
    <3> QED
      BY <3>1, <3>2 DEF RowIn
  <2>3. Real(h) = h /\ Real(h - 1) = h - 1 /\ Real(h - 2) = h - 2 /\ Real(h - 3) = h - 3 /\ Real(h - 4) = h - 4
    BY DEF Real
  <2> QED
    BY <2>1, <2>2, <2>3
<1>3. RowIn(R, 5) <=> {14, 2, 3, 4, 5} \subseteq R
  <2>1. 1 .. 5 = {1, 2, 3, 4, 5}
    OBVIOUS
  <2>2. Real(5 - 1 + 1) = 5 /\ Real(5 - 2 + 1) = 4 /\ Real(5 - 3 + 1) = 3 /\ Real(5 - 4 + 1) = 2 /\ Real(5 - 5 + 1) = 14
    BY DEF Real
  <2> QED
    BY <2>1, <2>2 DEF RowIn
<1>4. CASE tops # {}
  <2>1. Max(tops) \in tops /\ \A h \in tops : Max(tops) >= h
    <3> HIDE DEF tops
    <3> QED
      BY <1>1, <1>4, MaxIsThere
  <2>2. StraightHigh(R) = Max(tops)
    BY <1>4 DEF StraightHigh
  <2>3. Max(tops) \in 6 .. 14
    BY <2>1
  <2>4. ASSUME NEW h \in 5 .. 14, RowIn(R, h)
        PROVE  h <= Max(tops)
    <3>1. CASE h = 5
      BY <3>1, <2>3
    <3>2. CASE h # 5
      <4>1. h \in 6 .. 14
        BY <3>2
      <4>2. h \in tops
        BY <4>1, <2>4, <1>2
      <4> HIDE DEF tops
      <4> QED
        BY <4>1, <4>2, <2>1, <2>3
    <3> QED
      BY <3>1, <3>2
  <2>5. RowIn(R, Max(tops))
    BY <2>1, <2>3, <1>2
  <2> HIDE DEF tops
  <2> QED
    BY <2>2, <2>3, <2>4, <2>5
<1>5. CASE tops = {}
  <2>1. StraightHigh(R) = IF {14, 2, 3, 4, 5} \subseteq R THEN 5 ELSE 0
    BY <1>5 DEF StraightHigh
  <2>2. \A h \in 5 .. 14 : RowIn(R, h) => h = 5
    <3> TAKE h \in 5 .. 14
    <3>1. h # 5 => h \in 6 .. 14
      OBVIOUS
    <3> QED
      BY <3>1, <1>2, <1>5
  <2> HIDE DEF tops
  <2> QED
    BY <2>1, <2>2, <1>3
<1> QED
  BY <1>4, <1>5

-----------------------------------------------------------------------------

(* The cards of each rank add up to all the cards.                         *)
PerRank(S) == [r \in Ranks |-> Cardinality(OfRank(S, r))]

(* Every card is counted once, under its rank.                             *)
LEMMA RanksAddUp ==
  ASSUME NEW S, S \subseteq Cards
  PROVE  SumOn(PerRank(S), Ranks) = Cardinality(S)
<1> DEFINE g == [r \in Ranks |-> OfRank(S, r)]
           P == Pairs(Ranks, S, g)
           h == [c \in S |-> <<RankOf(c), c>>]
<1>1. IsFiniteSet(S) /\ IsFiniteSet(Ranks)
  <2>1. Ranks \in SUBSET Ranks
    OBVIOUS
  <2> QED
    BY <2>1, RanksFinite, CardsFinite
<1>2. \A r \in Ranks : g[r] \subseteq S /\ Cardinality(g[r]) = PerRank(S)[r]
  BY DEF PerRank, OfRank
<1>3. Cardinality(P) = SumOn(PerRank(S), Ranks)
  <2> HIDE DEF g
  <2> QED
    BY <1>1, <1>2, SharesAddUp
<1>4. Corresponds(S, P, h)
  <2>1. \A c \in S : h[c] \in P
    <3> TAKE c \in S
    <3>1. RankOf(c) \in Ranks
      BY CardIs
    <3>2. c \in g[RankOf(c)]
      BY <3>1 DEF OfRank
    <3> HIDE DEF g
    <3> QED
      BY <3>1, <3>2 DEF Pairs
  <2>2. \A c, e \in S : h[c] = h[e] => c = e
    OBVIOUS
  <2>3. \A p \in P : \E c \in S : h[c] = p
    <3> TAKE p \in P
    <3>1. p \in Ranks \X S /\ p[2] \in g[p[1]]
      BY DEF Pairs
    <3>2. p = <<p[1], p[2]>> /\ p[2] \in S /\ p[1] \in Ranks
      BY <3>1
    <3>3. RankOf(p[2]) = p[1]
      BY <3>1, <3>2 DEF OfRank
    <3> QED
      BY <3>2, <3>3
  <2> HIDE DEF h, P
  <2> QED
    BY <2>1, <2>2, <2>3 DEF Corresponds
<1> HIDE DEF P, h
<1>5. Cardinality(P) = Cardinality(S)
  BY <1>1, <1>4, SameSize
<1> QED
  BY <1>3, <1>5

(* What a list of ranks asks for: so many cards of the first, so many of   *)
(* the second, and none of the others.                                     *)
Owed(t, rk, n) ==
  [r \in Ranks |-> IF r \in {rk[i] : i \in 1 .. n} THEN t[CHOOSE i \in 1 .. n : rk[i] = r] ELSE 0]

DistinctRanks(rk, n) == rk \in [1 .. n -> Ranks] /\ \A i, j \in 1 .. n : rk[i] = rk[j] => i = j

(* What is asked for one rank.                                             *)
LEMMA OwedIs ==
  ASSUME NEW n \in Nat, NEW j \in Nat, j <= n, NEW rk, DistinctRanks(rk, n), NEW t
  PROVE  /\ \A i \in 1 .. j : Owed(t, rk, j)[rk[i]] = t[i]
         /\ \A r \in Ranks : (\A i \in 1 .. j : rk[i] # r) => Owed(t, rk, j)[r] = 0
<1>1. ASSUME NEW i \in 1 .. j
      PROVE  Owed(t, rk, j)[rk[i]] = t[i]
  <2>1. i \in 1 .. n /\ rk[i] \in Ranks
    BY DEF DistinctRanks
  <2>2. \A k \in 1 .. j : rk[k] = rk[i] => k = i
    <3> TAKE k \in 1 .. j
    <3>1. k \in 1 .. n
      OBVIOUS
    <3> QED
      BY <3>1, <2>1 DEF DistinctRanks
  <2>3. (CHOOSE k \in 1 .. j : rk[k] = rk[i]) = i
    BY <2>2
  <2>4. rk[i] \in {rk[k] : k \in 1 .. j}
    OBVIOUS
  <2> QED
    BY <2>1, <2>3, <2>4 DEF Owed
<1>2. ASSUME NEW r \in Ranks, \A i \in 1 .. j : rk[i] # r
      PROVE  Owed(t, rk, j)[r] = 0
  BY <1>2 DEF Owed
<1> QED
  BY <1>1, <1>2

(* One rank more asks for its cards more.                                  *)
LEMMA OwedStep ==
  ASSUME NEW n \in Nat, NEW j \in Nat, j < n, NEW rk, DistinctRanks(rk, n),
         NEW t \in [1 .. n -> Nat]
  PROVE  /\ \A r \in Ranks : Owed(t, rk, j)[r] \in Nat
         /\ SumOn(Owed(t, rk, j + 1), Ranks) = SumOn(Owed(t, rk, j), Ranks) + t[j + 1]
<1> DEFINE f == Owed(t, rk, j)
           h == Owed(t, rk, j + 1)
           e == rk[j + 1]
<1>0. IsFiniteSet(Ranks)
  <2>1. Ranks \in SUBSET Ranks
    OBVIOUS
  <2> QED
    BY <2>1, RanksFinite
<1>1. j + 1 \in 1 .. n /\ e \in Ranks /\ t[j + 1] \in Nat
  BY DEF DistinctRanks
<1>2. \A r \in Ranks : f[r] \in Nat
  <2> TAKE r \in Ranks
  <2>1. CASE \E i \in 1 .. j : rk[i] = r
    <3>1. PICK i \in 1 .. j : rk[i] = r
      BY <2>1
    <3>2. f[r] = t[i] /\ i \in 1 .. n
      BY <3>1, OwedIs
    <3> QED
      BY <3>2
  <2>2. CASE ~ \E i \in 1 .. j : rk[i] = r
    <3>1. f[r] = 0
      BY <2>2, OwedIs
    <3> QED
      BY <3>1
  <2> QED
    BY <2>1, <2>2
<1>3. f[e] = 0 /\ h[e] = t[j + 1]
  <2>1. \A i \in 1 .. j : rk[i] # e
    <3> TAKE i \in 1 .. j
    <3>1. i \in 1 .. n /\ i # j + 1
      OBVIOUS
    <3> QED
      BY <3>1, <1>1 DEF DistinctRanks
  <2>2. f[e] = 0
    BY <2>1, <1>1, OwedIs
  <2>3. j + 1 \in Nat /\ j + 1 <= n /\ j + 1 \in 1 .. j + 1
    OBVIOUS
  <2>4. \A i \in 1 .. j + 1 : Owed(t, rk, j + 1)[rk[i]] = t[i]
    BY <2>3, OwedIs
  <2> QED
    BY <2>2, <2>3, <2>4
<1>4. \A r \in Ranks \ {e} : h[r] = f[r]
  <2> TAKE r \in Ranks \ {e}
  <2>1. j + 1 \in Nat /\ j + 1 <= n
    OBVIOUS
  <2>2. CASE \E i \in 1 .. j : rk[i] = r
    <3>1. PICK i \in 1 .. j : rk[i] = r
      BY <2>2
    <3>2. f[r] = t[i]
      BY <3>1, OwedIs
    <3>3. i \in 1 .. j + 1
      OBVIOUS
    <3>4. h[r] = t[i]
      BY <3>1, <3>3, <2>1, OwedIs
    <3> QED
      BY <3>2, <3>4
  <2>3. CASE ~ \E i \in 1 .. j : rk[i] = r
    <3>1. f[r] = 0
      BY <2>3, OwedIs
    <3>2. \A i \in 1 .. j + 1 : rk[i] # r
      <4> TAKE i \in 1 .. j + 1
      <4>1. i \in 1 .. j \/ i = j + 1
        OBVIOUS
      <4> QED
        BY <4>1, <2>3
    <3>3. h[r] = 0
      BY <3>2, <2>1, OwedIs
    <3> QED
      BY <3>1, <3>3
  <2> QED
    BY <2>2, <2>3
<1>5. SumOn(h, Ranks) = SumOn(f, Ranks) + t[j + 1]
  <2>1. \A r \in Ranks : f[r] \in Int
    BY <1>2
  <2>2. h[e] = f[e] + t[j + 1] /\ t[j + 1] \in Int
    BY <1>1, <1>3
  <2> HIDE DEF f, h, e
  <2> QED
    BY <1>0, <1>1, <1>4, <2>1, <2>2, SumOnChanged
<1> QED
  BY <1>2, <1>5

(* All that a list of up to five ranks asks for.                           *)
Asked(t, n) ==
  t[1] + (IF n >= 2 THEN t[2] ELSE 0) + (IF n >= 3 THEN t[3] ELSE 0)
    + (IF n >= 4 THEN t[4] ELSE 0) + (IF n >= 5 THEN t[5] ELSE 0)

(* The ranks asked for, added up.                                          *)
LEMMA OwedAddsUp ==
  ASSUME NEW n \in 1 .. 5, NEW rk, DistinctRanks(rk, n), NEW t \in [1 .. n -> Nat]
  PROVE  /\ \A r \in Ranks : Owed(t, rk, n)[r] \in Nat
         /\ SumOn(Owed(t, rk, n), Ranks) = Asked(t, n)
<1> DEFINE s(j) == SumOn(Owed(t, rk, j), Ranks)
<1>0. s(0) = 0
  <2>1. \A r \in Ranks : Owed(t, rk, 0)[r] = 0
    BY DEF Owed
  <2>2. IsFiniteSet(Ranks)
    <3>1. Ranks \in SUBSET Ranks
      OBVIOUS
    <3> QED
      BY <3>1, RanksFinite
  <2> QED
    BY <2>1, <2>2, SumOnZero
<1>1. ASSUME NEW j \in 0 .. 4, j < n
      PROVE  s(j + 1) = s(j) + t[j + 1]
  BY <1>1, OwedStep
<1>2. \A r \in Ranks : Owed(t, rk, n)[r] \in Nat
  <2> TAKE r \in Ranks
  <2>1. CASE \E i \in 1 .. n : rk[i] = r
    <3>1. PICK i \in 1 .. n : rk[i] = r
      BY <2>1
    <3>2. Owed(t, rk, n)[r] = t[i]
      BY <3>1, OwedIs
    <3> QED
      BY <3>2
  <2>2. CASE ~ \E i \in 1 .. n : rk[i] = r
    <3>1. Owed(t, rk, n)[r] = 0
      BY <2>2, OwedIs
    <3> QED
      BY <3>1
  <2> QED
    BY <2>1, <2>2
<1> HIDE DEF s
<1>3. /\ n >= 1 => s(1) = s(0) + t[1]
      /\ n >= 2 => s(2) = s(1) + t[2]
      /\ n >= 3 => s(3) = s(2) + t[3]
      /\ n >= 4 => s(4) = s(3) + t[4]
      /\ n >= 5 => s(5) = s(4) + t[5]
  <2>1. n > 0 => s(0 + 1) = s(0) + t[0 + 1]
    BY <1>1
  <2>2. n > 1 => s(1 + 1) = s(1) + t[1 + 1]
    BY <1>1
  <2>3. n > 2 => s(2 + 1) = s(2) + t[2 + 1]
    BY <1>1
  <2>4. n > 3 => s(3 + 1) = s(3) + t[3 + 1]
    BY <1>1
  <2>5. n > 4 => s(4 + 1) = s(4) + t[4 + 1]
    BY <1>1
  <2> QED
    BY <2>1, <2>2, <2>3, <2>4, <2>5
<1>4. \A i \in 1 .. n : t[i] \in Nat
  OBVIOUS
<1>5. n = 1 \/ n = 2 \/ n = 3 \/ n = 4 \/ n = 5
  OBVIOUS
<1>6. s(n) = Asked(t, n)
  <2>1. CASE n = 1
    BY <2>1, <1>0, <1>3, <1>4 DEF Asked
  <2>2. CASE n = 2
    BY <2>2, <1>0, <1>3, <1>4 DEF Asked
  <2>3. CASE n = 3
    BY <2>3, <1>0, <1>3, <1>4 DEF Asked
  <2>4. CASE n = 4
    BY <2>4, <1>0, <1>3, <1>4 DEF Asked
  <2>5. CASE n = 5
    BY <2>5, <1>0, <1>3, <1>4 DEF Asked
  <2> QED
    BY <1>5, <2>1, <2>2, <2>3, <2>4, <2>5
<1> QED
  BY <1>2, <1>6 DEF s

(* Cards of a set that meet what is asked are that many; and when there    *)
(* are no more, they are of just those ranks.                              *)
Meets(S, t, rk, n) == \A i \in 1 .. n : Cardinality(OfRank(S, rk[i])) >= t[i]

(* Enough cards of each rank asked for are enough cards.                   *)
LEMMA AskedIsThere ==
  ASSUME NEW S, S \subseteq Cards, NEW n \in 1 .. 5, NEW rk, DistinctRanks(rk, n),
         NEW t \in [1 .. n -> Nat], Meets(S, t, rk, n)
  PROVE  /\ Asked(t, n) <= Cardinality(S)
         /\ Asked(t, n) = Cardinality(S) =>
              \A r \in Ranks : Cardinality(OfRank(S, r)) = Owed(t, rk, n)[r]
<1> DEFINE f == Owed(t, rk, n)
           h == PerRank(S)
<1>1. IsFiniteSet(Ranks)
  <2>1. Ranks \in SUBSET Ranks
    OBVIOUS
  <2> QED
    BY <2>1, RanksFinite
<1>2. AtMost(f, h, Ranks)
  <2> SUFFICES ASSUME NEW r \in Ranks
               PROVE  f[r] \in Int /\ h[r] \in Int /\ f[r] <= h[r]
    BY DEF AtMost
  <2>1. h[r] = Cardinality(OfRank(S, r)) /\ h[r] \in Nat
    BY CardsFinite DEF PerRank
  <2>2. f[r] \in Nat
    BY OwedAddsUp
  <2>3. CASE \E i \in 1 .. n : rk[i] = r
    <3>1. PICK i \in 1 .. n : rk[i] = r
      BY <2>3
    <3>2. f[r] = t[i] /\ t[i] \in Nat
      BY <3>1, OwedIs
    <3>3. Cardinality(OfRank(S, r)) >= t[i]
      BY <3>1 DEF Meets
    <3> HIDE DEF f, h
    <3> QED
      BY <2>1, <2>2, <3>2, <3>3
  <2>4. CASE ~ \E i \in 1 .. n : rk[i] = r
    <3>1. f[r] = 0
      BY <2>4, OwedIs
    <3> HIDE DEF f, h
    <3> QED
      BY <2>1, <3>1
  <2> QED
    BY <2>3, <2>4
<1>3. SumOn(f, Ranks) = Asked(t, n) /\ SumOn(h, Ranks) = Cardinality(S)
  BY OwedAddsUp, RanksAddUp
<1>4. \A r \in Ranks : h[r] = Cardinality(OfRank(S, r))
  BY DEF PerRank
<1> HIDE DEF f, h
<1>5. SumOn(f, Ranks) <= SumOn(h, Ranks)
  <2>1. \A r \in Ranks : f[r] \in Int /\ h[r] \in Int /\ f[r] <= h[r]
    BY <1>2 DEF AtMost
  <2> QED
    BY <1>1, <2>1, SumOnAtMost
<1>6. ASSUME Asked(t, n) = Cardinality(S), NEW r \in Ranks
      PROVE  f[r] = h[r]
  BY <1>1, <1>2, <1>3, <1>6, SumOnTight
<1> QED
  BY <1>3, <1>4, <1>5, <1>6 DEF f

(* Cards of ranks held once are as many as the ranks.                      *)
LEMMA OneOfEach ==
  ASSUME NEW S, S \subseteq Cards, NEW Q, \A r \in Ranks \ Q : Cardinality(OfRank(S, r)) <= 1
  PROVE  /\ IsFiniteSet({c \in S : RankOf(c) \notin Q})
         /\ Cardinality(RanksOf(S) \ Q) = Cardinality({c \in S : RankOf(c) \notin Q})
<1> DEFINE B == {c \in S : RankOf(c) \notin Q}
           f == [c \in B |-> RankOf(c)]
<1>1. IsFiniteSet(B)
  <2>1. B \in SUBSET S
    OBVIOUS
  <2> HIDE DEF B
  <2> QED
    BY <2>1, CardsFinite, FS_Subset
<1>2. Corresponds(B, RanksOf(S) \ Q, f)
  <2>1. \A c, e \in B : f[c] = f[e] => c = e
    <3> TAKE c, e \in B
    <3> HAVE f[c] = f[e]
    <3> DEFINE r == RankOf(c)
    <3>1. c \in S /\ e \in S /\ r \in Ranks \ Q /\ RankOf(e) = r
      BY CardIs
    <3>2. IsFiniteSet(OfRank(S, r)) /\ Cardinality(OfRank(S, r)) <= 1 /\ Cardinality(OfRank(S, r)) \in Nat
      BY <3>1, CardsFinite
    <3>3. c \in OfRank(S, r) /\ e \in OfRank(S, r)
      BY <3>1 DEF OfRank
    <3> HIDE DEF r
    <3>4. Cardinality(OfRank(S, r)) # 0
      BY <3>2, <3>3, FS_EmptySet
    <3>5. Cardinality(OfRank(S, r)) = 1
      BY <3>2, <3>4
    <3>6. \E x : OfRank(S, r) = {x}
      BY <3>2, <3>5, FS_Singleton
    <3> QED
      BY <3>3, <3>6
  <2>2. \A c \in B : f[c] \in RanksOf(S) \ Q
    BY DEF RanksOf
  <2>3. \A r \in RanksOf(S) \ Q : \E c \in B : f[c] = r
    BY DEF RanksOf
  <2> HIDE DEF B, f
  <2> QED
    BY <2>1, <2>2, <2>3 DEF Corresponds
<1> HIDE DEF f
<1>3. Cardinality(RanksOf(S) \ Q) = Cardinality(B)
  <2> HIDE DEF B
  <2> QED
    BY <1>1, <1>2, SameSize
<1> QED
  BY <1>1, <1>3

(* The cards that are not of one rank, and not of one or another.          *)
LEMMA CardsBeside ==
  ASSUME NEW S, S \subseteq Cards, NEW q, NEW p, q # p
  PROVE  /\ Cardinality({c \in S : RankOf(c) \notin {}}) = Cardinality(S)
         /\ Cardinality({c \in S : RankOf(c) \notin {q}}) = Cardinality(S) - Cardinality(OfRank(S, q))
         /\ Cardinality({c \in S : RankOf(c) \notin {q, p}})
              = Cardinality(S) - Cardinality(OfRank(S, q)) - Cardinality(OfRank(S, p))
<1> DEFINE A == {c \in S : RankOf(c) \notin {q}}
           B == {c \in S : RankOf(c) \notin {q, p}}
<1>1. IsFiniteSet(S) /\ IsFiniteSet(A) /\ A \subseteq Cards
  <2>1. A \in SUBSET S
    OBVIOUS
  <2> HIDE DEF A
  <2> QED
    BY <2>1, CardsFinite, FS_Subset
<1>2. {c \in S : RankOf(c) \notin {}} = S
  OBVIOUS
<1>3. A = S \ OfRank(S, q) /\ S \cap OfRank(S, q) = OfRank(S, q)
  BY DEF OfRank
<1>4. B = A \ OfRank(S, p) /\ A \cap OfRank(S, p) = OfRank(S, p)
  BY DEF OfRank
<1> HIDE DEF A, B
<1>5. Cardinality(A) = Cardinality(S) - Cardinality(OfRank(S, q))
  <2>1. Cardinality(S \ OfRank(S, q)) = Cardinality(S) - Cardinality(S \cap OfRank(S, q))
    BY <1>1, FS_Difference
  <2>2. /\ Cardinality(A) = Cardinality(S \ OfRank(S, q))
        /\ Cardinality(S \cap OfRank(S, q)) = Cardinality(OfRank(S, q))
    BY <1>3, Zenon
  <2> QED
    BY <2>1, <2>2
<1>6. Cardinality(B) = Cardinality(A) - Cardinality(OfRank(S, p))
  <2>1. Cardinality(A \ OfRank(S, p)) = Cardinality(A) - Cardinality(A \cap OfRank(S, p))
    BY <1>1, FS_Difference
  <2>2. /\ Cardinality(B) = Cardinality(A \ OfRank(S, p))
        /\ Cardinality(A \cap OfRank(S, p)) = Cardinality(OfRank(S, p))
    BY <1>4, Zenon
  <2> QED
    BY <2>1, <2>2
<1> QED
  BY <1>2, <1>5, <1>6 DEF A, B

-----------------------------------------------------------------------------

(* A hand as a player calls it: a category, and its ranks from the one     *)
(* that counts most, with how many cards each has; a one is the ace below  *)
(* the deuce of a straight.                                                *)
InRow(c) == c \in {Straight, StraightFlush}
SameSuit(c) == c \in {Flush, StraightFlush}

Size(c) ==
  IF c \in {FourOfAKind, FullHouse} THEN 2
  ELSE IF c \in {ThreeOfAKind, TwoPair} THEN 3
  ELSE IF c = OnePair THEN 4 ELSE 5

Times(c, i) ==
  IF c = FourOfAKind /\ i = 1 THEN 4
  ELSE IF c \in {FullHouse, ThreeOfAKind} /\ i = 1 THEN 3
  ELSE IF \/ c = FullHouse /\ i = 2
          \/ c = TwoPair /\ i <= 2
          \/ c = OnePair /\ i = 1 THEN 2
  ELSE 1

TimesOf(c) == [i \in 1 .. Size(c) |-> Times(c, i)]
RealOf(c, k) == [i \in 1 .. Size(c) |-> Real(k[i])]

Falls(c, k) ==
  \A i, j \in 1 .. Size(c) :
    i < j => k[i] # k[j] /\ 100 * Times(c, i) + k[i] > 100 * Times(c, j) + k[j]

MadeHand(c, k) ==
  /\ c \in 1 .. 9 /\ k \in [1 .. Size(c) -> 1 .. 14] /\ Falls(c, k)
  /\ InRow(c) => \A i \in 1 .. Size(c) : k[i] = k[1] - i + 1
  /\ ~InRow(c) => \A i \in 1 .. Size(c) : k[i] >= 2

(* The cards that make a hand, and the number it packs to.                 *)
HasSuit(S, c, k, s) == \A i \in 1 .. Size(c) : CardOf(Real(k[i]), s) \in S

Has(S, c, k) ==
  IF SameSuit(c) THEN \E s \in Suits : HasSuit(S, c, k, s)
  ELSE Meets(S, TimesOf(c), RealOf(c, k), Size(c))

Points(c, k) == Packed(c, IF InRow(c) THEN <<k[1]>> ELSE k)

(* The categories in order.                                                *)
LEMMA Kinds ==
  /\ HighCard = 1 /\ OnePair = 2 /\ TwoPair = 3 /\ ThreeOfAKind = 4 /\ Straight = 5
  /\ Flush = 6 /\ FullHouse = 7 /\ FourOfAKind = 8 /\ StraightFlush = 9
BY DEF HighCard, OnePair, TwoPair, ThreeOfAKind, Straight, Flush, FullHouse, FourOfAKind, StraightFlush

(* Every category is five cards.                                           *)
LEMMA FiveCards ==
  ASSUME NEW c \in 1 .. 9
  PROVE  /\ Size(c) \in 1 .. 5 /\ TimesOf(c) \in [1 .. Size(c) -> Nat]
         /\ \A i \in 1 .. Size(c) : TimesOf(c)[i] = Times(c, i) /\ Times(c, i) \in 1 .. 4
         /\ Asked(TimesOf(c), Size(c)) = 5
<1>1. c = 1 \/ c = 2 \/ c = 3 \/ c = 4 \/ c = 5 \/ c = 6 \/ c = 7 \/ c = 8 \/ c = 9
  OBVIOUS
<1>2. Size(c) \in 1 .. 5
  BY DEF Size
<1>3. \A i \in 1 .. Size(c) : TimesOf(c)[i] = Times(c, i) /\ Times(c, i) \in 1 .. 4
  BY <1>2 DEF TimesOf, Times
<1>4. TimesOf(c) \in [1 .. Size(c) -> Nat]
  BY <1>3 DEF TimesOf
<1>5. Asked(TimesOf(c), Size(c)) = 5
  <2> DEFINE t(i) == TimesOf(c)[i]
             n == Size(c)
  <2>1. \A i \in 1 .. n : t(i) = Times(c, i)
    BY <1>3
  <2>2. CASE c = 8
    <3>1. n = 2 /\ Times(c, 1) = 4 /\ Times(c, 2) = 1
      BY <2>2, Kinds DEF Size, Times
    <3> QED
      BY <3>1, <2>1 DEF Asked
  <2>3. CASE c = 7
    <3>1. n = 2 /\ Times(c, 1) = 3 /\ Times(c, 2) = 2
      BY <2>3, Kinds DEF Size, Times
    <3> QED
      BY <3>1, <2>1 DEF Asked
  <2>4. CASE c = 4
    <3>1. n = 3 /\ Times(c, 1) = 3 /\ Times(c, 2) = 1 /\ Times(c, 3) = 1
      BY <2>4, Kinds DEF Size, Times
    <3> QED
      BY <3>1, <2>1 DEF Asked
  <2>5. CASE c = 3
    <3>1. n = 3 /\ Times(c, 1) = 2 /\ Times(c, 2) = 2 /\ Times(c, 3) = 1
      BY <2>5, Kinds DEF Size, Times
    <3> QED
      BY <3>1, <2>1 DEF Asked
  <2>6. CASE c = 2
    <3>1. n = 4 /\ Times(c, 1) = 2 /\ Times(c, 2) = 1 /\ Times(c, 3) = 1 /\ Times(c, 4) = 1
      BY <2>6, Kinds DEF Size, Times
    <3> QED
      BY <3>1, <2>1 DEF Asked
  <2>7. CASE c \in {1, 5, 6, 9}
    <3>1. n = 5
      BY <2>7, Kinds DEF Size
    <3>2. \A i \in 1 .. 5 : Times(c, i) = 1
      BY <2>7, Kinds DEF Times
    <3> HIDE DEF t, n
    <3>3. t(1) = 1 /\ t(2) = 1 /\ t(3) = 1 /\ t(4) = 1 /\ t(5) = 1
      BY <3>1, <3>2, <2>1
    <3>4. t(1) + t(2) + t(3) + t(4) + t(5) = 5
      BY <3>3
    <3> QED
      BY <3>1, <3>4 DEF Asked, t, n
  <2> QED
    BY <1>1, <2>2, <2>3, <2>4, <2>5, <2>6, <2>7
<1> QED
  BY <1>2, <1>3, <1>4, <1>5

(* The ranks of a hand are different ranks.                                *)
LEMMA HandRanks ==
  ASSUME NEW c, NEW k, MadeHand(c, k)
  PROVE  /\ DistinctRanks(RealOf(c, k), Size(c))
         /\ \A i \in 1 .. Size(c) : RealOf(c, k)[i] = Real(k[i]) /\ Real(k[i]) \in Ranks
         /\ InRow(c) => Size(c) = 5 /\ k[1] \in 5 .. 14
<1>1. c \in 1 .. 9 /\ Size(c) \in 1 .. 5 /\ k \in [1 .. Size(c) -> 1 .. 14]
  BY FiveCards DEF MadeHand
<1>2. \A i \in 1 .. Size(c) : k[i] \in 1 .. 14
  BY <1>1
<1>3. \A i \in 1 .. Size(c) : RealOf(c, k)[i] = Real(k[i]) /\ Real(k[i]) \in Ranks
  BY <1>2 DEF RealOf, Real, Ranks
<1>4. InRow(c) => Size(c) = 5 /\ k[1] \in 5 .. 14
  <2> HAVE InRow(c)
  <2>1. Size(c) = 5
    BY Kinds DEF InRow, Size
  <2>2. k[5] = k[1] - 5 + 1 /\ k[5] \in 1 .. 14 /\ k[1] \in 1 .. 14
    BY <2>1, <1>2 DEF MadeHand
  <2> QED
    BY <2>1, <2>2
<1>5. ASSUME NEW i \in 1 .. Size(c), NEW j \in 1 .. Size(c), i < j
      PROVE  Real(k[i]) # Real(k[j])
  <2>1. k[i] # k[j] /\ k[i] \in 1 .. 14 /\ k[j] \in 1 .. 14
    BY <1>2, <1>5 DEF MadeHand, Falls
  <2>2. CASE InRow(c)
    <3>1. k[i] = k[1] - i + 1 /\ k[j] = k[1] - j + 1 /\ k[1] \in 5 .. 14 /\ i \in 1 .. 5 /\ j \in 1 .. 5
      BY <2>2, <1>4 DEF MadeHand
    <3> QED
      BY <3>1, <2>1, <1>5 DEF Real
  <2>3. CASE ~InRow(c)
    <3>1. k[i] >= 2 /\ k[j] >= 2
      BY <2>3 DEF MadeHand
    <3> QED
      BY <3>1, <2>1 DEF Real
  <2> QED
    BY <2>2, <2>3
<1>6. \A i, j \in 1 .. Size(c) : RealOf(c, k)[i] = RealOf(c, k)[j] => i = j
  <2> TAKE i, j \in 1 .. Size(c)
  <2>1. i \in Int /\ j \in Int
    BY <1>1
  <2>2. i < j => Real(k[i]) # Real(k[j])
    BY <1>5
  <2>3. j < i => Real(k[i]) # Real(k[j])
    BY <1>5
  <2> QED
    BY <2>1, <2>2, <2>3, <1>3
<1>7. RealOf(c, k) \in [1 .. Size(c) -> Ranks]
  BY <1>3 DEF RealOf
<1> QED
  BY <1>3, <1>4, <1>6, <1>7 DEF DistinctRanks

(* A hand of one suit has a card of each of its ranks as well.             *)
LEMMA HasMeets ==
  ASSUME NEW S, S \subseteq Cards, NEW c, NEW k, MadeHand(c, k), Has(S, c, k)
  PROVE  Meets(S, TimesOf(c), RealOf(c, k), Size(c))
<1>1. CASE ~SameSuit(c)
  BY <1>1 DEF Has
<1>2. CASE SameSuit(c)
  <2>1. PICK s \in Suits : HasSuit(S, c, k, s)
    BY <1>2 DEF Has
  <2> SUFFICES ASSUME NEW i \in 1 .. Size(c)
               PROVE  Cardinality(OfRank(S, RealOf(c, k)[i])) >= TimesOf(c)[i]
    BY DEF Meets
  <2>2. c \in 1 .. 9 /\ TimesOf(c)[i] = 1
    <3>1. c \in 1 .. 9
      BY DEF MadeHand
    <3>2. TimesOf(c)[i] = Times(c, i)
      BY <3>1, FiveCards
    <3>3. c = 6 \/ c = 9
      BY <1>2, Kinds DEF SameSuit
    <3> QED
      BY <3>1, <3>2, <3>3, Kinds DEF Times
  <2> DEFINE r == Real(k[i])
  <2>3. r \in Ranks /\ RealOf(c, k)[i] = r
    BY HandRanks
  <2>4. CardOf(r, s) \in S /\ RankOf(CardOf(r, s)) = r
    BY <2>1, <2>3, CardIs DEF HasSuit
  <2>5. CardOf(r, s) \in OfRank(S, r)
    BY <2>4 DEF OfRank
  <2> HIDE DEF r
  <2>6. IsFiniteSet(OfRank(S, r)) /\ Cardinality(OfRank(S, r)) \in Nat
    BY CardsFinite
  <2>7. Cardinality(OfRank(S, r)) # 0
    BY <2>5, <2>6, FS_EmptySet
  <2> QED
    BY <2>2, <2>3, <2>6, <2>7
<1> QED
  BY <1>1, <1>2

(* More cards make the hands that fewer make.                              *)
LEMMA HasMore ==
  ASSUME NEW S, S \subseteq Cards, NEW f, f \subseteq S, NEW c, NEW k, MadeHand(c, k), Has(f, c, k)
  PROVE  Has(S, c, k)
<1>1. CASE SameSuit(c)
  <2>1. PICK s \in Suits : HasSuit(f, c, k, s)
    BY <1>1 DEF Has
  <2>2. HasSuit(S, c, k, s)
    BY <2>1 DEF HasSuit
  <2> QED
    BY <2>2, <1>1 DEF Has
<1>2. CASE ~SameSuit(c)
  <2>1. Meets(f, TimesOf(c), RealOf(c, k), Size(c))
    BY <1>2 DEF Has
  <2>2. ASSUME NEW i \in 1 .. Size(c)
        PROVE  Cardinality(OfRank(S, RealOf(c, k)[i])) >= TimesOf(c)[i]
    <3> DEFINE r == RealOf(c, k)[i]
    <3>1. Cardinality(OfRank(f, r)) >= TimesOf(c)[i] /\ TimesOf(c)[i] \in Int
      <4>1. c \in 1 .. 9
        BY DEF MadeHand
      <4>2. TimesOf(c)[i] \in Nat
        BY <4>1, FiveCards
      <4> QED
        BY <2>1, <4>2 DEF Meets
    <3> HIDE DEF r
    <3>2. OfRank(f, r) \in SUBSET OfRank(S, r)
      BY DEF OfRank
    <3>3. IsFiniteSet(OfRank(S, r)) /\ Cardinality(OfRank(S, r)) \in Nat
      BY CardsFinite
    <3>4. f \subseteq Cards
      OBVIOUS
    <3>5. Cardinality(OfRank(f, r)) \in Nat
      BY <3>4, CardsFinite
    <3>6. Cardinality(OfRank(f, r)) <= Cardinality(OfRank(S, r))
      BY <3>2, <3>3, FS_Subset
    <3> QED
      BY <3>1, <3>3, <3>5, <3>6 DEF r
  <2> QED
    BY <1>2, <2>2 DEF Has, Meets
<1> QED
  BY <1>1, <1>2

(* Five of the cards that make a hand make it.                             *)
LEMMA FiveMakeIt ==
  ASSUME NEW S, S \subseteq Cards, NEW c, NEW k, MadeHand(c, k), Has(S, c, k)
  PROVE  \E f \in kSubset(5, S) : Has(f, c, k)
<1> DEFINE n == Size(c)
           rk == RealOf(c, k)
           t == TimesOf(c)
<1>1. c \in 1 .. 9 /\ n \in 1 .. 5 /\ t \in [1 .. n -> Nat] /\ Asked(t, n) = 5 /\ DistinctRanks(rk, n)
  <2>1. c \in 1 .. 9
    BY DEF MadeHand
  <2> QED
    BY <2>1, FiveCards, HandRanks
<1>2. CASE SameSuit(c)
  <2>1. PICK s \in Suits : HasSuit(S, c, k, s)
    BY <1>2 DEF Has
  <2>2. n = 5
    BY <1>2, Kinds DEF SameSuit, Size
  <2> DEFINE g == [i \in 1 .. 5 |-> CardOf(Real(k[i]), s)]
             f == {g[i] : i \in 1 .. 5}
  <2>3. \A i \in 1 .. 5 : g[i] \in S /\ RankOf(g[i]) = rk[i]
    <3> TAKE i \in 1 .. 5
    <3>1. i \in 1 .. n
      BY <2>2
    <3>2. Real(k[i]) \in Ranks /\ rk[i] = Real(k[i])
      BY <3>1, HandRanks
    <3>3. CardOf(Real(k[i]), s) \in S
      BY <3>1, <2>1 DEF HasSuit
    <3>4. RankOf(CardOf(Real(k[i]), s)) = Real(k[i])
      BY <3>2, CardIs
    <3> QED
      BY <3>2, <3>3, <3>4
  <2>4. Corresponds(1 .. 5, f, g)
    <3>1. \A i, j \in 1 .. 5 : g[i] = g[j] => i = j
      <4> TAKE i, j \in 1 .. 5
      <4> HAVE g[i] = g[j]
      <4>1. rk[i] = rk[j] /\ i \in 1 .. n /\ j \in 1 .. n
        BY <2>2, <2>3
      <4> QED
        BY <4>1, <1>1 DEF DistinctRanks
    <3> HIDE DEF g
    <3> QED
      BY <3>1 DEF Corresponds
  <2>5. IsFiniteSet(f) /\ Cardinality(f) = 5
    <3>1. IsFiniteSet(1 .. 5) /\ Cardinality(1 .. 5) = IF 1 > 5 THEN 0 ELSE 5 - 1 + 1
      BY FS_Interval, 1 \in Int, 5 \in Int, Zenon
    <3> HIDE DEF f, g
    <3> QED
      BY <3>1, <2>4, SameSize
  <2>6. f \in kSubset(5, S)
    <3>1. f \in SUBSET S
      BY <2>3
    <3> HIDE DEF f
    <3> QED
      BY <3>1, <2>5 DEF kSubset
  <2>7. HasSuit(f, c, k, s)
    <3> SUFFICES ASSUME NEW i \in 1 .. n PROVE CardOf(Real(k[i]), s) \in f
      BY DEF HasSuit
    <3>1. i \in 1 .. 5
      BY <2>2
    <3> QED
      BY <3>1
  <2> HIDE DEF f
  <2> QED
    BY <2>6, <2>7, <1>2 DEF Has
<1>3. CASE ~SameSuit(c)
  <2>1. \A i \in 1 .. n : Cardinality(OfRank(S, rk[i])) >= t[i]
    BY <1>3 DEF Has, Meets
  <2> DEFINE B == [i \in 1 .. n |-> CHOOSE b \in SUBSET OfRank(S, rk[i]) : Cardinality(b) = t[i]]
             f == UNION {B[i] : i \in 1 .. n}
  <2>2. \A i \in 1 .. n : B[i] \subseteq OfRank(S, rk[i]) /\ Cardinality(B[i]) = t[i]
    <3> TAKE i \in 1 .. n
    <3>1. IsFiniteSet(OfRank(S, rk[i])) /\ t[i] \in Nat /\ t[i] <= Cardinality(OfRank(S, rk[i]))
          /\ Cardinality(OfRank(S, rk[i])) \in Nat
      BY <2>1, <1>1, CardsFinite
    <3> HIDE DEF t, rk
    <3>2. kSubset(t[i], OfRank(S, rk[i])) # {}
      BY <3>1, SubsetsExist
    <3>3. \E b \in SUBSET OfRank(S, rk[i]) : Cardinality(b) = t[i]
      BY <3>2 DEF kSubset
    <3>4. B[i] = CHOOSE b \in SUBSET OfRank(S, rk[i]) : Cardinality(b) = t[i]
      OBVIOUS
    <3> QED
      BY <3>3, <3>4
  <2> HIDE DEF B
  <2>3. f \subseteq S
    BY <2>2 DEF OfRank
  <2>4. \A i \in 1 .. n : OfRank(f, rk[i]) = B[i]
    <3> TAKE i \in 1 .. n
    <3>1. B[i] \subseteq OfRank(f, rk[i])
      BY <2>2 DEF OfRank
    <3>2. ASSUME NEW x \in OfRank(f, rk[i]) PROVE x \in B[i]
      <4>1. x \in f /\ RankOf(x) = rk[i]
        BY DEF OfRank
      <4>2. PICK j \in 1 .. n : x \in B[j]
        BY <4>1
      <4>3. RankOf(x) = rk[j]
        BY <4>2, <2>2 DEF OfRank
      <4> HIDE DEF rk, n, f
      <4>4. j = i
        BY <4>1, <4>3, <1>1 DEF DistinctRanks
      <4> QED
        BY <4>2, <4>4
    <3> HIDE DEF f
    <3> QED
      BY <3>1, <3>2
  <2>5. \A r \in Ranks : (\A i \in 1 .. n : rk[i] # r) => OfRank(f, r) = {}
    BY <2>2 DEF OfRank
  <2>6. f \subseteq Cards
    BY <2>3
  <2> HIDE DEF f
  <2>7. \A r \in Ranks : PerRank(f)[r] = Owed(t, rk, n)[r]
    <3> TAKE r \in Ranks
    <3> HIDE DEF t, rk, n
    <3>0. n \in Nat /\ n <= n
      BY <1>1
    <3>1. PerRank(f)[r] = Cardinality(OfRank(f, r))
      BY DEF PerRank
    <3>2. CASE \E i \in 1 .. n : rk[i] = r
      <4>1. PICK i \in 1 .. n : rk[i] = r
        BY <3>2
      <4>2. Owed(t, rk, n)[rk[i]] = t[i]
        BY <3>0, <1>1, OwedIs
      <4>3. Cardinality(OfRank(f, rk[i])) = t[i]
        BY <2>2, <2>4
      <4> QED
        BY <3>1, <4>1, <4>2, <4>3
    <3>3. CASE ~ \E i \in 1 .. n : rk[i] = r
      <4>1. Owed(t, rk, n)[r] = 0
        BY <3>0, <3>3, <1>1, OwedIs
      <4>2. OfRank(f, r) = {}
        BY <3>3, <2>5
      <4>3. Cardinality({}) = 0
        BY FS_EmptySet
      <4> QED
        BY <3>1, <4>1, <4>2, <4>3
    <3> QED
      BY <3>2, <3>3
  <2>8. Cardinality(f) = 5
    <3> HIDE DEF t, rk, n
    <3>1. SumOn(PerRank(f), Ranks) = Cardinality(f)
      BY <2>6, RanksAddUp
    <3>2. SumOn(Owed(t, rk, n), Ranks) = 5 /\ \A r \in Ranks : Owed(t, rk, n)[r] \in Nat
      BY <1>1, OwedAddsUp
    <3>3. IsFiniteSet(Ranks)
      <4>1. Ranks \in SUBSET Ranks
        OBVIOUS
      <4> QED
        BY <4>1, RanksFinite
    <3>4. \A r \in Ranks : Owed(t, rk, n)[r] \in Int /\ Owed(t, rk, n)[r] = PerRank(f)[r]
      BY <3>2, <2>7
    <3>5. SumOn(Owed(t, rk, n), Ranks) = SumOn(PerRank(f), Ranks)
      BY <3>3, <3>4, SumOnSame
    <3> QED
      BY <3>1, <3>2, <3>5
  <2>9. f \in kSubset(5, S)
    BY <2>3, <2>8, <2>6, CardsFinite DEF kSubset
  <2>10. Meets(f, t, rk, n)
    <3> HIDE DEF t, rk, n
    <3> SUFFICES ASSUME NEW i \in 1 .. n PROVE Cardinality(OfRank(f, rk[i])) >= t[i]
      BY DEF Meets
    <3>1. Cardinality(OfRank(f, rk[i])) = t[i] /\ t[i] \in Nat
      BY <2>2, <2>4, <1>1
    <3> QED
      BY <3>1
  <2> QED
    BY <2>9, <2>10, <1>3 DEF Has
<1> QED
  BY <1>2, <1>3

-----------------------------------------------------------------------------

(* Numbers that pack kickers compare as the category and the kickers do.   *)
Nibble(a, i) == IF i \in DOMAIN a THEN a[i] ELSE 0
Nibbles(a) == \A i \in 1 .. 5 : Nibble(a, i) \in 0 .. 15

(* One list of kickers is not above another.                               *)
NotAbove(a, b, n) == \A i \in 1 .. n : (\A j \in 1 .. i - 1 : a[j] = b[j]) => a[i] <= b[i]

(* A digit more keeps the order of what came before it.                    *)
LEMMA OneDigitMore ==
  ASSUME NEW p \in Nat, NEW q \in Nat, NEW x \in 0 .. 15, NEW y \in 0 .. 15
  PROVE  /\ p * 16 + x \in Nat
         /\ p < q => p * 16 + x < q * 16 + y
         /\ p = q /\ x < y => p * 16 + x < q * 16 + y
<1>1. p * 16 + x \in Nat
  OBVIOUS
<1>2. ASSUME p < q
      PROVE  p * 16 + x < q * 16 + y
  <2>1. p + 1 <= q
    BY <1>2
  <2>2. p * 16 + 16 <= q * 16
    BY <2>1
  <2> QED
    BY <2>2
<1> QED
  BY <1>1, <1>2

(* The packed number is read digit by digit.                               *)
PackedFrom(c, a, p) ==
  /\ p \in [0 .. 5 -> Nat] /\ p[0] = c /\ p[5] = Packed(c, a)
  /\ \A i \in 1 .. 5 : p[i] = p[i - 1] * 16 + Nibble(a, i)

(* The category and the digits so far.                                     *)
LEMMA PackedDigits ==
  ASSUME NEW c \in 1 .. 9, NEW a, Nibbles(a)
  PROVE  \E p : PackedFrom(c, a, p)
<1> DEFINE x1 == Nibble(a, 1)
           x2 == Nibble(a, 2)
           x3 == Nibble(a, 3)
           x4 == Nibble(a, 4)
           x5 == Nibble(a, 5)
           p1 == c * 16 + x1
           p2 == p1 * 16 + x2
           p3 == p2 * 16 + x3
           p4 == p3 * 16 + x4
           p5 == p4 * 16 + x5
           p == [i \in 0 .. 5 |-> IF i = 0 THEN c ELSE IF i = 1 THEN p1 ELSE IF i = 2 THEN p2
                                  ELSE IF i = 3 THEN p3 ELSE IF i = 4 THEN p4 ELSE p5]
<1>1. x1 \in 0 .. 15 /\ x2 \in 0 .. 15 /\ x3 \in 0 .. 15 /\ x4 \in 0 .. 15 /\ x5 \in 0 .. 15
  BY DEF Nibbles
<1>2. Packed(c, a) = p5
  BY DEF Packed, Nibble
<1>3. c \in Nat
  OBVIOUS
<1> HIDE DEF x1, x2, x3, x4, x5
<1>4. p1 \in Nat
  BY <1>1, <1>3, OneDigitMore
<1>5. p2 \in Nat
  <2> HIDE DEF p1
  <2> QED
    BY <1>1, <1>4, OneDigitMore
<1>6. p3 \in Nat
  <2> HIDE DEF p2
  <2> QED
    BY <1>1, <1>5, OneDigitMore
<1>7. p4 \in Nat
  <2> HIDE DEF p3
  <2> QED
    BY <1>1, <1>6, OneDigitMore
<1>8. p5 \in Nat
  <2> HIDE DEF p4
  <2> QED
    BY <1>1, <1>7, OneDigitMore
<1>9. p1 = c * 16 + x1 /\ p2 = p1 * 16 + x2 /\ p3 = p2 * 16 + x3 /\ p4 = p3 * 16 + x4 /\ p5 = p4 * 16 + x5
  OBVIOUS
<1> HIDE DEF p1, p2, p3, p4, p5
<1>10. p \in [0 .. 5 -> Nat]
  BY <1>3, <1>4, <1>5, <1>6, <1>7, <1>8
<1>11. p[0] = c /\ p[1] = p1 /\ p[2] = p2 /\ p[3] = p3 /\ p[4] = p4 /\ p[5] = p5
  OBVIOUS
<1> HIDE DEF p
<1>12. ASSUME NEW i \in 1 .. 5
       PROVE  p[i] = p[i - 1] * 16 + Nibble(a, i)
  <2>1. i = 1 \/ i = 2 \/ i = 3 \/ i = 4 \/ i = 5
    OBVIOUS
  <2>2. CASE i = 1
    BY <2>2, <1>9, <1>11 DEF x1
  <2>3. CASE i = 2
    BY <2>3, <1>9, <1>11 DEF x2
  <2>4. CASE i = 3
    BY <2>4, <1>9, <1>11 DEF x3
  <2>5. CASE i = 4
    BY <2>5, <1>9, <1>11 DEF x4
  <2>6. CASE i = 5
    BY <2>6, <1>9, <1>11 DEF x5
  <2> QED
    BY <2>1, <2>2, <2>3, <2>4, <2>5, <2>6
<1>13. PackedFrom(c, a, p)
  BY <1>2, <1>10, <1>11, <1>12 DEF PackedFrom
<1> QED
  BY <1>13

(* What is less after some digits is less after all of them.               *)
LEMMA LessStays ==
  ASSUME NEW c, NEW a, Nibbles(a), NEW p, PackedFrom(c, a, p),
         NEW d, NEW b, Nibbles(b), NEW q, PackedFrom(d, b, q),
         NEW m \in 0 .. 5, p[m] < q[m]
  PROVE  Packed(c, a) < Packed(d, b)
<1>1. ASSUME NEW i \in 1 .. 5, p[i - 1] < q[i - 1]
      PROVE  p[i] < q[i]
  <2>1. p[i - 1] \in Nat /\ q[i - 1] \in Nat
    BY DEF PackedFrom
  <2>2. Nibble(a, i) \in 0 .. 15 /\ Nibble(b, i) \in 0 .. 15
    BY DEF Nibbles
  <2>3. p[i - 1] * 16 + Nibble(a, i) < q[i - 1] * 16 + Nibble(b, i)
    BY <1>1, <2>1, <2>2, OneDigitMore
  <2> QED
    BY <2>3 DEF PackedFrom
<1>2. p[0] < q[0] => p[1] < q[1]
  BY <1>1
<1>3. p[1] < q[1] => p[2] < q[2]
  BY <1>1
<1>4. p[2] < q[2] => p[3] < q[3]
  BY <1>1
<1>5. p[3] < q[3] => p[4] < q[4]
  BY <1>1
<1>6. p[4] < q[4] => p[5] < q[5]
  BY <1>1
<1>7. m = 0 \/ m = 1 \/ m = 2 \/ m = 3 \/ m = 4 \/ m = 5
  OBVIOUS
<1>8. p[5] < q[5]
  BY <1>2, <1>3, <1>4, <1>5, <1>6, <1>7
<1> QED
  BY <1>8 DEF PackedFrom

(* The category decides first.                                             *)
LEMMA PackedCategory ==
  ASSUME NEW c \in 1 .. 9, NEW d \in 1 .. 9, c < d, NEW a, Nibbles(a), NEW b, Nibbles(b)
  PROVE  Packed(c, a) < Packed(d, b)
<1>1. PICK p : PackedFrom(c, a, p)
  BY PackedDigits
<1>2. PICK q : PackedFrom(d, b, q)
  BY PackedDigits
<1>3. p[0] < q[0]
  BY <1>1, <1>2 DEF PackedFrom
<1>4. 0 \in 0 .. 5
  OBVIOUS
<1> QED
  BY <1>1, <1>2, <1>3, <1>4, LessStays

(* Then the first nibble that differs.                                     *)
LEMMA PackedFirst ==
  ASSUME NEW c \in 1 .. 9, NEW a, Nibbles(a), NEW b, Nibbles(b), NEW m \in 1 .. 5,
         \A i \in 1 .. m - 1 : Nibble(a, i) = Nibble(b, i), Nibble(a, m) < Nibble(b, m)
  PROVE  Packed(c, a) < Packed(c, b)
<1>1. PICK p : PackedFrom(c, a, p)
  BY PackedDigits
<1>2. PICK q : PackedFrom(c, b, q)
  BY PackedDigits
<1>3. p[0] = q[0]
  BY <1>1, <1>2 DEF PackedFrom
<1>4. ASSUME NEW i \in 1 .. 5, i < m, p[i - 1] = q[i - 1]
      PROVE  p[i] = q[i]
  <2>1. Nibble(a, i) = Nibble(b, i)
    BY <1>4
  <2> QED
    BY <2>1, <1>1, <1>2, <1>4 DEF PackedFrom
<1>5. /\ m > 1 => p[1] = q[1]
      /\ m > 2 => p[2] = q[2]
      /\ m > 3 => p[3] = q[3]
      /\ m > 4 => p[4] = q[4]
  <2>1. 1 < m => p[1] = q[1]
    BY <1>3, <1>4
  <2>2. 2 < m => p[2] = q[2]
    <3>1. 2 < m => 1 < m
      OBVIOUS
    <3> QED
      BY <3>1, <2>1, <1>4
  <2>3. 3 < m => p[3] = q[3]
    <3>1. 3 < m => 2 < m
      OBVIOUS
    <3> QED
      BY <3>1, <2>2, <1>4
  <2>4. 4 < m => p[4] = q[4]
    <3>1. 4 < m => 3 < m
      OBVIOUS
    <3> QED
      BY <3>1, <2>3, <1>4
  <2> QED
    BY <2>1, <2>2, <2>3, <2>4
<1>6. p[m - 1] = q[m - 1]
  <2>1. m = 1 \/ m = 2 \/ m = 3 \/ m = 4 \/ m = 5
    OBVIOUS
  <2> QED
    BY <2>1, <1>3, <1>5
<1>7. p[m] < q[m]
  <2>1. p[m - 1] \in Nat /\ q[m - 1] \in Nat
    BY <1>1, <1>2 DEF PackedFrom
  <2>2. Nibble(a, m) \in 0 .. 15 /\ Nibble(b, m) \in 0 .. 15
    BY DEF Nibbles
  <2>3. p[m - 1] * 16 + Nibble(a, m) < q[m - 1] * 16 + Nibble(b, m)
    BY <1>6, <2>1, <2>2, OneDigitMore
  <2> QED
    BY <2>3, <1>1, <1>2 DEF PackedFrom
<1>8. m \in 0 .. 5
  OBVIOUS
<1> QED
  BY <1>1, <1>2, <1>7, <1>8, LessStays

(* The kickers of a hand are nibbles.                                      *)
LEMMA HandNibbles ==
  ASSUME NEW c, NEW k, MadeHand(c, k)
  PROVE  /\ c \in 1 .. 9 /\ \A i \in 1 .. Size(c) : k[i] \in 1 .. 14
         /\ InRow(c) => Nibbles(<<k[1]>>) /\ Nibble(<<k[1]>>, 1) = k[1]
                          /\ \A i \in 2 .. 5 : Nibble(<<k[1]>>, i) = 0
         /\ ~InRow(c) => Nibbles(k) /\ \A i \in 1 .. 5 : Nibble(k, i) = IF i <= Size(c) THEN k[i] ELSE 0
<1>1. c \in 1 .. 9 /\ Size(c) \in 1 .. 5 /\ k \in [1 .. Size(c) -> 1 .. 14]
  BY FiveCards DEF MadeHand
<1>2. \A i \in 1 .. Size(c) : k[i] \in 1 .. 14
  BY <1>1
<1>3. k[1] \in 1 .. 14
  BY <1>1, <1>2
<1>4. Nibble(<<k[1]>>, 1) = k[1] /\ \A i \in 2 .. 5 : Nibble(<<k[1]>>, i) = 0
  BY DEF Nibble
<1>5. Nibbles(<<k[1]>>)
  <2> SUFFICES ASSUME NEW i \in 1 .. 5 PROVE Nibble(<<k[1]>>, i) \in 0 .. 15
    BY DEF Nibbles
  <2>1. i = 1 \/ i \in 2 .. 5
    OBVIOUS
  <2> QED
    BY <2>1, <1>3, <1>4
<1>6. \A i \in 1 .. 5 : Nibble(k, i) = IF i <= Size(c) THEN k[i] ELSE 0
  BY <1>1 DEF Nibble
<1>7. Nibbles(k)
  BY <1>1, <1>2, <1>6 DEF Nibbles
<1> QED
  BY <1>1, <1>2, <1>4, <1>5, <1>6, <1>7

(* A hand of a higher category packs to more.                              *)
LEMMA PointsCategory ==
  ASSUME NEW c, NEW k, MadeHand(c, k), NEW d, NEW l, MadeHand(d, l), c < d
  PROVE  Points(c, k) < Points(d, l)
<1> DEFINE a == IF InRow(c) THEN <<k[1]>> ELSE k
           b == IF InRow(d) THEN <<l[1]>> ELSE l
<1>1. c \in 1 .. 9 /\ d \in 1 .. 9 /\ Nibbles(a) /\ Nibbles(b)
  BY HandNibbles
<1> HIDE DEF a, b
<1>2. Packed(c, a) < Packed(d, b)
  BY <1>1, PackedCategory
<1> QED
  BY <1>2 DEF Points, a, b

(* Of one category the first rank that differs decides.                    *)
LEMMA PointsFirst ==
  ASSUME NEW c, NEW k, MadeHand(c, k), NEW l, MadeHand(c, l), NEW m \in 1 .. Size(c),
         \A i \in 1 .. m - 1 : k[i] = l[i], k[m] < l[m]
  PROVE  Points(c, k) < Points(c, l)
<1>1. c \in 1 .. 9 /\ Size(c) \in 1 .. 5
  BY FiveCards DEF MadeHand
<1>2. CASE InRow(c)
  <2>1. m = 1
    <3> SUFFICES ASSUME m # 1 PROVE FALSE
      OBVIOUS
    <3>1. 1 \in 1 .. m - 1
      BY <1>1
    <3>2. k[1] = l[1]
      BY <3>1
    <3>3. k[m] = k[1] - m + 1 /\ l[m] = l[1] - m + 1
      BY <1>2 DEF MadeHand
    <3>4. k[m] \in 1 .. 14 /\ l[m] \in 1 .. 14
      BY HandNibbles
    <3> QED
      BY <3>2, <3>3, <3>4
  <2> DEFINE a == <<k[1]>>
             b == <<l[1]>>
  <2>2. Nibbles(a) /\ Nibbles(b) /\ Nibble(a, 1) < Nibble(b, 1)
    BY <1>2, <2>1, HandNibbles
  <2>3. Points(c, k) = Packed(c, a) /\ Points(c, l) = Packed(c, b)
    BY <1>2 DEF Points
  <2> HIDE DEF a, b
  <2>4. \A i \in 1 .. 1 - 1 : Nibble(a, i) = Nibble(b, i)
    OBVIOUS
  <2>5. Packed(c, a) < Packed(c, b)
    BY <1>1, <2>2, <2>4, PackedFirst
  <2> QED
    BY <2>3, <2>5
<1>3. CASE ~InRow(c)
  <2>1. Nibbles(k) /\ Nibbles(l) /\ \A i \in 1 .. Size(c) : Nibble(k, i) = k[i] /\ Nibble(l, i) = l[i]
    <3>1. \A i \in 1 .. Size(c) : i \in 1 .. 5 /\ i <= Size(c)
      BY <1>1
    <3> QED
      BY <1>3, <3>1, HandNibbles
  <2>2. m \in 1 .. 5 /\ \A i \in 1 .. m - 1 : i \in 1 .. Size(c)
    BY <1>1
  <2>3. \A i \in 1 .. m - 1 : Nibble(k, i) = Nibble(l, i)
    BY <2>1, <2>2
  <2>4. Nibble(k, m) < Nibble(l, m)
    BY <2>1
  <2>5. Packed(c, k) < Packed(c, l)
    BY <1>1, <2>1, <2>2, <2>3, <2>4, PackedFirst
  <2> QED
    BY <2>5, <1>3 DEF Points
<1> QED
  BY <1>2, <1>3

(* The first place where two lists differ.                                 *)
DifferFirst(a, b, m) == a[m] # b[m] /\ \A i \in 1 .. m - 1 : a[i] = b[i]

(* Lists that differ differ somewhere first.                               *)
LEMMA FirstDifference ==
  ASSUME NEW n \in Nat, NEW D, NEW a \in [1 .. n -> D], NEW b \in [1 .. n -> D], a # b
  PROVE  \E m \in 1 .. n : DifferFirst(a, b, m)
<1> DEFINE W == {i \in 1 .. n : a[i] # b[i]}
<1>1. W # {}
  OBVIOUS
<1>2. W \subseteq Nat
  OBVIOUS
<1>3. PICK m \in W : \A i \in W : m <= i
  <2> HIDE DEF W
  <2> QED
    BY <1>1, <1>2, LeastNumber
<1>4. \A i \in 1 .. m - 1 : a[i] = b[i]
  <2> TAKE i \in 1 .. m - 1
  <2>1. i \in 1 .. n /\ ~ (m <= i)
    BY <1>2
  <2>2. i \notin W
    BY <1>3, <2>1
  <2> QED
    BY <2>1, <2>2
<1> QED
  BY <1>4 DEF DifferFirst

(* Ranks that are not above others pack to no more.                        *)
LEMMA PointsNotAbove ==
  ASSUME NEW c, NEW k, MadeHand(c, k), NEW l, MadeHand(c, l), NotAbove(k, l, Size(c))
  PROVE  /\ Points(c, k) \in Int /\ Points(c, l) \in Int
         /\ Points(c, k) <= Points(c, l)
<1>1. c \in 1 .. 9 /\ Size(c) \in Nat /\ k \in [1 .. Size(c) -> 1 .. 14] /\ l \in [1 .. Size(c) -> 1 .. 14]
  BY FiveCards DEF MadeHand
<1>2. Points(c, k) \in Int /\ Points(c, l) \in Int
  <2>1. ASSUME NEW a, Nibbles(a)
        PROVE  Packed(c, a) \in Int
    <3>1. PICK p : PackedFrom(c, a, p)
      BY <1>1, <2>1, PackedDigits
    <3>2. p[5] \in Nat /\ p[5] = Packed(c, a)
      BY <3>1 DEF PackedFrom
    <3> QED
      BY <3>2
  <2> QED
    BY <2>1, HandNibbles DEF Points
<1>3. CASE k = l
  BY <1>2, <1>3
<1>4. CASE k # l
  <2>1. PICK m \in 1 .. Size(c) : k[m] # l[m] /\ \A i \in 1 .. m - 1 : k[i] = l[i]
    <3> DEFINE n == Size(c)
               D == 1 .. 14
    <3>1. n \in Nat /\ k \in [1 .. n -> D] /\ l \in [1 .. n -> D]
      BY <1>1
    <3> HIDE DEF n, D
    <3>2. \E m \in 1 .. n : DifferFirst(k, l, m)
      BY <3>1, <1>4, FirstDifference
    <3> QED
      BY <3>2 DEF n, DifferFirst
  <2>2. k[m] <= l[m]
    BY <2>1 DEF NotAbove
  <2>3. k[m] < l[m]
    <3>1. k[m] \in 1 .. 14 /\ l[m] \in 1 .. 14
      BY <1>1
    <3> QED
      BY <3>1, <2>1, <2>2
  <2>4. Points(c, k) < Points(c, l)
    BY <2>1, <2>3, PointsFirst
  <2> QED
    BY <1>2, <2>4
<1> QED
  BY <1>2, <1>3, <1>4

-----------------------------------------------------------------------------

(* The hands that five to seven cards cannot make.                         *)
Dealt(S) == S \subseteq Cards /\ Cardinality(S) \in 5 .. 7

Made(S, c, k) == MadeHand(c, k) /\ Has(S, c, k)

(* The ranks of a hand that is neither a straight nor of one suit are      *)
(* held.                                                                   *)
LEMMA HeldRanks ==
  ASSUME NEW S, S \subseteq Cards, NEW c, NEW k, Made(S, c, k), ~SameSuit(c), ~InRow(c)
  PROVE  \A i \in 1 .. Size(c) :
           /\ k[i] \in Ranks /\ k[i] \in RanksOf(S)
           /\ Times(c, i) \in 1 .. 4 /\ Cardinality(OfRank(S, k[i])) >= Times(c, i)
<1> TAKE i \in 1 .. Size(c)
<1>1. MadeHand(c, k) /\ c \in 1 .. 9
  BY DEF Made, MadeHand
<1>2. k[i] \in 1 .. 14 /\ k[i] >= 2
  BY <1>1, HandNibbles DEF MadeHand
<1>3. k[i] \in Ranks /\ RealOf(c, k)[i] = k[i]
  BY <1>2 DEF RealOf, Real, Ranks
<1>4. TimesOf(c)[i] = Times(c, i) /\ Times(c, i) \in 1 .. 4
  BY <1>1, FiveCards
<1>5. Cardinality(OfRank(S, k[i])) >= Times(c, i)
  BY <1>3, <1>4 DEF Made, Has, Meets
<1>6. Cardinality(OfRank(S, k[i])) \in Nat
  BY CardsFinite
<1>7. Cardinality(OfRank(S, k[i])) >= 1
  BY <1>4, <1>5, <1>6
<1>8. k[i] \in RanksOf(S)
  <2>1. HeldTimes(S, 1) = RanksOf(S) /\ HeldTimes(S, 1) = {r \in Ranks : Cardinality(OfRank(S, r)) >= 1}
    BY HeldIs
  <2> QED
    BY <2>1, <1>3, <1>7
<1> QED
  BY <1>3, <1>4, <1>5, <1>8

(* Every rank of a hand is held.                                           *)
LEMMA RanksHeld ==
  ASSUME NEW S, S \subseteq Cards, NEW c, NEW k, Made(S, c, k)
  PROVE  \A i \in 1 .. Size(c) : Real(k[i]) \in RanksOf(S)
<1> TAKE i \in 1 .. Size(c)
<1>1. MadeHand(c, k) /\ Has(S, c, k) /\ c \in 1 .. 9
  BY DEF Made, MadeHand
<1>2. RealOf(c, k)[i] = Real(k[i]) /\ Real(k[i]) \in Ranks
  BY <1>1, HandRanks
<1>3. TimesOf(c)[i] \in 1 .. 4
  BY <1>1, FiveCards
<1>4. Cardinality(OfRank(S, Real(k[i]))) >= TimesOf(c)[i]
  BY <1>1, <1>2, HasMeets DEF Meets
<1>5. Cardinality(OfRank(S, Real(k[i]))) \in Nat
  BY CardsFinite
<1>6. Cardinality(OfRank(S, Real(k[i]))) >= 1
  BY <1>3, <1>4, <1>5
<1>7. HeldTimes(S, 1) = RanksOf(S) /\ HeldTimes(S, 1) = {r \in Ranks : Cardinality(OfRank(S, r)) >= 1}
  BY HeldIs
<1> QED
  BY <1>2, <1>6, <1>7

(* Four of a rank beside four other ranks are eight cards, and so are      *)
(* three of one and two of another beside three other ranks.               *)
LEMMA NoRoom ==
  ASSUME NEW S, Dealt(S), Cardinality(RanksOf(S)) >= 5, NEW c, NEW k, Made(S, c, k)
  PROVE  c # FullHouse /\ c # FourOfAKind
<1>0. S \subseteq Cards /\ Cardinality(S) <= 7 /\ Cardinality(S) \in Nat
  BY CardsFinite DEF Dealt
<1>1. IsFiniteSet(RanksOf(S)) /\ RanksOf(S) \subseteq Ranks /\ Cardinality(RanksOf(S)) \in Nat
  <2>1. RanksOf(S) \in SUBSET Ranks
    BY <1>0, HeldIs
  <2> QED
    BY <2>1, RanksFinite, FS_CardinalityType
<1>2. \A r \in RanksOf(S) : Cardinality(OfRank(S, r)) >= 1
  <2>1. HeldTimes(S, 1) = RanksOf(S) /\ HeldTimes(S, 1) = {r \in Ranks : Cardinality(OfRank(S, r)) >= 1}
    BY <1>0, HeldIs
  <2> QED
    BY <2>1
<1>3. ASSUME NEW n \in 1 .. 5, NEW rk, DistinctRanks(rk, n), NEW t \in [1 .. n -> Nat], Meets(S, t, rk, n),
             Asked(t, n) >= 8
      PROVE  FALSE
  <2>1. Asked(t, n) <= Cardinality(S)
    BY <1>0, <1>3, AskedIsThere
  <2>2. Asked(t, n) \in Int
    <3>1. \A i \in 1 .. n : t[i] \in Int
      OBVIOUS
    <3>2. t[1] \in Int /\ (n >= 2 => t[2] \in Int) /\ (n >= 3 => t[3] \in Int) /\ (n >= 4 => t[4] \in Int)
          /\ (n >= 5 => t[5] \in Int)
      BY <3>1
    <3> QED
      BY <3>2 DEF Asked
  <2> QED
    BY <1>0, <1>3, <2>1, <2>2
<1>4. ASSUME c = FourOfAKind
      PROVE  FALSE
  <2> DEFINE q == k[1]
             Q == RanksOf(S) \ {q}
             T == TakeTop(Q, 4)
             rk == [i \in 1 .. 5 |-> IF i = 1 THEN q ELSE T[i - 1]]
             t == [i \in 1 .. 5 |-> IF i = 1 THEN 4 ELSE 1]
  <2>1. q \in Ranks /\ q \in RanksOf(S) /\ Cardinality(OfRank(S, q)) >= 4
    <3>1. Size(c) = 2 /\ Times(c, 1) = 4
      BY <1>4, Kinds DEF Size, Times
    <3>2. ~SameSuit(c) /\ ~InRow(c)
      BY <1>4, Kinds DEF SameSuit, InRow
    <3>3. 1 \in 1 .. Size(c)
      BY <3>1
    <3> QED
      BY <1>0, <3>1, <3>2, <3>3, HeldRanks
  <2>2. Q \subseteq Ranks /\ Cardinality(Q) >= 4
    <3>1. Cardinality(RanksOf(S) \ {q}) = Cardinality(RanksOf(S)) - 1
      BY <1>1, <2>1, FS_RemoveElement
    <3> QED
      BY <1>1, <3>1
  <2>3. Descending(Q, 4, T)
    <3> HIDE DEF Q
    <3>1. 4 \in Nat /\ 4 <= Cardinality(Q)
      BY <2>2
    <3> QED
      BY <2>2, <3>1, TopsDominate
  <2>4. \A i \in 1 .. 4 : T[i] \in Ranks /\ T[i] # q /\ T[i] \in RanksOf(S)
    <3>1. \A i \in 1 .. 4 : T[i] \in Q
      <4> HIDE DEF Q, T
      <4> QED
        BY <2>3 DEF Descending
    <3> HIDE DEF T
    <3> QED
      BY <3>1, <1>1
  <2>5. DistinctRanks(rk, 5)
    <3>1. \A i \in 1 .. 5 : i # 1 => i - 1 \in 1 .. 4
      OBVIOUS
    <3>2. \A i \in 1 .. 5 : rk[i] \in Ranks /\ (i = 1 => rk[i] = q) /\ (i # 1 => rk[i] = T[i - 1] /\ rk[i] # q)
      <4> HIDE DEF T, q
      <4> QED
        BY <3>1, <2>1, <2>4
    <3>3. \A i, j \in 1 .. 5 : i < j => rk[i] # rk[j]
      <4> TAKE i, j \in 1 .. 5
      <4> HAVE i < j
      <4>1. j # 1
        OBVIOUS
      <4>2. CASE i = 1
        <5> HIDE DEF rk, q
        <5> QED
          BY <3>2, <4>1, <4>2
      <4>3. CASE i # 1
        <5>1. i - 1 \in 1 .. 4 /\ j - 1 \in 1 .. 4 /\ i - 1 < j - 1
          BY <3>1, <4>1, <4>3
        <5>2. T[i - 1] > T[j - 1]
          <6> HIDE DEF T, Q
          <6> QED
            BY <2>3, <5>1 DEF Descending
        <5>3. T[i - 1] \in Int /\ T[j - 1] \in Int
          <6> HIDE DEF T
          <6> QED
            BY <2>4, <5>1 DEF Ranks
        <5> HIDE DEF rk, T, q
        <5> QED
          BY <3>2, <4>1, <4>3, <5>2, <5>3
      <4> QED
        BY <4>2, <4>3
    <3>4. \A i, j \in 1 .. 5 : rk[i] = rk[j] => i = j
      <4> HIDE DEF rk
      <4> TAKE i, j \in 1 .. 5
      <4>1. i < j \/ j < i \/ i = j
        OBVIOUS
      <4> QED
        BY <4>1, <3>3
    <3>5. rk \in [1 .. 5 -> Ranks]
      <4>1. rk = [i \in 1 .. 5 |-> rk[i]]
        OBVIOUS
      <4> HIDE DEF rk
      <4> QED
        BY <4>1, <3>2
    <3> HIDE DEF rk
    <3> QED
      BY <3>4, <3>5 DEF DistinctRanks
  <2>6. t \in [1 .. 5 -> Nat] /\ Asked(t, 5) = 8
    <3>1. t[1] = 4 /\ t[2] = 1 /\ t[3] = 1 /\ t[4] = 1 /\ t[5] = 1
      OBVIOUS
    <3>2. t \in [1 .. 5 -> Nat]
      OBVIOUS
    <3> HIDE DEF t
    <3> QED
      BY <3>1, <3>2 DEF Asked
  <2>7. Meets(S, t, rk, 5)
    <3> SUFFICES ASSUME NEW i \in 1 .. 5
                 PROVE  Cardinality(OfRank(S, rk[i])) >= t[i]
      BY DEF Meets
    <3>1. CASE i = 1
      <4>1. rk[i] = q /\ t[i] = 4
        BY <3>1
      <4> HIDE DEF rk, t, q
      <4> QED
        BY <2>1, <4>1
    <3>2. CASE i # 1
      <4>1. rk[i] = T[i - 1] /\ t[i] = 1 /\ i - 1 \in 1 .. 4
        BY <3>2
      <4> HIDE DEF rk, t, T
      <4> QED
        BY <2>4, <1>2, <4>1
    <3> QED
      BY <3>1, <3>2
  <2> HIDE DEF rk, t
  <2>8. 5 \in 1 .. 5 /\ Asked(t, 5) >= 8
    BY <2>6
  <2> QED
    BY <1>3, <2>5, <2>6, <2>7, <2>8
<1>5. ASSUME c = FullHouse
      PROVE  FALSE
  <2> DEFINE q == k[1]
             p == k[2]
             Q == RanksOf(S) \ {q, p}
             T == TakeTop(Q, 3)
             rk == [i \in 1 .. 5 |-> IF i = 1 THEN q ELSE IF i = 2 THEN p ELSE T[i - 2]]
             t == [i \in 1 .. 5 |-> IF i = 1 THEN 3 ELSE IF i = 2 THEN 2 ELSE 1]
  <2>1. /\ q \in Ranks /\ q \in RanksOf(S) /\ Cardinality(OfRank(S, q)) >= 3
        /\ p \in Ranks /\ p \in RanksOf(S) /\ Cardinality(OfRank(S, p)) >= 2
        /\ q # p
    <3>1. Size(c) = 2 /\ Times(c, 1) = 3 /\ Times(c, 2) = 2
      BY <1>5, Kinds DEF Size, Times
    <3>2. ~SameSuit(c) /\ ~InRow(c)
      BY <1>5, Kinds DEF SameSuit, InRow
    <3>3. 1 \in 1 .. Size(c) /\ 2 \in 1 .. Size(c) /\ 1 < 2
      BY <3>1
    <3>4. k[1] # k[2]
      BY <3>3 DEF Made, MadeHand, Falls
    <3> QED
      BY <1>0, <3>1, <3>2, <3>3, <3>4, HeldRanks
  <2>2. Q \subseteq Ranks /\ Cardinality(Q) >= 3
    <3> DEFINE U == RanksOf(S) \ {q}
    <3>1. IsFiniteSet(U) /\ Cardinality(U) = Cardinality(RanksOf(S)) - 1
      BY <1>1, <2>1, FS_RemoveElement
    <3>2. p \in U
      BY <2>1
    <3>3. Q = U \ {p}
      OBVIOUS
    <3>4. Q \subseteq Ranks
      BY <1>1
    <3> HIDE DEF U, p, Q
    <3>5. Cardinality(U \ {p}) = Cardinality(U) - 1
      BY <3>1, <3>2, FS_RemoveElement
    <3>6. Cardinality(Q) = Cardinality(U \ {p})
      BY <3>3
    <3> QED
      BY <1>1, <3>1, <3>4, <3>5, <3>6
  <2>3. Descending(Q, 3, T)
    <3> HIDE DEF Q
    <3>1. 3 \in Nat /\ 3 <= Cardinality(Q)
      BY <2>2
    <3> QED
      BY <2>2, <3>1, TopsDominate
  <2>4. \A i \in 1 .. 3 : T[i] \in Ranks /\ T[i] # q /\ T[i] # p /\ T[i] \in RanksOf(S)
    <3>1. \A i \in 1 .. 3 : T[i] \in Q
      <4> HIDE DEF Q, T
      <4> QED
        BY <2>3 DEF Descending
    <3> HIDE DEF T
    <3> QED
      BY <3>1, <1>1
  <2>5. DistinctRanks(rk, 5)
    <3>1. \A i \in 3 .. 5 : i - 2 \in 1 .. 3
      OBVIOUS
    <3>2. /\ rk[1] = q /\ rk[2] = p
          /\ \A i \in 3 .. 5 : rk[i] = T[i - 2] /\ rk[i] # q /\ rk[i] # p /\ rk[i] \in Ranks
      <4>1. rk[1] = q /\ rk[2] = p
        OBVIOUS
      <4>2. \A i \in 3 .. 5 : rk[i] = T[i - 2]
        <5> TAKE i \in 3 .. 5
        <5>1. i \in 1 .. 5 /\ i # 1 /\ i # 2
          OBVIOUS
        <5> QED
          BY <5>1
      <4> HIDE DEF T, q, p, rk
      <4> QED
        BY <3>1, <2>1, <2>4, <4>1, <4>2
    <3>3. \A i, j \in 1 .. 5 : i < j => rk[i] # rk[j]
      <4> TAKE i, j \in 1 .. 5
      <4> HAVE i < j
      <4>1. CASE i = 1 \/ i = 2
        <5>1. (i = 1 /\ j = 2) \/ j \in 3 .. 5
          BY <4>1
        <5> HIDE DEF rk, q, p, T
        <5> QED
          BY <2>1, <3>2, <4>1, <5>1
      <4>2. CASE i # 1 /\ i # 2
        <5>1. i \in 3 .. 5 /\ j \in 3 .. 5 /\ i - 2 \in 1 .. 3 /\ j - 2 \in 1 .. 3 /\ i - 2 < j - 2
          BY <4>2
        <5>2. T[i - 2] > T[j - 2]
          <6> HIDE DEF T, Q
          <6> QED
            BY <2>3, <5>1 DEF Descending
        <5>3. T[i - 2] \in Int /\ T[j - 2] \in Int
          <6> HIDE DEF T
          <6> QED
            BY <2>4, <5>1 DEF Ranks
        <5> HIDE DEF rk, T, q, p
        <5> QED
          BY <3>2, <5>1, <5>2, <5>3
      <4> QED
        BY <4>1, <4>2
    <3>4. \A i, j \in 1 .. 5 : rk[i] = rk[j] => i = j
      <4> HIDE DEF rk
      <4> TAKE i, j \in 1 .. 5
      <4>1. i < j \/ j < i \/ i = j
        OBVIOUS
      <4> QED
        BY <4>1, <3>3
    <3>5. rk \in [1 .. 5 -> Ranks]
      <4>1. rk = [i \in 1 .. 5 |-> rk[i]]
        OBVIOUS
      <4>2. \A i \in 1 .. 5 : i = 1 \/ i = 2 \/ i \in 3 .. 5
        OBVIOUS
      <4> HIDE DEF rk, q, p
      <4>3. \A i \in 1 .. 5 : rk[i] \in Ranks
        BY <3>2, <2>1, <4>2
      <4> QED
        BY <4>1, <4>3
    <3> HIDE DEF rk
    <3> QED
      BY <3>4, <3>5 DEF DistinctRanks
  <2>6. t \in [1 .. 5 -> Nat] /\ Asked(t, 5) = 8
    <3>1. t[1] = 3 /\ t[2] = 2 /\ t[3] = 1 /\ t[4] = 1 /\ t[5] = 1
      OBVIOUS
    <3>2. t \in [1 .. 5 -> Nat]
      OBVIOUS
    <3> HIDE DEF t
    <3> QED
      BY <3>1, <3>2 DEF Asked
  <2>7. Meets(S, t, rk, 5)
    <3> SUFFICES ASSUME NEW i \in 1 .. 5
                 PROVE  Cardinality(OfRank(S, rk[i])) >= t[i]
      BY DEF Meets
    <3>1. CASE i = 1
      <4>1. rk[i] = q /\ t[i] = 3
        BY <3>1
      <4> HIDE DEF rk, t, q
      <4> QED
        BY <2>1, <4>1
    <3>2. CASE i = 2
      <4>1. rk[i] = p /\ t[i] = 2
        BY <3>2
      <4> HIDE DEF rk, t, p
      <4> QED
        BY <2>1, <4>1
    <3>3. CASE i # 1 /\ i # 2
      <4>1. rk[i] = T[i - 2] /\ t[i] = 1 /\ i - 2 \in 1 .. 3
        BY <3>3
      <4> HIDE DEF rk, t, T
      <4> QED
        BY <2>4, <1>2, <4>1
    <3> QED
      BY <3>1, <3>2, <3>3
  <2> HIDE DEF rk, t
  <2>8. 5 \in 1 .. 5 /\ Asked(t, 5) >= 8
    BY <2>6
  <2> QED
    BY <1>3, <2>5, <2>6, <2>7, <2>8
<1> QED
  BY <1>4, <1>5

(* There are not two quads, and not two suits of five.                     *)
LEMMA NotTwo ==
  ASSUME NEW S, Dealt(S)
  PROVE  /\ \A q, p \in HeldTimes(S, 4) : q = p
         /\ \A s, u \in Suits : Cardinality(Lane(S, s)) >= 5 /\ Cardinality(Lane(S, u)) >= 5 => s = u
<1>0. S \subseteq Cards /\ Cardinality(S) <= 7 /\ Cardinality(S) \in Nat /\ IsFiniteSet(S)
  BY CardsFinite DEF Dealt
<1>1. ASSUME NEW A, NEW B, A \subseteq S, B \subseteq S, A \cap B = {}, Cardinality(A) >= 4, Cardinality(B) >= 4
      PROVE  FALSE
  <2>1. A \in SUBSET S /\ B \in SUBSET S /\ A \union B \in SUBSET S
    BY <1>1
  <2>2. IsFiniteSet(A) /\ IsFiniteSet(B) /\ Cardinality(A) \in Nat /\ Cardinality(B) \in Nat
        /\ Cardinality(A \union B) <= Cardinality(S)
    BY <2>1, <1>0, FS_Subset, FS_CardinalityType
  <2>3. Cardinality(A \union B) = Cardinality(A) + Cardinality(B) - Cardinality(A \cap B)
    BY <2>2, FS_Union
  <2>4. Cardinality(A \cap B) = 0
    BY <1>1, FS_EmptySet
  <2> QED
    BY <1>0, <1>1, <2>2, <2>3, <2>4
<1>2. ASSUME NEW q \in HeldTimes(S, 4), NEW p \in HeldTimes(S, 4), q # p
      PROVE  FALSE
  <2>1. Cardinality(OfRank(S, q)) >= 4 /\ Cardinality(OfRank(S, p)) >= 4
    <3>1. HeldTimes(S, 4) = {r \in Ranks : Cardinality(OfRank(S, r)) >= 4}
      BY <1>0, HeldIs
    <3> QED
      BY <3>1
  <2>2. OfRank(S, q) \subseteq S /\ OfRank(S, p) \subseteq S /\ OfRank(S, q) \cap OfRank(S, p) = {}
    BY <1>2 DEF OfRank
  <2> QED
    BY <1>1, <2>1, <2>2
<1>3. ASSUME NEW s \in Suits, NEW u \in Suits, Cardinality(Lane(S, s)) >= 5, Cardinality(Lane(S, u)) >= 5, s # u
      PROVE  FALSE
  <2>1. Cardinality(OfSuit(S, s)) >= 5 /\ Cardinality(OfSuit(S, u)) >= 5
    BY <1>0, <1>3, LaneIs
  <2>2. OfSuit(S, s) \subseteq S /\ OfSuit(S, u) \subseteq S /\ OfSuit(S, s) \cap OfSuit(S, u) = {}
    BY <1>3 DEF OfSuit
  <2>3. Cardinality(OfSuit(S, s)) \in Nat /\ Cardinality(OfSuit(S, u)) \in Nat
    BY <1>0, CardsFinite
  <2>4. Cardinality(OfSuit(S, s)) >= 4 /\ Cardinality(OfSuit(S, u)) >= 4
    BY <2>1, <2>3
  <2> QED
    BY <1>1, <2>2, <2>4
<1> QED
  BY <1>2, <1>3

-----------------------------------------------------------------------------

(* The best hand of some cards: one they make, and none they make packs to *)
(* more.                                                                   *)
Tops(S, c, k) == Made(S, c, k) /\ \A d, l : Made(S, d, l) => Points(d, l) <= Points(c, k)

Outdone(S, c, k) == \A d, l : Made(S, d, l) => d <= c /\ (d = c => NotAbove(l, k, Size(c)))

(* No hand of a higher category, and none above it in its own.             *)
LEMMA OutdoneTops ==
  ASSUME NEW S, NEW c, NEW k, Made(S, c, k), Outdone(S, c, k)
  PROVE  Tops(S, c, k)
<1> SUFFICES ASSUME NEW d, NEW l, Made(S, d, l)
             PROVE  Points(d, l) <= Points(c, k)
  BY DEF Tops
<1>1. MadeHand(c, k) /\ MadeHand(d, l) /\ c \in 1 .. 9 /\ d \in 1 .. 9
  BY DEF Made, MadeHand
<1>2. d <= c /\ (d = c => NotAbove(l, k, Size(c)))
  BY DEF Outdone
<1>3. CASE d = c
  BY <1>1, <1>2, <1>3, PointsNotAbove
<1>4. CASE d # c
  <2>1. d < c
    BY <1>1, <1>2, <1>4
  <2>2. NotAbove(l, l, Size(d)) /\ NotAbove(k, k, Size(c))
    <3>1. \A i \in 1 .. Size(d) : l[i] \in 1 .. 14
      BY <1>1, HandNibbles
    <3>2. \A i \in 1 .. Size(c) : k[i] \in 1 .. 14
      BY <1>1, HandNibbles
    <3>3. \A i \in 1 .. Size(d) : l[i] <= l[i]
      BY <3>1
    <3>4. \A i \in 1 .. Size(c) : k[i] <= k[i]
      BY <3>2
    <3> QED
      BY <3>3, <3>4 DEF NotAbove
  <2>3. Points(d, l) \in Int /\ Points(c, k) \in Int
    BY <1>1, <2>2, PointsNotAbove
  <2>4. Points(d, l) < Points(c, k)
    BY <1>1, <2>1, PointsCategory
  <2> QED
    BY <2>3, <2>4
<1> QED
  BY <1>3, <1>4

(* Ranks that fall are a hand, unless they have to be in a row.            *)
LEMMA PlainHand ==
  ASSUME NEW c \in 1 .. 9, ~InRow(c), NEW k \in [1 .. Size(c) -> Ranks], Falls(c, k)
  PROVE  MadeHand(c, k) /\ \A i \in 1 .. Size(c) : Real(k[i]) = k[i] /\ RealOf(c, k)[i] = k[i]
<1>1. \A i \in 1 .. Size(c) : k[i] \in Ranks
  OBVIOUS
<1>2. \A i \in 1 .. Size(c) : k[i] \in 1 .. 14 /\ k[i] >= 2 /\ Real(k[i]) = k[i] /\ RealOf(c, k)[i] = k[i]
  BY <1>1 DEF Ranks, Real, RealOf
<1>3. k \in [1 .. Size(c) -> 1 .. 14]
  <2>1. k = [i \in 1 .. Size(c) |-> k[i]]
    OBVIOUS
  <2> QED
    BY <2>1, <1>2
<1> QED
  BY <1>2, <1>3 DEF MadeHand

(* And when the cards are there, they make it.                             *)
LEMMA PlainMade ==
  ASSUME NEW S, NEW c \in 1 .. 9, ~InRow(c), ~SameSuit(c), NEW k \in [1 .. Size(c) -> Ranks], Falls(c, k),
         \A i \in 1 .. Size(c) : Cardinality(OfRank(S, k[i])) >= Times(c, i)
  PROVE  Made(S, c, k)
<1>1. MadeHand(c, k) /\ \A i \in 1 .. Size(c) : RealOf(c, k)[i] = k[i]
  BY PlainHand
<1>2. \A i \in 1 .. Size(c) : TimesOf(c)[i] = Times(c, i)
  BY FiveCards
<1>3. Meets(S, TimesOf(c), RealOf(c, k), Size(c))
  BY <1>1, <1>2 DEF Meets
<1> QED
  BY <1>1, <1>3 DEF Made, Has

(* Five ranks in a row are a hand.                                         *)
RowFrom(h) == [i \in 1 .. 5 |-> h - i + 1]

(* They are different and they fall.                                       *)
LEMMA RowHand ==
  ASSUME NEW c \in 1 .. 9, InRow(c), NEW h \in 5 .. 14
  PROVE  MadeHand(c, RowFrom(h)) /\ Size(c) = 5 /\ RowFrom(h)[1] = h
<1>1. Size(c) = 5 /\ \A i \in 1 .. 5 : Times(c, i) = 1
  <2>1. c = 5 \/ c = 9
    BY Kinds DEF InRow
  <2> QED
    BY <2>1, Kinds DEF Size, Times
<1>2. \A i \in 1 .. 5 : RowFrom(h)[i] = h - i + 1 /\ h - i + 1 \in 1 .. 14
  BY DEF RowFrom
<1>3. RowFrom(h) \in [1 .. 5 -> 1 .. 14]
  BY <1>2 DEF RowFrom
<1>4. Falls(c, RowFrom(h))
  BY <1>1, <1>2 DEF Falls
<1>5. RowFrom(h)[1] = h
  BY DEF RowFrom
<1> QED
  BY <1>1, <1>2, <1>3, <1>4, <1>5 DEF MadeHand

(* A straight among some ranks is a row among them.                        *)
LEMMA HandRow ==
  ASSUME NEW c, NEW k, MadeHand(c, k), InRow(c), NEW R, \A i \in 1 .. 5 : Real(k[i]) \in R
  PROVE  k[1] \in 5 .. 14 /\ RowIn(R, k[1])
<1>1. k[1] \in 5 .. 14 /\ Size(c) = 5
  BY HandRanks
<1>2. \A i \in 1 .. 5 : k[i] = k[1] - i + 1
  BY <1>1 DEF MadeHand
<1> QED
  BY <1>1, <1>2 DEF RowIn

(* Of the rows, the highest is not above itself.                           *)
LEMMA RowNotAbove ==
  ASSUME NEW c, NEW k, MadeHand(c, k), InRow(c), NEW h \in 5 .. 14, k[1] <= h
  PROVE  NotAbove(k, RowFrom(h), Size(c))
<1>1. Size(c) = 5 /\ k[1] \in 5 .. 14
  BY HandRanks
<1> SUFFICES ASSUME NEW i \in 1 .. 5, \A j \in 1 .. i - 1 : k[j] = RowFrom(h)[j]
             PROVE  k[i] <= RowFrom(h)[i]
  BY <1>1 DEF NotAbove
<1>2. k[i] = k[1] - i + 1 /\ RowFrom(h)[i] = h - i + 1
  BY <1>1 DEF MadeHand, RowFrom
<1> QED
  BY <1>1, <1>2

(* Different ranks of a set are no more than it has.                       *)
LEMMA RanksApart ==
  ASSUME NEW n \in Nat, NEW rk, DistinctRanks(rk, n), NEW Q, Q \subseteq Ranks, \A i \in 1 .. n : rk[i] \in Q
  PROVE  n <= Cardinality(Q)
<1> DEFINE I == {rk[i] : i \in 1 .. n}
<1>1. IsFiniteSet(Q) /\ Cardinality(Q) \in Nat
  <2>1. Q \in SUBSET Ranks
    OBVIOUS
  <2> QED
    BY <2>1, RanksFinite, FS_CardinalityType
<1>2. Corresponds(1 .. n, I, rk)
  BY DEF Corresponds, DistinctRanks
<1>3. IsFiniteSet(1 .. n) /\ Cardinality(1 .. n) = n
  BY FS_Interval
<1>4. Cardinality(I) = n
  <2> HIDE DEF I
  <2> QED
    BY <1>2, <1>3, SameSize
<1>5. I \in SUBSET Q
  OBVIOUS
<1> HIDE DEF I
<1> QED
  BY <1>1, <1>4, <1>5, FS_Subset

(* A hand of one suit takes five cards of it.                              *)
LEMMA FlushSuit ==
  ASSUME NEW S, S \subseteq Cards, NEW c, NEW k, Made(S, c, k), SameSuit(c)
  PROVE  \E s \in Suits : /\ Cardinality(Lane(S, s)) >= 5
                          /\ \A i \in 1 .. 5 : Real(k[i]) \in Lane(S, s)
<1>1. MadeHand(c, k) /\ Has(S, c, k) /\ c \in 1 .. 9
  BY DEF Made, MadeHand
<1>2. Size(c) = 5
  BY Kinds DEF SameSuit, Size
<1>3. PICK s \in Suits : HasSuit(S, c, k, s)
  BY <1>1 DEF Has
<1>4. \A i \in 1 .. 5 : Real(k[i]) \in Lane(S, s) /\ RealOf(c, k)[i] = Real(k[i])
  <2> TAKE i \in 1 .. 5
  <2>1. Real(k[i]) \in Ranks /\ RealOf(c, k)[i] = Real(k[i])
    BY <1>1, <1>2, HandRanks
  <2>2. CardOf(Real(k[i]), s) \in S
    BY <1>2, <1>3 DEF HasSuit
  <2> QED
    BY <2>1, <2>2, LaneIs
<1>5. DistinctRanks(RealOf(c, k), 5)
  BY <1>1, <1>2, HandRanks
<1>6. Lane(S, s) \subseteq Ranks
  BY LaneIs
<1>7. 5 <= Cardinality(Lane(S, s))
  BY <1>4, <1>5, <1>6, RanksApart
<1>8. Cardinality(Lane(S, s)) \in Nat
  <2>1. Lane(S, s) \in SUBSET Ranks
    BY <1>6
  <2> QED
    BY <2>1, RanksFinite, FS_CardinalityType
<1> QED
  BY <1>4, <1>7, <1>8

(* The ranks of a lane, five of them.                                      *)
LEMMA LaneRanks ==
  ASSUME NEW S, Dealt(S), NEW s \in Suits, Cardinality(Lane(S, s)) >= 5
  PROVE  /\ Lane(S, s) \subseteq Ranks /\ Cardinality(RanksOf(S)) >= 5
         /\ \A c, k : Made(S, c, k) /\ SameSuit(c) => \A i \in 1 .. 5 : Real(k[i]) \in Lane(S, s)
<1>0. S \subseteq Cards
  BY DEF Dealt
<1>1. Lane(S, s) \subseteq Ranks /\ Lane(S, s) \subseteq RanksOf(S) /\ RanksOf(S) \subseteq Ranks
  BY <1>0, LaneIs, HeldIs
<1>2. Cardinality(RanksOf(S)) >= 5
  <2>1. RanksOf(S) \in SUBSET Ranks /\ Lane(S, s) \in SUBSET RanksOf(S) /\ Lane(S, s) \in SUBSET Ranks
    BY <1>1
  <2>2. IsFiniteSet(RanksOf(S)) /\ Cardinality(RanksOf(S)) \in Nat
    BY <2>1, RanksFinite, FS_CardinalityType
  <2>3. Cardinality(Lane(S, s)) <= Cardinality(RanksOf(S)) /\ IsFiniteSet(Lane(S, s))
    BY <2>1, <2>2, FS_Subset
  <2>4. Cardinality(Lane(S, s)) \in Nat
    BY <2>3, FS_CardinalityType
  <2> QED
    BY <2>2, <2>3, <2>4
<1>3. ASSUME NEW c, NEW k, Made(S, c, k), SameSuit(c)
      PROVE  \A i \in 1 .. 5 : Real(k[i]) \in Lane(S, s)
  <2>1. PICK u \in Suits : /\ Cardinality(Lane(S, u)) >= 5
                           /\ \A i \in 1 .. 5 : Real(k[i]) \in Lane(S, u)
    BY <1>0, <1>3, FlushSuit
  <2>2. u = s
    BY <2>1, NotTwo
  <2> QED
    BY <2>1, <2>2
<1> QED
  BY <1>1, <1>2, <1>3

(* The best of a suit held five times: its highest row.                    *)
LEMMA BestStraightFlush ==
  ASSUME NEW S, Dealt(S), NEW s \in Suits, Cardinality(Lane(S, s)) >= 5, StraightHigh(Lane(S, s)) # 0
  PROVE  Tops(S, StraightFlush, RowFrom(StraightHigh(Lane(S, s))))
<1> DEFINE h == StraightHigh(Lane(S, s))
           c == StraightFlush
           k == RowFrom(h)
<1>0. S \subseteq Cards /\ Lane(S, s) \subseteq Ranks
  BY LaneIs DEF Dealt
<1>1. h \in 5 .. 14 /\ RowIn(Lane(S, s), h) /\ \A x \in 5 .. 14 : RowIn(Lane(S, s), x) => x <= h
  BY <1>0, StraightHighIs
<1>2. c = 9 /\ c \in 1 .. 9 /\ InRow(c) /\ SameSuit(c)
  BY Kinds DEF InRow, SameSuit
<1> HIDE DEF h, c
<1>3. MadeHand(c, k) /\ Size(c) = 5
  BY <1>1, <1>2, RowHand
<1>4. HasSuit(S, c, k, s)
  <2> SUFFICES ASSUME NEW i \in 1 .. 5 PROVE CardOf(Real(k[i]), s) \in S
    BY <1>3 DEF HasSuit
  <2>1. k[i] = h - i + 1
    BY DEF RowFrom
  <2>2. Real(k[i]) \in Lane(S, s)
    BY <1>1, <2>1 DEF RowIn
  <2> QED
    BY <1>0, <2>2, LaneIs
<1> HIDE DEF k
<1>5. Made(S, c, k)
  BY <1>2, <1>3, <1>4 DEF Made, Has
<1>6. Outdone(S, c, k)
  <2> SUFFICES ASSUME NEW d, NEW l, Made(S, d, l)
               PROVE  d <= c /\ (d = c => NotAbove(l, k, Size(c)))
    BY DEF Outdone
  <2>1. MadeHand(d, l) /\ d \in 1 .. 9
    BY DEF Made, MadeHand
  <2>2. ASSUME d = c
        PROVE  NotAbove(l, k, Size(c))
    <3>1. InRow(d) /\ SameSuit(d)
      BY <1>2, <2>2
    <3>2. \A i \in 1 .. 5 : Real(l[i]) \in Lane(S, s)
      BY <3>1, LaneRanks
    <3>3. l[1] \in 5 .. 14 /\ RowIn(Lane(S, s), l[1])
      BY <2>1, <3>1, <3>2, HandRow
    <3>4. l[1] <= h
      BY <1>1, <3>3
    <3>5. NotAbove(l, RowFrom(h), Size(d))
      BY <1>1, <2>1, <3>1, <3>4, RowNotAbove
    <3> QED
      BY <2>2, <3>5 DEF k
  <2> QED
    BY <1>2, <2>1, <2>2
<1>7. Tops(S, c, k)
  BY <1>5, <1>6, OutdoneTops
<1> QED
  BY <1>7 DEF k, c, h

(* The tail of a hand, descending ranks of a set, and the top of the set.  *)
Ends(l, m, n, Q) ==
  (\A i \in 1 .. n : l[m + i] \in Q) /\ \A i, j \in 1 .. n : i < j => l[m + i] > l[m + j]

(* The top of the set is not below the tail anywhere.                      *)
LEMMA TailBelow ==
  ASSUME NEW Q, Q \subseteq Ranks, NEW n \in Nat, n <= Cardinality(Q), NEW m \in Nat, NEW l, Ends(l, m, n, Q)
  PROVE  \A i \in 1 .. n : l[m + i] <= TakeTop(Q, n)[i]
<1> DEFINE d == [i \in 1 .. n |-> l[m + i]]
<1>1. Descending(Q, n, d)
  <2>1. \A i \in 1 .. n : d[i] = l[m + i]
    OBVIOUS
  <2>2. d \in [1 .. n -> Q]
    BY DEF Ends
  <2> HIDE DEF d
  <2> QED
    BY <2>1, <2>2 DEF Descending, Ends
<1>2. \A i \in 1 .. n : d[i] <= TakeTop(Q, n)[i]
  <2> HIDE DEF d
  <2> QED
    BY <1>1, TopsDominate
<1> QED
  BY <1>2

(* Or its five top ranks, when none are in a row.                          *)
LEMMA BestFlush ==
  ASSUME NEW S, Dealt(S), NEW s \in Suits, Cardinality(Lane(S, s)) >= 5, StraightHigh(Lane(S, s)) = 0
  PROVE  Tops(S, Flush, TakeTop(Lane(S, s), 5))
<1> DEFINE c == Flush
           k == TakeTop(Lane(S, s), 5)
           L == Lane(S, s)
<1>0. S \subseteq Cards /\ L \subseteq Ranks
  BY LaneIs DEF Dealt
<1>2. c = 6 /\ c \in 1 .. 9 /\ ~InRow(c) /\ SameSuit(c) /\ Size(c) = 5 /\ \A i \in 1 .. 5 : Times(c, i) = 1
  BY Kinds DEF InRow, SameSuit, Size, Times
<1>3. Descending(L, 5, k)
  <2>1. 5 \in Nat /\ 5 <= Cardinality(L)
    <3>1. L \in SUBSET Ranks
      BY <1>0
    <3>2. Cardinality(L) \in Nat
      BY <3>1, RanksFinite, FS_CardinalityType
    <3> QED
      BY <3>2
  <2> QED
    BY <1>0, <2>1, TopsDominate
<1> HIDE DEF c, k
<1>4. \A i \in 1 .. 5 : k[i] \in L /\ k[i] \in Ranks
  BY <1>0, <1>3 DEF Descending
<1>5. k \in [1 .. Size(c) -> Ranks] /\ Falls(c, k)
  <2>1. k \in [1 .. 5 -> Ranks]
    <3>1. k = [i \in 1 .. 5 |-> k[i]]
      BY <1>3 DEF Descending
    <3> QED
      BY <3>1, <1>4
  <2>2. \A i, j \in 1 .. 5 : i < j => k[i] > k[j] /\ k[i] \in Int /\ k[j] \in Int
    BY <1>3, <1>4 DEF Descending, Ranks
  <2> QED
    BY <2>1, <2>2, <1>2 DEF Falls
<1>6. MadeHand(c, k) /\ \A i \in 1 .. 5 : Real(k[i]) = k[i]
  BY <1>2, <1>5, PlainHand
<1>7. HasSuit(S, c, k, s)
  <2> SUFFICES ASSUME NEW i \in 1 .. 5 PROVE CardOf(Real(k[i]), s) \in S
    BY <1>2 DEF HasSuit
  <2>1. Real(k[i]) \in Lane(S, s) /\ Real(k[i]) \in Ranks
    BY <1>4, <1>6
  <2> QED
    BY <1>0, <2>1, LaneIs
<1>8. Made(S, c, k)
  BY <1>2, <1>6, <1>7 DEF Made, Has
<1>9. Outdone(S, c, k)
  <2> SUFFICES ASSUME NEW d, NEW l, Made(S, d, l)
               PROVE  d <= c /\ (d = c => NotAbove(l, k, Size(c)))
    BY DEF Outdone
  <2>1. MadeHand(d, l) /\ d \in 1 .. 9
    BY DEF Made, MadeHand
  <2>2. d # 9
    <3> SUFFICES ASSUME d = 9 PROVE FALSE
      OBVIOUS
    <3>1. InRow(d) /\ SameSuit(d)
      BY Kinds DEF InRow, SameSuit
    <3>2. \A i \in 1 .. 5 : Real(l[i]) \in L
      BY <3>1, LaneRanks
    <3> HIDE DEF L
    <3>3. l[1] \in 5 .. 14 /\ RowIn(L, l[1])
      BY <2>1, <3>1, <3>2, HandRow
    <3>4. l[1] <= StraightHigh(L)
      BY <1>0, <3>3, StraightHighIs
    <3> QED
      BY <3>3, <3>4 DEF L
  <2>3. d # 7 /\ d # 8
    <3>1. Cardinality(RanksOf(S)) >= 5
      BY LaneRanks
    <3> QED
      BY <3>1, NoRoom, Kinds
  <2>4. ASSUME d = c
        PROVE  NotAbove(l, k, Size(c))
    <3>1. SameSuit(d) /\ ~InRow(d)
      BY <1>2, <2>4
    <3>2. \A i \in 1 .. 5 : Real(l[i]) \in L
      BY <3>1, LaneRanks
    <3>3. \A i \in 1 .. 5 : l[i] \in 1 .. 14 /\ l[i] >= 2
      BY <1>2, <2>1, <2>4, HandNibbles DEF MadeHand
    <3>4. \A i \in 1 .. 5 : l[i] \in L
      <4> TAKE i \in 1 .. 5
      <4>1. Real(l[i]) = l[i]
        BY <3>3 DEF Real
      <4> HIDE DEF L
      <4> QED
        BY <3>2, <4>1
    <3>5. \A i, j \in 1 .. 5 : i < j => l[i] > l[j]
      <4> TAKE i, j \in 1 .. 5
      <4> HAVE i < j
      <4>1. 100 * Times(c, i) + l[i] > 100 * Times(c, j) + l[j]
        BY <1>2, <2>1, <2>4 DEF MadeHand, Falls
      <4>2. Times(c, i) = 1 /\ Times(c, j) = 1 /\ l[i] \in Int /\ l[j] \in Int
        BY <1>2, <3>3
      <4> QED
        BY <4>1, <4>2
    <3>6. l \in [1 .. 5 -> L]
      <4>1. l = [i \in 1 .. 5 |-> l[i]]
        BY <1>2, <2>1, <2>4 DEF MadeHand
      <4> HIDE DEF L
      <4> QED
        BY <3>4, <4>1
    <3>7. Descending(L, 5, l)
      BY <3>5, <3>6 DEF Descending
    <3>8. 5 \in Nat /\ 5 <= Cardinality(L)
      <4>1. L \in SUBSET Ranks
        BY <1>0
      <4>2. Cardinality(L) \in Nat
        BY <4>1, RanksFinite, FS_CardinalityType
      <4> QED
        BY <4>2
    <3>9. \A i \in 1 .. 5 : l[i] <= k[i]
      <4> HIDE DEF L
      <4>1. \A i \in 1 .. 5 : l[i] <= TakeTop(L, 5)[i]
        BY <1>0, <3>7, <3>8, TopsDominate
      <4> QED
        BY <4>1 DEF k, L
    <3> QED
      BY <3>9, <1>2 DEF NotAbove
  <2> QED
    BY <1>2, <2>1, <2>2, <2>3, <2>4
<1>10. Tops(S, c, k)
  BY <1>8, <1>9, OutdoneTops
<1> QED
  BY <1>10 DEF k, c

(* Without five of a suit, no hand is of one suit.                         *)
NoFlush(S) == \A s \in Suits : ~ (Cardinality(Lane(S, s)) >= 5)

(* The best without five of a suit: the highest row.                       *)
LEMMA BestStraight ==
  ASSUME NEW S, Dealt(S), NoFlush(S), StraightHigh(RanksOf(S)) # 0
  PROVE  Tops(S, Straight, RowFrom(StraightHigh(RanksOf(S))))
<1> DEFINE R == RanksOf(S)
           h == StraightHigh(R)
           c == Straight
           k == RowFrom(h)
<1>0. S \subseteq Cards /\ R \subseteq Ranks
  BY HeldIs DEF Dealt
<1>1. h \in 5 .. 14 /\ RowIn(R, h) /\ \A x \in 5 .. 14 : RowIn(R, x) => x <= h
  BY <1>0, StraightHighIs
<1>2. c = 5 /\ c \in 1 .. 9 /\ InRow(c) /\ ~SameSuit(c) /\ \A i \in 1 .. 5 : Times(c, i) = 1
  BY Kinds DEF InRow, SameSuit, Times
<1> HIDE DEF h, c
<1>3. MadeHand(c, k) /\ Size(c) = 5
  BY <1>1, <1>2, RowHand
<1>4. \A i \in 1 .. 5 : Real(k[i]) \in R /\ RealOf(c, k)[i] = Real(k[i])
  <2> TAKE i \in 1 .. 5
  <2>1. k[i] = h - i + 1
    BY DEF RowFrom
  <2>2. Real(k[i]) \in R
    BY <1>1, <2>1 DEF RowIn
  <2> HIDE DEF k
  <2> QED
    BY <1>3, <2>2, HandRanks
<1> HIDE DEF k
<1>5. Meets(S, TimesOf(c), RealOf(c, k), Size(c))
  <2> SUFFICES ASSUME NEW i \in 1 .. 5 PROVE Cardinality(OfRank(S, RealOf(c, k)[i])) >= TimesOf(c)[i]
    BY <1>3 DEF Meets
  <2>1. TimesOf(c)[i] = 1
    BY <1>2, <1>3, FiveCards
  <2>2. HeldTimes(S, 1) = RanksOf(S) /\ HeldTimes(S, 1) = {r \in Ranks : Cardinality(OfRank(S, r)) >= 1}
    BY <1>0, HeldIs
  <2> QED
    BY <1>4, <2>1, <2>2
<1>6. Made(S, c, k)
  BY <1>2, <1>3, <1>5 DEF Made, Has
<1>7. Outdone(S, c, k)
  <2> SUFFICES ASSUME NEW d, NEW l, Made(S, d, l)
               PROVE  d <= c /\ (d = c => NotAbove(l, k, Size(c)))
    BY DEF Outdone
  <2>1. MadeHand(d, l) /\ d \in 1 .. 9
    BY DEF Made, MadeHand
  <2>2. d # 9 /\ d # 6
    <3>1. SameSuit(d) => FALSE
      BY <1>0, FlushSuit DEF NoFlush
    <3> QED
      BY <3>1, Kinds DEF SameSuit
  <2>3. d # 7 /\ d # 8
    <3>1. 5 <= Cardinality(R) /\ Cardinality(R) \in Nat
      <4>1. DistinctRanks(RealOf(c, k), 5) /\ \A i \in 1 .. 5 : RealOf(c, k)[i] \in R
        BY <1>3, <1>4, HandRanks
      <4>2. 5 <= Cardinality(R)
        <5> HIDE DEF R
        <5> QED
          BY <1>0, <4>1, RanksApart
      <4>3. R \in SUBSET Ranks
        BY <1>0
      <4> QED
        BY <4>2, <4>3, RanksFinite, FS_CardinalityType
    <3>2. Cardinality(RanksOf(S)) >= 5
      BY <3>1
    <3> QED
      BY <3>2, NoRoom, Kinds
  <2>4. ASSUME d = c
        PROVE  NotAbove(l, k, Size(c))
    <3>1. InRow(d) /\ Size(d) = 5
      BY <1>2, <1>3, <2>4
    <3>2. \A i \in 1 .. 5 : Real(l[i]) \in R
      BY <1>0, <3>1, RanksHeld
    <3> HIDE DEF R
    <3>3. l[1] \in 5 .. 14 /\ RowIn(R, l[1])
      BY <2>1, <3>1, <3>2, HandRow
    <3>4. l[1] <= h
      BY <1>1, <3>3
    <3>5. NotAbove(l, RowFrom(h), Size(d))
      BY <1>1, <2>1, <3>1, <3>4, RowNotAbove
    <3> QED
      BY <2>4, <3>5 DEF k
  <2> QED
    BY <1>2, <2>1, <2>2, <2>3, <2>4
<1>8. Tops(S, c, k)
  BY <1>6, <1>7, OutdoneTops
<1> QED
  BY <1>8 DEF k, c, h

-----------------------------------------------------------------------------

(* Without five of a suit and five in a row, the repeated ranks decide.    *)
Plain(S) == Dealt(S) /\ \A d, l : Made(S, d, l) => ~SameSuit(d) /\ ~InRow(d)

(* That is when the evaluator comes to them.                               *)
LEMMA PlainWhen ==
  ASSUME NEW S, Dealt(S), NoFlush(S), StraightHigh(RanksOf(S)) = 0
  PROVE  Plain(S)
<1>0. S \subseteq Cards /\ RanksOf(S) \subseteq Ranks
  BY HeldIs DEF Dealt
<1> SUFFICES ASSUME NEW d, NEW l, Made(S, d, l)
             PROVE  ~SameSuit(d) /\ ~InRow(d)
  BY DEF Plain
<1>1. ~SameSuit(d)
  BY <1>0, FlushSuit DEF NoFlush
<1>2. ~InRow(d)
  <2> SUFFICES ASSUME InRow(d) PROVE FALSE
    OBVIOUS
  <2> DEFINE R == RanksOf(S)
  <2>1. MadeHand(d, l) /\ Size(d) = 5
    BY HandRanks DEF Made
  <2>2. \A i \in 1 .. 5 : Real(l[i]) \in R
    BY <1>0, <2>1, RanksHeld
  <2> HIDE DEF R
  <2>3. l[1] \in 5 .. 14 /\ RowIn(R, l[1])
    BY <2>1, <2>2, HandRow
  <2>4. l[1] <= StraightHigh(R)
    BY <1>0, <2>3, StraightHighIs DEF R
  <2> QED
    BY <2>3, <2>4 DEF R
<1> QED
  BY <1>1, <1>2

(* How often a rank is held.                                               *)
LEMMA HeldSets ==
  ASSUME NEW S, Dealt(S)
  PROVE  /\ S \subseteq Cards /\ Cardinality(S) \in 5 .. 7
         /\ \A k, r : r \in HeldTimes(S, k) <=> r \in Ranks /\ Cardinality(OfRank(S, r)) >= k
         /\ \A k : HeldTimes(S, k) \subseteq Ranks
         /\ HeldTimes(S, 1) = RanksOf(S)
         /\ \A r : Cardinality(OfRank(S, r)) \in Nat
         /\ \A r \in Ranks : Cardinality(OfRank(S, r)) <= 4
         /\ HeldTimes(S, 4) \subseteq HeldTimes(S, 3) /\ HeldTimes(S, 3) \subseteq HeldTimes(S, 2)
         /\ HeldTimes(S, 2) \subseteq HeldTimes(S, 1)
<1>1. S \subseteq Cards /\ Cardinality(S) \in 5 .. 7
  BY DEF Dealt
<1>2. \A k : HeldTimes(S, k) = {r \in Ranks : Cardinality(OfRank(S, r)) >= k}
  BY <1>1, HeldIs
<1>3. \A r : Cardinality(OfRank(S, r)) \in Nat
  BY <1>1, CardsFinite
<1>4. \A k, r : r \in HeldTimes(S, k) <=> r \in Ranks /\ Cardinality(OfRank(S, r)) >= k
  BY <1>2
<1>5. HeldTimes(S, 1) = RanksOf(S) /\ \A r \in Ranks : Cardinality(OfRank(S, r)) <= 4
  BY <1>1, HeldIs
<1>6. HeldTimes(S, 4) \subseteq HeldTimes(S, 3) /\ HeldTimes(S, 3) \subseteq HeldTimes(S, 2)
      /\ HeldTimes(S, 2) \subseteq HeldTimes(S, 1)
  BY <1>3, <1>4
<1>7. \A k : HeldTimes(S, k) \subseteq Ranks
  BY <1>4
<1> QED
  BY <1>1, <1>3, <1>4, <1>5, <1>6, <1>7

(* What a hand of repeated ranks shows.                                    *)
Rest(S, Q) == HeldTimes(S, 1) \ Q

Shows(S, d, l) ==
  \/ /\ d = 8 /\ l[1] \in HeldTimes(S, 4) /\ Ends(l, 1, 1, Rest(S, {l[1]}))
  \/ /\ d = 7 /\ l[1] \in HeldTimes(S, 3) /\ l[2] \in HeldTimes(S, 2) \ {l[1]}
  \/ /\ d = 4 /\ l[1] \in HeldTimes(S, 3) /\ Ends(l, 1, 2, Rest(S, {l[1]}))
  \/ /\ d = 3 /\ l[1] \in HeldTimes(S, 2) /\ l[2] \in HeldTimes(S, 2) /\ l[1] > l[2]
     /\ Ends(l, 2, 1, Rest(S, {l[1], l[2]}))
  \/ /\ d = 2 /\ l[1] \in HeldTimes(S, 2) /\ Ends(l, 1, 3, Rest(S, {l[1]}))
  \/ /\ d = 1 /\ Ends(l, 0, 5, Rest(S, {}))

(* How many cards each rank of such a hand has.                            *)
LEMMA PlainSizes ==
  /\ Size(8) = 2 /\ Times(8, 1) = 4 /\ Times(8, 2) = 1
  /\ Size(7) = 2 /\ Times(7, 1) = 3 /\ Times(7, 2) = 2
  /\ Size(4) = 3 /\ Times(4, 1) = 3 /\ Times(4, 2) = 1 /\ Times(4, 3) = 1
  /\ Size(3) = 3 /\ Times(3, 1) = 2 /\ Times(3, 2) = 2 /\ Times(3, 3) = 1
  /\ Size(2) = 4 /\ Times(2, 1) = 2 /\ Times(2, 2) = 1 /\ Times(2, 3) = 1 /\ Times(2, 4) = 1
  /\ Size(1) = 5 /\ \A i \in 1 .. 5 : Times(1, i) = 1
  /\ \A d \in {1, 2, 3, 4, 7, 8} : ~SameSuit(d) /\ ~InRow(d)
BY Kinds DEF Size, Times, SameSuit, InRow

(* A hand of repeated ranks shows them.                                    *)
LEMMA MadeShows ==
  ASSUME NEW S, Plain(S), NEW d, NEW l, Made(S, d, l)
  PROVE  d \in {1, 2, 3, 4, 7, 8} /\ Shows(S, d, l) /\ \A i \in 1 .. Size(d) : l[i] \in Ranks
<1>0. Dealt(S) /\ ~SameSuit(d) /\ ~InRow(d)
  BY DEF Plain
<1>1. MadeHand(d, l) /\ d \in 1 .. 9
  BY DEF Made, MadeHand
<1>2. d \in {1, 2, 3, 4, 7, 8}
  BY <1>0, <1>1, Kinds DEF SameSuit, InRow
<1>3. \A i \in 1 .. Size(d) : l[i] \in Ranks /\ l[i] \in HeldTimes(S, Times(d, i)) /\ l[i] \in HeldTimes(S, 1)
  <2> TAKE i \in 1 .. Size(d)
  <2>1. S \subseteq Cards
    BY <1>0 DEF Dealt
  <2>2. l[i] \in Ranks /\ l[i] \in RanksOf(S) /\ Cardinality(OfRank(S, l[i])) >= Times(d, i)
    BY <1>0, <2>1, HeldRanks
  <2> QED
    BY <1>0, <2>2, HeldSets
<1>4. \A i, j \in 1 .. Size(d) : i < j => l[i] # l[j] /\ (Times(d, i) = Times(d, j) => l[i] > l[j])
  <2> TAKE i, j \in 1 .. Size(d)
  <2> HAVE i < j
  <2>1. l[i] # l[j] /\ 100 * Times(d, i) + l[i] > 100 * Times(d, j) + l[j]
    BY <1>1 DEF MadeHand, Falls
  <2>2. l[i] \in Int /\ l[j] \in Int
    BY <1>3 DEF Ranks
  <2>3. Times(d, i) \in Int
    BY <1>1, FiveCards
  <2> QED
    BY <2>1, <2>2, <2>3
<1>5. CASE d = 8
  <2>1. 1 \in 1 .. Size(d) /\ 2 \in 1 .. Size(d) /\ Times(d, 1) = 4
    BY <1>5, PlainSizes
  <2>2. l[1] \in HeldTimes(S, 4) /\ l[2] \in Rest(S, {l[1]})
    BY <1>3, <1>4, <2>1 DEF Rest
  <2>3. \A i, j \in 1 .. 1 : ~ (i < j)
    OBVIOUS
  <2>4. \A i \in 1 .. 1 : 1 + i = 2
    OBVIOUS
  <2>5. Ends(l, 1, 1, Rest(S, {l[1]}))
    BY <2>2, <2>3, <2>4 DEF Ends
  <2> QED
    BY <1>2, <1>3, <1>5, <2>2, <2>5 DEF Shows
<1>6. CASE d = 7
  <2>1. 1 \in 1 .. Size(d) /\ 2 \in 1 .. Size(d) /\ Times(d, 1) = 3 /\ Times(d, 2) = 2
    BY <1>6, PlainSizes
  <2>2. l[1] \in HeldTimes(S, 3) /\ l[2] \in HeldTimes(S, 2) \ {l[1]}
    BY <1>3, <1>4, <2>1
  <2> QED
    BY <1>2, <1>3, <1>6, <2>2 DEF Shows
<1>7. CASE d = 4
  <2>1. 1 \in 1 .. Size(d) /\ 2 \in 1 .. Size(d) /\ 3 \in 1 .. Size(d)
        /\ Times(d, 1) = 3 /\ Times(d, 2) = 1 /\ Times(d, 3) = 1
    BY <1>7, PlainSizes
  <2>2. l[1] \in HeldTimes(S, 3) /\ l[2] \in Rest(S, {l[1]}) /\ l[3] \in Rest(S, {l[1]}) /\ l[2] > l[3]
    BY <1>3, <1>4, <2>1 DEF Rest
  <2>3. \A i, j \in 1 .. 2 : i < j => i = 1 /\ j = 2
    OBVIOUS
  <2>4. \A i \in 1 .. 2 : 1 + i = 2 \/ 1 + i = 3
    OBVIOUS
  <2>5. Ends(l, 1, 2, Rest(S, {l[1]}))
    BY <2>2, <2>3, <2>4 DEF Ends
  <2> QED
    BY <1>2, <1>3, <1>7, <2>2, <2>5 DEF Shows
<1>8. CASE d = 3
  <2>1. 1 \in 1 .. Size(d) /\ 2 \in 1 .. Size(d) /\ 3 \in 1 .. Size(d)
        /\ Times(d, 1) = 2 /\ Times(d, 2) = 2 /\ Times(d, 3) = 1
    BY <1>8, PlainSizes
  <2>2. l[1] \in HeldTimes(S, 2) /\ l[2] \in HeldTimes(S, 2) /\ l[1] > l[2] /\ l[3] \in Rest(S, {l[1], l[2]})
    BY <1>3, <1>4, <2>1 DEF Rest
  <2>3. \A i, j \in 1 .. 1 : ~ (i < j)
    OBVIOUS
  <2>4. \A i \in 1 .. 1 : 2 + i = 3
    OBVIOUS
  <2>5. Ends(l, 2, 1, Rest(S, {l[1], l[2]}))
    BY <2>2, <2>3, <2>4 DEF Ends
  <2> QED
    BY <1>2, <1>3, <1>8, <2>2, <2>5 DEF Shows
<1>9. CASE d = 2
  <2>1. 1 \in 1 .. Size(d) /\ 2 \in 1 .. Size(d) /\ 3 \in 1 .. Size(d) /\ 4 \in 1 .. Size(d)
        /\ Times(d, 1) = 2 /\ Times(d, 2) = 1 /\ Times(d, 3) = 1 /\ Times(d, 4) = 1
    BY <1>9, PlainSizes
  <2>2. l[1] \in HeldTimes(S, 2) /\ l[2] \in Rest(S, {l[1]}) /\ l[3] \in Rest(S, {l[1]}) /\ l[4] \in Rest(S, {l[1]})
        /\ l[2] > l[3] /\ l[2] > l[4] /\ l[3] > l[4]
    BY <1>3, <1>4, <2>1 DEF Rest
  <2>3. \A i, j \in 1 .. 3 : i < j => (i = 1 /\ j = 2) \/ (i = 1 /\ j = 3) \/ (i = 2 /\ j = 3)
    OBVIOUS
  <2>4. \A i \in 1 .. 3 : i = 1 \/ i = 2 \/ i = 3
    OBVIOUS
  <2>5. Ends(l, 1, 3, Rest(S, {l[1]}))
    BY <2>2, <2>3, <2>4 DEF Ends
  <2> QED
    BY <1>2, <1>3, <1>9, <2>2, <2>5 DEF Shows
<1>10. CASE d = 1
  <2>1. Size(d) = 5 /\ \A i \in 1 .. 5 : Times(d, i) = 1
    BY <1>10, PlainSizes
  <2>2. \A i \in 1 .. 5 : 0 + i = i /\ l[i] \in Rest(S, {})
    BY <1>3, <2>1 DEF Rest
  <2>3. \A i, j \in 1 .. 5 : i < j => l[i] > l[j]
    BY <1>4, <2>1
  <2>4. Ends(l, 0, 5, Rest(S, {}))
    BY <2>2, <2>3 DEF Ends
  <2> QED
    BY <1>2, <1>3, <1>10, <2>4 DEF Shows
<1> QED
  BY <1>2, <1>5, <1>6, <1>7, <1>8, <1>9, <1>10

(* And ranks that show are a hand the cards make.                          *)
LEMMA ShowsMade ==
  ASSUME NEW S, Dealt(S), NEW d \in {1, 2, 3, 4, 7, 8}, NEW k \in [1 .. Size(d) -> Ranks], Shows(S, d, k)
  PROVE  Made(S, d, k)
<1>1. ~SameSuit(d) /\ ~InRow(d) /\ d \in 1 .. 9
  BY PlainSizes
<1>2. \A i \in 1 .. Size(d) : k[i] \in 2 .. 14
  BY DEF Ranks
<1>3. \A n, r : r \in HeldTimes(S, n) <=> r \in Ranks /\ Cardinality(OfRank(S, r)) >= n
  BY HeldSets
<1>4. Falls(d, k) /\ \A i \in 1 .. Size(d) : k[i] \in HeldTimes(S, Times(d, i))
  <2>1. CASE d = 8
    <3>1. Size(d) = 2 /\ Times(d, 1) = 4 /\ Times(d, 2) = 1
      BY <2>1, PlainSizes
    <3>2. k[1] \in HeldTimes(S, 4) /\ Ends(k, 1, 1, Rest(S, {k[1]}))
      BY <2>1 DEF Shows
    <3>3. k[1 + 1] \in Rest(S, {k[1]})
      BY <3>2 DEF Ends
    <3>4. k[2] \in HeldTimes(S, 1) /\ k[1] # k[2]
      BY <3>3 DEF Rest
    <3>5. \A i \in 1 .. Size(d) : i = 1 \/ i = 2
      BY <3>1
    <3>6. k[1] \in 2 .. 14 /\ k[2] \in 2 .. 14
      BY <1>2, <3>1
    <3>7. Falls(d, k)
      BY <3>1, <3>4, <3>5, <3>6 DEF Falls
    <3> QED
      BY <3>1, <3>2, <3>4, <3>5, <3>7
  <2>2. CASE d = 7
    <3>1. Size(d) = 2 /\ Times(d, 1) = 3 /\ Times(d, 2) = 2
      BY <2>2, PlainSizes
    <3>2. k[1] \in HeldTimes(S, 3) /\ k[2] \in HeldTimes(S, 2) /\ k[1] # k[2]
      BY <2>2 DEF Shows
    <3>5. \A i \in 1 .. Size(d) : i = 1 \/ i = 2
      BY <3>1
    <3>6. k[1] \in 2 .. 14 /\ k[2] \in 2 .. 14
      BY <1>2, <3>1
    <3>7. Falls(d, k)
      BY <3>1, <3>2, <3>5, <3>6 DEF Falls
    <3> QED
      BY <3>1, <3>2, <3>5, <3>7
  <2>3. CASE d = 4
    <3>1. Size(d) = 3 /\ Times(d, 1) = 3 /\ Times(d, 2) = 1 /\ Times(d, 3) = 1
      BY <2>3, PlainSizes
    <3>2. k[1] \in HeldTimes(S, 3) /\ Ends(k, 1, 2, Rest(S, {k[1]}))
      BY <2>3 DEF Shows
    <3>3. 1 \in 1 .. 2 /\ 2 \in 1 .. 2 /\ 1 < 2 /\ 1 + 1 = 2 /\ 1 + 2 = 3
      OBVIOUS
    <3>4. k[2] \in Rest(S, {k[1]}) /\ k[3] \in Rest(S, {k[1]}) /\ k[2] > k[3]
      BY <3>2, <3>3 DEF Ends
    <3>5. k[2] \in HeldTimes(S, 1) /\ k[3] \in HeldTimes(S, 1) /\ k[1] # k[2] /\ k[1] # k[3]
      BY <3>4 DEF Rest
    <3>6. \A i \in 1 .. Size(d) : i = 1 \/ i = 2 \/ i = 3
      BY <3>1
    <3>7. k[1] \in 2 .. 14 /\ k[2] \in 2 .. 14 /\ k[3] \in 2 .. 14
      BY <1>2, <3>1
    <3>8. Falls(d, k)
      BY <3>1, <3>4, <3>5, <3>6, <3>7 DEF Falls
    <3> QED
      BY <3>1, <3>2, <3>5, <3>6, <3>8
  <2>4. CASE d = 3
    <3>1. Size(d) = 3 /\ Times(d, 1) = 2 /\ Times(d, 2) = 2 /\ Times(d, 3) = 1
      BY <2>4, PlainSizes
    <3>2. k[1] \in HeldTimes(S, 2) /\ k[2] \in HeldTimes(S, 2) /\ k[1] > k[2] /\ Ends(k, 2, 1, Rest(S, {k[1], k[2]}))
      BY <2>4 DEF Shows
    <3>3. 1 \in 1 .. 1 /\ 2 + 1 = 3
      OBVIOUS
    <3>4. k[3] \in Rest(S, {k[1], k[2]})
      BY <3>2, <3>3 DEF Ends
    <3>5. k[3] \in HeldTimes(S, 1) /\ k[1] # k[3] /\ k[2] # k[3]
      BY <3>4 DEF Rest
    <3>6. \A i \in 1 .. Size(d) : i = 1 \/ i = 2 \/ i = 3
      BY <3>1
    <3>7. k[1] \in 2 .. 14 /\ k[2] \in 2 .. 14 /\ k[3] \in 2 .. 14
      BY <1>2, <3>1
    <3>8. Falls(d, k)
      BY <3>1, <3>2, <3>5, <3>6, <3>7 DEF Falls
    <3> QED
      BY <3>1, <3>2, <3>5, <3>6, <3>8
  <2>5. CASE d = 2
    <3>1. Size(d) = 4 /\ Times(d, 1) = 2 /\ Times(d, 2) = 1 /\ Times(d, 3) = 1 /\ Times(d, 4) = 1
      BY <2>5, PlainSizes
    <3>2. k[1] \in HeldTimes(S, 2) /\ Ends(k, 1, 3, Rest(S, {k[1]}))
      BY <2>5 DEF Shows
    <3>3. 1 \in 1 .. 3 /\ 2 \in 1 .. 3 /\ 3 \in 1 .. 3 /\ 1 < 2 /\ 2 < 3 /\ 1 < 3 /\ 1 + 1 = 2 /\ 1 + 2 = 3 /\ 1 + 3 = 4
      OBVIOUS
    <3>4. k[2] \in Rest(S, {k[1]}) /\ k[3] \in Rest(S, {k[1]}) /\ k[4] \in Rest(S, {k[1]})
      BY <3>2, <3>3 DEF Ends
    <3>5. k[2] > k[3] /\ k[3] > k[4] /\ k[2] > k[4]
      BY <3>2, <3>3 DEF Ends
    <3>6. /\ k[2] \in HeldTimes(S, 1) /\ k[3] \in HeldTimes(S, 1) /\ k[4] \in HeldTimes(S, 1)
          /\ k[1] # k[2] /\ k[1] # k[3] /\ k[1] # k[4]
      BY <3>4 DEF Rest
    <3>7. \A i \in 1 .. Size(d) : i = 1 \/ i = 2 \/ i = 3 \/ i = 4
      BY <3>1
    <3>8. k[1] \in 2 .. 14 /\ k[2] \in 2 .. 14 /\ k[3] \in 2 .. 14 /\ k[4] \in 2 .. 14
      BY <1>2, <3>1
    <3>9. Falls(d, k)
      BY <3>1, <3>5, <3>6, <3>7, <3>8 DEF Falls
    <3> QED
      BY <3>1, <3>2, <3>6, <3>7, <3>9
  <2>6. CASE d = 1
    <3>1. Size(d) = 5 /\ \A i \in 1 .. 5 : Times(d, i) = 1
      BY <2>6, PlainSizes
    <3>2. Ends(k, 0, 5, Rest(S, {}))
      BY <2>6 DEF Shows
    <3>3. \A i \in 1 .. 5 : 0 + i = i
      OBVIOUS
    <3>4. \A i \in 1 .. 5 : k[i] \in Rest(S, {})
      BY <3>2, <3>3 DEF Ends
    <3>5. \A i, j \in 1 .. 5 : i < j => k[i] > k[j]
      BY <3>2, <3>3 DEF Ends
    <3>6. \A i \in 1 .. 5 : k[i] \in HeldTimes(S, 1)
      BY <3>4 DEF Rest
    <3>7. Falls(d, k)
      <4> SUFFICES ASSUME NEW i \in 1 .. 5, NEW j \in 1 .. 5, i < j
                   PROVE  k[i] # k[j] /\ 100 * Times(d, i) + k[i] > 100 * Times(d, j) + k[j]
        BY <3>1 DEF Falls
      <4> DEFINE a == k[i]
                 b == k[j]
      <4>1. a \in 2 .. 14 /\ b \in 2 .. 14 /\ a > b
        BY <1>2, <3>1, <3>5
      <4>2. Times(d, i) = 1 /\ Times(d, j) = 1
        BY <3>1
      <4> HIDE DEF a, b
      <4>3. a # b /\ 100 * 1 + a > 100 * 1 + b
        BY <4>1
      <4> QED
        BY <4>2, <4>3 DEF a, b
    <3> QED
      BY <3>1, <3>6, <3>7
  <2> QED
    BY <2>1, <2>2, <2>3, <2>4, <2>5, <2>6
<1>5. \A i \in 1 .. Size(d) : Cardinality(OfRank(S, k[i])) >= Times(d, i)
  BY <1>3, <1>4
<1> QED
  BY <1>1, <1>4, <1>5, PlainMade

-----------------------------------------------------------------------------

(* A hand of m ranks and then the n top ranks of a set.                    *)
Joins(k, u, m, n, Q) ==
  /\ k \in [1 .. n + m -> Ranks] /\ (\A i \in 1 .. m : k[i] = u[i])
  /\ (\A i \in 1 .. n : k[m + i] = TakeTop(Q, n)[i])
  /\ Ends(k, m, n, Q)

(* A sequence is a function of its length.                                 *)
LEMMA Listed ==
  ASSUME NEW R, NEW w \in Seq(R), NEW n, Len(w) = n
  PROVE  w \in [1 .. n -> R]
OBVIOUS

(* The kickers put behind the ranks that make the hand.                    *)
LEMMA Joined ==
  ASSUME NEW Q, Q \subseteq Ranks, NEW n \in Nat, n <= Cardinality(Q),
         NEW m \in Nat, NEW u \in Seq(Ranks), Len(u) = m,
         NEW k, k = u \o TakeTop(Q, n)
  PROVE  Joins(k, u, m, n, Q)
<1> DEFINE T == TakeTop(Q, n)
<1>1. Descending(Q, n, T)
  BY TopsDominate
<1>1a. k = u \o T
  OBVIOUS
<1>1b. TakeTop(Q, n) = T
  OBVIOUS
<1> HIDE DEF T
<1>2. T \in [1 .. n -> Ranks] /\ \A i \in 1 .. n : T[i] \in Q
  BY <1>1 DEF Descending
<1>3. T \in Seq(Ranks) /\ Len(T) = n
  BY <1>2
<1>4. \A i, j \in 1 .. n : i < j => T[i] > T[j]
  BY <1>1 DEF Descending
<1>5. k \in Seq(Ranks) /\ Len(k) = n + m
  <2>1. ASSUME NEW R, NEW p \in Seq(R), NEW q \in Seq(R)
        PROVE  p \o q \in Seq(R) /\ Len(p \o q) = Len(p) + Len(q)
    OBVIOUS
  <2>2. u \o T \in Seq(Ranks) /\ Len(u \o T) = m + n
    BY <1>3, <2>1
  <2>3. m + n = n + m
    OBVIOUS
  <2> QED BY <2>2, <2>3, <1>1a
<1>6. \A i \in 1 .. m : k[i] = u[i]
  BY <1>3, <1>1a
<1>7. \A i \in 1 .. n : k[m + i] = T[i]
  <2>1. \A i \in 1 .. n : (u \o T)[m + i] = T[i]
    BY <1>3
  <2> QED BY <2>1, <1>1a
<1>8. k \in [1 .. n + m -> Ranks]
  BY <1>5, Listed, Zenon
<1>9. Ends(k, m, n, Q)
  BY <1>7, <1>2, <1>4 DEF Ends
<1> QED BY <1>6, <1>7, <1>8, <1>9, <1>1b DEF Joins

(* One rank and kickers, two ranks and kickers, kickers alone.             *)
OneThen(k, q, n, Q) ==
  /\ k \in [1 .. n + 1 -> Ranks] /\ k[1] = q
  /\ \A i \in 1 .. n : k[1 + i] = TakeTop(Q, n)[i]
  /\ Ends(k, 1, n, Q)
TwoThen(k, q, p, n, Q) ==
  /\ k \in [1 .. n + 2 -> Ranks] /\ k[1] = q /\ k[2] = p
  /\ \A i \in 1 .. n : k[2 + i] = TakeTop(Q, n)[i]
  /\ Ends(k, 2, n, Q)
NoneThen(k, n, Q) ==
  /\ k \in [1 .. n -> Ranks]
  /\ \A i \in 1 .. n : k[0 + i] = TakeTop(Q, n)[i]
  /\ Ends(k, 0, n, Q)

(* A pair, trips or quads with its kickers.                                *)
LEMMA JoinedOne ==
  ASSUME NEW Q, Q \subseteq Ranks, NEW n \in Nat, n <= Cardinality(Q), NEW q \in Ranks
  PROVE  OneThen(<<q>> \o TakeTop(Q, n), q, n, Q)
<1> DEFINE u == <<q>>
           k == u \o TakeTop(Q, n)
<1>1. u \in Seq(Ranks) /\ Len(u) = 1 /\ u[1] = q /\ k = u \o TakeTop(Q, n)
  OBVIOUS
<1> HIDE DEF u, k
<1>2. Joins(k, u, 1, n, Q)
  BY <1>1, Joined
<1>3. OneThen(k, q, n, Q)
  BY <1>1, <1>2 DEF Joins, OneThen
<1> QED BY <1>3 DEF u, k

(* Two pairs with their kicker.                                            *)
LEMMA JoinedTwo ==
  ASSUME NEW Q, Q \subseteq Ranks, NEW n \in Nat, n <= Cardinality(Q), NEW q \in Ranks, NEW p \in Ranks
  PROVE  TwoThen(<<q, p>> \o TakeTop(Q, n), q, p, n, Q)
<1> DEFINE u == <<q, p>>
           k == u \o TakeTop(Q, n)
<1>1. u \in Seq(Ranks) /\ Len(u) = 2 /\ u[1] = q /\ u[2] = p /\ k = u \o TakeTop(Q, n)
  OBVIOUS
<1> HIDE DEF u, k
<1>2. Joins(k, u, 2, n, Q)
  BY <1>1, Joined
<1>3. 1 \in 1 .. 2 /\ 2 \in 1 .. 2
  OBVIOUS
<1>4. /\ k \in [1 .. n + 2 -> Ranks] /\ Ends(k, 2, n, Q)
      /\ \A i \in 1 .. n : k[2 + i] = TakeTop(Q, n)[i]
  BY <1>2 DEF Joins
<1>5. k[1] = q /\ k[2] = p
  BY <1>1, <1>2, <1>3, Zenon DEF Joins
<1>6. TwoThen(k, q, p, n, Q)
  BY <1>4, <1>5 DEF TwoThen
<1> QED BY <1>6 DEF u, k

(* Kickers alone.                                                          *)
LEMMA JoinedNone ==
  ASSUME NEW Q, Q \subseteq Ranks, NEW n \in Nat, n <= Cardinality(Q)
  PROVE  NoneThen(TakeTop(Q, n), n, Q)
<1>1. Descending(Q, n, TakeTop(Q, n))
  BY TopsDominate
<1>2. \A i \in 1 .. n : 0 + i = i
  OBVIOUS
<1> QED BY <1>1, <1>2 DEF Descending, Ends, NoneThen

(* The highest of some ranks.                                              *)
LEMMA TopRank ==
  ASSUME NEW R, R \subseteq Ranks, R # {}
  PROVE  Max(R) \in R /\ Max(R) \in Ranks /\ \A r \in R : r <= Max(R)
<1>1. R \subseteq Int /\ IsFiniteSet(R)
  <2>1. R \in SUBSET Ranks
    OBVIOUS
  <2> QED
    BY <2>1, RanksFinite
<1>2. Max(R) \in R /\ \A r \in R : Max(R) >= r
  BY <1>1, MaxIs
<1>3. \A r \in R : r \in Int
  BY <1>1
<1> QED
  BY <1>2, <1>3

(* Ranks besides some, when those others are held once.                    *)
LEMMA RestSize ==
  ASSUME NEW S, Dealt(S), NEW q, NEW p, q # p
  PROVE  /\ \A Q : Rest(S, Q) \subseteq Ranks
         /\ (\A r \in HeldTimes(S, 2) : FALSE) => Cardinality(Rest(S, {})) >= 5
         /\ HeldTimes(S, 2) \subseteq {q} /\ Cardinality(OfRank(S, q)) <= 2 => Cardinality(Rest(S, {q})) >= 3
         /\ HeldTimes(S, 2) \subseteq {q} /\ Cardinality(OfRank(S, q)) <= 3 => Cardinality(Rest(S, {q})) >= 2
         /\ Cardinality(OfRank(S, q)) <= 4 => Cardinality(Rest(S, {q})) >= 1
         /\ Cardinality(OfRank(S, q)) <= 2 /\ Cardinality(OfRank(S, p)) <= 2 => Cardinality(Rest(S, {q, p})) >= 1
<1>0. /\ S \subseteq Cards /\ Cardinality(S) \in 5 .. 7
      /\ \A k, r : r \in HeldTimes(S, k) <=> r \in Ranks /\ Cardinality(OfRank(S, r)) >= k
      /\ HeldTimes(S, 1) = RanksOf(S) /\ HeldTimes(S, 1) \subseteq Ranks
      /\ \A r : Cardinality(OfRank(S, r)) \in Nat
  BY HeldSets
<1> DEFINE left(Q) == {c \in S : RankOf(c) \notin Q}
<1>1. /\ Cardinality(left({})) = Cardinality(S)
      /\ Cardinality(left({q})) = Cardinality(S) - Cardinality(OfRank(S, q))
      /\ Cardinality(left({q, p})) = Cardinality(S) - Cardinality(OfRank(S, q)) - Cardinality(OfRank(S, p))
  BY <1>0, CardsBeside
<1>2. ASSUME NEW Q, HeldTimes(S, 2) \subseteq Q
      PROVE  Cardinality(Rest(S, Q)) = Cardinality(left(Q))
  <2>1. \A r \in Ranks \ Q : Cardinality(OfRank(S, r)) <= 1
    <3> TAKE r \in Ranks \ Q
    <3>1. r \notin HeldTimes(S, 2)
      BY <1>2
    <3>2. ~ (Cardinality(OfRank(S, r)) >= 2)
      BY <1>0, <3>1
    <3> QED
      BY <1>0, <3>2
  <2>2. Cardinality(RanksOf(S) \ Q) = Cardinality(left(Q))
    BY <1>0, <2>1, OneOfEach
  <2>3. Rest(S, Q) = RanksOf(S) \ Q
    BY <1>0 DEF Rest
  <2> HIDE DEF left
  <2> QED
    BY <2>2, <2>3
<1>3. \A Q : Rest(S, Q) \subseteq Ranks
  BY <1>0 DEF Rest
<1>4. ASSUME NEW Q, Cardinality(left(Q)) >= 1
      PROVE  Cardinality(Rest(S, Q)) >= 1
  <2>1. left(Q) # {}
    <3>1. Cardinality({}) = 0
      BY FS_EmptySet
    <3> HIDE DEF left
    <3> QED
      BY <1>4, <3>1
  <2>2. PICK c \in S : RankOf(c) \notin Q
    BY <2>1
  <2>3. RankOf(c) \in Rest(S, Q)
    BY <1>0, <2>2 DEF Rest, RanksOf
  <2>4. IsFiniteSet(Rest(S, Q)) /\ Cardinality(Rest(S, Q)) \in Nat
    <3>1. Rest(S, Q) \in SUBSET Ranks
      BY <1>3
    <3> QED
      BY <3>1, RanksFinite, FS_CardinalityType
  <2>5. Cardinality(Rest(S, Q)) # 0
    BY <2>3, <2>4, FS_EmptySet
  <2> QED
    BY <2>4, <2>5
<1> HIDE DEF left
<1>5. ASSUME \A r \in HeldTimes(S, 2) : FALSE
      PROVE  Cardinality(Rest(S, {})) >= 5
  <2>1. HeldTimes(S, 2) \subseteq {}
    BY <1>5
  <2>2. Cardinality(Rest(S, {})) = Cardinality(left({}))
    BY <1>2, <2>1
  <2> QED
    BY <1>0, <1>1, <2>2
<1>6. ASSUME HeldTimes(S, 2) \subseteq {q}
      PROVE  Cardinality(Rest(S, {q})) = Cardinality(S) - Cardinality(OfRank(S, q))
  <2>1. Cardinality(Rest(S, {q})) = Cardinality(left({q}))
    BY <1>2, <1>6
  <2> QED
    BY <1>1, <2>1
<1>7. Cardinality(S) \in Int /\ Cardinality(S) >= 5 /\ Cardinality(OfRank(S, q)) \in Nat /\ Cardinality(OfRank(S, p)) \in Nat
  BY <1>0
<1>8. HeldTimes(S, 2) \subseteq {q} /\ Cardinality(OfRank(S, q)) <= 2 => Cardinality(Rest(S, {q})) >= 3
  BY <1>6, <1>7
<1>9. HeldTimes(S, 2) \subseteq {q} /\ Cardinality(OfRank(S, q)) <= 3 => Cardinality(Rest(S, {q})) >= 2
  BY <1>6, <1>7
<1>10. Cardinality(OfRank(S, q)) <= 4 => Cardinality(Rest(S, {q})) >= 1
  <2> HAVE Cardinality(OfRank(S, q)) <= 4
  <2>1. Cardinality(left({q})) >= 1
    BY <1>1, <1>7
  <2> QED
    BY <1>4, <2>1
<1>11. Cardinality(OfRank(S, q)) <= 2 /\ Cardinality(OfRank(S, p)) <= 2 => Cardinality(Rest(S, {q, p})) >= 1
  <2> HAVE Cardinality(OfRank(S, q)) <= 2 /\ Cardinality(OfRank(S, p)) <= 2
  <2>1. Cardinality(left({q, p})) >= 1
    BY <1>1, <1>7
  <2> QED
    BY <1>4, <2>1
<1> QED
  BY <1>3, <1>5, <1>8, <1>9, <1>10, <1>11

-----------------------------------------------------------------------------

(* What cards show is best when nothing better shows and no other hand of  *)
(* its kind is above it.                                                   *)
LEMMA PlainBest ==
  ASSUME NEW S, Plain(S), NEW c \in {1, 2, 3, 4, 7, 8}, NEW k \in [1 .. Size(c) -> Ranks], Shows(S, c, k),
         \A d, l : d > c => ~Shows(S, d, l),
         \A l : Shows(S, c, l) => NotAbove(l, k, Size(c))
  PROVE  Tops(S, c, k)
<1>1. Made(S, c, k)
  BY ShowsMade DEF Plain
<1>2. Outdone(S, c, k)
  <2> SUFFICES ASSUME NEW d, NEW l, Made(S, d, l)
               PROVE  d <= c /\ (d = c => NotAbove(l, k, Size(c)))
    BY DEF Outdone
  <2>1. d \in {1, 2, 3, 4, 7, 8} /\ Shows(S, d, l)
    BY MadeShows
  <2>2. ~ (d > c)
    BY <2>1
  <2> QED BY <2>1, <2>2
<1> QED BY <1>1, <1>2, OutdoneTops

(* Four of a kind: the rank held four times and the best other one.        *)
LEMMA BestQuads ==
  ASSUME NEW S, Plain(S), HeldTimes(S, 4) # {}
  PROVE  Tops(S, 8, <<Max(HeldTimes(S, 4))>> \o TakeTop(HeldTimes(S, 1) \ HeldTimes(S, 4), 1))
<1> DEFINE q == Max(HeldTimes(S, 4))
           Q == Rest(S, {q})
           T == TakeTop(Q, 1)
           k == <<q>> \o T
<1>1. Dealt(S) /\ HeldTimes(S, 4) \subseteq Ranks
  BY HeldSets DEF Plain
<1>2. q \in HeldTimes(S, 4) /\ q \in Ranks /\ \A r \in HeldTimes(S, 4) : r = q
  BY <1>1, TopRank, NotTwo
<1>3. HeldTimes(S, 4) = {q} /\ HeldTimes(S, 1) \ HeldTimes(S, 4) = Q
  BY <1>2 DEF Rest
<1>4. Cardinality(OfRank(S, q)) <= 4
  BY <1>1, <1>2, HeldSets
<1>5. Q \subseteq Ranks /\ Cardinality(Q) >= 1
  BY <1>1, <1>4, <1>2, RestSize, q # q + 1 DEF Ranks
<1> HIDE DEF q, Q
<1>5a. 1 <= Cardinality(Q) /\ 1 \in Nat
  BY <1>5, CardsFinite, <1>1
<1>6. OneThen(k, q, 1, Q)
  BY <1>2, <1>5, <1>5a, JoinedOne
<1> HIDE DEF k
<1>7. Size(8) = 2
  BY PlainSizes
<1>8. Shows(S, 8, k) /\ k \in [1 .. Size(8) -> Ranks]
  BY <1>2, <1>6, <1>7 DEF Shows, Q, OneThen
<1>9. \A d, l : d > 8 => ~Shows(S, d, l)
  BY DEF Shows
<1>10. ASSUME NEW l, Shows(S, 8, l)
       PROVE  NotAbove(l, k, Size(8))
  <2>1. l[1] = q /\ Ends(l, 1, 1, Q)
    BY <1>10, <1>2 DEF Shows, Q
  <2>2. \A i \in 1 .. 1 : l[1 + i] <= T[i]
    BY <2>1, <1>5, <1>5a, TailBelow
  <2> QED BY <2>1, <2>2, <1>6, <1>7, <1>2 DEF NotAbove, Ranks, OneThen
<1>11. Tops(S, 8, k)
  BY <1>8, <1>9, <1>10, PlainBest
<1> QED BY <1>11, <1>3, Zenon DEF k, q
(* A full house: the top rank held three times and the top other pair.     *)
LEMMA BestFullHouse ==
  ASSUME NEW S, Plain(S), HeldTimes(S, 4) = {}, HeldTimes(S, 3) # {},
         HeldTimes(S, 2) \ {Max(HeldTimes(S, 3))} # {}
  PROVE  Tops(S, 7, <<Max(HeldTimes(S, 3)), Max(HeldTimes(S, 2) \ {Max(HeldTimes(S, 3))})>>)
<1> DEFINE t == Max(HeldTimes(S, 3))
           R == HeldTimes(S, 2) \ {t}
           p == Max(R)
           k == <<t, p>>
<1>1. Dealt(S) /\ HeldTimes(S, 3) \subseteq Ranks /\ R \subseteq Ranks /\ R # {}
  BY HeldSets DEF Plain
<1>2. t \in HeldTimes(S, 3) /\ t \in Ranks /\ \A r \in HeldTimes(S, 3) : r <= t
  BY <1>1, TopRank
<1>3. R \subseteq HeldTimes(S, 2) /\ t \notin R
  OBVIOUS
<1>3a. \A r \in HeldTimes(S, 2) : r # t => r \in R
  OBVIOUS
<1> HIDE DEF t, R
<1>4. p \in R /\ p \in Ranks /\ \A r \in R : r <= p
  BY <1>1, TopRank
<1> HIDE DEF p
<1>5. k[1] = t /\ k[2] = p /\ k \in [1 .. 2 -> Ranks]
  BY <1>2, <1>4
<1>6. Size(7) = 2
  BY PlainSizes
<1> HIDE DEF k
<1>7. Shows(S, 7, k) /\ k \in [1 .. Size(7) -> Ranks]
  <2>1. k[2] \in HeldTimes(S, 2) \ {k[1]}
    BY <1>3, <1>4, <1>5
  <2> QED BY <2>1, <1>2, <1>5, <1>6 DEF Shows
<1>8. \A d, l : d > 7 => ~Shows(S, d, l)
  BY DEF Shows
<1>9. ASSUME NEW l, Shows(S, 7, l)
      PROVE  NotAbove(l, k, Size(7))
  <2>1. l[1] \in HeldTimes(S, 3) /\ l[2] \in HeldTimes(S, 2) \ {l[1]}
    BY <1>9 DEF Shows
  <2>2. l[1] <= t /\ (l[1] = t => l[2] <= p)
    BY <2>1, <1>2, <1>4, <1>3a
  <2> QED BY <2>2, <1>5, <1>6 DEF NotAbove
<1>10. Tops(S, 7, k)
  BY <1>7, <1>8, <1>9, PlainBest
<1> QED BY <1>10, Zenon DEF k, p, R, t

(* Three of a kind: no other rank is held twice.                           *)
LEMMA BestTrips ==
  ASSUME NEW S, Plain(S), HeldTimes(S, 4) = {}, HeldTimes(S, 3) # {},
         HeldTimes(S, 2) \ {Max(HeldTimes(S, 3))} = {}
  PROVE  Tops(S, 4, <<Max(HeldTimes(S, 3))>> \o TakeTop(HeldTimes(S, 1) \ {Max(HeldTimes(S, 3))}, 2))
<1> DEFINE t == Max(HeldTimes(S, 3))
           Q == Rest(S, {t})
           k == <<t>> \o TakeTop(Q, 2)
<1>1. Dealt(S) /\ HeldTimes(S, 3) \subseteq Ranks /\ HeldTimes(S, 3) \subseteq HeldTimes(S, 2)
  BY HeldSets DEF Plain
<1>2. t \in HeldTimes(S, 3) /\ t \in Ranks
  BY <1>1, TopRank
<1>3. HeldTimes(S, 2) \subseteq {t} /\ HeldTimes(S, 1) \ {t} = Q
  BY DEF Rest
<1> HIDE DEF t
<1>4. Cardinality(OfRank(S, t)) <= 3
  <2>1. ~ (Cardinality(OfRank(S, t)) >= 4) /\ Cardinality(OfRank(S, t)) \in Nat
    BY <1>1, <1>2, HeldSets
  <2> QED BY <2>1
<1>5. Q \subseteq Ranks /\ Cardinality(Q) >= 2
  <2>1. t # t + 1
    BY <1>2 DEF Ranks
  <2> QED BY <2>1, <1>1, <1>3, <1>4, RestSize
<1> HIDE DEF Q
<1>5a. 2 <= Cardinality(Q) /\ 2 \in Nat
  BY <1>5
<1>6. OneThen(k, t, 2, Q)
  BY <1>2, <1>5, <1>5a, JoinedOne
<1> HIDE DEF k
<1>7. Size(4) = 3
  BY PlainSizes
<1>8. Shows(S, 4, k) /\ k \in [1 .. Size(4) -> Ranks]
  BY <1>2, <1>6, <1>7 DEF Shows, Q, OneThen
<1>9. \A d, l : d > 4 => ~Shows(S, d, l)
  <2> SUFFICES ASSUME NEW l, Shows(S, 7, l)  PROVE FALSE
    BY DEF Shows
  <2> QED BY <1>1, <1>3 DEF Shows
<1>10. ASSUME NEW l, Shows(S, 4, l)
       PROVE  NotAbove(l, k, Size(4))
  <2>1. l[1] = t /\ Ends(l, 1, 2, Q)
    BY <1>10, <1>1, <1>3 DEF Shows, Q
  <2>2. \A i \in 1 .. 2 : l[1 + i] <= TakeTop(Q, 2)[i]
    BY <2>1, <1>5, <1>5a, TailBelow
  <2>3. k[1] = t /\ \A i \in 1 .. 2 : l[1 + i] <= k[1 + i]
    BY <2>2, <1>6 DEF OneThen
  <2>4. \A i \in 1 .. 3 : l[i] <= k[i]
    <3>1. l[1 + 1] <= k[1 + 1] /\ l[1 + 2] <= k[1 + 2] /\ l[1] <= k[1]
      BY <2>1, <2>3, <1>2 DEF Ranks
    <3> QED BY <3>1
  <2> QED BY <2>4, <1>7 DEF NotAbove
<1>11. Tops(S, 4, k)
  BY <1>8, <1>9, <1>10, PlainBest
<1> QED BY <1>11, <1>3, Zenon DEF k, t

(* Two pairs: the two top ranks held twice.                                *)
LEMMA BestTwoPair ==
  ASSUME NEW S, Plain(S), HeldTimes(S, 3) = {}, HeldTimes(S, 2) # {},
         HeldTimes(S, 2) # {Max(HeldTimes(S, 2))}
  PROVE  LET q == Max(HeldTimes(S, 2))
             p == Max(HeldTimes(S, 2) \ {q})
         IN  Tops(S, 3, <<q, p>> \o TakeTop(HeldTimes(S, 1) \ {q, p}, 1))
<1> DEFINE q == Max(HeldTimes(S, 2))
           R == HeldTimes(S, 2) \ {q}
           p == Max(R)
           Q == Rest(S, {q, p})
           k == <<q, p>> \o TakeTop(Q, 1)
<1>1. Dealt(S) /\ HeldTimes(S, 2) \subseteq Ranks /\ HeldTimes(S, 4) = {} /\ R \subseteq Ranks
  BY HeldSets DEF Plain
<1>2. q \in HeldTimes(S, 2) /\ q \in Ranks /\ \A r \in HeldTimes(S, 2) : r <= q
  BY <1>1, TopRank
<1>3. R # {} /\ R \subseteq HeldTimes(S, 2) /\ q \notin R /\ \A r \in HeldTimes(S, 2) : r # q => r \in R
  BY <1>2
<1>3a. HeldTimes(S, 1) \ {q, p} = Q
  BY DEF Rest
<1> HIDE DEF q, R
<1>4. p \in R /\ p \in Ranks /\ \A r \in R : r <= p
  BY <1>1, <1>3, TopRank
<1> HIDE DEF p
<1>4a. p \in HeldTimes(S, 2) /\ q # p /\ q > p
  <2>1. p \in HeldTimes(S, 2) /\ q # p /\ p <= q
    BY <1>2, <1>3, <1>4
  <2> QED BY <2>1, <1>2, <1>4 DEF Ranks
<1>5. \A r \in Ranks : Cardinality(OfRank(S, r)) <= 2
  <2>1. \A r \in Ranks : ~ (Cardinality(OfRank(S, r)) >= 3) /\ Cardinality(OfRank(S, r)) \in Nat
    BY <1>1, HeldSets
  <2> QED BY <2>1
<1>6. Q \subseteq Ranks /\ Cardinality(Q) >= 1
  BY <1>1, <1>2, <1>4, <1>4a, <1>5, RestSize
<1> HIDE DEF Q
<1>6a. 1 <= Cardinality(Q) /\ 1 \in Nat
  BY <1>6
<1>7. TwoThen(k, q, p, 1, Q)
  BY <1>2, <1>4, <1>6, <1>6a, JoinedTwo
<1> HIDE DEF k
<1>8. Size(3) = 3
  BY PlainSizes
<1>9. Shows(S, 3, k) /\ k \in [1 .. Size(3) -> Ranks]
  BY <1>2, <1>4a, <1>7, <1>8 DEF Shows, Q, TwoThen
<1>10. \A d, l : d > 3 => ~Shows(S, d, l)
  BY <1>1 DEF Shows
<1>11. ASSUME NEW l, Shows(S, 3, l)
       PROVE  NotAbove(l, k, Size(3))
  <2>1. /\ l[1] \in HeldTimes(S, 2) /\ l[2] \in HeldTimes(S, 2) /\ l[1] > l[2]
        /\ Ends(l, 2, 1, Rest(S, {l[1], l[2]}))
    BY <1>11 DEF Shows
  <2>2. l[1] <= q /\ l[1] \in Ranks /\ l[2] \in Ranks
    BY <2>1, <1>1, <1>2
  <2>3. l[1] = q => l[2] <= p
    <3> SUFFICES ASSUME l[1] = q PROVE l[2] <= p
      OBVIOUS
    <3>1. l[2] # q
      BY <2>1, <2>2 DEF Ranks
    <3> QED BY <3>1, <2>1, <1>3, <1>4
  <2>4. l[1] = q /\ l[2] = p => l[3] <= k[3]
    <3> SUFFICES ASSUME l[1] = q, l[2] = p PROVE l[3] <= k[3]
      OBVIOUS
    <3>1. Ends(l, 2, 1, Q)
      BY <2>1 DEF Q
    <3>2. \A i \in 1 .. 1 : l[2 + i] <= TakeTop(Q, 1)[i]
      BY <3>1, <1>6, <1>6a, TailBelow, 2 \in Nat
    <3>3. l[2 + 1] <= k[2 + 1]
      BY <3>2, <1>7 DEF TwoThen
    <3> QED BY <3>3
  <2>5. k[1] = q /\ k[2] = p
    BY <1>7 DEF TwoThen
  <2>6. \A i \in 1 .. 3 : (\A j \in 1 .. i - 1 : l[j] = k[j]) => l[i] <= k[i]
    <3> SUFFICES ASSUME NEW i \in 1 .. 3, \A j \in 1 .. i - 1 : l[j] = k[j]
                 PROVE  l[i] <= k[i]
      OBVIOUS
    <3>1. CASE i = 1
      BY <3>1, <2>2, <2>5
    <3>2. CASE i = 2
      <4>1. l[1] = k[1]
        BY <3>2
      <4> QED BY <4>1, <3>2, <2>3, <2>5
    <3>3. CASE i = 3
      <4>1. l[1] = k[1] /\ l[2] = k[2]
        BY <3>3
      <4> QED BY <4>1, <3>3, <2>4, <2>5
    <3> QED BY <3>1, <3>2, <3>3
  <2> QED BY <2>6, <1>8 DEF NotAbove
<1>12. Tops(S, 3, k)
  BY <1>9, <1>10, <1>11, PlainBest
<1> QED BY <1>12, <1>3a, Zenon DEF k, p, R, q

(* One pair: no other rank is held twice.                                  *)
LEMMA BestPair ==
  ASSUME NEW S, Plain(S), HeldTimes(S, 3) = {}, HeldTimes(S, 2) # {},
         HeldTimes(S, 2) = {Max(HeldTimes(S, 2))}
  PROVE  Tops(S, 2, <<Max(HeldTimes(S, 2))>> \o TakeTop(HeldTimes(S, 1) \ {Max(HeldTimes(S, 2))}, 3))
<1> DEFINE t == Max(HeldTimes(S, 2))
           Q == Rest(S, {t})
           k == <<t>> \o TakeTop(Q, 3)
<1>1. Dealt(S) /\ HeldTimes(S, 2) \subseteq Ranks /\ HeldTimes(S, 4) = {}
  BY HeldSets DEF Plain
<1>2. t \in HeldTimes(S, 2) /\ t \in Ranks
  BY <1>1, TopRank
<1>3. HeldTimes(S, 2) = {t} /\ HeldTimes(S, 1) \ {t} = Q
  BY DEF Rest
<1> HIDE DEF t
<1>4. Cardinality(OfRank(S, t)) <= 2
  <2>1. ~ (Cardinality(OfRank(S, t)) >= 3) /\ Cardinality(OfRank(S, t)) \in Nat
    BY <1>1, <1>2, HeldSets
  <2> QED BY <2>1
<1>5. Q \subseteq Ranks /\ Cardinality(Q) >= 3
  <2>1. t # t + 1
    BY <1>2 DEF Ranks
  <2>2. HeldTimes(S, 2) \subseteq {t}
    BY <1>3
  <2> QED BY <2>1, <2>2, <1>1, <1>4, RestSize
<1> HIDE DEF Q
<1>5a. 3 <= Cardinality(Q) /\ 3 \in Nat
  BY <1>5
<1>6. OneThen(k, t, 3, Q)
  BY <1>2, <1>5, <1>5a, JoinedOne
<1> HIDE DEF k
<1>7. Size(2) = 4
  BY PlainSizes
<1>8. Shows(S, 2, k) /\ k \in [1 .. Size(2) -> Ranks]
  BY <1>2, <1>6, <1>7 DEF Shows, Q, OneThen
<1>9. \A d, l : d > 2 => ~Shows(S, d, l)
  <2> SUFFICES ASSUME NEW l, Shows(S, 3, l)  PROVE FALSE
    BY <1>1 DEF Shows
  <2>1. l[1] = t /\ l[2] = t /\ l[1] > l[2]
    BY <1>3 DEF Shows
  <2> QED BY <2>1, <1>2 DEF Ranks
<1>10. ASSUME NEW l, Shows(S, 2, l)
       PROVE  NotAbove(l, k, Size(2))
  <2>1. l[1] = t /\ Ends(l, 1, 3, Q)
    BY <1>10, <1>1, <1>3 DEF Shows, Q
  <2>2. \A i \in 1 .. 3 : l[1 + i] <= TakeTop(Q, 3)[i]
    BY <2>1, <1>5, <1>5a, TailBelow
  <2>3. k[1] = t /\ \A i \in 1 .. 3 : l[1 + i] <= k[1 + i]
    BY <2>2, <1>6 DEF OneThen
  <2>4. \A i \in 1 .. 4 : l[i] <= k[i]
    <3>1. l[1 + 1] <= k[1 + 1] /\ l[1 + 2] <= k[1 + 2] /\ l[1 + 3] <= k[1 + 3] /\ l[1] <= k[1]
      BY <2>1, <2>3, <1>2 DEF Ranks
    <3> QED BY <3>1
  <2> QED BY <2>4, <1>7 DEF NotAbove
<1>11. Tops(S, 2, k)
  BY <1>8, <1>9, <1>10, PlainBest
<1> QED BY <1>11, <1>3, Zenon DEF k, t

(* High card: no rank is held twice.                                       *)
LEMMA BestHigh ==
  ASSUME NEW S, Plain(S), HeldTimes(S, 2) = {}
  PROVE  Tops(S, 1, TakeTop(HeldTimes(S, 1), 5))
<1> DEFINE Q == Rest(S, {})
           k == TakeTop(Q, 5)
<1>1. Dealt(S) /\ HeldTimes(S, 3) = {} /\ HeldTimes(S, 4) = {}
  BY HeldSets DEF Plain
<1>2. Q \subseteq Ranks /\ Cardinality(Q) >= 5
  BY <1>1, RestSize, 1 # 2
<1>3. HeldTimes(S, 1) = Q
  BY DEF Rest
<1> HIDE DEF Q
<1>2a. 5 <= Cardinality(Q) /\ 5 \in Nat
  BY <1>2
<1>4. NoneThen(k, 5, Q)
  BY <1>2, <1>2a, JoinedNone
<1> HIDE DEF k
<1>5. Size(1) = 5
  BY PlainSizes
<1>6. Shows(S, 1, k) /\ k \in [1 .. Size(1) -> Ranks]
  BY <1>4, <1>5 DEF Shows, Q, NoneThen
<1>7. \A d, l : d > 1 => ~Shows(S, d, l)
  BY <1>1 DEF Shows
<1>8. ASSUME NEW l, Shows(S, 1, l)
      PROVE  NotAbove(l, k, Size(1))
  <2>1. Ends(l, 0, 5, Q)
    BY <1>8 DEF Shows, Q
  <2>2. \A i \in 1 .. 5 : l[0 + i] <= TakeTop(Q, 5)[i]
    BY <2>1, <1>2, <1>2a, TailBelow, 0 \in Nat
  <2>3. \A i \in 1 .. 5 : l[0 + i] <= k[0 + i] /\ 0 + i = i
    BY <2>2, <1>4 DEF NoneThen
  <2>4. \A i \in 1 .. 5 : l[i] <= k[i]
    BY <2>3
  <2> QED BY <2>4, <1>5 DEF NotAbove
<1>9. Tops(S, 1, k)
  BY <1>6, <1>7, <1>8, PlainBest
<1> QED BY <1>9, <1>3, Zenon DEF k

-----------------------------------------------------------------------------

(* The score of a suit held five times.                                    *)
LEMMA FlushScore ==
  ASSUME NEW S, Dealt(S), NEW s \in Suits, Cardinality(Lane(S, s)) >= 5
  PROVE  \E c, k : Tops(S, c, k) /\ ScoreFlush(Lane(S, s)) = Points(c, k)
<1> DEFINE h == StraightHigh(Lane(S, s))
<1>1. Lane(S, s) \subseteq Ranks
  BY LaneRanks
<1>2. h = 0 \/ h \in 5 .. 14
  BY <1>1, StraightHighIs
<1>3. CASE h = 0
  <2>1. Tops(S, Flush, TakeTop(Lane(S, s), 5))
    BY <1>3, BestFlush
  <2>2. ScoreFlush(Lane(S, s)) = Packed(Flush, TakeTop(Lane(S, s), 5))
    BY <1>3 DEF ScoreFlush
  <2>3. ~InRow(Flush)
    BY Kinds DEF InRow
  <2> QED BY <2>1, <2>2, <2>3 DEF Points
<1>4. CASE h \in 5 .. 14
  <2>1. Tops(S, StraightFlush, RowFrom(h))
    BY <1>4, BestStraightFlush
  <2>2. ScoreFlush(Lane(S, s)) = Packed(StraightFlush, <<h>>)
    BY <1>4 DEF ScoreFlush
  <2>3. InRow(StraightFlush) /\ RowFrom(h)[1] = h
    BY <1>4, Kinds, RowHand DEF InRow
  <2>4. Points(StraightFlush, RowFrom(h)) = Packed(StraightFlush, <<h>>)
    BY <2>3 DEF Points
  <2> HIDE DEF h
  <2> QED BY <2>1, <2>2, <2>4
<1> QED BY <1>2, <1>3, <1>4

(* The score of cards without a flush or a straight.                       *)
LEMMA PlainScore ==
  ASSUME NEW S, Plain(S), NEW c1, c1 = HeldTimes(S, 1), NEW c2, c2 = HeldTimes(S, 2),
         NEW c3, c3 = HeldTimes(S, 3), NEW c4, c4 = HeldTimes(S, 4)
  PROVE  \E c, k : /\ Tops(S, c, k)
                   /\ Points(c, k) = IF c4 # {} THEN Packed(FourOfAKind, <<Max(c4)>> \o TakeTop(c1 \ c4, 1))
                                     ELSE IF c3 # {} THEN ScoreTrips(c1, c2, c3)
                                     ELSE IF c2 # {} THEN ScorePairs(c1, c2)
                                     ELSE Packed(HighCard, TakeTop(c1, 5))
<1>1. \A k : \A c \in {1, 2, 3, 4, 7, 8} : Points(c, k) = Packed(c, k)
  BY PlainSizes DEF Points
<1>2. CASE c4 # {}
  <2> DEFINE k == <<Max(c4)>> \o TakeTop(c1 \ c4, 1)
  <2>1. Tops(S, 8, k)
    BY <1>2, BestQuads
  <2> HIDE DEF k
  <2>2. Points(8, k) = Packed(FourOfAKind, k)
    BY <1>1, Kinds
  <2> QED BY <2>1, <2>2, <1>2 DEF k
<1>3. CASE c4 = {} /\ c3 # {} /\ c2 \ {Max(c3)} # {}
  <2> DEFINE k == <<Max(c3), Max(c2 \ {Max(c3)})>>
  <2>1. Tops(S, 7, k)
    BY <1>3, BestFullHouse
  <2>2. ScoreTrips(c1, c2, c3) = Packed(FullHouse, k)
    BY <1>3 DEF ScoreTrips
  <2> HIDE DEF k
  <2>3. Points(7, k) = Packed(FullHouse, k)
    BY <1>1, Kinds
  <2> QED BY <2>1, <2>2, <2>3, <1>3
<1>4. CASE c4 = {} /\ c3 # {} /\ c2 \ {Max(c3)} = {}
  <2> DEFINE k == <<Max(c3)>> \o TakeTop(c1 \ {Max(c3)}, 2)
  <2>1. Tops(S, 4, k)
    BY <1>4, BestTrips
  <2>2. ScoreTrips(c1, c2, c3) = Packed(ThreeOfAKind, k)
    BY <1>4 DEF ScoreTrips
  <2> HIDE DEF k
  <2>3. Points(4, k) = Packed(ThreeOfAKind, k)
    BY <1>1, Kinds
  <2> QED BY <2>1, <2>2, <2>3, <1>4
<1>5. CASE c4 = {} /\ c3 = {} /\ c2 # {} /\ c2 # {Max(c2)}
  <2> DEFINE q == Max(c2)
             p == Max(c2 \ {q})
             k == <<q, p>> \o TakeTop(c1 \ {q, p}, 1)
  <2>1. Tops(S, 3, k)
    BY <1>5, BestTwoPair
  <2>2. ScorePairs(c1, c2) = Packed(TwoPair, k)
    BY <1>5 DEF ScorePairs
  <2> HIDE DEF k
  <2>3. Points(3, k) = Packed(TwoPair, k)
    BY <1>1, Kinds
  <2> QED BY <2>1, <2>2, <2>3, <1>5
<1>6. CASE c4 = {} /\ c3 = {} /\ c2 # {} /\ c2 = {Max(c2)}
  <2> DEFINE k == <<Max(c2)>> \o TakeTop(c1 \ {Max(c2)}, 3)
  <2>1. Tops(S, 2, k)
    BY <1>6, BestPair
  <2>2. ScorePairs(c1, c2) = Packed(OnePair, k)
    BY <1>6 DEF ScorePairs
  <2> HIDE DEF k
  <2>3. Points(2, k) = Packed(OnePair, k)
    BY <1>1, Kinds
  <2> QED BY <2>1, <2>2, <2>3, <1>6
<1>7. CASE c4 = {} /\ c3 = {} /\ c2 = {}
  <2> DEFINE k == TakeTop(c1, 5)
  <2>1. Tops(S, 1, k)
    BY <1>7, BestHigh
  <2> HIDE DEF k
  <2>2. Points(1, k) = Packed(HighCard, k)
    BY <1>1, Kinds
  <2> QED BY <2>1, <2>2, <1>7 DEF k
<1> QED BY <1>2, <1>3, <1>4, <1>5, <1>6, <1>7

(* The score of five to seven cards is that of the best hand made of them. *)
LEMMA ScoreTops ==
  ASSUME NEW S, Dealt(S)
  PROVE  \E c, k : Tops(S, c, k) /\ Score(S) = Points(c, k)
<1> DEFINE suited == {s \in Suits : Cardinality(Lane(S, s)) >= 5}
           c1 == HeldTimes(S, 1)
           c2 == HeldTimes(S, 2)
           c3 == HeldTimes(S, 3)
           c4 == HeldTimes(S, 4)
<1>1. c1 = RanksOf(S) /\ c1 \subseteq Ranks
  BY HeldSets
<1>2. CASE suited # {}
  <2>1. PICK s \in Suits : Cardinality(Lane(S, s)) >= 5
    BY <1>2
  <2>2. suited = {s}
    BY <2>1, NotTwo
  <2>3. Min(suited) = s
    <3>1. Min({s}) = s
      BY DEF Min, Suits
    <3> QED BY <2>2, <3>1
  <2>4. Score(S) = ScoreFlush(Lane(S, s))
    <3>1. Score(S) = ScoreFlush(Lane(S, Min(suited)))
      BY <1>2 DEF Score
    <3> HIDE DEF suited
    <3> QED BY <3>1, <2>3
  <2> QED BY <2>1, <2>4, FlushScore
<1>3. CASE suited = {} /\ StraightHigh(c1) # 0
  <2> DEFINE h == StraightHigh(c1)
  <2>1. h \in 5 .. 14 /\ NoFlush(S)
    BY <1>1, <1>3, StraightHighIs DEF NoFlush
  <2>2. Tops(S, Straight, RowFrom(h))
    BY <2>1, <1>3, <1>1, BestStraight
  <2>3. Score(S) = Packed(Straight, <<h>>)
    BY <1>3, <2>1 DEF Score
  <2>4. InRow(Straight) /\ RowFrom(h)[1] = h
    BY <2>1, Kinds, RowHand DEF InRow
  <2>5. Points(Straight, RowFrom(h)) = Packed(Straight, <<h>>)
    BY <2>4 DEF Points
  <2> HIDE DEF h
  <2> QED BY <2>2, <2>3, <2>5
<1>4. CASE suited = {} /\ StraightHigh(c1) = 0
  <2>1. NoFlush(S) /\ StraightHigh(RanksOf(S)) = 0
    BY <1>1, <1>4 DEF NoFlush
  <2>2. Plain(S)
    BY <2>1, PlainWhen
  <2>3. Score(S) = IF c4 # {} THEN Packed(FourOfAKind, <<Max(c4)>> \o TakeTop(c1 \ c4, 1))
                   ELSE IF c3 # {} THEN ScoreTrips(c1, c2, c3)
                   ELSE IF c2 # {} THEN ScorePairs(c1, c2)
                   ELSE Packed(HighCard, TakeTop(c1, 5))
    BY <1>4 DEF Score
  <2>4. \E c, k : Tops(S, c, k) /\ Points(c, k) = Score(S)
    <3>1. c1 = HeldTimes(S, 1) /\ c2 = HeldTimes(S, 2) /\ c3 = HeldTimes(S, 3) /\ c4 = HeldTimes(S, 4)
      OBVIOUS
    <3> HIDE DEF c1, c2, c3, c4
    <3>2. \E c, k : /\ Tops(S, c, k)
                    /\ Points(c, k) = IF c4 # {} THEN Packed(FourOfAKind, <<Max(c4)>> \o TakeTop(c1 \ c4, 1))
                                      ELSE IF c3 # {} THEN ScoreTrips(c1, c2, c3)
                                      ELSE IF c2 # {} THEN ScorePairs(c1, c2)
                                      ELSE Packed(HighCard, TakeTop(c1, 5))
      BY <3>1, <2>2, PlainScore
    <3> QED BY <3>2, <2>3
  <2> QED BY <2>4
<1> QED BY <1>2, <1>3, <1>4

-----------------------------------------------------------------------------

(* Five cards of the deck.                                                 *)
Five(f) == f \subseteq Cards /\ Cardinality(f) = 5

(* The cards are the hand and nothing else: its ranks are those held, each *)
(* as often as the hand asks.                                              *)
JustHand(f, c, k) ==
  /\ RanksOf(f) = {Real(k[i]) : i \in 1 .. Size(c)}
  /\ \A i \in 1 .. Size(c) : Cardinality(OfRank(f, Real(k[i]))) = Times(c, i)

(* Five cards that make a hand are just that hand.                         *)
LEMMA FiveAreTheHand ==
  ASSUME NEW f, Five(f), NEW c, NEW k, Made(f, c, k)
  PROVE  JustHand(f, c, k)
<1>1. f \subseteq Cards /\ Cardinality(f) = 5 /\ MadeHand(c, k) /\ Has(f, c, k) /\ c \in 1 .. 9
  BY DEF Five, Made, MadeHand
<1> DEFINE n == Size(c)
           t == TimesOf(c)
           rk == RealOf(c, k)
<1>2. /\ n \in 1 .. 5 /\ t \in [1 .. n -> Nat] /\ Asked(t, n) = 5
      /\ \A i \in 1 .. n : t[i] = Times(c, i) /\ Times(c, i) \in 1 .. 4
  BY <1>1, FiveCards
<1>3. DistinctRanks(rk, n) /\ \A i \in 1 .. n : rk[i] = Real(k[i]) /\ Real(k[i]) \in Ranks
  BY <1>1, HandRanks
<1>4. Meets(f, t, rk, n)
  BY <1>1, HasMeets
<1> HIDE DEF n, t, rk
<1>5. \A r \in Ranks : Cardinality(OfRank(f, r)) = Owed(t, rk, n)[r]
  <2>1. n \in 1 .. 5 /\ t \in [1 .. n -> Nat] /\ Asked(t, n) = 5
    BY <1>2
  <2>2. f \subseteq Cards /\ Asked(t, n) = Cardinality(f) /\ DistinctRanks(rk, n)
    BY <1>1, <1>3, <2>1
  <2> QED BY <2>1, <2>2, <1>4, AskedIsThere
<1>6. /\ \A i \in 1 .. n : Owed(t, rk, n)[rk[i]] = t[i]
      /\ \A r \in Ranks : (\A i \in 1 .. n : rk[i] # r) => Owed(t, rk, n)[r] = 0
  <2>1. n \in Nat /\ n <= n
    BY <1>2
  <2> QED BY <2>1, <1>3, OwedIs
<1>7. \A i \in 1 .. n : Cardinality(OfRank(f, Real(k[i]))) = Times(c, i)
  BY <1>2, <1>3, <1>5, <1>6
<1>8. HeldTimes(f, 1) = RanksOf(f) /\ HeldTimes(f, 1) = {r \in Ranks : Cardinality(OfRank(f, r)) >= 1}
  BY <1>1, HeldIs
<1>9. \A i \in 1 .. n : Real(k[i]) \in RanksOf(f)
  BY <1>2, <1>3, <1>7, <1>8
<1>10. ASSUME NEW r \in RanksOf(f)
       PROVE  \E i \in 1 .. n : r = Real(k[i])
  <2> SUFFICES ASSUME \A i \in 1 .. n : rk[i] # r  PROVE FALSE
    BY <1>3
  <2>1. r \in Ranks /\ Cardinality(OfRank(f, r)) >= 1
    BY <1>10, <1>8
  <2>2. Cardinality(OfRank(f, r)) = 0
    BY <2>1, <1>5, <1>6
  <2> QED BY <2>1, <2>2
<1>11. RanksOf(f) = {Real(k[i]) : i \in 1 .. n}
  BY <1>9, <1>10
<1> QED BY <1>7, <1>11 DEF JustHand, n

(* How often a card's rank is held.                                        *)
LEMMA CountIs == \A f, r : CountOf(f, r) = Cardinality(OfRank(f, r))
BY DEF CountOf, OfRank

(* The ranks held j times are those the hand asks j times.                 *)
LEMMA HeldAsked ==
  ASSUME NEW f, Five(f), NEW c, NEW k, Made(f, c, k), NEW j
  PROVE  {r \in RanksOf(f) : CountOf(f, r) = j}
           = {Real(k[i]) : i \in {x \in 1 .. Size(c) : Times(c, x) = j}}
<1>1. RanksOf(f) = {Real(k[i]) : i \in 1 .. Size(c)}
  BY FiveAreTheHand DEF JustHand
<1>2. \A i \in 1 .. Size(c) : CountOf(f, Real(k[i])) = Times(c, i)
  BY FiveAreTheHand, CountIs DEF JustHand
<1> QED BY <1>1, <1>2

(* A high card, a straight and a flush have five ranks, once each.         *)
LEMMA FiveRanks ==
  ASSUME NEW c \in {1, 5, 6, 9}
  PROVE  Size(c) = 5 /\ \A x \in 1 .. 5 : Times(c, x) = 1
<1> USE DEF FourOfAKind, FullHouse, ThreeOfAKind, TwoPair, OnePair
<1>1. Size(c) = 5
  BY DEF Size
<1>2. ASSUME NEW x \in 1 .. 5 PROVE Times(c, x) = 1
  <2>1. c # 8 /\ c # 7 /\ c # 4 /\ c # 3 /\ c # 2
    OBVIOUS
  <2>2. Times(c, x) = IF c = 8 /\ x = 1 THEN 4
                      ELSE IF c \in {7, 4} /\ x = 1 THEN 3
                      ELSE IF \/ c = 7 /\ x = 2
                              \/ c = 3 /\ x <= 2
                              \/ c = 2 /\ x = 1 THEN 2
                      ELSE 1
    BY Zenon DEF Times
  <2> QED BY <2>1, <2>2
<1> QED BY <1>1, <1>2

(* How many ranks are held two, three and four times, kind by kind.        *)
LEMMA HeldCounts ==
  ASSUME NEW f, Five(f), NEW c, NEW k, Made(f, c, k)
  PROVE  /\ Held(f, 4) = IF c = 8 THEN 1 ELSE 0
         /\ Held(f, 3) = IF c \in {7, 4} THEN 1 ELSE 0
         /\ Held(f, 2) = IF c = 3 THEN 2 ELSE IF c \in {7, 2} THEN 1 ELSE 0
<1>1. MadeHand(c, k) /\ c \in 1 .. 9
  BY DEF Made, MadeHand
<1>2. DistinctRanks(RealOf(c, k), Size(c)) /\ \A i \in 1 .. Size(c) : RealOf(c, k)[i] = Real(k[i])
  BY <1>1, HandRanks
<1> DEFINE idx(j) == {x \in 1 .. Size(c) : Times(c, x) = j}
           img(I) == {Real(k[i]) : i \in I}
<1>3. ASSUME NEW j PROVE Held(f, j) = Cardinality(img(idx(j)))
  <2>1. {r \in RanksOf(f) : CountOf(f, r) = j} = img(idx(j))
    BY HeldAsked
  <2> HIDE DEF idx, img
  <2> QED BY <2>1, Zenon DEF Held
<1>4. \A a : Cardinality(img({a})) = 1
  <2>1. \A a : img({a}) = {Real(k[a])}
    OBVIOUS
  <2> QED BY <2>1, FS_Singleton
<1>5. Cardinality(img({})) = 0
  <2>1. img({}) = {}
    OBVIOUS
  <2> QED BY <2>1, FS_EmptySet, Zenon
<1>6. ASSUME c = 3 PROVE Cardinality(img({1, 2})) = 2
  <2>1. Size(3) = 3 /\ 1 \in 1 .. 3 /\ 2 \in 1 .. 3
    BY PlainSizes
  <2>2. Real(k[1]) # Real(k[2])
    BY <1>2, <1>6, <2>1 DEF DistinctRanks
  <2>3. IsFiniteSet({Real(k[1])}) /\ Cardinality({Real(k[1])}) = 1
    BY FS_Singleton
  <2>4. Real(k[2]) \notin {Real(k[1])}
    BY <2>2
  <2>5. Cardinality({Real(k[1])} \union {Real(k[2])}) = 1 + 1
    BY <2>3, <2>4, FS_AddElement
  <2>6. {Real(k[1])} \union {Real(k[2])} = img({1, 2})
    OBVIOUS
  <2>7. Cardinality(img({1, 2})) = 1 + 1
    BY <2>5, <2>6, Zenon
  <2> QED BY <2>7
<1>7. /\ idx(4) = IF c = 8 THEN {1} ELSE {}
      /\ idx(3) = IF c \in {7, 4} THEN {1} ELSE {}
      /\ idx(2) = IF c = 3 THEN {1, 2} ELSE IF c = 7 THEN {2} ELSE IF c = 2 THEN {1} ELSE {}
  <2>3. CASE c = 8
    <3>1. 1 .. 2 = {1, 2}
      OBVIOUS
    <3> QED BY <3>1, <2>3, PlainSizes
  <2>4. CASE c = 7
    <3>1. 1 .. 2 = {1, 2}
      OBVIOUS
    <3> QED BY <3>1, <2>4, PlainSizes
  <2>5. CASE c = 4
    <3>1. 1 .. 3 = {1, 2, 3}
      OBVIOUS
    <3> QED BY <3>1, <2>5, PlainSizes
  <2>6. CASE c = 3
    <3>1. 1 .. 3 = {1, 2, 3}
      OBVIOUS
    <3> QED BY <3>1, <2>6, PlainSizes
  <2>7. CASE c = 2
    <3>1. 1 .. 4 = {1, 2, 3, 4}
      OBVIOUS
    <3> QED BY <3>1, <2>7, PlainSizes
  <2>8. CASE c \in {1, 5, 6, 9}
    <3>1. Size(c) = 5 /\ \A x \in 1 .. 5 : Times(c, x) = 1
      BY <2>8, FiveRanks, Zenon
    <3> QED BY <3>1, <2>8
  <2> QED BY <2>3, <2>4, <2>5, <2>6, <2>7, <2>8, <1>1
<1> HIDE DEF idx, img
<1>8. Held(f, 4) = IF c = 8 THEN 1 ELSE 0
  BY <1>3, <1>4, <1>5, <1>7
<1>9. Held(f, 3) = IF c \in {7, 4} THEN 1 ELSE 0
  BY <1>3, <1>4, <1>5, <1>7
<1>10. Held(f, 2) = IF c = 3 THEN 2 ELSE IF c \in {7, 2} THEN 1 ELSE 0
  <2>1. CASE c = 3
    BY <2>1, <1>3, <1>6, <1>7
  <2>2. CASE c # 3
    BY <2>2, <1>3, <1>4, <1>5, <1>7
  <2> QED BY <2>1, <2>2
<1> QED BY <1>8, <1>9, <1>10

-----------------------------------------------------------------------------

(* A packed score is a positive number.                                    *)
LEMMA PackedPositive ==
  ASSUME NEW c \in 1 .. 9, NEW a, Nibbles(a)
  PROVE  Packed(c, a) \in Nat /\ Packed(c, a) > 0
<1>1. PICK p : PackedFrom(c, a, p)
  BY PackedDigits
<1>2. /\ p[0] = c /\ p[5] = Packed(c, a) /\ \A i \in 0 .. 5 : p[i] \in Nat
      /\ \A i \in 1 .. 5 : p[i] = p[i - 1] * 16 + Nibble(a, i) /\ Nibble(a, i) \in 0 .. 15
  BY <1>1 DEF PackedFrom, Nibbles
<1>3. ASSUME NEW i \in 1 .. 5, p[i - 1] > 0 PROVE p[i] > 0
  <2> DEFINE x == p[i - 1]
             y == Nibble(a, i)
  <2>1. x \in Nat /\ x > 0 /\ y \in 0 .. 15 /\ p[i] = x * 16 + y
    BY <1>2, <1>3, i - 1 \in 0 .. 5
  <2> HIDE DEF x, y
  <2> QED BY <2>1
<1>4. p[0] > 0
  BY <1>2
<1>5. p[1] > 0
  BY <1>3, <1>4, 1 \in 1 .. 5, 1 - 1 = 0
<1>6. p[2] > 0
  BY <1>3, <1>5, 2 \in 1 .. 5, 2 - 1 = 1
<1>7. p[3] > 0
  BY <1>3, <1>6, 3 \in 1 .. 5, 3 - 1 = 2
<1>8. p[4] > 0
  BY <1>3, <1>7, 4 \in 1 .. 5, 4 - 1 = 3
<1>9. p[5] > 0
  BY <1>3, <1>8, 5 \in 1 .. 5, 5 - 1 = 4
<1> QED BY <1>2, <1>9, 5 \in 0 .. 5

(* The points of a hand are packed from a category and nibbles.            *)
LEMMA PointsPacked ==
  ASSUME NEW c, NEW k, MadeHand(c, k)
  PROVE  /\ c \in 1 .. 9
         /\ \E a : Nibbles(a) /\ Points(c, k) = Packed(c, a)
         /\ Points(c, k) \in Nat /\ Points(c, k) > 0
<1>1. c \in 1 .. 9 /\ \E a : Nibbles(a) /\ Points(c, k) = Packed(c, a)
  BY HandNibbles DEF Points
<1> QED BY <1>1, PackedPositive

(* Nothing made of a better kind than the best.                            *)
LEMMA NotBetter ==
  ASSUME NEW S, NEW c, NEW k, Tops(S, c, k), NEW d, NEW l, Made(S, d, l)
  PROVE  d <= c
<1>1. MadeHand(c, k) /\ MadeHand(d, l) /\ Points(d, l) <= Points(c, k)
  BY DEF Tops, Made
<1>2. Points(c, k) \in Nat /\ Points(d, l) \in Nat /\ c \in 1 .. 9 /\ d \in 1 .. 9
  BY <1>1, PointsPacked
<1>3. ~ (c < d)
  <2> SUFFICES ASSUME c < d PROVE FALSE
    OBVIOUS
  <2>1. Points(c, k) < Points(d, l)
    BY <1>1, PointsCategory
  <2> QED BY <2>1, <1>1, <1>2
<1> QED BY <1>2, <1>3

(* All the cards are of a suit.                                            *)
AllOf(f, s) == \A x \in f : SuitOf(x) = s

(* What OneSuit counts.                                                    *)
LEMMA OneSuitIs ==
  ASSUME NEW f, Five(f)
  PROVE  OneSuit(f) <=> \E s \in Suits : AllOf(f, s)
<1>1. f \subseteq Cards /\ IsFiniteSet(f) /\ Cardinality(f) = 5
  BY CardsFinite DEF Five
<1>2. f # {}
  BY <1>1, FS_EmptySet
<1>3. \A x \in f : SuitOf(x) \in Suits
  BY <1>1, CardIs
<1> DEFINE M == {SuitOf(x) : x \in f}
<1>4. IsFiniteSet(M)
  <2>1. IsFiniteSet(Suits)
    BY FS_Interval, 0 \in Int, 3 \in Int, Zenon DEF Suits
  <2>2. M \in SUBSET Suits
    BY <1>3
  <2> HIDE DEF M
  <2> QED BY <2>1, <2>2, FS_Subset
<1>5. OneSuit(f) <=> \E s : M = {s}
  <2>1. OneSuit(f) <=> Cardinality(M) = 1
    BY DEF OneSuit
  <2> HIDE DEF M
  <2> QED BY <2>1, <1>4, FS_Singleton
<1>6. ASSUME NEW s, M = {s} PROVE s \in Suits /\ AllOf(f, s)
  BY <1>2, <1>3, <1>6 DEF AllOf
<1>7. ASSUME NEW s \in Suits, AllOf(f, s) PROVE M = {s}
  BY <1>2, <1>7 DEF AllOf
<1> HIDE DEF M
<1> QED BY <1>5, <1>6, <1>7

(* A hand of one suit is made of cards of one suit.                        *)
LEMMA SuitedHand ==
  ASSUME NEW f, Five(f), NEW c, NEW k, Made(f, c, k), SameSuit(c)
  PROVE  \E s \in Suits : AllOf(f, s)
<1>1. f \subseteq Cards /\ MadeHand(c, k) /\ c \in {6, 9}
  BY Kinds DEF Five, Made, MadeHand, SameSuit
<1>2. PICK s \in Suits : HasSuit(f, c, k, s)
  BY DEF Made, Has
<1>3. JustHand(f, c, k)
  BY FiveAreTheHand
<1>4. Size(c) = 5 /\ \A i \in 1 .. 5 : Times(c, i) = 1
  BY <1>1, FiveRanks
<1>5. \A i \in 1 .. 5 : Real(k[i]) \in Ranks
  BY <1>1, <1>4, HandRanks
<1>6. ASSUME NEW x \in f PROVE SuitOf(x) = s
  <2>1. RankOf(x) \in RanksOf(f)
    BY DEF RanksOf
  <2>2. PICK i \in 1 .. 5 : RankOf(x) = Real(k[i])
    BY <2>1, <1>3, <1>4 DEF JustHand
  <2> DEFINE O == OfRank(f, Real(k[i]))
             y == CardOf(Real(k[i]), s)
  <2>3. Cardinality(O) = 1 /\ IsFiniteSet(O)
    BY <1>1, <1>3, <1>4, CardsFinite DEF JustHand
  <2>4. y \in f /\ RankOf(y) = Real(k[i]) /\ SuitOf(y) = s
    BY <1>2, <1>4, <1>5, CardIs DEF HasSuit
  <2>5. x \in O /\ y \in O
    BY <2>2, <2>4 DEF OfRank
  <2> HIDE DEF O, y
  <2>6. x = y
    BY <2>3, <2>5, FS_Singleton
  <2> QED BY <2>4, <2>6
<1> QED BY <1>6 DEF AllOf

(* Cards of one suit hold no rank twice.                                   *)
LEMMA NoneTwice ==
  ASSUME NEW f, Five(f), NEW s \in Suits, AllOf(f, s), NEW r
  PROVE  Cardinality(OfRank(f, r)) <= 1
<1>1. f \subseteq Cards /\ IsFiniteSet(OfRank(f, r))
  BY CardsFinite DEF Five
<1>2. OfRank(f, r) \in SUBSET {CardOf(r, s)}
  BY <1>1, CardIs DEF AllOf, OfRank
<1>3. IsFiniteSet({CardOf(r, s)}) /\ Cardinality({CardOf(r, s)}) = 1
  BY FS_Singleton
<1>4. Cardinality(OfRank(f, r)) <= Cardinality({CardOf(r, s)})
  BY <1>2, <1>3, FS_Subset
<1> QED BY <1>3, <1>4

(* The same ranks in a suit.                                               *)
LEMMA InTheSuit ==
  ASSUME NEW f, Five(f), NEW s \in Suits, AllOf(f, s), NEW r \in RanksOf(f)
  PROVE  CardOf(r, s) \in f
<1>1. PICK x \in f : RankOf(x) = r
  BY DEF RanksOf
<1> QED BY <1>1, CardIs DEF AllOf, Five

(* A hand of five ranks is one of another kind too.                        *)
LEMMA OtherKind ==
  ASSUME NEW c \in {1, 5, 6, 9}, NEW d \in {1, 5, 6, 9}, InRow(c) <=> InRow(d), NEW k, MadeHand(c, k)
  PROVE  MadeHand(d, k)
<1>1. /\ Size(c) = 5 /\ Size(d) = 5
      /\ \A i \in 1 .. 5 : Times(c, i) = 1 /\ Times(d, i) = 1
  BY FiveRanks
<1>2. Falls(d, k)
  BY <1>1 DEF MadeHand, Falls
<1> QED BY <1>1, <1>2 DEF MadeHand

(* The best hand of cards of one suit is of a kind that says so.           *)
LEMMA SuitMakes ==
  ASSUME NEW f, Five(f), NEW c, NEW k, Tops(f, c, k), NEW s \in Suits, AllOf(f, s)
  PROVE  SameSuit(c)
<1>1. Made(f, c, k) /\ MadeHand(c, k) /\ c \in 1 .. 9 /\ f \subseteq Cards
  BY DEF Tops, Made, MadeHand, Five
<1>2. c \notin {2, 3, 4, 7, 8}
  <2> SUFFICES ASSUME c \in {2, 3, 4, 7, 8} PROVE FALSE
    OBVIOUS
  <2>1. Times(c, 1) \in 2 .. 4 /\ 1 \in 1 .. Size(c)
    BY PlainSizes
  <2>2. Cardinality(OfRank(f, Real(k[1]))) = Times(c, 1)
    BY <1>1, <2>1, FiveAreTheHand DEF JustHand
  <2>3. Cardinality(OfRank(f, Real(k[1]))) <= 1
    BY NoneTwice
  <2> QED BY <2>1, <2>2, <2>3
<1>3. ASSUME NEW d \in {6, 9}, c \in {1, 5}, InRow(c) <=> InRow(d)
      PROVE  FALSE
  <2>1. MadeHand(d, k)
    BY <1>1, <1>3, OtherKind
  <2>2. Size(c) = 5 /\ Size(d) = 5
    BY <1>3, FiveRanks
  <2>3. HasSuit(f, d, k, s)
    BY <1>1, <2>2, RanksHeld, InTheSuit DEF HasSuit
  <2>4. SameSuit(d)
    BY Kinds DEF SameSuit
  <2>5. Made(f, d, k)
    BY <2>1, <2>3, <2>4 DEF Made, Has
  <2>6. d <= c
    BY <2>5, NotBetter
  <2> QED BY <2>6, <1>3
<1>4. InRow(5) /\ InRow(9) /\ ~InRow(1) /\ ~InRow(6)
  BY Kinds DEF InRow
<1>5. c # 1 /\ c # 5
  BY <1>3, <1>4
<1>6. c \in {6, 9}
  BY <1>1, <1>2, <1>5
<1> QED BY <1>6, Kinds DEF SameSuit

-----------------------------------------------------------------------------

(* Cards with a row of ranks hold a straight, and cards of one suit a      *)
(* straight flush.                                                         *)
LEMMA RowMade ==
  ASSUME NEW f, Five(f), NEW h \in 5 .. 14, RowIn(RanksOf(f), h)
  PROVE  /\ Made(f, 5, RowFrom(h))
         /\ \A s \in Suits : AllOf(f, s) => Made(f, 9, RowFrom(h))
<1> DEFINE k == RowFrom(h)
<1>1. /\ InRow(5) /\ InRow(9) /\ ~SameSuit(5) /\ SameSuit(9) /\ 5 \in 1 .. 9 /\ 9 \in 1 .. 9
      /\ f \subseteq Cards
  BY Kinds DEF InRow, SameSuit, Five
<1>2. MadeHand(5, k) /\ MadeHand(9, k) /\ Size(5) = 5 /\ Size(9) = 5
  BY <1>1, RowHand
<1>3. \A i \in 1 .. 5 : Real(k[i]) \in RanksOf(f)
  <2> TAKE i \in 1 .. 5
  <2>1. k[i] = h - i + 1
    BY DEF RowFrom
  <2> QED BY <2>1 DEF RowIn
<1> HIDE DEF k
<1>4. Meets(f, TimesOf(5), RealOf(5, k), Size(5))
  <2> SUFFICES ASSUME NEW i \in 1 .. 5 PROVE Cardinality(OfRank(f, RealOf(5, k)[i])) >= TimesOf(5)[i]
    BY <1>2 DEF Meets
  <2>1. Times(5, i) = 1
    BY FiveRanks
  <2>2. TimesOf(5)[i] = 1
    BY <1>2, <2>1 DEF TimesOf
  <2>3. HeldTimes(f, 1) = RanksOf(f) /\ HeldTimes(f, 1) = {r \in Ranks : Cardinality(OfRank(f, r)) >= 1}
    BY <1>1, HeldIs
  <2>4. RealOf(5, k)[i] = Real(k[i])
    BY <1>2 DEF RealOf
  <2> QED BY <1>3, <2>2, <2>3, <2>4
<1>5. Made(f, 5, k)
  BY <1>1, <1>2, <1>4 DEF Made, Has
<1>6. ASSUME NEW s \in Suits, AllOf(f, s) PROVE Made(f, 9, k)
  <2>1. HasSuit(f, 9, k, s)
    BY <1>2, <1>3, <1>6, InTheSuit DEF HasSuit
  <2> QED BY <1>1, <1>2, <2>1 DEF Made, Has
<1> QED BY <1>5, <1>6 DEF k

(* The best hand of five cards in a row is of a kind that says so.         *)
LEMMA RowMakes ==
  ASSUME NEW f, Five(f), Cardinality(RanksOf(f)) >= 5, NEW c, NEW k, Tops(f, c, k),
         NEW h \in 5 .. 14, RowIn(RanksOf(f), h)
  PROVE  InRow(c)
<1>1. Made(f, c, k) /\ c \in 1 .. 9 /\ Dealt(f)
  BY DEF Tops, Made, MadeHand, Five, Dealt
<1>2. c # 7 /\ c # 8
  BY <1>1, NoRoom, Kinds
<1>3. 5 <= c
  BY RowMade, NotBetter
<1>4. c # 6
  <2> SUFFICES ASSUME c = 6 PROVE FALSE
    OBVIOUS
  <2>1. SameSuit(c)
    BY Kinds DEF SameSuit
  <2>2. PICK s \in Suits : AllOf(f, s)
    BY <1>1, <2>1, SuitedHand
  <2>3. 9 <= c
    BY <2>2, RowMade, NotBetter
  <2> QED BY <2>3
<1>5. c \in {5, 9}
  BY <1>1, <1>2, <1>3, <1>4
<1> QED BY <1>5, Kinds DEF InRow

(* The lowest of some ranks.                                               *)
LEMMA LowRank ==
  ASSUME NEW R, R \subseteq Ranks, R # {}
  PROVE  Min(R) \in R /\ Min(R) \in Ranks /\ \A r \in R : Min(R) <= r
<1>1. R \subseteq Nat /\ \A r \in R : r \in Ranks
  BY DEF Ranks
<1>2. PICK x \in R : \A y \in R : x <= y
  BY <1>1, LeastNumber
<1>3. Min(R) \in R /\ \A y \in R : Min(R) <= y
  BY <1>2 DEF Min
<1> QED BY <1>1, <1>3

(* Five ranks, the highest four above the lowest, are all between them.    *)
LEMMA FiveBetween ==
  ASSUME NEW R, R \subseteq Ranks, Cardinality(R) = 5, Max(R) - Min(R) = 4
  PROVE  Max(R) \in 6 .. 14 /\ R = Max(R) - 4 .. Max(R)
<1>1. R # {}
  BY FS_EmptySet
<1>2. Max(R) \in Ranks /\ Min(R) \in Ranks /\ \A r \in R : Min(R) <= r /\ r <= Max(R) /\ r \in Ranks
  BY <1>1, TopRank, LowRank
<1> DEFINE b == Max(R)
           a == b - 4
<1>3. a = Min(R) /\ b \in 6 .. 14 /\ a \in Int /\ b \in Int /\ ~ (a > b) /\ b - a + 1 = 5
  BY <1>2 DEF Ranks
<1>4. R \subseteq a .. b
  BY <1>2, <1>3 DEF Ranks
<1>5. IsFiniteSet(a .. b) /\ Cardinality(a .. b) = IF a > b THEN 0 ELSE b - a + 1
  BY <1>3, FS_Interval
<1>6. Cardinality(a .. b) = 5
  BY <1>3, <1>5
<1> HIDE DEF a
<1>7. R \in SUBSET (a .. b) /\ Cardinality(a .. b) = Cardinality(R)
  BY <1>4, <1>6
<1>8. R = a .. b
  BY <1>5, <1>7, FS_Subset
<1> QED BY <1>3, <1>8 DEF a

(* Five cards InARow are five ranks with a row of five.                    *)
LEMMA InARowIs ==
  ASSUME NEW f, Five(f), InARow(f)
  PROVE  Cardinality(RanksOf(f)) = 5 /\ \E h \in 5 .. 14 : RowIn(RanksOf(f), h)
<1> DEFINE R == RanksOf(f)
<1>1. R \subseteq Ranks /\ Cardinality(R) = 5 /\ (Max(R) - Min(R) = 4 \/ R = {14, 2, 3, 4, 5})
  BY HeldIs DEF InARow, Wheel, Five
<1> HIDE DEF R
<1>2. CASE Max(R) - Min(R) = 4
  <2> DEFINE h == Max(R)
  <2>1. h \in 6 .. 14 /\ R = h - 4 .. h
    BY <1>1, <1>2, FiveBetween
  <2> HIDE DEF h
  <2>2. RowIn(R, h)
    <3> SUFFICES ASSUME NEW i \in 1 .. 5 PROVE Real(h - i + 1) \in R
      BY DEF RowIn
    <3> DEFINE y == h - i + 1
    <3>1. y \in h - 4 .. h /\ y # 1
      BY <2>1
    <3> HIDE DEF y
    <3>2. Real(y) = y
      BY <3>1 DEF Real
    <3> QED BY <3>1, <3>2, <2>1 DEF y
  <2>3. h \in 5 .. 14
    BY <2>1
  <2> QED BY <1>1, <2>2, <2>3 DEF R
<1>3. CASE R = {14, 2, 3, 4, 5}
  <2>1. RowIn(R, 5)
    <3> SUFFICES ASSUME NEW i \in 1 .. 5 PROVE Real(5 - i + 1) \in R
      BY DEF RowIn
    <3> QED BY <1>3 DEF Real
  <2> QED BY <1>1, <2>1, 5 \in 5 .. 14 DEF R
<1> QED BY <1>1, <1>2, <1>3

(* A hand of five ranks has no rank twice: as many ranks as cards.         *)
LEMMA FiveApart ==
  ASSUME NEW f, Five(f), NEW c \in {1, 5, 6, 9}, NEW k, Made(f, c, k)
  PROVE  Cardinality(RanksOf(f)) = 5
<1>1. f \subseteq Cards /\ Cardinality(f) = 5
  BY DEF Five
<1>2. JustHand(f, c, k) /\ Size(c) = 5 /\ \A i \in 1 .. 5 : Times(c, i) = 1
  BY FiveAreTheHand, FiveRanks
<1>3. HeldTimes(f, 1) = RanksOf(f) /\ HeldTimes(f, 1) = {r \in Ranks : Cardinality(OfRank(f, r)) >= 1}
  BY <1>1, HeldIs
<1>4. \A r \in Ranks \ {} : Cardinality(OfRank(f, r)) <= 1
  <2> TAKE r \in Ranks \ {}
  <2>1. CASE r \in RanksOf(f)
    BY <1>2, <2>1 DEF JustHand
  <2>2. CASE r \notin RanksOf(f)
    <3>1. ~ (Cardinality(OfRank(f, r)) >= 1)
      BY <1>3, <2>2
    <3>2. Cardinality(OfRank(f, r)) \in Nat
      BY <1>1, CardsFinite
    <3> QED BY <3>1, <3>2
  <2> QED BY <2>1, <2>2
<1>5. Cardinality(RanksOf(f) \ {}) = Cardinality({x \in f : RankOf(x) \notin {}})
  BY <1>1, <1>4, OneOfEach
<1>6. Cardinality({x \in f : RankOf(x) \notin {}}) = Cardinality(f)
  BY <1>1, CardsBeside, 1 # 2
<1>7. RanksOf(f) \ {} = RanksOf(f)
  OBVIOUS
<1>8. Cardinality(RanksOf(f) \ {}) = Cardinality(RanksOf(f))
  BY <1>7, Zenon
<1> QED BY <1>1, <1>5, <1>6, <1>8

(* A hand in a row is made of cards in a row.                              *)
LEMMA RowInRow ==
  ASSUME NEW f, Five(f), NEW c, NEW k, Made(f, c, k), InRow(c)
  PROVE  InARow(f) /\ (Wheel(f) <=> k[1] = 5) /\ k[1] \in 5 .. 14
<1>1. MadeHand(c, k) /\ c \in {5, 9} /\ f \subseteq Cards
  BY Kinds DEF Five, Made, MadeHand, InRow
<1>2. Size(c) = 5
  BY <1>1, FiveRanks
<1> DEFINE R == RanksOf(f)
           h == k[1]
<1>3. R = {Real(k[i]) : i \in 1 .. 5}
  BY <1>2, FiveAreTheHand DEF JustHand
<1>4. h \in 5 .. 14 /\ \A i \in 1 .. 5 : k[i] = h - i + 1
  BY <1>1, <1>2, HandRanks DEF MadeHand
<1>5. R = {Real(h), Real(h - 1), Real(h - 2), Real(h - 3), Real(h - 4)}
  <2>1. k[1] = h /\ k[2] = h - 1 /\ k[3] = h - 2 /\ k[4] = h - 3 /\ k[5] = h - 4
    BY <1>4
  <2>2. 1 .. 5 = {1, 2, 3, 4, 5}
    OBVIOUS
  <2>3. R = {Real(k[1]), Real(k[2]), Real(k[3]), Real(k[4]), Real(k[5])}
    BY <1>3, <2>2
  <2> HIDE DEF R, h
  <2> QED BY <2>1, <2>3
<1>6. Cardinality(R) = 5
  BY <1>1, FiveApart
<1> HIDE DEF R, h
<1>7. CASE h = 5
  <2>1. R = {14, 2, 3, 4, 5}
    <3>1. /\ Real(h) = 5 /\ Real(h - 1) = 4 /\ Real(h - 2) = 3 /\ Real(h - 3) = 2
          /\ Real(h - 4) = 14
      BY <1>7 DEF Real
    <3> QED BY <3>1, <1>5
  <2> QED BY <2>1, <1>6, <1>7 DEF InARow, Wheel, R, h
<1>8. CASE h \in 6 .. 14
  <2>1. \A x \in h - 4 .. h : Real(x) = x
    BY <1>8 DEF Real
  <2>2. R = {h, h - 1, h - 2, h - 3, h - 4}
    <3>1. Real(h) = h /\ Real(h - 1) = h - 1 /\ Real(h - 2) = h - 2 /\ Real(h - 3) = h - 3 /\ Real(h - 4) = h - 4
      BY <1>8 DEF Real
    <3> QED BY <3>1, <1>5
  <2>3. R \subseteq Ranks /\ R # {}
    BY <2>2, <1>8 DEF Ranks
  <2>4. Max(R) = h
    <3>1. Max(R) \in R /\ \A r \in R : r <= Max(R)
      BY <2>3, TopRank
    <3>2. h \in R /\ \A r \in R : r <= h /\ r \in Int
      BY <2>2, <1>8
    <3>3. h <= Max(R) /\ Max(R) <= h /\ Max(R) \in Int
      BY <3>1, <3>2
    <3> QED BY <3>3, <1>8
  <2>5. Min(R) = h - 4
    <3>1. Min(R) \in R /\ \A r \in R : Min(R) <= r
      BY <2>3, LowRank
    <3>2. h - 4 \in R /\ \A r \in R : h - 4 <= r /\ r \in Int
      BY <2>2, <1>8
    <3>3. h - 4 <= Min(R) /\ Min(R) <= h - 4 /\ Min(R) \in Int
      BY <3>1, <3>2
    <3> QED BY <3>3, <1>8
  <2>6. Max(R) - Min(R) = 4
    BY <2>4, <2>5, <1>8
  <2>7. R # {14, 2, 3, 4, 5}
    <3>1. h - 4 \in R /\ h - 1 \in R /\ h \in R
      BY <2>2
    <3> QED BY <3>1, <1>8, <2>2
  <2> QED BY <1>6, <1>8, <2>6, <2>7 DEF InARow, Wheel, R, h
<1> QED BY <1>4, <1>7, <1>8 DEF h

-----------------------------------------------------------------------------

(* What a rank of a hand counts, and what a hand does.                     *)
Weigh(c, k, i) == 100 * Times(c, i) + k[i]
Worths(c, k) == {Weigh(c, k, i) : i \in 1 .. Size(c)}

(* The category of five cards is that of the best hand made of them.       *)
LEMMA CategoryIs ==
  ASSUME NEW f, Five(f), NEW c, NEW k, Tops(f, c, k)
  PROVE  /\ Category(f) = c /\ c \in 1 .. 9
         /\ InARow(f) <=> InRow(c)
<1>1. Made(f, c, k) /\ c \in 1 .. 9
  BY DEF Tops, Made, MadeHand
<1>2. InARow(f) <=> InRow(c)
  <2>1. InRow(c) => InARow(f)
    BY <1>1, RowInRow
  <2>2. ASSUME InARow(f) PROVE InRow(c)
    <3>1. PICK h \in 5 .. 14 : RowIn(RanksOf(f), h)
      BY <2>2, InARowIs
    <3>2. Cardinality(RanksOf(f)) >= 5
      BY <2>2, InARowIs
    <3> QED BY <3>1, <3>2, RowMakes
  <2> QED BY <2>1, <2>2
<1>3. OneSuit(f) <=> SameSuit(c)
  <2>1. SameSuit(c) => OneSuit(f)
    BY <1>1, SuitedHand, OneSuitIs
  <2>2. OneSuit(f) => SameSuit(c)
    BY SuitMakes, OneSuitIs
  <2> QED BY <2>1, <2>2
<1>4. (InARow(f) <=> c \in {5, 9}) /\ (OneSuit(f) <=> c \in {6, 9})
  BY <1>2, <1>3, Kinds DEF InRow, SameSuit
<1>5. /\ Held(f, 4) = IF c = 8 THEN 1 ELSE 0
      /\ Held(f, 3) = IF c \in {7, 4} THEN 1 ELSE 0
      /\ Held(f, 2) = IF c = 3 THEN 2 ELSE IF c \in {7, 2} THEN 1 ELSE 0
  BY <1>1, HeldCounts
<1> DEFINE row == InARow(f)
           suit == OneSuit(f)
           two == Held(f, 2)
           three == Held(f, 3)
           four == Held(f, 4)
<1>6. Category(f) = CASE row /\ suit              -> StraightFlush
                      [] four = 1                 -> FourOfAKind
                      [] three = 1 /\ two = 1     -> FullHouse
                      [] suit /\ ~row             -> Flush
                      [] row /\ ~suit             -> Straight
                      [] three = 1 /\ two = 0     -> ThreeOfAKind
                      [] two = 2                  -> TwoPair
                      [] two = 1 /\ three = 0     -> OnePair
                      [] OTHER                    -> HighCard
  BY DEF Category
<1> HIDE DEF row, suit, two, three, four
<1>7. /\ row <=> c \in {5, 9}
      /\ suit <=> c \in {6, 9}
      /\ four = IF c = 8 THEN 1 ELSE 0
      /\ three = IF c \in {7, 4} THEN 1 ELSE 0
      /\ two = IF c = 3 THEN 2 ELSE IF c \in {7, 2} THEN 1 ELSE 0
  BY <1>4, <1>5 DEF row, suit, two, three, four
<1>8. Category(f) = c
  <2>1. CASE c = 9
    BY <1>6, <1>7, <2>1, Kinds
  <2>2. CASE c = 8
    BY <1>6, <1>7, <2>2, Kinds
  <2>3. CASE c = 7
    BY <1>6, <1>7, <2>3, Kinds
  <2>4. CASE c = 6
    BY <1>6, <1>7, <2>4, Kinds
  <2>5. CASE c = 5
    BY <1>6, <1>7, <2>5, Kinds
  <2>6. CASE c = 4
    BY <1>6, <1>7, <2>6, Kinds
  <2>7. CASE c = 3
    BY <1>6, <1>7, <2>7, Kinds
  <2>8. CASE c = 2
    BY <1>6, <1>7, <2>8, Kinds
  <2>9. CASE c = 1
    BY <1>6, <1>7, <2>9, Kinds
  <2> QED BY <1>1, <2>1, <2>2, <2>3, <2>4, <2>5, <2>6, <2>7, <2>8, <2>9
<1> QED BY <1>1, <1>2, <1>8

(* In the comparison an ace counts as one in a wheel and nowhere else.     *)
LEMMA AceCounts ==
  ASSUME NEW f, Five(f), NEW c, NEW k, Tops(f, c, k), NEW i \in 1 .. Size(c)
  PROVE  (IF Wheel(f) /\ Real(k[i]) = 14 THEN 1 ELSE Real(k[i])) = k[i]
<1>1. Made(f, c, k) /\ MadeHand(c, k) /\ k[i] \in 1 .. 14
  BY DEF Tops, Made, MadeHand
<1>2. InARow(f) <=> InRow(c)
  BY CategoryIs
<1>3. CASE ~InRow(c)
  <2>1. ~InARow(f) /\ k[i] >= 2
    BY <1>1, <1>2, <1>3 DEF MadeHand
  <2>2. ~Wheel(f)
    <3> SUFFICES ASSUME Wheel(f) PROVE FALSE
      OBVIOUS
    <3>1. RowIn(RanksOf(f), 5)
      <4> SUFFICES ASSUME NEW j \in 1 .. 5 PROVE Real(5 - j + 1) \in RanksOf(f)
        BY DEF RowIn
      <4> QED BY DEF Real, Wheel
    <3>2. Made(f, 5, RowFrom(5))
      BY <3>1, RowMade, 5 \in 5 .. 14
    <3>3. Cardinality(RanksOf(f)) = 5
      <4>1. 5 \in {1, 5, 6, 9}
        OBVIOUS
      <4> QED BY <3>2, <4>1, FiveApart
    <3> QED BY <2>1, <3>3 DEF InARow
  <2> QED BY <1>1, <2>1, <2>2 DEF Real
<1>4. CASE InRow(c)
  <2>1. (Wheel(f) <=> k[1] = 5) /\ k[1] \in 5 .. 14
    BY <1>1, <1>4, RowInRow
  <2>2. Size(c) = 5 /\ k[i] = k[1] - i + 1
    BY <1>1, <1>4, HandRanks DEF MadeHand
  <2> DEFINE h == k[1]
             x == k[i]
  <2>3. h \in 5 .. 14 /\ x = h - i + 1 /\ i \in 1 .. 5 /\ (Wheel(f) <=> h = 5)
    BY <2>1, <2>2
  <2> HIDE DEF h, x
  <2>4. (IF Wheel(f) /\ Real(x) = 14 THEN 1 ELSE Real(x)) = x
    BY <2>3 DEF Real
  <2> QED BY <2>4 DEF x
<1> QED BY <1>3, <1>4

(* What five cards count is what the best hand made of them does.          *)
LEMMA WorthsAre ==
  ASSUME NEW f, Five(f), NEW c, NEW k, Tops(f, c, k)
  PROVE  {Worth(f, RankOf(x)) : x \in f} = Worths(c, k)
<1>1. JustHand(f, c, k)
  BY FiveAreTheHand DEF Tops
<1>2. ASSUME NEW i \in 1 .. Size(c) PROVE Worth(f, Real(k[i])) = Weigh(c, k, i)
  <2>1. CountOf(f, Real(k[i])) = Times(c, i)
    BY <1>1, CountIs DEF JustHand
  <2>2. (IF Wheel(f) /\ Real(k[i]) = 14 THEN 1 ELSE Real(k[i])) = k[i]
    BY AceCounts
  <2> QED BY <2>1, <2>2 DEF Worth, Weigh
<1>3. \A x \in f : \E i \in 1 .. Size(c) : RankOf(x) = Real(k[i])
  BY <1>1 DEF JustHand, RanksOf
<1>4. \A i \in 1 .. Size(c) : \E x \in f : RankOf(x) = Real(k[i])
  BY <1>1 DEF JustHand, RanksOf
<1> QED BY <1>2, <1>3, <1>4 DEF Worths

(* What five cards are worth.                                              *)
LEMMA ValueIs ==
  ASSUME NEW f, Five(f), NEW c, NEW k, Tops(f, c, k)
  PROVE  Value(f) = <<c, Worths(c, k)>>
BY CategoryIs, WorthsAre DEF Value

-----------------------------------------------------------------------------

(* The ranks of a hand count the less the later they come.                 *)
LEMMA WeightsFall ==
  ASSUME NEW c, NEW k, MadeHand(c, k)
  PROVE  /\ c \in 1 .. 9 /\ Size(c) \in 1 .. 5
         /\ \A i \in 1 .. Size(c) : Weigh(c, k, i) \in Int /\ k[i] \in Int /\ Times(c, i) \in Int
         /\ \A i, j \in 1 .. Size(c) : i < j => Weigh(c, k, i) > Weigh(c, k, j)
<1>1. c \in 1 .. 9 /\ k \in [1 .. Size(c) -> 1 .. 14] /\ Falls(c, k)
  BY DEF MadeHand
<1>2. Size(c) \in 1 .. 5 /\ \A i \in 1 .. Size(c) : Times(c, i) \in 1 .. 4
  BY <1>1, FiveCards
<1>3. ASSUME NEW i \in 1 .. Size(c) PROVE Weigh(c, k, i) \in Int /\ k[i] \in Int /\ Times(c, i) \in Int
  <2>1. k[i] \in 1 .. 14 /\ Times(c, i) \in 1 .. 4
    BY <1>1, <1>2
  <2> QED BY <2>1 DEF Weigh
<1>4. \A i, j \in 1 .. Size(c) : i < j => Weigh(c, k, i) > Weigh(c, k, j)
  BY <1>1 DEF Falls, Weigh
<1> QED BY <1>1, <1>2, <1>3, <1>4

(* The greatest of some numbers is the one that no other is above.         *)
LEMMA GreatestIs ==
  ASSUME NEW R, NEW x \in R, R \subseteq Int, \A y \in R : y <= x
  PROVE  Max(R) = x
<1>1. \A y \in R : x >= y
  <2>1. \A y \in R : y \in Int
    OBVIOUS
  <2> QED BY <2>1
<1>2. Max(R) \in R /\ \A y \in R : Max(R) >= y
  BY <1>1 DEF Max
<1>3. Max(R) \in Int /\ x \in Int
  BY <1>2
<1>4. Max(R) >= x /\ Max(R) <= x
  BY <1>2
<1> QED BY <1>3, <1>4

(* Of two hands of a kind the one ahead at the first difference counts the *)
(* greatest rank that the other does not.                                  *)
LEMMA AheadAtFirst ==
  ASSUME NEW c, NEW k, MadeHand(c, k), NEW l, MadeHand(c, l), NEW m \in 1 .. Size(c),
         DifferFirst(k, l, m), l[m] < k[m]
  PROVE  /\ Max(SymDiff(Worths(c, k), Worths(c, l))) \in Worths(c, k) \ Worths(c, l)
         /\ Max(SymDiff(Worths(c, l), Worths(c, k))) \in Worths(c, k) \ Worths(c, l)
<1> DEFINE n == Size(c)
           a(i) == Weigh(c, k, i)
           b(i) == Weigh(c, l, i)
           A == Worths(c, k)
           B == Worths(c, l)
           D == SymDiff(A, B)
<1>1. /\ n \in 1 .. 5 /\ m \in 1 .. n
      /\ \A i \in 1 .. n : a(i) \in Int /\ b(i) \in Int
      /\ \A i, j \in 1 .. n : (i < j => a(i) > a(j)) /\ (i < j => b(i) > b(j))
  BY WeightsFall
<1>2. b(m) < a(m)
  <2>1. k[m] \in Int /\ l[m] \in Int /\ Times(c, m) \in Int
    BY WeightsFall
  <2> QED BY <2>1 DEF Weigh
<1>3. \A i \in 1 .. m - 1 : a(i) = b(i)
  BY DEF DifferFirst, Weigh
<1>4. A = {a(i) : i \in 1 .. n} /\ B = {b(i) : i \in 1 .. n}
  BY DEF Worths
<1>5. D = (A \ B) \union (B \ A) /\ D = SymDiff(B, A)
  BY DEF SymDiff
<1> HIDE DEF a, b, n, A, B, D
<1>6. \A i \in 1 .. n : i < m \/ i = m \/ m < i
  BY <1>1
<1>7. \A i \in 1 .. n : i < m => i \in 1 .. m - 1
  BY <1>1
<1>8. a(m) \in A
  BY <1>1, <1>4
<1>9. a(m) \notin B
  <2> SUFFICES ASSUME NEW i \in 1 .. n, a(m) = b(i) PROVE FALSE
    BY <1>4
  <2>1. CASE i < m
    <3>1. b(i) = a(i) /\ a(i) > a(m)
      BY <2>1, <1>1, <1>3, <1>7
    <3> QED BY <3>1, <1>1
  <2>2. CASE i = m
    BY <2>2, <1>1, <1>2
  <2>3. CASE m < i
    <3>1. b(m) > b(i)
      BY <2>3, <1>1
    <3> QED BY <3>1, <1>1, <1>2
  <2> QED BY <2>1, <2>2, <2>3, <1>6
<1>10. \A x \in D : x <= a(m) /\ x \in Int
  <2> SUFFICES ASSUME NEW x \in D PROVE x <= a(m) /\ x \in Int
    OBVIOUS
  <2>1. CASE x \in A \ B
    <3>1. PICK i \in 1 .. n : x = a(i)
      BY <2>1, <1>4
    <3>2. ~ (i < m)
      <4> SUFFICES ASSUME i < m PROVE FALSE
        OBVIOUS
      <4>1. x = b(i)
        BY <3>1, <1>3, <1>7
      <4> QED BY <4>1, <2>1, <1>4
    <3>3. i = m \/ a(m) > a(i)
      BY <3>2, <1>1, <1>6
    <3> QED BY <3>1, <3>3, <1>1
  <2>2. CASE x \in B \ A
    <3>1. PICK i \in 1 .. n : x = b(i)
      BY <2>2, <1>4
    <3>2. ~ (i < m)
      <4> SUFFICES ASSUME i < m PROVE FALSE
        OBVIOUS
      <4>1. x = a(i)
        BY <3>1, <1>3, <1>7
      <4> QED BY <4>1, <2>2, <1>4
    <3>3. i = m \/ b(m) > b(i)
      BY <3>2, <1>1, <1>6
    <3> QED BY <3>1, <3>3, <1>1, <1>2
  <2> QED BY <2>1, <2>2, <1>5
<1>11. a(m) \in D
  BY <1>5, <1>8, <1>9
<1>12. Max(D) = a(m)
  <2>1. D \subseteq Int
    BY <1>10
  <2> QED BY <1>10, <1>11, <2>1, GreatestIs
<1>13. Max(D) \in A \ B
  BY <1>8, <1>9, <1>12
<1> QED BY <1>5, <1>13 DEF A, B, D

(* The rule over five cards and the points of the hands agree.             *)
LEMMA BeatsIsMore ==
  ASSUME NEW f, Five(f), NEW c, NEW k, Tops(f, c, k), NEW g, Five(g), NEW d, NEW l, Tops(g, d, l)
  PROVE  Beats(Value(f), Value(g)) <=> Points(d, l) < Points(c, k)
<1>1. MadeHand(c, k) /\ MadeHand(d, l) /\ c \in 1 .. 9 /\ d \in 1 .. 9
  BY DEF Tops, Made, MadeHand
<1>2. Points(c, k) \in Nat /\ Points(d, l) \in Nat
  BY <1>1, PointsPacked
<1> DEFINE A == Worths(c, k)
           B == Worths(d, l)
<1>3. Beats(Value(f), Value(g)) <=> c > d \/ (c = d /\ A # B /\ Max(SymDiff(A, B)) \in A)
  <2>1. Value(f) = <<c, A>> /\ Value(g) = <<d, B>>
    BY ValueIs
  <2> HIDE DEF A, B
  <2> QED BY <2>1 DEF Beats
<1>4. CASE c < d
  <2>1. Points(c, k) < Points(d, l)
    BY <1>1, <1>4, PointsCategory
  <2> HIDE DEF A, B
  <2> QED BY <2>1, <1>1, <1>2, <1>3, <1>4
<1>5. CASE d < c
  <2>1. Points(d, l) < Points(c, k)
    BY <1>1, <1>5, PointsCategory
  <2> HIDE DEF A, B
  <2> QED BY <2>1, <1>1, <1>2, <1>3, <1>5
<1>6. CASE c = d /\ k = l
  <2>1. A = B /\ Points(c, k) = Points(d, l)
    BY <1>6
  <2> HIDE DEF A, B
  <2> QED BY <2>1, <1>1, <1>2, <1>3, <1>6
<1>7. CASE c = d /\ k # l
  <2>1. k \in [1 .. Size(c) -> 1 .. 14] /\ l \in [1 .. Size(c) -> 1 .. 14] /\ Size(c) \in Nat
    BY <1>1, <1>7, FiveCards DEF MadeHand
  <2>2. PICK m \in 1 .. Size(c) : DifferFirst(k, l, m)
    BY <2>1, <1>7, FirstDifference
  <2>3. k[m] \in Int /\ l[m] \in Int /\ k[m] # l[m]
    <3>1. k[m] \in 1 .. 14 /\ l[m] \in 1 .. 14
      BY <2>1
    <3>2. k[m] # l[m]
      BY <2>2 DEF DifferFirst
    <3> QED BY <3>1, <3>2
  <2>4. DifferFirst(l, k, m) /\ (\A i \in 1 .. m - 1 : k[i] = l[i]) /\ \A i \in 1 .. m - 1 : l[i] = k[i]
    BY <2>2 DEF DifferFirst
  <2>5. CASE l[m] < k[m]
    <3>1. Max(SymDiff(A, B)) \in A \ B
      BY <1>1, <1>7, <2>2, <2>5, AheadAtFirst
    <3>2. Points(d, l) < Points(c, k)
      BY <1>1, <1>7, <2>4, <2>5, PointsFirst
    <3> HIDE DEF A, B
    <3> QED BY <3>1, <3>2, <1>3, <1>7
  <2>6. CASE k[m] < l[m]
    <3>1. Max(SymDiff(A, B)) \in B \ A
      BY <1>1, <1>7, <2>4, <2>6, AheadAtFirst
    <3>2. Points(c, k) < Points(d, l)
      BY <1>1, <1>7, <2>4, <2>6, PointsFirst
    <3> HIDE DEF A, B
    <3> QED BY <3>1, <3>2, <1>1, <1>2, <1>3, <1>7
  <2> QED BY <2>3, <2>5, <2>6
<1> QED BY <1>1, <1>4, <1>5, <1>6, <1>7

(* The score of five cards is the number their value is compared by.       *)
LEMMA ScoreRanks ==
  ASSUME NEW f, Five(f), NEW g, Five(g)
  PROVE  Beats(Value(f), Value(g)) <=> Score(g) < Score(f)
<1>1. Dealt(f) /\ Dealt(g)
  BY DEF Dealt, Five
<1>2. PICK c, k : Tops(f, c, k) /\ Score(f) = Points(c, k)
  BY <1>1, ScoreTops
<1>3. PICK d, l : Tops(g, d, l) /\ Score(g) = Points(d, l)
  BY <1>1, ScoreTops
<1> QED BY <1>2, <1>3, BeatsIsMore

(* A score is the packed points of a hand.                                 *)
IsPacked(x) == \E c \in 1 .. 9 : \E a : Nibbles(a) /\ x = Packed(c, a)

(* The score of the cards a player may choose from is that of the best     *)
(* choice.                                                                 *)
LEMMA BestOfFive ==
  ASSUME NEW S, Dealt(S)
  PROVE  /\ Score(S) \in Nat /\ Score(S) > 0 /\ IsPacked(Score(S))
         /\ \A f \in kSubset(5, S) : Five(f) /\ Dealt(f) /\ Score(f) <= Score(S)
         /\ \E f \in kSubset(5, S) : Score(f) = Score(S)
<1>1. PICK c, k : Tops(S, c, k) /\ Score(S) = Points(c, k)
  BY ScoreTops
<1>2. Made(S, c, k) /\ MadeHand(c, k) /\ Has(S, c, k) /\ S \subseteq Cards
  BY <1>1 DEF Tops, Made, Dealt
<1>3. Score(S) \in Nat /\ Score(S) > 0 /\ IsPacked(Score(S))
  BY <1>1, <1>2, PointsPacked DEF IsPacked
<1>4. ASSUME NEW f \in kSubset(5, S) PROVE Five(f) /\ Dealt(f) /\ Score(f) <= Score(S)
  <2>1. f \subseteq S /\ Cardinality(f) = 5
    BY DEF kSubset
  <2>2. Five(f) /\ Dealt(f)
    BY <2>1, <1>2 DEF Five, Dealt
  <2>3. PICK d, l : Tops(f, d, l) /\ Score(f) = Points(d, l)
    BY <2>2, ScoreTops
  <2>4. Made(S, d, l)
    BY <1>2, <2>1, <2>3, HasMore DEF Tops, Made
  <2>5. Points(d, l) <= Points(c, k)
    BY <1>1, <2>4 DEF Tops
  <2> QED BY <2>2, <2>3, <2>5, <1>1
<1>5. \E f \in kSubset(5, S) : Score(f) = Score(S)
  <2>1. PICK f \in kSubset(5, S) : Has(f, c, k)
    BY <1>2, FiveMakeIt
  <2>2. Made(f, c, k)
    BY <2>1, <1>2 DEF Made
  <2>3. Dealt(f) /\ Score(f) <= Score(S)
    BY <1>4
  <2>4. PICK d, l : Tops(f, d, l) /\ Score(f) = Points(d, l)
    BY <2>3, ScoreTops
  <2>5. Points(c, k) <= Points(d, l)
    BY <2>2, <2>4 DEF Tops
  <2>6. Points(d, l) \in Nat
    BY <2>4, PointsPacked DEF Tops, Made
  <2>7. Score(f) = Score(S)
    BY <1>1, <1>3, <2>3, <2>4, <2>5, <2>6
  <2> QED BY <2>7
<1> QED BY <1>3, <1>4, <1>5

-----------------------------------------------------------------------------

(* A nibble shifted out.                                                   *)
LEMMA DigitOut ==
  ASSUME NEW x \in Nat, NEW y \in 0 .. 15, NEW z, z = x * 16 + y
  PROVE  z \div 16 = x /\ z % 16 = y
OBVIOUS

(* Shifts add up.                                                          *)
LEMMA ShiftedTwice ==
  ASSUME NEW x \in Nat
  PROVE  /\ (x \div 16) \div 16 = x \div 256 /\ (x \div 256) \div 16 = x \div 4096
         /\ (x \div 4096) \div 16 = x \div 65536 /\ (x \div 65536) \div 16 = x \div 1048576
<1>1. (x \div 16) \div 16 = x \div 256
  OBVIOUS
<1>2. (x \div 256) \div 16 = x \div 4096
  OBVIOUS
<1>3. (x \div 4096) \div 16 = x \div 65536
  OBVIOUS
<1>4. (x \div 65536) \div 16 = x \div 1048576
  OBVIOUS
<1> QED BY <1>1, <1>2, <1>3, <1>4

(* How many kickers are counted.                                           *)
LastUsed(u) == Max({0} \union {i \in 1 .. 5 : u[i] # 0})
NibblesOf(a) == [i \in 1 .. 5 |-> Nibble(a, i)]

(* Decoding gives back what was packed.                                    *)
LEMMA DecodedIs ==
  ASSUME NEW c \in 1 .. 9, NEW a, Nibbles(a)
  PROVE  /\ Decoded(Packed(c, a)).category = c
         /\ Decoded(Packed(c, a)).kickers = NibblesOf(a)
         /\ Decoded(Packed(c, a)).kicker_count = LastUsed(NibblesOf(a))
<1>1. PICK p : PackedFrom(c, a, p)
  BY PackedDigits
<1> DEFINE x == Packed(c, a)
           n(i) == Nibble(a, i)
<1>2. /\ p[0] = c /\ p[5] = x /\ \A i \in 0 .. 5 : p[i] \in Nat
      /\ \A i \in 1 .. 5 : p[i] = p[i - 1] * 16 + n(i) /\ n(i) \in 0 .. 15
  BY <1>1 DEF PackedFrom, Nibbles
<1>3. x \in Nat
  BY <1>2, 5 \in 0 .. 5
<1> HIDE DEF x, n
<1>4. ASSUME NEW i \in 1 .. 5 PROVE p[i] \div 16 = p[i - 1] /\ p[i] % 16 = n(i)
  <2>1. p[i - 1] \in Nat /\ n(i) \in 0 .. 15 /\ p[i] = p[i - 1] * 16 + n(i)
    BY <1>2, i - 1 \in 0 .. 5
  <2> QED BY <2>1, DigitOut
<1>5. p[4] = x \div 16 /\ x % 16 = n(5)
  BY <1>2, <1>4, 5 \in 1 .. 5, 5 - 1 = 4
<1>6. p[3] = x \div 256 /\ (x \div 16) % 16 = n(4)
  BY <1>3, <1>4, <1>5, 4 \in 1 .. 5, 4 - 1 = 3, ShiftedTwice
<1>7. p[2] = x \div 4096 /\ (x \div 256) % 16 = n(3)
  BY <1>3, <1>4, <1>6, 3 \in 1 .. 5, 3 - 1 = 2, ShiftedTwice
<1>8. p[1] = x \div 65536 /\ (x \div 4096) % 16 = n(2)
  BY <1>3, <1>4, <1>7, 2 \in 1 .. 5, 2 - 1 = 1, ShiftedTwice
<1>9. p[0] = x \div 1048576 /\ (x \div 65536) % 16 = n(1)
  BY <1>3, <1>4, <1>8, 1 \in 1 .. 5, 1 - 1 = 0, ShiftedTwice
<1> DEFINE shifted == <<x \div 65536, x \div 4096, x \div 256, x \div 16, x>>
           slot == [i \in 1 .. 5 |-> shifted[i] % 16]
<1>10. slot = [i \in 1 .. 5 |-> n(i)]
  <2>1. /\ shifted[1] % 16 = n(1) /\ shifted[2] % 16 = n(2) /\ shifted[3] % 16 = n(3)
        /\ shifted[4] % 16 = n(4) /\ shifted[5] % 16 = n(5)
    BY <1>5, <1>6, <1>7, <1>8, <1>9
  <2> HIDE DEF shifted
  <2>2. \A i \in 1 .. 5 : shifted[i] % 16 = n(i)
    <3>1. \A i \in 1 .. 5 : i = 1 \/ i = 2 \/ i = 3 \/ i = 4 \/ i = 5
      OBVIOUS
    <3> QED BY <2>1, <3>1
  <2> QED BY <2>2
<1>11. slot = NibblesOf(a)
  BY <1>10 DEF NibblesOf, n
<1>12. /\ Decoded(x).category = x \div 1048576 /\ Decoded(x).kickers = slot
       /\ Decoded(x).kicker_count = Max({0} \union {i \in 1 .. 5 : slot[i] # 0})
  BY DEF Decoded
<1> HIDE DEF slot
<1>13. Decoded(x).kicker_count = LastUsed(NibblesOf(a))
  BY <1>11, <1>12 DEF LastUsed
<1> QED BY <1>2, <1>9, <1>11, <1>12, <1>13 DEF x

(* The count of kickers is a number.                                       *)
LEMMA LastUsedIs == \A u : LastUsed(u) \in Nat
<1> TAKE u
<1> DEFINE R == {0} \union {i \in 1 .. 5 : u[i] # 0}
<1>1. R \subseteq Nat /\ R # {} /\ 5 \in Nat /\ \A r \in R : r <= 5
  OBVIOUS
<1>1a. LastUsed(u) = Max(R)
  BY DEF LastUsed
<1> HIDE DEF R
<1>2. Max(R) \in R
  BY <1>1, MaxIsThere
<1> QED BY <1>1, <1>1a, <1>2

(* The comparison of hand values says the same as that of packed scores.   *)
LEMMA DecodedOrder ==
  ASSUME NEW x, IsPacked(x), NEW y, IsPacked(y)
  PROVE  HandLess(Decoded(x), Decoded(y)) <=> x < y
<1>1a. PICK c \in 1 .. 9 : \E a : Nibbles(a) /\ x = Packed(c, a)
  BY DEF IsPacked
<1>1. PICK a : Nibbles(a) /\ x = Packed(c, a)
  BY <1>1a
<1>2a. PICK d \in 1 .. 9 : \E b : Nibbles(b) /\ y = Packed(d, b)
  BY DEF IsPacked
<1>2. PICK b : Nibbles(b) /\ y = Packed(d, b)
  BY <1>2a
<1> DEFINE u == NibblesOf(a)
           v == NibblesOf(b)
           differ == {i \in 1 .. 5 : u[i] # v[i]}
<1>3. HandLess(Decoded(x), Decoded(y)) <=>
        IF c # d THEN c < d
        ELSE IF differ # {} THEN u[Min(differ)] < v[Min(differ)]
        ELSE LastUsed(u) < LastUsed(v)
  <2>1. Decoded(x).category = c /\ Decoded(x).kickers = u /\ Decoded(x).kicker_count = LastUsed(u)
    BY <1>1, DecodedIs
  <2>2. Decoded(y).category = d /\ Decoded(y).kickers = v /\ Decoded(y).kicker_count = LastUsed(v)
    BY <1>2, DecodedIs
  <2> HIDE DEF u, v
  <2> QED BY <2>1, <2>2 DEF HandLess
<1>4. x \in Nat /\ y \in Nat
  BY <1>1, <1>2, PackedPositive
<1>5. \A i \in 1 .. 5 : u[i] = Nibble(a, i) /\ v[i] = Nibble(b, i) /\ u[i] \in 0 .. 15 /\ v[i] \in 0 .. 15
  BY <1>1, <1>2 DEF NibblesOf, Nibbles
<1> HIDE DEF u, v
<1>6. CASE c < d
  <2>1. x < y
    BY <1>1, <1>2, <1>6, PackedCategory
  <2> QED BY <2>1, <1>3, <1>6
<1>7. CASE d < c
  <2>1. y < x
    BY <1>1, <1>2, <1>7, PackedCategory
  <2> HIDE DEF differ
  <2> QED BY <2>1, <1>3, <1>4, <1>7
<1>8. CASE c = d /\ differ # {}
  <2> DEFINE m == Min(differ)
  <2>1. m \in differ /\ \A i \in differ : m <= i
    <3>1. differ \subseteq Nat
      OBVIOUS
    <3> HIDE DEF differ
    <3>2. PICK i \in differ : \A j \in differ : i <= j
      BY <3>1, <1>8, LeastNumber
    <3> QED BY <3>2 DEF Min
  <2> HIDE DEF m
  <2>2. m \in 1 .. 5 /\ u[m] # v[m]
    BY <2>1
  <2>3. \A i \in 1 .. m - 1 : u[i] = v[i]
    <3> SUFFICES ASSUME NEW i \in 1 .. m - 1, u[i] # v[i] PROVE FALSE
      OBVIOUS
    <3>1. i \in differ /\ i < m
      BY <2>2
    <3> QED BY <3>1, <2>1, <2>2
  <2>4. \A i \in 1 .. m - 1 : Nibble(a, i) = Nibble(b, i) /\ Nibble(b, i) = Nibble(a, i)
    <3>1. \A i \in 1 .. m - 1 : i \in 1 .. 5
      BY <2>2
    <3> QED BY <3>1, <2>3, <1>5
  <2>5. /\ HandLess(Decoded(x), Decoded(y)) <=> u[m] < v[m]
        /\ u[m] \in 0 .. 15 /\ v[m] \in 0 .. 15 /\ u[m] = Nibble(a, m) /\ v[m] = Nibble(b, m)
    BY <1>3, <1>5, <1>8, <2>2 DEF m
  <2>6. CASE u[m] < v[m]
    <3>1. Packed(c, a) < Packed(c, b)
      BY <1>1, <1>2, <2>2, <2>4, <2>5, <2>6, PackedFirst
    <3> QED BY <3>1, <2>5, <2>6, <1>1, <1>2, <1>8
  <2>7. CASE v[m] < u[m]
    <3>1. Packed(c, b) < Packed(c, a)
      BY <1>1, <1>2, <2>2, <2>4, <2>5, <2>7, PackedFirst
    <3> QED BY <3>1, <2>5, <2>7, <1>1, <1>2, <1>4, <1>8
  <2> QED BY <2>2, <2>5, <2>6, <2>7
<1>9. CASE c = d /\ differ = {}
  <2>1. \A i \in 1 .. 5 : Nibble(a, i) = Nibble(b, i)
    BY <1>5, <1>9
  <2>2. x = y
    BY <2>1, <1>1, <1>2, <1>9 DEF Packed, Nibble
  <2>3. u = v
    BY <2>1 DEF u, v, NibblesOf
  <2>4. LastUsed(u) = LastUsed(v) /\ LastUsed(u) \in Nat
    BY <2>3, LastUsedIs
  <2> QED BY <1>3, <1>4, <1>9, <2>2, <2>4
<1> QED BY <1>6, <1>7, <1>8, <1>9

-----------------------------------------------------------------------------

(* A player's cards and a board that can be shown down.                    *)
Shown5(game, hole, board) ==
  /\ board \subseteq Cards /\ Cardinality(board) \in 3 .. 5
  /\ hole \subseteq Cards /\ hole \cap board = {}
  /\ Cardinality(hole) = CardsPerHand(game)

(* The score is that of the best hand of five cards the game allows.       *)
IsTop(game, hole, board, h) ==
  /\ h \in Nat /\ h > 0 /\ IsPacked(h)
  /\ \A f \in FiveOf(game, hole, board) : Five(f) /\ Score(f) \in Nat /\ Score(f) <= h
  /\ \E f \in FiveOf(game, hole, board) : Score(f) = h

(* Hold'em: the best of the cards of hand and board.                       *)
LEMMA HoldemTop ==
  ASSUME NEW game, game # "plo", NEW hole, NEW board, Shown5(game, hole, board)
  PROVE  IsTop(game, hole, board, HandScore(game, hole, board))
<1> DEFINE S == board \union hole
<1>1. IsFiniteSet(board) /\ IsFiniteSet(hole) /\ Cardinality(hole) = 2 /\ Cardinality(board) \in 3 .. 5
  BY CardsFinite DEF Shown5, CardsPerHand
<1>2. board \cap hole = {} /\ Cardinality(board \cap hole) = 0
  BY FS_EmptySet DEF Shown5
<1>3. Cardinality(S) = Cardinality(board) + Cardinality(hole) - Cardinality(board \cap hole)
  BY <1>1, FS_Union
<1>4. Dealt(S)
  <2>1. Cardinality(S) \in 5 .. 7
    BY <1>1, <1>2, <1>3
  <2> QED BY <2>1 DEF Dealt, Shown5
<1>5. HandScore(game, hole, board) = Score(S) /\ FiveOf(game, hole, board) = kSubset(5, S)
  <2>1. hole \union board = S
    OBVIOUS
  <2>2. FiveOf(game, hole, board) = kSubset(5, hole \union board)
    BY DEF FiveOf
  <2>3. FiveOf(game, hole, board) = kSubset(5, S)
    BY <2>1, <2>2, Zenon
  <2> QED BY <2>3 DEF HandScore
<1> HIDE DEF S
<1>6. /\ Score(S) \in Nat /\ Score(S) > 0 /\ IsPacked(Score(S))
      /\ \A f \in kSubset(5, S) : Five(f) /\ Dealt(f) /\ Score(f) <= Score(S)
      /\ \E f \in kSubset(5, S) : Score(f) = Score(S)
  BY <1>4, BestOfFive
<1>7. \A f \in kSubset(5, S) : Score(f) \in Nat
  BY <1>6, BestOfFive
<1> QED BY <1>5, <1>6, <1>7 DEF IsTop

(* PLO: the best of two cards of the hand and three of the board.          *)
LEMMA PloTop ==
  ASSUME NEW hole, NEW board, Shown5("plo", hole, board)
  PROVE  IsTop("plo", hole, board, HandScore("plo", hole, board))
<1> DEFINE F == FiveOf("plo", hole, board)
           made == {Score(f) : f \in F}
           h == HandScore("plo", hole, board)
<1>1. /\ IsFiniteSet(board) /\ IsFiniteSet(hole) /\ Cardinality(hole) = 4 /\ Cardinality(board) \in 3 .. 5
      /\ board \subseteq Cards /\ hole \subseteq Cards /\ hole \cap board = {}
  BY CardsFinite DEF Shown5, CardsPerHand
<1>2. F = {two \union three : two \in kSubset(2, hole), three \in kSubset(3, board)}
  BY DEF FiveOf
<1>3. ASSUME NEW f \in F PROVE Five(f) /\ Dealt(f)
  <2>1. PICK two \in kSubset(2, hole), three \in kSubset(3, board) : f = two \union three
    BY <1>2
  <2>2. two \subseteq hole /\ Cardinality(two) = 2 /\ three \subseteq board /\ Cardinality(three) = 3
    BY DEF kSubset
  <2>3. IsFiniteSet(two) /\ IsFiniteSet(three) /\ two \cap three = {} /\ Cardinality(two \cap three) = 0
    BY <1>1, <2>2, FS_Subset, FS_EmptySet
  <2>4. Cardinality(two \union three) = Cardinality(two) + Cardinality(three) - Cardinality(two \cap three)
    BY <2>3, FS_Union
  <2>5. Cardinality(f) = 5
    BY <2>1, <2>2, <2>3, <2>4
  <2> QED BY <2>1, <2>2, <2>5, <1>1 DEF Five, Dealt
<1> HIDE DEF F
<1>4. \A f \in F : Score(f) \in Scores /\ Score(f) \in Nat /\ Score(f) > 0 /\ IsPacked(Score(f))
  BY <1>3, ScoreIs, BestOfFive
<1>5. h = Max({0} \union made)
  <2> DEFINE M == {Score(two \union three) : two \in kSubset(2, hole), three \in BoardTriples(board)}
  <2>1. \A x : x \in made <=> \E f \in F : x = Score(f)
    OBVIOUS
  <2>2. \A x : x \in M <=> \E two \in kSubset(2, hole), three \in BoardTriples(board) : x = Score(two \union three)
    OBVIOUS
  <2>3. \A f : f \in F <=> \E two \in kSubset(2, hole), three \in BoardTriples(board) : f = two \union three
    BY <1>2 DEF BoardTriples
  <2>4. h = Max({0} \union M)
    BY DEF HandScore, PloScore
  <2> HIDE DEF M, made, h
  <2>5. \A x : x \in made <=> x \in M
    <3>1. ASSUME NEW x \in made PROVE x \in M
      <4>1. PICK f \in F : x = Score(f)
        BY <2>1
      <4>2. PICK two \in kSubset(2, hole), three \in BoardTriples(board) : f = two \union three
        BY <2>3
      <4>3. x = Score(two \union three)
        BY <4>1, <4>2
      <4> QED BY <2>2, <4>3, Zenon
    <3>2. ASSUME NEW x \in M PROVE x \in made
      <4>1. PICK two \in kSubset(2, hole), three \in BoardTriples(board) : x = Score(two \union three)
        BY <2>2, Zenon
      <4>2. two \union three \in F
        BY <2>3, Zenon
      <4> QED BY <2>1, <4>1, <4>2, Zenon
    <3> QED BY <3>1, <3>2
  <2>6. made = M
    BY <2>5
  <2> QED BY <2>4, <2>6
<1>6. h \in Scores
  BY <1>1, PloScoreIs DEF HandScore
<1>7. h > 0 /\ h \in Nat
  BY <1>6 DEF Scores
<1> DEFINE all == {0} \union made
<1>8. all \subseteq Nat /\ all # {} /\ ScoreBound \in Nat /\ \A x \in all : x <= ScoreBound
  <2>1. ScoreBound \in Nat /\ 0 <= ScoreBound /\ \A s \in Scores : s <= ScoreBound
    BY ScoresAre
  <2>2. \A x \in all : x = 0 \/ \E f \in F : x = Score(f)
    OBVIOUS
  <2>3. 0 \in all
    OBVIOUS
  <2> HIDE DEF all
  <2>4. \A x \in all : x \in Nat /\ x <= ScoreBound
    BY <2>1, <2>2, <1>4
  <2> QED BY <2>1, <2>3, <2>4
<1>8a. h = Max(all)
  BY <1>5
<1>8b. \A x : x \in all <=> x = 0 \/ \E f \in F : x = Score(f)
  OBVIOUS
<1> HIDE DEF all, h, made
<1>9. h \in all /\ \A x \in all : h >= x
  BY <1>8, <1>8a, MaxIsThere
<1>10. \E f \in F : Score(f) = h
  BY <1>7, <1>8b, <1>9
<1>11. \A f \in F : Score(f) <= h
  BY <1>4, <1>7, <1>8b, <1>9
<1>12. IsPacked(h)
  BY <1>4, <1>10
<1>13. IsTop("plo", hole, board, h)
  BY <1>3, <1>4, <1>7, <1>10, <1>11, <1>12 DEF IsTop, F
<1> QED BY <1>13 DEF h

(* Either game.                                                            *)
LEMMA HandTop ==
  ASSUME NEW game, NEW hole, NEW board, Shown5(game, hole, board)
  PROVE  IsTop(game, hole, board, HandScore(game, hole, board))
<1>1. CASE game = "plo"
  BY <1>1, PloTop
<1>2. CASE game # "plo"
  BY <1>2, HoldemTop
<1> QED BY <1>1, <1>2

(* Those at the top score are those with the hand that no hand beats.      *)
LEMMA TopScoresWin ==
  ASSUME NEW game, NEW holes, NEW board, \A i \in DOMAIN holes : Shown5(game, holes[i], board)
  PROVE  RightfulWinners(game, holes, board)
           = {i \in DOMAIN holes :
                \A j \in DOMAIN holes : HandScore(game, holes[j], board) <= HandScore(game, holes[i], board)}
<1> DEFINE N == DOMAIN holes
           h(i) == HandScore(game, holes[i], board)
           F(i) == FiveOf(game, holes[i], board)
           made == UNION {{<<i, Value(f)>> : f \in F(i)} : i \in N}
<1>1. \A i \in N : /\ h(i) \in Nat
                   /\ \A f \in F(i) : Five(f) /\ Score(f) \in Nat /\ Score(f) <= h(i)
                   /\ \E f \in F(i) : Score(f) = h(i)
  BY HandTop DEF IsTop
<1>2. RightfulWinners(game, holes, board) = {m[1] : m \in {x \in made : \A y \in made : ~Beats(y[2], x[2])}}
  BY DEF RightfulWinners
<1>3. \A x : x \in made <=> \E i \in N : \E f \in F(i) : x = <<i, Value(f)>>
  OBVIOUS
<1> HIDE DEF F, h, N, made
<1>4. ASSUME NEW i \in N, \A j \in N : h(j) <= h(i)
      PROVE  \E x \in made : x[1] = i /\ \A y \in made : ~Beats(y[2], x[2])
  <2>1. PICK f \in F(i) : Score(f) = h(i)
    BY <1>1
  <2>2. <<i, Value(f)>> \in made /\ <<i, Value(f)>>[1] = i /\ <<i, Value(f)>>[2] = Value(f)
    BY <1>3
  <2>3. ASSUME NEW y \in made PROVE ~Beats(y[2], Value(f))
    <3>1. PICK j \in N : \E g \in F(j) : y = <<j, Value(g)>>
      BY <1>3
    <3>2. PICK g \in F(j) : y = <<j, Value(g)>>
      BY <3>1
    <3>3. y[2] = Value(g)
      BY <3>2
    <3>4. Five(f) /\ Five(g) /\ Score(g) \in Nat /\ Score(g) <= h(j) /\ h(j) \in Nat /\ h(i) \in Nat
      BY <1>1
    <3>5. h(j) <= h(i)
      BY <1>4
    <3>6. ~ (Score(f) < Score(g))
      BY <2>1, <3>4, <3>5
    <3>7. Beats(Value(g), Value(f)) <=> Score(f) < Score(g)
      BY <3>4, ScoreRanks
    <3> QED BY <3>3, <3>6, <3>7
  <2> QED BY <2>2, <2>3
<1>5. ASSUME NEW x \in made, \A y \in made : ~Beats(y[2], x[2])
      PROVE  x[1] \in N /\ \A j \in N : h(j) <= h(x[1])
  <2>1. PICK i \in N : \E f \in F(i) : x = <<i, Value(f)>>
    BY <1>3
  <2>2. PICK f \in F(i) : x = <<i, Value(f)>>
    BY <2>1
  <2>3. x[1] = i /\ x[2] = Value(f)
    BY <2>2
  <2>4. ASSUME NEW j \in N PROVE h(j) <= h(i)
    <3>1. PICK g \in F(j) : Score(g) = h(j)
      BY <1>1
    <3>2. <<j, Value(g)>> \in made /\ <<j, Value(g)>>[2] = Value(g)
      BY <1>3
    <3>3. ~Beats(Value(g), Value(f))
      BY <1>5, <2>3, <3>2
    <3>4. /\ Five(f) /\ Five(g) /\ Score(f) \in Nat /\ Score(f) <= h(i) /\ Score(g) \in Nat
          /\ h(j) \in Nat /\ h(i) \in Nat
      BY <1>1
    <3>5. ~ (Score(f) < Score(g))
      BY <3>3, <3>4, ScoreRanks
    <3> QED BY <3>1, <3>4, <3>5
  <2> QED BY <2>3, <2>4
<1>6. RightfulWinners(game, holes, board) = {i \in N : \A j \in N : h(j) <= h(i)}
  BY <1>2, <1>4, <1>5
<1> QED BY <1>6 DEF h, N

-----------------------------------------------------------------------------

(* The comparison of decoded values leaves the same players.               *)
LEMMA DecodedWin ==
  ASSUME NEW game, NEW holes, NEW board, \A i \in DOMAIN holes : Shown5(game, holes[i], board)
  PROVE  LET values == {<<i, Decoded(HandScore(game, holes[i], board))>> : i \in DOMAIN holes}
         IN  {v[1] : v \in {x \in values : \A y \in values : ~HandLess(x[2], y[2])}}
               = {i \in DOMAIN holes :
                    \A j \in DOMAIN holes : HandScore(game, holes[j], board) <= HandScore(game, holes[i], board)}
<1> DEFINE N == DOMAIN holes
           h(i) == HandScore(game, holes[i], board)
           values == {<<i, Decoded(h(i))>> : i \in N}
           won == {v[1] : v \in {x \in values : \A y \in values : ~HandLess(x[2], y[2])}}
<1>1. \A i \in N : h(i) \in Nat /\ IsPacked(h(i))
  BY HandTop DEF IsTop
<1>2. \A x : x \in values <=> \E i \in N : x = <<i, Decoded(h(i))>>
  OBVIOUS
<1>3. \A i : i \in won <=> \E x \in values : x[1] = i /\ \A y \in values : ~HandLess(x[2], y[2])
  OBVIOUS
<1>3a. won = {v[1] : v \in {x \in values : \A y \in values : ~HandLess(x[2], y[2])}}
  OBVIOUS
<1>3b. values = {<<i, Decoded(HandScore(game, holes[i], board))>> : i \in DOMAIN holes}
  OBVIOUS
<1> HIDE DEF h, N, values, won
<1>4. \A i, j \in N : HandLess(Decoded(h(i)), Decoded(h(j))) <=> h(i) < h(j)
  BY <1>1, DecodedOrder
<1>5. ASSUME NEW i \in N, \A j \in N : h(j) <= h(i)
      PROVE  i \in won
  <2> DEFINE x == <<i, Decoded(h(i))>>
  <2>1. x \in values /\ x[1] = i /\ x[2] = Decoded(h(i))
    BY <1>2
  <2>2. ASSUME NEW y \in values PROVE ~HandLess(x[2], y[2])
    <3>1. PICK j \in N : y = <<j, Decoded(h(j))>>
      BY <1>2
    <3>2. y[2] = Decoded(h(j))
      BY <3>1
    <3>3. ~ (h(i) < h(j))
      BY <1>1, <1>5
    <3> HIDE DEF x
    <3> QED BY <1>4, <2>1, <3>2, <3>3
  <2> HIDE DEF x
  <2> QED BY <2>1, <2>2, <1>3
<1>6. ASSUME NEW i \in won
      PROVE  i \in N /\ \A j \in N : h(j) <= h(i)
  <2>1. PICK x \in values : x[1] = i /\ \A y \in values : ~HandLess(x[2], y[2])
    BY <1>3
  <2>2. PICK e \in N : x = <<e, Decoded(h(e))>>
    BY <1>2
  <2>3. e = i /\ x[2] = Decoded(h(i))
    BY <2>1, <2>2
  <2>4. ASSUME NEW j \in N PROVE h(j) <= h(i)
    <3> DEFINE y == <<j, Decoded(h(j))>>
    <3>1. y \in values /\ y[2] = Decoded(h(j))
      BY <1>2
    <3> HIDE DEF y
    <3>2. ~HandLess(Decoded(h(i)), Decoded(h(j)))
      BY <2>1, <2>3, <3>1
    <3>3. ~ (h(i) < h(j))
      BY <2>2, <2>3, <3>2, <1>4
    <3> QED BY <2>2, <2>3, <3>3, <1>1
  <2> QED BY <2>2, <2>3, <2>4
<1>7. won = {i \in N : \A j \in N : h(j) <= h(i)}
  BY <1>5, <1>6
<1> QED BY <1>7 DEF won, values, N, h

(* A showdown: the winners by the scores are those by the rule of the game *)
(* and those by the hand values.                                           *)
BestWins(game, holes, board) ==
  LET won == Winners(game, holes, board)
      values == {<<i, Decoded(HandScore(game, holes[i], board))>> : i \in DOMAIN holes}
  IN  /\ won = RightfulWinners(game, holes, board)
      /\ won = {v[1] : v \in {x \in values : \A y \in values : ~HandLess(x[2], y[2])}}

(* Every showdown is one.                                                  *)
LEMMA Showdown ==
  ASSUME NEW game, NEW holes, NEW board, DOMAIN holes # {},
         \A i \in DOMAIN holes : Shown5(game, holes[i], board)
  PROVE  BestWins(game, holes, board)
<1> DEFINE N == DOMAIN holes
           h(i) == HandScore(game, holes[i], board)
           T == {i \in N : \A j \in N : h(j) <= h(i)}
           won == Winners(game, holes, board)
<1>1. \A i \in N : h(i) \in Scores
  <2> SUFFICES ASSUME NEW i \in N PROVE h(i) \in Scores
    OBVIOUS
  <2>1. IsTop(game, holes[i], board, h(i))
    BY HandTop
  <2>2. \E f \in FiveOf(game, holes[i], board) : Score(f) = h(i)
    BY <2>1 DEF IsTop
  <2> QED BY <2>2, ScoreIs
<1>2. won \subseteq N /\ \A i \in N : i \in won <=> \A j \in N : h(j) <= h(i)
  BY <1>1, WinnersAreTop
<1>3. won = T
  BY <1>2
<1>4. RightfulWinners(game, holes, board) = T
  BY TopScoresWin
<1> DEFINE values == {<<i, Decoded(HandScore(game, holes[i], board))>> : i \in DOMAIN holes}
<1>5. {v[1] : v \in {x \in values : \A y \in values : ~HandLess(x[2], y[2])}} = T
  BY DecodedWin
<1> HIDE DEF T
<1> QED BY <1>3, <1>4, <1>5 DEF BestWins

(* A judge call has one board, its own, and only when its input was        *)
(* accepted.                                                               *)
TableInv ==
  /\ ExactInv
  /\ call.op = "judge" => \A b \in DOMAIN evaluated : b = Board /\ Verdict = "ok"

(* Nobody was judged at first.                                             *)
LEMMA InitTable == Init => TableInv
BY InitExact DEF Init, TableInv

(* What is judged is the board of the call.                                *)
LEMMA StepTable ==
  ASSUME TableInv, [Next]_vars
  PROVE  TableInv'
<1>1. ExactInv'
  BY StepExact DEF TableInv
<1> SUFFICES ASSUME call'.op = "judge", NEW b \in DOMAIN evaluated'
             PROVE  b = Board' /\ Verdict' = "ok"
  BY <1>1 DEF TableInv
<1>2. call' = call
  BY DEF Next, vars, Reject, NoPlayers, Judge, Start, Enumerate, EnumeratePastEnd, SampleTrial,
         FoldChunk, Emit
<1>3. call.op = "judge" /\ Board' = Board /\ Verdict' = Verdict
  BY <1>2, SameCall
<1>4. ASSUME evaluated' = evaluated PROVE b = Board' /\ Verdict' = "ok"
  BY <1>3, <1>4 DEF TableInv
<1>5. CASE Judge
  <2>1. evaluated' = [x \in {Board} |-> 1] /\ Verdict = "ok"
    BY <1>5 DEF Judge
  <2> QED BY <2>1, <1>3
<1>6. ~Enumerate /\ ~EnumeratePastEnd /\ \A k \in Chunks : ~SampleTrial(k)
  BY <1>3 DEF TableInv, ExactInv, Runs, Accepted, Enumerate, EnumeratePastEnd, SampleTrial
<1>7. CASE Reject
  BY <1>4, <1>7 DEF Reject
<1>8. CASE NoPlayers
  BY <1>4, <1>8 DEF NoPlayers
<1>9. CASE Start
  BY <1>4, <1>9 DEF Start
<1>10. CASE FoldChunk
  BY <1>4, <1>10 DEF FoldChunk
<1>11. CASE Emit
  BY <1>4, <1>11 DEF Emit
<1>12. CASE UNCHANGED vars
  BY <1>4, <1>12 DEF vars
<1> QED BY <1>5, <1>6, <1>7, <1>8, <1>9, <1>10, <1>11, <1>12 DEF Next

(* The hands of a call that was accepted can be shown down on a board of   *)
(* three to five cards that meets none of them.                            *)
LEMMA CanBeShown ==
  ASSUME HandsFit, NEW b, b \subseteq Deck, Cardinality(b) \in 3 .. 5,
         \A i \in DOMAIN Holes : Holes[i] \cap b = {}
  PROVE  \A i \in DOMAIN Holes : Shown5(call.game, Holes[i], b)
<1>1. Deck \subseteq Cards
  BY HandsAssumption DEF Cards
<1>2. \A i \in DOMAIN Holes : Holes[i] \subseteq Deck
  BY DEF Holes, Stripped
<1> QED BY <1>1, <1>2 DEF HandsFit, Shown5

(* There are hands when the sequence of them is not empty.                 *)
LEMMA SomeHand ==
  ASSUME Holes # <<>>
  PROVE  DOMAIN Holes # {}
<1>1. Holes = [i \in DOMAIN call.holes |-> call.holes[i] \cap Deck]
  BY DEF Holes, Stripped
<1>2. DOMAIN Holes = {} => Holes = <<>>
  BY <1>1
<1> QED BY <1>2

(* Every board on the table can be shown down.                             *)
LEMMA OnTheTableShown ==
  ASSUME TableInv, NEW b \in OnTheTable
  PROVE  DOMAIN Holes # {} /\ \A i \in DOMAIN Holes : Shown5(call.game, Holes[i], b)
<1>1. CASE pc = "exact" /\ EnoughCards
  <2>1. call \in Calls /\ Runs /\ comb \in LiveCombs /\ b = CombBoard(comb)
    BY <1>1 DEF TableInv, ExactInv, OnTheTable, Runs
  <2>2. HandsFit /\ Holes # <<>>
    BY <2>1 DEF Runs, Accepted, Verdict, EquityVerdict
  <2>3. b \in Completions
    BY <2>1, BoardsOfCombs
  <2>4. PICK drawn \in Draws : b = Board \union drawn
    BY <2>3 DEF Completions
  <2>5. Cardinality(b) = 5
    BY <2>1, <2>4, CompletionsAre
  <2>6. drawn \subseteq Live
    <3>1. Draws = kSubset(ToDraw, Live)
      BY <2>1, RunsCovered, DrawsAre
    <3> QED BY <3>1 DEF kSubset
  <2>7. b \subseteq Deck
    BY <2>4, <2>6 DEF Board, Live
  <2>8. \A i \in DOMAIN Holes : Holes[i] \cap b = {}
    <3>1. \A i \in DOMAIN Holes : Holes[i] \cap Board = {}
      BY <2>2 DEF HandsFit
    <3>2. \A i \in DOMAIN Holes : Holes[i] \cap Live = {}
      BY DEF Live, Range
    <3> QED BY <2>4, <2>6, <3>1, <3>2
  <2>9. Cardinality(b) \in 3 .. 5
    BY <2>5
  <2> QED BY <2>2, <2>7, <2>8, <2>9, CanBeShown, SomeHand
<1>2. CASE ~(pc = "exact" /\ EnoughCards)
  <2>1. call.op = "judge" /\ b \in DOMAIN evaluated
    BY <1>2 DEF OnTheTable
  <2>2. b = Board /\ Verdict = "ok"
    BY <2>1 DEF TableInv
  <2>3. JudgeVerdict = "ok"
    BY <2>1, <2>2 DEF Verdict
  <2>4. Cardinality(Board) \in 3 .. 5 /\ Holes # <<>> /\ HandsFit
    BY <2>3 DEF JudgeVerdict
  <2>5. Board \subseteq Deck /\ \A i \in DOMAIN Holes : Holes[i] \cap Board = {}
    BY <2>4 DEF Board, HandsFit
  <2> QED BY <2>2, <2>4, <2>5, CanBeShown, SomeHand
<1> QED BY <1>1, <1>2

(* Whoever has the best hand of five cards the game allows wins every      *)
(* showdown, alone or with the others who have it: on every board an       *)
(* enumeration comes to and on that of a judge call the highest score of   *)
(* eval_score7 is the hand that no hand beats, and the comparison of       *)
(* decoded hand values picks the same.                                     *)
THEOREM BestHandWins == Spec => []BestFiveWins
<1>1. TableInv => BestFiveWins
  <2> SUFFICES ASSUME TableInv, NEW b \in OnTheTable PROVE BestWins(call.game, Holes, b)
    BY DEF BestFiveWins, BestWins
  <2>1. DOMAIN Holes # {} /\ \A i \in DOMAIN Holes : Shown5(call.game, Holes[i], b)
    BY OnTheTableShown
  <2> QED BY <2>1, Showdown
<1> QED BY <1>1, InitTable, StepTable, PTL DEF Spec
=============================================================================
