----------------------------- MODULE RangeEnumProofs -----------------------------
(***************************************************************************)
(* Proofs about the range engine, for every pair of ranges, every board    *)
(* set, every thread option and core count, and every schedule of the      *)
(* workers and failure to create one.                                      *)
(*                                                                         *)
(* The first part is about the score cache (invariant CacheInv): it is     *)
(* final when it is read, and no two chunks that run together share what   *)
(* they write. The second part is about the sums (invariant SumsInv): the  *)
(* result has the term of every pair once, an entry for every combo that   *)
(* meets somebody, and the groups and the order one worker alone would     *)
(* give it.                                                                *)
(***************************************************************************)
EXTENDS RangeEnum, Induction, SequenceTheorems

-----------------------------------------------------------------------------
(* Lists.                                                                  *)

(* A function on 1 .. n has length n.                                      *)
LEMMA FunctionLength ==
  ASSUME NEW n \in Nat, NEW f, f = [i \in 1 .. n |-> f[i]]
  PROVE  Len(f) = n
<1> DEFINE S == {f[i] : i \in 1 .. n}
<1>1. f \in [1 .. n -> S]
  OBVIOUS
<1>2. f \in Seq(S)
  BY <1>1, SeqDef
<1>3. Len(f) \in Nat /\ DOMAIN f = 1 .. Len(f)
  BY <1>2, LenProperties
<1>4. 1 .. Len(f) = 1 .. n
  BY <1>3, <1>1
<1> HIDE DEF S
<1> QED
  BY <1>3, <1>4

(* A selection takes the elements in the order of their indices.           *)
Selected(s, idx) == [r \in 1 .. Cardinality(idx) |-> s[SmallestFirst(idx)[r]]]

(* At takes the elements at the indices of a set, from the smallest on.    *)
LEMMA AtIs ==
  ASSUME NEW s, NEW idx, idx \subseteq Int, IsFiniteSet(idx)
  PROVE  At(s, idx) = Selected(s, idx)
<1> DEFINE n == Cardinality(idx)
           upTo(i) == {j \in idx : j <= i}
           below(i) == {j \in idx : j < i}
<1>1. /\ n \in Nat /\ SmallestFirst(idx) \in [1 .. n -> idx]
      /\ \A c \in idx : \E i \in 1 .. n : SmallestFirst(idx)[i] = c
      /\ \A i \in 1 .. n : Rank(idx, SmallestFirst(idx)[i]) = i - 1
  BY AscendingLists
<1>2. ASSUME NEW i \in idx
      PROVE  Cardinality(upTo(i)) = Rank(idx, i) + 1
  <2>1. IsFiniteSet(below(i)) /\ i \notin below(i) /\ upTo(i) = below(i) \union {i}
    <3>1. \A j \in idx : j \in Int
      OBVIOUS
    <3>2. \A j \in idx : j <= i <=> j < i \/ j = i
      BY <3>1
    <3>3. IsFiniteSet(below(i))
      BY FS_Subset
    <3>4. i \notin below(i)
      BY <3>1
    <3> QED
      BY <3>2, <3>3, <3>4
  <2>2. Cardinality(below(i) \union {i}) = Cardinality(below(i)) + 1
    <3> HIDE DEF below
    <3> QED
      BY <2>1, FS_AddElement
  <2>3. Cardinality(upTo(i)) = Cardinality(below(i) \union {i})
    <3> HIDE DEF upTo, below
    <3> QED
      BY <2>1
  <2> QED
    BY <2>2, <2>3 DEF Rank
<1>3. ASSUME NEW r \in 1 .. n
      PROVE  (CHOOSE i \in idx : Cardinality({j \in idx : j <= i}) = r) = SmallestFirst(idx)[r]
  <2>1. SmallestFirst(idx)[r] \in idx /\ Rank(idx, SmallestFirst(idx)[r]) = r - 1
    BY <1>1
  <2>2. Cardinality(upTo(SmallestFirst(idx)[r])) = r
    <3>1. Cardinality(upTo(SmallestFirst(idx)[r])) = Rank(idx, SmallestFirst(idx)[r]) + 1
      BY <2>1, <1>2
    <3> HIDE DEF upTo
    <3>2. (r - 1) + 1 = r
      BY <1>1
    <3> QED
      BY <3>1, <3>2, <2>1
  <2>3. PICK i \in idx : i = (CHOOSE j \in idx : Cardinality(upTo(j)) = r) /\ Cardinality(upTo(i)) = r
    <3> HIDE DEF upTo
    <3> QED
      BY <2>1, <2>2
  <2>4. PICK k \in 1 .. n : SmallestFirst(idx)[k] = i
    BY <1>1
  <2>5. Rank(idx, i) = k - 1 /\ Rank(idx, i) + 1 = r
    <3>1. Rank(idx, i) = k - 1
      BY <1>1, <2>4
    <3> HIDE DEF upTo
    <3> QED
      BY <3>1, <1>2, <2>3
  <2>6. k = r
    BY <2>5
  <2> QED
    BY <2>3, <2>4, <2>6
<1> QED
  <2> DEFINE pick(r) == CHOOSE i \in idx : Cardinality({j \in idx : j <= i}) = r
  <2>1. At(s, idx) = [r \in 1 .. n |-> s[pick(r)]]
    BY DEF At
  <2>2. \A r \in 1 .. n : pick(r) = SmallestFirst(idx)[r]
    BY <1>3
  <2> HIDE DEF pick
  <2>3. [r \in 1 .. n |-> s[pick(r)]] = [r \in 1 .. n |-> s[SmallestFirst(idx)[r]]]
    BY <2>2
  <2> QED
    BY <2>1, <2>3 DEF Selected

(* What a selection has.                                                   *)
LEMMA AtHas ==
  ASSUME NEW s, NEW D, NEW idx, idx \subseteq Int, IsFiniteSet(idx), \A i \in idx : s[i] \in D
  PROVE  /\ At(s, idx) \in Seq(D) /\ Len(At(s, idx)) = Cardinality(idx)
         /\ Range(At(s, idx)) = {s[i] : i \in idx}
         /\ (\A i, j \in idx : s[i] = s[j] => i = j) => IsInjective(At(s, idx))
<1> DEFINE n == Cardinality(idx)
           a == SmallestFirst(idx)
<1>1. /\ n \in Nat /\ a \in [1 .. n -> idx]
      /\ \A i, j \in 1 .. n : i < j => a[i] < a[j]
      /\ \A c \in idx : \E i \in 1 .. n : a[i] = c
  BY AscendingLists
<1>2. At(s, idx) = [r \in 1 .. n |-> s[a[r]]]
  <2>1. At(s, idx) = Selected(s, idx)
    BY AtIs
  <2> QED
    BY <2>1 DEF Selected
<1> HIDE DEF a, n
<1>3. At(s, idx) \in [1 .. n -> D]
  BY <1>1, <1>2
<1>4. At(s, idx) \in Seq(D) /\ Len(At(s, idx)) = n
  <2>1. At(s, idx) \in Seq(D)
    BY <1>1, <1>3, SeqDef
  <2>2. At(s, idx) = [r \in 1 .. n |-> At(s, idx)[r]]
    BY <1>3
  <2> QED
    BY <1>1, <2>1, <2>2, FunctionLength
<1>5. Range(At(s, idx)) = {s[i] : i \in idx}
  <2>1. Range(At(s, idx)) = {At(s, idx)[r] : r \in 1 .. n}
    BY <1>3 DEF Range
  <2>2. \A r \in 1 .. n : At(s, idx)[r] = s[a[r]] /\ a[r] \in idx
    BY <1>1, <1>2
  <2>3. \A i \in idx : \E r \in 1 .. n : At(s, idx)[r] = s[i]
    BY <1>1, <2>2
  <2>4. ASSUME NEW v
        PROVE  v \in {At(s, idx)[r] : r \in 1 .. n} <=> v \in {s[i] : i \in idx}
    BY <2>2, <2>3
  <2> QED
    BY <2>1, <2>4
<1>6. ASSUME \A i, j \in idx : s[i] = s[j] => i = j
      PROVE  IsInjective(At(s, idx))
  <2>1. ASSUME NEW p \in 1 .. n, NEW q \in 1 .. n, At(s, idx)[p] = At(s, idx)[q]
        PROVE  p = q
    <3>1. a[p] = a[q] /\ a[p] \in Int /\ a[q] \in Int
      <4>1. At(s, idx)[p] = s[a[p]] /\ At(s, idx)[q] = s[a[q]] /\ a[p] \in idx /\ a[q] \in idx
        BY <1>1, <1>2
      <4> QED
        BY <4>1, <1>6, <2>1
    <3>2. ~(p < q) /\ ~(q < p)
      BY <1>1, <3>1
    <3> QED
      BY <3>2, <1>1
  <2> QED
    BY <2>1, <1>2 DEF IsInjective
<1> QED
  BY <1>4, <1>5, <1>6 DEF n

(* A last index adds a last element.                                       *)
LEMMA AtAppend ==
  ASSUME NEW s, NEW D, NEW idx, idx \subseteq Int, IsFiniteSet(idx), \A i \in idx : s[i] \in D,
         NEW x \in Int, \A i \in idx : i < x, s[x] \in D
  PROVE  At(s, idx \union {x}) = Append(At(s, idx), s[x])
<1> DEFINE more == idx \union {x}
           n == Cardinality(idx)
<1>1. /\ more \subseteq Int /\ IsFiniteSet(more) /\ x \notin idx /\ n \in Nat
      /\ Cardinality(more) = n + 1
  <2>1. x \notin idx
    BY ~(x < x)
  <2> QED
    BY <2>1, FS_AddElement, FS_CardinalityType
<1>2. ASSUME NEW i \in idx
      PROVE  Rank(more, i) = Rank(idx, i)
  <2>1. {j \in more : j < i} = {j \in idx : j < i}
    <3>1. i \in Int /\ ~(x < i)
      OBVIOUS
    <3> QED
      BY <3>1
  <2> QED
    BY <2>1 DEF Rank
<1>3. Rank(more, x) = n
  <2>1. {j \in more : j < x} = idx
    BY ~(x < x)
  <2> QED
    BY <2>1 DEF Rank
<1>4. /\ SmallestFirst(more) \in [1 .. n + 1 -> more]
      /\ \A c \in more : \E i \in 1 .. n + 1 : SmallestFirst(more)[i] = c
      /\ \A i \in 1 .. n + 1 : Rank(more, SmallestFirst(more)[i]) = i - 1
  <2> HIDE DEF more
  <2> QED
    BY <1>1, AscendingLists
<1>5. /\ SmallestFirst(idx) \in [1 .. n -> idx]
      /\ \A i \in 1 .. n : Rank(idx, SmallestFirst(idx)[i]) = i - 1
  BY AscendingLists
<1>6. ASSUME NEW c \in more, NEW r \in 1 .. n + 1, Rank(more, c) = r - 1
      PROVE  SmallestFirst(more)[r] = c
  <2>1. PICK i \in 1 .. n + 1 : SmallestFirst(more)[i] = c
    BY <1>4
  <2>2. i - 1 = r - 1 /\ i \in Int /\ r \in Int
    <3>1. Rank(more, SmallestFirst(more)[i]) = i - 1
      BY <1>4
    <3> QED
      BY <1>1, <1>6, <2>1, <3>1
  <2> QED
    BY <2>1, <2>2
<1>7. \A r \in 1 .. n : r \in 1 .. n + 1 /\ SmallestFirst(more)[r] = SmallestFirst(idx)[r]
  <2>1. ASSUME NEW r \in 1 .. n
        PROVE  r \in 1 .. n + 1 /\ SmallestFirst(more)[r] = SmallestFirst(idx)[r]
    <3>1. r \in 1 .. n + 1
      BY <1>1
    <3>2. SmallestFirst(idx)[r] \in idx /\ SmallestFirst(idx)[r] \in more /\ Rank(idx, SmallestFirst(idx)[r]) = r - 1
      BY <1>5
    <3>3. Rank(more, SmallestFirst(idx)[r]) = r - 1
      BY <3>2, <1>2
    <3> HIDE DEF more
    <3> QED
      BY <3>1, <3>2, <3>3, <1>6
  <2> QED
    BY <2>1
<1>8. SmallestFirst(more)[n + 1] = x
  <2>1. n + 1 \in 1 .. n + 1 /\ (n + 1) - 1 = n
    BY <1>1
  <2> QED
    BY <2>1, <1>3, <1>6
<1>9. At(s, more) = [r \in 1 .. n + 1 |-> s[SmallestFirst(more)[r]]]
  <2> HIDE DEF more
  <2> QED
    <3>1. At(s, more) = Selected(s, more)
      BY <1>1, AtIs
    <3> QED
      BY <1>1, <3>1 DEF Selected
<1>10. At(s, idx) \in Seq(D) /\ Len(At(s, idx)) = n /\ At(s, idx) = [r \in 1 .. n |-> s[SmallestFirst(idx)[r]]]
  <2>1. At(s, idx) = Selected(s, idx)
    BY AtIs
  <2>2. At(s, idx) \in Seq(D) /\ Len(At(s, idx)) = n
    BY AtHas
  <2> QED
    BY <2>1, <2>2 DEF Selected
<1>11. Append(At(s, idx), s[x]) = [r \in 1 .. n + 1 |-> IF r = n + 1 THEN s[x] ELSE At(s, idx)[r]]
  <2> DEFINE u == At(s, idx)
  <2>1. u \in Seq(D) /\ Len(u) = n
    BY <1>10
  <2> HIDE DEF u
  <2>2. Append(u, s[x]) \in Seq(D) /\ Len(Append(u, s[x])) = n + 1
        /\ (\A i \in 1 .. n : Append(u, s[x])[i] = u[i]) /\ Append(u, s[x])[n + 1] = s[x]
    BY <2>1, AppendProperties
  <2>3. Append(u, s[x]) = [r \in 1 .. n + 1 |-> Append(u, s[x])[r]]
    BY <2>2, LenProperties
  <2>4. \A r \in 1 .. n + 1 : Append(u, s[x])[r] = IF r = n + 1 THEN s[x] ELSE u[r]
    BY <1>1, <2>2
  <2>5. [r \in 1 .. n + 1 |-> Append(u, s[x])[r]] = [r \in 1 .. n + 1 |-> IF r = n + 1 THEN s[x] ELSE u[r]]
    BY <2>4
  <2> QED
    BY <2>3, <2>5 DEF u
<1>12. \A r \in 1 .. n + 1 : s[SmallestFirst(more)[r]] = IF r = n + 1 THEN s[x] ELSE At(s, idx)[r]
  <2>1. \A r \in 1 .. n + 1 : r = n + 1 \/ r \in 1 .. n
    BY <1>1
  <2>2. \A r \in 1 .. n : At(s, idx)[r] = s[SmallestFirst(more)[r]] /\ r # n + 1
    <3>1. ASSUME NEW r \in 1 .. n
          PROVE  At(s, idx)[r] = s[SmallestFirst(more)[r]] /\ r # n + 1
      <4>1. SmallestFirst(more)[r] = SmallestFirst(idx)[r]
        BY <1>7
      <4>2. At(s, idx)[r] = s[SmallestFirst(idx)[r]]
        BY <1>10
      <4>3. r # n + 1
        BY <1>1
      <4> QED
        BY <4>1, <4>2, <4>3
    <3> QED
      BY <3>1
  <2> QED
    BY <2>1, <2>2, <1>8
<1> QED
  BY <1>9, <1>11, <1>12

(* g[k] is the concatenation of the first k groups.                        *)
Accumulates(g, groups) ==
  g = [k \in 0 .. Len(groups) |-> IF k = 0 THEN <<>> ELSE g[k - 1] \o groups[k]]

UpTo(groups) == CHOOSE g : Accumulates(g, groups)

(* The concatenation starts empty and takes one group after the other.     *)
LEMMA ConcatSteps ==
  ASSUME NEW D, NEW groups \in Seq(Seq(D))
  PROVE  /\ Len(groups) \in Nat
         /\ Concat(groups) = UpTo(groups)[Len(groups)]
         /\ UpTo(groups)[0] = <<>>
         /\ \A k \in 0 .. Len(groups) : UpTo(groups)[k] \in Seq(D)
         /\ \A k \in 1 .. Len(groups) : /\ groups[k] \in Seq(D)
                                        /\ UpTo(groups)[k] = UpTo(groups)[k - 1] \o groups[k]
<1> DEFINE n == Len(groups)
           S == Seq(D)
           none == <<>>
           step == [i \in 1 .. n |-> [x \in S |-> x \o groups[i]]]
<1>1. n \in Nat /\ \A k \in 1 .. n : groups[k] \in S
  BY LenProperties, ElementOfSeq
<1>2. none \in S /\ step \in [1 .. n -> [S -> S]]
  <2>1. none \in S
    OBVIOUS
  <2>2. \A i \in 1 .. n : \A x \in S : x \o groups[i] \in S
    BY <1>1, ConcatProperties
  <2> HIDE DEF S
  <2> QED
    BY <2>1, <2>2
<1>3. PICK g : Solves(g, n, S, none, step)
  <2> HIDE DEF n, S, none, step
  <2> QED
    BY <1>1, <1>2, Recursion
<1>4. /\ g \in [0 .. n -> S] /\ g[0] = <<>>
      /\ \A k \in 1 .. n : g[k] = g[k - 1] \o groups[k]
  <2>1. g \in [0 .. n -> S] /\ g[0] = none /\ \A k \in 1 .. n : g[k] = step[k][g[k - 1]]
    BY <1>3 DEF Solves
  <2>2. ASSUME NEW k \in 1 .. n
        PROVE  g[k] = g[k - 1] \o groups[k]
    <3>1. g[k - 1] \in S
      <4>1. k - 1 \in 0 .. n
        BY <1>1
      <4> HIDE DEF S
      <4> QED
        BY <2>1, <4>1
    <3> HIDE DEF S
    <3> QED
      BY <2>1, <3>1
  <2> QED
    BY <2>1, <2>2
<1>5. Accumulates(g, groups)
  <2> DEFINE v(k) == IF k = 0 THEN <<>> ELSE g[k - 1] \o groups[k]
  <2>1. ASSUME NEW k \in 0 .. n
        PROVE  g[k] = v(k)
    <3>1. k = 0 \/ k \in 1 .. n
      BY <1>1
    <3> QED
      BY <3>1, <1>4
  <2>2. g = [k \in 0 .. n |-> g[k]]
    BY <1>4
  <2> HIDE DEF v
  <2>3. [k \in 0 .. n |-> g[k]] = [k \in 0 .. n |-> v(k)]
    BY <2>1
  <2> QED
    BY <2>2, <2>3 DEF Accumulates, v
<1>6. Accumulates(UpTo(groups), groups)
  BY <1>5 DEF UpTo
<1> DEFINE u == UpTo(groups)
<1>7. \A k \in 0 .. n : u[k] = IF k = 0 THEN <<>> ELSE u[k - 1] \o groups[k]
  BY <1>6 DEF Accumulates
<1>8. Concat(groups) = u[n]
  BY DEF Concat, UpTo, Accumulates
<1> HIDE DEF u
<1>9. u[0] = <<>> /\ \A k \in 1 .. n : u[k] = u[k - 1] \o groups[k]
  <2>1. 0 \in 0 .. n /\ \A k \in 1 .. n : k \in 0 .. n /\ k # 0
    BY <1>1
  <2> QED
    BY <2>1, <1>7
<1> DEFINE Wrong == {k \in 0 .. n : u[k] # g[k]}
<1>10. Wrong = {}
  <2> SUFFICES ASSUME Wrong # {} PROVE FALSE
    OBVIOUS
  <2>1. PICK k \in Wrong : \A l \in Wrong : k <= l
    <3>1. Wrong \subseteq Nat
      BY <1>1
    <3> HIDE DEF Wrong
    <3> QED
      BY <3>1, LeastNumber
  <2>2. k \in 0 .. n /\ u[k] # g[k] /\ k # 0
    BY <2>1, <1>4, <1>9
  <2>3. k \in 1 .. n /\ k - 1 \in 0 .. n /\ ~(k <= k - 1)
    BY <2>2, <1>1
  <2>4. k - 1 \notin Wrong
    <3> HIDE DEF Wrong
    <3> QED
      BY <2>1, <2>3
  <2> QED
    BY <2>2, <2>3, <2>4, <1>4, <1>9
<1>11. \A k \in 0 .. n : u[k] = g[k] /\ g[k] \in S
  BY <1>4, <1>10
<1> QED
  BY <1>1, <1>8, <1>9, <1>11 DEF u

(* A last group comes last.                                                *)
LEMMA ConcatAppend ==
  ASSUME NEW D, NEW groups \in Seq(Seq(D)), NEW g \in Seq(D)
  PROVE  Concat(Append(groups, g)) = Concat(groups) \o g
<1> DEFINE more == Append(groups, g)
           n == Len(groups)
<1>1. /\ more \in Seq(Seq(D)) /\ Len(more) = n + 1 /\ n \in Nat
      /\ \A i \in 1 .. n : more[i] = groups[i]
      /\ more[n + 1] = g
  BY AppendProperties, LenProperties
<1> HIDE DEF more
<1>2. /\ Concat(groups) = UpTo(groups)[n] /\ UpTo(groups)[0] = <<>>
      /\ \A k \in 1 .. n : UpTo(groups)[k] = UpTo(groups)[k - 1] \o groups[k]
  BY ConcatSteps
<1>3. /\ Concat(more) = UpTo(more)[n + 1] /\ UpTo(more)[0] = <<>>
      /\ \A k \in 1 .. n + 1 : UpTo(more)[k] = UpTo(more)[k - 1] \o more[k]
  BY <1>1, ConcatSteps
<1> DEFINE Wrong == {k \in 0 .. n : UpTo(more)[k] # UpTo(groups)[k]}
<1>4. Wrong = {}
  <2> SUFFICES ASSUME Wrong # {} PROVE FALSE
    OBVIOUS
  <2>1. PICK k \in Wrong : \A l \in Wrong : k <= l
    <3>1. Wrong \subseteq Nat
      BY <1>1
    <3> HIDE DEF Wrong
    <3> QED
      BY <3>1, LeastNumber
  <2>2. k \in 0 .. n /\ UpTo(more)[k] # UpTo(groups)[k] /\ k # 0
    BY <2>1, <1>2, <1>3
  <2>3. k \in 1 .. n /\ k \in 1 .. n + 1 /\ k - 1 \in 0 .. n /\ ~(k <= k - 1)
    BY <2>2, <1>1
  <2>4. k - 1 \notin Wrong
    <3> HIDE DEF Wrong
    <3> QED
      BY <2>1, <2>3
  <2> QED
    BY <2>2, <2>3, <2>4, <1>1, <1>2, <1>3
<1>5. UpTo(more)[n] = UpTo(groups)[n]
  <2>1. n \in 0 .. n
    BY <1>1
  <2> QED
    BY <2>1, <1>4
<1>6. UpTo(more)[n + 1] = UpTo(more)[n] \o g
  <2>1. n + 1 \in 1 .. n + 1 /\ (n + 1) - 1 = n
    BY <1>1
  <2> QED
    BY <2>1, <1>1, <1>3
<1> QED
  BY <1>2, <1>3, <1>5, <1>6 DEF more

(* Of two lists the concatenation has the elements of both.                *)
LEMMA ConcatOfTwo ==
  ASSUME NEW D, NEW s \in Seq(D), NEW t \in Seq(D)
  PROVE  /\ s \o t \in Seq(D)
         /\ Range(s \o t) = Range(s) \union Range(t)
         /\ IsInjective(s) /\ IsInjective(t) /\ Range(s) \cap Range(t) = {} => IsInjective(s \o t)
<1> DEFINE m == Len(s)
           n == Len(t)
           u == s \o t
<1>1. /\ u \in Seq(D) /\ Len(u) = m + n /\ m \in Nat /\ n \in Nat
      /\ DOMAIN s = 1 .. m /\ DOMAIN t = 1 .. n /\ DOMAIN u = 1 .. m + n
      /\ \A i \in 1 .. m + n : u[i] = IF i <= m THEN s[i] ELSE t[i - m]
  BY ConcatProperties, LenProperties
<1> HIDE DEF m, n, u
<1>2. /\ \A i \in 1 .. m + n : i \in 1 .. m \/ (i - m \in 1 .. n /\ ~(i <= m))
      /\ \A i \in 1 .. m : i \in 1 .. m + n /\ i <= m
      /\ \A i \in 1 .. n : i + m \in 1 .. m + n /\ ~(i + m <= m) /\ (i + m) - m = i
  BY <1>1
<1>3. ASSUME NEW v
      PROVE  v \in Range(u) <=> v \in Range(s) \union Range(t)
  <2>1. ASSUME NEW i \in 1 .. m PROVE s[i] \in Range(u)
    <3>1. i \in DOMAIN u /\ u[i] = s[i]
      BY <1>1, <1>2
    <3> QED
      BY <3>1 DEF Range
  <2>2. ASSUME NEW i \in 1 .. n PROVE t[i] \in Range(u)
    <3>1. i + m \in DOMAIN u /\ u[i + m] = t[i]
      BY <1>1, <1>2
    <3> QED
      BY <3>1 DEF Range
  <2>3. ASSUME NEW i \in 1 .. m + n PROVE u[i] \in Range(s) \union Range(t)
    <3>1. CASE i \in 1 .. m
      <4>1. u[i] = s[i] /\ i \in DOMAIN s
        BY <3>1, <1>1, <1>2
      <4> QED
        BY <4>1 DEF Range
    <3>2. CASE i - m \in 1 .. n /\ ~(i <= m)
      <4>1. u[i] = t[i - m] /\ i - m \in DOMAIN t
        BY <3>2, <1>1
      <4> QED
        BY <4>1 DEF Range
    <3> QED
      BY <3>1, <3>2, <1>2
  <2> QED
    BY <2>1, <2>2, <2>3, <1>1 DEF Range
<1>4. ASSUME IsInjective(s), IsInjective(t), Range(s) \cap Range(t) = {}
      PROVE  IsInjective(u)
  <2> SUFFICES ASSUME NEW i \in 1 .. m + n, NEW j \in 1 .. m + n, u[i] = u[j]
               PROVE  i = j
    BY <1>1 DEF IsInjective
  <2>0. \A x \in 1 .. m : s[x] \in Range(s)
    BY <1>1 DEF Range
  <2>9. \A x \in 1 .. n : t[x] \in Range(t)
    BY <1>1 DEF Range
  <2>1. CASE i \in 1 .. m /\ j \in 1 .. m
    BY <2>1, <1>1, <1>2, <1>4 DEF IsInjective
  <2>2. CASE i - m \in 1 .. n /\ j - m \in 1 .. n /\ ~(i <= m) /\ ~(j <= m)
    <3>1. t[i - m] = t[j - m]
      BY <2>2, <1>1
    <3>2. i - m = j - m
      BY <2>2, <3>1, <1>1, <1>4 DEF IsInjective
    <3> QED
      BY <3>2, <1>1
  <2>3. CASE i \in 1 .. m /\ j - m \in 1 .. n /\ ~(j <= m)
    <3>1. u[i] = s[i] /\ u[j] = t[j - m]
      BY <2>3, <1>1, <1>2
    <3> QED
      BY <3>1, <2>0, <2>9, <2>3, <1>4
  <2>4. CASE j \in 1 .. m /\ i - m \in 1 .. n /\ ~(i <= m)
    <3>1. u[j] = s[j] /\ u[i] = t[i - m]
      BY <2>4, <1>1, <1>2
    <3> QED
      BY <3>1, <2>0, <2>9, <2>4, <1>4
  <2> QED
    BY <2>1, <2>2, <2>3, <2>4, <1>2
<1> QED
  BY <1>1, <1>3, <1>4 DEF u

Elements(groups, k) == UNION {Range(groups[i]) : i \in 1 .. k}

(* The concatenation has the elements of the groups, and each once when no *)
(* group repeats one and no two groups share one.                          *)
LEMMA ConcatHas ==
  ASSUME NEW D, NEW groups \in Seq(Seq(D))
  PROVE  /\ Concat(groups) \in Seq(D)
         /\ Range(Concat(groups)) = UNION {Range(groups[i]) : i \in 1 .. Len(groups)}
         /\ (/\ \A i \in 1 .. Len(groups) : IsInjective(groups[i])
             /\ \A i, j \in 1 .. Len(groups) : i # j => Range(groups[i]) \cap Range(groups[j]) = {})
            => IsInjective(Concat(groups))
<1> DEFINE n == Len(groups)
           u == UpTo(groups)
           Apart == /\ \A i \in 1 .. n : IsInjective(groups[i])
                    /\ \A i, j \in 1 .. n : i # j => Range(groups[i]) \cap Range(groups[j]) = {}
           Wrong == {k \in 0 .. n : ~ (Range(u[k]) = Elements(groups, k) /\ (Apart => IsInjective(u[k])))}
<1>1. /\ n \in Nat /\ Concat(groups) = u[n] /\ u[0] = <<>>
      /\ \A k \in 0 .. n : u[k] \in Seq(D)
      /\ \A k \in 1 .. n : groups[k] \in Seq(D) /\ u[k] = u[k - 1] \o groups[k]
  BY ConcatSteps
<1> HIDE DEF u
<1>2. Wrong = {}
  <2> SUFFICES ASSUME Wrong # {} PROVE FALSE
    OBVIOUS
  <2>1. PICK k \in Wrong : \A l \in Wrong : k <= l
    <3>1. Wrong \subseteq Nat
      BY <1>1
    <3> HIDE DEF Wrong
    <3> QED
      BY <3>1, LeastNumber
  <2>2. k # 0
    <3>1. Range(u[0]) = {} /\ IsInjective(u[0]) /\ Elements(groups, 0) = {}
      BY <1>1 DEF Range, IsInjective, Elements
    <3> QED
      BY <2>1, <3>1
  <2>3. k \in 1 .. n /\ k \in Nat /\ k - 1 \in 0 .. n /\ ~(k <= k - 1)
    BY <2>1, <2>2, <1>1
  <2>4. k - 1 \notin Wrong
    <3> HIDE DEF Wrong
    <3> QED
      BY <2>1, <2>3
  <2>5. Range(u[k - 1]) = Elements(groups, k - 1) /\ (Apart => IsInjective(u[k - 1]))
    <3> HIDE DEF Apart
    <3> QED
      BY <2>3, <2>4
  <2>6. u[k - 1] \in Seq(D) /\ groups[k] \in Seq(D) /\ u[k] = u[k - 1] \o groups[k]
    BY <2>3, <1>1
  <2>7. Range(u[k]) = Elements(groups, k)
    <3>1. Range(u[k]) = Elements(groups, k - 1) \union Range(groups[k])
      BY <2>5, <2>6, ConcatOfTwo
    <3>2. \A i : i \in 1 .. k <=> i \in 1 .. k - 1 \/ i = k
      BY <2>3
    <3>3. Elements(groups, k) = Elements(groups, k - 1) \union Range(groups[k])
      BY <3>2 DEF Elements
    <3> QED
      BY <3>1, <3>3
  <2>8. ASSUME Apart PROVE IsInjective(u[k])
    <3>1. IsInjective(u[k - 1]) /\ IsInjective(groups[k])
      BY <2>3, <2>5, <2>8
    <3>2. Elements(groups, k - 1) \cap Range(groups[k]) = {}
      <4>1. \A i \in 1 .. k - 1 : i \in 1 .. n /\ i # k
        BY <2>3, <1>1
      <4>2. \A i \in 1 .. k - 1 : Range(groups[i]) \cap Range(groups[k]) = {}
        BY <4>1, <2>3, <2>8
      <4> QED
        BY <4>2 DEF Elements
    <3> QED
      BY <3>1, <3>2, <2>5, <2>6, ConcatOfTwo
  <2> HIDE DEF Apart
  <2> QED
    BY <2>1, <2>7, <2>8
<1>3. n \in 0 .. n /\ n \notin Wrong
  <2> HIDE DEF Wrong
  <2> QED
    BY <1>1, <1>2
<1>4. Range(u[n]) = Elements(groups, n) /\ (Apart => IsInjective(u[n]))
  <2> HIDE DEF Apart
  <2> QED
    BY <1>3
<1> QED
  BY <1>1, <1>3, <1>4 DEF Elements

(* The list of a set of masks has each of them.                            *)
LEMMA ByMaskHas ==
  ASSUME NEW masks, masks \subseteq SUBSET Cards
  PROVE  /\ IsFiniteSet(masks)
         /\ Len(ByMask(masks)) \in Nat
         /\ \A r \in Indices(ByMask(masks)) : ByMask(masks)[r] \in masks
         /\ \A m \in masks : \E r \in Indices(ByMask(masks)) : ByMask(masks)[r] = m
<1> DEFINE n == Cardinality(masks)
           rank(m) == Cardinality({o \in masks : MaskLess(o, m)})
<1>1. IsFiniteSet(masks)
  <2>1. IsFiniteSet(SUBSET Cards)
    BY RangeEnumAssumption, FS_SUBSET
  <2> QED
    BY <2>1, FS_Subset
<1>2. RanksFill(MaskOrder(Cards), masks)
  <2>1. OrdersStrictly(MaskOrder(Cards), masks)
    BY RangeEnumAssumption, MasksOrdered
  <2> QED
    BY <1>1, <2>1, RanksAreDense
<1>3. ASSUME NEW m \in masks
      PROVE  rank(m) = RankBy(MaskOrder(Cards), masks, m)
  <2>1. \A o \in masks : <<o, m>> \in MaskOrder(Cards) <=> MaskLess(o, m)
    BY DEF MaskOrder, MaskLess, Top
  <2>2. {o \in masks : MaskLess(o, m)} = Before(MaskOrder(Cards), masks, m)
    BY <2>1 DEF Before
  <2> QED
    BY <2>2 DEF RankBy
<1> HIDE DEF rank
<1>4. ByMask(masks) = [r \in 1 .. n |-> CHOOSE m \in masks : rank(m) = r - 1]
  BY DEF ByMask, rank
<1>5. /\ n \in Nat
      /\ \A m \in masks : rank(m) \in 0 .. n - 1
      /\ \A m, o \in masks : rank(m) = rank(o) => m = o
      /\ \A r \in 1 .. n : \E m \in masks : rank(m) = r - 1
  <2>1. n \in Nat /\ \A m \in masks : rank(m) \in 0 .. n - 1
    BY <1>2, <1>3 DEF RanksFill
  <2>2. ASSUME NEW m \in masks, NEW o \in masks, rank(m) = rank(o)
        PROVE  m = o
    <3>1. RankBy(MaskOrder(Cards), masks, m) = RankBy(MaskOrder(Cards), masks, o)
      BY <1>3, <2>2
    <3> QED
      BY <1>2, <3>1 DEF RanksFill
  <2>3. ASSUME NEW r \in 1 .. n
        PROVE  \E m \in masks : rank(m) = r - 1
    <3>1. PICK m \in masks : RankBy(MaskOrder(Cards), masks, m) = r - 1
      BY <1>2 DEF RanksFill
    <3> QED
      BY <1>3, <3>1
  <2> QED
    BY <2>1, <2>2, <2>3
<1>6. ASSUME NEW r \in 1 .. n
      PROVE  ByMask(masks)[r] \in masks /\ rank(ByMask(masks)[r]) = r - 1
  <2>1. PICK m \in masks : rank(m) = r - 1
    BY <1>5
  <2> QED
    BY <2>1, <1>4
<1>7. Len(ByMask(masks)) = n
  <2>1. ByMask(masks) = [r \in 1 .. n |-> ByMask(masks)[r]]
    BY <1>4
  <2> QED
    BY <2>1, <1>5, FunctionLength
<1>8. ASSUME NEW m \in masks
      PROVE  \E r \in 1 .. n : ByMask(masks)[r] = m
  <2>1. rank(m) \in Nat /\ rank(m) + 1 \in 1 .. n /\ (rank(m) + 1) - 1 = rank(m)
    BY <1>5
  <2> QED
    BY <2>1, <1>5, <1>6
<1> QED
  BY <1>1, <1>5, <1>6, <1>7, <1>8 DEF Indices

(* The indices of a list of combos the filter keeps.                       *)
Kept(combos, board) ==
  {i \in Indices(combos) :
     /\ Usable(combos[i], board)
     /\ \A j \in 1 .. i - 1 : combos[j].mask = combos[i].mask => ~Usable(combos[j], board)}

(* The first usable combo of a mask.                                       *)
First(combos, board, m) ==
  Min({i \in Indices(combos) : combos[i].mask = m /\ Usable(combos[i], board)})

(* The filter keeps the first usable combo of every mask, and nothing      *)
(* else.                                                                   *)
LEMMA FilterHas ==
  ASSUME NEW combos \in Seq(Combos), NEW board
  PROVE  LET F == FilterCombos(combos, board)
         IN  /\ F \in Seq(Combos)
             /\ \A i \in Indices(F) : Usable(F[i], board)
             /\ \A i \in Indices(F) : \E q \in Indices(combos) : F[i] = combos[q]
             /\ \A i, j \in Indices(F) : F[i].mask = F[j].mask => i = j
             /\ \A q \in Indices(combos) : Usable(combos[q], board) =>
                  \E i \in Indices(F) : /\ F[i].mask = combos[q].mask
                                        /\ F[i] = combos[First(combos, board, combos[q].mask)]
<1> DEFINE F == FilterCombos(combos, board)
           K == Kept(combos, board)
           mask == [i \in Indices(combos) |-> combos[i].mask]
<1>1. Len(combos) \in Nat /\ \A i \in Indices(combos) : i \in Nat /\ combos[i] \in Combos
  BY LenProperties, ElementOfSeq DEF Indices
<1>2. K \subseteq Int /\ IsFiniteSet(K) /\ K \subseteq Indices(combos)
  <2>1. K \in SUBSET Indices(combos)
    BY DEF Kept
  <2>2. IsFiniteSet(Indices(combos))
    BY <1>1, FS_Interval DEF Indices
  <2>3. K \subseteq Int
    BY <1>1, <2>1
  <2> HIDE DEF K
  <2> QED
    BY <2>1, <2>2, <2>3, FS_Subset
<1>3. F = At(combos, K)
  BY DEF FilterCombos, Kept
<1>4. \A i \in K : /\ Usable(combos[i], board) /\ i \in Nat /\ i \in 1 .. Len(combos)
                   /\ \A j \in 1 .. i - 1 : combos[j].mask = combos[i].mask => ~Usable(combos[j], board)
  BY <1>1 DEF Kept, Indices
<1> HIDE DEF F, K
<1>5. F \in Seq(Combos) /\ Len(F) = Cardinality(K) /\ Range(F) = {combos[i] : i \in K}
  <2>1. \A i \in K : combos[i] \in Combos
    BY <1>1, <1>2
  <2> QED
    BY <1>2, <1>3, <2>1, AtHas
<1>6. DOMAIN F = Indices(F) /\ Len(F) \in Nat
  BY <1>5, LenProperties DEF Indices
<1>7. ASSUME NEW i \in Indices(F)
      PROVE  \E q \in K : F[i] = combos[q]
  <2>1. F[i] \in Range(F)
    BY <1>6 DEF Range
  <2> QED
    BY <2>1, <1>5
<1>8. ASSUME NEW i \in Indices(F), NEW j \in Indices(F), F[i].mask = F[j].mask
      PROVE  i = j
  <2> DEFINE a == SmallestFirst(K)
             n == Cardinality(K)
  <2>1. /\ n \in Nat /\ a \in [1 .. n -> K]
        /\ \A r, t \in 1 .. n : r < t => a[r] < a[t]
    BY <1>2, AscendingLists
  <2>2. F = Selected(combos, K)
    BY <1>2, <1>3, AtIs
  <2>3. i \in 1 .. n /\ j \in 1 .. n
    BY <1>5 DEF Indices
  <2>4. F[i] = combos[a[i]] /\ F[j] = combos[a[j]]
    BY <2>2, <2>3 DEF Selected
  <2> HIDE DEF a, n
  <2>5. a[i] \in K /\ a[j] \in K /\ a[i] \in Nat /\ a[j] \in Nat
    BY <2>1, <2>3, <1>4
  <2>6. ~(a[i] < a[j])
    <3>1. ASSUME a[i] < a[j] PROVE FALSE
      <4>1. a[i] \in 1 .. a[j] - 1
        BY <3>1, <2>5, <1>4
      <4> QED
        BY <4>1, <2>4, <2>5, <1>4, <1>8
    <3> QED
      BY <3>1
  <2>7. ~(a[j] < a[i])
    <3>1. ASSUME a[j] < a[i] PROVE FALSE
      <4>1. a[j] \in 1 .. a[i] - 1
        BY <3>1, <2>5, <1>4
      <4> QED
        BY <4>1, <2>4, <2>5, <1>4, <1>8
    <3> QED
      BY <3>1
  <2>8. ~(i < j) /\ ~(j < i)
    BY <2>1, <2>3, <2>6, <2>7
  <2> QED
    BY <2>1, <2>3, <2>8
<1>9. ASSUME NEW q \in Indices(combos), Usable(combos[q], board)
      PROVE  \E i \in Indices(F) : /\ F[i].mask = combos[q].mask
                                   /\ F[i] = combos[First(combos, board, combos[q].mask)]
  <2> DEFINE m == combos[q].mask
             G == {i \in Indices(combos) : combos[i].mask = m /\ Usable(combos[i], board)}
             f == Min(G)
  <2>1. q \in G /\ G \subseteq Nat
    BY <1>1, <1>9
  <2>2. f \in G /\ \A y \in G : f <= y
    <3> HIDE DEF G
    <3> QED
      BY <2>1, MinIs
  <2>3. f = First(combos, board, m)
    BY DEF First
  <2>4. f \in K
    <3>1. f \in Indices(combos) /\ f \in Nat /\ combos[f].mask = m /\ Usable(combos[f], board) /\ f <= Len(combos)
      BY <2>2, <1>1 DEF Indices
    <3>2. ASSUME NEW j \in 1 .. f - 1, combos[j].mask = combos[f].mask, Usable(combos[j], board)
          PROVE  FALSE
      <4>1. j \in Indices(combos) /\ j \in Nat /\ j < f
        BY <3>1, <1>1 DEF Indices
      <4>2. j \in G
        BY <4>1, <3>1, <3>2
      <4>3. f <= j
        BY <2>2, <4>2
      <4> HIDE DEF f
      <4> QED
        BY <4>1, <4>3, <3>1
    <3> QED
      BY <3>1, <3>2 DEF K, Kept
  <2>5. combos[f] \in Range(F) /\ combos[f].mask = m
    BY <2>2, <2>4, <1>5
  <2>6. PICK i \in DOMAIN F : F[i] = combos[f]
    BY <2>5 DEF Range
  <2> QED
    BY <2>3, <2>5, <2>6, <1>6
<1>10. \A i \in Indices(F) : Usable(F[i], board) /\ \E q \in Indices(combos) : F[i] = combos[q]
  BY <1>2, <1>4, <1>7
<1> QED
  BY <1>5, <1>8, <1>9, <1>10 DEF F

-----------------------------------------------------------------------------
(* What a cell is to hold in the end.                                      *)
Final(h, t) == IF hands[h] \cap boards[t] # {} THEN 0 ELSE Score(hands[h], boards[t])

(* From the filter on, both ranges are what it left, and have combos; from *)
(* the boards on, the cache has a cell for each hand of the ranges on each *)
(* board.                                                                  *)
Filtered ==
  phase \in {"dispatch", "cached", "fill", "pairs", "emit"} =>
    /\ hero = FilterCombos(call.hero, call.board) /\ hero # <<>>
    /\ villain = FilterCombos(call.villain, call.board) /\ villain # <<>>

Shaped ==
  phase \in {"cached", "fill", "pairs", "emit"} =>
    /\ hands = UniqueHands(hero, villain) /\ boards \in BoardSets(call)
    /\ DOMAIN cache = Indices(hands)
    /\ \A h \in Indices(hands) : DOMAIN cache[h] = Indices(boards)

(* The region's chunks, those claimed and those running.                   *)
Counted ==
  InRegion =>
    /\ DOMAIN region = {"total", "next", "running", "finished", "workers", "spawnFailed"}
    /\ region.total \in Nat /\ region.next \in 0 .. region.total
    /\ region.running \subseteq 0 .. region.next - 1

(* During the fill a cell is empty or final, and it is final when a chunk  *)
(* that has it was claimed and no longer runs; after the fill all are.     *)
Filled ==
  /\ phase \in {"cached", "fill"} =>
       \A h \in Indices(hands), t \in Indices(boards) : cache[h][t] \in {0, Final(h, t)}
  /\ phase = "fill" =>
       /\ region.total = NumSlices
       /\ ~region.spawnFailed => region.workers = FillThreads
       /\ \A s \in (0 .. region.next - 1) \ region.running :
            \A h \in Indices(hands), t \in Indices(boards) :
              <<h, t>> \in Rectangle(s) => cache[h][t] = Final(h, t)
  /\ phase \in {"pairs", "emit"} =>
       \A h \in Indices(hands), t \in Indices(boards) : cache[h][t] = Final(h, t)

CacheInv ==
  /\ call \in Calls
  /\ Filtered
  /\ Shaped
  /\ Counted
  /\ Filled

-----------------------------------------------------------------------------
(* Arithmetic of the cuts.                                                 *)

(* A ceiling division is large enough and positive.                        *)
LEMMA CeilDivCovers ==
  ASSUME NEW a \in Nat \ {0}, NEW b \in Nat \ {0}
  PROVE  /\ CeilDiv(a, b) \in Nat \ {0}
         /\ CeilDiv(a, b) * b >= a
BY DEF CeilDiv

(* Every index of an axis lies in one of the slices of a size.             *)
LEMMA SliceOfIndex ==
  ASSUME NEW axis \in Nat \ {0}, NEW size \in Nat \ {0}, NEW x \in 1 .. axis
  PROVE  \E s \in 0 .. CeilDiv(axis, size) - 1 : s * size < x /\ x <= (s + 1) * size
<1> DEFINE s == (x - 1) \div size
<1>1. s \in Nat /\ s * size <= x - 1 /\ x - 1 < (s + 1) * size
  OBVIOUS
<1>2. CeilDiv(axis, size) \in Nat \ {0} /\ CeilDiv(axis, size) * size >= axis
  BY CeilDivCovers
<1>3. s < CeilDiv(axis, size)
  <2> DEFINE c == CeilDiv(axis, size)
  <2> HIDE DEF s, c
  <2>1. SUFFICES ASSUME s >= c PROVE FALSE
    BY <1>1, <1>2 DEF c
  <2>2. c \in Nat /\ s * size >= c * size
    BY <2>1, <1>1, <1>2 DEF c
  <2> QED
    BY <2>2, <1>1, <1>2 DEF c
<1> QED
  BY <1>1, <1>3, <1>2

(* Two slices of a size do not overlap.                                    *)
LEMMA SlicesApart ==
  ASSUME NEW size \in Nat, NEW s \in Nat, NEW u \in Nat, NEW x \in Int,
         s * size < x, x <= (s + 1) * size, u * size < x, x <= (u + 1) * size
  PROVE  s = u
<1>1. ASSUME NEW a \in Nat, NEW b \in Nat, a < b PROVE (a + 1) * size <= b * size
  <2>1. PICK d \in Nat : b = a + 1 + d
    BY <1>1
  <2>2. b * size = (a + 1) * size + d * size /\ d * size >= 0
    BY <2>1
  <2> QED
    BY <2>2
<1>2. ~(s < u)
  BY <1>1, (s + 1) * size \in Int, u * size \in Int
<1>3. ~(u < s)
  BY <1>1, (u + 1) * size \in Int, s * size \in Int
<1> QED
  BY <1>2, <1>3

(* The filter leaves a list.                                               *)
LEMMA FilterLength ==
  ASSUME NEW combos \in Seq(Combos), NEW board
  PROVE  /\ Len(FilterCombos(combos, board)) \in Nat
         /\ Len(FilterCombos(combos, board)) = 0 => FilterCombos(combos, board) = <<>>
BY FilterHas, LenProperties, EmptySeq

(* The masks of both ranges are sets of cards, and each of them is a hand. *)
LEMMA HandsHave ==
  ASSUME NEW h \in Seq(Combos), NEW v \in Seq(Combos)
  PROVE  /\ Len(UniqueHands(h, v)) \in Nat
         /\ \A r \in Indices(UniqueHands(h, v)) : UniqueHands(h, v)[r] \in SUBSET Cards
         /\ \A i \in Indices(h) : \E r \in Indices(UniqueHands(h, v)) : UniqueHands(h, v)[r] = h[i].mask
         /\ \A j \in Indices(v) : \E r \in Indices(UniqueHands(h, v)) : UniqueHands(h, v)[r] = v[j].mask
<1> DEFINE masks == {h[i].mask : i \in Indices(h)} \union {v[j].mask : j \in Indices(v)}
<1>1. masks \subseteq SUBSET Cards
  <2>1. \A i \in Indices(h) : h[i] \in Combos
    BY ElementOfSeq DEF Indices
  <2>2. \A j \in Indices(v) : v[j] \in Combos
    BY ElementOfSeq DEF Indices
  <2>3. \A c \in Combos : c.mask \in SUBSET Cards
    BY DEF Combos
  <2> QED
    BY <2>1, <2>2, <2>3
<1>2. UniqueHands(h, v) = ByMask(masks)
  BY DEF UniqueHands
<1>3. /\ \A i \in Indices(h) : h[i].mask \in masks
      /\ \A j \in Indices(v) : v[j].mask \in masks
  OBVIOUS
<1> HIDE DEF masks
<1> QED
  BY <1>1, <1>2, <1>3, ByMaskHas

(* A board is a set of cards.                                              *)
LEMMA BoardsHave ==
  ASSUME NEW c \in CallType, NEW b \in BoardSets(c)
  PROVE  Len(b) \in Nat /\ \A t \in Indices(b) : b[t] \in SUBSET Cards
<1>0. Completions(c.board) \subseteq SUBSET Cards
  BY DEF Completions
<1>1. CASE RunIsExact(c)
  BY <1>0, <1>1, ByMaskHas DEF BoardSets
<1>2. CASE ~RunIsExact(c)
  <2> DEFINE n == IF c.iterations < 0 THEN 0 ELSE c.iterations
  <2>1. c.iterations \in Int
    BY DEF CallType
  <2>2. n \in Nat /\ 1 .. n = 1 .. c.iterations
    BY <2>1
  <2>3. b = [i \in 1 .. n |-> b[i]] /\ \A i \in 1 .. n : b[i] \in Completions(c.board)
    BY <1>2, <2>2 DEF BoardSets
  <2> HIDE DEF n
  <2>4. Len(b) = n
    BY <2>2, <2>3, FunctionLength
  <2> QED
    BY <1>0, <2>2, <2>3, <2>4 DEF Indices
<1> QED
  BY <1>1, <1>2

-----------------------------------------------------------------------------
(* Facts about one state.                                                  *)

(* The ranges, hands and boards a call works on.                           *)
LEMMA RangesHave ==
  ASSUME CacheInv, phase \in {"dispatch", "cached", "fill", "pairs", "emit"}
  PROVE  /\ call \in CallType
         /\ hero \in Seq(Combos) /\ Len(hero) \in Nat \ {0}
         /\ villain \in Seq(Combos) /\ Len(villain) \in Nat \ {0}
<1>1. call \in CallType
  BY RangeEnumAssumption DEF CacheInv
<1>2. call.hero \in Seq(Combos) /\ call.villain \in Seq(Combos)
  BY <1>1 DEF CallType
<1>3. hero \in Seq(Combos) /\ villain \in Seq(Combos)
  BY <1>2, FilterHas DEF CacheInv, Filtered
<1>4. hero # <<>> /\ villain # <<>>
  BY DEF CacheInv, Filtered
<1> QED
  BY <1>1, <1>3, <1>4, LenProperties, EmptySeq

(* Once there is a cache, every combo of both ranges has its row in it.    *)
LEMMA CellsHave ==
  ASSUME CacheInv, phase \in {"cached", "fill", "pairs", "emit"}
  PROVE  /\ Len(hands) \in Nat /\ Len(boards) \in Nat
         /\ \A h \in Indices(hands) : hands[h] \in SUBSET Cards
         /\ \A t \in Indices(boards) : boards[t] \in SUBSET Cards
         /\ \A i \in Indices(hero) : \E h \in Indices(hands) : hands[h] = hero[i].mask
         /\ \A j \in Indices(villain) : \E h \in Indices(hands) : hands[h] = villain[j].mask
<1>1. hands = UniqueHands(hero, villain) /\ boards \in BoardSets(call)
  BY DEF CacheInv, Shaped
<1> QED
  BY <1>1, RangesHave, HandsHave, BoardsHave

(* The fill has a number of chunks, at least one.                          *)
LEMMA FillPlan ==
  ASSUME call \in Calls, Len(hands) \in Nat, Len(boards) \in Nat
  PROVE  /\ Axis \in Nat /\ FillThreads \in Nat
         /\ FillThreads = 0 => Axis = 0
         /\ FillThreads > 1 => Axis > 1 /\ Slice \in Nat \ {0}
         /\ NumSlices \in Nat \ {0}
<1>1. call.threads \in Int /\ call.hw \in Nat
  BY RangeEnumAssumption DEF CallType
<1>2. FillWidth \in Nat \ {0}
  BY <1>1 DEF FillWidth, ResolveThreads
<1>3. Axis \in Nat
  BY DEF Axis
<1>4. FillThreads \in Nat /\ FillThreads <= Axis /\ (FillThreads = 0 => Axis = 0)
  BY <1>2, <1>3 DEF FillThreads
<1>5. ASSUME FillThreads > 1 PROVE Axis > 1 /\ Slice \in Nat \ {0}
  BY <1>3, <1>4, <1>5, CeilDivCovers DEF Slice
<1>6. NumSlices \in Nat \ {0}
  BY <1>3, <1>4, <1>5, CeilDivCovers DEF NumSlices
<1> QED
  BY <1>3, <1>4, <1>5, <1>6

(* Every cell is in a slice of the fill.                                   *)
LEMMA SlicesCover ==
  ASSUME call \in Calls, Len(hands) \in Nat, Len(boards) \in Nat,
         NEW h \in Indices(hands), NEW t \in Indices(boards)
  PROVE  FillThreads # 0 /\ \E s \in 0 .. NumSlices - 1 : <<h, t>> \in Rectangle(s)
<1> DEFINE x == IF SplitBoards THEN t ELSE h
<1>1. x \in 1 .. Axis
  BY DEF Axis, Indices
<1>2. FillThreads # 0
  BY <1>1, FillPlan
<1>3. \E s \in 0 .. NumSlices - 1 : x \in SliceOf(s)
  <2>1. CASE FillThreads <= 1
    BY <2>1, <1>1, FillPlan DEF NumSlices, SliceOf
  <2>2. CASE FillThreads > 1
    <3>1. Axis \in Nat \ {0} /\ Slice \in Nat \ {0}
      BY <2>2, FillPlan
    <3>2. PICK s \in 0 .. CeilDiv(Axis, Slice) - 1 : s * Slice < x /\ x <= (s + 1) * Slice
      BY <3>1, <1>1, SliceOfIndex
    <3> QED
      BY <3>1, <3>2, <2>2, <1>1, FillPlan DEF NumSlices, SliceOf
  <2> QED
    BY <2>1, <2>2, FillPlan
<1>4. \A s : x \in SliceOf(s) => <<h, t>> \in Rectangle(s)
  BY DEF Rectangle
<1> QED
  BY <1>2, <1>3, <1>4

(* No two slices of the fill have a cell in common.                        *)
LEMMA RectanglesApart ==
  ASSUME call \in Calls, Len(hands) \in Nat, Len(boards) \in Nat,
         NEW s \in 0 .. NumSlices - 1, NEW u \in 0 .. NumSlices - 1, s # u
  PROVE  Rectangle(s) \cap Rectangle(u) = {}
<1>1. SliceOf(s) \cap SliceOf(u) = {}
  <2>1. CASE FillThreads <= 1
    BY <2>1 DEF NumSlices
  <2>2. CASE FillThreads > 1
    <3>1. Slice \in Nat /\ s \in Nat /\ u \in Nat /\ ~(FillThreads <= 1)
      BY <2>2, FillPlan
    <3>2. SUFFICES ASSUME NEW x \in SliceOf(s), x \in SliceOf(u) PROVE FALSE
      OBVIOUS
    <3>3. /\ x \in Int /\ s * Slice < x /\ x <= (s + 1) * Slice
          /\ u * Slice < x /\ x <= (u + 1) * Slice
      BY <3>1, <3>2, FillPlan DEF SliceOf
    <3> QED
      BY <3>1, <3>3, SlicesApart
  <2> QED
    BY <2>1, <2>2, FillPlan
<1> QED
  BY <1>1 DEF Rectangle

(* No two chunks of the pair loop have a hero row in common.               *)
LEMMA RowsApart ==
  ASSUME Len(hero) \in Nat \ {0}, NEW k \in Nat, NEW l \in Nat, k # l
  PROVE  RowsOf(k) \cap RowsOf(l) = {}
<1>1. NumRowChunks \in Nat \ {0}
  BY RangeEnumAssumption DEF NumRowChunks
<1>2. RowsPerChunk \in Nat
  BY <1>1, CeilDivCovers DEF RowsPerChunk
<1>3. SUFFICES ASSUME NEW i \in RowsOf(k), i \in RowsOf(l) PROVE FALSE
  OBVIOUS
<1>4. /\ i \in Int /\ k * RowsPerChunk < i /\ i <= (k + 1) * RowsPerChunk
      /\ l * RowsPerChunk < i /\ i <= (l + 1) * RowsPerChunk
  BY <1>3 DEF RowsOf, Indices
<1> QED
  BY <1>2, <1>4, SlicesApart

(* The invariant gives the property.                                       *)
LEMMA InvImpliesFinal == CacheInv => CacheFinalWhenRead
<1> SUFFICES ASSUME CacheInv PROVE CacheFinalWhenRead
  OBVIOUS
<1>1. ASSUME phase \in {"pairs", "emit"}
      PROVE  \A h \in Indices(hands), t \in Indices(boards) :
               cache[h][t] = IF hands[h] \cap boards[t] # {} THEN 0
                                    ELSE Score(hands[h], boards[t])
  BY <1>1 DEF CacheInv, Filled, Final
<1>2. ASSUME NEW s \in region.running, NEW u \in region.running, s # u, phase = "fill"
      PROVE  Rectangle(s) \cap Rectangle(u) = {}
  <2>1. s \in 0 .. NumSlices - 1 /\ u \in 0 .. NumSlices - 1
    BY <1>2 DEF CacheInv, Counted, Filled, InRegion
  <2> QED
    BY <1>2, <2>1, RectanglesApart, CellsHave DEF CacheInv
<1>3. ASSUME NEW s \in region.running, NEW u \in region.running, s # u, phase = "pairs"
      PROVE  RowsOf(s) \cap RowsOf(u) = {}
  <2>1. s \in Nat /\ u \in Nat
    BY <1>3 DEF CacheInv, Counted, InRegion
  <2> QED
    BY <1>3, <2>1, RowsApart, RangesHave
<1> QED
  BY <1>1, <1>2, <1>3 DEF CacheFinalWhenRead

-----------------------------------------------------------------------------
(* The steps.                                                              *)

(* A call that starts has no cache yet.                                    *)
LEMMA InitInv == Init => CacheInv
BY DEF Init, CacheInv, Filtered, Shaped, Counted, Filled, InRegion

(* The cuts and the final cells depend on the inputs alone.                *)
LEMMA InputsDecide ==
  ASSUME UNCHANGED inputs
  PROVE  /\ call' = call /\ hero' = hero /\ villain' = villain
         /\ hands' = hands /\ boards' = boards
         /\ NumSlices' = NumSlices /\ FillThreads' = FillThreads
         /\ \A s : Rectangle(s)' = Rectangle(s)
         /\ \A h, t : Final(h, t)' = Final(h, t)
BY DEF inputs, NumSlices, FillThreads, Axis, SplitBoards, FillWidth, ResolveThreads,
       Slice, SliceOf, Rectangle, Final

(* A step that ends the call leaves nothing to show.                       *)
LEMMA EndKeeps ==
  ASSUME CacheInv, phase' = "done", call' = call
  PROVE  CacheInv'
BY DEF CacheInv, Filtered, Shaped, Counted, Filled, InRegion

(* The filter keeps CacheInv.                                              *)
LEMMA FilterKeeps ==
  ASSUME CacheInv, Filter
  PROVE  CacheInv'
<1>1. call \in CallType
  BY RangeEnumAssumption DEF CacheInv
<1>3. CASE hero' = <<>> \/ villain' = <<>>
  BY <1>3, EndKeeps DEF Filter, Return
<1>4. CASE ~(hero' = <<>> \/ villain' = <<>>)
  <2>1. phase' = "dispatch" /\ call' = call
    BY <1>4 DEF Filter
  <2>2. Filtered'
    BY <1>4, <2>1 DEF Filtered, Filter
  <2> QED
    BY <2>1, <2>2 DEF CacheInv, Shaped, Counted, Filled, InRegion
<1> QED
  BY <1>3, <1>4

(* Building the boards shapes the cache, all cells empty.                  *)
LEMMA BuildBoardsKeeps ==
  ASSUME CacheInv, BuildBoards
  PROVE  CacheInv'
<1>1. hands' = UniqueHands(hero, villain) /\ boards' \in BoardSets(call) /\ phase = "dispatch"
  BY DEF BuildBoards
<1>3. CASE Len(hands') * Len(boards') > CacheLimit
  BY <1>3, EndKeeps DEF BuildBoards, Return
<1>4. CASE ~(Len(hands') * Len(boards') > CacheLimit)
  <2>1. /\ cache' = [h \in Indices(hands') |-> [t \in Indices(boards') |-> 0]]
        /\ phase' = "cached" /\ call' = call /\ hero' = hero /\ villain' = villain
    BY <1>4 DEF BuildBoards
  <2>2. Filtered'
    BY <1>1, <2>1 DEF CacheInv, Filtered
  <2>3. Shaped'
    BY <1>1, <2>1 DEF Shaped, Indices
  <2>4. Counted'
    BY <2>1 DEF Counted, InRegion
  <2>5. Filled'
    BY <2>1 DEF Filled, Indices
  <2> QED
    BY <2>1, <2>2, <2>3, <2>4, <2>5 DEF CacheInv
<1> QED
  BY <1>3, <1>4

(* The fill starts with no chunk claimed.                                  *)
LEMMA StartFillKeeps ==
  ASSUME CacheInv, StartFill
  PROVE  CacheInv'
<1>1. /\ phase = "cached" /\ phase' = "fill" /\ cache' = cache /\ UNCHANGED inputs
      /\ region' = Region(NumSlices, FillThreads)
  BY DEF StartFill
<1>2. Len(hands) \in Nat /\ Len(boards) \in Nat /\ call \in Calls
  BY <1>1, CellsHave DEF CacheInv
<1>3. NumSlices \in Nat
  BY <1>2, FillPlan
<1>4. /\ region'.total = NumSlices /\ region'.next = 0 /\ region'.running = {}
      /\ region'.workers = FillThreads
      /\ DOMAIN region' = {"total", "next", "running", "finished", "workers", "spawnFailed"}
  BY <1>1 DEF Region
<1>5. Filtered' /\ Shaped'
  BY <1>1, InputsDecide DEF CacheInv, Filtered, Shaped, Indices
<1>6. Counted'
  BY <1>3, <1>4 DEF Counted
<1>7. Filled'
  <2>1. \A h \in Indices(hands'), t \in Indices(boards') : cache'[h][t] \in {0, Final(h, t)'}
    BY <1>1, InputsDecide DEF CacheInv, Filled, Indices
  <2>2. (0 .. region'.next - 1) \ region'.running = {}
    BY <1>4
  <2> QED
    BY <1>1, <1>4, <2>1, <2>2, InputsDecide DEF Filled
<1> QED
  BY <1>2, <1>1, <1>5, <1>6, <1>7, InputsDecide DEF CacheInv

(* A step of the region that touches no cell and settles no chunk.         *)
LEMMA RegionKeeps ==
  ASSUME CacheInv, InRegion, UNCHANGED <<inputs, phase, cache>>,
         DOMAIN region' = DOMAIN region,
         region'.total = region.total, region'.next \in 0 .. region.total,
         region'.running \subseteq 0 .. region'.next - 1,
         phase = "fill" => (0 .. region'.next - 1) \ region'.running \subseteq (0 .. region.next - 1) \ region.running,
         ~region'.spawnFailed => ~region.spawnFailed /\ region'.workers = region.workers
  PROVE  CacheInv'
<1>1. Filtered' /\ Shaped'
  BY InputsDecide DEF CacheInv, Filtered, Shaped, Indices
<1>2. Counted'
  BY DEF CacheInv, Counted, InRegion
<1>3. Filled'
  <2>1. CASE phase = "fill"
    BY <2>1, InputsDecide DEF CacheInv, Filled, Indices
  <2>2. CASE phase = "pairs"
    BY <2>2, InputsDecide DEF CacheInv, Filled, Indices
  <2> QED
    BY <2>1, <2>2 DEF InRegion
<1> QED
  BY <1>1, <1>2, <1>3, InputsDecide DEF CacheInv

(* A claimed slice is one that was not claimed before.                     *)
LEMMA ClaimKeeps ==
  ASSUME CacheInv, Claim
  PROVE  CacheInv'
<1>1. /\ DOMAIN region = {"total", "next", "running", "finished", "workers", "spawnFailed"}
      /\ region.total \in Nat /\ region.next \in 0 .. region.total /\ region.next < region.total
      /\ region.running \subseteq 0 .. region.next - 1
  BY DEF CacheInv, Counted, Claim
<1>2. /\ DOMAIN region' = DOMAIN region /\ region'.total = region.total
      /\ region'.next = region.next + 1 /\ region'.running = region.running \union {region.next}
      /\ region'.workers = region.workers /\ region'.spawnFailed = region.spawnFailed
  BY <1>1 DEF Claim
<1>3. (0 .. region'.next - 1) \ region'.running \subseteq (0 .. region.next - 1) \ region.running
  BY <1>1, <1>2
<1> QED
  BY <1>1, <1>2, <1>3, RegionKeeps DEF Claim

(* A thread that cannot be created writes nothing.                         *)
LEMMA SpawnFailsKeeps ==
  ASSUME CacheInv, SpawnFails
  PROVE  CacheInv'
<1>1. PICK w : region' = [region EXCEPT !.workers = w, !.spawnFailed = TRUE]
  BY DEF SpawnFails
<1>2. /\ DOMAIN region = {"total", "next", "running", "finished", "workers", "spawnFailed"}
      /\ region.total \in Nat /\ region.next \in 0 .. region.total
      /\ region.running \subseteq 0 .. region.next - 1
  BY DEF CacheInv, Counted, SpawnFails
<1>3. /\ DOMAIN region' = DOMAIN region /\ region'.total = region.total /\ region'.next = region.next
      /\ region'.running = region.running /\ region'.spawnFailed
  BY <1>1, <1>2
<1> QED
  BY <1>2, <1>3, RegionKeeps DEF SpawnFails

(* A slice makes its cells final, writes nothing else and is settled.      *)
LEMMA FillSliceKeeps ==
  ASSUME CacheInv, NEW s \in region.running, FillSlice(s)
  PROVE  CacheInv'
<1>1. /\ phase = "fill" /\ phase' = "fill" /\ UNCHANGED inputs
      /\ cache' = [h \in Indices(hands) |-> [t \in Indices(boards) |->
           IF <<h, t>> \in Rectangle(s) /\ hands[h] \cap boards[t] = {}
           THEN Score(hands[h], boards[t]) ELSE cache[h][t]]]
      /\ region' = [region EXCEPT !.running = @ \ {s}, !.finished = Append(@, s)]
  BY DEF FillSlice, Finished
<1>2. /\ DOMAIN region = {"total", "next", "running", "finished", "workers", "spawnFailed"}
      /\ region.total \in Nat /\ region.next \in 0 .. region.total
      /\ region.running \subseteq 0 .. region.next - 1
  BY <1>1 DEF CacheInv, Counted, InRegion
<1>3. /\ DOMAIN region' = DOMAIN region /\ region'.total = region.total /\ region'.next = region.next
      /\ region'.running = region.running \ {s}
      /\ region'.workers = region.workers /\ region'.spawnFailed = region.spawnFailed
  BY <1>1, <1>2
<1>4. Filtered' /\ Shaped'
  BY <1>1, InputsDecide DEF CacheInv, Filtered, Shaped
<1>5. Counted'
  BY <1>2, <1>3 DEF Counted
<1>6. ASSUME NEW h \in Indices(hands), NEW t \in Indices(boards)
      PROVE  /\ cache'[h][t] \in {0, Final(h, t)}
             /\ <<h, t>> \in Rectangle(s) => cache'[h][t] = Final(h, t)
             /\ cache[h][t] = Final(h, t) => cache'[h][t] = Final(h, t)
  <2>1. cache[h][t] \in {0, Final(h, t)}
    BY <1>1 DEF CacheInv, Filled
  <2>2. cache'[h][t] = IF <<h, t>> \in Rectangle(s) /\ hands[h] \cap boards[t] = {}
                      THEN Score(hands[h], boards[t]) ELSE cache[h][t]
    BY <1>1
  <2>3. CASE hands[h] \cap boards[t] = {}
    BY <2>1, <2>2, <2>3 DEF Final
  <2>4. CASE hands[h] \cap boards[t] # {}
    BY <2>1, <2>2, <2>4 DEF Final
  <2> QED
    BY <2>3, <2>4
<1>7. Filled'
  <2>1. region'.total = NumSlices' /\ (~region'.spawnFailed => region'.workers = FillThreads')
    BY <1>1, <1>3, InputsDecide DEF CacheInv, Filled
  <2>2. ASSUME NEW u \in (0 .. region'.next - 1) \ region'.running,
               NEW h \in Indices(hands'), NEW t \in Indices(boards'), <<h, t>> \in Rectangle(u)'
        PROVE  cache'[h][t] = Final(h, t)'
    <3>1. <<h, t>> \in Rectangle(u) /\ h \in Indices(hands) /\ t \in Indices(boards)
      BY <1>1, <2>2, InputsDecide DEF Indices
    <3>2. CASE u = s
      BY <3>1, <3>2, <1>6, <1>1, InputsDecide
    <3>3. CASE u # s
      <4>1. u \in (0 .. region.next - 1) \ region.running
        BY <3>3, <2>2, <1>3
      <4> QED
        BY <4>1, <3>1, <1>6, <1>1, InputsDecide DEF CacheInv, Filled
    <3> QED
      BY <3>2, <3>3
  <2>3. ASSUME NEW h \in Indices(hands'), NEW t \in Indices(boards')
        PROVE  cache'[h][t] \in {0, Final(h, t)'}
    <3>1. h \in Indices(hands) /\ t \in Indices(boards)
      BY <1>1 DEF inputs
    <3>2. Final(h, t)' = Final(h, t)
      BY <1>1, InputsDecide
    <3> QED
      BY <3>1, <3>2, <1>6
  <2> QED
    BY <1>1, <2>1, <2>2, <2>3 DEF Filled
<1> QED
  BY <1>1, <1>4, <1>5, <1>7, InputsDecide DEF CacheInv

(* A hero row reads the cache and writes none of it.                       *)
LEMMA HeroRowKeeps ==
  ASSUME CacheInv, NEW k \in region.running, HeroRow(k)
  PROVE  CacheInv'
BY RegionKeeps DEF HeroRow, CacheInv, Counted, InRegion

(* A settled chunk of rows writes no cell.                                 *)
LEMMA RowsDoneKeeps ==
  ASSUME CacheInv, NEW k \in region.running, RowsDone(k)
  PROVE  CacheInv'
<1>1. /\ DOMAIN region = {"total", "next", "running", "finished", "workers", "spawnFailed"}
      /\ region.total \in Nat /\ region.next \in 0 .. region.total
      /\ region.running \subseteq 0 .. region.next - 1 /\ InRegion /\ phase # "fill"
  BY DEF CacheInv, Counted, RowsDone, InRegion
<1>2. /\ DOMAIN region' = DOMAIN region /\ region'.total = region.total /\ region'.next = region.next
      /\ region'.running = region.running \ {k}
      /\ region'.workers = region.workers /\ region'.spawnFailed = region.spawnFailed
  BY <1>1 DEF RowsDone, Finished
<1> QED
  BY <1>1, <1>2, RegionKeeps DEF RowsDone

(* The pair loop starts when no fill chunk runs and all are claimed: every *)
(* cell is then final.                                                     *)
LEMMA StartPairsKeeps ==
  ASSUME CacheInv, StartPairs
  PROVE  CacheInv'
<1>1. /\ phase = "fill" /\ phase' = "pairs" /\ cache' = cache /\ UNCHANGED inputs
      /\ region' = Region(NumRowChunks, PairWidth)
      /\ region.running = {} /\ (region.next = region.total \/ region.workers = 0)
      /\ ~region.spawnFailed
  BY DEF StartPairs, Drained
<1>2. Len(hands) \in Nat /\ Len(boards) \in Nat /\ call \in Calls
  BY <1>1, CellsHave DEF CacheInv
<1>3. region.total = NumSlices /\ region.workers = FillThreads
  BY <1>1 DEF CacheInv, Filled
<1>4. ASSUME NEW h \in Indices(hands), NEW t \in Indices(boards)
      PROVE  cache[h][t] = Final(h, t)
  <2>1. PICK s \in 0 .. NumSlices - 1 : <<h, t>> \in Rectangle(s)
    BY <1>2, SlicesCover
  <2>2. FillThreads # 0
    BY <1>2, SlicesCover
  <2>3. s \in (0 .. region.next - 1) \ region.running
    BY <2>1, <2>2, <1>1, <1>3
  <2> QED
    BY <2>1, <2>3, <1>1 DEF CacheInv, Filled
<1>5. Filtered' /\ Shaped'
  BY <1>1, InputsDecide DEF CacheInv, Filtered, Shaped, Indices
<1>6. NumRowChunks \in Nat
  BY <1>1, RangeEnumAssumption, RangesHave DEF NumRowChunks
<1>7. Counted'
  BY <1>1, <1>6 DEF Counted, Region
<1>8. Filled'
  BY <1>1, <1>4, InputsDecide DEF Filled, Indices
<1> QED
  BY <1>1, <1>2, <1>5, <1>7, <1>8, InputsDecide DEF CacheInv

(* The reduction writes no cell.                                           *)
LEMMA ReduceKeeps ==
  ASSUME CacheInv, Reduce
  PROVE  CacheInv'
<1>1. phase = "pairs" /\ phase' = "emit" /\ cache' = cache /\ UNCHANGED inputs
  BY DEF Reduce
<1>2. Filled'
  BY <1>1, InputsDecide DEF CacheInv, Filled, Indices
<1> QED
  BY <1>1, <1>2, InputsDecide DEF CacheInv, Filtered, Shaped, Counted, InRegion, Indices

(* A step that changes nothing keeps CacheInv.                             *)
LEMMA StutterKeeps ==
  ASSUME CacheInv, UNCHANGED vars
  PROVE  CacheInv'
<1>1. UNCHANGED inputs /\ phase' = phase /\ cache' = cache /\ region' = region
  BY DEF vars
<1>2. Filtered' /\ Shaped' /\ Counted'
  BY <1>1, InputsDecide DEF CacheInv, Filtered, Shaped, Counted, InRegion, Indices
<1>3. Filled'
  BY <1>1, InputsDecide DEF CacheInv, Filled, Indices
<1> QED
  BY <1>1, <1>2, <1>3, InputsDecide DEF CacheInv

(* Every step keeps the invariant.                                         *)
LEMMA StepInv ==
  ASSUME CacheInv, [Next]_vars
  PROVE  CacheInv'
<1>1. CASE Reject \/ SamplePairs \/ SpawnError \/ Emit
  <2>1. phase' = "done" /\ call' = call
    BY <1>1 DEF Reject, SamplePairs, SpawnError, Emit, Return, inputs
  <2> QED
    BY <2>1, EndKeeps
<1>2. CASE \E s \in region.running : FillSlice(s) \/ HeroRow(s) \/ RowsDone(s)
  BY <1>2, FillSliceKeeps, HeroRowKeeps, RowsDoneKeeps
<1> QED
  BY <1>1, <1>2, FilterKeeps, BuildBoardsKeeps, StartFillKeeps, ClaimKeeps, SpawnFailsKeeps,
     StartPairsKeeps, ReduceKeeps, StutterKeeps
  DEF Next, CallerStep, WorkerStep, Returned

(* No score is read before it is final, and chunks that run together write *)
(* nothing in common: for all ranges, boards, thread counts and schedules  *)
(* (the two fan-outs of enumerate_range_equity).                           *)
THEOREM CacheFinal == Spec => []CacheFinalWhenRead
<1>1. Init => CacheInv
  BY InitInv
<1>2. CacheInv /\ [Next]_vars => CacheInv'
  BY StepInv
<1>3. CacheInv => CacheFinalWhenRead
  BY InvImpliesFinal
<1> QED
  BY <1>1, <1>2, <1>3, PTL DEF Spec

-----------------------------------------------------------------------------
(* The sums of the pair loop, and what they are to be.                     *)

(* The chunks of the pair loop, the rows chunk k has been through, and     *)
(* what every row adds to the aggregate and to column j.                   *)
Chunks == 0 .. NumRowChunks - 1

Summed(k) == {i \in RowsOf(k) : i < row[k]}

ByRow == [i \in Indices(hero) |-> RowTerms(i)]

ByRowIn(j) == [i \in Indices(hero) |-> IF CanMeet(i, j) THEN <<TrueTerm(i, j)>> ELSE <<>>]

(* The loop's counters, and its sums: those of the rows done, complete     *)
(* when the chunk is settled.                                              *)
Stepping ==
  phase = "pairs" =>
    /\ region.total = NumRowChunks
    /\ ~region.spawnFailed => region.workers = PairWidth
    /\ DOMAIN row = Chunks
    /\ \A k \in Chunks : row[k] \in Nat /\ k * RowsPerChunk < row[k]
    /\ \A k \in (0 .. region.next - 1) \ region.running : Summed(k) = RowsOf(k)

RowSums == [i \in Indices(hero) |->
              IF \E k \in Chunks : i \in Summed(k) THEN RowTerms(i) ELSE <<>>]

ColumnSum(k, j) == Concat(At(ByRowIn(j), Summed(k)))

Summing ==
  phase = "pairs" =>
    /\ heroAcc = RowSums
    /\ chunkPair = [k \in Chunks |-> Concat(At(ByRow, Summed(k)))]
    /\ chunkVill = [k \in Chunks |-> [j \in Indices(villain) |-> ColumnSum(k, j)]]

BySide == [j \in Indices(villain) |-> SerialVillain(j)]

(* The reduction leaves the sums of one worker alone.                      *)
Reduced ==
  phase = "emit" =>
    /\ heroAcc = ByRow /\ pairSum = SerialPair
    /\ villAcc = BySide

(* The result of a call whose ranges both have combos.                     *)
HeroMet == {i \in Indices(hero) : \E j \in Indices(villain) : CanMeet(i, j)}

VillainMet == {j \in Indices(villain) : \E i \in Indices(hero) : CanMeet(i, j)}

Entries(combos, summed, met) ==
  At([i \in Indices(combos) |-> [combo |-> combos[i], sum |-> summed[i]]], met)

HeroEntries == Entries(hero, ByRow, HeroMet)

VillainEntries == Entries(villain, BySide, VillainMet)

FullAnswer ==
  [kind |-> "result",
   hero |-> IF call.mode = "AggregateOnly" THEN <<>> ELSE HeroEntries,
   villain |-> IF call.mode = "AggregateOnly" THEN <<>> ELSE VillainEntries,
   pair |-> SerialPair, trials |-> Len(boards), exact |-> RunIsExact(call)]

(* A result is the full one, or the empty one when a filtered range is     *)
(* empty.                                                                  *)
Ending ==
  /\ phase # "done" => outcome = Pending
  /\ IsResult =>
       /\ hero = FilterCombos(call.hero, call.board)
       /\ villain = FilterCombos(call.villain, call.board)
       /\ IF hero = <<>> \/ villain = <<>> THEN outcome = Zero(call) ELSE outcome = FullAnswer

SumsInv == CacheInv /\ Stepping /\ Summing /\ Reduced /\ Ending

(* The terms there can be, and the columns row i meets.                    *)
AllTerms == {TrueTerm(p[1], p[2]) : p \in Indices(hero) \X Indices(villain)}

Columns(i) == {j \in Indices(villain) : CanMeet(i, j)}

(* The score of a hand on a board, from the cache.                         *)
LEMMA ScoresAre ==
  ASSUME CacheInv, phase = "pairs", NEW m,
         \E h \in Indices(hands) : hands[h] = m,
         NEW t \in Indices(boards)
  PROVE  /\ m \in SUBSET Cards /\ Score(m, boards[t]) \in Nat \ {0}
         /\ Scores(m)[t] = IF m \cap boards[t] # {} THEN 0 ELSE Score(m, boards[t])
<1> DEFINE h == CHOOSE x \in Indices(hands) : hands[x] = m
<1>1. h \in Indices(hands) /\ hands[h] = m
  OBVIOUS
<1>2. Scores(m) = cache[h]
  BY DEF Scores
<1> HIDE DEF h
<1>3. m \in SUBSET Cards /\ boards[t] \in SUBSET Cards
  BY <1>1, CellsHave
<1>4. cache[h][t] = Final(h, t)
  BY <1>1 DEF CacheInv, Filled
<1> QED
  BY <1>1, <1>2, <1>3, <1>4, RangeEnumAssumption DEF Final

(* The pair loop counts what the boards say.                               *)
LEMMA TermIs ==
  ASSUME CacheInv, phase = "pairs", NEW i \in Indices(hero), NEW j \in Indices(villain)
  PROVE  /\ Term(i, j) = TrueTerm(i, j)
         /\ Meet(i, j) <=> CanMeet(i, j)
<1> DEFINE h == hero[i].mask
           v == villain[j].mask
           hs == Scores(h)
           vs == Scores(v)
           valid == {t \in Indices(boards) : hs[t] # 0 /\ vs[t] # 0}
           open == {t \in Indices(boards) : boards[t] \cap (h \union v) = {}}
           Beats(a, b) == {t \in open : Score(a, boards[t]) > Score(b, boards[t])}
<1>1. ASSUME NEW t \in Indices(boards)
      PROVE  /\ Score(h, boards[t]) \in Nat \ {0} /\ Score(v, boards[t]) \in Nat \ {0}
             /\ hs[t] = IF h \cap boards[t] # {} THEN 0 ELSE Score(h, boards[t])
             /\ vs[t] = IF v \cap boards[t] # {} THEN 0 ELSE Score(v, boards[t])
  <2>1. (\E x \in Indices(hands) : hands[x] = h) /\ (\E x \in Indices(hands) : hands[x] = v)
    BY CellsHave
  <2> HIDE DEF h, v
  <2> QED
    BY <2>1, ScoresAre
<1> HIDE DEF h, v, hs, vs
<1>2. ASSUME NEW t \in Indices(boards)
      PROVE  boards[t] \cap (h \union v) = {} <=> hs[t] # 0 /\ vs[t] # 0
  <2>1. boards[t] \cap (h \union v) = {} <=> h \cap boards[t] = {} /\ v \cap boards[t] = {}
    OBVIOUS
  <2> QED
    BY <2>1, <1>1
<1>3. valid = open
  BY <1>2
<1>4. ASSUME NEW t \in open
      PROVE  /\ hs[t] = Score(h, boards[t]) /\ vs[t] = Score(v, boards[t])
             /\ hs[t] \in Nat /\ vs[t] \in Nat
  <2>1. h \cap boards[t] = {} /\ v \cap boards[t] = {}
    OBVIOUS
  <2> QED
    BY <2>1, <1>1
<1>5. {t \in valid : hs[t] > vs[t]} = Beats(h, v)
  <2>1. \A t \in open : hs[t] > vs[t] <=> Score(h, boards[t]) > Score(v, boards[t])
    BY <1>4
  <2> HIDE DEF valid, open
  <2> QED
    BY <2>1, <1>3
<1>6. {t \in valid : hs[t] = vs[t]} = open \ (Beats(h, v) \union Beats(v, h))
  <2>1. \A t \in open : hs[t] = vs[t] <=> ~(Score(h, boards[t]) > Score(v, boards[t]))
                                      /\ ~(Score(v, boards[t]) > Score(h, boards[t]))
    BY <1>4
  <2> HIDE DEF valid, open
  <2> QED
    BY <2>1, <1>3
<1>7. Count(hs, vs) = TrueCount(h, v)
  <2>1. Count(hs, vs) = [wins |-> Cardinality({t \in valid : hs[t] > vs[t]}),
                         chops |-> Cardinality({t \in valid : hs[t] = vs[t]}),
                         valid |-> Cardinality(valid)]
    BY DEF Count
  <2>2. TrueCount(h, v) = [wins |-> Cardinality(Beats(h, v)),
                           chops |-> Cardinality(open \ (Beats(h, v) \union Beats(v, h))),
                           valid |-> Cardinality(open)]
    BY DEF TrueCount
  <2> QED
    BY <2>1, <2>2, <1>3, <1>5, <1>6
<1>8. Term(i, j) = TrueTerm(i, j)
  BY <1>7 DEF Term, TrueTerm, h, v, hs, vs
<1>9. Cardinality(open) > 0 <=> open # {}
  <2>1. IsFiniteSet(Indices(boards))
    <3>1. Len(boards) \in Nat
      BY CellsHave
    <3> QED
      BY <3>1, FS_Interval DEF Indices
  <2>2. IsFiniteSet(open)
    BY <2>1, FS_Subset
  <2>3. Cardinality(open) \in Nat /\ (Cardinality(open) = 0 <=> open = {})
    BY <2>2, FS_CardinalityType, FS_EmptySet
  <2> HIDE DEF open
  <2> QED
    BY <2>3
<1>10. Term(i, j).eq.valid = Cardinality(open)
  <2>1. TrueTerm(i, j).eq = TrueCount(h, v)
    BY DEF TrueTerm, h, v
  <2>2. TrueCount(h, v).valid = Cardinality(open)
    BY DEF TrueCount
  <2> QED
    BY <2>1, <2>2, <1>8
<1>11. Meet(i, j) <=> CanMeet(i, j)
  <2>1. Meet(i, j) <=> h \cap v = {} /\ Cardinality(open) > 0
    BY <1>10 DEF Meet, h, v
  <2>2. CanMeet(i, j) <=> h \cap v = {} /\ open # {}
    <3>1. CanMeet(i, j) <=> Opposed(h, v)
      BY DEF CanMeet, h, v
    <3>2. Opposed(h, v) <=> h \cap v = {} /\ \E t \in Indices(boards) : boards[t] \cap (h \union v) = {}
      BY DEF Opposed
    <3> QED
      BY <3>1, <3>2
  <2> HIDE DEF open
  <2> QED
    BY <2>1, <2>2, <1>9
<1> QED
  BY <1>8, <1>11

(* The terms of a row.                                                     *)
LEMMA RowHas ==
  ASSUME Len(villain) \in Nat, NEW i \in Indices(hero)
  PROVE  /\ RowTerms(i) \in Seq(AllTerms)
         /\ Range(RowTerms(i)) = {TrueTerm(i, j) : j \in Columns(i)}
         /\ IsInjective(RowTerms(i))
<1> DEFINE f == [j \in Indices(villain) |-> TrueTerm(i, j)]
           K == Columns(i)
<1>1. K \subseteq Int /\ IsFiniteSet(K) /\ K \subseteq Indices(villain)
  <2>1. IsFiniteSet(Indices(villain)) /\ Indices(villain) \subseteq Int
    BY FS_Interval DEF Indices
  <2>2. K \in SUBSET Indices(villain)
    BY DEF Columns
  <2> HIDE DEF K
  <2> QED
    BY <2>1, <2>2, FS_Subset
<1>2. \A j \in K : f[j] = TrueTerm(i, j) /\ f[j] \in AllTerms
  <2>1. \A j \in Indices(villain) : TrueTerm(i, j) \in AllTerms
    <3>1. ASSUME NEW j \in Indices(villain) PROVE TrueTerm(i, j) \in AllTerms
      <4>1. <<i, j>> \in Indices(hero) \X Indices(villain)
        OBVIOUS
      <4>2. TrueTerm(<<i, j>>[1], <<i, j>>[2]) = TrueTerm(i, j)
        OBVIOUS
      <4> QED
        BY <4>1, <4>2 DEF AllTerms
    <3> QED
      BY <3>1
  <2> QED
    BY <1>1, <2>1
<1>3. \A p, q \in K : f[p] = f[q] => p = q
  <2>1. \A j : TrueTerm(i, j).col = j
    BY DEF TrueTerm
  <2> QED
    BY <2>1, <1>2
<1>4. RowTerms(i) = At(f, K)
  BY DEF RowTerms, Columns
<1> DEFINE D == AllTerms
<1> HIDE DEF f, K, D
<1>5. /\ At(f, K) \in Seq(D)
      /\ Range(At(f, K)) = {f[j] : j \in K}
      /\ IsInjective(At(f, K))
  <2>1. \A j \in K : f[j] \in D
    BY <1>2 DEF D
  <2> QED
    BY <1>1, <1>3, <2>1, AtHas
<1>6. {f[j] : j \in K} = {TrueTerm(i, j) : j \in K}
  BY <1>2
<1> QED
  BY <1>4, <1>5, <1>6 DEF K, D

(* The loop finds them.                                                    *)
LEMMA TermsAre ==
  ASSUME CacheInv, phase = "pairs", NEW i \in Indices(hero)
  PROVE  Terms(i) = RowTerms(i)
<1>1. \A j \in Indices(villain) : Term(i, j) = TrueTerm(i, j) /\ (Meet(i, j) <=> CanMeet(i, j))
  BY TermIs
<1>2. [j \in Indices(villain) |-> Term(i, j)] = [j \in Indices(villain) |-> TrueTerm(i, j)]
  BY <1>1
<1>3. {j \in Indices(villain) : Meet(i, j)} = {j \in Indices(villain) : CanMeet(i, j)}
  BY <1>1
<1> QED
  BY <1>2, <1>3 DEF Terms, RowTerms

-----------------------------------------------------------------------------
(* The rows of the chunks.                                                 *)

(* What the sums are to be depends on the inputs alone.                    *)
LEMMA SameSums ==
  ASSUME UNCHANGED inputs
  PROVE  /\ NumRowChunks' = NumRowChunks /\ RowsPerChunk' = RowsPerChunk
         /\ PairWidth' = PairWidth /\ Chunks' = Chunks
         /\ \A k : RowsOf(k)' = RowsOf(k)
         /\ \A i : RowTerms(i)' = RowTerms(i)
         /\ ByRow' = ByRow
         /\ \A j : ByRowIn(j)' = ByRowIn(j)
         /\ SerialPair' = SerialPair
         /\ \A j : SerialVillain(j)' = SerialVillain(j)
<1>1. call' = call /\ hero' = hero /\ villain' = villain /\ boards' = boards /\ hands' = hands
  BY DEF inputs
<1>2. /\ NumRowChunks' = NumRowChunks /\ RowsPerChunk' = RowsPerChunk
      /\ PairWidth' = PairWidth /\ Chunks' = Chunks
      /\ \A k : RowsOf(k)' = RowsOf(k)
  BY <1>1 DEF NumRowChunks, RowsPerChunk, PairWidth, Chunks, RowsOf, ResolveThreads
<1>3. \A i, j : TrueTerm(i, j)' = TrueTerm(i, j) /\ (CanMeet(i, j)' <=> CanMeet(i, j))
  BY <1>1 DEF TrueTerm, TrueCount, CanMeet, Opposed
<1>4. /\ \A i : RowTerms(i)' = RowTerms(i)
      /\ ByRow' = ByRow
      /\ \A j : ByRowIn(j)' = ByRowIn(j)
      /\ SerialPair' = SerialPair
      /\ \A j : SerialVillain(j)' = SerialVillain(j)
  BY <1>1 DEF RowTerms, ByRow, ByRowIn, TrueTerm, TrueCount, CanMeet, Opposed, SerialPair, SerialVillain, InGroups
<1> QED
  BY <1>2, <1>4

(* The sums of one worker depend on the inputs alone.                      *)
LEMMA SameColumns ==
  ASSUME UNCHANGED inputs
  PROVE  BySide' = BySide
<1>1. \A j : SerialVillain(j)' = SerialVillain(j)
  BY SameSums
<1>2. [j \in Indices(villain) |-> SerialVillain(j)'] = [j \in Indices(villain) |-> SerialVillain(j)]
  BY <1>1
<1>3. Indices(villain)' = Indices(villain)
  BY InputsDecide DEF Indices
<1> QED
  BY <1>2, <1>3 DEF BySide

(* The chunks of the pair loop cut the hero rows.                          *)
LEMMA RowsCut ==
  ASSUME Len(hero) \in Nat \ {0}
  PROVE  /\ NumRowChunks \in Nat \ {0} /\ RowsPerChunk \in Nat \ {0}
         /\ \A k \in Chunks : /\ k \in Nat /\ RowsOf(k) \subseteq Indices(hero)
                              /\ RowsOf(k) \subseteq Nat /\ IsFiniteSet(RowsOf(k))
         /\ \A i \in Indices(hero) : \E k \in Chunks : i \in RowsOf(k)
<1>1. NumRowChunks \in Nat \ {0}
  BY RangeEnumAssumption DEF NumRowChunks
<1>2. RowsPerChunk \in Nat \ {0} /\ RowsPerChunk * NumRowChunks >= Len(hero)
  BY <1>1, CeilDivCovers DEF RowsPerChunk
<1>3. ASSUME NEW k \in Chunks
      PROVE  /\ k \in Nat /\ RowsOf(k) \subseteq Indices(hero)
             /\ RowsOf(k) \subseteq Nat /\ IsFiniteSet(RowsOf(k))
  <2>1. k \in Nat /\ RowsOf(k) \in SUBSET Indices(hero) /\ Indices(hero) \subseteq Nat
    BY <1>1 DEF Chunks, RowsOf, Indices
  <2>2. IsFiniteSet(Indices(hero))
    BY FS_Interval DEF Indices
  <2> QED
    BY <2>1, <2>2, FS_Subset
<1>4. ASSUME NEW i \in Indices(hero)
      PROVE  \E k \in Chunks : i \in RowsOf(k)
  <2> DEFINE n == Len(hero)
             c == NumRowChunks
             p == RowsPerChunk
  <2>1. i \in 1 .. n /\ n \in Nat \ {0} /\ c \in Nat \ {0} /\ p \in Nat \ {0} /\ p * c >= n
    BY <1>1, <1>2 DEF Indices
  <2> HIDE DEF n, c, p
  <2>2. PICK k \in 0 .. CeilDiv(n, p) - 1 : k * p < i /\ i <= (k + 1) * p
    BY <2>1, SliceOfIndex
  <2>3. k \in Nat
    BY <2>1, <2>2, CeilDivCovers
  <2>4. k < c
    <3>1. ASSUME k >= c PROVE FALSE
      <4>1. PICK d \in Nat : k = c + d
        BY <3>1, <2>1, <2>3
      <4>2. k * p = p * c + d * p /\ d * p >= 0
        BY <4>1, <2>1
      <4> QED
        BY <4>2, <2>1, <2>2
    <3> QED
      BY <3>1, <2>1, <2>3
  <2>5. k \in 0 .. c - 1
    BY <2>1, <2>3, <2>4
  <2> QED
    BY <2>2, <2>5 DEF Chunks, RowsOf, c, p
<1> QED
  BY <1>1, <1>2, <1>3, <1>4

(* They are the groups of a worker alone.                                  *)
LEMMA GroupsAre ==
  ASSUME Len(hero) \in Nat \ {0}
  PROVE  Groups(Len(hero)) = [k \in 1 .. NumRowChunks |-> RowsOf(k - 1)]
<1> DEFINE n == Len(hero)
           p == RowsPerChunk
           group(k) == {i \in 1 .. n : CeilDiv(i, p) = k}
<1>1. NumRowChunks \in Nat \ {0} /\ p \in Nat \ {0} /\ n \in Nat
  BY RowsCut
<1>2. Groups(n) = [k \in 1 .. NumRowChunks |-> group(k)]
  BY DEF Groups, NumRowChunks, RowsPerChunk
<1>3. ASSUME NEW k \in 1 .. NumRowChunks
      PROVE  group(k) = RowsOf(k - 1)
  <2>1. \A i \in 1 .. n : CeilDiv(i, p) = k <=> (k - 1) * p < i /\ i <= ((k - 1) + 1) * p
    <3> HIDE DEF n, p
    <3> SUFFICES ASSUME NEW i \in 1 .. n
                 PROVE  CeilDiv(i, p) = k <=> (k - 1) * p < i /\ i <= ((k - 1) + 1) * p
      OBVIOUS
    <3> DEFINE c == CeilDiv(i, p)
    <3>1. i \in Nat \ {0} /\ k \in Nat \ {0} /\ k - 1 \in Nat /\ c \in Nat \ {0} /\ c - 1 \in Nat
      <4>1. i \in Nat \ {0} /\ k \in Nat \ {0} /\ k - 1 \in Nat
        BY <1>1
      <4>2. c \in Nat \ {0}
        BY <4>1, <1>1, CeilDivCovers
      <4> HIDE DEF c
      <4> QED
        BY <4>1, <4>2
    <3>2. (c - 1) * p < i /\ i <= ((c - 1) + 1) * p
      <4>1. c = (i + p - 1) \div p
        BY DEF CeilDiv
      <4>2. c * p <= i + p - 1 /\ i + p - 1 < (c + 1) * p
        BY <4>1, <1>1, <3>1
      <4>3. (c - 1) * p = c * p - p /\ (c + 1) * p = c * p + p /\ ((c - 1) + 1) * p = c * p /\ c * p \in Int
        BY <1>1, <3>1
      <4> HIDE DEF c
      <4> QED
        BY <4>2, <4>3, <3>1, <1>1
    <3> HIDE DEF c
    <3>3. ASSUME (k - 1) * p < i, i <= ((k - 1) + 1) * p
          PROVE  c = k
      <4>1. c - 1 = k - 1
        BY <3>1, <3>2, <3>3, <1>1, SlicesApart
      <4> QED
        BY <4>1, <3>1
    <3> QED
      BY <3>2, <3>3 DEF c
  <2> QED
    BY <2>1 DEF RowsOf, Indices
<1> HIDE DEF group
<1>4. [k \in 1 .. NumRowChunks |-> group(k)] = [k \in 1 .. NumRowChunks |-> RowsOf(k - 1)]
  BY <1>3
<1> QED
  BY <1>2, <1>4

(* One more list in a selection is one more at the end of its              *)
(* concatenation.                                                          *)
LEMMA OneMore ==
  ASSUME NEW f, NEW D, NEW idx, idx \subseteq Int, IsFiniteSet(idx),
         \A i \in idx : f[i] \in Seq(D),
         NEW x \in Int, \A i \in idx : i < x, f[x] \in Seq(D)
  PROVE  Concat(At(f, idx \union {x})) = Concat(At(f, idx)) \o f[x]
<1> DEFINE S == Seq(D)
<1>1. At(f, idx) \in Seq(S) /\ f[x] \in S
  <2>1. \A i \in idx : f[i] \in S
    OBVIOUS
  <2> HIDE DEF S
  <2>2. At(f, idx) \in Seq(S)
    BY <2>1, AtHas
  <2> QED
    BY <2>2 DEF S
<1>2. At(f, idx \union {x}) = Append(At(f, idx), f[x])
  <2>1. (\A i \in idx : f[i] \in S) /\ f[x] \in S
    OBVIOUS
  <2> HIDE DEF S
  <2> QED
    BY <2>1, AtAppend
<1> QED
  BY <1>1, <1>2, ConcatAppend

-----------------------------------------------------------------------------
(* The steps of the pair loop.                                             *)

(* Every row's terms, in the aggregate and in a column, are a list of      *)
(* terms.                                                                  *)
LEMMA RowLists ==
  ASSUME Len(villain) \in Nat, NEW i \in Indices(hero)
  PROVE  /\ ByRow[i] = RowTerms(i) /\ RowTerms(i) \in Seq(AllTerms)
         /\ \A j \in Indices(villain) :
              /\ ByRowIn(j)[i] = IF CanMeet(i, j) THEN <<TrueTerm(i, j)>> ELSE <<>>
              /\ ByRowIn(j)[i] \in Seq(AllTerms)
              /\ TrueTerm(i, j) \in AllTerms
<1>1. ByRow[i] = RowTerms(i) /\ RowTerms(i) \in Seq(AllTerms)
  BY RowHas DEF ByRow
<1>2. ASSUME NEW j \in Indices(villain)
      PROVE  /\ ByRowIn(j)[i] = IF CanMeet(i, j) THEN <<TrueTerm(i, j)>> ELSE <<>>
             /\ ByRowIn(j)[i] \in Seq(AllTerms)
             /\ TrueTerm(i, j) \in AllTerms
  <2>1. ByRowIn(j)[i] = IF CanMeet(i, j) THEN <<TrueTerm(i, j)>> ELSE <<>>
    BY DEF ByRowIn
  <2>2. TrueTerm(i, j) \in AllTerms
    <3>1. <<i, j>> \in Indices(hero) \X Indices(villain)
      OBVIOUS
    <3>2. TrueTerm(<<i, j>>[1], <<i, j>>[2]) = TrueTerm(i, j)
      OBVIOUS
    <3> QED
      BY <3>1, <3>2 DEF AllTerms
  <2> QED
    BY <2>1, <2>2
<1> QED
  BY <1>1, <1>2

(* One row: every sum takes the terms of the row, at its end.              *)
LEMMA HeroRowSums ==
  ASSUME SumsInv, NEW k \in region.running, HeroRow(k)
  PROVE  Stepping' /\ Summing'
<1> DEFINE i == row[k]
<1>1. /\ phase = "pairs" /\ phase' = "pairs" /\ UNCHANGED inputs /\ region' = region
      /\ row' = [row EXCEPT ![k] = i + 1] /\ i \in RowsOf(k)
      /\ heroAcc' = [heroAcc EXCEPT ![i] = @ \o Terms(i)]
      /\ chunkVill' = [chunkVill EXCEPT ![k] = [j \in Indices(villain) |->
              IF Meet(i, j) THEN Append(@[j], Term(i, j)) ELSE @[j]]]
      /\ chunkPair' = [chunkPair EXCEPT ![k] = @ \o Terms(i)]
  BY DEF HeroRow
<1>2. /\ CacheInv /\ DOMAIN row = Chunks /\ region.total = NumRowChunks
      /\ ~region.spawnFailed => region.workers = PairWidth
      /\ \A l \in Chunks : row[l] \in Nat /\ l * RowsPerChunk < row[l]
      /\ \A l \in (0 .. region.next - 1) \ region.running : Summed(l) = RowsOf(l)
      /\ heroAcc = RowSums
      /\ chunkPair = [l \in Chunks |-> Concat(At(ByRow, Summed(l)))]
      /\ chunkVill = [l \in Chunks |-> [j \in Indices(villain) |-> ColumnSum(l, j)]]
  BY <1>1 DEF SumsInv, Stepping, Summing
<1>3. Len(hero) \in Nat \ {0} /\ Len(villain) \in Nat \ {0}
  BY <1>1, <1>2, RangesHave
<1>4. k \in Chunks
  <2>1. region.total \in Nat /\ region.next \in 0 .. region.total /\ region.running \subseteq 0 .. region.next - 1
    BY <1>1, <1>2 DEF CacheInv, Counted, InRegion
  <2>2. k \in Int /\ 0 <= k /\ k <= region.next - 1 /\ region.next <= NumRowChunks
    BY <2>1, <1>2
  <2>3. NumRowChunks \in Nat
    BY <1>3, RowsCut
  <2> QED
    BY <2>1, <2>2, <2>3 DEF Chunks
<1>5. i \in Indices(hero) /\ i \in Nat
  BY <1>1, <1>3, <1>4, RowsCut
<1>6. /\ \A l \in Chunks : IsFiniteSet(Summed(l)) /\ Summed(l) \subseteq RowsOf(l)
      /\ \A l \in Chunks : Summed(l) \subseteq Indices(hero) /\ Summed(l) \subseteq Int
      /\ \A x \in Summed(k) : x < i
  <2>1. \A l \in Chunks : Summed(l) \in SUBSET RowsOf(l)
    BY DEF Summed
  <2>2. \A x \in Summed(k) : x < i
    BY DEF Summed
  <2> QED
    BY <2>1, <2>2, <1>3, RowsCut, FS_Subset
<1>7. /\ row'[k] = i + 1 /\ DOMAIN row' = Chunks
      /\ \A l \in Chunks : l # k => row'[l] = row[l]
  BY <1>1, <1>2, <1>4
<1>8. /\ Summed(k)' = Summed(k) \union {i}
      /\ \A l \in Chunks : l # k => Summed(l)' = Summed(l)
  <2>1. \A l \in Chunks : Summed(l)' = {x \in RowsOf(l) : x < row'[l]}
    BY <1>1, SameSums DEF Summed
  <2>2. \A x \in RowsOf(k) : x < i + 1 <=> x < i \/ x = i
    BY <1>3, <1>4, <1>5, RowsCut
  <2>3. {x \in RowsOf(k) : x < i + 1} = {x \in RowsOf(k) : x < i} \union {i}
    BY <1>1, <2>2
  <2> QED
    BY <2>1, <2>3, <1>4, <1>7 DEF Summed
<1> HIDE DEF i
<1>9. Stepping'
  <2>1. \A l \in Chunks : row'[l] \in Nat /\ l * RowsPerChunk < row'[l]
    <3>1. row[k] \in Nat /\ k * RowsPerChunk < row[k] /\ k * RowsPerChunk \in Nat
      BY <1>2, <1>3, <1>4, RowsCut
    <3>2. row'[k] = row[k] + 1
      BY <1>7 DEF i
    <3>3. k * RowsPerChunk < row[k] + 1
      BY <3>1
    <3> QED
      BY <3>1, <3>2, <3>3, <1>2, <1>7
  <2>2. ASSUME NEW l \in (0 .. region.next - 1) \ region.running
        PROVE  Summed(l)' = RowsOf(l)
    <3>1. l \in Chunks /\ l # k
      <4>1. region.total \in Nat /\ region.next \in 0 .. region.total
        BY <1>1, <1>2 DEF CacheInv, Counted, InRegion
      <4> QED
        BY <4>1, <1>2 DEF Chunks
    <3> QED
      BY <3>1, <1>2, <1>8
  <2> QED
    BY <2>1, <2>2, <1>1, <1>2, <1>7, SameSums DEF Stepping
<1>10. Terms(i) = RowTerms(i)
  BY <1>1, <1>2, <1>5, TermsAre
<1>11. \A x \in Indices(hero) : ByRow[x] = RowTerms(x) /\ ByRow[x] \in Seq(AllTerms)
  BY <1>3, RowLists
<1>12. Concat(At(ByRow, Summed(k) \union {i})) = Concat(At(ByRow, Summed(k))) \o RowTerms(i)
  <2>1. \A x \in Summed(k) : ByRow[x] \in Seq(AllTerms)
    BY <1>4, <1>6, <1>11
  <2>2. Summed(k) \subseteq Int /\ IsFiniteSet(Summed(k)) /\ i \in Int
    BY <1>4, <1>5, <1>6
  <2> DEFINE D == AllTerms
             f == ByRow
  <2>3. (\A x \in Summed(k) : f[x] \in Seq(D)) /\ f[i] \in Seq(D)
    BY <2>1, <1>5, <1>11
  <2> HIDE DEF D, f
  <2>4. Concat(At(f, Summed(k) \union {i})) = Concat(At(f, Summed(k))) \o f[i]
    BY <2>2, <2>3, <1>6, OneMore
  <2> QED
    BY <2>4, <1>5, <1>11 DEF f
<1>13. chunkPair' = [l \in Chunks |-> Concat(At(ByRow, Summed(l)'))]
  <2>1. chunkPair' = [l \in Chunks |-> IF l = k THEN chunkPair[k] \o Terms(i) ELSE chunkPair[l]]
    BY <1>1, <1>2
  <2>2. \A l \in Chunks : (IF l = k THEN chunkPair[k] \o Terms(i) ELSE chunkPair[l]) = Concat(At(ByRow, Summed(l)'))
    BY <1>2, <1>4, <1>8, <1>10, <1>12
  <2> QED
    BY <2>1, <2>2
<1>14. ASSUME NEW j \in Indices(villain)
       PROVE  (IF Meet(i, j) THEN Append(ColumnSum(k, j), Term(i, j)) ELSE ColumnSum(k, j))
              = Concat(At(ByRowIn(j), Summed(k) \union {i}))
  <2> DEFINE D == AllTerms
             f == ByRowIn(j)
             c == ColumnSum(k, j)
             t == TrueTerm(i, j)
  <2>1. Term(i, j) = t /\ (Meet(i, j) <=> CanMeet(i, j))
    BY <1>1, <1>2, <1>5, TermIs
  <2>2. /\ \A x \in Summed(k) : f[x] \in Seq(D)
        /\ f[i] \in Seq(D) /\ f[i] = IF CanMeet(i, j) THEN <<t>> ELSE <<>>
        /\ t \in D
    BY <1>3, <1>4, <1>5, <1>6, RowLists
  <2>3. Summed(k) \subseteq Int /\ IsFiniteSet(Summed(k)) /\ i \in Int
    BY <1>4, <1>5, <1>6
  <2>4. c = Concat(At(f, Summed(k)))
    BY DEF ColumnSum
  <2> HIDE DEF D, f, c, t
  <2>5. Concat(At(f, Summed(k) \union {i})) = c \o f[i]
    BY <2>2, <2>3, <2>4, <1>6, OneMore
  <2>6. c \in Seq(D)
    <3> DEFINE S == Seq(D)
    <3>1. \A x \in Summed(k) : f[x] \in S
      BY <2>2
    <3> HIDE DEF S
    <3>2. At(f, Summed(k)) \in Seq(S)
      BY <2>3, <3>1, AtHas
    <3> QED
      BY <3>2, <2>4, ConcatHas DEF S
  <2>7. c \o <<t>> = Append(c, t) /\ c \o <<>> = c
    BY <2>2, <2>6
  <2> QED
    BY <2>1, <2>2, <2>5, <2>7 DEF f, c, t
<1>15. chunkVill' = [l \in Chunks |-> [j \in Indices(villain) |-> Concat(At(ByRowIn(j), Summed(l)'))]]
  <2> DEFINE new == [j \in Indices(villain) |-> IF Meet(i, j) THEN Append(chunkVill[k][j], Term(i, j)) ELSE chunkVill[k][j]]
  <2>1. chunkVill' = [l \in Chunks |-> IF l = k THEN new ELSE chunkVill[l]]
    BY <1>1, <1>2
  <2>2. new = [j \in Indices(villain) |-> Concat(At(ByRowIn(j), Summed(k)'))]
    BY <1>2, <1>4, <1>8, <1>14
  <2>3. \A l \in Chunks : l # k => chunkVill[l] = [j \in Indices(villain) |-> Concat(At(ByRowIn(j), Summed(l)'))]
    BY <1>2, <1>8 DEF ColumnSum
  <2> HIDE DEF new
  <2>4. \A l \in Chunks : (IF l = k THEN new ELSE chunkVill[l]) = [j \in Indices(villain) |-> Concat(At(ByRowIn(j), Summed(l)'))]
    BY <2>2, <2>3
  <2> QED
    BY <2>1, <2>4
<1>16. heroAcc' = [x \in Indices(hero) |-> IF \E l \in Chunks : x \in Summed(l)' THEN RowTerms(x) ELSE <<>>]
  <2>1. heroAcc' = [x \in Indices(hero) |-> IF x = i THEN heroAcc[i] \o Terms(i) ELSE heroAcc[x]]
    BY <1>1, <1>2 DEF RowSums
  <2>2. ASSUME NEW l \in Chunks PROVE i \notin Summed(l)
    <3>1. CASE l = k
      BY <3>1, <1>5, <1>6
    <3>2. CASE l # k
      <4>1. RowsOf(k) \cap RowsOf(l) = {}
        BY <3>2, <1>3, <1>4, RowsCut, RowsApart
      <4> QED
        BY <4>1, <1>1, <1>6
    <3> QED
      BY <3>1, <3>2
  <2>3. heroAcc[i] = <<>>
    BY <2>2, <1>2, <1>5 DEF RowSums
  <2>4. <<>> \o RowTerms(i) = RowTerms(i)
    <3>1. RowTerms(i) \in Seq(AllTerms)
      BY <1>5, <1>11
    <3> QED
      BY <3>1
  <2>5. \A x \in Indices(hero) : (\E l \in Chunks : x \in Summed(l)') <=> x = i \/ \E l \in Chunks : x \in Summed(l)
    BY <1>4, <1>8
  <2>6. \A x \in Indices(hero) :
          (IF x = i THEN heroAcc[i] \o Terms(i) ELSE heroAcc[x])
          = IF \E l \in Chunks : x \in Summed(l)' THEN RowTerms(x) ELSE <<>>
    BY <2>3, <2>4, <2>5, <1>2, <1>5, <1>10 DEF RowSums
  <2> QED
    BY <2>1, <2>6
<1>17. Summing'
  <2>1. heroAcc' = RowSums'
    BY <1>1, <1>16, SameSums, InputsDecide DEF RowSums
  <2>2. chunkPair' = [l \in Chunks |-> Concat(At(ByRow, Summed(l)))]'
    BY <1>1, <1>13, SameSums
  <2>3. chunkVill' = [l \in Chunks |-> [j \in Indices(villain) |-> ColumnSum(l, j)]]'
    <3>1. \A l, j : ColumnSum(l, j)' = Concat(At(ByRowIn(j), Summed(l)'))
      BY <1>1, SameSums DEF ColumnSum
    <3>2. [l \in Chunks |-> [j \in Indices(villain) |-> Concat(At(ByRowIn(j), Summed(l)'))]]
          = [l \in Chunks |-> [j \in Indices(villain) |-> ColumnSum(l, j)']]
      BY <3>1
    <3>3. Chunks' = Chunks /\ Indices(villain)' = Indices(villain)
      BY <1>1, SameSums, InputsDecide DEF Indices
    <3> QED
      BY <1>15, <3>2, <3>3
  <2> QED
    BY <2>1, <2>2, <2>3 DEF Summing
<1> QED
  BY <1>9, <1>17

(* Nothing selected, nothing concatenated.                                 *)
LEMMA NothingYet ==
  ASSUME NEW f
  PROVE  Concat(At(f, {})) = <<>>
<1>1. At(f, {}) = <<>>
  BY FS_EmptySet DEF At
<1>2. <<>> \in Seq(Seq({})) /\ Len(<<>>) = 0
  OBVIOUS
<1>3. Concat(<<>>) = <<>>
  BY <1>2, ConcatSteps
<1> QED
  BY <1>1, <1>3

(* The pair loop starts with nothing summed.                               *)
LEMMA StartPairsSums ==
  ASSUME SumsInv, StartPairs
  PROVE  Stepping' /\ Summing'
<1>1. /\ phase = "fill" /\ phase' = "pairs" /\ UNCHANGED inputs
      /\ region' = Region(NumRowChunks, PairWidth)
      /\ row' = [k \in 0 .. NumRowChunks - 1 |-> k * RowsPerChunk + 1]
      /\ heroAcc' = [i \in Indices(hero) |-> <<>>]
      /\ chunkVill' = [k \in 0 .. NumRowChunks - 1 |-> [j \in Indices(villain) |-> <<>>]]
      /\ chunkPair' = [k \in 0 .. NumRowChunks - 1 |-> <<>>]
  BY DEF StartPairs
<1>2. Len(hero) \in Nat \ {0}
  BY <1>1, RangesHave DEF SumsInv
<1>3. ASSUME NEW k \in Chunks
      PROVE  row'[k] \in Nat /\ k * RowsPerChunk < row'[k] /\ Summed(k)' = {}
  <2>1. k \in Nat /\ RowsPerChunk \in Nat /\ k * RowsPerChunk \in Nat
    BY <1>2, RowsCut
  <2>2. row'[k] = k * RowsPerChunk + 1
    BY <1>1 DEF Chunks
  <2>3. Summed(k)' = {i \in RowsOf(k) : i < row'[k]}
    BY <1>1, SameSums DEF Summed
  <2>4. \A i \in RowsOf(k) : i \in Int /\ k * RowsPerChunk < i
    BY DEF RowsOf, Indices
  <2>5. \A i \in RowsOf(k) : ~(i < k * RowsPerChunk + 1)
    BY <2>1, <2>4
  <2> QED
    BY <2>1, <2>2, <2>3, <2>5
<1>4. Stepping'
  <2>1. region'.total = NumRowChunks /\ region'.workers = PairWidth /\ 0 .. region'.next - 1 = {}
    BY <1>1 DEF Region
  <2>2. DOMAIN row' = Chunks
    BY <1>1 DEF Chunks
  <2> QED
    BY <1>1, <1>3, <2>1, <2>2, SameSums DEF Stepping
<1>5. Summing'
  <2>1. heroAcc' = RowSums'
    BY <1>1, <1>3, SameSums, InputsDecide DEF RowSums
  <2>2. chunkPair' = [k \in Chunks |-> Concat(At(ByRow, Summed(k)))]'
    BY <1>1, <1>3, NothingYet, SameSums DEF Chunks
  <2>3. chunkVill' = [k \in Chunks |-> [j \in Indices(villain) |-> ColumnSum(k, j)]]'
    <3>1. \A k \in Chunks : \A j : ColumnSum(k, j)' = Concat(At(ByRowIn(j), {}))
      BY <1>1, <1>3, SameSums DEF ColumnSum
    <3>2. \A k \in Chunks : \A j : ColumnSum(k, j)' = <<>>
      BY <3>1, NothingYet
    <3>3. [k \in Chunks |-> [j \in Indices(villain) |-> ColumnSum(k, j)']]
          = [k \in Chunks |-> [j \in Indices(villain) |-> <<>>]]
      BY <3>2
    <3>4. Chunks' = Chunks /\ Indices(villain)' = Indices(villain)
      BY <1>1, SameSums, InputsDecide DEF Indices
    <3> QED
      BY <1>1, <3>3, <3>4 DEF Chunks
  <2> QED
    BY <2>1, <2>2, <2>3 DEF Summing
<1> QED
  BY <1>4, <1>5

(* A step of the region alone changes no sum.                              *)
LEMMA RegionSums ==
  ASSUME SumsInv, phase = "pairs", UNCHANGED <<inputs, phase, accs>>,
         region'.total = region.total,
         ~region'.spawnFailed => ~region.spawnFailed /\ region'.workers = region.workers,
         \A k \in (0 .. region'.next - 1) \ region'.running : Summed(k) = RowsOf(k)
  PROVE  Stepping' /\ Summing'
<1>1. row' = row /\ heroAcc' = heroAcc /\ chunkVill' = chunkVill /\ chunkPair' = chunkPair
  BY DEF accs
<1>2. \A k : Summed(k)' = Summed(k)
  BY <1>1, SameSums DEF Summed
<1>3. Stepping'
  BY <1>1, <1>2, SameSums DEF SumsInv, Stepping
<1>4. Summing'
  <2>1. RowSums' = RowSums
    BY <1>2, SameSums, InputsDecide DEF RowSums
  <2>2. [k \in Chunks |-> Concat(At(ByRow, Summed(k)))]' = [k \in Chunks |-> Concat(At(ByRow, Summed(k)))]
    BY <1>2, SameSums
  <2>3. [k \in Chunks |-> [j \in Indices(villain) |-> ColumnSum(k, j)]]'
        = [k \in Chunks |-> [j \in Indices(villain) |-> ColumnSum(k, j)]]
    <3>1. \A k, j : ColumnSum(k, j)' = ColumnSum(k, j)
      BY <1>2, SameSums DEF ColumnSum
    <3>2. [k \in Chunks |-> [j \in Indices(villain) |-> ColumnSum(k, j)']]
          = [k \in Chunks |-> [j \in Indices(villain) |-> ColumnSum(k, j)]]
      BY <3>1
    <3>3. Chunks' = Chunks /\ Indices(villain)' = Indices(villain)
      BY SameSums, InputsDecide DEF Indices
    <3> QED
      BY <3>2, <3>3
  <2> QED
    BY <1>1, <2>1, <2>2, <2>3 DEF SumsInv, Summing
<1> QED
  BY <1>3, <1>4

(* A claimed chunk has summed nothing.                                     *)
LEMMA ClaimSums ==
  ASSUME SumsInv, phase = "pairs", Claim
  PROVE  Stepping' /\ Summing'
<1>1. /\ DOMAIN region = {"total", "next", "running", "finished", "workers", "spawnFailed"}
      /\ region.next \in Nat
      /\ \A k \in (0 .. region.next - 1) \ region.running : Summed(k) = RowsOf(k)
  BY DEF SumsInv, CacheInv, Counted, InRegion, Stepping
<1>2. /\ region'.total = region.total /\ region'.next = region.next + 1
      /\ region'.running = region.running \union {region.next}
      /\ region'.workers = region.workers /\ region'.spawnFailed = region.spawnFailed
  BY <1>1 DEF Claim
<1>3. (0 .. region'.next - 1) \ region'.running \subseteq (0 .. region.next - 1) \ region.running
  BY <1>1, <1>2
<1> QED
  BY <1>1, <1>2, <1>3, RegionSums DEF Claim

(* A thread that cannot be created adds nothing.                           *)
LEMMA SpawnFailsSums ==
  ASSUME SumsInv, phase = "pairs", SpawnFails
  PROVE  Stepping' /\ Summing'
<1>1. PICK w : region' = [region EXCEPT !.workers = w, !.spawnFailed = TRUE]
  BY DEF SpawnFails
<1>2. DOMAIN region = {"total", "next", "running", "finished", "workers", "spawnFailed"}
  BY DEF SumsInv, CacheInv, Counted, InRegion
<1>3. /\ region'.total = region.total /\ region'.next = region.next
      /\ region'.running = region.running /\ region'.spawnFailed
  BY <1>1, <1>2
<1>4. \A k \in (0 .. region'.next - 1) \ region'.running : Summed(k) = RowsOf(k)
  BY <1>3 DEF SumsInv, Stepping
<1> QED
  BY <1>3, <1>4, RegionSums DEF SpawnFails

(* A chunk is settled when it is past its last row.                        *)
LEMMA RowsDoneSums ==
  ASSUME SumsInv, NEW k \in region.running, RowsDone(k)
  PROVE  Stepping' /\ Summing'
<1>1. phase = "pairs" /\ UNCHANGED <<inputs, phase, accs>> /\ row[k] \notin RowsOf(k)
  BY DEF RowsDone
<1>2. /\ DOMAIN region = {"total", "next", "running", "finished", "workers", "spawnFailed"}
      /\ region.total \in Nat /\ region.next \in 0 .. region.total
      /\ region.running \subseteq 0 .. region.next - 1 /\ region.total = NumRowChunks
      /\ \A l \in (0 .. region.next - 1) \ region.running : Summed(l) = RowsOf(l)
      /\ \A l \in Chunks : row[l] \in Nat /\ l * RowsPerChunk < row[l]
  BY <1>1 DEF SumsInv, CacheInv, Counted, InRegion, Stepping
<1>3. /\ region'.total = region.total /\ region'.next = region.next
      /\ region'.running = region.running \ {k}
      /\ region'.workers = region.workers /\ region'.spawnFailed = region.spawnFailed
  BY <1>2 DEF RowsDone, Finished
<1>4. Len(hero) \in Nat \ {0}
  BY <1>1, RangesHave DEF SumsInv
<1>5. k \in Chunks
  BY <1>2 DEF Chunks
<1>6. Summed(k) = RowsOf(k)
  <2> DEFINE r == row[k]
             p == RowsPerChunk
             n == Len(hero)
  <2>1. k \in Nat /\ p \in Nat /\ r \in Nat /\ k * p < r /\ n \in Nat /\ k * p \in Nat /\ (k + 1) * p \in Nat
    BY <1>2, <1>4, <1>5, RowsCut
  <2>2. ~(r \in 1 .. n /\ k * p < r /\ r <= (k + 1) * p)
    BY <1>1 DEF RowsOf, Indices
  <2>3. \A i \in RowsOf(k) : i \in 1 .. n /\ i <= (k + 1) * p
    BY DEF RowsOf, Indices
  <2> HIDE DEF r, p, n
  <2>4. \A i \in RowsOf(k) : i < r
    BY <2>1, <2>2, <2>3
  <2> QED
    BY <2>4 DEF Summed, r
<1>7. \A l \in (0 .. region'.next - 1) \ region'.running : Summed(l) = RowsOf(l)
  BY <1>2, <1>3, <1>6
<1> QED
  BY <1>1, <1>3, <1>7, RegionSums

(* When the loop has ended every chunk is settled: the sums are those of   *)
(* one worker.                                                             *)
LEMMA ReduceSums ==
  ASSUME SumsInv, Reduce
  PROVE  Reduced'
<1>1. /\ phase = "pairs" /\ phase' = "emit" /\ UNCHANGED inputs /\ heroAcc' = heroAcc
      /\ region.running = {} /\ (region.next = region.total \/ region.workers = 0) /\ ~region.spawnFailed
      /\ villAcc' = [j \in Indices(villain) |-> [k \in 1 .. NumRowChunks |-> chunkVill[k - 1][j]]]
      /\ pairSum' = [k \in 1 .. NumRowChunks |-> chunkPair[k - 1]]
  BY DEF Reduce, Drained, accs
<1>2. /\ CacheInv /\ region.total = NumRowChunks /\ region.workers = PairWidth
      /\ \A l \in (0 .. region.next - 1) \ region.running : Summed(l) = RowsOf(l)
      /\ heroAcc = RowSums
      /\ chunkPair = [l \in Chunks |-> Concat(At(ByRow, Summed(l)))]
      /\ chunkVill = [l \in Chunks |-> [j \in Indices(villain) |-> ColumnSum(l, j)]]
  BY <1>1 DEF SumsInv, Stepping, Summing
<1>3. Len(hero) \in Nat \ {0} /\ call \in CallType
  BY <1>1, <1>2, RangesHave
<1>4. NumRowChunks \in Nat \ {0}
  BY <1>3, RowsCut
<1>5. PairWidth # 0
  <2>1. call.threads \in Int /\ call.hw \in Nat
    BY <1>3 DEF CallType
  <2>2. \A w : ResolveThreads(call, w) # 0
    BY <2>1 DEF ResolveThreads
  <2> QED
    BY <2>2, <1>4 DEF PairWidth
<1>6. \A l \in Chunks : Summed(l) = RowsOf(l)
  BY <1>1, <1>2, <1>5 DEF Chunks
<1>7. heroAcc = ByRow
  <2>1. \A i \in Indices(hero) : \E l \in Chunks : i \in Summed(l)
    BY <1>3, <1>6, RowsCut
  <2> QED
    BY <2>1, <1>2 DEF RowSums, ByRow
<1>8. \A k \in 1 .. NumRowChunks : k - 1 \in Chunks
  BY <1>4 DEF Chunks
<1>9. Groups(Len(hero)) = [k \in 1 .. NumRowChunks |-> RowsOf(k - 1)]
  BY <1>3, GroupsAre
<1>10. ASSUME NEW f
       PROVE  InGroups(f) = [k \in 1 .. NumRowChunks |-> Concat(At(f, RowsOf(k - 1)))]
  BY <1>9 DEF InGroups
<1>11. pairSum' = SerialPair
  <2>1. \A k \in 1 .. NumRowChunks : chunkPair[k - 1] = Concat(At(ByRow, RowsOf(k - 1)))
    BY <1>2, <1>6, <1>8
  <2>2. SerialPair = InGroups(ByRow)
    BY DEF SerialPair, ByRow
  <2>3. [k \in 1 .. NumRowChunks |-> chunkPair[k - 1]]
        = [k \in 1 .. NumRowChunks |-> Concat(At(ByRow, RowsOf(k - 1)))]
    BY <2>1
  <2> QED
    BY <1>1, <1>10, <2>2, <2>3
<1>12. ASSUME NEW j \in Indices(villain)
       PROVE  [k \in 1 .. NumRowChunks |-> chunkVill[k - 1][j]] = SerialVillain(j)
  <2>1. \A k \in 1 .. NumRowChunks : chunkVill[k - 1][j] = Concat(At(ByRowIn(j), RowsOf(k - 1)))
    BY <1>2, <1>6, <1>8 DEF ColumnSum
  <2>2. SerialVillain(j) = InGroups(ByRowIn(j))
    BY DEF SerialVillain, ByRowIn
  <2>3. [k \in 1 .. NumRowChunks |-> chunkVill[k - 1][j]]
        = [k \in 1 .. NumRowChunks |-> Concat(At(ByRowIn(j), RowsOf(k - 1)))]
    BY <2>1
  <2> QED
    BY <1>10, <2>2, <2>3
<1>13. villAcc' = BySide
  BY <1>1, <1>12 DEF BySide
<1> QED
  BY <1>1, <1>7, <1>11, <1>13, SameSums, SameColumns DEF Reduced

-----------------------------------------------------------------------------
(* The answer.                                                             *)

(* A list is empty when it has no element.                                 *)
LEMMA EmptyRange ==
  ASSUME NEW D, NEW s \in Seq(D)
  PROVE  s = <<>> <=> Range(s) = {}
<1>1. Len(s) \in Nat /\ DOMAIN s = 1 .. Len(s)
  BY LenProperties
<1>2. ASSUME s # <<>> PROVE Range(s) # {}
  <2>1. Len(s) # 0
    BY <1>1, <1>2, EmptySeq
  <2>2. 1 \in DOMAIN s
    BY <1>1, <2>1
  <2> QED
    BY <2>2 DEF Range
<1>3. Range(<<>>) = {}
  BY DEF Range
<1> QED
  BY <1>2, <1>3

(* Lists without repetition that share nothing.                            *)
Disjoint(f, idx) ==
  /\ \A i \in idx : IsInjective(f[i])
  /\ \A i, j \in idx : i # j => Range(f[i]) \cap Range(f[j]) = {}

(* A concatenation of selected lists.                                      *)
LEMMA SelectionHas ==
  ASSUME NEW f, NEW D, NEW idx, idx \subseteq Int, IsFiniteSet(idx), \A i \in idx : f[i] \in Seq(D)
  PROVE  /\ Concat(At(f, idx)) \in Seq(D)
         /\ Range(Concat(At(f, idx))) = UNION {Range(f[i]) : i \in idx}
         /\ Disjoint(f, idx) => IsInjective(Concat(At(f, idx)))
<1> DEFINE S == Seq(D)
           g == At(f, idx)
           a == SmallestFirst(idx)
           n == Cardinality(idx)
<1>1. \A i \in idx : f[i] \in S
  OBVIOUS
<1>2. g \in Seq(S) /\ Len(g) = n
  <2> HIDE DEF S
  <2> QED
    BY <1>1, AtHas
<1>3. /\ n \in Nat /\ a \in [1 .. n -> idx]
      /\ \A i, j \in 1 .. n : i < j => a[i] < a[j]
      /\ \A c \in idx : \E i \in 1 .. n : a[i] = c
  BY AscendingLists
<1>4. g = [r \in 1 .. n |-> f[a[r]]]
  <2>1. g = Selected(f, idx)
    BY AtIs
  <2> QED
    BY <2>1 DEF Selected
<1> HIDE DEF a, n, g
<1>5. /\ Concat(g) \in Seq(D)
      /\ Range(Concat(g)) = UNION {Range(g[i]) : i \in 1 .. Len(g)}
      /\ (/\ \A i \in 1 .. Len(g) : IsInjective(g[i])
          /\ \A i, j \in 1 .. Len(g) : i # j => Range(g[i]) \cap Range(g[j]) = {})
         => IsInjective(Concat(g))
  BY <1>2, ConcatHas
<1>6. UNION {Range(g[i]) : i \in 1 .. n} = UNION {Range(f[i]) : i \in idx}
  <2>1. \A r \in 1 .. n : a[r] \in idx /\ g[r] = f[a[r]]
    BY <1>3, <1>4
  <2>2. \A i \in idx : \E r \in 1 .. n : g[r] = f[i]
    BY <1>3, <2>1
  <2>3. ASSUME NEW v
        PROVE  (\E r \in 1 .. n : v \in Range(g[r])) <=> \E i \in idx : v \in Range(f[i])
    BY <2>1, <2>2
  <2> QED
    BY <2>3
<1>7. ASSUME Disjoint(f, idx)
      PROVE  /\ \A i \in 1 .. n : IsInjective(g[i])
             /\ \A i, j \in 1 .. n : i # j => Range(g[i]) \cap Range(g[j]) = {}
  <2>1. \A r \in 1 .. n : a[r] \in idx /\ a[r] \in Int /\ g[r] = f[a[r]]
    BY <1>3, <1>4
  <2>2. \A i, j \in 1 .. n : i # j => a[i] # a[j]
    BY <2>1, <1>3
  <2>3. \A r \in 1 .. n : IsInjective(g[r])
    BY <2>1, <1>7 DEF Disjoint
  <2>4. ASSUME NEW i \in 1 .. n, NEW j \in 1 .. n, i # j
        PROVE  Range(g[i]) \cap Range(g[j]) = {}
    <3>1. a[i] \in idx /\ a[j] \in idx /\ a[i] # a[j] /\ g[i] = f[a[i]] /\ g[j] = f[a[j]]
      BY <2>1, <2>2, <2>4
    <3> QED
      BY <3>1, <1>7 DEF Disjoint
  <2> QED
    BY <2>3, <2>4
<1> QED
  BY <1>2, <1>5, <1>6, <1>7 DEF g

(* The groups of the hero rows, and their concatenation.                   *)
LEMMA GroupsHave ==
  ASSUME Len(hero) \in Nat \ {0}, NEW f, NEW D, \A i \in Indices(hero) : f[i] \in Seq(D)
  PROVE  /\ InGroups(f) = [k \in 1 .. NumRowChunks |-> Concat(At(f, RowsOf(k - 1)))]
         /\ Concat(InGroups(f)) \in Seq(D)
         /\ Range(Concat(InGroups(f))) = UNION {Range(f[i]) : i \in Indices(hero)}
         /\ Disjoint(f, Indices(hero)) => IsInjective(Concat(InGroups(f)))
         /\ (\E k \in DOMAIN InGroups(f) : InGroups(f)[k] # <<>>) <=> \E i \in Indices(hero) : f[i] # <<>>
<1> DEFINE n == NumRowChunks
           S == Seq(D)
           g == InGroups(f)
           rows(k) == RowsOf(k - 1)
<1>1. /\ n \in Nat \ {0}
      /\ \A k \in 1 .. n : /\ k - 1 \in Chunks /\ k - 1 \in Nat
                           /\ rows(k) \subseteq Indices(hero) /\ rows(k) \subseteq Int /\ IsFiniteSet(rows(k))
      /\ \A i \in Indices(hero) : \E k \in 1 .. n : i \in rows(k)
  <2>1. n \in Nat \ {0}
    BY RowsCut
  <2>2. \A k \in 1 .. n : k - 1 \in Chunks /\ k - 1 \in Nat
    BY <2>1 DEF Chunks
  <2>3. \A l \in Chunks : l + 1 \in 1 .. n /\ (l + 1) - 1 = l
    BY <2>1 DEF Chunks
  <2>4. ASSUME NEW i \in Indices(hero)
        PROVE  \E k \in 1 .. n : i \in rows(k)
    <3>1. PICK l \in Chunks : i \in RowsOf(l)
      BY RowsCut
    <3> QED
      BY <3>1, <2>3
  <2> QED
    BY <2>1, <2>2, <2>4, RowsCut
<1>2. g = [k \in 1 .. n |-> Concat(At(f, RowsOf(k - 1)))]
  BY GroupsAre DEF InGroups
<1>3. ASSUME NEW k \in 1 .. n
      PROVE  /\ g[k] \in S
             /\ Range(g[k]) = UNION {Range(f[i]) : i \in rows(k)}
             /\ Disjoint(f, Indices(hero)) => IsInjective(g[k])
  <2>1. g[k] = Concat(At(f, rows(k)))
    BY <1>2
  <2>2. rows(k) \subseteq Int /\ IsFiniteSet(rows(k)) /\ rows(k) \subseteq Indices(hero)
    BY <1>1
  <2> DEFINE R == rows(k)
  <2>3. \A i \in R : f[i] \in Seq(D)
    BY <2>2
  <2> HIDE DEF R
  <2>4. /\ Concat(At(f, R)) \in Seq(D)
        /\ Range(Concat(At(f, R))) = UNION {Range(f[i]) : i \in R}
        /\ Disjoint(f, R) => IsInjective(Concat(At(f, R)))
    BY <2>2, <2>3, SelectionHas DEF R
  <2>5. Disjoint(f, Indices(hero)) => Disjoint(f, R)
    BY <2>2 DEF R, Disjoint
  <2> QED
    BY <2>1, <2>4, <2>5 DEF R
<1> HIDE DEF g
<1>4. g \in Seq(S) /\ Len(g) = n /\ DOMAIN g = 1 .. n
  <2>1. g \in [1 .. n -> S]
    BY <1>2, <1>3
  <2>2. g = [k \in 1 .. n |-> g[k]]
    BY <1>2
  <2>3. Len(g) = n
    BY <1>1, <2>2, FunctionLength
  <2>4. g \in Seq(S)
    <3> HIDE DEF S
    <3> QED
      BY <1>1, <2>1, SeqDef
  <2> QED
    BY <2>1, <2>3, <2>4
<1>5. /\ Concat(g) \in Seq(D)
      /\ Range(Concat(g)) = UNION {Range(g[k]) : k \in 1 .. Len(g)}
      /\ (/\ \A k \in 1 .. Len(g) : IsInjective(g[k])
          /\ \A k, l \in 1 .. Len(g) : k # l => Range(g[k]) \cap Range(g[l]) = {})
         => IsInjective(Concat(g))
  BY <1>4, ConcatHas
<1>6. UNION {Range(g[k]) : k \in 1 .. n} = UNION {Range(f[i]) : i \in Indices(hero)}
  <2>1. ASSUME NEW v
        PROVE  (\E k \in 1 .. n : v \in Range(g[k])) <=> \E i \in Indices(hero) : v \in Range(f[i])
    <3>1. \A k \in 1 .. n : v \in Range(g[k]) <=> \E i \in rows(k) : v \in Range(f[i])
      BY <1>3
    <3> HIDE DEF rows
    <3> QED
      BY <3>1, <1>1
  <2> QED
    BY <2>1
<1>7. ASSUME Disjoint(f, Indices(hero))
      PROVE  /\ \A k \in 1 .. n : IsInjective(g[k])
             /\ \A k, l \in 1 .. n : k # l => Range(g[k]) \cap Range(g[l]) = {}
  <2>1. ASSUME NEW k \in 1 .. n, NEW l \in 1 .. n, k # l
        PROVE  Range(g[k]) \cap Range(g[l]) = {}
    <3>1. rows(k) \cap rows(l) = {}
      <4>1. k - 1 \in Nat /\ l - 1 \in Nat /\ k - 1 # l - 1
        BY <1>1, <2>1
      <4> QED
        BY <4>1, RowsApart
    <3>2. rows(k) \subseteq Indices(hero) /\ rows(l) \subseteq Indices(hero)
      BY <1>1
    <3>3. Range(g[k]) = UNION {Range(f[i]) : i \in rows(k)} /\ Range(g[l]) = UNION {Range(f[i]) : i \in rows(l)}
      BY <1>3
    <3> HIDE DEF rows
    <3>4. \A i \in rows(k), j \in rows(l) : Range(f[i]) \cap Range(f[j]) = {}
      BY <3>1, <3>2, <1>7 DEF Disjoint
    <3> QED
      BY <3>3, <3>4
  <2> QED
    BY <2>1, <1>3, <1>7
<1>8. (\E k \in DOMAIN g : g[k] # <<>>) <=> \E i \in Indices(hero) : f[i] # <<>>
  <2>1. \A k \in 1 .. n : g[k] # <<>> <=> Range(g[k]) # {}
    BY <1>3, EmptyRange
  <2>2. \A i \in Indices(hero) : f[i] # <<>> <=> Range(f[i]) # {}
    BY EmptyRange
  <2>3. (\E k \in 1 .. n : Range(g[k]) # {}) <=> \E i \in Indices(hero) : Range(f[i]) # {}
    <3>1. UNION {Range(g[k]) : k \in 1 .. n} # {} <=> UNION {Range(f[i]) : i \in Indices(hero)} # {}
      BY <1>6
    <3>2. UNION {Range(g[k]) : k \in 1 .. n} # {} <=> \E k \in 1 .. n : Range(g[k]) # {}
      OBVIOUS
    <3>3. UNION {Range(f[i]) : i \in Indices(hero)} # {} <=> \E i \in Indices(hero) : Range(f[i]) # {}
      OBVIOUS
    <3> QED
      BY <3>1, <3>2, <3>3
  <2> QED
    BY <2>1, <2>2, <2>3, <1>4
<1> QED
  BY <1>2, <1>4, <1>5, <1>6, <1>7, <1>8 DEF g

(* The aggregate has every term of a row once; a column has those of the   *)
(* column.                                                                 *)
LEMMA TermsApart ==
  ASSUME Len(villain) \in Nat
  PROVE  /\ Disjoint(ByRow, Indices(hero))
         /\ \A i \in Indices(hero) : ByRow[i] # <<>> <=> i \in HeroMet
         /\ \A j \in Indices(villain) :
              /\ Disjoint(ByRowIn(j), Indices(hero))
              /\ \A i \in Indices(hero) :
                   /\ Range(ByRowIn(j)[i]) = IF CanMeet(i, j) THEN {TrueTerm(i, j)} ELSE {}
                   /\ ByRowIn(j)[i] # <<>> <=> CanMeet(i, j)
<1>1. \A i \in Indices(hero) : /\ ByRow[i] \in Seq(AllTerms) /\ IsInjective(ByRow[i])
                               /\ Range(ByRow[i]) = {TrueTerm(i, j) : j \in Columns(i)}
  BY RowLists, RowHas
<1>2. \A i, j : TrueTerm(i, j).row = i
  BY DEF TrueTerm
<1>3. Disjoint(ByRow, Indices(hero))
  <2>1. ASSUME NEW i \in Indices(hero), NEW k \in Indices(hero), i # k
        PROVE  Range(ByRow[i]) \cap Range(ByRow[k]) = {}
    <3>0. ASSUME NEW r \in Indices(hero), NEW t \in Range(ByRow[r])
          PROVE  t.row = r
      <4>1. Range(ByRow[r]) = {TrueTerm(r, j) : j \in Columns(r)}
        BY <1>1
      <4>2. PICK j \in Columns(r) : t = TrueTerm(r, j)
        BY <4>1
      <4> QED
        BY <4>2, <1>2
    <3>1. \A t \in Range(ByRow[i]) : t.row = i
      BY <3>0
    <3>2. \A t \in Range(ByRow[k]) : t.row = k
      BY <3>0
    <3> QED
      BY <3>1, <3>2, <2>1
  <2> QED
    BY <2>1, <1>1 DEF Disjoint
<1>4. ASSUME NEW i \in Indices(hero)
      PROVE  ByRow[i] # <<>> <=> i \in HeroMet
  <2>1. ByRow[i] # <<>> <=> Range(ByRow[i]) # {}
    BY <1>1, EmptyRange
  <2>2. Range(ByRow[i]) # {} <=> Columns(i) # {}
    <3>1. Range(ByRow[i]) = {TrueTerm(i, j) : j \in Columns(i)}
      BY <1>1
    <3>2. {TrueTerm(i, j) : j \in Columns(i)} # {} <=> Columns(i) # {}
      OBVIOUS
    <3> QED
      BY <3>1, <3>2
  <2>3. Columns(i) # {} <=> \E j \in Indices(villain) : CanMeet(i, j)
    BY DEF Columns
  <2> QED
    BY <2>1, <2>2, <2>3 DEF HeroMet
<1>5. ASSUME NEW j \in Indices(villain)
      PROVE  /\ Disjoint(ByRowIn(j), Indices(hero))
             /\ \A i \in Indices(hero) :
                  /\ Range(ByRowIn(j)[i]) = IF CanMeet(i, j) THEN {TrueTerm(i, j)} ELSE {}
                  /\ ByRowIn(j)[i] # <<>> <=> CanMeet(i, j)
  <2>1. ASSUME NEW t PROVE /\ Range(<<t>>) = {t} /\ IsInjective(<<t>>) /\ <<t>> # <<>>
                           /\ Range(<<>>) = {} /\ IsInjective(<<>>)
    BY DEF Range, IsInjective
  <2>2. \A i \in Indices(hero) : ByRowIn(j)[i] = IF CanMeet(i, j) THEN <<TrueTerm(i, j)>> ELSE <<>>
    BY RowLists
  <2>3. ASSUME NEW i \in Indices(hero)
        PROVE  /\ Range(ByRowIn(j)[i]) = IF CanMeet(i, j) THEN {TrueTerm(i, j)} ELSE {}
               /\ ByRowIn(j)[i] # <<>> <=> CanMeet(i, j)
               /\ IsInjective(ByRowIn(j)[i])
    <3>1. CASE CanMeet(i, j)
      BY <3>1, <2>1, <2>2
    <3>2. CASE ~CanMeet(i, j)
      BY <3>2, <2>1, <2>2
    <3> QED
      BY <3>1, <3>2
  <2>4. ASSUME NEW i \in Indices(hero), NEW k \in Indices(hero), i # k
        PROVE  Range(ByRowIn(j)[i]) \cap Range(ByRowIn(j)[k]) = {}
    <3>1. \A t \in Range(ByRowIn(j)[i]) : t.row = i
      BY <2>3, <1>2
    <3>2. \A t \in Range(ByRowIn(j)[k]) : t.row = k
      BY <2>3, <1>2
    <3> QED
      BY <3>1, <3>2, <2>4
  <2>5. Disjoint(ByRowIn(j), Indices(hero))
    BY <2>3, <2>4 DEF Disjoint
  <2> QED
    BY <2>3, <2>5
<1> QED
  BY <1>3, <1>4, <1>5

(* The terms of a column, over all groups.                                 *)
LEMMA ColumnHas ==
  ASSUME Len(hero) \in Nat \ {0}, Len(villain) \in Nat, NEW j \in Indices(villain)
  PROVE  /\ Concat(SerialVillain(j)) \in Seq(AllTerms)
         /\ Range(Concat(SerialVillain(j))) = {TrueTerm(i, j) : i \in {r \in Indices(hero) : CanMeet(r, j)}}
         /\ (\E g \in DOMAIN SerialVillain(j) : SerialVillain(j)[g] # <<>>) <=> j \in VillainMet
<1> DEFINE f == ByRowIn(j)
           D == AllTerms
<1>1. SerialVillain(j) = InGroups(f)
  BY DEF SerialVillain, ByRowIn
<1>2. /\ \A i \in Indices(hero) : f[i] \in Seq(D)
      /\ \A i \in Indices(hero) : Range(f[i]) = IF CanMeet(i, j) THEN {TrueTerm(i, j)} ELSE {}
      /\ \A i \in Indices(hero) : f[i] # <<>> <=> CanMeet(i, j)
  BY RowLists, TermsApart
<1> HIDE DEF f, D
<1>3. /\ Concat(InGroups(f)) \in Seq(D)
      /\ Range(Concat(InGroups(f))) = UNION {Range(f[i]) : i \in Indices(hero)}
      /\ (\E k \in DOMAIN InGroups(f) : InGroups(f)[k] # <<>>) <=> \E i \in Indices(hero) : f[i] # <<>>
  BY <1>2, GroupsHave
<1>4. UNION {Range(f[i]) : i \in Indices(hero)} = {TrueTerm(i, j) : i \in {r \in Indices(hero) : CanMeet(r, j)}}
  <2>1. ASSUME NEW v
        PROVE  (\E i \in Indices(hero) : v \in Range(f[i]))
               <=> \E i \in Indices(hero) : CanMeet(i, j) /\ v = TrueTerm(i, j)
    <3>1. \A i \in Indices(hero) : v \in Range(f[i]) <=> CanMeet(i, j) /\ v = TrueTerm(i, j)
      BY <1>2
    <3> QED
      BY <3>1
  <2> QED
    BY <2>1
<1>5. (\E i \in Indices(hero) : f[i] # <<>>) <=> j \in VillainMet
  BY <1>2 DEF VillainMet
<1> QED
  BY <1>1, <1>3, <1>4, <1>5 DEF D

(* The full answer depends on the inputs alone.                            *)
LEMMA SameAnswer ==
  ASSUME UNCHANGED inputs
  PROVE  FullAnswer' = FullAnswer /\ Zero(call)' = Zero(call)
<1>1. call' = call /\ hero' = hero /\ villain' = villain /\ boards' = boards /\ hands' = hands
  BY DEF inputs
<1>2. \A i, j : (CanMeet(i, j)' <=> CanMeet(i, j)) /\ TrueTerm(i, j)' = TrueTerm(i, j)
  BY <1>1 DEF TrueTerm, TrueCount, CanMeet, Opposed
<1>3. HeroMet' = HeroMet /\ VillainMet' = VillainMet
  BY <1>1, <1>2 DEF HeroMet, VillainMet, Indices
<1>4. HeroEntries' = HeroEntries
  BY <1>1, <1>3, SameSums DEF HeroEntries, Entries
<1>5. VillainEntries' = VillainEntries
  <2>1. BySide' = BySide
    BY SameSums, InputsDecide, SameColumns
  <2> QED
    BY <1>1, <1>3, <2>1 DEF VillainEntries, Entries
<1> QED
  BY <1>1, <1>4, <1>5, SameSums DEF FullAnswer, Zero, RunIsExact

(* What is emitted is the full answer.                                     *)
LEMMA EmitSums ==
  ASSUME SumsInv, Emit
  PROVE  Ending'
<1>1. phase = "emit" /\ phase' = "done" /\ UNCHANGED inputs
  BY DEF Emit, Return
<1>2. /\ CacheInv /\ heroAcc = ByRow /\ pairSum = SerialPair
      /\ villAcc = BySide
  BY <1>1 DEF SumsInv, Reduced
<1>3. /\ Len(hero) \in Nat \ {0} /\ Len(villain) \in Nat \ {0} /\ call \in CallType
      /\ hero = FilterCombos(call.hero, call.board) /\ hero # <<>>
      /\ villain = FilterCombos(call.villain, call.board) /\ villain # <<>>
  BY <1>1, <1>2, RangesHave DEF CacheInv, Filtered
<1> DEFINE heroes == {i \in Indices(hero) : heroAcc[i] # <<>>}
           villains == {j \in Indices(villain) : \E g \in DOMAIN villAcc[j] : villAcc[j][g] # <<>>}
<1>4. heroes = HeroMet
  <2>1. \A i \in Indices(hero) : heroAcc[i] # <<>> <=> i \in HeroMet
    BY <1>2, <1>3, TermsApart
  <2> QED
    BY <2>1 DEF HeroMet
<1>5. villains = VillainMet
  <2>1. \A j \in Indices(villain) : (\E g \in DOMAIN villAcc[j] : villAcc[j][g] # <<>>) <=> j \in VillainMet
    BY <1>2, <1>3, ColumnHas DEF BySide
  <2> QED
    BY <2>1 DEF VillainMet
<1>6. Entries(hero, heroAcc, heroes) = HeroEntries
  BY <1>2, <1>4 DEF HeroEntries
<1>7. Entries(villain, villAcc, villains) = VillainEntries
  BY <1>2, <1>5 DEF VillainEntries
<1>8. outcome' = [kind |-> "result",
                 hero |-> IF call.mode = "AggregateOnly" THEN <<>> ELSE Entries(hero, heroAcc, heroes),
                 villain |-> IF call.mode = "AggregateOnly" THEN <<>> ELSE Entries(villain, villAcc, villains),
                 pair |-> pairSum,
                 trials |-> Len(boards),
                 exact |-> RunIsExact(call)]
  BY DEF Emit, Return, Entries
<1> HIDE DEF heroes, villains
<1>9. outcome' = FullAnswer
  BY <1>2, <1>6, <1>7, <1>8 DEF FullAnswer
<1> QED
  BY <1>1, <1>3, <1>9, SameAnswer, InputsDecide DEF Ending

-----------------------------------------------------------------------------
(* Every step keeps the invariant of the sums.                             *)

(* A call that starts satisfies SumsInv.                                   *)
LEMMA InitSums == Init => SumsInv
<1> SUFFICES ASSUME Init PROVE SumsInv
  OBVIOUS
<1>1. CacheInv
  BY InitInv
<1>2. phase = "validate" /\ outcome = Pending
  BY DEF Init
<1>3. Ending
  BY <1>2 DEF Ending, IsResult, Pending
<1> QED
  BY <1>1, <1>2, <1>3 DEF SumsInv, Stepping, Summing, Reduced

(* A step that goes on with the call leaves its end open.                  *)
LEMMA NotEnded ==
  ASSUME outcome' = Pending
  PROVE  Ending'
BY DEF Ending, IsResult, Pending

(* An error is not a result.                                               *)
LEMMA EndedWithout ==
  ASSUME phase' = "done", NEW how, how # "result", outcome' = Ended(how)
  PROVE  Ending'
BY DEF Ending, IsResult, Ended

(* An empty range ends the call with an empty result.                      *)
LEMMA FilterEnds ==
  ASSUME SumsInv, Filter
  PROVE  Ending'
<1>1. /\ phase = "validate" /\ call' = call
      /\ hero' = FilterCombos(call.hero, call.board) /\ villain' = FilterCombos(call.villain, call.board)
  BY DEF Filter
<1>2. CASE hero' = <<>> \/ villain' = <<>>
  <2>1. phase' = "done" /\ outcome' = Zero(call)
    BY <1>2 DEF Filter, Return
  <2>2. Zero(call)' = Zero(call)
    BY <1>1 DEF Zero
  <2> QED
    BY <1>1, <1>2, <2>1, <2>2 DEF Ending
<1>3. CASE ~(hero' = <<>> \/ villain' = <<>>)
  <2>1. outcome' = outcome /\ outcome = Pending
    BY <1>1, <1>3 DEF Filter, SumsInv, Ending
  <2> QED
    BY <2>1, NotEnded
<1> QED
  BY <1>2, <1>3

(* Building the boards goes on with the call or ends it with an error.     *)
LEMMA BuildBoardsEnds ==
  ASSUME SumsInv, BuildBoards
  PROVE  Ending'
<1>1. phase = "dispatch" /\ outcome = Pending
  BY DEF BuildBoards, SumsInv, Ending
<1>2. CASE Len(hands') * Len(boards') > CacheLimit
  BY <1>2, EndedWithout DEF BuildBoards, Return
<1>3. CASE ~(Len(hands') * Len(boards') > CacheLimit)
  BY <1>1, <1>3, NotEnded DEF BuildBoards
<1> QED
  BY <1>2, <1>3

(* A step of the call's inside keeps the end open.                         *)
LEMMA StillOpen ==
  ASSUME SumsInv, phase # "done", outcome' = outcome
  PROVE  Ending'
BY NotEnded DEF SumsInv, Ending

(* A step that changes nothing keeps SumsInv.                              *)
LEMMA StutterSums ==
  ASSUME SumsInv, UNCHANGED vars
  PROVE  SumsInv'
<1>1. /\ UNCHANGED inputs /\ phase' = phase /\ region' = region /\ UNCHANGED accs
      /\ UNCHANGED sums /\ outcome' = outcome
  BY DEF vars
<1>2. CacheInv'
  BY StutterKeeps DEF SumsInv
<1>3. Ending'
  BY <1>1, SameAnswer, InputsDecide DEF SumsInv, Ending, IsResult
<1>4. Stepping' /\ Summing'
  <2>1. CASE phase = "pairs"
    BY <1>1, <2>1, RegionSums DEF SumsInv, Stepping
  <2>2. CASE phase # "pairs"
    BY <1>1, <2>2 DEF Stepping, Summing
  <2> QED
    BY <2>1, <2>2
<1>5. Reduced'
  BY <1>1, SameSums, SameColumns DEF SumsInv, Reduced, accs, sums
<1> QED
  BY <1>2, <1>3, <1>4, <1>5 DEF SumsInv

(* The part of the invariant a step outside the pair loop has nothing to   *)
(* say of.                                                                 *)
LEMMA Elsewhere ==
  ASSUME CacheInv', Ending', phase' \notin {"pairs", "emit"}
  PROVE  SumsInv'
BY DEF SumsInv, Stepping, Summing, Reduced

(* In the pair loop nothing is reduced or answered yet.                    *)
LEMMA InTheLoop ==
  ASSUME CacheInv', Stepping', Summing', Ending', phase' = "pairs"
  PROVE  SumsInv'
BY DEF SumsInv, Reduced

(* Every step keeps the invariant of the sums.                             *)
LEMMA StepSums ==
  ASSUME SumsInv, [Next]_vars
  PROVE  SumsInv'
<1>1. CacheInv'
  BY StepInv DEF SumsInv
<1>2. CASE Reject \/ SamplePairs \/ SpawnError
  <2>1. PICK how : how # "result" /\ phase' = "done" /\ outcome' = Ended(how)
    <3>1. CASE Reject
      <4>1. Rejection(call) # "result" /\ phase' = "done" /\ outcome' = Ended(Rejection(call))
        BY <3>1 DEF Reject, Rejection, Return
      <4> QED
        BY <4>1
    <3>2. CASE SamplePairs
      <4>1. "sampled" # "result" /\ phase' = "done" /\ outcome' = Ended("sampled")
        BY <3>2 DEF SamplePairs, Return
      <4> QED
        BY <4>1
    <3>3. CASE SpawnError
      <4>1. "spawn_error" # "result" /\ phase' = "done" /\ outcome' = Ended("spawn_error")
        BY <3>3 DEF SpawnError, Return
      <4> QED
        BY <4>1
    <3> QED
      BY <1>2, <3>1, <3>2, <3>3
  <2>2. Ending'
    BY <2>1, EndedWithout
  <2> QED
    BY <1>1, <2>1, <2>2, Elsewhere
<1>3. CASE Filter
  <2>1. phase' \in {"done", "dispatch"}
    BY <1>3 DEF Filter, Return
  <2> QED
    BY <1>1, <1>3, <2>1, FilterEnds, Elsewhere
<1>4. CASE BuildBoards
  <2>1. phase' \in {"done", "cached"}
    BY <1>4 DEF BuildBoards, Return
  <2> QED
    BY <1>1, <1>4, <2>1, BuildBoardsEnds, Elsewhere
<1>5. CASE StartFill
  <2>1. phase = "cached" /\ phase' = "fill" /\ outcome' = outcome
    BY <1>5 DEF StartFill
  <2>2. Ending'
    BY <2>1, StillOpen
  <2> QED
    BY <1>1, <2>1, <2>2, Elsewhere
<1>6. CASE \E s \in region.running : FillSlice(s)
  <2>1. phase = "fill" /\ phase' = "fill" /\ outcome' = outcome
    BY <1>6 DEF FillSlice
  <2>2. Ending'
    BY <2>1, StillOpen
  <2> QED
    BY <1>1, <2>1, <2>2, Elsewhere
<1>7. CASE Claim \/ SpawnFails
  <2>1. phase \in {"fill", "pairs"} /\ phase' = phase /\ outcome' = outcome
    BY <1>7 DEF Claim, SpawnFails, InRegion
  <2>2. Ending'
    BY <2>1, StillOpen
  <2>3. CASE phase = "fill"
    BY <1>1, <2>1, <2>2, <2>3, Elsewhere
  <2>4. CASE phase = "pairs"
    <3>1. Stepping' /\ Summing'
      BY <1>7, <2>4, ClaimSums, SpawnFailsSums
    <3> QED
      BY <1>1, <2>1, <2>2, <2>4, <3>1, InTheLoop
  <2> QED
    BY <2>1, <2>3, <2>4
<1>8. CASE \E k \in region.running : HeroRow(k) \/ RowsDone(k)
  <2>1. phase = "pairs" /\ phase' = "pairs" /\ outcome' = outcome
    BY <1>8 DEF HeroRow, RowsDone
  <2>2. Ending'
    BY <2>1, StillOpen
  <2>3. Stepping' /\ Summing'
    BY <1>8, HeroRowSums, RowsDoneSums
  <2> QED
    BY <1>1, <2>1, <2>2, <2>3, InTheLoop
<1>9. CASE StartPairs
  <2>1. phase = "fill" /\ phase' = "pairs" /\ outcome' = outcome
    BY <1>9 DEF StartPairs
  <2>2. Ending'
    BY <2>1, StillOpen
  <2> QED
    BY <1>1, <1>9, <2>1, <2>2, StartPairsSums, InTheLoop
<1>10. CASE Reduce
  <2>1. phase = "pairs" /\ phase' = "emit" /\ outcome' = outcome
    BY <1>10 DEF Reduce
  <2>2. Ending' /\ Reduced'
    BY <1>10, <2>1, StillOpen, ReduceSums
  <2> QED
    BY <1>1, <2>1, <2>2 DEF SumsInv, Stepping, Summing
<1>11. CASE Emit
  <2>1. phase' = "done"
    BY <1>11 DEF Emit, Return
  <2> QED
    BY <1>1, <1>11, <2>1, EmitSums, Elsewhere
<1>12. CASE UNCHANGED vars
  BY <1>12, StutterSums
<1> QED
  BY <1>2, <1>3, <1>4, <1>5, <1>6, <1>7, <1>8, <1>9, <1>10, <1>11, <1>12
  DEF Next, CallerStep, WorkerStep, Returned

-----------------------------------------------------------------------------
(* What the answer says.                                                   *)

(* What a result is made of.                                               *)
LEMMA ResultHas ==
  ASSUME SumsInv, IsResult
  PROVE  /\ call \in CallType
         /\ hero = FilterCombos(call.hero, call.board) /\ hero \in Seq(Combos)
         /\ villain = FilterCombos(call.villain, call.board) /\ villain \in Seq(Combos)
         /\ Len(hero) \in Nat /\ Len(villain) \in Nat
         /\ hero = <<>> \/ villain = <<>> => outcome = Zero(call)
         /\ ~(hero = <<>> \/ villain = <<>>) =>
              /\ outcome = FullAnswer
              /\ Len(hero) \in Nat \ {0} /\ Len(villain) \in Nat \ {0}
<1>1. call \in CallType
  BY RangeEnumAssumption DEF SumsInv, CacheInv
<1>2. /\ hero = FilterCombos(call.hero, call.board) /\ villain = FilterCombos(call.villain, call.board)
      /\ IF hero = <<>> \/ villain = <<>> THEN outcome = Zero(call) ELSE outcome = FullAnswer
  BY DEF SumsInv, Ending
<1>3. hero \in Seq(Combos) /\ villain \in Seq(Combos)
  BY <1>1, <1>2, FilterHas DEF CallType
<1>4. /\ Len(hero) \in Nat /\ Len(villain) \in Nat
      /\ hero # <<>> => Len(hero) # 0
      /\ villain # <<>> => Len(villain) # 0
  BY <1>3, LenProperties, EmptySeq
<1> QED
  BY <1>1, <1>2, <1>3, <1>4

(* A range has a mask once.                                                *)
OneEach(combos) == \A i, j \in Indices(combos) : combos[i].mask = combos[j].mask => i = j

(* The ranges of a result have each mask once.                             *)
LEMMA MasksOnce ==
  ASSUME SumsInv, IsResult
  PROVE  OneEach(hero) /\ OneEach(villain)
<1>1. call.hero \in Seq(Combos) /\ call.villain \in Seq(Combos)
  BY ResultHas DEF CallType
<1> QED
  BY <1>1, ResultHas, FilterHas DEF OneEach

(* The entries of a breakdown are the combos that met somebody.            *)
LEMMA EntriesHave ==
  ASSUME NEW combos, Len(combos) \in Nat, OneEach(combos), NEW summed, NEW met \in SUBSET Indices(combos)
  PROVE  LET E == Entries(combos, summed, met)
         IN  /\ Indices(E) = DOMAIN E
             /\ \A e \in Indices(E) : \E i \in met : E[e] = [combo |-> combos[i], sum |-> summed[i]]
             /\ \A i \in met : \E e \in Indices(E) : E[e] = [combo |-> combos[i], sum |-> summed[i]]
             /\ \A e, f \in Indices(E) : E[e].combo.mask = E[f].combo.mask => e = f
<1> DEFINE E == Entries(combos, summed, met)
           f == [i \in Indices(combos) |-> [combo |-> combos[i], sum |-> summed[i]]]
           D == {f[i] : i \in met}
<1>1. met \subseteq Int /\ IsFiniteSet(met)
  <2>1. IsFiniteSet(Indices(combos)) /\ Indices(combos) \subseteq Int
    BY FS_Interval DEF Indices
  <2> QED
    BY <2>1, FS_Subset
<1>2. /\ \A i \in met : f[i] = [combo |-> combos[i], sum |-> summed[i]]
      /\ \A i \in met : f[i] \in D
      /\ \A i \in met : f[i].combo.mask = combos[i].mask /\ i \in Indices(combos)
  OBVIOUS
<1>3. E = At(f, met)
  BY DEF Entries
<1> HIDE DEF E, f, D
<1>4. \A i, j \in met : f[i] = f[j] => i = j
  <2>1. ASSUME NEW i \in met, NEW j \in met, f[i] = f[j] PROVE i = j
    <3>1. combos[i].mask = combos[j].mask /\ i \in Indices(combos) /\ j \in Indices(combos)
      BY <2>1, <1>2
    <3> QED
      BY <3>1 DEF OneEach
  <2> QED
    BY <2>1
<1>5. E \in Seq(D) /\ Range(E) = {f[i] : i \in met} /\ IsInjective(E)
  <2>1. \A i \in met : f[i] \in D
    BY <1>2
  <2> QED
    BY <1>1, <1>3, <1>4, <2>1, AtHas
<1>6. Indices(E) = DOMAIN E
  BY <1>5, LenProperties DEF Indices
<1>7. ASSUME NEW e \in Indices(E)
      PROVE  \E i \in met : E[e] = f[i]
  <2>1. E[e] \in Range(E)
    BY <1>6 DEF Range
  <2> QED
    BY <2>1, <1>5
<1>8. ASSUME NEW i \in met
      PROVE  \E e \in Indices(E) : E[e] = f[i]
  <2>1. f[i] \in Range(E)
    BY <1>5
  <2> QED
    BY <2>1, <1>6 DEF Range
<1>9. ASSUME NEW e \in Indices(E), NEW g \in Indices(E), E[e].combo.mask = E[g].combo.mask
      PROVE  e = g
  <2>1. PICK i \in met : E[e] = f[i]
    BY <1>7
  <2>2. PICK j \in met : E[g] = f[j]
    BY <1>7
  <2>3. combos[i].mask = combos[j].mask /\ i \in Indices(combos) /\ j \in Indices(combos)
    BY <1>2, <1>9, <2>1, <2>2
  <2>4. i = j
    BY <2>3 DEF OneEach
  <2> QED
    BY <2>1, <2>2, <2>4, <1>5, <1>6 DEF IsInjective
<1>10. /\ \A e \in Indices(E) : \E i \in met : E[e] = [combo |-> combos[i], sum |-> summed[i]]
       /\ \A i \in met : \E e \in Indices(E) : E[e] = [combo |-> combos[i], sum |-> summed[i]]
  <2>1. \A i \in met : f[i] = [combo |-> combos[i], sum |-> summed[i]]
    BY <1>2
  <2>2. ASSUME NEW e \in Indices(E)
        PROVE  \E i \in met : E[e] = [combo |-> combos[i], sum |-> summed[i]]
    <3>1. PICK i \in met : E[e] = f[i]
      BY <1>7
    <3> QED
      BY <2>1, <3>1
  <2>3. ASSUME NEW i \in met
        PROVE  \E e \in Indices(E) : E[e] = [combo |-> combos[i], sum |-> summed[i]]
    <3>1. PICK e \in Indices(E) : E[e] = f[i]
      BY <1>8
    <3> QED
      BY <2>1, <3>1
  <2> QED
    BY <2>2, <2>3
<1>11. \A e, g \in Indices(E) : E[e].combo.mask = E[g].combo.mask => e = g
  BY <1>9
<1> QED
  BY <1>6, <1>10, <1>11 DEF E

PairsMet == {p \in Indices(hero) \X Indices(villain) : CanMeet(p[1], p[2])}

(* A list without repetition is as long as its range is large.             *)
LEMMA InjectiveLength ==
  ASSUME NEW D, NEW s \in Seq(D), IsInjective(s)
  PROVE  IsFiniteSet(Range(s)) /\ Cardinality(Range(s)) = Len(s)
<1>1. Len(s) \in Nat /\ DOMAIN s = 1 .. Len(s)
  BY LenProperties
<1>2. IsFiniteSet(1 .. Len(s)) /\ Cardinality(1 .. Len(s)) = Len(s)
  BY <1>1, FS_Interval
<1>3. Corresponds(1 .. Len(s), Range(s), s)
  BY <1>1 DEF Corresponds, Range, IsInjective
<1>4. IsFiniteSet(Range(s)) /\ Cardinality(Range(s)) = Cardinality(1 .. Len(s))
  BY <1>2, <1>3, SameSize
<1> QED
  BY <1>2, <1>4

(* The aggregate has the term of every pair that can be dealt together,    *)
(* once.                                                                   *)
LEMMA AggregateHas ==
  ASSUME Len(hero) \in Nat \ {0}, Len(villain) \in Nat
  PROVE  /\ Range(Concat(SerialPair)) = {TrueTerm(p[1], p[2]) : p \in PairsMet}
         /\ Len(Concat(SerialPair)) = Cardinality(PairsMet)
         /\ Range(Concat(SerialPair)) = UNION {Range(RowTerms(i)) : i \in HeroMet}
         /\ Range(Concat(SerialPair)) = UNION {Range(Concat(SerialVillain(j))) : j \in VillainMet}
<1> DEFINE D == AllTerms
           f == ByRow
           terms == Concat(SerialPair)
<1>1. SerialPair = InGroups(f)
  BY DEF SerialPair, ByRow
<1>2. \A i \in Indices(hero) : f[i] \in Seq(D) /\ f[i] = RowTerms(i)
  BY RowLists
<1>3. Disjoint(f, Indices(hero))
  BY TermsApart
<1> HIDE DEF D, f
<1>4. /\ terms \in Seq(D)
      /\ Range(terms) = UNION {Range(f[i]) : i \in Indices(hero)}
      /\ IsInjective(terms)
  BY <1>1, <1>2, <1>3, GroupsHave
<1> HIDE DEF terms
<1>5. \A i \in Indices(hero) : Range(f[i]) = {TrueTerm(i, j) : j \in Columns(i)}
  BY <1>2, RowHas
<1>6. ASSUME NEW v
      PROVE  v \in Range(terms)
             <=> \E i \in Indices(hero), j \in Indices(villain) : CanMeet(i, j) /\ v = TrueTerm(i, j)
  <2>1. v \in Range(terms) <=> \E i \in Indices(hero) : v \in Range(f[i])
    BY <1>4
  <2>2. ASSUME NEW i \in Indices(hero)
        PROVE  v \in Range(f[i]) <=> \E j \in Indices(villain) : CanMeet(i, j) /\ v = TrueTerm(i, j)
    <3>1. v \in Range(f[i]) <=> \E j \in Columns(i) : v = TrueTerm(i, j)
      BY <1>5
    <3> QED
      BY <3>1 DEF Columns
  <2> QED
    BY <2>1, <2>2
<1>7. Range(terms) = {TrueTerm(p[1], p[2]) : p \in PairsMet}
  <2>1. ASSUME NEW v
        PROVE  v \in Range(terms) <=> \E p \in PairsMet : v = TrueTerm(p[1], p[2])
    <3>1. ASSUME NEW i \in Indices(hero), NEW j \in Indices(villain), CanMeet(i, j)
          PROVE  <<i, j>> \in PairsMet /\ <<i, j>>[1] = i /\ <<i, j>>[2] = j
      BY <3>1 DEF PairsMet
    <3>2. \A p \in PairsMet : p[1] \in Indices(hero) /\ p[2] \in Indices(villain) /\ CanMeet(p[1], p[2])
      BY DEF PairsMet
    <3>3. ASSUME NEW p \in PairsMet, v = TrueTerm(p[1], p[2])
          PROVE  v \in Range(terms)
      BY <3>2, <3>3, <1>6
    <3>4. ASSUME v \in Range(terms)
          PROVE  \E p \in PairsMet : v = TrueTerm(p[1], p[2])
      <4>1. PICK i \in Indices(hero), j \in Indices(villain) : CanMeet(i, j) /\ v = TrueTerm(i, j)
        BY <3>4, <1>6
      <4>2. <<i, j>> \in PairsMet /\ v = TrueTerm(<<i, j>>[1], <<i, j>>[2])
        BY <3>1, <4>1
      <4> QED
        BY <4>2
    <3> QED
      BY <3>3, <3>4
  <2> QED
    BY <2>1
<1>8. Len(terms) = Cardinality(PairsMet)
  <2> DEFINE T == {TrueTerm(p[1], p[2]) : p \in PairsMet}
             g == [p \in PairsMet |-> TrueTerm(p[1], p[2])]
  <2>1. IsFiniteSet(PairsMet)
    <3>1. IsFiniteSet(Indices(hero)) /\ IsFiniteSet(Indices(villain))
      BY FS_Interval DEF Indices
    <3>2. IsFiniteSet(Indices(hero) \X Indices(villain))
      BY <3>1, FS_Product
    <3>3. PairsMet \in SUBSET (Indices(hero) \X Indices(villain))
      BY DEF PairsMet
    <3> QED
      BY <3>2, <3>3, FS_Subset
  <2>2. Corresponds(PairsMet, T, g)
    <3>1. \A p \in PairsMet : g[p].row = p[1] /\ g[p].col = p[2] /\ p = <<p[1], p[2]>>
      BY DEF TrueTerm, PairsMet
    <3>2. \A p, q \in PairsMet : g[p] = g[q] => p = q
      BY <3>1
    <3>3. (\A p \in PairsMet : g[p] \in T) /\ \A t \in T : \E p \in PairsMet : g[p] = t
      OBVIOUS
    <3> HIDE DEF g, T
    <3> QED
      BY <3>2, <3>3 DEF Corresponds
  <2> HIDE DEF g, T
  <2>3. Cardinality(T) = Cardinality(PairsMet)
    BY <2>1, <2>2, SameSize
  <2>4. Cardinality(Range(terms)) = Len(terms)
    BY <1>4, InjectiveLength
  <2>5. Range(terms) = T
    BY <1>7 DEF T
  <2> QED
    BY <2>3, <2>4, <2>5
<1>9. Range(terms) = UNION {Range(RowTerms(i)) : i \in HeroMet}
  <2>1. ASSUME NEW v
        PROVE  v \in Range(terms) <=> \E i \in HeroMet : v \in Range(RowTerms(i))
    <3>1. \A i \in Indices(hero) : v \in Range(RowTerms(i)) <=> \E j \in Columns(i) : v = TrueTerm(i, j)
      BY <1>2, <1>5
    <3>2. \A i \in HeroMet : i \in Indices(hero)
      BY DEF HeroMet
    <3>3. \A i \in Indices(hero), j \in Indices(villain) : CanMeet(i, j) => i \in HeroMet /\ j \in Columns(i)
      BY DEF HeroMet, Columns
    <3>4. \A i : \A j \in Columns(i) : j \in Indices(villain) /\ CanMeet(i, j)
      BY DEF Columns
    <3> QED
      BY <3>1, <3>2, <3>3, <3>4, <1>6
  <2> QED
    BY <2>1
<1>10. Range(terms) = UNION {Range(Concat(SerialVillain(j))) : j \in VillainMet}
  <2>1. ASSUME NEW v
        PROVE  v \in Range(terms) <=> \E j \in VillainMet : v \in Range(Concat(SerialVillain(j)))
    <3>1. ASSUME NEW j \in Indices(villain)
          PROVE  v \in Range(Concat(SerialVillain(j)))
                 <=> \E i \in Indices(hero) : CanMeet(i, j) /\ v = TrueTerm(i, j)
      <4>1. Range(Concat(SerialVillain(j))) = {TrueTerm(i, j) : i \in {r \in Indices(hero) : CanMeet(r, j)}}
        BY ColumnHas
      <4> QED
        BY <4>1
    <3>2. \A j \in VillainMet : j \in Indices(villain)
      BY DEF VillainMet
    <3>3. \A i \in Indices(hero), j \in Indices(villain) : CanMeet(i, j) => j \in VillainMet
      BY DEF VillainMet
    <3> QED
      BY <3>1, <3>2, <3>3, <1>6
  <2> QED
    BY <2>1
<1> QED
  BY <1>7, <1>8, <1>9, <1>10 DEF terms

(* The combos of one list that can meet one of another.                    *)
MetBy(own, other) ==
  {i \in Indices(own) : \E j \in Indices(other) : Opposed(own[i].mask, other[j].mask)}

(* One side of a result answers for its range: each mask that can meet a   *)
(* usable opponent has one entry, at the weight first given, and no other  *)
(* mask has one.                                                           *)
LEMMA SideAnswered ==
  ASSUME NEW asked \in Seq(Combos), NEW against \in Seq(Combos), NEW summed, NEW met,
         NEW mine, mine = FilterCombos(asked, call.board),
         NEW theirs, theirs = FilterCombos(against, call.board),
         met = MetBy(mine, theirs)
  PROVE  Answered(asked, Entries(mine, summed, met), against)
<1> DEFINE E == Entries(mine, summed, met)
<1>1. /\ Len(mine) \in Nat
      /\ \A i \in Indices(mine) : Usable(mine[i], call.board)
      /\ \A i \in Indices(mine) : \E q \in Indices(asked) : mine[i] = asked[q]
      /\ OneEach(mine)
      /\ \A q \in Indices(asked) : Usable(asked[q], call.board) =>
           \E i \in Indices(mine) : /\ mine[i].mask = asked[q].mask
                                    /\ mine[i] = asked[First(asked, call.board, asked[q].mask)]
  <2> DEFINE F == FilterCombos(asked, call.board)
  <2>1. /\ F \in Seq(Combos)
        /\ \A i \in Indices(F) : Usable(F[i], call.board)
        /\ \A i \in Indices(F) : \E q \in Indices(asked) : F[i] = asked[q]
        /\ \A i, j \in Indices(F) : F[i].mask = F[j].mask => i = j
        /\ \A q \in Indices(asked) : Usable(asked[q], call.board) =>
             \E i \in Indices(F) : /\ F[i].mask = asked[q].mask
                                   /\ F[i] = asked[First(asked, call.board, asked[q].mask)]
    BY FilterHas
  <2>2. F = mine
    OBVIOUS
  <2> HIDE DEF F
  <2> QED
    BY <2>1, <2>2, LenProperties DEF OneEach
<1>2. /\ \A j \in Indices(theirs) : Usable(theirs[j], call.board)
      /\ \A j \in Indices(theirs) : \E q \in Indices(against) : theirs[j] = against[q]
      /\ \A q \in Indices(against) : Usable(against[q], call.board) =>
           \E j \in Indices(theirs) : theirs[j].mask = against[q].mask
  BY FilterHas
<1>3. /\ \A e \in Indices(E) : \E i \in met : E[e] = [combo |-> mine[i], sum |-> summed[i]]
      /\ \A i \in met : \E e \in Indices(E) : E[e] = [combo |-> mine[i], sum |-> summed[i]]
      /\ \A e, f \in Indices(E) : E[e].combo.mask = E[f].combo.mask => e = f
  <2>1. met \in SUBSET Indices(mine)
    BY DEF MetBy
  <2>2. Len(mine) \in Nat /\ OneEach(mine)
    BY <1>1
  <2> QED
    BY <2>1, <2>2, EntriesHave
<1> HIDE DEF E
<1>4. ASSUME NEW m \in {asked[i].mask : i \in Indices(asked)}
      PROVE  LET given == {i \in Indices(asked) : asked[i].mask = m /\ Usable(asked[i], call.board)}
                 opposed == \E j \in Indices(against) :
                              Usable(against[j], call.board) /\ Opposed(m, against[j].mask)
                 own == {e \in Indices(E) : E[e].combo.mask = m}
             IN  IF given # {} /\ opposed
                 THEN /\ Cardinality(own) = 1
                      /\ \A e \in own : E[e].combo.weight = asked[Min(given)].weight
                 ELSE own = {}
  <2> DEFINE given == {i \in Indices(asked) : asked[i].mask = m /\ Usable(asked[i], call.board)}
             opposed == \E j \in Indices(against) :
                          Usable(against[j], call.board) /\ Opposed(m, against[j].mask)
             own == {e \in Indices(E) : E[e].combo.mask = m}
  <2>1. opposed <=> \E j \in Indices(theirs) : Opposed(m, theirs[j].mask)
    <3>1. ASSUME opposed PROVE \E j \in Indices(theirs) : Opposed(m, theirs[j].mask)
      BY <3>1, <1>2
    <3>2. ASSUME NEW j \in Indices(theirs), Opposed(m, theirs[j].mask) PROVE opposed
      <4>1. PICK q \in Indices(against) : theirs[j] = against[q]
        BY <1>2
      <4> QED
        BY <4>1, <3>2, <1>2
    <3> QED
      BY <3>1, <3>2
  <2>2. ASSUME given # {}
        PROVE  \E i \in Indices(mine) : mine[i].mask = m /\ mine[i] = asked[Min(given)]
    <3>1. PICK q \in Indices(asked) : asked[q].mask = m /\ Usable(asked[q], call.board)
      BY <2>2
    <3>2. First(asked, call.board, m) = Min(given)
      BY DEF First
    <3> HIDE DEF given
    <3> QED
      BY <3>1, <3>2, <1>1
  <2>3. ASSUME NEW i \in Indices(mine), mine[i].mask = m
        PROVE  given # {}
    <3>1. PICK q \in Indices(asked) : mine[i] = asked[q]
      BY <1>1
    <3>2. q \in given
      BY <3>1, <2>3, <1>1
    <3> QED
      BY <3>2
  <2>4. CASE given # {} /\ opposed
    <3>1. PICK i \in Indices(mine) : mine[i].mask = m /\ mine[i] = asked[Min(given)]
      BY <2>2, <2>4
    <3>2. i \in met
      <4>1. \E j \in Indices(theirs) : Opposed(mine[i].mask, theirs[j].mask)
        BY <3>1, <2>1, <2>4
      <4> QED
        BY <4>1 DEF MetBy
    <3>3. PICK e \in Indices(E) : E[e] = [combo |-> mine[i], sum |-> summed[i]]
      BY <1>3, <3>2
    <3>4. E[e].combo = mine[i] /\ E[e].combo.mask = m
      BY <3>1, <3>3
    <3> HIDE DEF given, opposed
    <3>5. own = {e}
      BY <3>4, <1>3
    <3>6. Cardinality(own) = 1
      <4>1. Cardinality({e}) = 1
        BY FS_Singleton
      <4> HIDE DEF own
      <4> QED
        BY <3>5, <4>1
    <3>7. \A d \in own : E[d].combo.weight = asked[Min(given)].weight
      <4> HIDE DEF own
      <4> QED
        BY <3>1, <3>4, <3>5
    <3> QED
      BY <2>4, <3>6, <3>7 DEF given, opposed
  <2>5. CASE ~(given # {} /\ opposed)
    <3>1. ASSUME NEW e \in own PROVE FALSE
      <4>1. PICK i \in met : E[e] = [combo |-> mine[i], sum |-> summed[i]]
        BY <1>3
      <4>2. mine[i].mask = m /\ i \in Indices(mine)
        BY <4>1 DEF MetBy
      <4>3. \E j \in Indices(theirs) : Opposed(m, theirs[j].mask)
        BY <4>2 DEF MetBy
      <4> HIDE DEF given, opposed
      <4> QED
        BY <4>2, <4>3, <2>1, <2>3, <2>5
    <3>2. own = {}
      <4> HIDE DEF own
      <4> QED
        BY <3>1
    <3> QED
      BY <2>5, <3>2
  <2> QED
    BY <2>4, <2>5
<1> QED
  BY <1>4 DEF Answered, E

(* Two combos can be dealt together whichever comes first.                 *)
LEMMA OpposedBothWays ==
  ASSUME NEW a, NEW b
  PROVE  Opposed(a, b) <=> Opposed(b, a)
<1>1. a \cap b = b \cap a /\ a \union b = b \union a
  OBVIOUS
<1> QED
  BY <1>1 DEF Opposed

(* With no usable combo on a side there is nobody to answer for.           *)
LEMMA NobodyAnswered ==
  ASSUME NEW asked \in Seq(Combos), NEW against \in Seq(Combos),
         FilterCombos(asked, call.board) = <<>> \/ FilterCombos(against, call.board) = <<>>
  PROVE  Answered(asked, <<>>, against)
<1>1. ASSUME NEW c \in Seq(Combos), FilterCombos(c, call.board) = <<>>
      PROVE  \A q \in Indices(c) : ~Usable(c[q], call.board)
  <2>1. Indices(FilterCombos(c, call.board)) = {}
    BY <1>1 DEF Indices
  <2> QED
    BY <2>1, FilterHas
<1>2. Indices(<<>>) = {}
  BY DEF Indices
<1>3. CASE FilterCombos(asked, call.board) = <<>>
  BY <1>1, <1>2, <1>3 DEF Answered
<1>4. CASE FilterCombos(against, call.board) = <<>>
  BY <1>1, <1>2, <1>4 DEF Answered
<1> QED
  BY <1>3, <1>4

(* The invariant answers for every combo.                                  *)
LEMMA SumsAnswerCombos == SumsInv => EveryComboAnswered
<1> SUFFICES ASSUME SumsInv, IsResult, call.mode = "PerCombo"
             PROVE  /\ Answered(call.hero, outcome.hero, call.villain)
                    /\ Answered(call.villain, outcome.villain, call.hero)
  BY DEF EveryComboAnswered
<1>1. /\ call.hero \in Seq(Combos) /\ call.villain \in Seq(Combos)
      /\ hero = FilterCombos(call.hero, call.board)
      /\ villain = FilterCombos(call.villain, call.board)
  BY ResultHas DEF CallType
<1>2. CASE hero = <<>> \/ villain = <<>>
  <2>1. outcome.hero = <<>> /\ outcome.villain = <<>>
    BY <1>2, ResultHas DEF Zero
  <2> QED
    BY <1>1, <1>2, <2>1, NobodyAnswered
<1>3. CASE ~(hero = <<>> \/ villain = <<>>)
  <2>1. outcome.hero = Entries(hero, ByRow, HeroMet) /\ outcome.villain = Entries(villain, BySide, VillainMet)
    BY <1>3, ResultHas DEF FullAnswer, HeroEntries, VillainEntries
  <2>2. HeroMet = MetBy(hero, villain)
    BY DEF HeroMet, CanMeet, MetBy
  <2>3. VillainMet = MetBy(villain, hero)
    <3>1. \A i, j : CanMeet(i, j) <=> Opposed(villain[j].mask, hero[i].mask)
      BY OpposedBothWays DEF CanMeet
    <3> QED
      BY <3>1 DEF VillainMet, MetBy
  <2>4. Answered(call.hero, Entries(hero, ByRow, HeroMet), call.villain)
    BY <1>1, <2>2, SideAnswered
  <2>5. Answered(call.villain, Entries(villain, BySide, VillainMet), call.hero)
    BY <1>1, <2>3, SideAnswered
  <2> QED
    BY <2>1, <2>4, <2>5
<1> QED
  BY <1>2, <1>3

(* The invariant knows nothing of the number of workers.                   *)
LEMMA SumsSameAtEveryWidth == SumsInv => SameAtEveryWidth
<1> SUFFICES ASSUME SumsInv, IsResult, hero # <<>>, villain # <<>>
             PROVE  /\ outcome.pair = SerialPair
                    /\ \A e \in Indices(outcome.hero) :
                         LET i == CHOOSE r \in Indices(hero) : hero[r] = outcome.hero[e].combo
                         IN  outcome.hero[e].sum = RowTerms(i)
                    /\ \A e \in Indices(outcome.villain) :
                         LET j == CHOOSE c \in Indices(villain) : villain[c] = outcome.villain[e].combo
                         IN  outcome.villain[e].sum = SerialVillain(j)
  BY DEF SameAtEveryWidth
<1>1. outcome = FullAnswer /\ Len(hero) \in Nat /\ Len(villain) \in Nat /\ OneEach(hero) /\ OneEach(villain)
  BY ResultHas, MasksOnce
<1>2. ASSUME NEW combos, NEW i \in Indices(combos), OneEach(combos)
      PROVE  (CHOOSE r \in Indices(combos) : combos[r] = combos[i]) = i
  BY <1>2 DEF OneEach
<1>3. ASSUME NEW e \in Indices(outcome.hero)
      PROVE  outcome.hero[e].sum = RowTerms(CHOOSE r \in Indices(hero) : hero[r] = outcome.hero[e].combo)
  <2>1. call.mode # "AggregateOnly" /\ outcome.hero = Entries(hero, ByRow, HeroMet)
    BY <1>1, <1>3 DEF FullAnswer, HeroEntries, Indices
  <2>2. HeroMet \in SUBSET Indices(hero)
    BY DEF HeroMet
  <2>3. \A d \in Indices(Entries(hero, ByRow, HeroMet)) :
          \E i \in HeroMet : Entries(hero, ByRow, HeroMet)[d] = [combo |-> hero[i], sum |-> ByRow[i]]
    BY <1>1, <2>2, EntriesHave
  <2>4. PICK i \in HeroMet : outcome.hero[e] = [combo |-> hero[i], sum |-> ByRow[i]]
    BY <1>3, <2>1, <2>3
  <2>5. i \in Indices(hero) /\ outcome.hero[e].combo = hero[i] /\ outcome.hero[e].sum = RowTerms(i)
    BY <2>2, <2>4 DEF ByRow
  <2>6. (CHOOSE r \in Indices(hero) : hero[r] = hero[i]) = i
    BY <1>1, <1>2, <2>5
  <2> QED
    BY <2>5, <2>6
<1>4. ASSUME NEW e \in Indices(outcome.villain)
      PROVE  outcome.villain[e].sum
             = SerialVillain(CHOOSE c \in Indices(villain) : villain[c] = outcome.villain[e].combo)
  <2>1. call.mode # "AggregateOnly" /\ outcome.villain = Entries(villain, BySide, VillainMet)
    BY <1>1, <1>4 DEF FullAnswer, VillainEntries, Indices
  <2>2. VillainMet \in SUBSET Indices(villain)
    BY DEF VillainMet
  <2>3. \A d \in Indices(Entries(villain, BySide, VillainMet)) :
          \E j \in VillainMet : Entries(villain, BySide, VillainMet)[d] = [combo |-> villain[j], sum |-> BySide[j]]
    BY <1>1, <2>2, EntriesHave
  <2>4. PICK j \in VillainMet : outcome.villain[e] = [combo |-> villain[j], sum |-> BySide[j]]
    BY <1>4, <2>1, <2>3
  <2>5. j \in Indices(villain) /\ outcome.villain[e].combo = villain[j] /\ outcome.villain[e].sum = SerialVillain(j)
    BY <2>2, <2>4 DEF BySide
  <2>6. (CHOOSE c \in Indices(villain) : villain[c] = villain[j]) = j
    BY <1>1, <1>2, <2>5
  <2> QED
    BY <2>5, <2>6
<1>5. outcome.pair = SerialPair
  BY <1>1 DEF FullAnswer
<1> QED
  BY <1>3, <1>4, <1>5

(* The invariant counts every pair once.                                   *)
LEMMA SumsCountPairs == SumsInv => EveryPairOnce
<1> SUFFICES ASSUME SumsInv, IsResult
             PROVE  LET terms == Concat(outcome.pair)
                        pairs == {p \in Indices(hero) \X Indices(villain) : CanMeet(p[1], p[2])}
                    IN  /\ Len(terms) = Cardinality(pairs)
                        /\ Range(terms) = {TrueTerm(p[1], p[2]) : p \in pairs}
                        /\ call.mode = "PerCombo" =>
                             /\ Range(terms) = UNION {Range(outcome.hero[e].sum) : e \in Indices(outcome.hero)}
                             /\ Range(terms) = UNION {Range(Concat(outcome.villain[e].sum)) : e \in Indices(outcome.villain)}
  BY DEF EveryPairOnce
<1> DEFINE terms == Concat(outcome.pair)
           heroSide == UNION {Range(outcome.hero[e].sum) : e \in Indices(outcome.hero)}
           villainSide == UNION {Range(Concat(outcome.villain[e].sum)) : e \in Indices(outcome.villain)}
<1>1. CASE hero = <<>> \/ villain = <<>>
  <2>1. outcome.pair = <<>> /\ outcome.hero = <<>> /\ outcome.villain = <<>>
    BY <1>1, ResultHas DEF Zero
  <2>2. PairsMet = {}
    BY <1>1 DEF PairsMet, Indices
  <2>3. Concat(<<>>) = <<>>
    <3>1. <<>> \in Seq(Seq({})) /\ Len(<<>>) = 0
      OBVIOUS
    <3> QED
      BY <3>1, ConcatSteps
  <2>4. Len(<<>>) = 0 /\ Range(<<>>) = {} /\ Indices(<<>>) = {} /\ Cardinality({}) = 0
    BY FS_EmptySet DEF Range, Indices
  <2>5. {TrueTerm(p[1], p[2]) : p \in PairsMet} = {}
    BY <2>2
  <2>6. Len(terms) = Cardinality(PairsMet) /\ Range(terms) = {} /\ heroSide = {} /\ villainSide = {}
    BY <2>1, <2>2, <2>3, <2>4
  <2> QED
    BY <2>5, <2>6 DEF PairsMet
<1>2. CASE ~(hero = <<>> \/ villain = <<>>)
  <2>1. outcome = FullAnswer /\ Len(hero) \in Nat \ {0} /\ Len(villain) \in Nat /\ OneEach(hero) /\ OneEach(villain)
    BY <1>2, ResultHas, MasksOnce
  <2>2. terms = Concat(SerialPair)
    BY <2>1 DEF FullAnswer
  <2>3. /\ Range(terms) = {TrueTerm(p[1], p[2]) : p \in PairsMet}
        /\ Len(terms) = Cardinality(PairsMet)
        /\ Range(terms) = UNION {Range(RowTerms(i)) : i \in HeroMet}
        /\ Range(terms) = UNION {Range(Concat(SerialVillain(j))) : j \in VillainMet}
    BY <2>1, <2>2, AggregateHas
  <2>4. ASSUME call.mode = "PerCombo"
        PROVE  heroSide = UNION {Range(RowTerms(i)) : i \in HeroMet}
    <3> DEFINE E == Entries(hero, ByRow, HeroMet)
    <3>1. outcome.hero = E
      BY <2>1, <2>4 DEF FullAnswer, HeroEntries
    <3>2. HeroMet \in SUBSET Indices(hero) /\ \A i \in HeroMet : ByRow[i] = RowTerms(i)
      BY DEF HeroMet, ByRow
    <3>3. /\ \A e \in Indices(E) : \E i \in HeroMet : E[e] = [combo |-> hero[i], sum |-> ByRow[i]]
          /\ \A i \in HeroMet : \E e \in Indices(E) : E[e] = [combo |-> hero[i], sum |-> ByRow[i]]
      BY <2>1, <3>2, EntriesHave
    <3> HIDE DEF E
    <3>4. /\ \A e \in Indices(E) : \E i \in HeroMet : E[e].sum = RowTerms(i)
          /\ \A i \in HeroMet : \E e \in Indices(E) : E[e].sum = RowTerms(i)
      <4>1. ASSUME NEW e \in Indices(E)
            PROVE  \E i \in HeroMet : E[e].sum = RowTerms(i)
        <5>1. PICK i \in HeroMet : E[e] = [combo |-> hero[i], sum |-> ByRow[i]]
          BY <3>3
        <5> QED
          BY <5>1, <3>2
      <4>2. ASSUME NEW i \in HeroMet
            PROVE  \E e \in Indices(E) : E[e].sum = RowTerms(i)
        <5>1. PICK e \in Indices(E) : E[e] = [combo |-> hero[i], sum |-> ByRow[i]]
          BY <3>3
        <5> QED
          BY <5>1, <3>2
      <4> QED
        BY <4>1, <4>2
    <3>5. ASSUME NEW v
          PROVE  (\E e \in Indices(E) : v \in Range(E[e].sum)) <=> \E i \in HeroMet : v \in Range(RowTerms(i))
      BY <3>4
    <3> QED
      BY <3>1, <3>5
  <2>5. ASSUME call.mode = "PerCombo"
        PROVE  villainSide = UNION {Range(Concat(SerialVillain(j))) : j \in VillainMet}
    <3> DEFINE E == Entries(villain, BySide, VillainMet)
    <3>1. outcome.villain = E
      BY <2>1, <2>5 DEF FullAnswer, VillainEntries
    <3>2. VillainMet \in SUBSET Indices(villain) /\ \A j \in VillainMet : BySide[j] = SerialVillain(j)
      BY DEF VillainMet, BySide
    <3>3. /\ \A e \in Indices(E) : \E j \in VillainMet : E[e] = [combo |-> villain[j], sum |-> BySide[j]]
          /\ \A j \in VillainMet : \E e \in Indices(E) : E[e] = [combo |-> villain[j], sum |-> BySide[j]]
      BY <2>1, <3>2, EntriesHave
    <3> HIDE DEF E
    <3>4. /\ \A e \in Indices(E) : \E j \in VillainMet : E[e].sum = SerialVillain(j)
          /\ \A j \in VillainMet : \E e \in Indices(E) : E[e].sum = SerialVillain(j)
      <4>1. ASSUME NEW e \in Indices(E)
            PROVE  \E j \in VillainMet : E[e].sum = SerialVillain(j)
        <5>1. PICK j \in VillainMet : E[e] = [combo |-> villain[j], sum |-> BySide[j]]
          BY <3>3
        <5> QED
          BY <5>1, <3>2
      <4>2. ASSUME NEW j \in VillainMet
            PROVE  \E e \in Indices(E) : E[e].sum = SerialVillain(j)
        <5>1. PICK e \in Indices(E) : E[e] = [combo |-> villain[j], sum |-> BySide[j]]
          BY <3>3
        <5> QED
          BY <5>1, <3>2
      <4> QED
        BY <4>1, <4>2
    <3>5. ASSUME NEW v
          PROVE  (\E e \in Indices(E) : v \in Range(Concat(E[e].sum)))
                 <=> \E j \in VillainMet : v \in Range(Concat(SerialVillain(j)))
      BY <3>4
    <3> QED
      BY <3>1, <3>5
  <2> HIDE DEF terms, heroSide, villainSide
  <2> QED
    BY <2>3, <2>4, <2>5 DEF PairsMet, terms, heroSide, villainSide
<1> QED
  BY <1>1, <1>2

-----------------------------------------------------------------------------
(* Every pair of combos that can be dealt together enters the aggregate    *)
(* once, with the counts the boards give it, and no other pair does; the   *)
(* breakdowns are made of the same terms (the pair loop of                 *)
(* enumerate_range_equity).                                                *)
THEOREM EveryPairCounted == Spec => []EveryPairOnce
<1>1. Init => SumsInv
  BY InitSums
<1>2. SumsInv /\ [Next]_vars => SumsInv'
  BY StepSums
<1>3. SumsInv => EveryPairOnce
  BY SumsCountPairs
<1> QED
  BY <1>1, <1>2, <1>3, PTL DEF Spec

(* A hand of the caller's range that can meet an opponent has one entry,   *)
(* at the weight the caller first gave it, however often the range lists   *)
(* it (filter_combos and the emission of the breakdowns).                  *)
THEOREM EveryComboHasItsAnswer == Spec => []EveryComboAnswered
<1>1. Init => SumsInv
  BY InitSums
<1>2. SumsInv /\ [Next]_vars => SumsInv'
  BY StepSums
<1>3. SumsInv => EveryComboAnswered
  BY SumsAnswerCombos
<1> QED
  BY <1>1, <1>2, <1>3, PTL DEF Spec

(* The thread option, the core count, the schedule and the order in which  *)
(* chunks complete change no term, no order and no grouping of any sum of  *)
(* the result (the reduction in chunk order of enumerate_range_equity).    *)
THEOREM WidthNeverShows == Spec => []SameAtEveryWidth
<1>1. Init => SumsInv
  BY InitSums
<1>2. SumsInv /\ [Next]_vars => SumsInv'
  BY StepSums
<1>3. SumsInv => SameAtEveryWidth
  BY SumsSameAtEveryWidth
<1> QED
  BY <1>1, <1>2, <1>3, PTL DEF Spec
=============================================================================
