--------------------------- MODULE PairSamplerProofs ---------------------------
(***************************************************************************)
(* Four theorems about the pair sampler, for any number of workers, any    *)
(* chunks, ranges and board: every trial is a legal deal (LegalTrials),    *)
(* what a chunk computes is decided by the draws it accepts                *)
(* (DrawsDecideTrials), a pair of combos is drawn in exact proportion to   *)
(* its weights (PairsInProportion), and no board is favoured, whatever     *)
(* order the deck is in (UniformBoards). The first rests on DealInv: a     *)
(* worker's deck is a permutation of the cards at all times, and its front *)
(* is the board of the trial in progress. The second rests on ReplayInv:   *)
(* where a worker stands is where its chunk's draws lead from a fresh      *)
(* deck, so that neither the worker nor its earlier chunks have left       *)
(* anything behind. The third rests on an invariant of the construction of *)
(* the alias table (Balanced): an entry owns its share once what it still  *)
(* has to give or to take is counted in, and these leftovers add up to     *)
(* nothing. The fourth takes DealInv and a fact about deals: a deal is     *)
(* decided by the front of the deck it leaves, and any front of distinct   *)
(* live cards is dealt.                                                    *)
(***************************************************************************)
EXTENDS PairSampler, FiniteSetTheorems, SequenceTheorems, Induction

(* What is counted: a pair of combos out of the two ranges and a board.    *)
Trial == [hand : [hero : Drawn(call.hero), villain : Drawn(call.villain)], board : SUBSET Cards]

(* Worker w is inside a chunk.                                             *)
Running(w) == pc[w] \in {"pair", "deal"}

(* The values of the variables.                                            *)
Typed ==
  /\ call.cards \in Nat
  /\ next_chunk \in Nat \ {0}
  /\ pc \in [Workers -> {"claim", "pair", "deal", "exit"}]
  /\ chunk \in [Workers -> Chunks \union {0}]
  /\ \A w \in Workers : Running(w) => chunk[w] \in Chunks
  /\ deck \in [Workers -> [Cards -> Cards]]
  /\ DOMAIN rejections = Workers
  /\ DOMAIN hand = Workers
  /\ d \in [Workers -> 0 .. ToDraw]
  /\ board \in [Workers -> SUBSET Cards]
  /\ trials \in [Chunks -> Seq(Trial)]
  /\ DOMAIN draws = Chunks

(* deck is a permutation of the cards, whatever trials it went through.    *)
Permuted == \A w \in Workers : \A i, j \in Cards : deck[w][i] = deck[w][j] => i = j

(* The front of the deck is the board of the trial in progress.            *)
Fronted ==
  \A w \in Workers :
    /\ pc[w] # "deal" => d[w] = 0 /\ board[w] = {}
    /\ pc[w] = "deal" =>
         /\ hand[w] \in [hero : Drawn(call.hero), villain : Drawn(call.villain)]
         /\ hand[w].hero \cap hand[w].villain = {}
    /\ d[w] <= call.cards
    /\ board[w] = {deck[w][k] : k \in 0 .. d[w] - 1}
    /\ board[w] \cap Dead(w) = {}
    /\ IsFiniteSet(board[w]) /\ Cardinality(board[w]) = d[w]

(* The inductive invariant of LegalTrials.                                 *)
DealInv == Typed /\ Permuted /\ Fronted /\ TrialsAreLegal

(* A chunk is a number from 1.                                             *)
LEMMA ChunksAre == Chunks = 1 .. Len(ChunkSizes) /\ Len(ChunkSizes) \in Nat
BY SamplerAssumption DEF Chunks

(* One lemma per action: it preserves DealInv.                             *)
LEMMA InitDeal == Init => DealInv
<1> SUFFICES ASSUME Init PROVE DealInv
  OBVIOUS
<1>1. PICK c \in Calls : call = [c EXCEPT !.hero = WithTable(@), !.villain = WithTable(@)]
  BY DEF Init
<1>2. call.cards = c.cards
  BY <1>1
<1>3. Typed
  BY <1>2, SamplerAssumption, ChunksAre, EmptySeq DEF Init, Typed, BaseDeck, Cards, Running
<1>4. Permuted
  BY DEF Init, Permuted, BaseDeck
<1>5. Fronted
  BY <1>2, SamplerAssumption, FS_EmptySet DEF Init, Fronted, Dead, NoPair
<1>6. TrialsAreLegal
  BY DEF Init, TrialsAreLegal
<1> QED
  BY <1>3, <1>4, <1>5, <1>6 DEF DealInv

(* A chunk that is claimed starts from a fresh deck with an empty board.   *)
LEMMA ClaimDeal ==
  ASSUME DealInv, NEW w \in Workers, Claim(w)
  PROVE  DealInv'
<1>1. call' = call /\ Drawn(call.hero)' = Drawn(call.hero) /\ Drawn(call.villain)' = Drawn(call.villain)
  BY DEF Claim, Drawn
<1> DEFINE n == call.cards
<1>0. /\ n \in Nat /\ next_chunk \in Nat \ {0}
      /\ pc \in [Workers -> {"claim", "pair", "deal", "exit"}] /\ pc[w] = "claim"
      /\ chunk \in [Workers -> Chunks \union {0}]
      /\ deck \in [Workers -> [0 .. n - 1 -> 0 .. n - 1]]
  BY DEF DealInv, Typed, Cards, Claim
<1>a. /\ BaseDeck \in [0 .. n - 1 -> 0 .. n - 1]
      /\ \A i \in 0 .. n - 1 : BaseDeck[i] = i
  BY DEF BaseDeck, Cards
<1>b. /\ pc' \in [Workers -> {"claim", "pair", "deal", "exit"}] /\ pc'[w] \in {"pair", "exit"}
      /\ \A u \in Workers : u # w => pc'[u] = pc[u] /\ chunk'[u] = chunk[u]
      /\ pc'[w] = "pair" => chunk'[w] \in Chunks
      /\ chunk' \in [Workers -> Chunks \union {0}]
      /\ next_chunk' \in Nat \ {0}
  <2>1. CASE next_chunk \in Chunks
    <3>1. /\ chunk' = [chunk EXCEPT ![w] = next_chunk]
          /\ next_chunk' = next_chunk + 1
          /\ pc' = [pc EXCEPT ![w] = "pair"]
      BY <2>1 DEF Claim, Goto
    <3>2. next_chunk' \in Nat \ {0}
      BY <3>1, <1>0
    <3>3. pc' \in [Workers -> {"claim", "pair", "deal", "exit"}] /\ pc'[w] = "pair"
      BY <3>1, <1>0
    <3>4. chunk' \in [Workers -> Chunks \union {0}] /\ chunk'[w] \in Chunks
      BY <3>1, <1>0, <2>1
    <3> QED
      BY <3>1, <3>2, <3>3, <3>4, <1>0
  <2>2. CASE next_chunk \notin Chunks
    BY <2>2, <1>0 DEF Claim, Goto
  <2> QED
    BY <2>1, <2>2
<1>c. /\ deck' \in [Workers -> [0 .. n - 1 -> 0 .. n - 1]]
      /\ deck'[w] \in {deck[w], BaseDeck}
      /\ \A u \in Workers : u # w => deck'[u] = deck[u]
  <2>1. CASE next_chunk \in Chunks
    BY <2>1, <1>0, <1>a DEF Claim
  <2>2. CASE next_chunk \notin Chunks
    BY <2>2, <1>0 DEF Claim
  <2> QED
    BY <2>1, <2>2
<1>2. Typed'
  <2>1. \A u \in Workers : Running(u)' => chunk'[u] \in Chunks
    BY <1>b DEF DealInv, Typed, Running
  <2> QED
    BY <1>1, <1>b, <1>c, <2>1 DEF DealInv, Typed, Claim, Cards, Trial
<1>3. Permuted'
  <2> SUFFICES ASSUME NEW u \in Workers, NEW i \in Cards, NEW j \in Cards, deck'[u][i] = deck'[u][j]
               PROVE  i = j
    BY <1>1 DEF Permuted, Cards
  <2>1. CASE deck'[u] = deck[u]
    BY <2>1 DEF DealInv, Permuted
  <2>2. CASE deck'[u] = BaseDeck
    BY <2>2, <1>a DEF Cards
  <2> QED
    BY <2>1, <2>2, <1>c
<1>4. Fronted'
  <2> SUFFICES ASSUME NEW u \in Workers
               PROVE  /\ pc'[u] # "deal" => d'[u] = 0 /\ board'[u] = {}
                      /\ pc'[u] = "deal" => pc[u] = "deal"
                      /\ board'[u] = {deck'[u][k] : k \in 0 .. d'[u] - 1}
    BY <1>1 DEF DealInv, Fronted, Claim, Dead
  <2>1. CASE u # w
    BY <2>1, <1>b, <1>c DEF DealInv, Fronted, Claim
  <2>2. CASE u = w
    <3>1. pc'[w] # "deal" /\ d'[w] = 0 /\ board'[w] = {}
      BY <1>0, <1>b DEF DealInv, Fronted, Claim
    <3> QED
      BY <2>2, <3>1
  <2> QED
    BY <2>1, <2>2
<1>5. TrialsAreLegal'
  BY <1>1 DEF DealInv, TrialsAreLegal, Claim
<1> QED
  BY <1>2, <1>3, <1>4, <1>5 DEF DealInv

(* An accepted pair has no card in common and none on the board.           *)
LEMMA AcceptPairDeal ==
  ASSUME DealInv, NEW w \in Workers, AcceptPair(w)
  PROVE  DealInv'
<1>1. call' = call /\ Drawn(call.hero)' = Drawn(call.hero) /\ Drawn(call.villain)' = Drawn(call.villain)
  BY DEF AcceptPair, Drawn
<1>2. Typed'
  BY <1>1 DEF DealInv, Typed, AcceptPair, Goto, Cards, Running, Trial
<1>3. Permuted'
  BY <1>1 DEF DealInv, Permuted, AcceptPair, Cards
<1>4. Fronted'
  <2> SUFFICES ASSUME NEW u \in Workers
               PROVE  /\ pc'[u] # "deal" => d'[u] = 0 /\ board'[u] = {}
                      /\ pc'[u] = "deal" =>
                           /\ hand'[u] \in [hero : Drawn(call.hero), villain : Drawn(call.villain)]
                           /\ hand'[u].hero \cap hand'[u].villain = {}
                      /\ board'[u] \cap Dead(u)' = {}
    BY <1>1 DEF DealInv, Fronted, AcceptPair
  <2>1. CASE u # w
    BY <2>1 DEF DealInv, Typed, Fronted, AcceptPair, Goto, Dead
  <2>2. CASE u = w
    BY <2>2 DEF DealInv, Typed, Fronted, AcceptPair, Goto, Dead
  <2> QED
    BY <2>1, <2>2
<1>5. TrialsAreLegal'
  BY <1>1 DEF DealInv, TrialsAreLegal, AcceptPair
<1> QED
  BY <1>2, <1>3, <1>4, <1>5 DEF DealInv

(* A rejection changes neither the deck nor the trials.                    *)
LEMMA RejectPairDeal ==
  ASSUME DealInv, NEW w \in Workers, RejectPair(w)
  PROVE  DealInv'
<1>1. call' = call /\ Drawn(call.hero)' = Drawn(call.hero) /\ Drawn(call.villain)' = Drawn(call.villain)
  BY DEF RejectPair, Drawn
<1>2. Typed'
  BY <1>1 DEF DealInv, Typed, RejectPair, Goto, Cards, Running, Trial
<1>3. Permuted'
  BY <1>1 DEF DealInv, Permuted, RejectPair, Cards
<1>4. Fronted'
  BY <1>1 DEF DealInv, Typed, Fronted, RejectPair, Goto, Dead
<1>5. TrialsAreLegal'
  BY <1>1 DEF DealInv, TrialsAreLegal, RejectPair
<1> QED
  BY <1>2, <1>3, <1>4, <1>5 DEF DealInv

(* The permutations of n cards.                                            *)
Shuffles(n) ==
  {order \in [0 .. n - 1 -> 0 .. n - 1] :
     \A x, y \in 0 .. n - 1 : order[x] = order[y] => x = y}

(* A swap leaves a permutation a permutation.                              *)
LEMMA SwapPermutes ==
  ASSUME NEW n \in Nat, NEW order \in Shuffles(n), NEW k \in 0 .. n - 1, NEW j \in 0 .. n - 1
  PROVE  /\ Swap(order, k, j) \in Shuffles(n)
         /\ Swap(order, k, j)[k] = order[j]
         /\ \A x \in 0 .. n - 1 : x < k /\ x < j => Swap(order, k, j)[x] = order[x]
<1> DEFINE swapped == Swap(order, k, j)
<1> USE DEF Shuffles
<1>1. swapped \in [0 .. n - 1 -> 0 .. n - 1]
  BY DEF Swap
<1>2. \A x \in 0 .. n - 1 :
        swapped[x] = IF x = j THEN order[k] ELSE IF x = k THEN order[j] ELSE order[x]
  BY DEF Swap
<1>3. swapped[k] = order[j]
  BY <1>2
<1>4. ASSUME NEW x \in 0 .. n - 1, NEW y \in 0 .. n - 1, swapped[x] = swapped[y]
      PROVE  x = y
  BY <1>2, <1>4
<1>5. \A x \in 0 .. n - 1 : x < k /\ x < j => swapped[x] = order[x]
  BY <1>2
<1> QED
  BY <1>1, <1>3, <1>4, <1>5

(* A drawn card is swapped to the front and joins the board.               *)
LEMMA DealCardDeal ==
  ASSUME DealInv, NEW w \in Workers, DealCard(w)
  PROVE  DealInv'
<1>1. call' = call /\ Drawn(call.hero)' = Drawn(call.hero) /\ Drawn(call.villain)' = Drawn(call.villain)
  BY DEF DealCard, Drawn
<1>2. PICK j \in Positions(d[w]) :
        /\ deck[w][j] \notin Dead(w)
        /\ deck' = [deck EXCEPT ![w] = Swap(@, d[w], j)]
        /\ board' = [board EXCEPT ![w] = @ \union {deck[w][j]}]
        /\ draws' = [draws EXCEPT ![chunk[w]] = Append(@, j)]
  BY DEF DealCard
<1>3. /\ d[w] \in Nat /\ d[w] < ToDraw /\ ToDraw \in Nat
      /\ call.cards \in Nat /\ deck[w] \in [0 .. call.cards - 1 -> 0 .. call.cards - 1]
      /\ d[w] \in 0 .. call.cards - 1 /\ j \in 0 .. call.cards - 1 /\ j >= d[w]
      /\ \A x, y \in 0 .. call.cards - 1 : deck[w][x] = deck[w][y] => x = y
  BY <1>2, SamplerAssumption DEF DealInv, Typed, Permuted, DealCard, Positions, Cards
<1>4. /\ deck'[w] = Swap(deck[w], d[w], j) /\ \A u \in Workers : u # w => deck'[u] = deck[u]
      /\ board'[w] = board[w] \union {deck[w][j]} /\ \A u \in Workers : u # w => board'[u] = board[u]
      /\ d'[w] = d[w] + 1 /\ \A u \in Workers : u # w => d'[u] = d[u]
      /\ DOMAIN deck' = Workers /\ DOMAIN board' = Workers /\ DOMAIN d' = Workers
  BY <1>2 DEF DealInv, Typed, DealCard
<1>5. /\ deck'[w] \in [0 .. call.cards - 1 -> 0 .. call.cards - 1]
      /\ \A x, y \in 0 .. call.cards - 1 : deck'[w][x] = deck'[w][y] => x = y
      /\ deck'[w][d[w]] = deck[w][j]
      /\ \A x \in 0 .. d[w] - 1 : deck'[w][x] = deck[w][x]
  <2> DEFINE n == call.cards
  <2>1. n \in Nat /\ deck[w] \in Shuffles(n) /\ d[w] \in 0 .. n - 1 /\ j \in 0 .. n - 1
    BY <1>3 DEF Shuffles
  <2>3. /\ Swap(deck[w], d[w], j) \in Shuffles(n)
        /\ Swap(deck[w], d[w], j)[d[w]] = deck[w][j]
        /\ \A x \in 0 .. n - 1 : x < d[w] /\ x < j => Swap(deck[w], d[w], j)[x] = deck[w][x]
    BY <2>1, SwapPermutes
  <2>2. \A x \in 0 .. d[w] - 1 : x \in 0 .. n - 1 /\ x < d[w] /\ x < j
    BY <1>3
  <2> QED
    BY <2>2, <2>3, <1>4 DEF Shuffles
<1>6. Typed'
  <2>1. deck' \in [Workers -> [Cards -> Cards]]'
    BY <1>1, <1>2, <1>3, <1>4, <1>5 DEF DealInv, Typed, Cards
  <2>2. board' \in [Workers -> SUBSET Cards]'
    BY <1>1, <1>2, <1>3, <1>4 DEF DealInv, Typed, Cards
  <2>3. d' \in [Workers -> 0 .. ToDraw]'
    BY <1>3, <1>4 DEF DealInv, Typed, DealCard
  <2> QED
    BY <1>1, <1>2, <2>1, <2>2, <2>3 DEF DealInv, Typed, DealCard, Running, Trial, Cards
<1>7. Permuted'
  BY <1>1, <1>4, <1>5 DEF DealInv, Permuted, Cards
<1>8. Fronted'
  <2> SUFFICES ASSUME NEW u \in Workers
               PROVE  /\ pc'[u] # "deal" => d'[u] = 0 /\ board'[u] = {}
                      /\ d'[u] <= call.cards
                      /\ board'[u] = {deck'[u][k] : k \in 0 .. d'[u] - 1}
                      /\ board'[u] \cap Dead(u) = {}
                      /\ IsFiniteSet(board'[u]) /\ Cardinality(board'[u]) = d'[u]
    BY <1>1 DEF DealInv, Fronted, DealCard, Dead
  <2>1. CASE u # w
    BY <2>1, <1>4 DEF DealInv, Fronted, DealCard
  <2>2. CASE u = w
    <3>1. pc'[w] = "deal"
      BY DEF DealCard
    <3>2. board'[w] = {deck'[w][k] : k \in 0 .. d'[w] - 1}
      <4>1. board[w] = {deck'[w][k] : k \in 0 .. d[w] - 1}
        BY <1>3, <1>5 DEF DealInv, Fronted
      <4>2. 0 .. d'[w] - 1 = (0 .. d[w] - 1) \union {d[w]}
        BY <1>3, <1>4
      <4> QED
        BY <4>1, <4>2, <1>4, <1>5
    <3>3. deck[w][j] \notin board[w]
      <4>1. board[w] = {deck[w][k] : k \in 0 .. d[w] - 1}
        BY DEF DealInv, Fronted
      <4>2. \A k \in 0 .. d[w] - 1 : k \in 0 .. call.cards - 1 /\ k # j
        BY <1>3
      <4> QED
        BY <1>3, <4>1, <4>2
    <3>4. IsFiniteSet(board'[w]) /\ Cardinality(board'[w]) = d'[w]
      <4>1. IsFiniteSet(board[w]) /\ Cardinality(board[w]) = d[w]
        BY DEF DealInv, Fronted
      <4>2. IsFiniteSet(board[w] \union {deck[w][j]})
            /\ Cardinality(board[w] \union {deck[w][j]}) = Cardinality(board[w]) + 1
        BY <3>3, <4>1, FS_AddElement
      <4> QED
        BY <4>1, <4>2, <1>4
    <3>5. board'[w] \cap Dead(w) = {}
      BY <1>2, <1>4 DEF DealInv, Fronted
    <3> QED
      BY <2>2, <3>1, <3>2, <3>4, <3>5, <1>3, <1>4
  <2> QED
    BY <2>1, <2>2
<1>9. TrialsAreLegal'
  BY <1>1 DEF DealInv, TrialsAreLegal, DealCard
<1> QED
  BY <1>6, <1>7, <1>8, <1>9 DEF DealInv

(* What the showdown counts is a legal deal.                               *)
LEMMA ShowdownDeal ==
  ASSUME DealInv, NEW w \in Workers, Showdown(w)
  PROVE  DealInv'
<1>1. call' = call /\ Drawn(call.hero)' = Drawn(call.hero) /\ Drawn(call.villain)' = Drawn(call.villain)
  BY DEF Showdown, Drawn
<1> DEFINE k == chunk[w]
           x == [hand |-> hand[w], board |-> board[w]]
<1>2. k \in Chunks /\ pc[w] = "deal" /\ d[w] = ToDraw
  BY DEF DealInv, Typed, Showdown, Running
<1>3. /\ x \in Trial /\ x.hand.hero \cap x.hand.villain = {}
      /\ x.board \cap (x.hand.hero \union x.hand.villain) = {}
      /\ Cardinality(x.board) = ToDraw
  BY <1>2 DEF DealInv, Typed, Fronted, Trial, Dead
<1>4. trials' = [trials EXCEPT ![k] = Append(@, x)] /\ trials[k] \in Seq(Trial)
  BY <1>2 DEF DealInv, Typed, Showdown
<1>5. /\ Append(trials[k], x) \in Seq(Trial)
      /\ \A t \in DOMAIN Append(trials[k], x) :
           Append(trials[k], x)[t] = x \/ (t \in DOMAIN trials[k] /\ Append(trials[k], x)[t] = trials[k][t])
  BY <1>3, <1>4, AppendProperties
<1>6. trials' \in [Chunks -> Seq(Trial)]
  BY <1>2, <1>4, <1>5 DEF DealInv, Typed
<1>7. /\ pc' \in [Workers -> {"claim", "pair", "deal", "exit"}] /\ pc'[w] \in {"claim", "pair"}
      /\ \A u \in Workers : u # w => pc'[u] = pc[u]
  BY DEF DealInv, Typed, Showdown, Goto
<1>8. Typed'
  <2>1. \A u \in Workers : Running(u)' => chunk'[u] \in Chunks
    BY <1>2, <1>7 DEF DealInv, Typed, Showdown, Running
  <2>2. d' \in [Workers -> 0 .. ToDraw] /\ board' \in [Workers -> SUBSET Cards]
    BY SamplerAssumption DEF DealInv, Typed, Showdown
  <2>3. Trial' = Trial /\ Cards' = Cards
    BY <1>1 DEF Trial, Cards
  <2>4. DOMAIN rejections' = Workers /\ DOMAIN hand' = Workers /\ DOMAIN draws' = Chunks
        /\ chunk' = chunk /\ deck' = deck /\ next_chunk' = next_chunk
    BY DEF DealInv, Typed, Showdown
  <2> QED
    BY <1>1, <1>6, <1>7, <2>1, <2>2, <2>3, <2>4 DEF DealInv, Typed
<1>9. Permuted'
  BY <1>1 DEF DealInv, Permuted, Showdown, Cards
<1>10. Fronted'
  <2> SUFFICES ASSUME NEW u \in Workers
               PROVE  /\ pc'[u] # "deal" => d'[u] = 0 /\ board'[u] = {}
                      /\ pc'[u] = "deal" =>
                           /\ hand'[u] \in [hero : Drawn(call.hero), villain : Drawn(call.villain)]
                           /\ hand'[u].hero \cap hand'[u].villain = {}
                      /\ d'[u] <= call.cards
                      /\ board'[u] = {deck'[u][i] : i \in 0 .. d'[u] - 1}
                      /\ board'[u] \cap Dead(u)' = {}
                      /\ IsFiniteSet(board'[u]) /\ Cardinality(board'[u]) = d'[u]
    BY <1>1 DEF Fronted
  <2>1. CASE u # w
    BY <2>1, <1>7 DEF DealInv, Typed, Fronted, Showdown, Dead
  <2>2. CASE u = w
    <3>1. d'[w] = 0 /\ board'[w] = {}
      BY DEF DealInv, Typed, Showdown
    <3> QED
      BY <2>2, <3>1, <1>7, FS_EmptySet DEF DealInv, Typed
  <2> QED
    BY <2>1, <2>2
<1>11. TrialsAreLegal'
  BY <1>2, <1>3, <1>4, <1>5 DEF DealInv, Typed, TrialsAreLegal
<1> QED
  BY <1>8, <1>9, <1>10, <1>11 DEF DealInv

(* Every step keeps DealInv.                                               *)
LEMMA StepDeal ==
  ASSUME DealInv, [Next]_vars
  PROVE  DealInv'
<1>1. CASE UNCHANGED vars
  <2>1. Typed'
    <3>1. Trial' = Trial /\ Cards' = Cards /\ call' = call
      BY <1>1 DEF vars, Trial, Drawn, Cards
    <3>2. \A u \in Workers : Running(u)' => chunk'[u] \in Chunks
      BY <1>1 DEF vars, DealInv, Typed, Running
    <3> QED
      BY <1>1, <3>1, <3>2 DEF vars, DealInv, Typed
  <2>2. Permuted'
    BY <1>1 DEF vars, DealInv, Permuted, Cards
  <2>3. Fronted'
    BY <1>1 DEF vars, DealInv, Fronted, Drawn, Dead
  <2>4. TrialsAreLegal'
    BY <1>1 DEF vars, DealInv, TrialsAreLegal
  <2> QED
    BY <2>1, <2>2, <2>3, <2>4 DEF DealInv
<1>2. CASE \E w \in Workers : Step(w)
  BY <1>2, ClaimDeal, AcceptPairDeal, RejectPairDeal, DealCardDeal, ShowdownDeal DEF Step
<1> QED
  BY <1>1, <1>2 DEF Next

(* A trial that is counted is a legal deal, whatever order the trials      *)
(* before it left the deck in: sample_range_equity never puts a card of    *)
(* either hand on the board, nor a card twice, and the board is complete.  *)
THEOREM LegalTrials == Spec => []TrialsAreLegal
<1>1. Init => DealInv
  BY InitDeal
<1>2. DealInv /\ [Next]_vars => DealInv'
  BY StepDeal
<1>3. DealInv => TrialsAreLegal
  BY DEF DealInv
<1> QED
  BY <1>1, <1>2, <1>3, PTL DEF Spec

-----------------------------------------------------------------------------
(* What a chunk makes of its draws, without a worker: where it stands, as  *)
(* a record, after each of them. A trial that is dealt is counted at once. *)
Fresh(order) == [deck |-> order, mode |-> "pair", hand |-> NoPair, d |-> 0, board |-> {}, trials |-> <<>>]

(* The showdown.                                                           *)
Counted(s) ==
  [deck |-> s.deck, mode |-> "pair", hand |-> NoPair, d |-> 0, board |-> {},
   trials |-> Append(s.trials, [hand |-> s.hand, board |-> s.board])]

Settled(s) == IF s.mode = "deal" /\ s.d = ToDraw THEN Counted(s) ELSE s

(* A pair is accepted.                                                     *)
Paired(s, x) ==
  [deck |-> s.deck, mode |-> "deal", hand |-> [hero |-> x[1], villain |-> x[2]],
   d |-> s.d, board |-> s.board, trials |-> s.trials]

(* A board card is accepted.                                               *)
Dealt(s, j) ==
  [deck |-> Swap(s.deck, s.d, j), mode |-> "deal", hand |-> s.hand,
   d |-> s.d + 1, board |-> s.board \union {s.deck[j]}, trials |-> s.trials]

After(s, x) == Settled(IF s.mode = "pair" THEN Paired(s, x) ELSE Dealt(s, x))

(* "log" is where the draws lead, from a deck in the given order.          *)
IsReplay(log, ds, order) ==
  /\ DOMAIN log = 0 .. Len(ds)
  /\ log[0] = Fresh(order)
  /\ \A i \in 1 .. Len(ds) : log[i] = After(log[i - 1], ds[i])

EndsIn(ds, s, order) == \E log : IsReplay(log, ds, order) /\ log[Len(ds)] = s

(* Where worker w stands in its chunk.                                     *)
View(w) ==
  [deck |-> deck[w], mode |-> IF pc[w] = "deal" THEN "deal" ELSE "pair", hand |-> hand[w],
   d |-> d[w], board |-> board[w], trials |-> trials[chunk[w]]]

(* A draw that is accepted: a pair of combos, or a place in the deck.      *)
Draw == (Drawn(call.hero) \X Drawn(call.villain)) \union Nat

(* The inductive invariant of DrawsDecideTrials: each chunk is run by one  *)
(* worker at most, which stands where the chunk's draws lead, and the      *)
(* trials of a chunk that is done are those its draws lead to.             *)
ReplayInv ==
  /\ draws \in [Chunks -> Seq(Draw)]
  /\ \A w \in Workers : pc[w] # "deal" => hand[w] = NoPair
  /\ \A k \in Chunks : k >= next_chunk => draws[k] = <<>> /\ trials[k] = <<>>
  /\ \A w, u \in Workers : Running(w) /\ Running(u) /\ chunk[w] = chunk[u] => w = u
  /\ \A w \in Workers : Running(w) =>
       /\ chunk[w] < next_chunk
       /\ Len(trials[chunk[w]]) < ChunkSizes[chunk[w]]
       /\ EndsIn(draws[chunk[w]], Settled(View(w)), BaseDeck)
  /\ \A k \in Chunks : Done(k) => \E s : EndsIn(draws[k], s, BaseDeck) /\ s.trials = trials[k]

(* The draws decide what comes of them.                                    *)
LEMMA OneReplay ==
  ASSUME NEW ds, Len(ds) \in Nat, NEW order, NEW a, NEW b, IsReplay(a, ds, order), IsReplay(b, ds, order)
  PROVE  a[Len(ds)] = b[Len(ds)]
<1> DEFINE Wrong == {i \in 0 .. Len(ds) : a[i] # b[i]}
<1>1. SUFFICES ASSUME Wrong # {} PROVE FALSE
  OBVIOUS
<1>2. PICK i \in Wrong : \A j \in Wrong : i <= j
  <2>1. Wrong \subseteq Nat
    OBVIOUS
  <2> HIDE DEF Wrong
  <2> QED
    BY <1>1, <2>1, LeastNumber
<1>3. i # 0
  BY DEF IsReplay
<1>4. i - 1 \in 0 .. Len(ds) /\ i - 1 \notin Wrong /\ i \in 1 .. Len(ds)
  BY <1>2, <1>3
<1> QED
  BY <1>4 DEF IsReplay

(* One more draw.                                                          *)
LEMMA ReplayGoesOn ==
  ASSUME NEW S, NEW ds \in Seq(S), NEW x \in S, NEW s, NEW order, EndsIn(ds, s, order)
  PROVE  EndsIn(Append(ds, x), After(s, x), order)
<1>1. PICK log : IsReplay(log, ds, order) /\ log[Len(ds)] = s
  BY DEF EndsIn
<1> DEFINE n == Len(ds)
           longer == [i \in 0 .. n + 1 |-> IF i = n + 1 THEN After(s, x) ELSE log[i]]
<1>2. n \in Nat /\ Len(Append(ds, x)) = n + 1 /\ Append(ds, x)[n + 1] = x
      /\ \A i \in 1 .. n : Append(ds, x)[i] = ds[i]
  OBVIOUS
<1>3. IsReplay(longer, Append(ds, x), order)
  <2>1. DOMAIN longer = 0 .. Len(Append(ds, x)) /\ longer[0] = Fresh(order)
    BY <1>1, <1>2 DEF IsReplay
  <2>2. ASSUME NEW i \in 1 .. n + 1
        PROVE  longer[i] = After(longer[i - 1], Append(ds, x)[i])
    <3>1. CASE i = n + 1
      BY <3>1, <1>1, <1>2
    <3>2. CASE i # n + 1
      BY <3>2, <1>1, <1>2 DEF IsReplay
    <3> QED
      BY <3>1, <3>2
  <2> QED
    BY <2>1, <2>2, <1>2 DEF IsReplay
<1> QED
  BY <1>2, <1>3 DEF EndsIn

(* One lemma per action: it preserves ReplayInv.                           *)
LEMMA InitReplay == Init => ReplayInv
<1> SUFFICES ASSUME Init PROVE ReplayInv
  OBVIOUS
<1>1. draws \in [Chunks -> Seq(Draw)]
  BY EmptySeq DEF Init
<1>2. \A k \in Chunks : ~Done(k)
  BY SamplerAssumption DEF Init, Done, Chunks
<1> QED
  BY <1>1, <1>2 DEF Init, ReplayInv, Running

(* A step of one running worker leaves every other worker's view and every *)
(* other chunk alone.                                                      *)
LEMMA OthersReplay ==
  ASSUME DealInv, ReplayInv, NEW w \in Workers, Running(w),
         call' = call, chunk' = chunk, next_chunk' = next_chunk,
         \A u \in Workers : u # w =>
           /\ pc'[u] = pc[u] /\ deck'[u] = deck[u] /\ hand'[u] = hand[u]
           /\ d'[u] = d[u] /\ board'[u] = board[u],
         \A k \in Chunks : k # chunk[w] => draws'[k] = draws[k] /\ trials'[k] = trials[k],
         draws' \in [Chunks -> Seq(Draw)],
         pc'[w] # "deal" => hand'[w] = NoPair,
         Running(w)' =>
           /\ Len(trials'[chunk[w]]) < ChunkSizes[chunk[w]]
           /\ EndsIn(draws'[chunk[w]], Settled(View(w)'), BaseDeck),
         Len(trials'[chunk[w]]) = ChunkSizes[chunk[w]] =>
           \E s : EndsIn(draws'[chunk[w]], s, BaseDeck) /\ s.trials = trials'[chunk[w]]
  PROVE  ReplayInv'
<1>1. BaseDeck' = BaseDeck /\ Draw' = Draw
  BY DEF BaseDeck, Cards, Draw, Drawn
<1>2. chunk[w] \in Chunks /\ chunk[w] < next_chunk
  BY DEF DealInv, Typed, ReplayInv
<1>3. ASSUME NEW k \in Chunks, k >= next_chunk'
      PROVE  draws'[k] = <<>> /\ trials'[k] = <<>>
  BY <1>2, <1>3, ChunksAre DEF DealInv, Typed, ReplayInv
<1>4. ASSUME NEW v \in Workers, NEW u \in Workers, Running(v)', Running(u)', chunk'[v] = chunk'[u]
      PROVE  v = u
  BY <1>4 DEF ReplayInv, Running
<1>5. ASSUME NEW u \in Workers, Running(u)'
      PROVE  /\ chunk'[u] < next_chunk'
             /\ Len(trials'[chunk'[u]]) < ChunkSizes[chunk'[u]]
             /\ EndsIn(draws'[chunk'[u]], Settled(View(u)'), BaseDeck')
  <2>1. CASE u = w
    BY <2>1, <1>1, <1>2, <1>5
  <2>2. CASE u # w
    <3>1. Running(u) /\ chunk[u] \in Chunks /\ chunk[u] # chunk[w]
      BY <2>2, <1>5 DEF Running, ReplayInv, DealInv, Typed
    <3>2. View(u)' = View(u)
      BY <2>2, <3>1 DEF View
    <3> QED
      BY <3>1, <3>2, <1>1 DEF ReplayInv
  <2> QED
    BY <2>1, <2>2
<1>6. ASSUME NEW k \in Chunks, Done(k)'
      PROVE  \E s : EndsIn(draws'[k], s, BaseDeck') /\ s.trials = trials'[k]
  <2>1. CASE k = chunk[w]
    BY <2>1, <1>1, <1>6 DEF Done
  <2>2. CASE k # chunk[w]
    <3>1. draws'[k] = draws[k] /\ trials'[k] = trials[k] /\ Done(k)
      BY <2>2, <1>6 DEF Done
    <3> QED
      BY <3>1, <1>1 DEF ReplayInv
  <2> QED
    BY <2>1, <2>2
<1>7. \A u \in Workers : pc'[u] # "deal" => hand'[u] = NoPair
  BY DEF ReplayInv
<1> QED
  BY <1>1, <1>3, <1>4, <1>5, <1>6, <1>7 DEF ReplayInv

(* A claimed chunk has had no draw.                                        *)
LEMMA ClaimReplay ==
  ASSUME DealInv, ReplayInv, NEW w \in Workers, Claim(w)
  PROVE  ReplayInv'
<1>1. /\ BaseDeck' = BaseDeck /\ Draw' = Draw /\ draws' = draws /\ trials' = trials
      /\ hand' = hand /\ d' = d /\ board' = board
  BY DEF Claim, BaseDeck, Cards, Draw, Drawn
<1>2. /\ pc \in [Workers -> {"claim", "pair", "deal", "exit"}] /\ pc[w] = "claim"
      /\ chunk \in [Workers -> Chunks \union {0}] /\ DOMAIN deck = Workers
      /\ next_chunk \in Nat \ {0}
  BY DEF DealInv, Typed, Claim
<1>3. CASE next_chunk \notin Chunks
  <2>1. /\ pc' = [pc EXCEPT ![w] = "exit"] /\ next_chunk' = next_chunk /\ chunk' = chunk /\ deck' = deck
    BY <1>3 DEF Claim, Goto
  <2>2. \A u \in Workers : Running(u)' <=> Running(u)
    BY <2>1, <1>2 DEF Running
  <2>3. \A u \in Workers : Running(u) => View(u)' = View(u)
    BY <2>1, <1>1, <1>2 DEF Running, View
  <2>4. \A u \in Workers : pc'[u] # "deal" => hand'[u] = NoPair
    BY <2>1, <1>1, <1>2 DEF ReplayInv
  <2> QED
    BY <2>1, <2>2, <2>3, <2>4, <1>1 DEF ReplayInv, Done
<1>4. CASE next_chunk \in Chunks
  <2> DEFINE k == next_chunk
  <2>1. /\ pc' = [pc EXCEPT ![w] = "pair"] /\ next_chunk' = k + 1
        /\ chunk' = [chunk EXCEPT ![w] = k] /\ deck' = [deck EXCEPT ![w] = BaseDeck]
    BY <1>4 DEF Claim, Goto
  <2>2. draws[k] = <<>> /\ trials[k] = <<>> /\ hand[w] = NoPair /\ d[w] = 0 /\ board[w] = {}
    BY <1>2, <1>4 DEF ReplayInv, DealInv, Fronted
  <2>3. pc'[w] = "pair" /\ chunk'[w] = k /\ deck'[w] = BaseDeck
    BY <2>1, <1>2
  <2>4. \A u \in Workers : u # w => pc'[u] = pc[u] /\ chunk'[u] = chunk[u] /\ deck'[u] = deck[u]
    BY <2>1, <1>2
  <2>5. Settled(View(w)') = Fresh(BaseDeck)
    BY <2>2, <2>3, <1>1 DEF View, Settled, Fresh
  <2>6. EndsIn(draws[k], Fresh(BaseDeck), BaseDeck)
    <3>1. IsReplay([i \in 0 .. 0 |-> Fresh(BaseDeck)], draws[k], BaseDeck)
      BY <2>2 DEF IsReplay
    <3> QED
      BY <3>1, <2>2 DEF EndsIn
  <2>7. \A u \in Workers : u # w /\ Running(u)' =>
          Running(u) /\ chunk[u] < k /\ View(u)' = View(u)
    BY <2>4, <1>1 DEF Running, View, ReplayInv
  <2>8. ASSUME NEW v \in Workers, NEW u \in Workers, Running(v)', Running(u)', chunk'[v] = chunk'[u]
        PROVE  v = u
    <3>1. \A z \in Workers : z # w /\ Running(z)' => chunk'[z] # k
      BY <2>4, <2>7, <1>2, <1>4, ChunksAre
    <3> QED
      BY <2>3, <2>4, <2>7, <2>8, <3>1 DEF ReplayInv
  <2>9. ASSUME NEW u \in Workers, Running(u)'
        PROVE  /\ chunk'[u] < next_chunk'
               /\ Len(trials'[chunk'[u]]) < ChunkSizes[chunk'[u]]
               /\ EndsIn(draws'[chunk'[u]], Settled(View(u)'), BaseDeck')
    <3>1. CASE u = w
      <4>1. Len(trials'[k]) < ChunkSizes[k]
        BY <1>1, <1>4, <2>2, SamplerAssumption DEF Chunks
      <4> QED
        BY <3>1, <4>1, <2>1, <2>3, <2>5, <2>6, <1>1, <1>2
    <3>2. CASE u # w
      <4>1. /\ chunk'[u] = chunk[u] /\ chunk[u] \in Chunks /\ chunk[u] < k
            /\ Running(u) /\ View(u)' = View(u)
        BY <3>2, <2>4, <2>7, <2>9 DEF DealInv, Typed
      <4>2. chunk[u] < next_chunk'
        BY <4>1, <2>1, <1>2, ChunksAre
      <4> QED
        BY <4>1, <4>2, <1>1 DEF ReplayInv
    <3> QED
      BY <3>1, <3>2
  <2>10. ASSUME NEW l \in Chunks, l >= next_chunk'
         PROVE  draws'[l] = <<>> /\ trials'[l] = <<>>
    BY <2>1, <2>10, <1>1, <1>2, ChunksAre DEF ReplayInv
  <2>11. \A u \in Workers : pc'[u] # "deal" => hand'[u] = NoPair
    BY <2>2, <2>4, <1>1 DEF ReplayInv
  <2> QED
    BY <2>8, <2>9, <2>10, <2>11, <1>1 DEF ReplayInv, Done
<1> QED
  BY <1>3, <1>4

(* An accepted pair is one more draw of its chunk.                         *)
LEMMA AcceptPairReplay ==
  ASSUME DealInv, ReplayInv, NEW w \in Workers, AcceptPair(w)
  PROVE  ReplayInv'
<1> DEFINE k == chunk[w]
<1>1. PICK h \in Drawn(call.hero), v \in Drawn(call.villain) :
        /\ hand' = [hand EXCEPT ![w] = [hero |-> h, villain |-> v]]
        /\ draws' = [draws EXCEPT ![k] = Append(@, <<h, v>>)]
  BY DEF AcceptPair
<1>2. pc[w] = "pair" /\ Running(w) /\ k \in Chunks /\ <<h, v>> \in Draw /\ draws[k] \in Seq(Draw)
  BY DEF AcceptPair, Running, DealInv, Typed, Draw, ReplayInv
<1>3. /\ pc'[w] = "deal" /\ hand'[w] = [hero |-> h, villain |-> v]
      /\ \A u \in Workers : u # w => pc'[u] = pc[u] /\ hand'[u] = hand[u]
      /\ draws'[k] = Append(draws[k], <<h, v>>)
      /\ \A l \in Chunks : l # k => draws'[l] = draws[l]
      /\ draws' \in [Chunks -> Seq(Draw)]
  BY <1>1, <1>2, AppendProperties DEF AcceptPair, Goto, DealInv, Typed, ReplayInv
<1>4. /\ call' = call /\ chunk' = chunk /\ next_chunk' = next_chunk /\ deck' = deck /\ d' = d
      /\ board' = board /\ trials' = trials
  BY DEF AcceptPair
<1>5. Settled(View(w)) = View(w) /\ Settled(View(w)') = After(View(w), <<h, v>>)
  <2>1. View(w)' = Paired(View(w), <<h, v>>)
    BY <1>2, <1>3, <1>4 DEF View, Paired
  <2> QED
    BY <2>1, <1>2 DEF Settled, After, View
<1>6. /\ Len(trials[k]) < ChunkSizes[k]
      /\ EndsIn(draws'[k], Settled(View(w)'), BaseDeck)
  BY <1>2, <1>3, <1>5, ReplayGoesOn DEF ReplayInv
<1>7. Len(trials[k]) # ChunkSizes[k]
  BY <1>2, <1>6, SamplerAssumption DEF DealInv, Typed, Chunks
<1> QED
  BY <1>2, <1>3, <1>4, <1>6, <1>7, OthersReplay

(* A rejected pair is no draw.                                             *)
LEMMA RejectPairReplay ==
  ASSUME DealInv, ReplayInv, NEW w \in Workers, RejectPair(w)
  PROVE  ReplayInv'
<1> DEFINE k == chunk[w]
<1>1. /\ call' = call /\ chunk' = chunk /\ next_chunk' = next_chunk /\ deck' = deck /\ d' = d
      /\ board' = board /\ trials' = trials /\ draws' = draws /\ hand' = hand
  BY DEF RejectPair
<1>2. pc[w] = "pair" /\ Running(w) /\ k \in Chunks /\ Len(trials[k]) < ChunkSizes[k]
  BY DEF RejectPair, Running, DealInv, Typed, ReplayInv
<1>3. pc'[w] \in {"pair", "exit"} /\ \A u \in Workers : u # w => pc'[u] = pc[u]
  BY DEF RejectPair, Goto, DealInv, Typed
<1>4. View(w)' = View(w)
  BY <1>1, <1>2, <1>3 DEF View
<1>5. EndsIn(draws'[k], Settled(View(w)'), BaseDeck) /\ hand'[w] = NoPair
  BY <1>1, <1>2, <1>4 DEF ReplayInv
<1>6. Len(trials[k]) # ChunkSizes[k] /\ draws' \in [Chunks -> Seq(Draw)]
  BY <1>1, <1>2, SamplerAssumption DEF DealInv, Typed, Chunks, ReplayInv
<1> QED
  BY <1>1, <1>2, <1>3, <1>5, <1>6, OthersReplay

(* A dealt card is one more draw, and a board it completes is settled at   *)
(* once.                                                                   *)
LEMMA DealCardReplay ==
  ASSUME DealInv, ReplayInv, NEW w \in Workers, DealCard(w)
  PROVE  ReplayInv'
<1> DEFINE k == chunk[w]
<1>1. PICK j \in Positions(d[w]) :
        /\ deck' = [deck EXCEPT ![w] = Swap(@, d[w], j)]
        /\ board' = [board EXCEPT ![w] = @ \union {deck[w][j]}]
        /\ draws' = [draws EXCEPT ![k] = Append(@, j)]
  BY DEF DealCard
<1>2. /\ pc[w] = "deal" /\ d[w] < ToDraw /\ Running(w) /\ k \in Chunks /\ j \in Draw
      /\ draws[k] \in Seq(Draw)
  BY DEF DealCard, Running, DealInv, Typed, Draw, ReplayInv, Positions
<1>3. /\ deck'[w] = Swap(deck[w], d[w], j) /\ board'[w] = board[w] \union {deck[w][j]}
      /\ d'[w] = d[w] + 1
      /\ \A u \in Workers : u # w => deck'[u] = deck[u] /\ board'[u] = board[u] /\ d'[u] = d[u]
  BY <1>1 DEF DealCard, DealInv, Typed
<1>4. /\ draws'[k] = Append(draws[k], j)
      /\ \A l \in Chunks : l # k => draws'[l] = draws[l]
      /\ draws' \in [Chunks -> Seq(Draw)]
  BY <1>1, <1>2, AppendProperties DEF ReplayInv
<1>5. /\ call' = call /\ chunk' = chunk /\ next_chunk' = next_chunk /\ pc' = pc /\ hand' = hand
      /\ trials' = trials
  BY DEF DealCard
<1>6. Settled(View(w)) = View(w) /\ Settled(View(w)') = After(View(w), j)
  <2>1. View(w)' = Dealt(View(w), j)
    BY <1>2, <1>3, <1>5 DEF View, Dealt
  <2>2. d[w] # ToDraw
    BY <1>2, SamplerAssumption DEF DealInv, Typed
  <2> QED
    BY <2>1, <2>2, <1>2 DEF Settled, After, View
<1>7. /\ Len(trials[k]) < ChunkSizes[k]
      /\ EndsIn(draws'[k], Settled(View(w)'), BaseDeck)
  BY <1>2, <1>4, <1>6, ReplayGoesOn DEF ReplayInv
<1>8. Len(trials[k]) # ChunkSizes[k]
  BY <1>2, <1>7, SamplerAssumption DEF DealInv, Typed, Chunks
<1> QED
  BY <1>2, <1>3, <1>4, <1>5, <1>7, <1>8, OthersReplay

(* The showdown leads where the last draw already led.                     *)
LEMMA ShowdownReplay ==
  ASSUME DealInv, ReplayInv, NEW w \in Workers, Showdown(w)
  PROVE  ReplayInv'
<1> DEFINE k == chunk[w]
           x == [hand |-> hand[w], board |-> board[w]]
<1>1. /\ pc[w] = "deal" /\ d[w] = ToDraw /\ Running(w) /\ k \in Chunks
      /\ Len(trials[k]) < ChunkSizes[k] /\ trials[k] \in Seq(Trial) /\ ChunkSizes[k] \in Nat
  <2>1. pc[w] = "deal" /\ d[w] = ToDraw /\ Running(w) /\ k \in Chunks
    BY DEF Showdown, Running, DealInv, Typed
  <2>2. Len(trials[k]) < ChunkSizes[k] /\ trials[k] \in Seq(Trial)
    BY <2>1 DEF DealInv, Typed, ReplayInv
  <2>3. ChunkSizes[k] \in Nat
    BY <2>1, SamplerAssumption DEF Chunks
  <2> QED
    BY <2>1, <2>2, <2>3
<1>2. /\ call' = call /\ chunk' = chunk /\ next_chunk' = next_chunk /\ deck' = deck /\ draws' = draws
  BY DEF Showdown
<1>3. /\ trials'[k] = Append(trials[k], x)
      /\ \A l \in Chunks : l # k => trials'[l] = trials[l]
  BY <1>1 DEF Showdown, DealInv, Typed
<1>4. /\ hand'[w] = NoPair /\ d'[w] = 0 /\ board'[w] = {}
      /\ \A u \in Workers : u # w => hand'[u] = hand[u] /\ d'[u] = d[u] /\ board'[u] = board[u]
  BY DEF Showdown, DealInv, Typed
<1>5. /\ pc'[w] = IF Len(trials'[k]) = ChunkSizes[k] THEN "claim" ELSE "pair"
      /\ \A u \in Workers : u # w => pc'[u] = pc[u]
  BY DEF Showdown, Goto, DealInv, Typed
<1>6. Settled(View(w)) = View(w)' /\ Settled(View(w)') = View(w)'
  BY <1>1, <1>2, <1>3, <1>4, <1>5 DEF View, Settled, Counted
<1>7. EndsIn(draws'[k], View(w)', BaseDeck)
  BY <1>1, <1>2, <1>6 DEF ReplayInv
<1>8. (View(w)').trials = trials'[k]
  BY <1>2 DEF View
<1>9. Len(trials'[k]) = Len(trials[k]) + 1
  <2>1. x \in [hand : {hand[w]}, board : {board[w]}]
    OBVIOUS
  <2> QED
    BY <1>1, <1>3, LenProperties
<1>10. Running(w)' => Len(trials'[k]) < ChunkSizes[k]
  <2>1. Len(trials[k]) \in Nat
    BY <1>1
  <2> QED
    BY <2>1, <1>1, <1>5, <1>9 DEF Running
<1>11. draws' \in [Chunks -> Seq(Draw)]
  BY <1>2 DEF ReplayInv
<1> QED
  BY <1>1, <1>2, <1>3, <1>4, <1>5, <1>6, <1>7, <1>8, <1>10, <1>11, OthersReplay

(* Every step keeps ReplayInv.                                             *)
LEMMA StepReplay ==
  ASSUME DealInv, ReplayInv, [Next]_vars
  PROVE  ReplayInv'
<1>1. CASE UNCHANGED vars
  <2>1. /\ BaseDeck' = BaseDeck /\ Draw' = Draw
        /\ \A w \in Workers : View(w)' = View(w) /\ (Running(w)' <=> Running(w))
        /\ \A k \in Chunks : Done(k)' <=> Done(k)
    BY <1>1 DEF vars, BaseDeck, Cards, Draw, Drawn, View, Running, Done
  <2> QED
    BY <1>1, <2>1 DEF vars, ReplayInv
<1>2. CASE \E w \in Workers : Step(w)
  BY <1>2, ClaimReplay, AcceptPairReplay, RejectPairReplay, DealCardReplay, ShowdownReplay DEF Step
<1> QED
  BY <1>1, <1>2 DEF Next

(* Two chunks with the same accepted draws count the same trials,          *)
(* whichever workers ran them and after which chunks: no deck order, hand  *)
(* or board of an earlier chunk reaches a later one, so that the result of *)
(* sample_range_equity depends on the seed of each chunk alone.            *)
THEOREM DrawsDecideTrials == Spec => []SameDrawsSameTrials
<1>1. Init => DealInv /\ ReplayInv
  BY InitDeal, InitReplay
<1>2. DealInv /\ ReplayInv /\ [Next]_vars => (DealInv /\ ReplayInv)'
  BY StepDeal, StepReplay
<1>3. DealInv /\ ReplayInv => SameDrawsSameTrials
  <2> SUFFICES ASSUME DealInv, ReplayInv, NEW k \in Chunks, NEW l \in Chunks,
                      Done(k), Done(l), draws[k] = draws[l]
               PROVE  trials[k] = trials[l]
    BY DEF SameDrawsSameTrials
  <2>1. PICK s : EndsIn(draws[k], s, BaseDeck) /\ s.trials = trials[k]
    BY DEF ReplayInv
  <2>2. PICK t : EndsIn(draws[k], t, BaseDeck) /\ t.trials = trials[l]
    BY DEF ReplayInv
  <2>3. Len(draws[k]) \in Nat
    BY DEF ReplayInv
  <2>4. s = t
    BY <2>1, <2>2, <2>3, OneReplay DEF EndsIn
  <2> QED
    BY <2>1, <2>2, <2>4
<1> QED
  BY <1>1, <1>2, <1>3, PTL DEF Spec

-----------------------------------------------------------------------------
(* The tables a picker of n entries passes through.                        *)
Tables(n) ==
  [scaled : [1 .. n -> Nat], prob : [1 .. n -> Int], alias : [1 .. n -> 1 .. n],
   work : [1 .. n -> Int], small_top : Int, large_bot : Int]

(* The places of the work list that hold an entry, and the entries.        *)
Slots(t, n) == (1 .. t.small_top) \union (t.large_bot + 1 .. n)
OnStack(t, n) == {t.work[i] : i \in Slots(t, n)}

(* No entry is on a stack twice, the small ones are short of one and the   *)
(* large ones are not.                                                     *)
Stacked(t, n, one) ==
  /\ t.small_top \in 0 .. n /\ t.large_bot \in 0 .. n /\ t.small_top <= t.large_bot
  /\ \A i \in Slots(t, n) : t.work[i] \in 1 .. n
  /\ \A i, j \in Slots(t, n) : t.work[i] = t.work[j] => i = j
  /\ \A i \in 1 .. t.small_top : t.scaled[t.work[i]] < one
  /\ \A i \in t.large_bot + 1 .. n : t.scaled[t.work[i]] >= one

(* The coins of each bucket that pick k.                                   *)
Share(t, n, one, k) ==
  [b \in 1 .. n |-> (IF b = k THEN t.prob[b] ELSE 0)
                      + (IF t.alias[b] = k THEN one - t.prob[b] ELSE 0)]

(* What an entry that is still on a stack has over the bucket it fills.    *)
Excess(t, n, one) == [k \in 1 .. n |-> IF k \in OnStack(t, n) THEN t.scaled[k] - one ELSE 0]

(* The invariant of the construction: an entry owns its share once what it *)
(* has left over is counted in, and the leftovers add up to nothing.       *)
Balanced(t, w) ==
  LET n == Len(w)
      one == One(w)
  IN  /\ t \in Tables(n)
      /\ Stacked(t, n, one)
      /\ \A k \in 1 .. n : t.prob[k] \in 0 .. one
      /\ \A k \in OnStack(t, n) : t.prob[k] = one /\ t.alias[k] = k
      /\ \A k \in 1 .. n : SumOn(Share(t, n, one, k), 1 .. n) + Excess(t, n, one)[k] = n * w[k]
      /\ SumOn(Excess(t, n, one), 1 .. n) = 0

(* The sum of the weights.                                                 *)
LEMMA OneIs ==
  ASSUME NEW w \in Seq(Nat \ {0})
  PROVE  /\ Len(w) \in Nat /\ DOMAIN w = 1 .. Len(w) /\ w \in [1 .. Len(w) -> Nat \ {0}]
         /\ IsFiniteSet(1 .. Len(w)) /\ Cardinality(1 .. Len(w)) = Len(w)
         /\ One(w) = SumOn(w, 1 .. Len(w))
         /\ One(w) \in Nat
<1>1. Len(w) \in Nat /\ DOMAIN w = 1 .. Len(w) /\ w \in [1 .. Len(w) -> Nat \ {0}]
  BY LenProperties
<1>2. IsFiniteSet(1 .. Len(w)) /\ Cardinality(1 .. Len(w)) = Len(w)
  <2> DEFINE n == Len(w)
  <2>1. n \in Nat /\ n \in Int /\ 1 \in Int
    BY <1>1
  <2> HIDE DEF n
  <2>2. IsFiniteSet(1 .. n) /\ Cardinality(1 .. n) = IF 1 > n THEN 0 ELSE n - 1 + 1
    BY <2>1, FS_Interval
  <2> QED
    BY <2>1, <2>2 DEF n
<1>3. One(w) = SumOn(w, DOMAIN w)
  BY DEF One, MapThenSumSet, MapThenFoldSet, SumOn, IsSum, Some
<1> DEFINE zero == [k \in 1 .. Len(w) |-> 0]
<1>4. SumOn(zero, 1 .. Len(w)) = 0 /\ SumOn(w, 1 .. Len(w)) \in Int
  <2>1. (\A k \in 1 .. Len(w) : zero[k] = 0) /\ \A k \in 1 .. Len(w) : w[k] \in Int
    BY <1>1
  <2> HIDE DEF zero
  <2> QED
    BY <2>1, <1>2, SumOnZero, SumOnIs
<1>5. SumOn(zero, 1 .. Len(w)) <= SumOn(w, 1 .. Len(w))
  <2>1. \A k \in 1 .. Len(w) : zero[k] \in Int /\ w[k] \in Int /\ zero[k] <= w[k]
    BY <1>1
  <2> HIDE DEF zero
  <2> QED
    BY <2>1, <1>2, SumOnAtMost
<1> HIDE DEF zero
<1> QED
  BY <1>1, <1>2, <1>3, <1>4, <1>5

(* The table before any entry is on a stack.                               *)
LEMMA UnpairedIs ==
  ASSUME NEW w \in Seq(Nat \ {0})
  PROVE  /\ Unpaired(w) \in Tables(Len(w))
         /\ Unpaired(w).small_top = 0 /\ Unpaired(w).large_bot = Len(w)
         /\ \A k \in 1 .. Len(w) : /\ Unpaired(w).scaled[k] = Len(w) * w[k]
                                   /\ Unpaired(w).prob[k] = One(w)
                                   /\ Unpaired(w).alias[k] = k
<1> DEFINE n == Len(w)
           one == One(w)
<1>1. n \in Nat /\ DOMAIN w = 1 .. n /\ w \in [1 .. n -> Nat \ {0}] /\ one \in Nat
  BY OneIs
<1> HIDE DEF n, one
<1> DEFINE sc == [k \in 1 .. n |-> n * w[k]]
           pr == [k \in 1 .. n |-> one]
           al == [k \in 1 .. n |-> k]
           wo == [k \in 1 .. n |-> 0]
<1>2. sc \in [1 .. n -> Nat] /\ pr \in [1 .. n -> Int] /\ al \in [1 .. n -> 1 .. n] /\ wo \in [1 .. n -> Int]
  BY <1>1
<1>3. sc \in Seq(Nat) /\ pr \in Seq(Int) /\ al \in Seq(1 .. n) /\ wo \in Seq(Int)
  BY <1>1
<1>4. << >> \o sc = sc /\ << >> \o pr = pr /\ << >> \o al = al /\ << >> \o wo = wo
  <2> HIDE DEF sc, pr, al, wo
  <2> QED
    BY <1>3, ConcatEmptySeq
<1>5. Unpaired(w) = [scaled |-> sc, prob |-> pr, alias |-> al, work |-> wo, small_top |-> 0, large_bot |-> n]
  BY <1>1, <1>4 DEF Unpaired, n, one
<1>6. 0 \in Int /\ n \in Int
  BY <1>1
<1>7. Unpaired(w) \in Tables(n)
  <2> DEFINE A == [1 .. n -> Nat]
             B == [1 .. n -> Int]
             C == [1 .. n -> 1 .. n]
  <2>1. Tables(n) = [scaled : A, prob : B, alias : C, work : B, small_top : Int, large_bot : Int]
    BY DEF Tables
  <2>2. sc \in A /\ pr \in B /\ al \in C /\ wo \in B
    BY <1>2
  <2> HIDE DEF sc, pr, al, wo, A, B, C
  <2> QED
    BY <2>1, <2>2, <1>5, <1>6
<1>8. \A k \in 1 .. n : sc[k] = n * w[k] /\ pr[k] = one /\ al[k] = k
  OBVIOUS
<1> HIDE DEF sc, pr, al, wo
<1> QED
  BY <1>5, <1>7, <1>8 DEF n, one

(* What a push writes.                                                     *)
LEMMA PushIs ==
  ASSUME NEW n \in Nat, NEW t \in Tables(n), NEW k \in 1 .. n
  PROVE  /\ PushSmall(t, k) \in Tables(n) /\ PushLarge(t, k) \in Tables(n)
         /\ PushSmall(t, k).scaled = t.scaled /\ PushLarge(t, k).scaled = t.scaled
         /\ PushSmall(t, k).prob = t.prob /\ PushLarge(t, k).prob = t.prob
         /\ PushSmall(t, k).alias = t.alias /\ PushLarge(t, k).alias = t.alias
         /\ PushSmall(t, k).small_top = t.small_top + 1 /\ PushSmall(t, k).large_bot = t.large_bot
         /\ PushLarge(t, k).small_top = t.small_top /\ PushLarge(t, k).large_bot = t.large_bot - 1
         /\ \A i \in 1 .. n :
              /\ PushSmall(t, k).work[i] = IF i = t.small_top + 1 THEN k ELSE t.work[i]
              /\ PushLarge(t, k).work[i] = IF i = t.large_bot THEN k ELSE t.work[i]
<1> DEFINE A == [1 .. n -> Nat]
           B == [1 .. n -> Int]
           C == [1 .. n -> 1 .. n]
           a == [t.work EXCEPT ![t.small_top + 1] = k]
           b == [t.work EXCEPT ![t.large_bot] = k]
<1>1. Tables(n) = [scaled : A, prob : B, alias : C, work : B, small_top : Int, large_bot : Int]
  BY DEF Tables
<1>2. t.work \in [1 .. n -> Int] /\ t.small_top \in Int /\ t.large_bot \in Int
  BY DEF Tables
<1>3. a \in B /\ b \in B
  <2> DEFINE v == t.work
             x == t.small_top + 1
             y == t.large_bot
  <2>1. v \in [1 .. n -> Int] /\ k \in Int
    BY <1>2
  <2> HIDE DEF v, x, y
  <2>2. [v EXCEPT ![x] = k] \in [1 .. n -> Int] /\ [v EXCEPT ![y] = k] \in [1 .. n -> Int]
    BY <2>1
  <2> QED
    BY <2>2 DEF v, x, y
<1>4. \A i \in 1 .. n : /\ a[i] = IF i = t.small_top + 1 THEN k ELSE t.work[i]
                        /\ b[i] = IF i = t.large_bot THEN k ELSE t.work[i]
  <2> DEFINE v == t.work
             x == t.small_top + 1
             y == t.large_bot
  <2>1. DOMAIN v = 1 .. n
    BY <1>2
  <2>2. a = [v EXCEPT ![x] = k] /\ b = [v EXCEPT ![y] = k]
    OBVIOUS
  <2> HIDE DEF v, x, y
  <2>3. \A i \in 1 .. n : /\ [v EXCEPT ![x] = k][i] = IF i = x THEN k ELSE v[i]
                          /\ [v EXCEPT ![y] = k][i] = IF i = y THEN k ELSE v[i]
    BY <2>1
  <2> HIDE DEF a, b
  <2> QED
    BY <2>2, <2>3 DEF v, x, y
<1>5. PushSmall(t, k) = [t EXCEPT !.work = a, !.small_top = t.small_top + 1]
  <2> HIDE DEF A, B, C
  <2> QED
    BY <1>1 DEF PushSmall
<1>6. PushLarge(t, k) = [t EXCEPT !.work = b, !.large_bot = t.large_bot - 1]
  <2> HIDE DEF A, B, C
  <2> QED
    BY <1>1 DEF PushLarge
<1>7. t.small_top + 1 \in Int /\ t.large_bot - 1 \in Int
  BY <1>2
<1> HIDE DEF A, B, C, a, b
<1>8. PushSmall(t, k) \in Tables(n) /\ PushLarge(t, k) \in Tables(n)
  BY <1>1, <1>3, <1>5, <1>6, <1>7
<1>9. /\ PushSmall(t, k).work = a /\ PushLarge(t, k).work = b
      /\ PushSmall(t, k).small_top = t.small_top + 1 /\ PushSmall(t, k).large_bot = t.large_bot
      /\ PushLarge(t, k).small_top = t.small_top /\ PushLarge(t, k).large_bot = t.large_bot - 1
      /\ PushSmall(t, k).scaled = t.scaled /\ PushLarge(t, k).scaled = t.scaled
      /\ PushSmall(t, k).prob = t.prob /\ PushLarge(t, k).prob = t.prob
      /\ PushSmall(t, k).alias = t.alias /\ PushLarge(t, k).alias = t.alias
  BY <1>1, <1>5, <1>6
<1> QED
  BY <1>4, <1>8, <1>9

(* The same of any table at once.                                          *)
LEMMA AnyPushSmall ==
  ASSUME NEW n \in Nat, NEW l \in 1 .. n
  PROVE  \A x \in Tables(n) :
           /\ PushSmall(x, l) \in Tables(n)
           /\ PushSmall(x, l).scaled = x.scaled
           /\ PushSmall(x, l).prob = x.prob
           /\ PushSmall(x, l).alias = x.alias
           /\ PushSmall(x, l).small_top = x.small_top + 1
           /\ PushSmall(x, l).large_bot = x.large_bot
           /\ \A i \in 1 .. n : PushSmall(x, l).work[i] = IF i = x.small_top + 1 THEN l ELSE x.work[i]
<1> TAKE x \in Tables(n)
<1> QED
  BY PushIs

(* An entry that is on neither stack is pushed on the one it belongs to.   *)
LEMMA PushStacks ==
  ASSUME NEW n \in Nat, NEW one \in Nat, NEW t \in Tables(n), NEW k \in 1 .. n,
         Stacked(t, n, one), k \notin OnStack(t, n), t.small_top < t.large_bot
  PROVE  /\ t.scaled[k] < one =>
              /\ Stacked(PushSmall(t, k), n, one)
              /\ OnStack(PushSmall(t, k), n) = OnStack(t, n) \union {k}
         /\ t.scaled[k] >= one =>
              /\ Stacked(PushLarge(t, k), n, one)
              /\ OnStack(PushLarge(t, k), n) = OnStack(t, n) \union {k}
<1>1. t.small_top \in 0 .. n /\ t.large_bot \in 0 .. n
  BY DEF Stacked
<1>2. ASSUME NEW u, NEW e \in 1 .. n, e \notin Slots(t, n), u.scaled = t.scaled,
             \A i \in 1 .. n : u.work[i] = IF i = e THEN k ELSE t.work[i],
             Slots(u, n) = Slots(t, n) \union {e}
      PROVE  /\ OnStack(u, n) = OnStack(t, n) \union {k}
             /\ \A i \in Slots(u, n) : u.work[i] \in 1 .. n
             /\ \A i, j \in Slots(u, n) : u.work[i] = u.work[j] => i = j
  <2>1. \A i \in Slots(t, n) : i \in 1 .. n /\ i # e
    BY <1>1, <1>2 DEF Slots
  <2>2. u.work[e] = k /\ \A i \in Slots(t, n) : u.work[i] = t.work[i]
    BY <1>2, <2>1
  <2>3. \A i \in Slots(t, n) : t.work[i] # k
    BY DEF OnStack
  <2> QED
    BY <1>2, <2>2, <2>3 DEF OnStack, Stacked
<1>3. ASSUME t.scaled[k] < one
      PROVE  /\ Stacked(PushSmall(t, k), n, one)
             /\ OnStack(PushSmall(t, k), n) = OnStack(t, n) \union {k}
  <2> DEFINE u == PushSmall(t, k)
             e == t.small_top + 1
  <2>1. /\ u.scaled = t.scaled /\ u.small_top = e /\ u.large_bot = t.large_bot
        /\ \A i \in 1 .. n : u.work[i] = IF i = e THEN k ELSE t.work[i]
    BY PushIs
  <2> HIDE DEF u
  <2>2. Slots(u, n) = Slots(t, n) \union {e} /\ e \in 1 .. n /\ e \notin Slots(t, n)
    BY <2>1, <1>1 DEF Slots
  <2>3. /\ OnStack(u, n) = OnStack(t, n) \union {k}
        /\ \A i \in Slots(u, n) : u.work[i] \in 1 .. n
        /\ \A i, j \in Slots(u, n) : u.work[i] = u.work[j] => i = j
    BY <1>2, <2>1, <2>2
  <2>4. \A i \in 1 .. u.small_top : u.scaled[u.work[i]] < one
    BY <1>1, <1>3, <2>1 DEF Stacked
  <2>5. \A i \in u.large_bot + 1 .. n : u.scaled[u.work[i]] >= one
    BY <1>1, <2>1 DEF Stacked
  <2>6. u.small_top \in 0 .. n /\ u.large_bot \in 0 .. n /\ u.small_top <= u.large_bot
    BY <1>1, <2>1
  <2>7. Stacked(u, n, one)
    BY <2>3, <2>4, <2>5, <2>6 DEF Stacked
  <2> QED
    BY <2>3, <2>7 DEF u
<1>4. ASSUME t.scaled[k] >= one
      PROVE  /\ Stacked(PushLarge(t, k), n, one)
             /\ OnStack(PushLarge(t, k), n) = OnStack(t, n) \union {k}
  <2> DEFINE u == PushLarge(t, k)
             e == t.large_bot
  <2>1. /\ u.scaled = t.scaled /\ u.small_top = t.small_top /\ u.large_bot = e - 1
        /\ \A i \in 1 .. n : u.work[i] = IF i = e THEN k ELSE t.work[i]
    BY PushIs
  <2> HIDE DEF u
  <2>2. Slots(u, n) = Slots(t, n) \union {e} /\ e \in 1 .. n /\ e \notin Slots(t, n)
    BY <2>1, <1>1 DEF Slots
  <2>3. /\ OnStack(u, n) = OnStack(t, n) \union {k}
        /\ \A i \in Slots(u, n) : u.work[i] \in 1 .. n
        /\ \A i, j \in Slots(u, n) : u.work[i] = u.work[j] => i = j
    BY <1>2, <2>1, <2>2
  <2>4. \A i \in 1 .. u.small_top : u.scaled[u.work[i]] < one
    BY <1>1, <2>1 DEF Stacked
  <2>5. \A i \in u.large_bot + 1 .. n : u.scaled[u.work[i]] >= one
    BY <1>1, <1>4, <2>1 DEF Stacked
  <2>6. u.small_top \in 0 .. n /\ u.large_bot \in 0 .. n /\ u.small_top <= u.large_bot
    BY <1>1, <2>1
  <2>7. Stacked(u, n, one)
    BY <2>3, <2>4, <2>5, <2>6 DEF Stacked
  <2> QED
    BY <2>3, <2>7 DEF u
<1> QED
  BY <1>3, <1>4

(* The first i entries are on the stacks.                                  *)
Sorting(t, w, i) ==
  /\ t \in Tables(Len(w))
  /\ t.scaled = Unpaired(w).scaled /\ t.prob = Unpaired(w).prob /\ t.alias = Unpaired(w).alias
  /\ t.small_top + (Len(w) - t.large_bot) = i
  /\ Stacked(t, Len(w), One(w))
  /\ OnStack(t, Len(w)) = 1 .. i

(* The next entry goes where it belongs.                                   *)
SortNext(t, w, i) == IF t.scaled[i] < One(w) THEN PushSmall(t, i) ELSE PushLarge(t, i)

(* A push keeps the order of the lists.                                    *)
LEMMA SortingGoesOn ==
  ASSUME NEW w \in Seq(Nat \ {0}), NEW i \in 1 .. Len(w), NEW t, Sorting(t, w, i - 1)
  PROVE  Sorting(SortNext(t, w, i), w, i)
<1> DEFINE n == Len(w)
           one == One(w)
           u == SortNext(t, w, i)
<1>1. n \in Nat /\ one \in Nat
  BY OneIs
<1>2. /\ t \in Tables(n) /\ Stacked(t, n, one) /\ OnStack(t, n) = 1 .. i - 1
      /\ t.small_top + (n - t.large_bot) = i - 1
      /\ t.small_top \in 0 .. n /\ t.large_bot \in 0 .. n
      /\ t.scaled[i] \in Nat
  BY DEF Sorting, Stacked, Tables
<1> HIDE DEF n, one
<1>3. i \in 1 .. n /\ i \notin OnStack(t, n) /\ t.small_top < t.large_bot
  BY <1>1, <1>2 DEF n
<1>4. /\ u \in Tables(n) /\ u.scaled = t.scaled /\ u.prob = t.prob /\ u.alias = t.alias
      /\ u.small_top + (n - u.large_bot) = i
  <2>1. u = PushSmall(t, i) \/ u = PushLarge(t, i)
    BY DEF SortNext
  <2>2. /\ PushSmall(t, i) \in Tables(n) /\ PushLarge(t, i) \in Tables(n)
        /\ PushSmall(t, i).scaled = t.scaled /\ PushLarge(t, i).scaled = t.scaled
        /\ PushSmall(t, i).prob = t.prob /\ PushLarge(t, i).prob = t.prob
        /\ PushSmall(t, i).alias = t.alias /\ PushLarge(t, i).alias = t.alias
        /\ PushSmall(t, i).small_top = t.small_top + 1 /\ PushSmall(t, i).large_bot = t.large_bot
        /\ PushLarge(t, i).small_top = t.small_top /\ PushLarge(t, i).large_bot = t.large_bot - 1
    BY <1>1, <1>2, <1>3, PushIs
  <2> HIDE DEF u
  <2>4. u.small_top + (n - u.large_bot) = i
    <3> DEFINE x == t.small_top
               y == t.large_bot
    <3>1. \/ u.small_top = x + 1 /\ u.large_bot = y
          \/ u.small_top = x /\ u.large_bot = y - 1
      BY <2>1, <2>2
    <3>2. x + (n - y) = i - 1 /\ x \in Int /\ y \in Int /\ n \in Int /\ i \in Int
      BY <1>1, <1>2, <1>3
    <3> HIDE DEF x, y
    <3> QED
      BY <3>1, <3>2
  <2> QED
    BY <2>1, <2>2, <2>4
<1>5. Stacked(u, n, one) /\ OnStack(u, n) = OnStack(t, n) \union {i}
  <2>1. CASE t.scaled[i] < one
    <3>1. u = PushSmall(t, i)
      BY <2>1 DEF SortNext, one
    <3> QED
      BY <2>1, <3>1, <1>1, <1>2, <1>3, PushStacks
  <2>2. CASE t.scaled[i] >= one
    <3>1. u = PushLarge(t, i)
      BY <2>2, <1>1, <1>2 DEF SortNext, one
    <3> QED
      BY <2>2, <3>1, <1>1, <1>2, <1>3, PushStacks
  <2> QED
    BY <2>1, <2>2, <1>1, <1>2
<1>6. OnStack(u, n) = 1 .. i
  BY <1>2, <1>3, <1>5
<1> HIDE DEF u
<1> QED
  BY <1>4, <1>5, <1>6 DEF Sorting, n, one, u

(* The recursion of Sorted: after the last entry all are on the stacks.    *)
LEMMA SortedIs ==
  ASSUME NEW w \in Seq(Nat \ {0})
  PROVE  Sorting(Sorted(w), w, Len(w))
<1> DEFINE n == Len(w)
           D == Tables(n)
           a == Unpaired(w)
           step == [i \in 1 .. n |-> [t \in D |-> SortNext(t, w, i)]]
           IsRun(f) == f = [i \in 0 .. n |-> IF i = 0 THEN a ELSE SortNext(f[i - 1], w, i)]
           f == CHOOSE g : IsRun(g)
<1>1. n \in Nat /\ a \in D
  BY OneIs, UnpairedIs
<1>2. step \in [1 .. n -> [D -> D]]
  <2>1. ASSUME NEW i \in 1 .. n, NEW t \in D
        PROVE  SortNext(t, w, i) \in D
    BY <1>1, PushIs DEF SortNext
  <2> HIDE DEF D
  <2> QED
    BY <2>1
<1>3. PICK g : Solves(g, n, D, a, step)
  <2> HIDE DEF n, D, a, step
  <2> QED
    BY <1>1, <1>2, Recursion
<1>4. IsRun(g)
  <2> HIDE DEF D, a
  <2>1. g \in [0 .. n -> D] /\ g[0] = a /\ \A i \in 1 .. n : g[i] = step[i][g[i - 1]]
    BY <1>3 DEF Solves
  <2>2. ASSUME NEW i \in 1 .. n
        PROVE  g[i] = SortNext(g[i - 1], w, i)
    <3>1. i - 1 \in 0 .. n
      BY <1>1
    <3>2. g[i - 1] \in D
      BY <2>1, <3>1
    <3> QED
      BY <2>1, <3>2
  <2> DEFINE v(i) == IF i = 0 THEN a ELSE SortNext(g[i - 1], w, i)
  <2>3. ASSUME NEW i \in 0 .. n
        PROVE  g[i] = v(i)
    <3>1. i = 0 \/ i \in 1 .. n
      BY <1>1
    <3> QED
      BY <3>1, <2>1, <2>2
  <2>4. g = [i \in 0 .. n |-> g[i]]
    BY <2>1
  <2> HIDE DEF v
  <2>5. [i \in 0 .. n |-> g[i]] = [i \in 0 .. n |-> v(i)]
    BY <2>3
  <2> QED
    BY <2>4, <2>5 DEF v
<1>5. IsRun(f)
  <2> HIDE DEF IsRun
  <2> QED
    BY <1>4
<1>6. f[0] = a /\ \A i \in 1 .. n : f[i] = SortNext(f[i - 1], w, i)
  <2>1. \A i \in 0 .. n : f[i] = IF i = 0 THEN a ELSE SortNext(f[i - 1], w, i)
    <3> HIDE DEF f, a
    <3> QED
      BY <1>5
  <2> HIDE DEF f, a
  <2> QED
    BY <2>1, <1>1
<1>7. Sorted(w) = f[n]
  BY DEF Sorted, SortNext
<1> HIDE DEF f
<1> DEFINE Wrong == {i \in 0 .. n : ~ Sorting(f[i], w, i)}
<1>8. SUFFICES ASSUME Wrong # {} PROVE FALSE
  BY <1>1, <1>7
<1>9. PICK i \in Wrong : \A j \in Wrong : i <= j
  <2>1. Wrong \subseteq Nat
    BY <1>1
  <2> HIDE DEF Wrong
  <2> QED
    BY <1>8, <2>1, LeastNumber
<1>10. i # 0
  <2>1. a.small_top = 0 /\ a.large_bot = n
    BY UnpairedIs
  <2> HIDE DEF a
  <2>2. Slots(a, n) = {} /\ 1 .. a.small_top = {} /\ a.large_bot + 1 .. n = {}
    BY <2>1, <1>1 DEF Slots
  <2>3. Stacked(a, n, One(w)) /\ OnStack(a, n) = 1 .. 0
    BY <2>1, <2>2, <1>1 DEF Stacked, OnStack
  <2>4. Sorting(a, w, 0)
    BY <2>1, <2>3, <1>1 DEF Sorting, a
  <2> QED
    BY <2>4, <1>6
<1>11. i \in 1 .. n /\ i - 1 \in 0 .. n /\ i - 1 \notin Wrong
  BY <1>9, <1>10, <1>1
<1>12. Sorting(f[i - 1], w, i - 1)
  BY <1>11
<1>13. Sorting(f[i], w, i)
  BY <1>6, <1>11, <1>12, SortingGoesOn
<1> QED
  BY <1>9, <1>13

(* A sum with one term.                                                    *)
LEMMA SumOnOnly ==
  ASSUME NEW S, IsFiniteSet(S), NEW f, NEW e \in S, f[e] \in Int, \A x \in S \ {e} : f[x] = 0
  PROVE  SumOn(f, S) = f[e]
<1> DEFINE R == S \ {e}
<1>1. IsFiniteSet(R)
  BY FS_RemoveElement
<1>2. SumOn(f, S) = f[e] + SumOn(f, R)
  <2>1. \A x \in S : f[x] \in Int
    OBVIOUS
  <2> QED
    BY <2>1, SumOnRemove
<1>3. SumOn(f, R) = 0
  <2>1. \A x \in R : f[x] = 0
    OBVIOUS
  <2> HIDE DEF R
  <2> QED
    BY <1>1, <2>1, SumOnZero
<1> QED
  BY <1>2, <1>3

(* An entry that keeps its whole bucket, and no other, owns one.           *)
Unshared(t, n, one) == \A b \in 1 .. n : t.prob[b] = one /\ t.alias[b] = b

(* Such an entry owns one.                                                 *)
LEMMA OwnsOne ==
  ASSUME NEW n \in Nat, NEW one \in Nat, NEW t, NEW k \in 1 .. n, Unshared(t, n, one)
  PROVE  SumOn(Share(t, n, one, k), 1 .. n) = one
<1> DEFINE f == Share(t, n, one, k)
<1>1. f[k] = one /\ \A b \in (1 .. n) \ {k} : f[b] = 0
  BY DEF Share, Unshared
<1>2. IsFiniteSet(1 .. n) /\ one \in Int
  BY FS_Interval
<1> HIDE DEF f
<1>3. SumOn(f, 1 .. n) = f[k]
  BY <1>1, <1>2, SumOnOnly
<1> QED
  BY <1>1, <1>3 DEF f

(* With all entries on the stacks, what the large ones have too much is    *)
(* what the small ones lack.                                               *)
LEMMA SortedBalanced ==
  ASSUME NEW w \in Seq(Nat \ {0})
  PROVE  /\ Balanced(Sorted(w), w)
         /\ Sorted(w).small_top + (Len(w) - Sorted(w).large_bot) = Len(w)
<1> DEFINE n == Len(w)
           one == One(w)
           t == Sorted(w)
           x == Excess(t, n, one)
<1>1. /\ n \in Nat /\ one \in Nat /\ w \in [1 .. n -> Nat \ {0}] /\ IsFiniteSet(1 .. n)
      /\ Cardinality(1 .. n) = n /\ one = SumOn(w, 1 .. n)
  BY OneIs
<1>2. /\ t \in Tables(n) /\ Stacked(t, n, one) /\ OnStack(t, n) = 1 .. n
      /\ t.small_top + (n - t.large_bot) = n
      /\ \A k \in 1 .. n : t.scaled[k] = n * w[k] /\ t.prob[k] = one /\ t.alias[k] = k
  BY SortedIs, UnpairedIs DEF Sorting
<1> HIDE DEF n, one, t
<1>3. \A k \in 1 .. n : x[k] = n * w[k] - one
  BY <1>2 DEF Excess
<1> HIDE DEF x
<1>4. SumOn(x, 1 .. n) = 0
  <2>1. Shifts(x, w, 1 .. n, n, one) /\ n \in Int /\ one \in Int
    BY <1>1, <1>3 DEF Shifts
  <2>2. SumOn(x, 1 .. n) = n * SumOn(w, 1 .. n) - one * Cardinality(1 .. n)
    BY <2>1, <1>1, SumOnShifted
  <2>3. SumOn(x, 1 .. n) = n * one - one * n
    BY <2>2, <1>1
  <2>4. n * one = one * n /\ n * one \in Int
    BY <1>1
  <2> QED
    BY <2>3, <2>4
<1>5. ASSUME NEW k \in 1 .. n
      PROVE  SumOn(Share(t, n, one, k), 1 .. n) + x[k] = n * w[k]
  <2>1. SumOn(Share(t, n, one, k), 1 .. n) = one
    <3>1. Unshared(t, n, one)
      BY <1>2 DEF Unshared
    <3> QED
      BY <1>1, <3>1, OwnsOne
  <2>2. n * w[k] \in Int
    BY <1>1
  <2> QED
    BY <2>1, <2>2, <1>1, <1>3
<1>6. \A k \in 1 .. n : t.prob[k] \in 0 .. one
  BY <1>1, <1>2
<1>7. Balanced(t, w)
  BY <1>2, <1>4, <1>5, <1>6 DEF Balanced, n, one, x
<1> QED
  BY <1>2, <1>7 DEF n, t

(* What a step of the pairing loop writes: the bucket of s is settled, l   *)
(* pays for it and moves to the small stack when that leaves it short.     *)
Settles(u, t, n, one, s, l, rest) ==
  /\ \A k \in 1 .. n :
       /\ u.prob[k] = IF k = s THEN t.scaled[s] ELSE t.prob[k]
       /\ u.alias[k] = IF k = s THEN l ELSE t.alias[k]
       /\ u.scaled[k] = IF k = l THEN rest ELSE t.scaled[k]
  /\ rest < one =>
       /\ u.small_top = t.small_top /\ u.large_bot = t.large_bot + 1
       /\ \A i \in 1 .. n : u.work[i] = IF i = t.small_top THEN l ELSE t.work[i]
  /\ ~(rest < one) =>
       /\ u.small_top = t.small_top - 1 /\ u.large_bot = t.large_bot /\ u.work = t.work

(* The two entries on top, and what is left of the large one.              *)
OnTop(t, n, one, s, l, rest) ==
  /\ s \in 1 .. n /\ l \in 1 .. n /\ s # l
  /\ t.small_top \in 1 .. n /\ t.large_bot \in 0 .. n - 1
  /\ s = t.work[t.small_top] /\ l = t.work[t.large_bot + 1]
  /\ rest \in Nat /\ rest = (t.scaled[l] + t.scaled[s]) - one

(* What the step writes.                                                   *)
LEMMA PairUpIs ==
  ASSUME NEW n \in Nat, NEW one \in Nat, NEW t \in Tables(n), NEW s, NEW l, NEW rest,
         OnTop(t, n, one, s, l, rest)
  PROVE  PairUp(t, one) \in Tables(n) /\ Settles(PairUp(t, one), t, n, one, s, l, rest)
<1> USE DEF OnTop, Settles
<1> DEFINE A == [1 .. n -> Nat]
           B == [1 .. n -> Int]
           C == [1 .. n -> 1 .. n]
           p == [t.prob EXCEPT ![s] = t.scaled[s]]
           a == [t.alias EXCEPT ![s] = l]
           c == [t.scaled EXCEPT ![l] = rest]
           paid == [t EXCEPT !.prob = p, !.alias = a, !.scaled = c, !.small_top = t.small_top - 1]
<1>1. Tables(n) = [scaled : A, prob : B, alias : C, work : B, small_top : Int, large_bot : Int]
  BY DEF Tables
<1>2. /\ t.scaled \in [1 .. n -> Nat] /\ t.prob \in [1 .. n -> Int] /\ t.alias \in [1 .. n -> 1 .. n]
      /\ t.small_top \in Int /\ t.large_bot \in Int
  BY DEF Tables
<1>3. p \in B /\ a \in C /\ c \in A
  <2> DEFINE x == t.prob
             y == t.alias
             z == t.scaled
             v == t.scaled[s]
  <2>1. x \in [1 .. n -> Int] /\ y \in [1 .. n -> 1 .. n] /\ z \in [1 .. n -> Nat]
    BY <1>2
  <2>3. v \in Int
    <3>1. v \in Nat
      <4>1. v = z[s]
        OBVIOUS
      <4> HIDE DEF z, v
      <4> QED
        BY <2>1, <4>1
    <3> QED
      BY <3>1
  <2> HIDE DEF x, y, z, v
  <2>2. /\ [x EXCEPT ![s] = v] \in [1 .. n -> Int] /\ [y EXCEPT ![s] = l] \in [1 .. n -> 1 .. n]
        /\ [z EXCEPT ![l] = rest] \in [1 .. n -> Nat]
    BY <2>1, <2>3
  <2> QED
    BY <2>2 DEF x, y, z, v
<1>4. \A k \in 1 .. n : /\ p[k] = IF k = s THEN t.scaled[s] ELSE t.prob[k]
                        /\ a[k] = IF k = s THEN l ELSE t.alias[k]
                        /\ c[k] = IF k = l THEN rest ELSE t.scaled[k]
  <2> DEFINE x == t.prob
             y == t.alias
             z == t.scaled
             v == t.scaled[s]
  <2>1. DOMAIN x = 1 .. n /\ DOMAIN y = 1 .. n /\ DOMAIN z = 1 .. n
    BY <1>2
  <2> HIDE DEF x, y, z, v
  <2>2. \A k \in 1 .. n : /\ [x EXCEPT ![s] = v][k] = IF k = s THEN v ELSE x[k]
                          /\ [y EXCEPT ![s] = l][k] = IF k = s THEN l ELSE y[k]
                          /\ [z EXCEPT ![l] = rest][k] = IF k = l THEN rest ELSE z[k]
    BY <2>1
  <2>3. p = [x EXCEPT ![s] = v] /\ a = [y EXCEPT ![s] = l] /\ c = [z EXCEPT ![l] = rest]
    BY DEF x, y, z, v
  <2> HIDE DEF p, a, c
  <2> QED
    BY <2>2, <2>3 DEF x, y, z, v
<1>5. PairUp(t, one) = IF rest < one THEN [PushSmall(paid, l) EXCEPT !.large_bot = @ + 1] ELSE paid
  <2> HIDE DEF A, B, C
  <2>1. [t EXCEPT !.prob[s] = t.scaled[s], !.alias[s] = l, !.scaled[l] = rest, !.small_top = @ - 1] = paid
    BY <1>1
  <2> QED
    BY <2>1 DEF PairUp
<1> HIDE DEF A, B, C, p, a, c
<1>6. paid \in Tables(n)
  <2> DEFINE y == t.small_top - 1
  <2>1. y \in Int
    OBVIOUS
  <2> DEFINE t1 == [t EXCEPT !.prob = p]
             t2 == [t1 EXCEPT !.alias = a]
             t3 == [t2 EXCEPT !.scaled = c]
             t4 == [t3 EXCEPT !.small_top = y]
  <2>2. paid = t4
    OBVIOUS
  <2> HIDE DEF paid, y
  <2>3. t1 \in Tables(n)
    BY <1>1, <1>3
  <2> HIDE DEF t1
  <2>4. t2 \in Tables(n)
    BY <1>1, <1>3, <2>3
  <2> HIDE DEF t2
  <2>5. t3 \in Tables(n)
    BY <1>1, <1>3, <2>4
  <2> HIDE DEF t3
  <2>6. t4 \in Tables(n)
    BY <1>1, <2>1, <2>5
  <2> QED
    BY <2>2, <2>6
<1>7. /\ paid.prob = p /\ paid.alias = a /\ paid.scaled = c /\ paid.work = t.work
      /\ paid.small_top = t.small_top - 1 /\ paid.large_bot = t.large_bot
  BY <1>1
<1> HIDE DEF paid
<1>8. CASE ~(rest < one)
  BY <1>4, <1>5, <1>6, <1>7, <1>8
<1>9. CASE rest < one
  <2> DEFINE v == PushSmall(paid, l)
  <2>1. /\ v \in Tables(n) /\ v.scaled = c /\ v.prob = p /\ v.alias = a
        /\ v.small_top = paid.small_top + 1 /\ v.large_bot = t.large_bot
        /\ \A i \in 1 .. n : v.work[i] = IF i = paid.small_top + 1 THEN l ELSE paid.work[i]
    <3>1. /\ v \in Tables(n) /\ v.scaled = paid.scaled /\ v.prob = paid.prob /\ v.alias = paid.alias
          /\ v.small_top = paid.small_top + 1 /\ v.large_bot = paid.large_bot
      BY <1>6, AnyPushSmall
    <3>2. ASSUME NEW i \in 1 .. n
          PROVE  v.work[i] = IF i = paid.small_top + 1 THEN l ELSE paid.work[i]
      BY <1>6, AnyPushSmall
    <3> HIDE DEF v
    <3> QED
      BY <3>1, <3>2, <1>7
  <2>2. PairUp(t, one) = [v EXCEPT !.large_bot = v.large_bot + 1]
    BY <1>1, <1>5, <1>9, <2>1
  <2>3. paid.small_top + 1 = t.small_top
    BY <1>2, <1>7
  <2>4. v.large_bot + 1 \in Int
    BY <2>1, <1>2
  <2> HIDE DEF v
  <2>5. PairUp(t, one) \in Tables(n)
    BY <2>1, <2>2, <2>4, <1>1
  <2>6. /\ PairUp(t, one).scaled = c /\ PairUp(t, one).prob = p /\ PairUp(t, one).alias = a
        /\ PairUp(t, one).work = v.work /\ PairUp(t, one).small_top = t.small_top
        /\ PairUp(t, one).large_bot = t.large_bot + 1
    BY <2>1, <2>2, <2>3, <1>1
  <2> QED
    BY <1>4, <1>7, <1>9, <2>1, <2>3, <2>5, <2>6
<1> QED
  BY <1>8, <1>9

(* The stacks after a step of the pairing loop: s has left them.           *)
LEMMA PairUpStacks ==
  ASSUME NEW n \in Nat, NEW one \in Nat, NEW t, NEW u, NEW s, NEW l, NEW rest,
         Stacked(t, n, one), OnTop(t, n, one, s, l, rest), Settles(u, t, n, one, s, l, rest)
  PROVE  /\ Stacked(u, n, one)
         /\ OnStack(u, n) = OnStack(t, n) \ {s}
         /\ s \in OnStack(t, n) /\ l \in OnStack(t, n)
         /\ u.small_top + (n - u.large_bot) = t.small_top + (n - t.large_bot) - 1
<1> USE DEF OnTop, Settles
<1> DEFINE p == t.small_top
           q == t.large_bot + 1
<1>1. /\ p \in 1 .. n /\ q \in 1 .. n /\ p < q /\ t.large_bot = q - 1
      /\ \A i \in 1 .. p : i \in Slots(t, n)
      /\ \A i \in q .. n : i \in Slots(t, n)
      /\ \A i \in Slots(t, n) : i \in 1 .. n /\ (i <= p \/ i >= q)
  BY DEF Stacked, Slots
<1>2. /\ \A i \in Slots(t, n) : t.work[i] \in 1 .. n
      /\ \A i, j \in Slots(t, n) : t.work[i] = t.work[j] => i = j
      /\ \A i \in 1 .. p : t.scaled[t.work[i]] < one
      /\ \A i \in q .. n : t.scaled[t.work[i]] >= one
  BY DEF Stacked
<1>3. s = t.work[p] /\ l = t.work[q] /\ p \in Slots(t, n) /\ q \in Slots(t, n)
  BY <1>1
<1> HIDE DEF p, q
<1>4. s \in OnStack(t, n) /\ l \in OnStack(t, n) /\ s # l /\ s \in 1 .. n /\ l \in 1 .. n
  BY <1>1, <1>2, <1>3 DEF OnStack
<1>5. CASE rest < one
  <2>1. /\ u.small_top = p /\ u.large_bot = q
        /\ \A i \in 1 .. n : u.work[i] = IF i = p THEN l ELSE t.work[i]
    BY <1>5 DEF p, q
  <2>2. Slots(u, n) = Slots(t, n) \ {q}
    BY <2>1, <1>1 DEF Slots, p
  <2>3. u.work[p] = l /\ \A i \in Slots(u, n) : i # p => u.work[i] = t.work[i]
    BY <2>1, <2>2, <1>1
  <2>4. \A i \in Slots(u, n) : u.work[i] \in 1 .. n
    BY <2>2, <2>3, <1>2, <1>4
  <2>5. \A i, j \in Slots(u, n) : u.work[i] = u.work[j] => i = j
    BY <2>2, <2>3, <1>2, <1>3
  <2>6. ASSUME NEW i \in 1 .. p
        PROVE  u.scaled[u.work[i]] < one
    <3>1. CASE i = p
      BY <3>1, <2>3, <1>4, <1>5
    <3>2. CASE i # p
      <4>1. i \in Slots(t, n) /\ i # q /\ i \in Slots(u, n)
        BY <1>1, <2>2
      <4>2. u.work[i] = t.work[i] /\ t.work[i] \in 1 .. n /\ t.work[i] # l /\ t.scaled[t.work[i]] < one
        BY <4>1, <3>2, <2>3, <1>2, <1>3
      <4> QED
        BY <4>2
    <3> QED
      BY <3>1, <3>2
  <2>7. ASSUME NEW i \in q + 1 .. n
        PROVE  u.scaled[u.work[i]] >= one
    <3>1. i \in q .. n /\ i # q /\ i # p
      BY <1>1
    <3>2. i \in Slots(t, n) /\ i \in Slots(u, n)
      BY <3>1, <1>1, <2>2
    <3>3. u.work[i] = t.work[i] /\ t.work[i] \in 1 .. n /\ t.work[i] # l /\ t.scaled[t.work[i]] >= one
      BY <3>1, <3>2, <2>3, <1>2, <1>3
    <3> QED
      BY <3>3
  <2>8. Stacked(u, n, one)
    BY <2>1, <2>4, <2>5, <2>6, <2>7, <1>1 DEF Stacked
  <2>9. OnStack(u, n) = OnStack(t, n) \ {s}
    <3>1. ASSUME NEW k \in OnStack(u, n) PROVE k \in OnStack(t, n) \ {s}
      <4>1. PICK i \in Slots(u, n) : k = u.work[i]
        BY DEF OnStack
      <4>2. CASE i = p
        BY <4>1, <4>2, <2>3, <1>4
      <4>3. CASE i # p
        <5>1. i \in Slots(t, n) /\ k = t.work[i]
          BY <4>1, <4>3, <2>2, <2>3
        <5> QED
          BY <5>1, <4>3, <1>2, <1>3 DEF OnStack
      <4> QED
        BY <4>2, <4>3
    <3>2. ASSUME NEW k \in OnStack(t, n), k # s PROVE k \in OnStack(u, n)
      <4>1. PICK i \in Slots(t, n) : k = t.work[i]
        BY DEF OnStack
      <4>2. i # p
        BY <4>1, <3>2, <1>3
      <4>3. CASE i = q
        <5>1. p \in Slots(u, n) /\ k = u.work[p]
          BY <4>1, <4>3, <2>2, <2>3, <1>1, <1>3
        <5> QED
          BY <5>1 DEF OnStack
      <4>4. CASE i # q
        BY <4>1, <4>2, <4>4, <2>2, <2>3 DEF OnStack
      <4> QED
        BY <4>3, <4>4
    <3> QED
      BY <3>1, <3>2
  <2>10. u.small_top + (n - u.large_bot) = t.small_top + (n - t.large_bot) - 1
    BY <2>1, <1>1 DEF p
  <2> QED
    BY <2>8, <2>9, <2>10, <1>4
<1>6. CASE ~(rest < one)
  <2>1. u.small_top = p - 1 /\ u.large_bot = q - 1 /\ u.work = t.work
    BY <1>1, <1>6 DEF p
  <2>2. Slots(u, n) = Slots(t, n) \ {p}
    BY <2>1, <1>1 DEF Slots, p
  <2>3. (q - 1) + 1 = q
    BY <1>1
  <2>4. ASSUME NEW i \in 1 .. p - 1
        PROVE  u.scaled[u.work[i]] < one
    <3>1. i \in 1 .. p /\ i \in Slots(t, n) /\ i # q
      BY <1>1
    <3>2. t.work[i] \in 1 .. n /\ t.work[i] # l /\ t.scaled[t.work[i]] < one
      BY <3>1, <1>2, <1>3
    <3> QED
      BY <3>2, <2>1
  <2>5. ASSUME NEW i \in q .. n
        PROVE  u.scaled[u.work[i]] >= one
    <3>1. i \in Slots(t, n) /\ t.work[i] \in 1 .. n /\ t.scaled[t.work[i]] >= one
      BY <1>1, <1>2
    <3>2. CASE t.work[i] = l
      BY <3>1, <3>2, <2>1, <1>6
    <3>3. CASE t.work[i] # l
      BY <3>1, <3>3, <2>1
    <3> QED
      BY <3>2, <3>3
  <2>6. Stacked(u, n, one)
    <3>1. u.small_top \in 0 .. n /\ u.large_bot \in 0 .. n /\ u.small_top <= u.large_bot
      BY <2>1, <1>1
    <3>2. \A i \in u.large_bot + 1 .. n : u.scaled[u.work[i]] >= one
      BY <2>1, <2>3, <2>5
    <3> QED
      BY <3>1, <3>2, <2>1, <2>2, <2>4, <1>2 DEF Stacked
  <2>7. OnStack(u, n) = OnStack(t, n) \ {s}
    BY <2>1, <2>2, <1>2, <1>3 DEF OnStack
  <2>8. u.small_top + (n - u.large_bot) = t.small_top + (n - t.large_bot) - 1
    BY <2>1, <1>1 DEF p
  <2> QED
    BY <2>6, <2>7, <2>8, <1>4
<1> QED
  BY <1>5, <1>6

(* A step of the pairing loop settles one entry and keeps the balance:     *)
(* what s lacks, l pays into its bucket.                                   *)
LEMMA PairUpBalanced ==
  ASSUME NEW w \in Seq(Nat \ {0}), NEW t, Balanced(t, w), t.small_top > 0, t.large_bot < Len(w)
  PROVE  /\ Balanced(PairUp(t, One(w)), w)
         /\ PairUp(t, One(w)).small_top + (Len(w) - PairUp(t, One(w)).large_bot)
              = t.small_top + (Len(w) - t.large_bot) - 1
<1> DEFINE n == Len(w)
           one == One(w)
           u == PairUp(t, one)
           s == t.work[t.small_top]
           l == t.work[t.large_bot + 1]
           rest == (t.scaled[l] + t.scaled[s]) - one
           x == Excess(t, n, one)
           y == Excess(u, n, one)
<1>1. n \in Nat /\ one \in Nat /\ w \in [1 .. n -> Nat \ {0}] /\ IsFiniteSet(1 .. n)
  BY OneIs
<1>2. /\ t \in Tables(n) /\ Stacked(t, n, one)
      /\ \A k \in 1 .. n : t.prob[k] \in 0 .. one
      /\ \A k \in OnStack(t, n) : t.prob[k] = one /\ t.alias[k] = k
      /\ \A k \in 1 .. n : SumOn(Share(t, n, one, k), 1 .. n) + x[k] = n * w[k]
      /\ SumOn(x, 1 .. n) = 0
  BY DEF Balanced
<1>3. t.small_top > 0 /\ t.large_bot < n
  OBVIOUS
<1> HIDE DEF n, one
<1>4. /\ t.small_top \in 1 .. n /\ t.large_bot \in 0 .. n - 1
      /\ s \in 1 .. n /\ l \in 1 .. n /\ s # l /\ t.scaled[s] < one /\ t.scaled[l] >= one
  <2>1. /\ t.small_top \in 0 .. n /\ t.large_bot \in 0 .. n /\ t.small_top <= t.large_bot
        /\ \A i \in Slots(t, n) : t.work[i] \in 1 .. n
        /\ \A i, j \in Slots(t, n) : t.work[i] = t.work[j] => i = j
        /\ \A i \in 1 .. t.small_top : t.scaled[t.work[i]] < one
        /\ \A i \in t.large_bot + 1 .. n : t.scaled[t.work[i]] >= one
    BY <1>2 DEF Stacked
  <2> DEFINE p == t.small_top
             q == t.large_bot + 1
  <2>2. /\ p \in Slots(t, n) /\ q \in Slots(t, n) /\ p \in 1 .. t.small_top
        /\ q \in t.large_bot + 1 .. n /\ p # q
    BY <2>1, <1>1, <1>3 DEF Slots
  <2>3. s = t.work[p] /\ l = t.work[q]
    OBVIOUS
  <2>4. t.small_top \in 1 .. n /\ t.large_bot \in 0 .. n - 1
    BY <2>1, <1>1, <1>3
  <2> HIDE DEF p, q, s, l
  <2> QED
    BY <2>1, <2>2, <2>3, <2>4
<1>5. t.scaled \in [1 .. n -> Nat] /\ t.alias \in [1 .. n -> 1 .. n]
  BY <1>2 DEF Tables
<1> HIDE DEF s, l
<1>6. t.scaled[s] \in Nat /\ t.scaled[l] \in Nat /\ rest \in Nat
  <2>1. t.scaled[s] \in Nat /\ t.scaled[l] \in Nat
    BY <1>4, <1>5
  <2> DEFINE a == t.scaled[s]
             b == t.scaled[l]
  <2>2. a \in Nat /\ b \in Nat /\ b >= one /\ rest = (b + a) - one
    BY <2>1, <1>4
  <2> HIDE DEF a, b, rest
  <2>3. rest \in Nat
    BY <2>2, <1>1
  <2> QED
    BY <2>1, <2>3
<1>a. OnTop(t, n, one, s, l, rest)
  BY <1>4, <1>6 DEF OnTop, s, l
<1> HIDE DEF rest
<1>b. u \in Tables(n) /\ Settles(u, t, n, one, s, l, rest)
  BY <1>1, <1>2, <1>a, PairUpIs
<1> HIDE DEF u
<1>7. \A k \in 1 .. n :
        /\ u.prob[k] = IF k = s THEN t.scaled[s] ELSE t.prob[k]
        /\ u.alias[k] = IF k = s THEN l ELSE t.alias[k]
        /\ u.scaled[k] = IF k = l THEN rest ELSE t.scaled[k]
  BY <1>b DEF Settles
<1>8. /\ Stacked(u, n, one)
      /\ OnStack(u, n) = OnStack(t, n) \ {s}
      /\ s \in OnStack(t, n) /\ l \in OnStack(t, n)
      /\ u.small_top + (n - u.large_bot) = t.small_top + (n - t.large_bot) - 1
  BY <1>1, <1>2, <1>a, <1>b, PairUpStacks
<1>9. \A k \in 1 .. n : u.prob[k] \in 0 .. one
  <2>1. t.scaled[s] \in 0 .. one
    BY <1>1, <1>4, <1>6
  <2> QED
    BY <2>1, <1>2, <1>7
<1>10. \A k \in OnStack(u, n) : u.prob[k] = one /\ u.alias[k] = k
  <2>1. OnStack(t, n) \subseteq 1 .. n
    BY <1>2 DEF OnStack, Stacked
  <2> QED
    BY <2>1, <1>2, <1>7, <1>8
<1>11. /\ x[s] = t.scaled[s] - one /\ x[l] = t.scaled[l] - one
       /\ y[s] = 0 /\ y[l] = rest - one
       /\ \A k \in 1 .. n : k # s /\ k # l => y[k] = x[k]
       /\ \A k \in 1 .. n : x[k] \in Int /\ y[k] \in Int
  <2>1. \A k \in 1 .. n : u.scaled[k] \in Nat /\ t.scaled[k] \in Nat
    BY <1>5, <1>6, <1>7
  <2>2. x[s] = t.scaled[s] - one /\ x[l] = t.scaled[l] - one
    BY <1>4, <1>8 DEF Excess
  <2>3. y[s] = 0 /\ y[l] = rest - one
    BY <1>4, <1>7, <1>8 DEF Excess
  <2>4. \A k \in 1 .. n : k # s /\ k # l => y[k] = x[k]
    BY <1>7, <1>8 DEF Excess
  <2>5. \A k \in 1 .. n : x[k] \in Int /\ y[k] \in Int
    BY <2>1, <1>1 DEF Excess
  <2> QED
    BY <2>2, <2>3, <2>4, <2>5
<1> HIDE DEF x, y
<1>12. y[s] + y[l] = x[s] + x[l]
  BY <1>1, <1>6, <1>11 DEF rest
<1>13. SumOn(y, 1 .. n) = 0
  <2>1. \A k \in (1 .. n) \ {s, l} : y[k] = x[k]
    BY <1>11
  <2>2. \A k \in 1 .. n : x[k] \in Int /\ y[k] \in Int
    BY <1>11
  <2> QED
    BY <2>1, <2>2, <1>1, <1>2, <1>4, <1>12, SumOnMoved
<1>14. ASSUME NEW k \in 1 .. n
       PROVE  SumOn(Share(u, n, one, k), 1 .. n) + y[k] = n * w[k]
  <2> DEFINE f == Share(t, n, one, k)
             g == Share(u, n, one, k)
             gain == IF k = s THEN t.scaled[s] - one ELSE IF k = l THEN one - t.scaled[s] ELSE 0
  <2>1. gain \in Int
    BY <1>1, <1>6
  <2>2. \A b \in 1 .. n : f[b] \in Int
    BY <1>1, <1>2 DEF Share
  <2>3. \A b \in (1 .. n) \ {s} : g[b] = f[b]
    BY <1>7 DEF Share
  <2>4. g[s] = f[s] + gain
    <3>1. t.prob[s] = one /\ t.alias[s] = s /\ u.prob[s] = t.scaled[s] /\ u.alias[s] = l
      BY <1>2, <1>4, <1>7, <1>8
    <3>2. f[s] = (IF s = k THEN one ELSE 0) + (IF s = k THEN one - one ELSE 0)
      BY <3>1, <1>4 DEF Share
    <3>3. g[s] = (IF s = k THEN t.scaled[s] ELSE 0) + (IF l = k THEN one - t.scaled[s] ELSE 0)
      BY <3>1, <1>4 DEF Share
    <3> QED
      BY <3>2, <3>3, <1>1, <1>4, <1>6
  <2> HIDE DEF f, g, gain
  <2>5. SumOn(g, 1 .. n) = SumOn(f, 1 .. n) + gain
    <3> DEFINE S == 1 .. n
    <3>1. /\ IsFiniteSet(S) /\ s \in S /\ (\A b \in S : f[b] \in Int)
          /\ \A b \in S \ {s} : g[b] = f[b]
      BY <2>2, <2>3, <1>1, <1>4
    <3> HIDE DEF S
    <3>2. SumOn(g, S) = SumOn(f, S) + gain
      BY <3>1, <2>1, <2>4, SumOnChanged
    <3> QED
      BY <3>2 DEF S
  <2>6. SumOn(f, 1 .. n) \in Int
    BY <2>2, <1>1, SumOnIs
  <2>7. SumOn(f, 1 .. n) + x[k] = n * w[k]
    BY <1>2 DEF f
  <2>8. y[k] = x[k] - gain
    <3>1. CASE k = s
      BY <3>1, <1>1, <1>6, <1>11 DEF gain
    <3>2. CASE k = l
      <4> DEFINE a == t.scaled[s]
                 b == t.scaled[l]
      <4>1. gain = one - a /\ y[k] = rest - one /\ x[k] = b - one /\ rest = (b + a) - one
        BY <3>2, <1>4, <1>11 DEF gain, rest
      <4>2. a \in Nat /\ b \in Nat
        BY <1>6
      <4> HIDE DEF a, b
      <4> QED
        BY <4>1, <4>2, <1>1
    <3>3. CASE k # s /\ k # l
      BY <3>3, <1>11 DEF gain
    <3> QED
      BY <3>1, <3>2, <3>3
  <2>9. x[k] \in Int
    BY <1>11
  <2>10. SumOn(g, 1 .. n) + y[k] = SumOn(f, 1 .. n) + x[k]
    BY <2>1, <2>5, <2>6, <2>8, <2>9
  <2> QED
    BY <2>7, <2>10 DEF g
<1>15. Balanced(u, w)
  BY <1>b, <1>8, <1>9, <1>10, <1>13, <1>14 DEF Balanced, n, one, y
<1> QED
  BY <1>8, <1>15 DEF u, n, one

(* A turn of the pairing loop, which stops when a stack is empty.          *)
Stopped(t, n) == ~(t.small_top > 0 /\ t.large_bot < n)
Turn(t, w) == IF t.small_top > 0 /\ t.large_bot < Len(w) THEN PairUp(t, One(w)) ELSE t

(* What is left on the stacks, and what a turn does to a balanced table.   *)
Left(t, n) == t.small_top + (n - t.large_bot)

Turns(t, w) ==
  /\ Balanced(Turn(t, w), w)
  /\ Stopped(t, Len(w)) => Turn(t, w) = t
  /\ ~Stopped(t, Len(w)) => Left(Turn(t, w), Len(w)) = Left(t, Len(w)) - 1

(* A turn keeps the balance.                                               *)
LEMMA TurnBalanced ==
  ASSUME NEW w \in Seq(Nat \ {0}), NEW t, Balanced(t, w)
  PROVE  Turns(t, w)
<1>1. CASE Stopped(t, Len(w))
  BY <1>1 DEF Turn, Stopped, Turns
<1>2. CASE ~Stopped(t, Len(w))
  <2>1. t.small_top > 0 /\ t.large_bot < Len(w)
    BY <1>2 DEF Stopped
  <2>2. Turn(t, w) = PairUp(t, One(w))
    BY <2>1 DEF Turn
  <2>3. /\ Balanced(PairUp(t, One(w)), w)
        /\ PairUp(t, One(w)).small_top + (Len(w) - PairUp(t, One(w)).large_bot)
             = t.small_top + (Len(w) - t.large_bot) - 1
    BY <2>1, PairUpBalanced
  <2> QED
    <3>1. Balanced(Turn(t, w), w)
      BY <2>2, <2>3
    <3> DEFINE u == Turn(t, w)
    <3>2. u.small_top + (Len(w) - u.large_bot) = t.small_top + (Len(w) - t.large_bot) - 1
      BY <2>2, <2>3
    <3>3. Left(u, Len(w)) = Left(t, Len(w)) - 1
      <4>1. t \in Tables(Len(w)) /\ u \in Tables(Len(w)) /\ Len(w) \in Nat
        BY <3>1, OneIs DEF Balanced
      <4> HIDE DEF u
      <4> DEFINE a == t.small_top
                 b == t.large_bot
                 x == u.small_top
                 y == u.large_bot
                 n == Len(w)
      <4>2. /\ a \in Int /\ b \in Int /\ x \in Int /\ y \in Int /\ n \in Nat
            /\ x + (n - y) = a + (n - b) - 1
        BY <3>2, <4>1 DEF Tables
      <4>3. Left(u, n) = x + (n - y) /\ Left(t, n) = a + (n - b)
        BY DEF Left
      <4> HIDE DEF a, b, x, y, n
      <4>4. Left(u, n) = Left(t, n) - 1
        BY <4>2, <4>3
      <4> QED
        BY <4>4 DEF n
    <3> QED
      BY <1>2, <3>1, <3>3 DEF Turns
<1> QED
  BY <1>1, <1>2

(* The loop ends with a stack empty: a turn settles an entry, and there    *)
(* are as many turns as entries.                                           *)
LEMMA TableIs ==
  ASSUME NEW w \in Seq(Nat \ {0})
  PROVE  Balanced(Table(w), w) /\ Stopped(Table(w), Len(w))
<1> DEFINE n == Len(w)
           D == {t \in Tables(n) : Balanced(t, w)}
           a == Sorted(w)
           step == [i \in 1 .. n |-> [t \in D |-> Turn(t, w)]]
           IsRun(f) == f = [i \in 0 .. n |-> IF i = 0 THEN a ELSE Turn(f[i - 1], w)]
           f == CHOOSE g : IsRun(g)
<1>1. n \in Nat
  BY OneIs
<1>2. a \in D /\ Left(a, n) = n
  <2>1. Balanced(a, w) /\ Left(a, n) = n
    BY SortedBalanced DEF Left
  <2>2. a \in Tables(n)
    BY <2>1 DEF Balanced
  <2> QED
    BY <2>1, <2>2
<1>3. \A t \in D : Turn(t, w) \in D /\ Turns(t, w)
  <2>1. TAKE t \in D
  <2>2. Balanced(t, w)
    OBVIOUS
  <2>3. Turns(t, w)
    <3> HIDE DEF D
    <3> QED
      BY <2>2, TurnBalanced
  <2>4. Turn(t, w) \in Tables(n) /\ Balanced(Turn(t, w), w)
    BY <2>3 DEF Turns, Balanced
  <2>5. Turn(t, w) \in D
    BY <2>4
  <2> HIDE DEF D
  <2> QED
    BY <2>3, <2>5
<1>4. step \in [1 .. n -> [D -> D]]
  <2> HIDE DEF D
  <2> QED
    BY <1>3
<1>5. PICK g : Solves(g, n, D, a, step)
  <2> HIDE DEF n, D, a, step
  <2> QED
    BY <1>1, <1>2, <1>4, Recursion
<1>6. IsRun(g)
  <2> HIDE DEF D, a
  <2>1. g \in [0 .. n -> D] /\ g[0] = a /\ \A i \in 1 .. n : g[i] = step[i][g[i - 1]]
    BY <1>5 DEF Solves
  <2>2. ASSUME NEW i \in 1 .. n
        PROVE  g[i] = Turn(g[i - 1], w)
    <3>1. i - 1 \in 0 .. n
      BY <1>1
    <3>2. g[i - 1] \in D
      BY <2>1, <3>1
    <3> QED
      BY <2>1, <3>2
  <2> DEFINE v(i) == IF i = 0 THEN a ELSE Turn(g[i - 1], w)
  <2>3. ASSUME NEW i \in 0 .. n
        PROVE  g[i] = v(i)
    <3>1. i = 0 \/ i \in 1 .. n
      BY <1>1
    <3> QED
      BY <3>1, <2>1, <2>2
  <2>4. g = [i \in 0 .. n |-> g[i]]
    BY <2>1
  <2> HIDE DEF v
  <2>5. [i \in 0 .. n |-> g[i]] = [i \in 0 .. n |-> v(i)]
    BY <2>3
  <2> QED
    BY <2>4, <2>5 DEF v
<1>7. IsRun(f)
  <2> HIDE DEF IsRun
  <2> QED
    BY <1>6
<1>8. f[0] = a /\ \A i \in 1 .. n : f[i] = Turn(f[i - 1], w)
  <2>1. \A i \in 0 .. n : f[i] = IF i = 0 THEN a ELSE Turn(f[i - 1], w)
    <3> HIDE DEF f, a
    <3> QED
      BY <1>7
  <2> HIDE DEF f, a
  <2> QED
    BY <2>1, <1>1
<1>9. Table(w) = f[n]
  BY DEF Table, Turn
<1> HIDE DEF f, D, a
<1>10. \A i \in 0 .. n : f[i] \in D
  <2>1. f[0] \in D /\ \A i \in 1 .. n : f[i - 1] \in D => f[i] \in D
    BY <1>2, <1>3, <1>8
  <2> HIDE DEF n
  <2> QED
    BY <2>1, <1>1, Stays
<1> DEFINE Wrong == {i \in 0 .. n : ~(Stopped(f[i], n) \/ Left(f[i], n) = n - i)}
<1>11. ASSUME Wrong # {} PROVE FALSE
  <2>1. PICK i \in Wrong : \A j \in Wrong : i <= j
    <3>1. Wrong \subseteq Nat
      BY <1>1
    <3> HIDE DEF Wrong
    <3> QED
      BY <1>11, <3>1, LeastNumber
  <2>2. i # 0
    BY <2>1, <1>1, <1>2, <1>8
  <2>3. i \in 1 .. n /\ i - 1 \in 0 .. n /\ i - 1 \notin Wrong
    BY <2>1, <2>2, <1>1
  <2>4. f[i - 1] \in D /\ f[i] = Turn(f[i - 1], w)
    BY <2>3, <1>8, <1>10
  <2>5. CASE Stopped(f[i - 1], n)
    <3>1. f[i] = f[i - 1]
      BY <2>4, <2>5, <1>3 DEF Turns
    <3> QED
      BY <2>1, <2>5, <3>1
  <2>6. CASE ~Stopped(f[i - 1], n)
    <3>1. Left(f[i], n) = Left(f[i - 1], n) - 1 /\ Left(f[i - 1], n) = n - (i - 1)
      BY <2>3, <2>4, <2>6, <1>3 DEF Turns
    <3>2. Left(f[i], n) = n - i
      BY <2>3, <3>1, <1>1
    <3> QED
      BY <2>1, <3>2
  <2> QED
    BY <2>5, <2>6
<1>12. Balanced(f[n], w) /\ Stacked(f[n], n, One(w))
  BY <1>1, <1>10 DEF D, Balanced
<1>13. Stopped(f[n], n)
  <2>1. n \in 0 .. n /\ n \notin Wrong
    BY <1>1, <1>11
  <2>2. Stopped(f[n], n) \/ Left(f[n], n) = 0
    BY <2>1, <1>1
  <2>3. ASSUME Left(f[n], n) = 0 PROVE ~(f[n].small_top > 0)
    BY <2>3, <1>1, <1>12 DEF Left, Stacked
  <2> QED
    BY <2>2, <2>3 DEF Stopped
<1> QED
  BY <1>9, <1>12, <1>13

(* A table with which every entry owns its share.                          *)
Fair(t, w) ==
  /\ t \in Tables(Len(w))
  /\ \A b \in 1 .. Len(w) : t.prob[b] \in 0 .. One(w)
  /\ \A k \in 1 .. Len(w) : SumOn(Share(t, Len(w), One(w), k), 1 .. Len(w)) = Len(w) * w[k]

(* When a stack is empty the entries left on the other one have nothing to *)
(* give or to take.                                                        *)
LEMMA StoppedIsFair ==
  ASSUME NEW w \in Seq(Nat \ {0}), NEW t, Balanced(t, w), Stopped(t, Len(w))
  PROVE  Fair(t, w)
<1> DEFINE n == Len(w)
           one == One(w)
           x == Excess(t, n, one)
           zero == [k \in 1 .. n |-> 0]
<1>1. n \in Nat /\ one \in Nat /\ w \in [1 .. n -> Nat \ {0}] /\ IsFiniteSet(1 .. n)
  BY OneIs
<1>2. /\ t \in Tables(n) /\ Stacked(t, n, one)
      /\ \A k \in 1 .. n : t.prob[k] \in 0 .. one
      /\ \A k \in 1 .. n : SumOn(Share(t, n, one, k), 1 .. n) + x[k] = n * w[k]
      /\ SumOn(x, 1 .. n) = 0
  BY DEF Balanced
<1>3. ~(t.small_top > 0 /\ t.large_bot < n)
  BY DEF Stopped
<1> HIDE DEF n, one
<1>4. t.scaled \in [1 .. n -> Nat] /\ t.small_top \in Int /\ t.large_bot \in Int
  BY <1>2 DEF Tables
<1>5. /\ t.small_top \in 0 .. n /\ t.large_bot \in 0 .. n /\ t.small_top <= t.large_bot
      /\ \A i \in Slots(t, n) : t.work[i] \in 1 .. n
      /\ \A i \in 1 .. t.small_top : t.scaled[t.work[i]] < one
      /\ \A i \in t.large_bot + 1 .. n : t.scaled[t.work[i]] >= one
  BY <1>2 DEF Stacked
<1>6. \A k \in 1 .. n : x[k] \in Int
  BY <1>1, <1>4 DEF Excess
<1>7. (\A k \in 1 .. n : 0 <= x[k]) \/ (\A k \in 1 .. n : x[k] <= 0)
  <2>1. CASE t.small_top <= 0
    <3>1. ASSUME NEW k \in 1 .. n PROVE 0 <= x[k]
      <4>1. CASE k \in OnStack(t, n)
        <5>1. PICK i \in Slots(t, n) : k = t.work[i]
          BY <4>1 DEF OnStack
        <5>2. i \in t.large_bot + 1 .. n
          BY <5>1, <2>1, <1>1, <1>5 DEF Slots
        <5>3. t.scaled[k] >= one
          BY <5>1, <5>2, <1>5
        <5>4. x[k] = t.scaled[k] - one /\ t.scaled[k] \in Nat
          BY <4>1, <1>4 DEF Excess
        <5> QED
          BY <5>3, <5>4, <1>1
      <4>2. CASE k \notin OnStack(t, n)
        BY <4>2 DEF Excess
      <4> QED
        BY <4>1, <4>2
    <3> QED
      BY <3>1
  <2>2. CASE t.large_bot >= n
    <3>1. ASSUME NEW k \in 1 .. n PROVE x[k] <= 0
      <4>1. CASE k \in OnStack(t, n)
        <5>1. PICK i \in Slots(t, n) : k = t.work[i]
          BY <4>1 DEF OnStack
        <5>2. i \in 1 .. t.small_top
          BY <5>1, <2>2, <1>1, <1>5 DEF Slots
        <5>3. t.scaled[k] < one
          BY <5>1, <5>2, <1>5
        <5>4. x[k] = t.scaled[k] - one /\ t.scaled[k] \in Nat
          BY <4>1, <1>4 DEF Excess
        <5> QED
          BY <5>3, <5>4, <1>1
      <4>2. CASE k \notin OnStack(t, n)
        BY <4>2 DEF Excess
      <4> QED
        BY <4>1, <4>2
    <3> QED
      BY <3>1
  <2> QED
    BY <2>1, <2>2, <1>1, <1>3, <1>4
<1>8. \A k \in 1 .. n : zero[k] = 0
  OBVIOUS
<1> HIDE DEF x, zero
<1>9. SumOn(zero, 1 .. n) = 0
  BY <1>1, <1>8, SumOnZero
<1>10. ASSUME NEW k \in 1 .. n PROVE x[k] = 0
  <2>1. CASE \A e \in 1 .. n : 0 <= x[e]
    <3>1. \A e \in 1 .. n : zero[e] \in Int /\ x[e] \in Int /\ zero[e] <= x[e]
      BY <2>1, <1>6, <1>8
    <3> DEFINE S == 1 .. n
    <3>2. /\ IsFiniteSet(S) /\ k \in S /\ SumOn(zero, S) = SumOn(x, S)
          /\ AtMost(zero, x, S)
      BY <3>1, <1>1, <1>2, <1>9 DEF AtMost
    <3> HIDE DEF S
    <3>3. zero[k] = x[k]
      BY <3>2, SumOnTight
    <3> QED
      BY <3>3, <1>8
  <2>2. CASE \A e \in 1 .. n : x[e] <= 0
    <3>1. \A e \in 1 .. n : x[e] \in Int /\ zero[e] \in Int /\ x[e] <= zero[e]
      BY <2>2, <1>6, <1>8
    <3> DEFINE S == 1 .. n
    <3>2. /\ IsFiniteSet(S) /\ k \in S /\ SumOn(x, S) = SumOn(zero, S)
          /\ AtMost(x, zero, S)
      BY <3>1, <1>1, <1>2, <1>9 DEF AtMost
    <3> HIDE DEF S
    <3>3. x[k] = zero[k]
      BY <3>2, SumOnTight
    <3> QED
      BY <3>3, <1>8
  <2> QED
    BY <2>1, <2>2, <1>7
<1>11. ASSUME NEW k \in 1 .. n
       PROVE  SumOn(Share(t, n, one, k), 1 .. n) = n * w[k]
  <2> DEFINE f == Share(t, n, one, k)
  <2>1. \A b \in 1 .. n : f[b] \in Int
    BY <1>1, <1>2 DEF Share
  <2> HIDE DEF f
  <2>2. SumOn(f, 1 .. n) \in Int
    BY <2>1, <1>1, SumOnIs
  <2>3. SumOn(f, 1 .. n) + x[k] = n * w[k]
    BY <1>2 DEF f
  <2>4. SumOn(f, 1 .. n) = n * w[k]
    BY <2>2, <2>3, <1>10
  <2> QED
    BY <2>4 DEF f
<1> QED
  BY <1>2, <1>11 DEF Fair, n, one

(* Equal weights need no table.                                            *)
LEMMA UniformIsFair ==
  ASSUME NEW w \in Seq(Nat \ {0}), w # << >>, Uniform(w)
  PROVE  Fair(Unpaired(w), w)
<1> DEFINE n == Len(w)
           one == One(w)
           t == Unpaired(w)
           zero == [k \in 1 .. n |-> 0]
<1>1. n \in Nat /\ one \in Nat /\ DOMAIN w = 1 .. n /\ w \in [1 .. n -> Nat \ {0}]
      /\ IsFiniteSet(1 .. n) /\ Cardinality(1 .. n) = n /\ one = SumOn(w, 1 .. n)
  BY OneIs
<1>2. n > 0
  BY <1>1, EmptySeq
<1>3. /\ t \in Tables(n)
      /\ \A k \in 1 .. n : t.prob[k] = one /\ t.alias[k] = k
  BY UnpairedIs
<1>4. \A k \in 1 .. n : w[k] = w[1] /\ w[k] \in Nat
  BY <1>1 DEF Uniform
<1> HIDE DEF n, one, t
<1>5. one = n * w[1]
  <2> DEFINE c == w[1]
             m == 0 - c
             S == 1 .. n
  <2>1. c \in Nat /\ m \in Int /\ 0 \in Int
    BY <1>1, <1>2
  <2>2. \A k \in 1 .. n : zero[k] = 0
    OBVIOUS
  <2>3. SumOn(zero, S) = 0
    <3> HIDE DEF zero
    <3> QED
      BY <2>2, <1>1, SumOnZero
  <2>4. \A k \in S : zero[k] \in Int /\ w[k] = 0 * zero[k] - m
    <3> TAKE k \in S
    <3>1. w[k] = c /\ zero[k] = 0
      BY <1>4
    <3> HIDE DEF zero, c, S
    <3> QED
      BY <3>1, <2>1
  <2>5. IsFiniteSet(S) /\ Cardinality(S) = n /\ one = SumOn(w, S)
    BY <1>1
  <2> HIDE DEF zero, c, S, m
  <2>6. Shifts(w, zero, S, 0, m)
    BY <2>4 DEF Shifts
  <2>7. SumOn(w, S) = 0 * SumOn(zero, S) - m * Cardinality(S)
    BY <2>1, <2>5, <2>6, SumOnShifted
  <2>8. one = n * c
    BY <2>1, <2>3, <2>5, <2>7, <1>1 DEF m
  <2> QED
    BY <2>8 DEF c
<1>6. ASSUME NEW k \in 1 .. n
      PROVE  SumOn(Share(t, n, one, k), 1 .. n) = n * w[k]
  <2>1. Unshared(t, n, one)
    BY <1>3 DEF Unshared
  <2>2. SumOn(Share(t, n, one, k), 1 .. n) = one
    BY <2>1, <1>1, OwnsOne
  <2> QED
    BY <2>2, <1>4, <1>5
<1>7. \A b \in 1 .. n : t.prob[b] \in 0 .. one
  BY <1>1, <1>3
<1> QED
  BY <1>3, <1>6, <1>7 DEF Fair, n, one, t

(* The picker of a range.                                                  *)
LEMMA PickerIsFair ==
  ASSUME NEW w \in Seq(Nat \ {0}), w # << >>
  PROVE  Fair(Picker(w), w)
<1>1. CASE Uniform(w)
  BY <1>1, UniformIsFair DEF Picker
<1>2. CASE ~Uniform(w)
  BY <1>2, TableIs, StoppedIsFair DEF Picker
<1> QED
  BY <1>1, <1>2

(* A fair table picks an entry with as many draws as it owns.              *)
LEMMA FairPicks ==
  ASSUME NEW w \in Seq(Nat \ {0}), NEW t, Fair(t, w), NEW k \in 1 .. Len(w)
  PROVE  Cardinality({x \in Draws(w) : Picked(t, x) = k}) = Len(w) * w[k]
<1> DEFINE n == Len(w)
           one == One(w)
           F == 1 .. n
           X == 0 .. one - 1
           g == [b \in F |-> {x \in X : Picked(t, <<b, x>>) = k}]
           c == Share(t, n, one, k)
<1>1. n \in Nat /\ one \in Nat /\ DOMAIN w = F /\ IsFiniteSet(F)
  BY OneIs
<1>2. /\ t \in Tables(n)
      /\ \A b \in F : t.prob[b] \in 0 .. one
      /\ SumOn(c, F) = n * w[k]
  BY DEF Fair
<1> HIDE DEF n, one
<1>3. IsFiniteSet(X)
  BY <1>1, FS_Interval
<1>4. ASSUME NEW b \in F
      PROVE  g[b] \subseteq X /\ Cardinality(g[b]) = c[b]
  <2> DEFINE p == t.prob[b]
             a == t.alias[b]
             low == 0 .. p - 1
             high == p .. one - 1
  <2>1. p \in 0 .. one
    BY <1>2
  <2>2. g[b] = {x \in X : (IF x < p THEN b ELSE a) = k}
    BY DEF Picked
  <2>3. c[b] = (IF b = k THEN p ELSE 0) + (IF a = k THEN one - p ELSE 0)
    BY DEF Share
  <2> HIDE DEF g, c, p, a
  <2>4. Cardinality(low) = p /\ Cardinality(high) = one - p /\ Cardinality(X) = one
    <3>1. 0 \in Int /\ p \in Int /\ p - 1 \in Int /\ one - 1 \in Int
      BY <2>1, <1>1
    <3>2. Cardinality(low) = IF 0 > p - 1 THEN 0 ELSE (p - 1) - 0 + 1
      BY <3>1, FS_Interval
    <3>3. Cardinality(high) = IF p > one - 1 THEN 0 ELSE (one - 1) - p + 1
      BY <3>1, FS_Interval
    <3>4. Cardinality(X) = IF 0 > one - 1 THEN 0 ELSE (one - 1) - 0 + 1
      BY <3>1, FS_Interval
    <3> HIDE DEF low, high, X
    <3> QED
      BY <3>2, <3>3, <3>4, <2>1, <1>1
  <2>5. CASE b = k /\ a = k
    <3>1. g[b] = X
      BY <2>2, <2>5
    <3> QED
      BY <3>1, <2>1, <2>3, <2>4, <2>5, <1>1
  <2>6. CASE b = k /\ a # k
    <3>1. g[b] = low
      BY <2>1, <2>2, <2>6, <1>1
    <3>2. low \subseteq X
      BY <2>1, <1>1
    <3> QED
      BY <3>1, <3>2, <2>1, <2>3, <2>4, <2>6, <1>1
  <2>7. CASE b # k /\ a = k
    <3>1. g[b] = high
      BY <2>1, <2>2, <2>7, <1>1
    <3>2. high \subseteq X
      BY <2>1, <1>1
    <3> QED
      BY <3>1, <3>2, <2>1, <2>3, <2>4, <2>7, <1>1
  <2>8. CASE b # k /\ a # k
    <3>1. g[b] = {}
      BY <2>2, <2>8
    <3> QED
      BY <3>1, <2>3, <2>8, FS_EmptySet
  <2> QED
    BY <2>5, <2>6, <2>7, <2>8
<1>5. {x \in Draws(w) : Picked(t, x) = k} = Pairs(F, X, g)
  <2>1. Draws(w) = F \X X
    BY <1>1 DEF Draws, one
  <2>2. ASSUME NEW x \in F \X X
        PROVE  Picked(t, x) = k <=> x[2] \in g[x[1]]
    <3>1. x = <<x[1], x[2]>> /\ x[1] \in F /\ x[2] \in X
      BY <2>2
    <3>2. g[x[1]] = {y \in X : Picked(t, <<x[1], y>>) = k}
      BY <3>1
    <3> HIDE DEF g
    <3> QED
      BY <3>1, <3>2
  <2> HIDE DEF F, X, g
  <2> QED
    BY <2>1, <2>2 DEF Pairs
<1> HIDE DEF F, X, g, c
<1>6. Cardinality(Pairs(F, X, g)) = SumOn(c, F)
  BY <1>1, <1>3, <1>4, SharesAddUp
<1> QED
  BY <1>2, <1>5, <1>6 DEF n

(* Each side is drawn with the picker of its own weights.                  *)
Tabled(side) ==
  side.weights \in Seq(Nat \ {0}) /\ side.weights # << >> /\ side.table = Picker(side.weights)

TablesBuilt == Tabled(call.hero) /\ Tabled(call.villain)

(* The pickers are built with the call and stay.                           *)
LEMMA InitTabled == Init => TablesBuilt
<1> SUFFICES ASSUME Init PROVE TablesBuilt
  OBVIOUS
<1>1. PICK c \in Calls : call = [c EXCEPT !.hero = WithTable(@), !.villain = WithTable(@)]
  BY DEF Init
<1>2. DOMAIN c = {"cards", "hero", "villain"}
  BY SamplerAssumption
<1>3. ASSUME NEW side \in {c.hero, c.villain}
      PROVE  Tabled(WithTable(side))
  <2>1. side.weights # << >> /\ side.weights \in Seq(Nat \ {0})
    BY SamplerAssumption
  <2>2. WithTable(side).weights = side.weights /\ WithTable(side).table = Picker(side.weights)
    BY DEF WithTable
  <2> QED
    BY <2>1, <2>2 DEF Tabled
<1>4. call.hero = WithTable(c.hero) /\ call.villain = WithTable(c.villain)
  BY <1>1, <1>2
<1> QED
  BY <1>3, <1>4 DEF TablesBuilt

(* No step touches the pickers.                                            *)
LEMMA StepTabled == TablesBuilt /\ [Next]_vars => TablesBuilt'
<1> SUFFICES ASSUME TablesBuilt, [Next]_vars PROVE TablesBuilt'
  OBVIOUS
<1>1. call' = call
  BY DEF Next, Step, Claim, AcceptPair, RejectPair, DealCard, Showdown, vars
<1>2. Tabled(call.hero)' /\ Tabled(call.villain)'
  BY <1>1 DEF TablesBuilt, Tabled
<1> QED
  BY <1>2 DEF TablesBuilt

(* With a built picker a combo is drawn as often as its weight says.       *)
LEMMA TabledPicks ==
  ASSUME NEW side, Tabled(side), NEW k \in DOMAIN side.weights
  PROVE  Cardinality({x \in Draws(side.weights) : Picked(side.table, x) = k})
           = Len(side.weights) * side.weights[k]
<1> DEFINE w == side.weights
           t == side.table
<1>1. w \in Seq(Nat \ {0}) /\ w # << >> /\ t = Picker(w)
  BY DEF Tabled
<1>2. k \in 1 .. Len(w)
  BY <1>1, LenProperties
<1> HIDE DEF w, t
<1>3. Fair(t, w)
  BY <1>1, PickerIsFair
<1>4. Cardinality({x \in Draws(w) : Picked(t, x) = k}) = Len(w) * w[k]
  BY <1>1, <1>2, <1>3, FairPicks
<1> QED
  BY <1>4 DEF w, t

(* Property PairsAreProportional of the runs. The picker (alias_picker.h)  *)
(* gives every combo exactly the share its weight asks for, whatever the   *)
(* weights: of the equally likely draws of a bucket and a coin on either   *)
(* side, a pair of combos owns the product of the two shares.              *)
THEOREM PairsInProportion == Spec => []PairsAreProportional
<1>1. TablesBuilt => PairsAreProportional
  <2> SUFFICES ASSUME TablesBuilt,
                      NEW h \in DOMAIN call.hero.weights, NEW v \in DOMAIN call.villain.weights
               PROVE  Cardinality({x \in Draws(call.hero.weights) : Picked(call.hero.table, x) = h})
                        * Cardinality({x \in Draws(call.villain.weights) :
                                         Picked(call.villain.table, x) = v})
                      = (Len(call.hero.weights) * call.hero.weights[h])
                          * (Len(call.villain.weights) * call.villain.weights[v])
    BY DEF PairsAreProportional
  <2>1. /\ Cardinality({x \in Draws(call.hero.weights) : Picked(call.hero.table, x) = h})
             = Len(call.hero.weights) * call.hero.weights[h]
        /\ Cardinality({x \in Draws(call.villain.weights) : Picked(call.villain.table, x) = v})
             = Len(call.villain.weights) * call.villain.weights[v]
    BY TabledPicks DEF TablesBuilt
  <2> QED
    BY <2>1
<1> QED
  BY <1>1, InitTabled, StepTabled, PTL DEF Spec

-----------------------------------------------------------------------------
(* The draws f of a board of m cards, and the orders g they take the deck  *)
(* through.                                                                *)
IsDeal(f, g, order, dead, m, n) ==
  /\ f \in [1 .. m -> 0 .. n - 1] /\ g \in [0 .. m -> Shuffles(n)] /\ g[0] = order
  /\ \A k \in 1 .. m : /\ f[k] \in k - 1 .. n - 1
                       /\ g[k - 1][f[k]] \notin dead
                       /\ g[k] = Swap(g[k - 1], k - 1, f[k])

(* The cards dealt by the draws before the k-th stay in front.             *)
FrontAt(f, g, k) == \A i \in 0 .. k - 1 : g[k][i] = g[i][f[i + 1]]

(* A draw adds its card to them.                                           *)
LEMMA FrontGoesOn ==
  ASSUME NEW n \in Nat, NEW m \in 0 .. n, NEW order, NEW dead, NEW f, NEW g,
         IsDeal(f, g, order, dead, m, n), NEW k \in 1 .. m, FrontAt(f, g, k - 1)
  PROVE  FrontAt(f, g, k)
<1> DEFINE o == g[k - 1]
           j == f[k]
<1>1. /\ o \in Shuffles(n) /\ k - 1 \in 0 .. n - 1 /\ j \in 0 .. n - 1 /\ j >= k - 1
      /\ g[k] = Swap(o, k - 1, j)
  <2>1. k - 1 \in 0 .. m /\ k - 1 \in 0 .. n - 1
    OBVIOUS
  <2> QED
    BY <2>1 DEF IsDeal
<1>2. \A i \in 0 .. (k - 1) - 1 : o[i] = g[i][f[i + 1]]
  BY DEF FrontAt
<1>3. o[j] = g[k - 1][f[(k - 1) + 1]]
  OBVIOUS
<1> HIDE DEF o, j
<1>4. /\ g[k][k - 1] = o[j]
      /\ \A x \in 0 .. n - 1 : x < k - 1 /\ x < j => g[k][x] = o[x]
  BY <1>1, SwapPermutes
<1> SUFFICES ASSUME NEW i \in 0 .. k - 1 PROVE g[k][i] = g[i][f[i + 1]]
  BY DEF FrontAt
<1>5. CASE i = k - 1
  BY <1>3, <1>4, <1>5
<1>6. CASE i # k - 1
  <2>1. i \in 0 .. (k - 1) - 1 /\ i \in 0 .. n - 1 /\ i < k - 1 /\ i < j
    BY <1>1, <1>6
  <2> QED
    BY <2>1, <1>2, <1>4
<1> QED
  BY <1>5, <1>6

(* So the front of the deck shows what every draw took, and these are live *)
(* cards.                                                                  *)
LEMMA FrontIs ==
  ASSUME NEW n \in Nat, NEW m \in 0 .. n, NEW order, NEW dead, NEW f, NEW g,
         IsDeal(f, g, order, dead, m, n)
  PROVE  /\ \A k \in 0 .. m : FrontAt(f, g, k)
         /\ \A i \in 0 .. m - 1 : g[m][i] \in (0 .. n - 1) \ dead
<1> DEFINE Wrong == {k \in 0 .. m : ~FrontAt(f, g, k)}
<1>1. ASSUME Wrong # {} PROVE FALSE
  <2>1. PICK k \in Wrong : \A j \in Wrong : k <= j
    <3>1. Wrong \subseteq Nat
      OBVIOUS
    <3> HIDE DEF Wrong
    <3> QED
      BY <1>1, <3>1, LeastNumber
  <2>2. k # 0
    BY <2>1 DEF FrontAt
  <2>3. k \in 1 .. m /\ k - 1 \in 0 .. m /\ k - 1 \notin Wrong
    BY <2>1, <2>2
  <2>4. FrontAt(f, g, k - 1)
    BY <2>3
  <2>5. FrontAt(f, g, k)
    BY <2>3, <2>4, FrontGoesOn
  <2> QED
    BY <2>1, <2>5
<1>2. \A k \in 0 .. m : FrontAt(f, g, k)
  BY <1>1
<1>3. ASSUME NEW i \in 0 .. m - 1 PROVE g[m][i] \in (0 .. n - 1) \ dead
  <2>1. i + 1 \in 1 .. m /\ (i + 1) - 1 = i /\ i \in 0 .. m /\ m \in 0 .. m /\ i \in 0 .. n - 1
    OBVIOUS
  <2>2. g[m][i] = g[i][f[i + 1]]
    BY <2>1, <1>2 DEF FrontAt
  <2>3. g[i][f[i + 1]] \notin dead
    BY <2>1 DEF IsDeal
  <2>4. g[m] \in [0 .. n - 1 -> 0 .. n - 1]
    BY <2>1 DEF IsDeal, Shuffles
  <2> QED
    BY <2>1, <2>2, <2>3, <2>4
<1> QED
  BY <1>2, <1>3

(* Two deals off the same deck that show the same front are the same.      *)
LEMMA FrontDecides ==
  ASSUME NEW n \in Nat, NEW m \in 0 .. n, NEW order, NEW dead, NEW f, NEW g, NEW p, NEW q,
         IsDeal(f, g, order, dead, m, n), IsDeal(p, q, order, dead, m, n),
         \A i \in 0 .. m - 1 : g[m][i] = q[m][i]
  PROVE  g[m] = q[m]
<1> DEFINE Wrong == {k \in 0 .. m : g[k] # q[k]}
<1>1. ASSUME Wrong # {} PROVE FALSE
  <2>1. PICK k \in Wrong : \A j \in Wrong : k <= j
    <3>1. Wrong \subseteq Nat
      OBVIOUS
    <3> HIDE DEF Wrong
    <3> QED
      BY <1>1, <3>1, LeastNumber
  <2>2. k # 0
    BY <2>1 DEF IsDeal
  <2>3. k \in 1 .. m /\ k - 1 \in 0 .. m /\ k - 1 \notin Wrong
    BY <2>1, <2>2
  <2>4. g[k - 1] = q[k - 1]
    BY <2>3
  <2>5. (\A i \in 0 .. m : FrontAt(f, g, i)) /\ (\A i \in 0 .. m : FrontAt(p, q, i))
    BY FrontIs
  <2>6. FrontAt(f, g, m) /\ FrontAt(p, q, m) /\ k - 1 \in 0 .. m - 1 /\ (k - 1) + 1 = k
    BY <2>3, <2>5
  <2>7. g[k - 1][f[k]] = q[k - 1][p[k]]
    BY <2>6 DEF FrontAt
  <2>8. f[k] \in 0 .. n - 1 /\ p[k] \in 0 .. n - 1 /\ g[k - 1] \in Shuffles(n)
    BY <2>3 DEF IsDeal
  <2>9. f[k] = p[k]
    BY <2>4, <2>7, <2>8 DEF Shuffles
  <2>10. g[k] = Swap(g[k - 1], k - 1, f[k]) /\ q[k] = Swap(q[k - 1], k - 1, p[k])
    BY <2>3 DEF IsDeal
  <2> QED
    BY <2>1, <2>4, <2>9, <2>10
<1> QED
  BY <1>1

(* A permutation has every card in some place.                             *)
Place(o, c, n) == CHOOSE i \in 0 .. n - 1 : o[i] = c

(* As its name says.                                                       *)
LEMMA PlaceIs ==
  ASSUME NEW n \in Nat, NEW o \in Shuffles(n), NEW c \in 0 .. n - 1
  PROVE  Place(o, c, n) \in 0 .. n - 1 /\ o[Place(o, c, n)] = c
<1> DEFINE C == 0 .. n - 1
<1>1. IsFiniteSet(C)
  <2>1. 0 \in Int /\ n - 1 \in Int
    OBVIOUS
  <2> QED
    BY <2>1, FS_Interval
<1>2. o \in [C -> C] /\ \A x, y \in C : o[x] = o[y] => x = y
  BY DEF Shuffles
<1> HIDE DEF C
<1>3. o \in Injection(C, C)
  BY <1>2 DEF Injection, IsInjective
<1>4. o \in Surjection(C, C)
  BY <1>1, <1>3, FS_Injection
<1>5. \E i \in C : o[i] = c
  BY <1>4 DEF Surjection, C
<1> QED
  BY <1>5 DEF Place, C

(* A front of m live cards, no card twice, and a deck that shows k of      *)
(* them.                                                                   *)
IsFront(p, dead, m, n) ==
  /\ p \in [0 .. m - 1 -> (0 .. n - 1) \ dead]
  /\ \A x, y \in 0 .. m - 1 : p[x] = p[y] => x = y

Shows(o, p, k) == \A i \in 0 .. k - 1 : o[i] = p[i]

(* The next card is behind the ones that are dealt, and comes to the       *)
(* front.                                                                  *)
LEMMA NextShows ==
  ASSUME NEW n \in Nat, NEW m \in 0 .. n, NEW dead, NEW p, IsFront(p, dead, m, n),
         NEW k \in 1 .. m, NEW o \in Shuffles(n), Shows(o, p, k - 1)
  PROVE  LET j == Place(o, p[k - 1], n)
         IN  /\ j \in k - 1 .. n - 1 /\ o[j] \notin dead
             /\ Swap(o, k - 1, j) \in Shuffles(n) /\ Shows(Swap(o, k - 1, j), p, k)
<1> DEFINE c == p[k - 1]
           j == Place(o, c, n)
<1>1. k - 1 \in 0 .. m - 1 /\ k - 1 \in 0 .. n - 1
  OBVIOUS
<1>2. c \in (0 .. n - 1) \ dead
  BY <1>1 DEF IsFront
<1>3. j \in 0 .. n - 1 /\ o[j] = c
  <2> HIDE DEF c
  <2> QED
    BY <1>2, PlaceIs
<1> HIDE DEF j
<1>4. j >= k - 1
  <2> SUFFICES ASSUME j < k - 1 PROVE FALSE
    BY <1>1, <1>3
  <2>1. j \in 0 .. (k - 1) - 1 /\ j \in 0 .. m - 1
    BY <1>1, <1>3
  <2>2. p[j] = p[k - 1]
    BY <2>1, <1>3 DEF Shows
  <2> QED
    BY <2>1, <2>2, <1>1 DEF IsFront
<1>5. /\ Swap(o, k - 1, j) \in Shuffles(n)
      /\ Swap(o, k - 1, j)[k - 1] = o[j]
      /\ \A x \in 0 .. n - 1 : x < k - 1 /\ x < j => Swap(o, k - 1, j)[x] = o[x]
  BY <1>1, <1>3, SwapPermutes
<1>6. ASSUME NEW i \in 0 .. k - 1 PROVE Swap(o, k - 1, j)[i] = p[i]
  <2>1. CASE i = k - 1
    BY <2>1, <1>3, <1>5
  <2>2. CASE i # k - 1
    <3>1. i \in 0 .. (k - 1) - 1 /\ i \in 0 .. n - 1 /\ i < k - 1 /\ i < j
      BY <2>2, <1>4, <1>3
    <3> QED
      BY <3>1, <1>5 DEF Shows
  <2> QED
    BY <2>1, <2>2
<1>7. Shows(Swap(o, k - 1, j), p, k)
  BY <1>6 DEF Shows
<1>8. j \in k - 1 .. n - 1 /\ o[j] \notin dead
  BY <1>1, <1>2, <1>3, <1>4
<1> QED
  BY <1>5, <1>7, <1>8 DEF j

(* Every front of live cards is dealt by some draws.                       *)
LEMMA FrontExists ==
  ASSUME NEW n \in Nat, NEW m \in 0 .. n, NEW dead, NEW p, IsFront(p, dead, m, n),
         NEW order \in Shuffles(n)
  PROVE  \E f, g : IsDeal(f, g, order, dead, m, n) /\ Shows(g[m], p, m)
<1> DEFINE D == Shuffles(n)
           step == [k \in 1 .. m |-> [o \in D |-> Swap(o, k - 1, Place(o, p[k - 1], n))]]
<1>1. step \in [1 .. m -> [D -> D]]
  <2>1. ASSUME NEW k \in 1 .. m, NEW o \in D
        PROVE  Swap(o, k - 1, Place(o, p[k - 1], n)) \in D
    <3>1. k - 1 \in 0 .. n - 1 /\ k - 1 \in 0 .. m - 1
      OBVIOUS
    <3>2. p[k - 1] \in 0 .. n - 1
      BY <3>1 DEF IsFront
    <3>3. Place(o, p[k - 1], n) \in 0 .. n - 1
      BY <3>2, PlaceIs
    <3> QED
      BY <3>1, <3>3, SwapPermutes
  <2> HIDE DEF D
  <2> QED
    BY <2>1
<1>2. PICK g : Solves(g, m, D, order, step)
  <2> HIDE DEF D, step
  <2> QED
    BY <1>1, Recursion DEF D
<1> DEFINE j(k) == Place(g[k - 1], p[k - 1], n)
           f == [k \in 1 .. m |-> j(k)]
<1>3. /\ g \in [0 .. m -> D] /\ g[0] = order
      /\ \A k \in 1 .. m : g[k] = Swap(g[k - 1], k - 1, j(k))
  <2>1. g \in [0 .. m -> D] /\ g[0] = order /\ \A k \in 1 .. m : g[k] = step[k][g[k - 1]]
    BY <1>2 DEF Solves
  <2>2. ASSUME NEW k \in 1 .. m PROVE g[k] = Swap(g[k - 1], k - 1, j(k))
    <3>1. k - 1 \in 0 .. m
      OBVIOUS
    <3>2. g[k - 1] \in D
      BY <2>1, <3>1
    <3> HIDE DEF D
    <3> QED
      BY <2>1, <3>2
  <2> QED
    BY <2>1, <2>2
<1> HIDE DEF j
<1> DEFINE Wrong == {k \in 0 .. m : ~Shows(g[k], p, k)}
<1>4. ASSUME NEW k \in 1 .. m, Shows(g[k - 1], p, k - 1)
      PROVE  /\ j(k) \in k - 1 .. n - 1 /\ g[k - 1][j(k)] \notin dead
             /\ Shows(g[k], p, k)
  <2>1. k - 1 \in 0 .. m
    OBVIOUS
  <2>2. g[k - 1] \in Shuffles(n)
    BY <2>1, <1>3
  <2>3. g[k] = Swap(g[k - 1], k - 1, j(k))
    BY <1>3
  <2> HIDE DEF D
  <2> QED
    BY <2>2, <2>3, <1>4, NextShows DEF j
<1>5. ASSUME Wrong # {} PROVE FALSE
  <2>1. PICK k \in Wrong : \A i \in Wrong : k <= i
    <3>1. Wrong \subseteq Nat
      OBVIOUS
    <3> HIDE DEF Wrong
    <3> QED
      BY <1>5, <3>1, LeastNumber
  <2>2. k # 0
    BY <2>1 DEF Shows
  <2>3. k \in 1 .. m /\ k - 1 \in 0 .. m /\ k - 1 \notin Wrong
    BY <2>1, <2>2
  <2> QED
    BY <2>1, <2>3, <1>4
<1>6. \A k \in 0 .. m : Shows(g[k], p, k)
  BY <1>5
<1>7. ASSUME NEW k \in 1 .. m
      PROVE  j(k) \in k - 1 .. n - 1 /\ g[k - 1][j(k)] \notin dead
  <2>1. k - 1 \in 0 .. m
    OBVIOUS
  <2> QED
    BY <2>1, <1>4, <1>6
<1>8. IsDeal(f, g, order, dead, m, n)
  <2>1. \A k \in 1 .. m : f[k] = j(k)
    OBVIOUS
  <2>2. f \in [1 .. m -> 0 .. n - 1]
    BY <1>7
  <2> HIDE DEF f
  <2> QED
    BY <2>1, <2>2, <1>3, <1>7 DEF IsDeal
<1>9. m \in 0 .. m
  OBVIOUS
<1> QED
  BY <1>6, <1>8, <1>9

(* The orders a board's draws can leave, and those with board b in front.  *)
Ends(order, dead, m, n) ==
  {o \in Shuffles(n) : \E f, g : IsDeal(f, g, order, dead, m, n) /\ o = g[m]}

Ways(order, dead, m, n, b) ==
  {o \in Ends(order, dead, m, n) : {o[k] : k \in 0 .. m - 1} = b}

(* There are finitely many permutations.                                   *)
LEMMA ShufflesFinite ==
  ASSUME NEW n \in Nat
  PROVE  IsFiniteSet(Shuffles(n))
<1> DEFINE C == 0 .. n - 1
           T == SUBSET (C \X C)
           graph == [o \in Shuffles(n) |-> {<<i, o[i]>> : i \in C}]
<1>1. IsFiniteSet(C)
  <2>1. 0 \in Int /\ n - 1 \in Int
    OBVIOUS
  <2> QED
    BY <2>1, FS_Interval
<1>2. IsFiniteSet(T)
  <2>1. IsFiniteSet(C \X C)
    <3> HIDE DEF C
    <3> QED
      BY <1>1, FS_Product
  <2> QED
    BY <2>1, FS_SUBSET
<1>3. \A o \in Shuffles(n) : o \in [C -> C]
  BY DEF Shuffles
<1> HIDE DEF C
<1>4. graph \in [Shuffles(n) -> T]
  BY <1>3
<1>5. ASSUME NEW o \in Shuffles(n), NEW q \in Shuffles(n), graph[o] = graph[q]
      PROVE  o = q
  <2>1. {<<i, o[i]>> : i \in C} = {<<i, q[i]>> : i \in C}
    BY <1>5
  <2>2. ASSUME NEW i \in C PROVE o[i] = q[i]
    <3>1. <<i, o[i]>> \in {<<j, q[j]>> : j \in C}
      BY <2>1
    <3>2. PICK j \in C : <<i, o[i]>> = <<j, q[j]>>
      BY <3>1
    <3> QED
      BY <3>2
  <2> QED
    BY <2>2, <1>3
<1> HIDE DEF graph, T
<1>6. graph \in Injection(Shuffles(n), T)
  BY <1>4, <1>5 DEF Injection, IsInjective
<1> QED
  BY <1>2, <1>6, FS_Injection

(* The front of an end shows distinct live cards and decides the end.      *)
LEMMA EndsAre ==
  ASSUME NEW n \in Nat, NEW m \in 0 .. n, NEW dead, NEW order, NEW o \in Ends(order, dead, m, n)
  PROVE  /\ o \in Shuffles(n)
         /\ \A i \in 0 .. m - 1 : o[i] \in (0 .. n - 1) \ dead
         /\ \A i, j \in 0 .. m - 1 : o[i] = o[j] => i = j
<1>1. PICK f, g : IsDeal(f, g, order, dead, m, n) /\ o = g[m]
  BY DEF Ends
<1>2. \A i \in 0 .. m - 1 : g[m][i] \in (0 .. n - 1) \ dead
  BY <1>1, FrontIs
<1>3. o \in Shuffles(n) /\ \A i \in 0 .. m - 1 : i \in 0 .. n - 1
  BY DEF Ends
<1> QED
  BY <1>1, <1>2, <1>3 DEF Shuffles

(* Ends that agree in front are the same.                                  *)
LEMMA EndsDiffer ==
  ASSUME NEW n \in Nat, NEW m \in 0 .. n, NEW dead, NEW order,
         NEW o \in Ends(order, dead, m, n), NEW u \in Ends(order, dead, m, n), Shows(o, u, m)
  PROVE  o = u
<1>1. PICK f, g : IsDeal(f, g, order, dead, m, n) /\ o = g[m]
  BY DEF Ends
<1>2. PICK p, q : IsDeal(p, q, order, dead, m, n) /\ u = q[m]
  BY DEF Ends
<1>3. \A i \in 0 .. m - 1 : g[m][i] = q[m][i]
  BY <1>1, <1>2 DEF Shows
<1> QED
  BY <1>1, <1>2, <1>3, FrontDecides

(* Any front is the front of an end.                                       *)
LEMMA FrontEnds ==
  ASSUME NEW n \in Nat, NEW m \in 0 .. n, NEW dead, NEW p, IsFront(p, dead, m, n),
         NEW order \in Shuffles(n)
  PROVE  \E o \in Ends(order, dead, m, n) : Shows(o, p, m)
<1>1. PICK f, g : IsDeal(f, g, order, dead, m, n) /\ Shows(g[m], p, m)
  BY FrontExists
<1>2. g[m] \in Shuffles(n)
  <2>1. m \in 0 .. m
    OBVIOUS
  <2> QED
    BY <2>1, <1>1 DEF IsDeal
<1> QED
  BY <1>1, <1>2 DEF Ends

(* A renaming of the cards of one board to those of another.               *)
Renames(r, b, c) ==
  /\ r \in [b -> c]
  /\ \A x, y \in b : r[x] = r[y] => x = y
  /\ \A z \in c : \E x \in b : r[x] = z

Matches(u, r, o, m) == \A i \in 0 .. m - 1 : u[i] = r[o[i]]

(* A board is of live cards.                                               *)
Live(b, dead, n) == b \subseteq (0 .. n - 1) \ dead

(* It renames a deal of the one to a deal of the other.                    *)
LEMMA Renamed ==
  ASSUME NEW n \in Nat, NEW m \in 0 .. n, NEW dead, NEW order \in Shuffles(n),
         NEW b, NEW c, Live(c, dead, n), NEW r, Renames(r, b, c),
         NEW o \in Ways(order, dead, m, n, b)
  PROVE  \E u \in Ways(order, dead, m, n, c) : Matches(u, r, o, m)
<1>1. o \in Ends(order, dead, m, n) /\ {o[k] : k \in 0 .. m - 1} = b
  BY DEF Ways
<1>2. \A i \in 0 .. m - 1 : o[i] \in b
  BY <1>1
<1>3. \A i, j \in 0 .. m - 1 : o[i] = o[j] => i = j
  BY <1>1, EndsAre
<1> DEFINE p == [i \in 0 .. m - 1 |-> r[o[i]]]
<1>4. IsFront(p, dead, m, n)
  <2>1. ASSUME NEW i \in 0 .. m - 1 PROVE p[i] \in (0 .. n - 1) \ dead
    BY <1>2 DEF Renames, Live
  <2>2. ASSUME NEW i \in 0 .. m - 1, NEW j \in 0 .. m - 1, p[i] = p[j] PROVE i = j
    BY <2>2, <1>2, <1>3 DEF Renames
  <2>3. p \in [0 .. m - 1 -> (0 .. n - 1) \ dead]
    BY <2>1
  <2> HIDE DEF p
  <2> QED
    BY <2>2, <2>3 DEF IsFront
<1>5. PICK u \in Ends(order, dead, m, n) : Shows(u, p, m)
  <2> HIDE DEF p
  <2> QED
    BY <1>4, FrontEnds
<1>6. \A i \in 0 .. m - 1 : u[i] = r[o[i]]
  BY <1>5 DEF Shows
<1>7. {u[k] : k \in 0 .. m - 1} = c
  <2>1. ASSUME NEW z \in c PROVE \E k \in 0 .. m - 1 : u[k] = z
    <3>1. PICK x \in b : r[x] = z
      BY DEF Renames
    <3>2. PICK k \in 0 .. m - 1 : o[k] = x
      BY <1>1
    <3> QED
      BY <3>1, <3>2, <1>6
  <2>2. \A k \in 0 .. m - 1 : u[k] \in c
    BY <1>2, <1>6 DEF Renames
  <2> QED
    BY <2>1, <2>2
<1>8. u \in Ways(order, dead, m, n, c)
  BY <1>5, <1>7 DEF Ways
<1> QED
  BY <1>6, <1>8 DEF Matches

(* What is renamed can be renamed back.                                    *)
LEMMA RenamesBack ==
  ASSUME NEW b, NEW c, NEW r, Renames(r, b, c)
  PROVE  \E s : Renames(s, c, b) /\ \A x \in b : s[r[x]] = x
<1> DEFINE s == [z \in c |-> CHOOSE x \in b : r[x] = z]
<1>1. \A z \in c : s[z] \in b /\ r[s[z]] = z
  BY DEF Renames
<1>2. s \in [c -> b]
  BY <1>1
<1> HIDE DEF s
<1>3. \A x \in b : r[x] \in c /\ s[r[x]] = x
  BY <1>1 DEF Renames
<1>4. Renames(s, c, b)
  BY <1>1, <1>2, <1>3 DEF Renames
<1> QED
  BY <1>3, <1>4

(* So two boards have equally many deals.                                  *)
LEMMA WaysSame ==
  ASSUME NEW n \in Nat, NEW m \in 0 .. n, NEW dead, NEW order \in Shuffles(n),
         NEW b, NEW c, Live(b, dead, n), Live(c, dead, n), NEW r, Renames(r, b, c)
  PROVE  Cardinality(Ways(order, dead, m, n, c)) = Cardinality(Ways(order, dead, m, n, b))
<1> DEFINE S == Ways(order, dead, m, n, b)
           T == Ways(order, dead, m, n, c)
           h == [o \in S |-> CHOOSE u \in T : Matches(u, r, o, m)]
<1>1. \A o \in S : h[o] \in T /\ Matches(h[o], r, o, m)
  <2>1. \A o \in S : \E u \in T : Matches(u, r, o, m)
    BY Renamed
  <2> HIDE DEF S, T
  <2> QED
    BY <2>1
<1> HIDE DEF h
<1>2. /\ S \subseteq Ends(order, dead, m, n) /\ T \subseteq Ends(order, dead, m, n)
      /\ (\A o \in S : \A i \in 0 .. m - 1 : o[i] \in b)
      /\ (\A u \in T : \A i \in 0 .. m - 1 : u[i] \in c)
  BY DEF Ways
<1>3. IsFiniteSet(S)
  <2>1. S \in SUBSET Shuffles(n)
    BY DEF Ways, Ends
  <2> QED
    BY <2>1, ShufflesFinite, FS_Subset
<1>4. ASSUME NEW o \in S, NEW u \in S, h[o] = h[u] PROVE o = u
  <2>1. \A i \in 0 .. m - 1 : r[o[i]] = r[u[i]] /\ o[i] \in b /\ u[i] \in b
    BY <1>1, <1>2, <1>4 DEF Matches
  <2>2. Shows(o, u, m)
    BY <2>1 DEF Shows, Renames
  <2>3. o \in Ends(order, dead, m, n) /\ u \in Ends(order, dead, m, n)
    BY <1>2
  <2> QED
    BY <2>2, <2>3, EndsDiffer
<1>5. ASSUME NEW z \in T PROVE \E o \in S : h[o] = z
  <2>1. PICK s : Renames(s, c, b) /\ \A x \in b : s[r[x]] = x
    BY RenamesBack
  <2>2. PICK o \in S : Matches(o, s, z, m)
    BY <2>1, Renamed
  <2>3. ASSUME NEW i \in 0 .. m - 1 PROVE h[o][i] = z[i]
    <3>1. h[o][i] = r[s[z[i]]] /\ z[i] \in c
      BY <2>2, <1>1, <1>2 DEF Matches
    <3>2. PICK x \in b : r[x] = z[i]
      BY <3>1 DEF Renames
    <3> QED
      BY <3>1, <3>2, <2>1
  <2>4. Shows(h[o], z, m)
    BY <2>3 DEF Shows
  <2>5. h[o] \in Ends(order, dead, m, n) /\ z \in Ends(order, dead, m, n)
    BY <1>1, <1>2
  <2>6. h[o] = z
    BY <2>4, <2>5, EndsDiffer
  <2> QED
    BY <2>6
<1>6. Corresponds(S, T, h)
  <2> HIDE DEF S, T
  <2> QED
    BY <1>1, <1>4, <1>5 DEF Corresponds
<1> HIDE DEF S, T
<1>7. Cardinality(T) = Cardinality(S)
  BY <1>3, <1>6, SameSize
<1> QED
  BY <1>7 DEF S, T

(* Boards of equally many live cards are dealt in equally many ways, and   *)
(* in one at least.                                                        *)
LEMMA WaysEqual ==
  ASSUME NEW n \in Nat, NEW m \in 0 .. n, NEW dead, NEW order \in Shuffles(n),
         NEW b \in kSubset(m, (0 .. n - 1) \ dead), NEW c \in kSubset(m, (0 .. n - 1) \ dead)
  PROVE  /\ Cardinality(Ways(order, dead, m, n, b)) = Cardinality(Ways(order, dead, m, n, c))
         /\ Cardinality(Ways(order, dead, m, n, b)) > 0
<1>1. /\ b \subseteq (0 .. n - 1) \ dead /\ Cardinality(b) = m
      /\ c \subseteq (0 .. n - 1) \ dead /\ Cardinality(c) = m
  BY DEF kSubset
<1>2. IsFiniteSet(b) /\ IsFiniteSet(c)
  <2> DEFINE C == 0 .. n - 1
  <2>1. IsFiniteSet(C)
    <3>1. 0 \in Int /\ n - 1 \in Int
      OBVIOUS
    <3> QED
      BY <3>1, FS_Interval
  <2>2. b \in SUBSET C /\ c \in SUBSET C
    BY <1>1
  <2> HIDE DEF C
  <2> QED
    BY <2>1, <2>2, FS_Subset
<1>3. PICK r : Renames(r, b, c)
  <2>1. ExistsBijection(b, c)
    BY <1>1, <1>2, FS_SameCardinalityBij
  <2>2. PICK r : r \in Bijection(b, c)
    BY <2>1 DEF ExistsBijection
  <2>3. Renames(r, b, c)
    BY <2>2 DEF Bijection, Injection, Surjection, IsInjective, Renames
  <2> QED
    BY <2>3
<1>4. Cardinality(Ways(order, dead, m, n, b)) = Cardinality(Ways(order, dead, m, n, c))
  <2>1. Live(b, dead, n) /\ Live(c, dead, n)
    BY <1>1 DEF Live
  <2> QED
    BY <2>1, <1>3, WaysSame
<1>5. \E o : o \in Ways(order, dead, m, n, b)
  <2> DEFINE M == 0 .. m - 1
  <2>1. IsFiniteSet(M) /\ Cardinality(M) = m
    <3>1. 0 \in Int /\ m - 1 \in Int
      OBVIOUS
    <3>2. IsFiniteSet(M) /\ Cardinality(M) = IF 0 > m - 1 THEN 0 ELSE (m - 1) - 0 + 1
      BY <3>1, FS_Interval
    <3> HIDE DEF M
    <3> QED
      BY <3>2
  <2> HIDE DEF M
  <2>2. ExistsBijection(M, b)
    BY <2>1, <1>1, <1>2, FS_SameCardinalityBij
  <2>3. PICK p : p \in Bijection(M, b)
    BY <2>2 DEF ExistsBijection
  <2>4. /\ p \in [M -> b] /\ (\A x, y \in M : p[x] = p[y] => x = y)
        /\ \A z \in b : \E x \in M : p[x] = z
    BY <2>3 DEF Bijection, Injection, Surjection, IsInjective
  <2>5. IsFront(p, dead, m, n)
    BY <2>4, <1>1 DEF IsFront, M
  <2>6. PICK o \in Ends(order, dead, m, n) : Shows(o, p, m)
    BY <2>5, FrontEnds
  <2>7. {o[k] : k \in 0 .. m - 1} = b
    <3>1. \A k \in M : o[k] = p[k]
      BY <2>6 DEF Shows, M
    <3>2. {o[k] : k \in M} = b
      BY <3>1, <2>4
    <3> QED
      BY <3>2 DEF M
  <2> QED
    BY <2>6, <2>7 DEF Ways
<1>6. IsFiniteSet(Ways(order, dead, m, n, b))
  <2>1. Ways(order, dead, m, n, b) \in SUBSET Shuffles(n)
    BY DEF Ways, Ends
  <2> QED
    BY <2>1, ShufflesFinite, FS_Subset
<1>7. Cardinality(Ways(order, dead, m, n, b)) \in Nat
  BY <1>6, FS_CardinalityType
<1>8. Cardinality(Ways(order, dead, m, n, b)) # 0
  BY <1>5, <1>6, FS_EmptySet
<1> QED
  BY <1>4, <1>7, <1>8

(* The draws of at most m cards, and the recursion of Orders over them.    *)
DrawLists(m, n) == UNION {[1 .. k -> 0 .. n - 1] : k \in 0 .. m}

AllButLast(js) == SubSeq(js, 1, Len(js) - 1)

SwapLast(js, g, order) ==
  IF js = << >> THEN order ELSE Swap(g[AllButLast(js)], Len(js) - 1, js[Len(js)])

IsAfter(g, order, m, n) == g = [js \in DrawLists(m, n) |-> SwapLast(js, g, order)]

DeckAfter(order, m, n) == CHOOSE g : IsAfter(g, order, m, n)

(* What a list of draws is.                                                *)
LEMMA DrawListsAre ==
  ASSUME NEW m \in Nat, NEW n \in Nat, NEW js \in DrawLists(m, n)
  PROVE  /\ js \in Seq(0 .. n - 1) /\ Len(js) \in 0 .. m
         /\ js # << >> => /\ Len(js) \in 1 .. m /\ js[Len(js)] \in 0 .. n - 1
                          /\ AllButLast(js) \in DrawLists(m, n)
                          /\ Len(AllButLast(js)) = Len(js) - 1
<1> DEFINE C == 0 .. n - 1
<1>1. PICK k \in 0 .. m : js \in [1 .. k -> C]
  BY DEF DrawLists
<1> HIDE DEF C
<1>2. js \in Seq(C) /\ Len(js) = k
  BY <1>1
<1>3. ASSUME js # << >>
      PROVE  /\ Len(js) \in 1 .. m /\ js[Len(js)] \in C
             /\ AllButLast(js) \in UNION {[1 .. i -> C] : i \in 0 .. m}
             /\ Len(AllButLast(js)) = Len(js) - 1
  <2>1. k # 0
    BY <1>2, <1>3, EmptySeq
  <2>2. k \in 1 .. m /\ js[k] \in C /\ k - 1 \in 0 .. m
    BY <2>1, <1>1
  <2>3. SubSeq(js, 1, k - 1) \in Seq(C) /\ Len(SubSeq(js, 1, k - 1)) = k - 1
    <3>1. 1 \in Int /\ k - 1 \in Int /\ \A i \in 1 .. k - 1 : js[i] \in C
      BY <2>2, <1>1
    <3>2. /\ SubSeq(js, 1, k - 1) \in Seq(C)
          /\ Len(SubSeq(js, 1, k - 1)) = IF 1 <= k - 1 THEN (k - 1) - 1 + 1 ELSE 0
      BY <3>1, SubSeqProperties
    <3> QED
      BY <3>2, <2>2
  <2>4. SubSeq(js, 1, k - 1) \in [1 .. k - 1 -> C]
    <3> DEFINE u == SubSeq(js, 1, k - 1)
    <3>1. u \in Seq(C) /\ Len(u) = k - 1
      BY <2>3
    <3> HIDE DEF u
    <3>2. u \in [1 .. k - 1 -> C]
      BY <3>1
    <3> QED
      BY <3>2 DEF u
  <2> QED
    BY <2>2, <2>3, <2>4, <1>2 DEF AllButLast
<1> QED
  BY <1>2, <1>3 DEF C, DrawLists

(* The recursion has a solution.                                           *)
LEMMA AfterIs ==
  ASSUME NEW n \in Nat, NEW m \in 0 .. n, NEW order \in Shuffles(n)
  PROVE  /\ DeckAfter(order, m, n) \in [DrawLists(m, n) -> Shuffles(n)]
         /\ \A js \in DrawLists(m, n) : DeckAfter(order, m, n)[js] = SwapLast(js, DeckAfter(order, m, n), order)
<1> DEFINE S == DrawLists(m, n)
           D == Shuffles(n)
           mu == [js \in S |-> Len(js)]
           F == [js \in S |-> [h \in [S -> D] |-> SwapLast(js, h, order)]]
<1>1. Measures(mu, S, m)
  <2>1. \A js \in S : mu[js] \in 0 .. m
    BY DrawListsAre
  <2> HIDE DEF S, mu
  <2> QED
    BY <2>1 DEF Measures
<1>2. Bodies(F, S, D)
  <2>1. ASSUME NEW js \in S, NEW h \in [S -> D] PROVE SwapLast(js, h, order) \in D
    <3>1. CASE js = << >>
      BY <3>1 DEF SwapLast
    <3>2. CASE js # << >>
      <4>1. Len(js) \in 1 .. m /\ js[Len(js)] \in 0 .. n - 1 /\ AllButLast(js) \in S
        BY <3>2, DrawListsAre
      <4>2. Len(js) - 1 \in 0 .. n - 1
        BY <4>1
      <4> HIDE DEF S
      <4>3. h[AllButLast(js)] \in D
        BY <4>1
      <4>4. Swap(h[AllButLast(js)], Len(js) - 1, js[Len(js)]) \in D
        BY <4>1, <4>2, <4>3, SwapPermutes
      <4> QED
        BY <3>2, <4>4 DEF SwapLast
    <3> QED
      BY <3>1, <3>2
  <2>2. order \in D
    OBVIOUS
  <2> HIDE DEF S, D
  <2> QED
    BY <2>1, <2>2 DEF Bodies
<1>3. LooksDown(F, S, D, mu)
  <2> SUFFICES ASSUME NEW js \in S, NEW h \in [S -> D], NEW g \in [S -> D],
                      \A y \in S : mu[y] < mu[js] => h[y] = g[y]
               PROVE  F[js][h] = F[js][g]
    BY DEF LooksDown
  <2>1. SwapLast(js, h, order) = SwapLast(js, g, order)
    <3>1. CASE js = << >>
      BY <3>1 DEF SwapLast
    <3>2. CASE js # << >>
      <4>1. /\ AllButLast(js) \in S /\ Len(AllButLast(js)) = Len(js) - 1 /\ Len(js) \in 1 .. m
        BY <3>2, DrawListsAre
      <4>2. mu[AllButLast(js)] < mu[js]
        BY <4>1
      <4>3. h[AllButLast(js)] = g[AllButLast(js)]
        BY <4>1, <4>2
      <4> QED
        BY <4>3 DEF SwapLast
    <3> QED
      BY <3>1, <3>2
  <2>2. F[js][h] = SwapLast(js, h, order) /\ F[js][g] = SwapLast(js, g, order)
    <3> HIDE DEF S, D
    <3> QED
      OBVIOUS
  <2> QED
    BY <2>1, <2>2
<1>4. PICK f : Obeys(f, F, S, D)
  <2> HIDE DEF F, S, D, mu
  <2> QED
    BY <1>1, <1>2, <1>3, BoundedRecursion
<1>5. f \in [S -> D] /\ \A js \in S : f[js] = SwapLast(js, f, order)
  <2> HIDE DEF S, D
  <2> QED
    BY <1>4 DEF Obeys
<1>6. IsAfter(f, order, m, n)
  <2> HIDE DEF S
  <2>1. f = [js \in S |-> f[js]]
    BY <1>5
  <2>2. [js \in S |-> f[js]] = [js \in S |-> SwapLast(js, f, order)]
    BY <1>5
  <2> QED
    BY <2>1, <2>2 DEF IsAfter, S
<1> DEFINE a == DeckAfter(order, m, n)
<1>7. IsAfter(a, order, m, n)
  BY <1>6 DEF DeckAfter
<1> HIDE DEF a
<1>8. /\ \A js \in S : a[js] = SwapLast(js, a, order)
      /\ (\A js \in S : a[js] \in D) => a \in [S -> D]
  <2> HIDE DEF S
  <2>1. a = [js \in S |-> SwapLast(js, a, order)]
    BY <1>7 DEF IsAfter, S
  <2> DEFINE v(js) == SwapLast(js, a, order)
  <2>2. a = [js \in S |-> v(js)]
    BY <2>1
  <2> HIDE DEF v, D
  <2>3. \A js \in S : a[js] = v(js)
    BY <2>2
  <2>4. (\A js \in S : v(js) \in D) => a \in [S -> D]
    BY <2>2
  <2> QED
    BY <2>3, <2>4 DEF v
<1>0. \A js \in S :
        js # << >> => /\ Len(js) \in 1 .. m /\ js[Len(js)] \in 0 .. n - 1
                      /\ AllButLast(js) \in S /\ Len(AllButLast(js)) = Len(js) - 1
  <2> TAKE js \in S
  <2>1. m \in Nat
    OBVIOUS
  <2> QED
    BY <2>1, DrawListsAre
<1> DEFINE Wrong == {i \in 0 .. m : \E js \in S : Len(js) = i /\ a[js] \notin D}
<1>9. ASSUME Wrong # {} PROVE FALSE
  <2>1. PICK i \in Wrong : \A j \in Wrong : i <= j
    <3>1. Wrong \subseteq Nat
      OBVIOUS
    <3> HIDE DEF Wrong
    <3> QED
      BY <1>9, <3>1, LeastNumber
  <2>2. PICK js \in S : Len(js) = i /\ a[js] \notin D
    BY <2>1
  <2>3. js # << >>
    BY <2>2, <1>8 DEF SwapLast
  <2>4. /\ Len(js) \in 1 .. m /\ js[Len(js)] \in 0 .. n - 1 /\ AllButLast(js) \in S
        /\ Len(AllButLast(js)) = Len(js) - 1
    BY <2>2, <2>3, <1>0
  <2>5. i - 1 \in 0 .. m /\ i - 1 \notin Wrong /\ Len(AllButLast(js)) = i - 1
    BY <2>1, <2>2, <2>4
  <2>6. a[AllButLast(js)] \in D
    <3> HIDE DEF S, D
    <3> QED
      BY <2>4, <2>5
  <2>7. Len(js) - 1 \in 0 .. n - 1
    BY <2>4
  <2>8. Swap(a[AllButLast(js)], Len(js) - 1, js[Len(js)]) \in D
    BY <2>4, <2>6, <2>7, SwapPermutes
  <2>9. a[js] = Swap(a[AllButLast(js)], Len(js) - 1, js[Len(js)])
    BY <2>2, <2>3, <1>8 DEF SwapLast
  <2> QED
    BY <2>2, <2>8, <2>9
<1>10. \A js \in S : a[js] \in D
  <2>1. \A js \in S : Len(js) \in 0 .. m
    BY DrawListsAre
  <2> HIDE DEF S, D
  <2> QED
    BY <2>1, <1>9
<1>11. a \in [S -> D]
  <2> HIDE DEF S, D
  <2> QED
    BY <1>8, <1>10
<1> QED
  BY <1>8, <1>11 DEF a

(* Along a deal the recursion makes one swap after the other.              *)
Along(a, f, order, m, n) ==
  /\ \A k \in 0 .. m : a[SubSeq(f, 1, k)] \in Shuffles(n)
  /\ a[SubSeq(f, 1, 0)] = order
  /\ \A k \in 1 .. m : a[SubSeq(f, 1, k)] = Swap(a[SubSeq(f, 1, k - 1)], k - 1, f[k])
  /\ SubSeq(f, 1, m) = f

(* As its body says.                                                       *)
LEMMA AfterAlong ==
  ASSUME NEW n \in Nat, NEW m \in 0 .. n, NEW order \in Shuffles(n), NEW f \in [1 .. m -> 0 .. n - 1]
  PROVE  Along(DeckAfter(order, m, n), f, order, m, n)
<1> DEFINE C == 0 .. n - 1
           a == DeckAfter(order, m, n)
           x(k) == SubSeq(f, 1, k)
<1>1. /\ a \in [DrawLists(m, n) -> Shuffles(n)]
      /\ \A js \in DrawLists(m, n) : a[js] = SwapLast(js, a, order)
  BY AfterIs
<1>2. f \in [1 .. m -> C]
  OBVIOUS
<1> HIDE DEF a, C
<1>3. f \in Seq(C) /\ Len(f) = m
  BY <1>2
<1>4. ASSUME NEW k \in 0 .. m
      PROVE  /\ x(k) \in Seq(C) /\ Len(x(k)) = k
             /\ \A i \in 1 .. k : x(k)[i] = f[i]
             /\ x(k) \in DrawLists(m, n)
  <2>1. 1 \in Int /\ k \in Int /\ \A i \in 1 .. k : f[i] \in C
    BY <1>2
  <2>2. /\ SubSeq(f, 1, k) \in Seq(C)
        /\ Len(SubSeq(f, 1, k)) = IF 1 <= k THEN k - 1 + 1 ELSE 0
        /\ \A i \in 1 .. k - 1 + 1 : SubSeq(f, 1, k)[i] = f[1 + i - 1]
    BY <2>1, SubSeqProperties
  <2>3. Len(x(k)) = k
    BY <2>2
  <2>4. \A i \in 1 .. k : x(k)[i] = f[i]
    <3> TAKE i \in 1 .. k
    <3>1. i \in 1 .. k - 1 + 1 /\ 1 + i - 1 = i
      OBVIOUS
    <3> QED
      BY <3>1, <2>2
  <2>5. x(k) \in [1 .. k -> C]
    <3> HIDE DEF x
    <3>1. x(k) \in Seq(C)
      BY <2>2 DEF x
    <3> QED
      BY <3>1, <2>3
  <2> QED
    BY <2>2, <2>3, <2>4, <2>5 DEF DrawLists, C
<1> HIDE DEF x
<1>5. x(0) = << >>
  <2>1. 0 \in 0 .. m
    OBVIOUS
  <2> QED
    BY <2>1, <1>4, EmptySeq
<1>6. ASSUME NEW k \in 1 .. m PROVE a[x(k)] = Swap(a[x(k - 1)], k - 1, f[k])
  <2>1. k \in 0 .. m /\ k - 1 \in 0 .. m
    OBVIOUS
  <2>2. Len(x(k)) = k /\ x(k)[k] = f[k] /\ x(k) # << >> /\ x(k) \in DrawLists(m, n)
    <3>1. Len(<< >>) = 0
      BY EmptySeq
    <3>2. Len(x(k)) = k /\ x(k) \in DrawLists(m, n) /\ \A i \in 1 .. k : x(k)[i] = f[i]
      BY <2>1, <1>4
    <3>3. k \in 1 .. k /\ k # 0
      OBVIOUS
    <3> QED
      BY <3>1, <3>2, <3>3
  <2>3. AllButLast(x(k)) = x(k - 1)
    <3> DEFINE u == x(k)
               v == x(k - 1)
               t == SubSeq(u, 1, k - 1)
    <3>1. u \in Seq(C) /\ (\A i \in 1 .. k : u[i] = f[i])
          /\ v \in Seq(C) /\ Len(v) = k - 1 /\ (\A i \in 1 .. k - 1 : v[i] = f[i])
      BY <2>1, <1>4
    <3>2. 1 \in Int /\ k - 1 \in Int /\ \A i \in 1 .. k - 1 : u[i] \in C
      BY <3>1, <1>2
    <3> HIDE DEF u, v
    <3>3. /\ t \in Seq(C)
          /\ Len(t) = IF 1 <= k - 1 THEN (k - 1) - 1 + 1 ELSE 0
          /\ \A i \in 1 .. (k - 1) - 1 + 1 : t[i] = u[1 + i - 1]
      BY <3>2, SubSeqProperties
    <3>4. Len(t) = k - 1
      BY <3>3
    <3>5. \A i \in 1 .. k - 1 : t[i] = v[i]
      <4> TAKE i \in 1 .. k - 1
      <4>1. i \in 1 .. (k - 1) - 1 + 1 /\ 1 + i - 1 = i /\ i \in 1 .. k
        OBVIOUS
      <4> HIDE DEF t
      <4> QED
        BY <4>1, <3>1, <3>3
    <3> HIDE DEF t
    <3>6. t = v
      BY <3>1, <3>3, <3>4, <3>5, SeqEqual
    <3> QED
      BY <3>6, <2>2 DEF AllButLast, t, u, v
  <2>4. a[x(k)] = Swap(a[AllButLast(x(k))], Len(x(k)) - 1, x(k)[Len(x(k))])
    BY <2>2, <1>1 DEF SwapLast
  <2> QED
    BY <2>2, <2>3, <2>4
<1>7. a[x(0)] = order
  <2>1. 0 \in 0 .. m
    OBVIOUS
  <2> QED
    BY <2>1, <1>1, <1>4, <1>5 DEF SwapLast
<1>8. \A k \in 0 .. m : a[x(k)] \in Shuffles(n)
  BY <1>1, <1>4
<1>9. x(m) = f
  BY <1>3, SubSeqFull DEF x
<1> QED
  BY <1>6, <1>7, <1>8, <1>9 DEF Along, a, x

(* The draws that Orders admits: each lands behind the cards dealt before, *)
(* on a live card.                                                         *)
Accepted(a, f, dead, m, n) ==
  /\ f \in [1 .. m -> 0 .. n - 1]
  /\ \A k \in 1 .. m : f[k] \in k - 1 .. n - 1 /\ a[SubSeq(f, 1, k - 1)][f[k]] \notin dead

(* Orders, of the property BoardsAreUniform, in these terms.               *)
LEMMA OrdersAre ==
  ASSUME NEW order, NEW dead
  PROVE  Orders(order, dead)
           = {DeckAfter(order, ToDraw, call.cards)[js] :
                js \in {f \in [1 .. ToDraw -> Cards] :
                          Accepted(DeckAfter(order, ToDraw, call.cards), f, dead, ToDraw, call.cards)}}
<1> DEFINE a == DeckAfter(order, ToDraw, call.cards)
<1>1. Orders(order, dead)
        = {a[js] : js \in {f \in [1 .. ToDraw -> Cards] :
                             \A k \in 1 .. ToDraw :
                               /\ f[k] \in Positions(k - 1)
                               /\ a[SubSeq(f, 1, k - 1)][f[k]] \notin dead}}
  BY DEF Orders, DeckAfter, IsAfter, SwapLast, AllButLast, DrawLists, Cards
<1> HIDE DEF a
<1>2. {f \in [1 .. ToDraw -> Cards] :
         \A k \in 1 .. ToDraw : f[k] \in Positions(k - 1) /\ a[SubSeq(f, 1, k - 1)][f[k]] \notin dead}
      = {f \in [1 .. ToDraw -> Cards] : Accepted(a, f, dead, ToDraw, call.cards)}
  BY DEF Accepted, Positions, Cards
<1> QED
  BY <1>1, <1>2 DEF a

(* An admitted list of draws is a deal.                                    *)
LEMMA AcceptedDeals ==
  ASSUME NEW n \in Nat, NEW m \in 0 .. n, NEW order \in Shuffles(n), NEW dead, NEW f,
         Accepted(DeckAfter(order, m, n), f, dead, m, n)
  PROVE  DeckAfter(order, m, n)[f] \in Ends(order, dead, m, n)
<1> DEFINE a == DeckAfter(order, m, n)
           x(k) == a[SubSeq(f, 1, k)]
           g == [k \in 0 .. m |-> x(k)]
<1>1. /\ f \in [1 .. m -> 0 .. n - 1]
      /\ \A k \in 1 .. m : f[k] \in k - 1 .. n - 1 /\ x(k - 1)[f[k]] \notin dead
  BY DEF Accepted
<1>2. /\ \A k \in 0 .. m : x(k) \in Shuffles(n)
      /\ x(0) = order
      /\ \A k \in 1 .. m : x(k) = Swap(x(k - 1), k - 1, f[k])
      /\ SubSeq(f, 1, m) = f
  <2>1. Along(a, f, order, m, n)
    BY <1>1, AfterAlong
  <2> HIDE DEF a
  <2> QED
    BY <2>1 DEF Along
<1> HIDE DEF a, x
<1>3. /\ \A k \in 0 .. m : g[k] = x(k)
      /\ \A k \in 1 .. m : g[k] = x(k) /\ g[k - 1] = x(k - 1)
  OBVIOUS
<1>4. g \in [0 .. m -> Shuffles(n)]
  BY <1>2
<1>5. 0 \in 0 .. m /\ m \in 0 .. m
  OBVIOUS
<1> HIDE DEF g
<1>6. IsDeal(f, g, order, dead, m, n)
  BY <1>1, <1>2, <1>3, <1>4, <1>5 DEF IsDeal
<1>7. x(m) = a[f]
  BY <1>2 DEF x
<1> QED
  BY <1>2, <1>3, <1>5, <1>6, <1>7 DEF Ends, a

(* The draws of a deal are admitted, and leave its order.                  *)
LEMMA DealsAccepted ==
  ASSUME NEW n \in Nat, NEW m \in 0 .. n, NEW order \in Shuffles(n), NEW dead, NEW f, NEW g,
         IsDeal(f, g, order, dead, m, n)
  PROVE  Accepted(DeckAfter(order, m, n), f, dead, m, n) /\ DeckAfter(order, m, n)[f] = g[m]
<1> DEFINE a == DeckAfter(order, m, n)
           x(k) == a[SubSeq(f, 1, k)]
<1>1. /\ f \in [1 .. m -> 0 .. n - 1] /\ g[0] = order
      /\ \A k \in 1 .. m : /\ f[k] \in k - 1 .. n - 1
                           /\ g[k - 1][f[k]] \notin dead
                           /\ g[k] = Swap(g[k - 1], k - 1, f[k])
  BY DEF IsDeal
<1>2. /\ x(0) = order
      /\ \A k \in 1 .. m : x(k) = Swap(x(k - 1), k - 1, f[k])
      /\ SubSeq(f, 1, m) = f
  <2>1. Along(a, f, order, m, n)
    BY <1>1, AfterAlong
  <2> HIDE DEF a
  <2> QED
    BY <2>1 DEF Along
<1> HIDE DEF a, x
<1> DEFINE Wrong == {k \in 0 .. m : g[k] # x(k)}
<1>3. ASSUME Wrong # {} PROVE FALSE
  <2>1. PICK k \in Wrong : \A j \in Wrong : k <= j
    <3>1. Wrong \subseteq Nat
      OBVIOUS
    <3> HIDE DEF Wrong
    <3> QED
      BY <1>3, <3>1, LeastNumber
  <2>2. k # 0
    BY <2>1, <1>1, <1>2
  <2>3. k \in 1 .. m /\ k - 1 \in 0 .. m /\ k - 1 \notin Wrong
    BY <2>1, <2>2
  <2> QED
    BY <2>1, <2>3, <1>1, <1>2
<1>4. \A k \in 0 .. m : g[k] = x(k)
  BY <1>3
<1>5. \A k \in 1 .. m : f[k] \in k - 1 .. n - 1 /\ x(k - 1)[f[k]] \notin dead
  <2> TAKE k \in 1 .. m
  <2>1. k - 1 \in 0 .. m
    OBVIOUS
  <2> QED
    BY <2>1, <1>1, <1>4
<1>6. Accepted(a, f, dead, m, n)
  BY <1>1, <1>5 DEF Accepted, x
<1>7. a[f] = g[m]
  <2>1. m \in 0 .. m
    OBVIOUS
  <2> QED
    BY <2>1, <1>2, <1>4 DEF x
<1> QED
  BY <1>6, <1>7 DEF a

(* So Orders is the set of ends.                                           *)
LEMMA OrdersAreEnds ==
  ASSUME call.cards \in Nat, ToDraw \in 0 .. call.cards, NEW order \in Shuffles(call.cards), NEW dead
  PROVE  Orders(order, dead) = Ends(order, dead, ToDraw, call.cards)
<1> DEFINE n == call.cards
           m == ToDraw
           a == DeckAfter(order, m, n)
           R == {f \in [1 .. m -> 0 .. n - 1] : Accepted(a, f, dead, m, n)}
<1>1. Orders(order, dead) = {a[f] : f \in R}
  BY OrdersAre DEF Cards
<1>2. \A f \in R : a[f] \in Ends(order, dead, m, n)
  BY AcceptedDeals
<1>3. ASSUME NEW o \in Ends(order, dead, m, n) PROVE \E f \in R : a[f] = o
  <2>1. PICK f, g : IsDeal(f, g, order, dead, m, n) /\ o = g[m]
    BY DEF Ends
  <2>2. Accepted(a, f, dead, m, n) /\ a[f] = g[m]
    BY <2>1, DealsAccepted
  <2>3. f \in [1 .. m -> 0 .. n - 1]
    BY <2>1 DEF IsDeal
  <2> QED
    BY <2>1, <2>2, <2>3
<1> HIDE DEF n, m, a, R
<1>4. {a[f] : f \in R} = Ends(order, dead, m, n)
  BY <1>2, <1>3
<1> QED
  BY <1>1, <1>4 DEF n, m

(* Property BoardsAreUniform of the runs. The deck is not reset between    *)
(* trials (sample_range_equity and sample_boards shuffle its front in      *)
(* place), and whatever order earlier trials left, every board of live     *)
(* cards is dealt by equally many of the equally likely sequences of       *)
(* accepted draws: a deal with one board in front is renamed to a deal     *)
(* with another, and a deal is decided by its front.                       *)
THEOREM UniformBoards == Spec => []BoardsAreUniform
<1>1. DealInv => BoardsAreUniform
  <2> SUFFICES ASSUME DealInv, NEW w \in Workers, pc[w] = "deal", d[w] = 0,
                      NEW b \in kSubset(ToDraw, Cards \ Dead(w)), NEW c \in kSubset(ToDraw, Cards \ Dead(w))
               PROVE  /\ Cardinality({o \in Orders(deck[w], Dead(w)) : {o[k] : k \in 0 .. ToDraw - 1} = b})
                         = Cardinality({o \in Orders(deck[w], Dead(w)) : {o[k] : k \in 0 .. ToDraw - 1} = c})
                      /\ Cardinality({o \in Orders(deck[w], Dead(w)) : {o[k] : k \in 0 .. ToDraw - 1} = b}) > 0
    BY DEF BoardsAreUniform
  <2> DEFINE n == call.cards
             m == ToDraw
             order == deck[w]
             dead == Dead(w)
  <2>1. n \in Nat
    BY DEF DealInv, Typed
  <2>2. order \in Shuffles(n)
    BY DEF DealInv, Typed, Permuted, Shuffles, Cards
  <2>3. b \in kSubset(m, (0 .. n - 1) \ dead) /\ c \in kSubset(m, (0 .. n - 1) \ dead)
    BY DEF Cards
  <2>4. m \in 0 .. n
    <3> DEFINE C == 0 .. n - 1
    <3>1. IsFiniteSet(C) /\ Cardinality(C) = n
      <4>1. 0 \in Int /\ n - 1 \in Int
        BY <2>1
      <4>2. IsFiniteSet(C) /\ Cardinality(C) = IF 0 > n - 1 THEN 0 ELSE (n - 1) - 0 + 1
        BY <4>1, FS_Interval
      <4> HIDE DEF C, n
      <4> QED
        BY <4>2, <2>1
    <3>2. b \in SUBSET C /\ Cardinality(b) = m
      BY <2>3 DEF kSubset
    <3> HIDE DEF C, n
    <3>3. Cardinality(b) <= n
      BY <3>1, <3>2, FS_Subset
    <3>4. m \in Nat
      BY SamplerAssumption
    <3> QED
      BY <3>2, <3>3, <3>4, <2>1
  <2>5. Orders(order, dead) = Ends(order, dead, m, n)
    BY <2>1, <2>2, <2>4, OrdersAreEnds
  <2> HIDE DEF n, order, dead
  <2>6. /\ Cardinality(Ways(order, dead, m, n, b)) = Cardinality(Ways(order, dead, m, n, c))
        /\ Cardinality(Ways(order, dead, m, n, b)) > 0
    BY <2>1, <2>2, <2>3, <2>4, WaysEqual
  <2>7. /\ {o \in Orders(order, dead) : {o[k] : k \in 0 .. m - 1} = b} = Ways(order, dead, m, n, b)
        /\ {o \in Orders(order, dead) : {o[k] : k \in 0 .. m - 1} = c} = Ways(order, dead, m, n, c)
    BY <2>5 DEF Ways
  <2> QED
    BY <2>6, <2>7 DEF order, dead
<1>2. Init => DealInv
  BY InitDeal
<1>3. DealInv /\ [Next]_vars => DealInv'
  BY StepDeal
<1> QED
  BY <1>1, <1>2, <1>3, PTL DEF Spec
=============================================================================
