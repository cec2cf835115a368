------------------------------ MODULE AliasPicker ------------------------------
(***************************************************************************)
(* The weighted combo picker of the pair sampler (src/core/alias_picker.h): *)
(* the alias table is built from two stacks that share one array, small    *)
(* entries growing from the front and large ones from the back. Entries and *)
(* places count from 1. Weights are whole numbers here and a probability of *)
(* one is the sum of the weights, so the construction is exact where the    *)
(* code rounds.                                                            *)
(***************************************************************************)
EXTENDS Integers, Sequences, FiniteSets, FiniteSetsExt

(* The double 1.0.                                                          *)
One(weights) == MapThenSumSet(LAMBDA k : weights[k], DOMAIN weights)

(* Every entry keeps itself with probability one until it is paired. "scaled"   *)
(* is what is left of an entry's share, times n. (A list joined to the empty    *)
(* one is the list: TLC then computes it once.)                                *)
Unpaired(weights) ==
  LET list(f) == << >> \o f
  IN  [scaled |-> list([k \in DOMAIN weights |-> Len(weights) * weights[k]]),
       prob   |-> list([k \in DOMAIN weights |-> One(weights)]),
       alias  |-> list([k \in DOMAIN weights |-> k]),
       work   |-> list([k \in DOMAIN weights |-> 0]),
       small_top |-> 0, large_bot |-> Len(weights)]

(* Each index goes to the stack of small or of large entries.                 *)
PushSmall(t, k) == [t EXCEPT !.work[t.small_top + 1] = k, !.small_top = @ + 1]
PushLarge(t, k) == [t EXCEPT !.work[t.large_bot] = k, !.large_bot = @ - 1]

Sorted(weights) ==
  LET after[i \in 0 .. Len(weights)] ==
        IF i = 0 THEN Unpaired(weights)
        ELSE LET t == after[i - 1]
             IN  IF t.scaled[i] < One(weights) THEN PushSmall(t, i) ELSE PushLarge(t, i)
  IN  after[Len(weights)]

(* The small entry on top takes the rest of its bucket from the large one on   *)
(* top, which moves to the other stack when that leaves it small.              *)
PairUp(t, one) ==
  LET s    == t.work[t.small_top]
      l    == t.work[t.large_bot + 1]
      rest == (t.scaled[l] + t.scaled[s]) - one
      paid == [t EXCEPT !.prob[s] = t.scaled[s], !.alias[s] = l, !.scaled[l] = rest,
                        !.small_top = @ - 1]
  IN  IF rest < one THEN [PushSmall(paid, l) EXCEPT !.large_bot = @ + 1] ELSE paid

(* The pairing loop: a step settles one entry, so there are n of them at most. *)
Table(weights) ==
  LET after[k \in 0 .. Len(weights)] ==
        IF k = 0 THEN Sorted(weights)
        ELSE LET t == after[k - 1]
             IN  IF t.small_top > 0 /\ t.large_bot < Len(weights)
                 THEN PairUp(t, One(weights)) ELSE t
  IN  after[Len(weights)]

(* Bit-equal weights need no table: every bucket is its own.                   *)
Uniform(weights) == \A k \in DOMAIN weights : weights[k] = weights[1]

Picker(weights) == IF Uniform(weights) THEN Unpaired(weights) ELSE Table(weights)

(* The equally likely draws: a bucket and a coin.                              *)
Draws(weights) == (DOMAIN weights) \X (0 .. One(weights) - 1)

(* Variant: the coin is compared the other way at equality.                  *)
PickedInclusive(table, draw) ==
  IF draw[2] <= table.prob[draw[1]] THEN draw[1] ELSE table.alias[draw[1]]

(* pick().                                                                   *)
Picked(table, draw) ==
  IF draw[2] < table.prob[draw[1]] THEN draw[1] ELSE table.alias[draw[1]]

=============================================================================
