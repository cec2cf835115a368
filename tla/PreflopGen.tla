------------------------------- MODULE PreflopGen -------------------------------
(***************************************************************************)
(* The generator of the preflop table (apps/gen_preflop_rank.cpp). One     *)
(* pass over all boards counts, for every two-card hand, the boards and    *)
(* opponents it beats; workers take boards round robin and report what     *)
(* they have done in batches, and the main thread waits for the reports to *)
(* reach the number of boards before it joins the workers. Further passes  *)
(* recount some hands directly. Every gate is an abort.                    *)
(***************************************************************************)
EXTENDS Integers, Sequences, FiniteSetsExt

CONSTANTS
  RankCount, SuitCount,  (* the deck: 13 and 4                               *)
  BoardCards,            (* 5                                                *)
  ReportEvery,           (* boards per progress report: 4096                 *)
  ThreadCounts,          (* --threads values                                 *)
  VerifyHands,           (* the hands --verify recounts, in order            *)
  Score(_)               (* eval_score7 of a set of cards                    *)

ASSUME GenAssumption ==
  /\ RankCount \in Nat \ {0} /\ SuitCount \in Nat \ {0}
  /\ BoardCards \in 1 .. RankCount * SuitCount - 4
  /\ ReportEvery \in Nat \ {0}
  /\ ThreadCounts \subseteq Nat \ {0}

DeckCards == 0 .. RankCount * SuitCount - 1
Hands     == kSubset(2, DeckCards)

Size == RankCount * SuitCount
HoldingsWithCard == Size - BoardCards - 1

VARIABLES
  threads, verify,  (* the command line                                      *)
  stage,            (* 0: the pass over all boards; i: recount of hand i     *)
  main,             (* where the main thread is                              *)
  pos,              (* workers created so far in this pass                   *)
  at,               (* each worker's next board                              *)
  since,            (* its boards not yet reported                           *)
  acc,              (* its counts                                            *)
  exited,           (* workers that have returned                            *)
  progress,         (* the shared count of reported boards                   *)
  combo,            (* the counts of the pass over all boards                *)
  table             (* what is written                                       *)

vars == <<threads, verify, stage, main, pos, at, since, acc, exited, progress, combo, table>>

Workers == 0 .. threads - 1

(* --- the counting --- *)

Zero == [wins |-> 0, ties |-> 0, losses |-> 0, boards |-> 0]

Plus(x, y) == [f \in DOMAIN x |-> x[f] + y[f]]

(* Variants: the holding itself is not added back; the two sides of the order *)
(* are exchanged.                                                           *)
CountedUnrestored(before, equal, above, less, eq) ==
  [wins |-> before - less, ties |-> equal - eq,
   losses |-> above - (2 * HoldingsWithCard - less - eq), boards |-> 1]

CountedReversed(before, equal, above, less, eq) ==
  [wins |-> above - (2 * HoldingsWithCard - less - eq), ties |-> equal - eq + 1,
   losses |-> before - less, boards |-> 1]

(* A holding's counts on one board, from the holdings sorted before it, in    *)
(* its group of equals and above it, less those that share one of its cards.  *)
Counted(before, equal, above, less, eq) ==
  [wins |-> before - less, ties |-> equal - eq + 1,
   losses |-> above - (2 * HoldingsWithCard - less - eq), boards |-> 1]

(* One board: the groups of equal score in ascending order, with the running  *)
(* totals the walk carries from group to group.                               *)
BoardCounts(board) ==
  LET rest     == DeckCards \ board
      holdings == kSubset(2, rest)
      score    == [h \in holdings |-> Score(board \union h)]
      values   == {score[h] : h \in holdings}
      value    == [g \in 1 .. Cardinality(values) |->
                     CHOOSE v \in values : Cardinality({u \in values : u <= v}) = g]
      group(g) == {h \in holdings : score[h] = value[g]}
      group_cnt(g, c) == Cardinality({h \in group(g) : c \in h})
      start[g \in DOMAIN value] ==
        IF g = 1 THEN 0 ELSE start[g - 1] + Cardinality(group(g - 1))
      less_cnt[g \in DOMAIN value] ==
        [c \in rest |-> IF g = 1 THEN 0 ELSE less_cnt[g - 1][c] + group_cnt(g - 1, c)]
  IN  [h \in holdings |->
         LET g     == CHOOSE k \in DOMAIN value : value[k] = score[h]
             equal == Cardinality(group(g))
         IN  Counted(start[g], equal, Cardinality(holdings) - start[g] - equal,
                     MapThenSumSet(LAMBDA c : less_cnt[g][c], h),
                     MapThenSumSet(LAMBDA c : group_cnt(g, c), h))]

(* The recount: every opponent of the hand on one board.                      *)
NaiveCounts(hand, board) ==
  LET mine      == Score(board \union hand)
      opponents == kSubset(2, DeckCards \ (hand \union board))
      Those(T(_)) == Cardinality({h \in opponents : T(Score(board \union h))})
  IN  [wins |-> Those(LAMBDA s : s < mine), ties |-> Those(LAMBDA s : s = mine),
       losses |-> Those(LAMBDA s : s > mine), boards |-> 1]

(* Boards in the order of the nested loops over ascending card ids.           *)
InOrder(set) ==
  LET Precedes(a, b) == a # b /\ Min((a \ b) \union (b \ a)) \in a
  IN  [k \in 0 .. Cardinality(set) - 1 |->
         CHOOSE b \in set : Cardinality({a \in set : Precedes(a, b)}) = k]

(* What each pass works through, board by board.                              *)
Passes ==
  [i \in 0 .. Len(VerifyHands) |->
     IF i = 0
     THEN LET order == InOrder(kSubset(BoardCards, DeckCards))
          IN  [k \in DOMAIN order |-> BoardCounts(order[k])]
     ELSE LET hand  == VerifyHands[i]
              order == InOrder(kSubset(BoardCards, DeckCards \ hand))
          IN  [k \in DOMAIN order |-> [h \in {hand} |-> NaiveCounts(hand, order[k])]]]

Units == Passes[stage]

Total == Cardinality(DOMAIN Units)

(* --- run_parallel --- *)

StartPass(i) ==
  /\ stage' = i /\ main' = "spawn" /\ pos' = 0 /\ progress' = 0 /\ exited' = {}
  /\ at' = [w \in Workers |-> w]
  /\ since' = [w \in Workers |-> 0]
  /\ acc' = [w \in Workers |-> [h \in Hands |-> Zero]]

Init ==
  /\ threads \in ThreadCounts /\ verify \in BOOLEAN
  /\ stage = 0 /\ main = "spawn" /\ pos = 0 /\ progress = 0 /\ exited = {}
  /\ at = [w \in Workers |-> w]
  /\ since = [w \in Workers |-> 0]
  /\ acc = [w \in Workers |-> [h \in Hands |-> Zero]]
  /\ combo = [h \in Hands |-> Zero]
  /\ table = <<>>

Goto(place) == main' = place

Spawn ==
  /\ main = "spawn" /\ pos < threads
  /\ pos' = pos + 1
  /\ UNCHANGED <<threads, verify, stage, main, at, since, acc, exited, progress, combo, table>>

(* Nothing catches a failed thread creation: the program is terminated.       *)
SpawnFails ==
  /\ main = "spawn" /\ pos < threads
  /\ Goto("terminated")
  /\ UNCHANGED <<threads, verify, stage, pos, at, since, acc, exited, progress, combo, table>>

SpawnDone ==
  /\ main = "spawn" /\ pos = threads
  /\ Goto("watch")
  /\ UNCHANGED <<threads, verify, stage, pos, at, since, acc, exited, progress, combo, table>>

(* The progress loop, which looks every half second, is left.                 *)
WatchDone ==
  /\ main = "watch" /\ progress >= Total
  /\ Goto("join")
  /\ UNCHANGED <<threads, verify, stage, pos, at, since, acc, exited, progress, combo, table>>

JoinDone ==
  /\ main = "join" /\ exited = Workers
  /\ Goto("reduce")
  /\ UNCHANGED <<threads, verify, stage, pos, at, since, acc, exited, progress, combo, table>>

Running(w) == w < pos /\ w \notin exited /\ main # "terminated"

(* The next board whose index is the worker's is counted.                     *)
TakeBoard(w) ==
  /\ acc' = [acc EXCEPT ![w] = [h \in Hands |->
               IF h \in DOMAIN Units[at[w]] THEN Plus(@[h], Units[at[w]][h]) ELSE @[h]]]
  /\ at' = [at EXCEPT ![w] = @ + threads]

(* A board, and the report of a full batch.                                   *)
CountBoard(w) ==
  /\ Running(w) /\ at[w] < Total
  /\ TakeBoard(w)
  /\ IF since[w] + 1 = ReportEvery
     THEN since' = [since EXCEPT ![w] = 0] /\ progress' = progress + ReportEvery
     ELSE since' = [since EXCEPT ![w] = @ + 1] /\ UNCHANGED progress
  /\ UNCHANGED <<threads, verify, stage, main, pos, exited, combo, table>>

(* Variant: the last, partial batch is not reported.                          *)
WorkerReturnsSilent(w) ==
  /\ Running(w) /\ at[w] >= Total
  /\ exited' = exited \union {w}
  /\ UNCHANGED <<threads, verify, stage, main, pos, at, since, acc, progress, combo, table>>

(* The boards are through: the rest is reported and the worker returns.       *)
WorkerReturns(w) ==
  /\ Running(w) /\ at[w] >= Total
  /\ progress' = progress + since[w]
  /\ since' = [since EXCEPT ![w] = 0]
  /\ exited' = exited \union {w}
  /\ UNCHANGED <<threads, verify, stage, main, pos, at, acc, combo, table>>

(* --- the gates and the table --- *)

Sum(h) == [f \in DOMAIN Zero |-> MapThenSumSet(LAMBDA w : acc[w][h][f], Workers)]

Choose2(n) == (n * (n - 1)) \div 2

BoardsPerCombo == Cardinality(kSubset(BoardCards, 1 .. Size - 2))
PairsPerCombo  == BoardsPerCombo * Choose2(Size - 2 - BoardCards)

(* canonicalize_hand: the two ranks, and whether the suits agree.             *)
Label(h) == [ranks  |-> {c % RankCount : c \in h},
             suited |-> Cardinality({c \div RankCount : c \in h}) = 1]

Labels == {Label(h) : h \in Hands}

ExpectedComboCount(label) ==
  IF Cardinality(label.ranks) = 1 THEN Choose2(SuitCount)
  ELSE IF label.suited THEN SuitCount ELSE SuitCount * (SuitCount - 1)

Gates(counts) ==
  /\ \A h \in Hands :
       /\ counts[h].boards = BoardsPerCombo
       /\ counts[h].wins + counts[h].ties + counts[h].losses = PairsPerCombo
       /\ \A k \in Hands : Label(k) = Label(h) =>
            counts[k].wins = counts[h].wins /\ counts[k].ties = counts[h].ties
  /\ Cardinality(Labels) = RankCount * RankCount
  /\ \A label \in Labels :
       Cardinality({h \in Hands : Label(h) = label}) = ExpectedComboCount(label)

(* After a recount, or after the pass over all boards: on to the next pass    *)
(* asked for, or to the table.                                                *)
Proceed ==
  IF verify /\ stage < Len(VerifyHands)
  THEN StartPass(stage + 1)
  ELSE Goto("emit") /\ UNCHANGED <<stage, pos, at, since, acc, exited, progress>>

Abort == Goto("aborted") /\ UNCHANGED <<stage, pos, at, since, acc, exited, progress>>

Reduce ==
  /\ main = "reduce" /\ stage = 0
  /\ combo' = [h \in Hands |-> Sum(h)]
  /\ IF Gates(combo') THEN Proceed ELSE Abort
  /\ UNCHANGED <<threads, verify, table>>

Verify ==
  /\ main = "reduce" /\ stage > 0
  /\ IF Sum(VerifyHands[stage]) = combo[VerifyHands[stage]] THEN Proceed ELSE Abort
  /\ UNCHANGED <<threads, verify, combo, table>>

(* num = 2 * wins + ties of a label's hands, which Gates has found equal.     *)
Num(label) ==
  LET c == combo[CHOOSE h \in Hands : Label(h) = label] IN 2 * c.wins + c.ties

(* The order of the names, which decides between equal nums.                  *)
NameIndex(label) ==
  2 * (Max(label.ranks) * RankCount + Min(label.ranks)) + (IF label.suited THEN 1 ELSE 0)

Emit ==
  LET num == [label \in Labels |-> Num(label)]
      Before(x, y) == \/ num[x] > num[y]
                      \/ num[x] = num[y] /\ NameIndex(x) < NameIndex(y)
      order == [i \in 1 .. Cardinality(Labels) |->
                  CHOOSE y \in Labels : Cardinality({x \in Labels : Before(x, y)}) = i - 1]
  IN  /\ main = "emit"
      /\ table' = [i \in DOMAIN order |-> [label |-> order[i], num |-> num[order[i]]]]
      /\ Goto("done")
      /\ UNCHANGED <<threads, verify, stage, pos, at, since, acc, exited, progress, combo>>

(* The output file cannot be opened.                                          *)
EmitFails ==
  /\ main = "emit"
  /\ Goto("failed")
  /\ UNCHANGED <<threads, verify, stage, pos, at, since, acc, exited, progress, combo, table>>

-----------------------------------------------------------------------------
MainStep == Spawn \/ SpawnFails \/ SpawnDone \/ WatchDone \/ JoinDone
            \/ Reduce \/ Verify \/ Emit \/ EmitFails

Worker(w) == CountBoard(w) \/ WorkerReturns(w)

Ended == main \in {"done", "failed", "aborted", "terminated"}

Next == MainStep \/ (\E w \in Workers : Worker(w)) \/ (Ended /\ UNCHANGED vars)

(* The scheduler keeps the main thread and each worker running.               *)
Fairness ==
  /\ WF_vars(MainStep)
  /\ \A w \in 0 .. Max(ThreadCounts) - 1 : WF_vars(w \in Workers /\ Worker(w))

Spec == Init /\ [][Next]_vars /\ Fairness

-----------------------------------------------------------------------------
(* No gate fires, whatever the thread count: each hand meets each of its       *)
(* boards once and every opponent on it, hands of one label agree, and the     *)
(* recount agrees with the pass over all boards.                             *)
GatesHold == main # "aborted"

(* The table lists every label, and ranks it by the boards and opponents it    *)
(* beats and ties, counted one by one.                                       *)
Direct ==
  [h \in Hands |->
     MapThenSumSet(LAMBDA b : 2 * NaiveCounts(h, b).wins + NaiveCounts(h, b).ties,
                   kSubset(BoardCards, DeckCards \ h))]

TableIsExact ==
  main = "done" =>
    /\ {table[i].label : i \in DOMAIN table} = Labels /\ Len(table) = Cardinality(Labels)
    /\ \A i \in DOMAIN table : \A h \in Hands :
         Label(h) = table[i].label => table[i].num = Direct[h]
    /\ \A i, j \in DOMAIN table : i < j => table[i].num >= table[j].num

(* The generator ends: the reports reach the total once the work is done.      *)
ProgramEnds == <>Ended
=============================================================================
