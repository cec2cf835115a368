------------------------------- MODULE RangeStore -------------------------------
(***************************************************************************)
(* Range handles: the functions of src/api/waist_handles.cpp that make, read *)
(* and destroy ranges, over the Range of src/core/range.cpp, and the Python   *)
(* class on top of them (binding/core_range.cpp, binding/core_common.h).      *)
(*                                                                         *)
(* One caller makes one call after the other, all of them in C or all of them *)
(* from Python. In C it passes the same output slot to every call that makes  *)
(* a range and keeps the handles it got. A Python range owns its handle and   *)
(* remembers the game tag it was given, which may be neither of the two games. *)
(***************************************************************************)
EXTENDS RangeAlgebra, PloNotation

CONSTANTS
  Sources,      (* the calls that make a range without operands              *)
  Partners,     (* those made later than the first call: a bound              *)
  DeadMasks,    (* dead cards asked about                                    *)
  Capacities,   (* sizes of the caller's columns                             *)
  Percents,     (* percentages of starting hands asked about                 *)
  MaxOperand,   (* the longest list operated on or summed: a bound              *)
  MaxRanges,    (* ranges alive at once: a bound                             *)
  MaxCalls      (* calls of a session: a bound                               *)

(* A call that makes a range without operands, with the arguments of all of them.    *)
SourceCalls ==
  [op : {"empty", "combos", "string", "try", "all", "top"}, game : STRING, combos : ComboLists,
   text : Seq(Tokens) \union Seq(Items), percent : Int, missing : BOOLEAN]

ASSUME StoreAssumption ==
  /\ MaxRanges \in Nat \ {0} /\ MaxCalls \in Nat
  /\ Partners \subseteq Sources /\ Sources \subseteq SourceCalls
  /\ Capacities \subseteq Nat
  /\ \A c \in Sources : IF c.game = "plo" THEN c.op # "try" /\ c.text \in Seq(Items)
                                        ELSE c.text \in Seq(Tokens)

Null == 0
Slots == 1 .. MaxRanges
Operations == {"union", "intersection", "difference"}

VARIABLES
  front,    (* "c" or "python"                                              *)
  store,    (* the ranges alive, by handle                                   *)
  out,      (* the caller's output slot                                     *)
  status,   (* what the last call returned                                   *)
  reply,    (* what the last reading call wrote                              *)
  asked,    (* history: "made" or "refused" after a call that makes ranges      *)
  means,    (* history: the set each range alive should hold, and whether its order *)
            (* is promised to be that of the set                             *)
  calls     (* history: the number of calls                                  *)

vars == <<front, store, out, status, reply, asked, means, calls>>

Alive == DOMAIN store
Nothing == <<>>

-----------------------------------------------------------------------------
(* Making a range.                                                           *)

(* The game a call reaches the library with: Python maps every tag but PLO to      *)
(* Hold'em, the C functions refuse a value that is neither.                    *)
GameOf(c) == IF front = "python" /\ c.game # "plo" THEN "holdem" ELSE c.game

(* all_holdem_combos: the lower card outermost.                                *)
AllHoldem ==
  LET from[c \in 0 .. NumCards] ==
        IF c = NumCards THEN << >>
        ELSE [i \in 1 .. NumCards - 1 - c |-> {c, c + i}] \o from[c + 1]
  IN  from[0]

(* Range::all.                                                               *)
AllCombos(game) == AtWeight(IF game = "plo" THEN PloMasks ELSE AllHoldem, Full)

(* validate_combo_masks.                                                     *)
RightSizes(combos, game) == \A i \in DOMAIN combos : Cardinality(combos[i].mask) = CardsPerHand(game)

FromString(text, game) == IF game = "plo" THEN ParsePlo(text) ELSE ParseHoldem(text)

(* What each creator makes of its arguments. try_parse_range is Hold'em only and     *)
(* has no game; the text of a malformed range is its answer, not an error.         *)
Made(c) ==
  LET game == GameOf(c)
  IN  IF c.op = "empty" THEN Parsed(<< >>)
      ELSE IF c.missing THEN Malformed
      ELSE IF c.op = "try" THEN ParseHoldem(c.text)
      ELSE IF game \notin {"holdem", "plo"} THEN Malformed
      ELSE CASE c.op = "combos" -> IF RightSizes(c.combos, game) THEN Parsed(c.combos) ELSE Malformed
             [] c.op = "string" -> FromString(c.text, game)
             [] c.op = "all"    -> Parsed(AllCombos(game))
             [] c.op = "top"    -> IF game = "holdem" /\ LegalPercent(c.percent)
                                   THEN Parsed(TopCombos(c.percent)) ELSE Malformed

(* The tag Python shows: the one a list of combos was given with, for any other       *)
(* range the one read back from the handle.                                     *)
TagOf(c) == IF c.op = "combos" /\ front = "python" THEN c.game
            ELSE IF c.op \in {"empty", "try"} THEN "holdem" ELSE GameOf(c)

GameMade(c) == IF c.op \in {"empty", "try"} THEN "holdem" ELSE GameOf(c)

FreeSlot == Min(Slots \ Alive)
MoreCalls == calls < MaxCalls /\ calls' = calls + 1

(* A call that succeeds: a new handle in the caller's slot.                      *)
Give(range, meaning) ==
  /\ store' = [s \in Alive \union {FreeSlot} |-> IF s = FreeSlot THEN range ELSE store[s]]
  /\ means' = [s \in Alive \union {FreeSlot} |-> IF s = FreeSlot THEN meaning ELSE means[s]]
  /\ out' = FreeSlot
  /\ status' = "ok"

(* Variant: the slot is written on success only.                                *)
RefuseKeepingSlot(code) ==
  /\ status' = code
  /\ UNCHANGED <<out, store, means>>

(* A call that does not: the slot was cleared first.                              *)
Refuse(code) ==
  /\ out' = Null
  /\ status' = code
  /\ UNCHANGED <<store, means>>

(* What a source should give. Not code.                                        *)
SourceMeans(c) ==
  LET game == GameMade(c)
  IN  [ordered |-> c.op = "top" \/ (game = "plo" /\ c.op \in {"string", "all"}),
       set |-> CASE c.op = "empty"  -> {}
                 [] c.op = "combos" -> Meaning(c.combos)
                 [] c.op = "top"    -> TopMeans(c.percent)
                 [] c.op = "all"    -> {<<m, Full>> : m \in HandsOf(game)}
                 [] OTHER           -> IF game = "plo" THEN PloTextMeans(c.text) ELSE HoldemTextMeans(c.text)]

Create(c) ==
  /\ MoreCalls
  /\ \/ calls = 0
     \/ /\ c \in Partners /\ Cardinality(Alive) < MaxRanges - 1
        /\ \A s \in Alive : Len(store[s].combos) <= MaxOperand
  /\ LET made == Made(c)
     IN  /\ asked' = IF made.ok THEN "made" ELSE "refused"
         /\ IF made.ok
            THEN Give([game |-> GameMade(c), tag |-> TagOf(c), combos |-> made.combos], SourceMeans(c))
            ELSE Refuse(IF c.op = "try" /\ ~c.missing THEN "ok" ELSE "invalid_argument")
  /\ reply' = Nothing
  /\ UNCHANGED front

(* Agreement of the operands: on tags when Python asks, on games in the library.       *)
SameGame(a, b) ==
  /\ front = "python" => store[a].tag = store[b].tag
  /\ store[a].game = store[b].game

Operate(op, a, b) ==
  /\ MoreCalls
  /\ Cardinality(Alive) < MaxRanges
  /\ Len(store[a].combos) <= MaxOperand /\ Len(store[b].combos) <= MaxOperand
  /\ LET game == store[a].game
         made == IF SameGame(a, b) THEN SetOperation(op, store[a].combos, store[b].combos)
                 ELSE Malformed
     IN  /\ asked' = IF made.ok THEN "made" ELSE "refused"
         /\ IF made.ok
            THEN Give([game |-> game, tag |-> store[a].tag, combos |-> made.combos],
                      [ordered |-> TRUE, set |-> OperationMeans(op, means[a].set, means[b].set)])
            ELSE Refuse("invalid_argument")
  /\ reply' = Nothing
  /\ UNCHANGED front

(* An operand is NULL, or there is no memory for the result.                       *)
CreateFails ==
  /\ MoreCalls
  /\ \E code \in {"invalid_argument", "bad_alloc"} : Refuse(code)
  /\ asked' = "refused"
  /\ reply' = Nothing
  /\ UNCHANGED front

(* xiapl_range_destroy. The caller forgets the handle, also where its slot still      *)
(* holds it.                                                                 *)
Destroy(s) ==
  /\ MoreCalls
  /\ store' = [t \in Alive \ {s} |-> store[t]]
  /\ means' = [t \in Alive \ {s} |-> means[t]]
  /\ out' = IF out = s THEN Null ELSE out
  /\ reply' = Nothing /\ asked' = "other"
  /\ UNCHANGED <<front, status>>

-----------------------------------------------------------------------------
(* Reading a range.                                                          *)

(* get_valid_combos: the combos without a dead card, in their order. (By halves: the   *)
(* recursion stays shallow.)                                                  *)
ValidCombos(combos, dead) ==
  LET valid[x \in (1 .. Len(combos) + 1) \X (0 .. Len(combos))] ==
        LET lo == x[1]
            hi == x[2]
            mid == (lo + hi) \div 2
        IN  IF lo > hi THEN << >>
            ELSE IF lo = hi THEN IF combos[lo].mask \intersect dead = {} THEN <<combos[lo]>> ELSE << >>
            ELSE valid[<<lo, mid>>] \o valid[<<mid + 1, hi>>]
  IN  valid[<<1, Len(combos)>>]

(* emit_combos: always the total, and as many as the columns hold.                 *)
Emitted(combos, capacity) ==
  [total |-> Len(combos), combos |-> SubSeq(combos, 1, Smaller(Len(combos), capacity))]

(* fetch_combos: Python asks for the total, then for all.                          *)
CapacityFor(combos, capacity) == IF front = "python" THEN Emitted(combos, 0).total ELSE capacity

TotalWeight(combos) ==
  LET sum[n \in 0 .. Len(combos)] == IF n = 0 THEN 0 ELSE sum[n - 1] + combos[n].weight
  IN  sum[Len(combos)]

Answer(r) ==
  /\ MoreCalls
  /\ reply' = r
  /\ status' = "ok"
  /\ asked' = "other"
  /\ UNCHANGED <<front, store, means, out>>

ReadCombos(s, dead, capacity) ==
  LET valid == ValidCombos(store[s].combos, dead)
  IN  Answer([of |-> s, dead |-> dead, emitted |-> Emitted(valid, CapacityFor(valid, capacity))])

ReadWeight(s, dead) ==
  /\ Len(store[s].combos) <= MaxOperand
  /\ Answer([of |-> s, dead |-> dead, weight |-> TotalWeight(ValidCombos(store[s].combos, dead))])

ReadHead(s) ==
  Answer([of |-> s, size |-> Len(store[s].combos), empty |-> store[s].combos = << >>,
          game |-> IF front = "python" THEN store[s].tag ELSE store[s].game])

(* xiapl_rank_starting_hands: emitted like the combos of a range. It reads no range and *)
(* is asked while there is none: a bound.                                     *)
ReadRanking(p, game, capacity) ==
  /\ Alive = {}
  /\ IF game = "holdem" /\ LegalPercent(p)
     THEN LET labels == RankedHands(p)
          IN  Answer([percent |-> p, emitted |-> Emitted(labels, CapacityFor(labels, capacity))])
     ELSE /\ MoreCalls
          /\ status' = "invalid_argument" /\ reply' = Nothing /\ asked' = "other"
          /\ UNCHANGED <<front, store, means, out>>

Init ==
  /\ front \in {"c", "python"}
  /\ store = << >> /\ means = << >>
  /\ out = Null /\ status = "ok"
  /\ reply = Nothing /\ asked = "other"
  /\ calls = 0

Next ==
  \/ \E c \in Sources : Create(c)
  \/ \E op \in Operations, a, b \in Alive : Operate(op, a, b)
  \/ CreateFails
  \/ \E s \in Alive : Destroy(s)
  \/ \E s \in Alive, dead \in DeadMasks, n \in Capacities : ReadCombos(s, dead, n)
  \/ \E s \in Alive, dead \in DeadMasks : ReadWeight(s, dead)
  \/ \E s \in Alive : ReadHead(s)
  \/ \E p \in Percents, game \in {"holdem", "plo", "unknown"}, n \in Capacities : ReadRanking(p, game, n)

Spec == Init /\ [][Next]_vars

-----------------------------------------------------------------------------
(* A range holds exactly the combos, at exactly the weights, that its notation, its     *)
(* percentage or the operations it came from say, however many calls back that was,     *)
(* and what is read of it is that set less the dead cards.                          *)
RangesMeanWhatTheySay ==
  /\ \A s \in Alive :
       /\ Meaning(store[s].combos) = means[s].set
       /\ RightSizes(store[s].combos, store[s].game)
  /\ "of" \in DOMAIN reply =>
       LET set == means[reply.of].set
           live == {p \in set : p[1] \intersect reply.dead = {}}
       IN  NoRepeats(store[reply.of].combos) =>
             /\ "weight" \in DOMAIN reply => reply.weight = MapThenSumSet(LAMBDA p : p[2], live)
             /\ "emitted" \in DOMAIN reply =>
                  /\ reply.emitted.total = Cardinality(live)
                  /\ Meaning(reply.emitted.combos) \subseteq live
                  /\ front = "python" => Meaning(reply.emitted.combos) = live

(* A range from PLO notation, from all PLO hands, from a percentage or from a set          *)
(* operation is in ascending order of its masks, whatever it was made of: a seeded run       *)
(* does not depend on how the set was spelled.                                      *)
AscendingWherePromised ==
  \A s \in Alive : means[s].ordered =>
    \A i \in 2 .. Len(store[s].combos) :
      MaskLess(store[s].combos[i - 1].mask, store[s].combos[i].mask)

(* After a call that makes ranges, OK and a slot that is not NULL say that it made one,    *)
(* also where the slot held an older range before the call; and the slot never holds a     *)
(* range that is gone.                                                             *)
SlotTellsSuccess ==
  /\ out # Null => out \in Alive
  /\ asked = "made" => status = "ok" /\ out # Null
  /\ asked = "refused" => out = Null
=============================================================================
