--------------------------------- MODULE MCDeck ---------------------------------
(* A deck of four cards; requests below, at and above its size; lists with a   *)
(* duplicate, an invalid id, and ids the deck may no longer hold.              *)
EXTENDS Deck

MCRequests   == {-1, 0, 1, 2, 4, 9}
MCCapacities == {0, 2, 9}
MCCardLists  == {<<>>, <<2>>, <<3, 0>>, <<1, 1>>, <<0, 4>>}

MCSeededOrder(seed, size) ==
  [i \in 1 .. size |-> 1 + ((i + seed) % size)]
=============================================================================
