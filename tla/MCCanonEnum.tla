------------------------------ MODULE MCCanonEnum ------------------------------
(* Two ranks. CanonEnum.cfg: four suits, so a deck of eight cards and 28 hero *)
(* pairs, which three workers cannot share out evenly. CanonEnumFailure.cfg:  *)
(* three suits, 15 pairs, which two cannot. Boards of one or two cards; one,  *)
(* two and three workers, an unknown hardware count among the reasons.        *)
EXTENDS CanonEnum

MCBoardSizes      == {1, 2}
MCAskedSizes      == {1, 2, 3}
MCAskedVersions   == {1, 2}
MCHardwareThreads == {0, 2, 8}
=============================================================================
