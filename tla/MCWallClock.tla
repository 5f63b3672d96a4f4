---------------------------- MODULE MCWallClock -----------------------------
(***************************************************************************)
(* WallClock with two times that share no bits of either half and are of   *)
(* different days and seconds of a day.                                    *)
(***************************************************************************)
EXTENDS WallClock

TwoTimes == {<<1, 2>>, <<2, 5>>}
=============================================================================
