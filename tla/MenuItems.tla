----------------------------- MODULE MenuItems ------------------------------
(***************************************************************************)
(* The settings page (SettingPage in Pages.c) as data: its cursor          *)
(* positions, the line each is on, and what one press of the up or the down*)
(* key makes of the value at the cursor.                                   *)
(***************************************************************************)
EXTENDS Integers

\* 1 module, 2 mode, 3 unit, 4 day point, 5 night point, 6 dead band, 7 fan,
\* 8 temperature source, 9..11 date, 12..14 time, 15..16 start of the day,
\* 17..18 its end (hour, minute).
Positions == 1..18

\* The positions of the real-time clock; the others belong to gInfo.
ClockPositions == 9..14

Lines == 1..12

\* showMenu; it stays 0 for a cursor outside the page.
LineOf(cusor) ==
    CASE cusor \in 0..8   -> cusor
      [] cusor \in 9..11  -> 9
      [] cusor \in 12..14 -> 10
      [] cusor \in 15..16 -> 11
      [] cusor \in 17..18 -> 12
      [] OTHER -> 0

AddData(min, max, d) == IF d < max THEN d + 1 ELSE min
SubData(min, max, d) == IF d > min THEN d - 1 ELSE max

Least(cusor) ==
    CASE cusor \in {2, 3, 8, 10, 11} -> 1
      [] cusor = 6 -> 10
      [] cusor = 9 -> 2000
      [] OTHER -> 0

Greatest(cusor) ==
    CASE cusor \in {1, 7} -> 1
      [] cusor \in {3, 8} -> 2
      [] cusor = 2 -> 3
      [] cusor \in {4, 5} -> 500
      [] cusor = 6 -> 50
      [] cusor = 9 -> 2100
      [] cusor = 10 -> 12
      [] cusor = 11 -> 31
      [] cusor \in {12, 15, 17} -> 23
      [] OTHER -> 59

InRange(cusor, v) == Least(cusor) <= v /\ v <= Greatest(cusor)

StepUp(cusor, v) ==
    CASE cusor \in {4, 5} -> IF v < 490 THEN v + 10 ELSE 0
      [] cusor = 6        -> IF v < 50 THEN v + 10 ELSE 10
      [] OTHER            -> AddData(Least(cusor), Greatest(cusor), v)

StepDown(cusor, v) ==
    CASE cusor \in {4, 5} -> IF v > 10 THEN v - 10 ELSE 500
      [] cusor = 6        -> IF v > 10 THEN v - 10 ELSE 50
      [] OTHER            -> SubData(Least(cusor), Greatest(cusor), v)
=============================================================================
