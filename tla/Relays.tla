------------------------------- MODULE Relays -------------------------------
(***************************************************************************)
(* The five output relays and CtrlRelay (Control.c), the only function that*)
(* drives them, together with the wiring the requirements ask for.         *)
(*                                                                         *)
(* The state of the outputs is the set of energised relays.  CtrlRelay is  *)
(* a function from the present outputs to the new ones: a call that writes *)
(* no pin, because no branch matches, leaves the outputs as they are.      *)
(***************************************************************************)
EXTENDS Integers

NO  == 0
YES == 1

\* GlobalConfig.h: how the equipment is wired.
MODE_1_CONVENTIONAL == 1
MODE_2_0            == 2
MODE_3_B            == 3

WiringModes == {MODE_1_CONVENTIONAL, MODE_2_0, MODE_3_B}

\* Control.h: what the controller is doing.
NORUN   == 0
COOLING == 1
HEATING == 2

Demands == {NORUN, COOLING, HEATING}
Stages  == {1, 2}

RelayPins == {"W", "Y", "G", "W2", "Y2"}

Off == {}

-----------------------------------------------------------------------------
(***************************************************************************)
(* The wiring of the requirements, stated by what each terminal is for     *)
(* rather than branch by branch: G is the fan and always runs with the     *)
(* equipment.  Conventional: Y and Y2 are the two cooling stages, W and W2 *)
(* the two heating stages.  Heat pump: Y is the compressor in both         *)
(* directions, W the reversing valve (O: energised to cool, B: energised to*)
(* heat), Y2 the second cooling stage and W2 the auxiliary heat.           *)
(***************************************************************************)
Compressor(mode, dir) == mode # MODE_1_CONVENTIONAL \/ dir = COOLING

WTerminal(mode, dir) ==
    \/ mode = MODE_1_CONVENTIONAL /\ dir = HEATING
    \/ mode = MODE_2_0 /\ dir = COOLING
    \/ mode = MODE_3_B /\ dir = HEATING

Wiring(mode, dir, stage) ==
    IF dir = NORUN THEN Off
    ELSE {"G"} \cup (IF Compressor(mode, dir) THEN {"Y"} ELSE {})
               \cup (IF WTerminal(mode, dir) THEN {"W"} ELSE {})
               \cup (IF stage = 2 THEN IF dir = COOLING THEN {"Y2"} ELSE {"W2"}
                     ELSE {})

SecondStage(relays) == relays \cap {"Y2", "W2"} # {}

-----------------------------------------------------------------------------
(***************************************************************************)
(* The two halves of each branch of CtrlRelay: the pins it writes YES and  *)
(* the pins it writes NO.  A combination with no branch (a wiring mode     *)
(* other than 1..3, or NORUN) writes nothing.                              *)
(***************************************************************************)
WritesYes(mode, coolOrHeat, stage) ==
    CASE coolOrHeat = COOLING /\ stage = 1 /\ mode \in {1, 3} -> {"Y", "G"}
      [] coolOrHeat = COOLING /\ stage = 1 /\ mode = 2 -> {"W", "Y", "G"}
      [] coolOrHeat = COOLING /\ stage = 2 /\ mode \in {1, 3} -> {"Y", "G", "Y2"}
      [] coolOrHeat = COOLING /\ stage = 2 /\ mode = 2 -> {"W", "Y", "G", "Y2"}
      [] coolOrHeat = HEATING /\ stage = 1 /\ mode = 1 -> {"W", "G"}
      [] coolOrHeat = HEATING /\ stage = 1 /\ mode = 2 -> {"Y", "G"}
      [] coolOrHeat = HEATING /\ stage = 1 /\ mode = 3 -> {"W", "Y", "G"}
      [] coolOrHeat = HEATING /\ stage = 2 /\ mode = 1 -> {"W", "G", "W2"}
      [] coolOrHeat = HEATING /\ stage = 2 /\ mode = 2 -> {"Y", "G", "W2"}
      [] coolOrHeat = HEATING /\ stage = 2 /\ mode = 3 -> {"W", "Y", "G", "W2"}
      [] OTHER -> {}

\* A slip: first-stage heating of conventional equipment does not release
\* the compressor.
WritesNoKeepsY(mode, coolOrHeat, stage) ==
    IF WritesYes(mode, coolOrHeat, stage) = {} THEN {}
    ELSE RelayPins \ (WritesYes(mode, coolOrHeat, stage)
                        \cup IF mode = 1 /\ coolOrHeat = HEATING /\ stage = 1
                             THEN {"Y"} ELSE {})

WritesNo(mode, coolOrHeat, stage) ==
    CASE coolOrHeat = COOLING /\ stage = 1 /\ mode \in {1, 3} -> {"W", "W2", "Y2"}
      [] coolOrHeat = COOLING /\ stage = 1 /\ mode = 2 -> {"W2", "Y2"}
      [] coolOrHeat = COOLING /\ stage = 2 /\ mode \in {1, 3} -> {"W", "W2"}
      [] coolOrHeat = COOLING /\ stage = 2 /\ mode = 2 -> {"W2"}
      [] coolOrHeat = HEATING /\ stage = 1 /\ mode = 1 -> {"Y", "Y2", "W2"}
      [] coolOrHeat = HEATING /\ stage = 1 /\ mode = 2 -> {"W", "Y2", "W2"}
      [] coolOrHeat = HEATING /\ stage = 1 /\ mode = 3 -> {"Y2", "W2"}
      [] coolOrHeat = HEATING /\ stage = 2 /\ mode = 1 -> {"Y", "Y2"}
      [] coolOrHeat = HEATING /\ stage = 2 /\ mode = 2 -> {"W", "Y2"}
      [] coolOrHeat = HEATING /\ stage = 2 /\ mode = 3 -> {"Y2"}
      [] OTHER -> {}

CtrlRelay(relays, mode, coolOrHeat, stage, en) ==
    IF en = YES
    THEN (relays \ WritesNo(mode, coolOrHeat, stage))
            \cup WritesYes(mode, coolOrHeat, stage)
    ELSE relays \ RelayPins
=============================================================================
