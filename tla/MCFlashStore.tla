---------------------------- MODULE MCFlashStore ----------------------------
(* Model values for FlashStore: four fields at their offsets, and a small  *)
(* checksum that is ideal on them; for some contents its high byte is that *)
(* of an erased page, for one it is 0.                                     *)
EXTENDS FlashStore

Fields4  == [registerState |-> 0, daySetPoint |-> 3, CoolOrHeat |-> 19,
             moduleMode |-> 21]
Defaults == [registerState |-> 0, daySetPoint |-> 1, CoolOrHeat |-> 0,
             moduleMode |-> 0]

Digit(v) == IF v = Erased THEN 2 ELSE v
Toy(c) == LET n == Digit(c.registerState) + 3 * Digit(c.daySetPoint)
                     + 9 * Digit(c.CoolOrHeat) + 27 * Digit(c.moduleMode)
          IN  <<n, IF n % 2 = 1 THEN Erased ELSE 0>>
=============================================================================
