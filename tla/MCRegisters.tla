---------------------------- MODULE MCRegisters -----------------------------
(***************************************************************************)
(* Registers with blocks that cover the locate flag, unknown, constant,    *)
(* write-only and ordinary registers, alone and one after the other.       *)
(***************************************************************************)
EXTENDS Registers

ReadBlocks == {<<0, 1>>, <<8, 2>>, <<1024, 4>>, <<1030, 2>>, <<1038, 1>>}

WrittenBlocks == {<<9, 1>>, <<1025, 3>>, <<1030, 2>>, <<1031, 0>>, <<61442, 1>>}
=============================================================================
