------------------------------- MODULE MCUart -------------------------------
(* Model values for Uart.                                                  *)
EXTENDS Uart

Cmd(a, c) == [addr |-> a, valid |-> TRUE, cmd |-> c, assign |-> 1]
Bad(a, c) == [addr |-> a, valid |-> FALSE, cmd |-> c, assign |-> 1]
Give(a)   == [addr |-> REGISTER_CODE, valid |-> TRUE, cmd |-> "answer",
              assign |-> a]

\* Registration of this and of another module, commands to this module, to
\* another and to all, and a damaged frame.
BusyBus == {Give(1), Give(2), Cmd(REGISTER_CODE, "other"), Cmd(1, "read"),
            Cmd(2, "single"), Cmd(0, "multi"), Bad(1, "single")}

\* Enough for the questions put to a polite host.
CalmBus == {Give(1), Cmd(REGISTER_CODE, "other"), Cmd(1, "read"),
            Cmd(1, "single"), Cmd(0, "single"), Cmd(0, "multi")}
=============================================================================
