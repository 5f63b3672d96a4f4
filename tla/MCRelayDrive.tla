--------------------------- MODULE MCRelayDrive -----------------------------
(* Model values for RelayDrive that a cfg file cannot write.               *)
EXTENDS RelayDrive

NtcNone == {VALUE_NULL}
=============================================================================
