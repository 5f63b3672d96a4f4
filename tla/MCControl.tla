----------------------------- MODULE MCControl ------------------------------
(* Model values for Control that a cfg file cannot write.                  *)
EXTENDS Control, Sensor

\* What GetNtcValue may return: 6.0 degrees, or no data, which may also
\* be the second reading after a first that was good.
NtcReadings == {60, VALUE_NULL}
NtcNone == {VALUE_NULL}

(***************************************************************************)
(* A controller that uses its own sensor works with the temperature of the *)
(* curve: Res2Temp finds that of every resistance on the table and none for*)
(* the others, although it begins beyond the entries that are given and its*)
(* index may wrap, and a higher resistance never is a higher temperature.  *)
(***************************************************************************)
SensorTellsCurve == info.tempFrom = TEMP_FROM_LOCAL => CurveIsFound
=============================================================================
