------------------------------- MODULE Sensor -------------------------------
(***************************************************************************)
(* From the averaged resistance of the NTC to a temperature: Res2Temp      *)
(* (Ntc.c), a search by halves in a table of 257 entries of which 121 are  *)
(* given and the others 0.                                                 *)
(***************************************************************************)
EXTENDS Integers, Sequences

NO_TEMP == -9999    \* VALUE_NULL

\* The resistance at -40 degrees, at -39, ...
NTC_Rtable == <<
    203750, 192049, 181156, 171001, 161522, 152664, 144377, 136617, 129343,
    122518, 116110, 110088, 104425, 99096, 94078, 89350, 84892, 80688, 76720,
    72973, 69434, 66089, 62926, 59935, 57104, 54425, 51888, 49484, 47206, 45047,
    43000, 41057, 39214, 37465, 35804, 34226, 32727, 31303, 29949, 28661,
    27513, 26271, 25162, 24107, 23101, 22144, 21231, 20362, 19533, 18742,
    18016, 17269, 16583, 15928, 15302, 14704, 14134, 13588, 13067, 12568,
    12092, 11636, 11199, 10782, 10382, 10000, 9633, 9282, 8946, 8623,
    8314, 8018, 7734, 7461, 7199, 6948, 6707, 6476, 6254, 6040,
    5835, 5638, 5449, 5267, 5091, 4923, 4761, 4605, 4455, 4311,
    4168, 4038, 3909, 3785, 3665, 3550, 3439, 3332, 3229, 3129,
    3033, 2941, 2851, 2765, 2682, 2602, 2524, 2449, 2377, 2307,
    2240, 2175, 2112, 2051, 1992, 1935, 1880, 1827, 1776, 1726, 1678 >>

Entry(i) == IF i < Len(NTC_Rtable) THEN NTC_Rtable[i + 1] ELSE 0

\* The resistance lies between entry i and the next one.
Between(i, res) == Entry(i) >= res /\ Entry(i + 1) < res

\* A step of the search from i, in a byte; it stays where it has found res.
Probe(i, width, res) ==
    IF Between(i, res) THEN i
    ELSE IF Entry(i) < res THEN (i - width) % 256 ELSE (i + width) % 256

\* The same as a function of the index, which is a byte.
Step(width, res) == [i \in 0..255 |-> Probe(i, width, res)]

\* A slip: the search stops a step early.
SearchShort(res) ==
    LET i3 == Step(32, res)[Step(64, res)[Step(128, res)[128]]]
        i6 == Step(4, res)[Step(8, res)[Step(16, res)[i3]]]
    IN  Step(2, res)[i6]

\* Eight steps, each half as wide as the one before.
Search(res) ==
    LET i3 == Step(32, res)[Step(64, res)[Step(128, res)[128]]]
        i6 == Step(4, res)[Step(8, res)[Step(16, res)[i3]]]
    IN  Step(1, res)[Step(2, res)[i6]]

\* Beyond the table the divisor is 0; the quotient is then the run-time
\* library's, 0, and not used.
Quotient(a, b) == IF b = 0 THEN 0 ELSE a \div b

Res2Temp(res) ==
    LET i    == Search(res)
        temp == (i - 40) * 10
                + Quotient((Entry(i) - res) * 10, Entry(i) - Entry(i + 1))
    IN  IF res > Entry(0) \/ temp >= 800 THEN NO_TEMP ELSE temp

-----------------------------------------------------------------------------
(* Properties                                                              *)

\* The resistance GetNtcValue computes for the highest voltage the adc reads.
LargestRes == 32990000

\* Every entry of the table, its neighbours, and the limits of the adc.
Probes ==
    {0, 1, LargestRes} \cup
    UNION {{r - 1, r, r + 1} : r \in {NTC_Rtable[k] : k \in 1..Len(NTC_Rtable)}}

Degrees(k) == (k - 40) * 10

(***************************************************************************)
(* The curve of the sensor, without a search: an entry is its degree,      *)
(* between two entries the temperature lies between theirs (in tenths, the *)
(* lower one included), and outside -40..80 degrees there is none.         *)
(***************************************************************************)
OnCurve(res, temp) ==
    IF res > Entry(0) \/ res <= Entry(120) THEN temp = NO_TEMP
    ELSE \E k \in 0..119 :
            /\ Between(k, res)
            /\ Degrees(k) <= temp /\ temp < Degrees(k + 1)
            /\ res = Entry(k) => temp = Degrees(k)

\* A higher resistance never is a higher temperature.
Falling(res) ==
    NO_TEMP \notin {Res2Temp(res), Res2Temp(res - 1)} =>
        Res2Temp(res) <= Res2Temp(res - 1)

CurveIsFound ==
    \A res \in Probes : OnCurve(res, Res2Temp(res)) /\ (res > 0 => Falling(res))
=============================================================================
