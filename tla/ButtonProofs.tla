---------------------------- MODULE ButtonProofs ----------------------------
(***************************************************************************)
(* Proofs about Button: what a press is worth holds for every length of a  *)
(* press below the wrap of the 16-bit time, and every release of two or    *)
(* more scans.                                                             *)
(***************************************************************************)
EXTENDS Button, TLAPS

(***************************************************************************)
(* The inductive invariant.  A press that counts is the only time the      *)
(* fields of the key are not at rest.                                      *)
(***************************************************************************)
Counting == down /\ held > 0

\* The cooling counter knows whether the key was seen released twice.
CoolingInv ==
    /\ held > 0 => btn_cooling = 2
    /\ scans < 6 => btn_cooling <= scans
    /\ down => gap = 0
    /\ down /\ held = 0 => btn_cooling < 2
    /\ ~down /\ btn_cooling < 2 => \/ gap = btn_cooling /\ gap < 2
                                   \/ scans = btn_cooling

\* The 16-bit time of a press of so many scans.
TimeOf(n) == IF n <= 3276 THEN 20 * n ELSE 20 * n - U16

\* The fields during a press that counts and at rest.
FieldsInv ==
    /\ press_state = IF Counting THEN YES ELSE NO
    /\ continue_time = IF Counting THEN TimeOf(held) ELSE 0
    /\ have_read = IF Counting /\ held >= 30 THEN YES ELSE NO
    /\ Counting => type = IF held = 30 THEN LONG_PRESS ELSE NULL_PRESS
    /\ down /\ held = 0 => type = NULL_PRESS
    /\ ~down /\ (gap # 1 \/ held < 3) => type = NULL_PRESS

\* Six scans pass before a press is over that is worth a report.
StartInv ==
    /\ Counting => scans = 6 \/ scans >= held + 2
    /\ ~down /\ held >= 3 => scans = 6
    /\ ~down /\ held > 0 => gap >= 1

IInv == TypeOK /\ ReportsMatchHold /\ CoolingInv /\ FieldsInv /\ StartInv

-----------------------------------------------------------------------------
(* The 16-bit time.                                                        *)

\* It counts the scans of a press.
LEMMA TimeOfNext ==
    ASSUME NEW n \in Int, 1 <= n, n + 1 <= Longest
    PROVE  Longer(TimeOf(n)) = TimeOf(n + 1)
  <1>1. CASE n + 1 <= 3276
    BY <1>1, SMT DEF Longer, PERIOD, TimeOf, U16
  <1>2. CASE n = 3276
    BY <1>2, SMT DEF Longer, PERIOD, TimeOf, U16
  <1>3. CASE n > 3276
    BY <1>3, SMT DEF Longer, PERIOD, TimeOf, Longest, U16
  <1> QED  BY <1>1, <1>2, <1>3, SMT

LEMMA TimeOfFirst == Longer(0) = TimeOf(1)
  BY SMT DEF TimeOf, Longer, PERIOD, U16

\* Which presses are short and which are long.
LEMMA TimeClass ==
    ASSUME NEW n \in Int, 1 <= n, n <= Longest
    PROVE  /\ TimeOf(n) \in Nat /\ TimeOf(n) < U16
           /\ IsShort(TimeOf(n)) <=> 3 <= n /\ n <= 27
           /\ TimeOf(n) >= 600 <=> 30 <= n /\ n <= 3276
           /\ TimeOf(n) < 600 <=> ~(30 <= n /\ n <= 3276)
  <1>1. CASE n <= 3276
    BY <1>1, SMT DEF TimeOf, IsShort, SHORT_TIME, LONG_TIME, BAND_TIME, U16
  <1>2. CASE n > 3276
    BY <1>2, SMT DEF TimeOf, IsShort, SHORT_TIME, LONG_TIME, BAND_TIME, Longest,
       U16
  <1> QED  BY <1>1, <1>2, SMT

\* No press lasts longer than the assumption allows.
LEMMA HoldBound ==
    ASSUME TypeOK, held > 0
    PROVE  held \in Int /\ 1 <= held /\ held <= MaxHold /\ held <= Longest
  BY ButtonAssumption, SMT DEF TypeOK, Longest

-----------------------------------------------------------------------------
(* The invariant is inductive: one case for each way the pin may go.       *)

LEMMA InitInv == Init => IInv
  BY ButtonAssumption, SMT
  DEF Init, IInv, TypeOK, ReportsMatchHold, CoolingInv, FieldsInv, StartInv,
      Counting, NULL_PRESS, SHORT_PRESS, LONG_PRESS, NO, YES, BTN_COOL_TIME, Longest, U16

\* The key is found released.
LEMMA ReleaseInv ==
    ASSUME IInv, Buttonprogram(FALSE)
    PROVE  IInv'
  <1> USE DEF NULL_PRESS, SHORT_PRESS, LONG_PRESS, NO, YES, BTN_COOL_TIME
  <1>1. /\ press_state' = NO /\ have_read' = NO /\ continue_time' = 0
        /\ btn_cooling' = IF btn_cooling < 2 THEN btn_cooling + 1 ELSE btn_cooling
        /\ type' = IF IsShort(continue_time) THEN SHORT_PRESS ELSE NULL_PRESS
        /\ down' = FALSE /\ held' = held
        /\ scans' = IF scans < 6 THEN scans + 1 ELSE scans
        /\ gap' = IF gap < MinRelease THEN gap + 1 ELSE gap
        /\ shorts' = shorts + (IF type' = SHORT_PRESS THEN 1 ELSE 0)
        /\ longs' = longs + (IF type' = LONG_PRESS THEN 1 ELSE 0)
    BY DEF Buttonprogram, TypeOf, State, Time, Counts
  <1>2. IsShort(continue_time) <=> down /\ 3 <= held /\ held <= 27
    <2>1. CASE Counting
      <3>1. held \in Int /\ 1 <= held /\ held <= Longest
        BY <2>1, HoldBound DEF Counting, IInv
      <3>2. continue_time = TimeOf(held) /\ down
        BY <2>1 DEF IInv, FieldsInv, Counting
      <3> QED  BY <3>1, <3>2, TimeClass
    <2>2. CASE ~Counting
      <3>1. continue_time = 0
        BY <2>2 DEF IInv, FieldsInv
      <3>2. ~(down /\ 3 <= held)
        BY <2>2 DEF Counting, IInv, TypeOK
      <3> QED  BY <3>1, <3>2 DEF IsShort, SHORT_TIME
    <2> QED  BY <2>1, <2>2
  <1>3. type' = IF down /\ 3 <= held /\ held <= 27 THEN SHORT_PRESS ELSE NULL_PRESS
    BY <1>1, <1>2
  <1>4. held \in Nat /\ gap \in Nat /\ MinRelease >= 2 /\ MinRelease \in Nat
    BY ButtonAssumption DEF IInv, TypeOK
  <1>5. TypeOK'
    <2>1. 0 < U16
      BY SMT DEF U16
    <2>2. shorts' \in Nat /\ longs' \in Nat
      BY <1>1 DEF IInv, TypeOK
    <2>3. type' \in {NULL_PRESS, SHORT_PRESS, LONG_PRESS}
      BY <1>3
    <2>4. btn_cooling' \in 0..2 /\ scans' \in 0..6 /\ gap' \in 0..MinRelease
      BY <1>1, <1>4 DEF IInv, TypeOK
    <2>5. down' \in BOOLEAN /\ held' \in 0..MaxHold
      BY <1>1 DEF IInv, TypeOK
    <2> QED  BY <1>1, <2>1, <2>2, <2>3, <2>4, <2>5 DEF TypeOK
  <1>6. ReportsMatchHold'
    BY <1>1, <1>3, <1>4 DEF IInv, ReportsMatchHold
  <1>7. CoolingInv'
    BY <1>1, <1>4 DEF IInv, TypeOK, CoolingInv
  <1>8. FieldsInv'
    BY <1>1, <1>3, <1>4 DEF IInv, FieldsInv, StartInv, CoolingInv, Counting
  <1>9. StartInv'
    BY <1>1, <1>4 DEF IInv, TypeOK, StartInv, Counting
  <1> QED  BY <1>5, <1>6, <1>7, <1>8, <1>9 DEF IInv

\* The key is found down, and was before it was seen released twice.
LEMMA IgnoredInv ==
    ASSUME IInv, Buttonprogram(TRUE), (down /\ held = 0) \/ (~down /\ scans < 2)
    PROVE  IInv'
  <1> USE DEF NULL_PRESS, SHORT_PRESS, LONG_PRESS, NO, YES, BTN_COOL_TIME
  <1>1. held = 0 /\ btn_cooling < 2
    BY DEF IInv, TypeOK, CoolingInv
  <1>2. press_state = NO /\ continue_time = 0 /\ have_read = NO
    BY <1>1 DEF IInv, FieldsInv, Counting
  <1>3. type = NULL_PRESS
    BY <1>1 DEF IInv, FieldsInv
  <1>4. ~IsShort(0)
    BY SMT DEF IsShort, SHORT_TIME
  <1>5. ~Counts(TRUE)
    BY <1>1 DEF Counts, IInv, TypeOK
  <1>6. /\ press_state' = NO /\ continue_time' = 0 /\ have_read' = NO
        /\ type' = NULL_PRESS /\ btn_cooling' = btn_cooling
    BY <1>2, <1>4, <1>5 DEF Buttonprogram, TypeOf, State, Time
  <1>7. /\ down' = TRUE /\ gap' = 0 /\ held' = 0
        /\ scans' = IF scans < 6 THEN scans + 1 ELSE scans
        /\ shorts' = 0 /\ longs' = 0
    <2>1. shorts = 0 /\ longs = 0
      BY <1>1 DEF IInv, ReportsMatchHold
    <2>2. /\ held' = IF ~down /\ scans >= 2 THEN 1
                     ELSE IF down /\ held > 0 THEN held + 1 ELSE held
          /\ shorts' = (IF ~down THEN 0 ELSE shorts)
                        + (IF type' = SHORT_PRESS THEN 1 ELSE 0)
          /\ longs' = (IF ~down THEN 0 ELSE longs)
                       + (IF type' = LONG_PRESS THEN 1 ELSE 0)
          /\ down' = TRUE /\ gap' = 0
          /\ scans' = IF scans < 6 THEN scans + 1 ELSE scans
      BY DEF Buttonprogram
    <2>3. ~(~down /\ scans >= 2)
      BY DEF IInv, TypeOK
    <2> QED  BY <1>1, <1>6, <2>1, <2>2, <2>3
  <1>8. TypeOK' /\ ReportsMatchHold'
    BY <1>1, <1>2, <1>6, <1>7, ButtonAssumption DEF IInv, TypeOK, ReportsMatchHold
  <1>9. CoolingInv' /\ FieldsInv' /\ StartInv'
    BY <1>1, <1>6, <1>7
    DEF IInv, TypeOK, CoolingInv, FieldsInv, StartInv, Counting
  <1> QED  BY <1>8, <1>9 DEF IInv

\* A press that counts begins or goes on.
LEMMA PressInv ==
    ASSUME IInv, Buttonprogram(TRUE), (down /\ held > 0) \/ (~down /\ scans >= 2)
    PROVE  IInv'
  <1> USE DEF NULL_PRESS, SHORT_PRESS, LONG_PRESS, NO, YES, BTN_COOL_TIME
  <1>1. btn_cooling = 2
    <2>1. ~down => gap >= 2
      BY ButtonAssumption DEF Buttonprogram, Finger, IInv, TypeOK
    <2> QED  BY <2>1 DEF IInv, TypeOK, CoolingInv
  <1>2. Counts(TRUE)
    BY <1>1 DEF Counts
  <1>3. /\ down' = TRUE /\ gap' = 0 /\ btn_cooling' = 2
        /\ scans' = IF scans < 6 THEN scans + 1 ELSE scans
        /\ held' = IF down THEN held + 1 ELSE 1
        /\ down => held < MaxHold
    BY <1>1 DEF Buttonprogram, Finger
  <1>4. /\ press_state' = YES /\ continue_time' = Longer(continue_time)
        /\ have_read' = IF continue_time' >= 600 THEN YES ELSE have_read
        /\ continue_time' < 600 => type' = type
        /\ continue_time' >= 600 /\ ~(continue_time' < 600) =>
                type' = IF have_read = NO THEN LONG_PRESS ELSE NULL_PRESS
    <2>1. Longer(continue_time) \in Nat
      BY SMT DEF Longer, U16, PERIOD, IInv, TypeOK
    <2>2. press_state' = YES /\ continue_time' = Longer(continue_time)
      BY <1>1 DEF Buttonprogram, State, Time, Counts
    <2>3. have_read' = IF Longer(continue_time) >= 600 THEN YES ELSE have_read
      BY <1>1 DEF Buttonprogram, State, Time, Counts, LONG_TIME
    <2>4. type' = CASE Longer(continue_time) < 600 -> type
                    [] Longer(continue_time) >= 600 ->
                        IF have_read = NO THEN LONG_PRESS ELSE NULL_PRESS
                    [] OTHER -> IF IsShort(Longer(continue_time))
                                THEN SHORT_PRESS ELSE NULL_PRESS
      BY <1>1 DEF Buttonprogram, TypeOf, State, Time, Counts, LONG_TIME
    <2> QED  BY <2>1, <2>2, <2>3, <2>4
  <1>5. held' \in Int /\ 1 <= held' /\ held' <= MaxHold /\ held' <= Longest
    <2>1. MaxHold \in Int /\ 1 <= MaxHold /\ MaxHold <= Longest
      BY ButtonAssumption, SMT DEF Longest
    <2>2. held \in Int /\ Longest \in Int /\ 0 <= held
      BY ButtonAssumption, SMT DEF IInv, TypeOK, Longest
    <2> QED  BY <1>3, <2>1, <2>2
  <1>6. continue_time' = TimeOf(held')
    <2>1. CASE down
      <3>1. held \in Int /\ 1 <= held /\ held' = held + 1
        BY <1>3, <2>1 DEF IInv, TypeOK
      <3>2. continue_time = TimeOf(held)
        BY <2>1 DEF IInv, FieldsInv, Counting
      <3> QED  BY <1>4, <1>5, <3>1, <3>2, TimeOfNext
    <2>2. CASE ~down
      <3>1. continue_time = 0
        BY <2>2 DEF IInv, FieldsInv, Counting
      <3> QED  BY <1>3, <1>4, <2>2, <3>1, TimeOfFirst
    <2> QED  BY <2>1, <2>2
  <1>7. /\ continue_time' \in Nat /\ continue_time' < U16
        /\ continue_time' >= 600 <=> 30 <= held' /\ held' <= 3276
        /\ continue_time' < 600 <=> ~(30 <= held' /\ held' <= 3276)
    BY <1>5, <1>6, TimeClass
  <1>8. have_read = IF down /\ held >= 30 THEN YES ELSE NO
    BY DEF IInv, FieldsInv, Counting, TypeOK
  <1>9. have_read' = IF held' >= 30 THEN YES ELSE NO
    BY <1>3, <1>4, <1>5, <1>7, <1>8, SMT DEF IInv, TypeOK
  <1>10. type = IF down /\ held = 30 THEN LONG_PRESS ELSE NULL_PRESS
    <2>1. ~down => gap >= 2
      BY ButtonAssumption DEF Buttonprogram, Finger, IInv, TypeOK
    <2> QED  BY <2>1 DEF IInv, FieldsInv, Counting, TypeOK
  <1>11. type' = IF held' = 30 THEN LONG_PRESS ELSE NULL_PRESS
    BY <1>3, <1>4, <1>5, <1>7, <1>8, <1>10, SMT DEF IInv, TypeOK
  <1>12. shorts' = 0 /\ longs' = IF held' >= 30 THEN 1 ELSE 0
    <2>1. /\ shorts' = (IF ~down THEN 0 ELSE shorts)
                        + (IF type' = SHORT_PRESS THEN 1 ELSE 0)
          /\ longs' = (IF ~down THEN 0 ELSE longs)
                       + (IF type' = LONG_PRESS THEN 1 ELSE 0)
      BY DEF Buttonprogram
    <2>2. down => shorts = 0 /\ longs = IF held >= 30 THEN 1 ELSE 0
      BY DEF IInv, ReportsMatchHold
    <2> QED  BY <1>3, <1>5, <1>11, <2>1, <2>2 DEF IInv, TypeOK
  <1>13. TypeOK' /\ ReportsMatchHold'
    BY <1>3, <1>4, <1>5, <1>7, <1>9, <1>11, <1>12, ButtonAssumption
    DEF IInv, TypeOK, ReportsMatchHold
  <1>14. CoolingInv'
    BY <1>3, <1>5 DEF IInv, TypeOK, CoolingInv
  <1>15. StartInv'
    BY <1>3, <1>5 DEF IInv, TypeOK, StartInv, CoolingInv, Counting
  <1>16. FieldsInv'
    <2>1. Counting' /\ held' # 0
      BY <1>3, <1>5 DEF Counting
    <2> QED  BY <1>3, <1>4, <1>6, <1>9, <1>11, <2>1, Zenon DEF FieldsInv
  <1> QED  BY <1>13, <1>14, <1>15, <1>16 DEF IInv

LEMMA StutterInv == ASSUME IInv, UNCHANGED vars PROVE IInv'
  BY DEF IInv, TypeOK, ReportsMatchHold, CoolingInv, FieldsInv, StartInv,
         Counting, vars

\* The invariant of the key holds.
THEOREM KeyInvariant == Spec => []IInv
  <1>1. IInv /\ [Next]_vars => IInv'
    <2> SUFFICES ASSUME IInv, [Next]_vars PROVE IInv'
      OBVIOUS
    <2>1. CASE Buttonprogram(TRUE)
      <3>1. \/ (down /\ held = 0) \/ (~down /\ scans < 2)
            \/ (down /\ held > 0) \/ (~down /\ scans >= 2)
        BY DEF IInv, TypeOK
      <3> QED  BY <2>1, <3>1, PressInv, IgnoredInv
    <2>2. CASE Buttonprogram(FALSE)  BY <2>2, ReleaseInv
    <2>3. CASE UNCHANGED vars  BY <2>3, StutterInv
    <2> QED  BY <2>1, <2>2, <2>3 DEF Next
  <1> QED  BY InitInv, <1>1, PTL DEF Spec

\* Every field of the key keeps its width (Buttonprogram).
THEOREM TypeCorrect == Spec => []TypeOK
  <1>1. IInv => TypeOK  BY DEF IInv
  <1> QED  BY KeyInvariant, <1>1, PTL

\* Every press is reported as what it is worth and once: short for 3 to 27
\* scans, long from 30 on, whatever presses came before it.
THEOREM PressIsReportedOnce == Spec => []ReportsMatchHold
  <1>1. IInv => ReportsMatchHold  BY DEF IInv
  <1> QED  BY KeyInvariant, <1>1, PTL

\* No key is reported before the oled thread has set up its first page.
THEOREM ReportsComeLate == Spec => []FirstReportIsLate
  <1>1. IInv => FirstReportIsLate
    BY DEF IInv, FirstReportIsLate, TypeOK, FieldsInv, StartInv,
       Counting, NULL_PRESS, SHORT_PRESS, LONG_PRESS
  <1> QED  BY KeyInvariant, <1>1, PTL
=============================================================================
