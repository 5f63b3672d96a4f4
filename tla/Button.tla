------------------------------- MODULE Button -------------------------------
(***************************************************************************)
(* One key of the panel as Buttonprogram sees it: a scan every 20 ms that  *)
(* measures how long the pin has been down and reports a short or a long   *)
(* press to the callback.  The three keys of buttonList are handled in the *)
(* same way and share nothing, so one stands for all.                      *)
(***************************************************************************)
EXTENDS Integers

CONSTANTS
    MaxHold,    \* scans a press may last
    MinRelease  \* scans a release lasts at least

\* 2^16 ms hold 3276 scans; from 3280 on the wrapped time counts as a short
\* press again.
Longest == 3279

ASSUME ButtonAssumption ==
    /\ MaxHold \in 1..Longest
    /\ MinRelease \in Nat /\ MinRelease >= 2

NO  == 0
YES == 1

\* ButtonTask.h
NULL_PRESS  == 0
SHORT_PRESS == 1
LONG_PRESS  == 2

BAND_TIME     == 40
SHORT_TIME    == 60
LONG_TIME     == 600
BTN_COOL_TIME == 2
PERIOD        == 20

U16 == 65536

VARIABLES
    type, press_state, have_read, continue_time,    \* of type_button_t
    btn_cooling,
    down,       \* the pin at the last scan
    scans,      \* scans since the start, up to six
    held,       \* scans the present or the last press lasted; 0 before the
                \* first one, and for a key that is down from the start
    gap,        \* scans since it was released, up to MinRelease
    shorts,     \* history: the scans since this press began that reported a
    longs       \* short, and a long press to the callback

vars == <<type, press_state, have_read, continue_time, btn_cooling,
          down, scans, held, gap, shorts, longs>>

-----------------------------------------------------------------------------
\* The time is 16 bits wide.
Longer(time) == (time + PERIOD) % U16

\* A slip: a press counts before the key was seen released.
CountsAtOnce(pressed) == pressed

\* A press counts once the key was seen released twice since the start.
Counts(pressed) == pressed /\ btn_cooling >= BTN_COOL_TIME

\* The pin is read: the state and the time the rest of the scan works with.
State(pressed) == IF Counts(pressed) THEN YES
                  ELSE IF pressed THEN press_state ELSE NO

Time(pressed) == IF Counts(pressed) THEN Longer(continue_time)
                 ELSE continue_time

IsShort(time) == SHORT_TIME <= time /\ time < LONG_TIME - BAND_TIME

\* A slip: a long press that was reported is reported again.
TypeOfAgain(pressed) ==
    CASE State(pressed) = YES /\ Time(pressed) < LONG_TIME -> type
      [] State(pressed) = YES /\ Time(pressed) >= LONG_TIME -> LONG_PRESS
      [] OTHER -> IF IsShort(Time(pressed)) THEN SHORT_PRESS ELSE NULL_PRESS

\* The kind of press: long once, while the key is down; short when it is
\* released; in between the type stays what it was.
TypeOf(pressed) ==
    CASE State(pressed) = YES /\ Time(pressed) < LONG_TIME -> type
      [] State(pressed) = YES /\ Time(pressed) >= LONG_TIME ->
            IF have_read = NO THEN LONG_PRESS ELSE NULL_PRESS
      [] OTHER -> IF IsShort(Time(pressed)) THEN SHORT_PRESS ELSE NULL_PRESS

\* The pin is the finger's: a press lasts at most MaxHold scans, a release at
\* least MinRelease.
Finger(pressed) ==
    pressed => IF down THEN held < MaxHold ELSE gap >= MinRelease

\* One scan; the callback gets the type.
Buttonprogram(pressed) ==
    /\ Finger(pressed)
    /\ type' = TypeOf(pressed)
    /\ press_state' = State(pressed)
    /\ have_read' = IF State(pressed) = NO THEN NO
                    ELSE IF Time(pressed) >= LONG_TIME THEN YES ELSE have_read
    /\ continue_time' = IF State(pressed) = NO THEN 0 ELSE Time(pressed)
    /\ btn_cooling' = IF ~pressed /\ btn_cooling < BTN_COOL_TIME
                      THEN btn_cooling + 1 ELSE btn_cooling
    /\ down' = pressed
    /\ scans' = IF scans < 6 THEN scans + 1 ELSE scans
    /\ gap' = IF pressed THEN 0 ELSE IF gap < MinRelease THEN gap + 1 ELSE gap
    /\ held' = IF pressed /\ ~down /\ scans >= BTN_COOL_TIME THEN 1
               ELSE IF pressed /\ down /\ held > 0 THEN held + 1
               ELSE held
    /\ shorts' = (IF pressed /\ ~down THEN 0 ELSE shorts)
                 + (IF type' = SHORT_PRESS THEN 1 ELSE 0)
    /\ longs' = (IF pressed /\ ~down THEN 0 ELSE longs)
                + (IF type' = LONG_PRESS THEN 1 ELSE 0)

\* ButtonAdd; the key may be down, or be pressed after a single scan, when
\* the thread starts.
Init ==
    /\ type = NULL_PRESS /\ press_state = NO /\ have_read = NO
    /\ continue_time = 0 /\ btn_cooling = 0
    /\ down \in BOOLEAN
    /\ scans = 0
    /\ held = 0
    /\ gap = IF down THEN 0 ELSE MinRelease
    /\ shorts = 0 /\ longs = 0

Next == \E pressed \in BOOLEAN : Buttonprogram(pressed)

Spec == Init /\ [][Next]_vars

-----------------------------------------------------------------------------
(* Properties                                                              *)

(***************************************************************************)
(* Types: the time is 16 bits wide, the type one of the three.             *)
(***************************************************************************)
TypeOK ==
    /\ type \in {NULL_PRESS, SHORT_PRESS, LONG_PRESS}
    /\ press_state \in {NO, YES} /\ have_read \in {NO, YES}
    /\ continue_time \in Nat /\ continue_time < U16
    /\ btn_cooling \in 0..BTN_COOL_TIME
    /\ down \in BOOLEAN
    /\ scans \in 0..6
    /\ held \in 0..MaxHold
    /\ gap \in 0..MinRelease
    /\ shorts \in Nat /\ longs \in Nat

(***************************************************************************)
(* What a press is worth.  One that lasts 3 to 27 scans is reported short, *)
(* once, when it ends; one that lasts 30 or more is reported long, once,   *)
(* while the key is still down, and not short when it is released (the     *)
(* comment at btn_cooling); any other, and a key that was down at the      *)
(* start, is not reported at all.                                          *)
(***************************************************************************)
ReportsMatchHold ==
    /\ shorts = IF ~down /\ held >= 3 /\ held <= 27 THEN 1 ELSE 0
    /\ longs = IF held >= 30 THEN 1 ELSE 0

(***************************************************************************)
(* No report comes before the sixth scan, 100 ms after the thread started, *)
(* whatever the keys did at the start: the oled thread has made its first  *)
(* pass by then, and a callback never works on a page that was not set up. *)
(***************************************************************************)
FirstReportIsLate == type # NULL_PRESS => scans >= 6
=============================================================================
