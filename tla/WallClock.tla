----------------------------- MODULE WallClock ------------------------------
(***************************************************************************)
(* How the host sets the real-time clock: REG_NOW_TIME and REG_NOW_TIME1 of*)
(* one frame are put together in a static variable, broken down into date  *)
(* and time of day, and given to set_date and set_time, which each read the*)
(* clock, replace their half and write it back.  Meanwhile the interrupt   *)
(* may replace the frame, the clock goes on, and the main thread, of the   *)
(* same priority, may break down a time of its own in the one struct tm    *)
(* that localtime returns.  The oled thread, of lower priority, sets the   *)
(* clock by the keys.                                                      *)
(***************************************************************************)
EXTENDS Integers

CONSTANTS
    Times,          \* pairs of 16-bit halves the receive buffer may hold
    DAY,            \* seconds of a day (86400)
    MinDay,         \* the first day the clock can hold (2000-01-01)
    PanelDays,      \* dates the keys may set, as day numbers
    PanelSeconds,   \* times of day they may set
    MaxTicks,       \* seconds considered
    MaxFrames,      \* frames considered
    MaxKeys         \* presses of a key considered

Half     == {v \in Nat : v <= 65535}
Positive == {v \in Nat : v <= 32767}    \* do not make a time_t negative

ASSUME WallClockAssumption ==
    /\ Times \subseteq Positive \X Half
    /\ DAY \in Nat \ {0} /\ MinDay \in Nat
    /\ PanelDays \subseteq Nat /\ PanelSeconds \subseteq 0..(DAY - 1)
    /\ MaxTicks \in Nat /\ MaxFrames \in Nat /\ MaxKeys \in Nat

VARIABLES
    timeCorrect,    \* the static of ModbusCommand
    rtc,            \* the real-time clock: a day and a second of it
    tm,             \* the static struct tm of localtime
    up,             \* the uart thread and the frame in the receive buffer
    oled,           \* the oled thread: the key that sets the clock
    reader,         \* the main thread: a call of getTimeForMat
    due,            \* history: what the clock should show since the last frame
    count           \* seconds, frames and keys so far

cvars == <<timeCorrect, rtc, tm, up, oled, reader, due, count>>

-----------------------------------------------------------------------------
(* Times                                                                   *)

\* A time broken down; mktime is its inverse, so that a time_t is shown as
\* what localtime makes of it.
Moment == [day : Nat, sec : 0..(DAY - 1)]

Midnight == [day |-> MinDay, sec |-> 0]

localtime(t) == [day |-> t \div DAY, sec |-> t % DAY]

After(m) == IF m.sec = DAY - 1 THEN [day |-> m.day + 1, sec |-> 0]
            ELSE [m EXCEPT !.sec = @ + 1]

\* a | b, bit by bit, for a b below 2^16.
Or16(a, b) ==
    LET set(v, p) == (v \div p) % 2 = 1
        bit(p)    == IF set(a, p) \/ set(b, p) THEN p ELSE 0
    IN  (a - (a % 65536)) + bit(1) + bit(2) + bit(4) + bit(8) + bit(16) + bit(32)
            + bit(64) + bit(128) + bit(256) + bit(512) + bit(1024) + bit(2048)
            + bit(4096) + bit(8192) + bit(16384) + bit(32768)

\* The time a pair of halves stands for.
Sent(pair) == pair[1] * 65536 + pair[2]

-----------------------------------------------------------------------------
(* set_date and set_time                                                   *)

\* The clock is read and one half of it replaced.
WithDate(m) == [day |-> m.day, sec |-> rtc.sec]
WithTime(m) == [day |-> rtc.day, sec |-> m.sec]

\* A slip: a year before 2000 is not refused.
SetClockAnyYear == rtc' = tm

\* The driver stores what the struct tm holds by now, unless its year is
\* before 2000: HAL_RTC_SetTime and HAL_RTC_SetDate as one step.
SetClock == rtc' = IF tm.day < MinDay THEN rtc ELSE tm

-----------------------------------------------------------------------------
(* The uart thread                                                         *)

Nothing == <<0, 0>>

NoDue == [known |-> FALSE, clock |-> Midnight, calm |-> TRUE]

\* kind: which of the two registers the frame writes; whole: it writes both
\* and was not replaced so far, sent is what it holds; calm: nothing came
\* between two steps that belong together.  A field that is used no more is
\* reset.
Idle == [pc |-> "idle", kind |-> "none", buf |-> Nothing, sent |-> Nothing,
         time |-> 0, for |-> Midnight, stamp |-> Midnight,
         whole |-> FALSE, calm |-> TRUE]

threads == <<oled, reader>>

Take ==
    /\ up.pc = "idle" /\ count.frames < MaxFrames
    /\ count' = [count EXCEPT !.frames = @ + 1]
    /\ \E kind \in {"both", "high", "low"}, pair \in Times :
         up' = [Idle EXCEPT !.pc = IF kind = "low" THEN "low" ELSE "high",
                            !.kind = kind, !.buf = pair,
                            !.sent = IF kind = "both" THEN pair ELSE Nothing,
                            !.whole = (kind = "both")]
    /\ UNCHANGED <<timeCorrect, rtc, tm, due, threads>>

\* The interrupt puts another frame into the buffer.
Replace ==
    /\ up.pc \in {"high", "low"}
    /\ \E pair \in Times :
         up' = [up EXCEPT !.buf = pair, !.sent = Nothing, !.whole = FALSE]
    /\ UNCHANGED <<timeCorrect, rtc, tm, due, threads, count>>

\* A slip: the low half of the old time is not cleared.
HighHalfKeepsOld(v) == v * 65536 + (timeCorrect % 65536)

\* REG_NOW_TIME begins a new time.
HighHalf(v) == v * 65536

High ==
    /\ up.pc = "high"
    /\ timeCorrect' = HighHalf(up.buf[1])
    /\ up' = IF up.kind = "high" THEN Idle ELSE [up EXCEPT !.pc = "low"]
    /\ UNCHANGED <<rtc, tm, due, threads, count>>

\* REG_NOW_TIME1 completes it.
Low ==
    /\ up.pc = "low"
    /\ timeCorrect' = Or16(timeCorrect, up.buf[2])
    /\ up' = [up EXCEPT !.pc = "convert", !.time = timeCorrect', !.buf = Nothing]
    /\ UNCHANGED <<rtc, tm, due, threads, count>>

\* GetSysTimeByTimestamp: localtime, and the fields of what it returned.
Convert ==
    /\ up.pc = "convert"
    /\ tm' = localtime(up.time)
    /\ up' = [up EXCEPT !.pc = "copy"]
    /\ UNCHANGED <<timeCorrect, rtc, due, threads, count>>

CopyFields ==
    /\ up.pc = "copy"
    /\ up' = [up EXCEPT !.pc = "set_date", !.for = tm, !.time = 0]
    /\ UNCHANGED <<timeCorrect, rtc, tm, due, threads, count>>

\* set_date: the clock is read and, with the scheduler locked, broken down (one
\* step: a second that passes between the two may as well pass after them), ...
ReadDate ==
    /\ up.pc = "set_date"
    /\ tm' = rtc
    /\ up' = [up EXCEPT !.pc = "fill_date", !.stamp = WithDate(up.for)]
    /\ UNCHANGED <<timeCorrect, rtc, due, threads, count>>

\* ... broken down again in the driver, the scheduler unlocked, ...
FillDate ==
    /\ up.pc = "fill_date"
    /\ tm' = up.stamp
    /\ up' = [up EXCEPT !.pc = "put_date"]
    /\ UNCHANGED <<timeCorrect, rtc, due, threads, count>>

\* ... and written.
PutDate ==
    /\ up.pc = "put_date"
    /\ SetClock
    /\ up' = [up EXCEPT !.pc = "set_time", !.stamp = Midnight]
    /\ UNCHANGED <<timeCorrect, tm, due, threads, count>>

\* set_time, likewise.
ReadTime ==
    /\ up.pc = "set_time"
    /\ tm' = rtc
    /\ up' = [up EXCEPT !.pc = "fill_time", !.stamp = WithTime(up.for)]
    /\ UNCHANGED <<timeCorrect, rtc, due, threads, count>>

FillTime ==
    /\ up.pc = "fill_time"
    /\ tm' = up.stamp
    /\ up' = [up EXCEPT !.pc = "put_time"]
    /\ UNCHANGED <<timeCorrect, rtc, due, threads, count>>

PutTime ==
    /\ up.pc = "put_time"
    /\ SetClock
    /\ up' = Idle
    /\ LET sent == localtime(Sent(up.sent))
       IN  due' = IF up.whole /\ sent.day >= MinDay
                  THEN [known |-> TRUE, clock |-> sent, calm |-> up.calm]
                  ELSE NoDue
    /\ UNCHANGED <<timeCorrect, tm, threads, count>>

UartSets == Take \/ Replace \/ High \/ Low \/ Convert \/ CopyFields \/ ReadDate
              \/ FillDate \/ PutDate \/ ReadTime \/ FillTime \/ PutTime

-----------------------------------------------------------------------------
(* The clock, the main and the oled thread                                 *)

\* A second passes.  Setting the clock restarts its second, so that a midnight
\* between set_date and set_time takes a delay of a second there; it is allowed
\* all the same.
Tick ==
    /\ count.ticks < MaxTicks
    /\ count' = [count EXCEPT !.ticks = @ + 1]
    /\ rtc' = After(rtc)
    /\ due' = [due EXCEPT !.clock = After(@)]
    /\ up' = [up EXCEPT !.calm = @ /\ ~(up.pc = "set_time" /\ rtc.sec = DAY - 1)]
    /\ UNCHANGED <<timeCorrect, tm, oled, reader>>

\* getTimeForMat of the main thread (IdentifyDaYAndNight): the clock is read,
\* and broken down in the struct tm the uart thread may be using.
MainReads ==
    /\ reader.pc = "idle"
    /\ reader' = [pc |-> "fill", now |-> rtc]
    /\ UNCHANGED <<timeCorrect, rtc, tm, up, oled, due, count>>

MainFills ==
    /\ reader.pc = "fill"
    /\ tm' = reader.now
    /\ reader' = [pc |-> "idle", now |-> Midnight]
    /\ up' = [up EXCEPT !.calm = @ /\ up.pc \notin {"copy", "put_date", "put_time"}]
    /\ UNCHANGED <<timeCorrect, rtc, oled, due, count>>

\* The settings page, while no frame is executed: getTimeForMat, a key that
\* changes the date or the time of day, and set_date or set_time.
Ready == [pc |-> "idle", for |-> Midnight, stamp |-> Midnight]

PageReads ==
    /\ up.pc = "idle" /\ oled.pc = "idle" /\ count.keys < MaxKeys
    /\ tm' = rtc
    /\ oled' = [oled EXCEPT !.pc = "copy"]
    /\ count' = [count EXCEPT !.keys = @ + 1]
    /\ UNCHANGED <<timeCorrect, rtc, up, reader, due>>

KeyChanges ==
    /\ up.pc = "idle" /\ oled.pc = "copy"
    /\ \/ \E day \in PanelDays :
            oled' = [oled EXCEPT !.pc = "set_date", !.for = [tm EXCEPT !.day = day]]
       \/ \E sec \in PanelSeconds :
            oled' = [oled EXCEPT !.pc = "set_time", !.for = [tm EXCEPT !.sec = sec]]
    /\ UNCHANGED <<timeCorrect, rtc, tm, up, reader, due, count>>

KeyReads ==
    /\ up.pc = "idle" /\ oled.pc \in {"set_date", "set_time"}
    /\ tm' = rtc
    /\ oled' = [oled EXCEPT !.pc = "fill",
                            !.stamp = IF oled.pc = "set_date" THEN WithDate(oled.for)
                                      ELSE WithTime(oled.for)]
    /\ UNCHANGED <<timeCorrect, rtc, up, reader, due, count>>

KeyFills ==
    /\ up.pc = "idle" /\ oled.pc = "fill"
    /\ tm' = oled.stamp
    /\ oled' = [oled EXCEPT !.pc = "put"]
    /\ UNCHANGED <<timeCorrect, rtc, up, reader, due, count>>

KeyPuts ==
    /\ up.pc = "idle" /\ oled.pc = "put"
    /\ SetClock
    /\ oled' = Ready /\ due' = NoDue
    /\ UNCHANGED <<timeCorrect, tm, up, reader, count>>

PanelSets == PageReads \/ KeyChanges \/ KeyReads \/ KeyFills \/ KeyPuts

-----------------------------------------------------------------------------
CInit ==
    /\ timeCorrect = 0
    /\ rtc = Midnight /\ tm = Midnight
    /\ up = Idle /\ oled = Ready
    /\ reader = [pc |-> "idle", now |-> Midnight]
    /\ due = NoDue /\ count = [ticks |-> 0, frames |-> 0, keys |-> 0]

CNext == UartSets \/ Tick \/ MainReads \/ MainFills \/ PanelSets

CSpec == CInit /\ [][CNext]_cvars

-----------------------------------------------------------------------------
(* Properties                                                              *)

(***************************************************************************)
(* Types: the clock shows a day it can hold and a second of it, whatever   *)
(* halves of a time are combined (set_rtc_time_stamp).                     *)
(***************************************************************************)
ClockTypeOK ==
    /\ rtc \in Moment /\ rtc.day >= MinDay
    /\ tm \in Moment
    /\ timeCorrect \in Nat
    /\ due.clock \in Moment
    /\ count.ticks \in 0..MaxTicks

(***************************************************************************)
(* Between frames the clock shows the time the host last sent in one frame,*)
(* advanced by the seconds since, whatever halves of other frames came     *)
(* before it and whatever the clock showed, provided the frame was not     *)
(* replaced while it was executed, no midnight of the old time of day fell *)
(* between set_date and set_time, and the main thread did not use the      *)
(* struct tm of localtime between two steps that needed it; until a key    *)
(* sets the clock (REG_NOW_TIME, REG_NOW_TIME1 of ModbusCommand).          *)
(***************************************************************************)
ClockIsSent == up.pc = "idle" /\ due.known /\ due.calm => rtc = due.clock
=============================================================================
