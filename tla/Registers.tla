----------------------------- MODULE Registers ------------------------------
(***************************************************************************)
(* The registers of the module: the uart thread executes a frame register  *)
(* by register (ModbusCommandAnalysis, ModbusCommand) while the main thread*)
(* runs LedProgram, with which it shares the locate flag, and the oled     *)
(* thread changes the same settings by the keys (SettingPage).  The        *)
(* settings are saved and come back after a restart; the command in force  *)
(* and the locate flag do not.  The clock is module WallClock's.           *)
(***************************************************************************)
EXTENDS Integers, Sequences, MenuItems

CONSTANTS
    Values,         \* 16-bit values the receive buffer may hold
    Writes,         \* blocks <<first register, size>> the host writes
    Reads,          \* blocks <<first register, size>> it reads
    Edits,          \* positions of the settings page the keys change
    MaxPresses,     \* presses of a key considered
    LocateTime,     \* seconds of fast blinking (60)
    NormalPasses,   \* passes of LedProgram between two toggles (1000 / 20)
    FastPasses,     \* the same when it blinks fast (100 / 20)
    MaxRestarts     \* restarts considered

Word  == {v \in Nat : v <= 65535}
Short == {v \in Int : v >= -32768 /\ v <= 32767}

\* The positions of the settings page that are registers.
SettingPositions == {2, 3, 4, 5, 6, 8, 15, 16, 17, 18}

\* A size is a byte, and from 126 on the length of the reply is not; no block
\* runs past the last register.
ASSUME RegistersAssumption ==
    /\ Values \subseteq Word
    /\ Writes \subseteq Word \X (0..255)
    /\ Reads \subseteq Word \X (0..125)
    /\ \A block \in Writes \cup Reads : block[1] + block[2] <= 65536
    /\ Edits \subseteq SettingPositions /\ MaxPresses \in Nat
    /\ LocateTime \in Nat
    /\ NormalPasses \in Nat /\ FastPasses \in Nat
    /\ MaxRestarts \in Nat

NO  == 0
YES == 1

\* UartDataLayer.h
LOCATION      == 0
REG_NOW_TIME  == 9
REG_NOW_TIME1 == 10
REG_PORT_SIZE == 1024
REG_CTRL      == 1025
REG_PORT_STATE == 1026
REG_CTRL_MODE == 1030
SettingOf ==
    [reg \in {1027, 1028, 1029, 1031, 1032, 1037, 1038, 1039} |->
        CASE reg = 1027 -> "unit"          [] reg = 1028 -> "mode"
          [] reg = 1029 -> "deadBand"      [] reg = 1031 -> "daySetPoint"
          [] reg = 1032 -> "nightSetPoint" [] reg = 1037 -> "tempFrom"
          [] reg = 1038 -> "dayStartTime"  [] reg = 1039 -> "dayEndTime"]
Settings   == DOMAIN SettingOf
Sensors    == 61440..61443      \* CO2, humidity, temperature, light
WriteOnly  == {REG_NOW_TIME, REG_NOW_TIME1} \cup Sensors

NULL == 1000000     \* nothing written yet

VARIABLES
    info,           \* the settings of type_info_t that are registers, and ctrl
    actionInfo,     \* the command in force
    sensorInfo,     \* what the host told last
    locationFlag,   \* of Gpio.c
    cmd,            \* the frame the uart thread executes, and how far it is
    led,            \* the statics of LedProgram and how far the main thread is
    keys,           \* the edit under way in SettingPage, and how many there were
    written,        \* history: what the host, or a key, last put into each register
    restarts

vars == <<info, actionInfo, sensorInfo, locationFlag, cmd, led, keys, written,
          restarts>>

-----------------------------------------------------------------------------
(* Integers of C                                                           *)

U8Fields  == {"unit", "mode", "deadBand", "tempFrom"}
S16Fields == {"daySetPoint", "nightSetPoint"}

\* A slip: the sign is forgotten.
StoredUnsigned(f, v) == IF f \in U8Fields THEN v % 256 ELSE v

\* What a field keeps of a register, and what a register shows of a field.
Stored(f, v) ==
    CASE f \in U8Fields  -> v % 256
      [] f \in S16Fields -> IF v >= 32768 THEN v - 65536 ELSE v
      [] OTHER           -> v

Shown(v) == v % 65536

-----------------------------------------------------------------------------
(* The uart thread: one register at a time.                                *)

NoFrame == [kind |-> "none", reg |-> 0, size |-> 0, data |-> <<>>, done |-> 0,
            test |-> 0, len |-> 0]

others == <<led, keys, restarts>>

\* A frame is taken out of the receive buffer.
ReadFrame ==
    /\ cmd = NoFrame
    /\ \E block \in Reads :
         cmd' = [NoFrame EXCEPT !.kind = "read", !.reg = block[1],
                                !.size = block[2], !.len = block[2] * 2 + 5]
    /\ UNCHANGED <<info, actionInfo, sensorInfo, locationFlag, written,
                   others>>

WriteFrame ==
    /\ cmd = NoFrame
    /\ \E block \in Writes :
         cmd' = [NoFrame EXCEPT !.kind = "write", !.reg = block[1],
                                !.size = block[2]]
    /\ UNCHANGED <<info, actionInfo, sensorInfo, locationFlag, written,
                   others>>

\* What a read leaves in *data; a register that can only be written leaves
\* what was there, the value of the register before it.
ReadValue(reg, test, ports) ==
    CASE reg \in {LOCATION, REG_CTRL_MODE} -> 0
      [] reg = REG_PORT_SIZE  -> 5
      [] reg = REG_PORT_STATE -> ports
      [] reg = REG_CTRL       -> info.ctrl
      [] reg \in Settings     -> Shown(info[SettingOf[reg]])
      [] reg \in WriteOnly    -> test
      [] OTHER                -> 65535

\* The next register of a read; reading LOCATION asks for the module to be
\* located.  The relays are the main thread's.
ReadRegister ==
    /\ cmd.kind = "read" /\ cmd.done < cmd.size
    /\ \E ports \in {0, 31} :
         LET reg   == cmd.reg + cmd.done
             value == ReadValue(reg, cmd.test, ports)
         IN  /\ reg # REG_PORT_STATE => ports = 0
             /\ cmd' = [cmd EXCEPT !.done = @ + 1, !.test = value,
                                   !.data = Append(@, value)]
             /\ locationFlag' = IF reg = LOCATION THEN YES ELSE locationFlag
    /\ UNCHANGED <<info, actionInfo, sensorInfo, written, others>>

\* REG_CTRL is decoded into the command.
Decoded(v) == [en |-> v \div 32768, type |-> (v \div 256) % 16,
               setPoint |-> (v % 256) * 10]

WriteCtrl(v) ==
    /\ info' = [info EXCEPT !.ctrl = v]
    /\ actionInfo' = Decoded(v)

\* A slip: every setting is kept in a byte.
WriteSettingByte(reg, v) ==
    info' = [info EXCEPT ![SettingOf[reg]] = v % 256]

WriteSetting(reg, v) ==
    info' = [info EXCEPT ![SettingOf[reg]] = Stored(SettingOf[reg], v)]

\* The effect of a write; a register that cannot be written is left alone.
WriteValue(reg, v) ==
    \/ /\ reg = REG_CTRL
       /\ WriteCtrl(v)
       /\ UNCHANGED sensorInfo
    \/ /\ reg \in Settings
       /\ WriteSetting(reg, v)
       /\ UNCHANGED <<actionInfo, sensorInfo>>
    \/ /\ reg \in Sensors
       /\ sensorInfo' = [sensorInfo EXCEPT ![reg] = v]
       /\ UNCHANGED <<info, actionInfo>>
    \/ /\ reg \notin {REG_CTRL} \cup Settings \cup Sensors
       /\ UNCHANGED <<info, actionInfo, sensorInfo>>

\* The next register of a write.  Its value is read from the receive buffer
\* only now, and the interrupt may have put another frame there: it is any
\* value a buffer may hold.
WriteRegister ==
    /\ cmd.kind = "write" /\ cmd.done < cmd.size
    /\ \E v \in Values :
         LET reg == cmd.reg + cmd.done
         IN  /\ WriteValue(reg, v)
             /\ written' = IF reg \in DOMAIN written
                           THEN [written EXCEPT ![reg] = v] ELSE written
    /\ cmd' = [cmd EXCEPT !.done = @ + 1]
    /\ UNCHANGED <<locationFlag, others>>

\* The reply is queued (module SendList) and the frame is done.
Answer ==
    /\ cmd # NoFrame /\ cmd.done = cmd.size
    /\ cmd' = NoFrame
    /\ UNCHANGED <<info, actionInfo, sensorInfo, locationFlag, written,
                   others>>

UartThread == ReadFrame \/ WriteFrame \/ ReadRegister \/ WriteRegister
                 \/ Answer

-----------------------------------------------------------------------------
(* The main thread: LedProgram, an access to the locate flag at a time.    *)

uart == <<info, actionInfo, sensorInfo, cmd, keys, written, restarts>>

LedStart == [pc |-> "compare", flag |-> NO, age |-> 0, mode |-> "normal",
             cnt |-> 0, pin |-> 0]

\* The copy of the flag is compared with it.
Compare ==
    /\ led.pc = "compare"
    /\ led' = [led EXCEPT !.pc = IF led.flag # locationFlag THEN "copy"
                                 ELSE "decide"]
    /\ UNCHANGED <<locationFlag, uart>>

\* A slip: a new request does not begin a new minute.
CopyKeepsTime ==
    /\ led.pc = "copy"
    /\ led' = [led EXCEPT !.pc = "decide", !.flag = locationFlag]
    /\ UNCHANGED <<locationFlag, uart>>

\* It is read again; a request begins a minute.
Copy ==
    /\ led.pc = "copy"
    /\ led' = [led EXCEPT !.pc = "decide", !.flag = locationFlag,
                          !.age = IF locationFlag = YES THEN 0 ELSE @]
    /\ UNCHANGED <<locationFlag, uart>>

\* A slip: the end of the minute closes the request and goes on blinking.
DecideKeepsMode ==
    /\ led.pc = "decide"
    /\ LET over == led.flag = YES /\ led.age > LocateTime
       IN  /\ locationFlag' = IF over THEN NO ELSE locationFlag
           /\ led' = [led EXCEPT !.pc = "blink",
                        !.mode = IF led.flag = YES THEN "fast" ELSE @]
    /\ UNCHANGED uart

\* During the minute the LED blinks fast, at its end the request is closed.
Decide ==
    /\ led.pc = "decide"
    /\ LET over == led.flag = YES /\ led.age > LocateTime
       IN  /\ locationFlag' = IF over THEN NO ELSE locationFlag
           /\ led' = [led EXCEPT !.pc = "blink",
                        !.mode = IF over THEN "normal"
                                 ELSE IF led.flag = YES THEN "fast" ELSE @]
    /\ UNCHANGED uart

Turned(pin) == IF pin = 0 THEN 1 ELSE 0

\* The LED.
Blink ==
    /\ led.pc = "blink"
    /\ LET turn == led.cnt >= IF led.mode = "fast" THEN FastPasses
                              ELSE NormalPasses
       IN  led' = [led EXCEPT !.pc = "loop",
                              !.cnt = IF turn THEN 0 ELSE @ + 1,
                              !.pin = IF turn THEN Turned(@) ELSE @]
    /\ UNCHANGED <<locationFlag, uart>>

\* The rest of the loop: every second timeRun goes on; second: it does now.
Loop(second) ==
    /\ led.pc = "loop"
    /\ led' = [led EXCEPT !.pc = "compare",
                          !.age = IF second /\ @ <= LocateTime THEN @ + 1 ELSE @]
    /\ UNCHANGED <<locationFlag, uart>>

MainThread == Compare \/ Copy \/ Decide \/ Blink \/ \E s \in BOOLEAN : Loop(s)

-----------------------------------------------------------------------------
(* The oled thread: a key in the edit mode of SettingPage.  Its priority is*)
(* below that of the uart thread, so that it runs between frames only, but *)
(* any number of frames may come between its load of a value and its store.*)

\* No edit is under way; the presses are counted.
NoEdit == [at |-> 0, value |-> 0, presses |-> 0]

\* The register of the setting at a position.
RegisterAt(cusor) ==
    CASE cusor = 2 -> 1028 [] cusor = 3 -> 1027 [] cusor = 4 -> 1031
      [] cusor = 5 -> 1032 [] cusor = 6 -> 1029 [] cusor = 8 -> 1037
      [] cusor \in {15, 16} -> 1038
      [] OTHER -> 1039

Hours   == {15, 17}
Minutes == {16, 18}

\* The value at a position: hour and minute are the two bytes of a field.
ValueAt(cusor) ==
    LET v == info[SettingOf[RegisterAt(cusor)]]
    IN  CASE cusor \in Hours   -> v \div 256
          [] cusor \in Minutes -> v % 256
          [] OTHER             -> v

\* The field once v is stored at a position; of a time only one byte is.
Placed(cusor, v) ==
    LET w == info[SettingOf[RegisterAt(cusor)]]
    IN  CASE cusor \in Hours   -> v * 256 + (w % 256)
          [] cusor \in Minutes -> w - (w % 256) + v
          [] OTHER             -> v

KeyLoads ==
    /\ cmd = NoFrame /\ keys.at = 0 /\ keys.presses < MaxPresses
    /\ \E cusor \in Edits, step \in {"up", "down"} :
         keys' = [at |-> cusor, presses |-> keys.presses + 1,
                  value |-> IF step = "up" THEN StepUp(cusor, ValueAt(cusor))
                            ELSE StepDown(cusor, ValueAt(cusor))]
    /\ UNCHANGED <<info, actionInfo, sensorInfo, locationFlag, cmd, led,
                   written, restarts>>

KeyStores ==
    /\ cmd = NoFrame /\ keys.at # 0
    /\ LET reg == RegisterAt(keys.at)
           v   == Placed(keys.at, keys.value)
       IN  /\ info' = [info EXCEPT ![SettingOf[reg]] = v]
           /\ written' = [written EXCEPT ![reg] = Shown(v)]
    /\ keys' = [NoEdit EXCEPT !.presses = keys.presses]
    /\ UNCHANGED <<actionInfo, sensorInfo, locationFlag, cmd, led, restarts>>

OledThread == KeyLoads \/ KeyStores

-----------------------------------------------------------------------------
DefaultInfo == [ctrl |-> 0, unit |-> 1, mode |-> 1, deadBand |-> 50,
                daySetPoint |-> 250, nightSetPoint |-> 250, tempFrom |-> 1,
                dayStartTime |-> 2048, dayEndTime |-> 4608]

NoAction == [en |-> NO, type |-> 5, setPoint |-> NULL]

NoSensor  == [reg \in Sensors |-> NULL]
Unwritten == [reg \in Settings \cup {REG_CTRL} |-> NULL]

\* UartEntry and main before their loops.
Init ==
    /\ info = DefaultInfo
    /\ actionInfo = NoAction /\ sensorInfo = NoSensor
    /\ locationFlag = NO
    /\ cmd = NoFrame /\ led = LedStart /\ keys = NoEdit
    /\ written = Unwritten
    /\ restarts = 0

\* The same after a restart, with the saved settings or the defaults (see
\* FlashStore).  What was saved are the settings of an earlier moment, and all
\* else since that moment is forgotten, so it is enough to restart then.
Restart ==
    /\ restarts < MaxRestarts
    /\ restarts' = restarts + 1
    /\ info' \in {info, DefaultInfo}
    /\ actionInfo' = NoAction /\ sensorInfo' = NoSensor
    /\ locationFlag' = NO
    /\ cmd' = NoFrame /\ led' = LedStart
    /\ keys' = [NoEdit EXCEPT !.presses = keys.presses]
    /\ written' = Unwritten

Next == UartThread \/ MainThread \/ OledThread \/ Restart

Spec == Init /\ [][Next]_vars

(***************************************************************************)
(* The main thread keeps running, and so a second keeps passing.           *)
(***************************************************************************)
FairSpec == Spec /\ WF_led(MainThread) /\ SF_led(Loop(TRUE))
-----------------------------------------------------------------------------
(* Properties                                                              *)

(***************************************************************************)
(* Types: the settings keep the width of their fields.                     *)
(***************************************************************************)
TypeOK ==
    /\ \A f \in DOMAIN DefaultInfo :
         info[f] \in CASE f \in U8Fields  -> 0..255
                       [] f \in S16Fields -> Short
                       [] OTHER           -> Word
    /\ actionInfo.en \in {NO, YES} /\ actionInfo.type \in 0..15
    /\ locationFlag \in {NO, YES} /\ led.flag \in {NO, YES}
    /\ led.age \in 0..(LocateTime + 1)
    /\ cmd.done \in 0..cmd.size
    /\ keys.at \in {0} \cup Edits /\ keys.presses \in 0..MaxPresses
    /\ restarts \in 0..MaxRestarts

\* The registers of fields of a byte.
Narrow == {1027, 1028, 1029, 1037}

(***************************************************************************)
(* A read tells the host what is set: whatever was written, located, saved *)
(* or read in between, and whatever stands before it in the block, each    *)
(* setting in a reply has the value last put into its register since the   *)
(* start, by a frame, cut to the width of its field, or by a key, also when*)
(* the key loaded the value before the frame came; and a complete reply has*)
(* the length that was computed for it before (READ_MUTI of                *)
(* ModbusCommandAnalysis, SettingPage).                                    *)
(***************************************************************************)
ReadTellsWritten ==
    cmd.kind = "read" =>
        /\ \A k \in 1..Len(cmd.data) :
             LET reg == cmd.reg + k - 1
             IN  reg \in DOMAIN written /\ written[reg] # NULL =>
                    cmd.data[k] = IF reg \in Narrow THEN written[reg] % 256
                                  ELSE written[reg]
        /\ cmd.done = cmd.size => cmd.len = 3 + 2 * Len(cmd.data) + 2

(***************************************************************************)
(* A request to locate the module that finds LedProgram at rest makes the  *)
(* LED blink fast, also when it is not the first one.                      *)
(***************************************************************************)
LocateIsHonoured ==
    (restarts = MaxRestarts /\ locationFlag = YES /\ led.flag = NO)
        ~> led.mode = "fast"

(***************************************************************************)
(* Fast blinking ends, however often the host asks again meanwhile (the    *)
(* minute of LedProgram and CloseModuleLocation).                          *)
(***************************************************************************)
BlinkingEnds == led.mode = "fast" ~> led.mode = "normal"
=============================================================================
