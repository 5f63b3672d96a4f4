------------------------------ MODULE Control -------------------------------
(***************************************************************************)
(* The thermostat: ControlProgram and MonitorConnectedState (Control.c),   *)
(* run once a second by the main thread, over the settings, the sensor     *)
(* data and the host's command that the uart and oled threads write.       *)
(*                                                                         *)
(* Times are kept as ages.  The code stores absolute values of timeRun     *)
(* (lastTime, lastConnectTime) and only ever asks whether timeRun has      *)
(* passed one of them by more than a limit, so each is the number of       *)
(* seconds since, saturated one past its limit.                            *)
(***************************************************************************)
EXTENDS Relays, MenuItems

CONSTANTS
    StageTime,      \* seconds in one stage before the second (300)
    StageDelta,     \* temperature change that is progress, 0.1 degree (10)
    TIMEOUT,        \* seconds of silence after which the link is lost (30)
    ModeRegs,       \* 16-bit values the host writes to REG_MODE
    DeadBandRegs,   \* ... to REG_DEADBAND
    SetPointRegs,   \* ... to REG_DAY_SETPOINT and REG_NIGHT_SETPOINT
    TempFromRegs,   \* ... to REG_TEMP_FROM
    DayTimeRegs,    \* ... to REG_DAY_START and REG_DAY_END
    TempRegs,       \* ... to REG_NOW_TEMP
    CtrlRegs,       \* ... to REG_CTRL
    PanelItems,     \* the lines of the settings page that are stepped through
    PanelSetPoints, \* set points reached with the keys
    PanelDeadBands, \* dead bands reached with the keys
    PanelDayTimes,  \* day start and end times reached with the keys
    NtcValues,      \* what GetNtcValue may return
    Clocks          \* seconds of the day the real-time clock may show

VALUE_NULL == -9999

UInt16 == 0..65535
SecondsOfDay == 0..86399
Int16  == {i \in Int : -32768 <= i /\ i <= 32767}

ASSUME LimitsAssumption ==
    /\ StageTime \in Nat
    /\ StageDelta \in Nat
    /\ TIMEOUT \in Nat

ASSUME RegisterAssumption ==
    /\ ModeRegs \subseteq UInt16
    /\ DeadBandRegs \subseteq UInt16
    /\ SetPointRegs \subseteq UInt16
    /\ TempFromRegs \subseteq UInt16
    /\ DayTimeRegs \subseteq UInt16
    /\ TempRegs \subseteq UInt16
    /\ CtrlRegs \subseteq UInt16

ASSUME PanelAssumption ==
    /\ PanelItems \subseteq {"Module", "Mode", "TempFrom"}
    /\ PanelSetPoints \subseteq 0..500
    /\ PanelDeadBands \subseteq 10..50
    /\ PanelDayTimes \subseteq UInt16

ASSUME SensorAssumption ==
    /\ NtcValues \subseteq Int
    /\ Clocks \subseteq SecondsOfDay

\* Control.h and GlobalConfig.h
MODULE_SLAVE           == 0
MODULE_MASTER          == 1
ACTION_TYPE_USE_MASTER == 0
ACTION_TYPE_BY_AUTO    == 5
TEMP_FROM_REMOTE       == 1
TEMP_FROM_LOCAL        == 2
IN_DAY                 == 0
IN_NIGHT               == 1

VARIABLES
    info,       \* gInfo: settings, what the controller does, link state
    sensorTemp, \* sensorInfo.temp
    action,     \* actionInfo: the host's command
    ctl,        \* statics of ControlProgram; age: seconds since lastTime
    local,      \* temperature, point and mode as ControlProgram last read them
    link,       \* lastConnectTime: heard (not 0), silence (seconds since)
    started,    \* timeRun > 0
    relays      \* the energised output relays

vars == <<info, sensorTemp, action, ctl, local, link, started, relays>>

-----------------------------------------------------------------------------
(* Conversions the C assignments make.                                     *)

ToU8Unmasked(v) == v      \* a slip: the field is wider than a byte

ToU8(v)  == v % 256
ToS16(v) == IF v < 32768 THEN v ELSE v - 65536
Abs(x)   == IF x < 0 THEN -x ELSE x
Later(age, limit) == IF age > limit THEN limit + 1 ELSE age + 1

\* hour in the high byte, minute in the low byte
DaySeconds(reg) == (reg \div 256) * 3600 + ToU8(reg) * 60

IdentifyDaYAndNight(now) ==
    LET start == DaySeconds(info.dayStartTime)
        end   == DaySeconds(info.dayEndTime)
    IN  IF end > start
        THEN IF now > start /\ now <= end THEN IN_DAY ELSE IN_NIGHT
        ELSE IF now > start \/ now <= end THEN IN_NIGHT ELSE IN_DAY

\* The set point of the schedule, by day or by night.
ScheduledPoint(now) ==
    IF IdentifyDaYAndNight(now) = IN_DAY
    THEN info.daySetPoint ELSE info.nightSetPoint

GetSetPoint(now) ==
    CASE info.moduleMode # MODULE_SLAVE -> ScheduledPoint(now)
      [] info.moduleMode = MODULE_SLAVE /\ action.type = ACTION_TYPE_BY_AUTO
            -> ScheduledPoint(now)
      [] info.moduleMode = MODULE_SLAVE /\ action.type = ACTION_TYPE_USE_MASTER
            -> action.setPoint
      [] OTHER -> VALUE_NULL

(***************************************************************************)
(* The NTC is sampled twice: the first reading decides whether there is a  *)
(* temperature, the second is the temperature.                             *)
(***************************************************************************)
GetTempValue(first, second) ==
    CASE info.tempFrom = TEMP_FROM_REMOTE -> sensorTemp
      [] info.tempFrom = TEMP_FROM_LOCAL  ->
            IF first <= -20 THEN VALUE_NULL ELSE second
      [] OTHER -> VALUE_NULL

(***************************************************************************)
(* Slips in the comparison with the dead band: the lower limit computed    *)
(* without a sign; the dead band taken in degrees instead of tenths.       *)
(***************************************************************************)
DemandUnsigned(temperature, point, deadband) ==
    IF temperature > point + deadband THEN COOLING
    ELSE IF temperature < (point - deadband) % 65536 THEN HEATING ELSE NORUN

DemandInDegrees(temperature, point, deadband) ==
    IF temperature > point + 10 * deadband THEN COOLING
    ELSE IF temperature < point - 10 * deadband THEN HEATING ELSE NORUN

Demand(temperature, point, deadband) ==
    LET tempMin == IF point > deadband THEN point - deadband ELSE 0
        tempMax == point + deadband
    IN  IF temperature > tempMax THEN COOLING
        ELSE IF temperature < tempMin THEN HEATING ELSE NORUN

-----------------------------------------------------------------------------
(***************************************************************************)
(* MonitorConnectedState, on the settings ControlProgram leaves and the    *)
(* silence at the present second.                                          *)
(***************************************************************************)
MonitorConnectedState(i, silence) ==
    IF ~link.heard \/ silence > TIMEOUT
    THEN [i EXCEPT !.connected = NO, !.registerState = NO]
    ELSE [i EXCEPT !.connected = YES]

\* A slip: the restart on a new demand forgets the stage.
RestartKeepsStage(demand, temperature) ==
    IF demand # ctl.CoolOrHeat
    THEN [ctl EXCEPT !.age = 0, !.lastTemp = temperature, !.CoolOrHeat = demand]
    ELSE [ctl EXCEPT !.age = Later(@, StageTime)]

\* A change of demand restarts the stage timer in the first stage.
Restart(demand, temperature) ==
    IF demand # ctl.CoolOrHeat
    THEN [age |-> 0, lastTemp |-> temperature, stage |-> 1,
          CoolOrHeat |-> demand]
    ELSE [ctl EXCEPT !.age = Later(@, StageTime)]

NextStage(c, temperature) ==
    IF c.age > StageTime /\ Abs(temperature - c.lastTemp) <= StageDelta
    THEN 2 ELSE c.stage

\* No temperature or no set point: stop, and leave the statics alone.
NoData(temperature, point, silence) ==
    /\ temperature = VALUE_NULL \/ point = VALUE_NULL
    /\ info' = MonitorConnectedState([info EXCEPT !.CoolOrHeat = NORUN], silence)
    /\ relays' = CtrlRelay(relays, info.mode, NORUN, 1, NO)
    /\ ctl' = [ctl EXCEPT !.age = Later(@, StageTime)]

(***************************************************************************)
(* The two tests of lines 324 and 361 compare the wiring mode with         *)
(* MODULE_SLAVE, as the code does.                                         *)
(***************************************************************************)
Disabled(temperature, point, silence) ==
    /\ temperature # VALUE_NULL /\ point # VALUE_NULL
    /\ action.en = NO /\ info.mode = MODULE_SLAVE
    /\ info' = MonitorConnectedState([info EXCEPT !.CoolOrHeat = NORUN], silence)
    /\ relays' = CtrlRelay(relays, info.mode, NORUN, 1, NO)
    /\ ctl' = [ctl EXCEPT !.age = Later(@, StageTime)]

\* A slip: the idle branch relies on CtrlRelay(NORUN, stage, YES) alone,
\* which writes no pin.
RunIdleKeepsOutput(temperature, point, silence) ==
    LET demand  == Demand(temperature, point, info.deadBand)
        restart == Restart(demand, temperature)
        stage   == NextStage(restart, temperature)
        lost    == info.connected = NO /\ info.mode = MODULE_SLAVE
    IN  /\ temperature # VALUE_NULL /\ point # VALUE_NULL
        /\ action.en = YES \/ info.mode # MODULE_SLAVE
        /\ ctl' = [restart EXCEPT !.stage = stage]
        /\ info' = MonitorConnectedState(
                    [info EXCEPT !.CoolOrHeat = IF lost THEN NORUN ELSE demand],
                    silence)
        /\ relays' = IF lost
                     THEN CtrlRelay(relays, info.mode, NORUN, 1, NO)
                     ELSE CtrlRelay(relays, info.mode, demand, stage, YES)

Run(temperature, point, silence) ==
    LET demand  == Demand(temperature, point, info.deadBand)
        restart == Restart(demand, temperature)
        stage   == NextStage(restart, temperature)
        lost    == info.connected = NO /\ info.mode = MODULE_SLAVE
        before  == IF demand = NORUN
                   THEN CtrlRelay(relays, info.mode, NORUN, 1, NO)
                   ELSE relays
    IN  /\ temperature # VALUE_NULL /\ point # VALUE_NULL
        /\ action.en = YES \/ info.mode # MODULE_SLAVE
        /\ ctl' = [restart EXCEPT !.stage = stage]
        /\ info' = MonitorConnectedState(
                    [info EXCEPT !.CoolOrHeat = IF lost THEN NORUN ELSE demand],
                    silence)
        /\ relays' = IF lost
                     THEN CtrlRelay(before, info.mode, NORUN, 1, NO)
                     ELSE CtrlRelay(before, info.mode, demand, stage, YES)

ControlProgram(temperature, point, silence) ==
    \/ NoData(temperature, point, silence)
    \/ Disabled(temperature, point, silence)
    \/ Run(temperature, point, silence)

(***************************************************************************)
(* The one-second block of the main loop: TimeRunning, ControlProgram,     *)
(* MonitorConnectedState.                                                  *)
(***************************************************************************)
Second ==
    /\ started' = TRUE
    /\ link' = [link EXCEPT !.silence = Later(@, TIMEOUT)]
    /\ UNCHANGED <<sensorTemp, action>>
    /\ \E first, second \in NtcValues, now \in Clocks :
         LET temperature == GetTempValue(first, second)
             point       == GetSetPoint(now)
         IN  /\ local' = [temperature |-> temperature, point |-> point,
                          mode |-> info.mode]
             /\ ControlProgram(temperature, point, Later(link.silence, TIMEOUT))

-----------------------------------------------------------------------------
(***************************************************************************)
(* Uart1Analysis, one action per kind of frame.  Every frame that is       *)
(* processed ends with SetLastConnectTime(GetTimeRun()), which in the first*)
(* second stores 0, the value that means "never".                          *)
(***************************************************************************)
SetLastConnectTime == link' = [heard |-> started, silence |-> 0]

\* A frame of the registration protocol; ours: the answer carries our id.
RegisterFrame(ours) ==
    /\ info' = IF ours THEN [info EXCEPT !.registerState = YES] ELSE info
    /\ SetLastConnectTime
    /\ UNCHANGED <<sensorTemp, action, ctl, local, started, relays>>

\* A frame for this module is only looked at once it is registered.
HostFrame ==
    /\ info.registerState = YES
    /\ SetLastConnectTime
    /\ UNCHANGED <<ctl, local, started, relays>>

\* Writes of the registers that hold settings.
WriteSetting ==
    /\ HostFrame
    /\ \/ \E v \in ModeRegs : info' = [info EXCEPT !.mode = ToU8(v)]
       \/ \E v \in DeadBandRegs : info' = [info EXCEPT !.deadBand = ToU8(v)]
       \/ \E v \in SetPointRegs : info' = [info EXCEPT !.daySetPoint = ToS16(v)]
       \/ \E v \in SetPointRegs : info' = [info EXCEPT !.nightSetPoint = ToS16(v)]
       \/ \E v \in TempFromRegs : info' = [info EXCEPT !.tempFrom = ToU8(v)]
       \/ \E v \in DayTimeRegs : info' = [info EXCEPT !.dayStartTime = v]
       \/ \E v \in DayTimeRegs : info' = [info EXCEPT !.dayEndTime = v]
    /\ UNCHANGED <<sensorTemp, action>>

\* REG_CTRL: enable in bit 15, type in bits 8..11, set point in the low byte.
WriteCtrl ==
    /\ HostFrame
    /\ \E v \in CtrlRegs :
         action' = [en |-> v \div 32768, type |-> (v \div 256) % 16,
                    setPoint |-> ToU8(v) * 10]
    /\ UNCHANGED <<info, sensorTemp>>

\* REG_NOW_TEMP: the unsigned register value becomes the int temperature.
WriteTemp ==
    /\ HostFrame
    /\ \E v \in TempRegs : sensorTemp' = v
    /\ UNCHANGED <<info, action>>

\* Reads, and writes of registers the controller does not use.
OtherFrame ==
    /\ HostFrame
    /\ UNCHANGED <<info, sensorTemp, action>>

(***************************************************************************)
(* SettingPage: what the keys change.  Enumerated settings step round their*)
(* range; set points, dead band and times reach any value of their sets    *)
(* after some presses.  The fan setting is left out: no code but the page  *)
(* itself reads it.                                                        *)
(***************************************************************************)
Stepped(min, max, d) == {AddData(min, max, d), SubData(min, max, d)}

Panel ==
    /\ \/ /\ "Module" \in PanelItems
          /\ \E v \in Stepped(MODULE_SLAVE, MODULE_MASTER, info.moduleMode) :
               info' = [info EXCEPT !.moduleMode = v]
       \/ /\ "Mode" \in PanelItems
          /\ \E v \in Stepped(MODE_1_CONVENTIONAL, MODE_3_B, info.mode) :
               info' = [info EXCEPT !.mode = v]
       \/ /\ "TempFrom" \in PanelItems
          /\ \E v \in Stepped(TEMP_FROM_REMOTE, TEMP_FROM_LOCAL, info.tempFrom) :
               info' = [info EXCEPT !.tempFrom = v]
       \/ \E v \in PanelSetPoints : info' = [info EXCEPT !.daySetPoint = v]
       \/ \E v \in PanelSetPoints : info' = [info EXCEPT !.nightSetPoint = v]
       \/ \E v \in PanelDeadBands : info' = [info EXCEPT !.deadBand = v]
       \/ \E v \in PanelDayTimes : info' = [info EXCEPT !.dayStartTime = v]
       \/ \E v \in PanelDayTimes : info' = [info EXCEPT !.dayEndTime = v]
    /\ UNCHANGED <<sensorTemp, action, ctl, local, link, started, relays>>

-----------------------------------------------------------------------------
(***************************************************************************)
(* After boot: default or saved settings (a saved record also brings back  *)
(* CoolOrHeat and connected as they were when it was written; every other  *)
(* saved setting is reached from the defaults by Panel and WriteSetting),  *)
(* no sensor data, no command, relays released.                            *)
(***************************************************************************)
Init ==
    /\ info \in [registerState : {NO}, daySetPoint : {250},
                 nightSetPoint : {250}, deadBand : {50},
                 mode : {MODE_1_CONVENTIONAL}, tempFrom : {TEMP_FROM_REMOTE},
                 dayStartTime : {8 * 256}, dayEndTime : {18 * 256},
                 CoolOrHeat : Demands, connected : {NO, YES},
                 moduleMode : {MODULE_SLAVE}]
    /\ sensorTemp = VALUE_NULL
    /\ action = [en |-> NO, type |-> ACTION_TYPE_BY_AUTO,
                 setPoint |-> VALUE_NULL]
    /\ ctl = [age |-> 0, lastTemp |-> 0, stage |-> 1, CoolOrHeat |-> NORUN]
    /\ local = [temperature |-> VALUE_NULL, point |-> VALUE_NULL, mode |-> 0]
    /\ link = [heard |-> FALSE, silence |-> 0]
    /\ started = FALSE
    /\ relays = Off

\* What the uart and oled threads do between two seconds.
Environment ==
    \/ \E ours \in BOOLEAN : RegisterFrame(ours)
    \/ WriteSetting
    \/ WriteCtrl
    \/ WriteTemp
    \/ OtherFrame
    \/ Panel

Next == Second \/ Environment

Spec == Init /\ [][Next]_vars

\* The main thread runs its one-second block again and again.
FairSpec == Spec /\ WF_vars(Second)

-----------------------------------------------------------------------------
(* Properties                                                              *)

InfoType ==
    [registerState : {NO, YES}, daySetPoint : Int16, nightSetPoint : Int16,
     deadBand : 0..255, mode : 0..255, tempFrom : 0..255,
     dayStartTime : UInt16, dayEndTime : UInt16, CoolOrHeat : Demands,
     connected : {NO, YES}, moduleMode : {MODULE_SLAVE, MODULE_MASTER}]

ActionType == [en : {NO, YES}, type : 0..15,
               setPoint : 0..2550 \cup {VALUE_NULL}]

CtlType == [age : 0..(StageTime + 1), lastTemp : Int, stage : Stages,
            CoolOrHeat : Demands]

LinkType == [heard : BOOLEAN, silence : 0..(TIMEOUT + 1)]

LocalType == [temperature : Int, point : Int, mode : 0..255]

(***************************************************************************)
(* Types: every field keeps the width of its C declaration whatever the    *)
(* host writes to the registers, and the ages stay within their limits.    *)
(***************************************************************************)
TypeOK ==
    /\ info \in InfoType
    /\ sensorTemp \in UInt16 \/ sensorTemp = VALUE_NULL
    /\ action \in ActionType
    /\ ctl \in CtlType
    /\ local \in LocalType
    /\ link \in LinkType
    /\ started \in BOOLEAN
    /\ relays \in SUBSET RelayPins

(***************************************************************************)
(* When the controller reports that it is idle (info->CoolOrHeat, which the*)
(* display shows), every relay is released, on each of the paths that make *)
(* it idle: no data, disabled, within the dead band, link lost.            *)
(***************************************************************************)
IdleMeansReleased == info.CoolOrHeat = NORUN => relays = Off

(***************************************************************************)
(* Once a second has run with a wiring mode the equipment can have, the    *)
(* outputs are exactly those the requirements give for that mode, the      *)
(* reported demand and the stage reached, whatever was energised before:   *)
(* the display and the relays never disagree, and nothing of an earlier    *)
(* direction, stage or wiring mode stays on.                               *)
(***************************************************************************)
OutputFollowsDemand ==
    started /\ local.mode \in WiringModes =>
        relays = Wiring(local.mode, info.CoolOrHeat, ctl.stage)

(***************************************************************************)
(* The second stage is on only for the demand being timed, and only once   *)
(* that demand is more than StageTime seconds old.                         *)
(***************************************************************************)
SecondStageIsEarned ==
    SecondStage(relays) /\ local.mode \in WiringModes =>
        /\ ctl.age > StageTime
        /\ info.CoolOrHeat = ctl.CoolOrHeat

(***************************************************************************)
(* ControlProgram never drives the room away from its set point: it cools  *)
(* only above it and heats only below it, for every dead band, as long as  *)
(* the set point is not negative.                                          *)
(***************************************************************************)
NeverDrivesAway ==
    started /\ local.point >= 0 =>
        /\ info.CoolOrHeat = COOLING => local.temperature > local.point
        /\ info.CoolOrHeat = HEATING => local.temperature < local.point

(***************************************************************************)
(* The inductive invariant.  SecondStageIsEarned needs that the second     *)
(* stage is only ever reached by an old demand, and that the demand timed  *)
(* is the one reported; both also hold while the output is off.            *)
(***************************************************************************)
StageIsAged == ctl.stage = 2 => ctl.age > StageTime

DemandIsTimed ==
    started /\ info.CoolOrHeat # NORUN => ctl.CoolOrHeat = info.CoolOrHeat

ReleasedAtBoot == ~started => relays = Off

ControlInv ==
    /\ TypeOK
    /\ IdleMeansReleased
    /\ OutputFollowsDemand
    /\ StageIsAged
    /\ DemandIsTimed
    /\ ReleasedAtBoot

(***************************************************************************)
(* The room is hot: there is a remote temperature, and it is above the band*)
(* of every set point the clock may select.                                *)
(***************************************************************************)
HotRoom ==
    /\ info.mode \in WiringModes
    /\ info.tempFrom = TEMP_FROM_REMOTE /\ sensorTemp # VALUE_NULL
    /\ \A now \in Clocks :
          /\ GetSetPoint(now) # VALUE_NULL
          /\ sensorTemp > GetSetPoint(now) + info.deadBand

(***************************************************************************)
(* The module may heat and cool: it is a master, or a slave that its host  *)
(* has enabled and still talks to.                                         *)
(***************************************************************************)
Entitled ==
    \/ info.moduleMode # MODULE_SLAVE
    \/ info.connected = YES /\ action.en = YES

(***************************************************************************)
(* A room that stays hot is in the end cooled without interruption by a    *)
(* module that stays entitled to run, however wiring mode, set points and  *)
(* command change meanwhile (ControlProgram).                              *)
(***************************************************************************)
HotRoomIsCooled ==
    <>[](Entitled /\ HotRoom) =>
        <>[](/\ info.CoolOrHeat = COOLING
             /\ relays = Wiring(local.mode, COOLING, ctl.stage))

-----------------------------------------------------------------------------
(* What comments and requirements say, and the code does not do.           *)

(***************************************************************************)
(* Control.c:360 says that a module that lost its host does not heat or    *)
(* cool: a slave's ControlProgram with connected = NO releases the relays. *)
(***************************************************************************)
LostLinkStopsOutput ==
    [][Second /\ info.connected = NO /\ info.moduleMode = MODULE_SLAVE
        => relays' = Off]_vars
=============================================================================
