---------------------------- MODULE ControlProofs ---------------------------
(***************************************************************************)
(* Proofs about Control, for every register value, panel value, sensor     *)
(* reading and time limit, then about RelayDrive, which takes Control apart*)
(* into the accesses of its threads, and last about the search in Sensor.  *)
(***************************************************************************)
EXTENDS RelayDrive, MCControl, TLAPS

-----------------------------------------------------------------------------
(* What CtrlRelay does.                                                    *)

\* Any call of CtrlRelay drives only the five relays.
LEMMA CtrlRelayPins ==
    ASSUME NEW r \in SUBSET RelayPins, NEW m, NEW d, NEW s, NEW en
    PROVE  CtrlRelay(r, m, d, s, en) \in SUBSET RelayPins
<1>1. WritesYes(m, d, s) \in SUBSET RelayPins
  BY DEF WritesYes, RelayPins
<1>2. QED
  BY <1>1 DEF CtrlRelay

\* CtrlRelay with en = NO releases every relay.
LEMMA CtrlRelayStops ==
    ASSUME NEW r \in SUBSET RelayPins, NEW m, NEW d, NEW s
    PROVE  CtrlRelay(r, m, d, s, NO) = Off
BY DEF CtrlRelay, NO, YES, Off

\* CtrlRelay with en = YES and no demand writes no pin at all.
LEMMA CtrlRelayIdle ==
    ASSUME NEW r \in SUBSET RelayPins, NEW m, NEW s
    PROVE  CtrlRelay(r, m, NORUN, s, YES) = r
<1>1. WritesYes(m, NORUN, s) = {} /\ WritesNo(m, NORUN, s) = {}
  BY DEF WritesYes, WritesNo, NORUN, COOLING, HEATING
<1>2. QED
  BY <1>1 DEF CtrlRelay

\* With a demand and a wiring mode the equipment can have, CtrlRelay leaves
\* exactly the outputs of the requirements, whatever was energised before.
LEMMA CtrlRelayIsWiring ==
    ASSUME NEW r \in SUBSET RelayPins, NEW m \in WiringModes,
           NEW d \in {COOLING, HEATING}, NEW s \in Stages
    PROVE  CtrlRelay(r, m, d, s, YES) = Wiring(m, d, s)
<1>1. WritesNo(m, d, s) = RelayPins \ WritesYes(m, d, s)
  BY DEF WritesYes, WritesNo, RelayPins, WiringModes, MODE_1_CONVENTIONAL,
         MODE_2_0, MODE_3_B, COOLING, HEATING, Stages
<1>2. WritesYes(m, d, s) = Wiring(m, d, s)
  BY DEF WritesYes, Wiring, Compressor, WTerminal, RelayPins, WiringModes,
         MODE_1_CONVENTIONAL, MODE_2_0, MODE_3_B, NORUN, COOLING, HEATING, Stages
<1>3. QED
  BY <1>1, <1>2 DEF CtrlRelay

\* Only a demand in its second stage energises Y2 or W2.
LEMMA WiringSecondStage ==
    ASSUME NEW m \in WiringModes, NEW d \in Demands, NEW s \in Stages,
           SecondStage(Wiring(m, d, s))
    PROVE  s = 2 /\ d # NORUN
BY DEF SecondStage, Wiring, Demands, Stages, Off

-----------------------------------------------------------------------------
(* Types.                                                                  *)

\* The age and silence counters saturate one past their limit.
LEMMA LaterBound ==
    ASSUME NEW limit \in Nat, NEW age \in 0..(limit + 1)
    PROVE  Later(age, limit) \in 0..(limit + 1)
BY DEF Later

\* The C conversions give values of the width of their target.
LEMMA ConversionTypes ==
    ASSUME NEW v \in UInt16
    PROVE  /\ ToU8(v) \in 0..255
           /\ ToS16(v) \in Int16
           /\ v \div 32768 \in {NO, YES}
           /\ (v \div 256) % 16 \in 0..15
           /\ ToU8(v) * 10 \in 0..2550
<1>1. v \in Int /\ 0 <= v /\ v <= 65535
  BY DEF UInt16
<1>2. ToU8(v) \in 0..255
  BY <1>1 DEF ToU8
<1>3. ToS16(v) \in Int16
  BY <1>1 DEF ToS16, Int16
<1>4. v \div 32768 \in {NO, YES}
  BY <1>1 DEF NO, YES
<1>5. (v \div 256) % 16 \in 0..15
  BY <1>1
<1>6. ToU8(v) * 10 \in 0..2550
  BY <1>2
<1>7. QED
  BY <1>2, <1>3, <1>4, <1>5, <1>6

\* The monitor changes nothing but the link state of the settings.
LEMMA MonitorTypes ==
    ASSUME NEW i \in InfoType, NEW silence
    PROVE  /\ MonitorConnectedState(i, silence) \in InfoType
           /\ MonitorConnectedState(i, silence).CoolOrHeat = i.CoolOrHeat
<1>1. [i EXCEPT !.connected = NO, !.registerState = NO] \in InfoType
  BY DEF InfoType, NO, YES
<1>2. [i EXCEPT !.connected = YES] \in InfoType
  BY DEF InfoType, NO, YES
<1>3. /\ [i EXCEPT !.connected = NO, !.registerState = NO].CoolOrHeat = i.CoolOrHeat
      /\ [i EXCEPT !.connected = YES].CoolOrHeat = i.CoolOrHeat
  BY DEF InfoType
<1>4. QED
  BY <1>1, <1>2, <1>3 DEF MonitorConnectedState

\* The set point of the command is an integer, the null value included.
LEMMA CommandTypes ==
    ASSUME TypeOK
    PROVE  action.setPoint \in Int
<1> DEFINE Points == 0..2550 \cup {VALUE_NULL}
<1>1. action \in [en : {NO, YES}, type : 0..15, setPoint : Points]
  BY DEF TypeOK, ActionType
<1>2. Points \subseteq Int
  BY DEF VALUE_NULL
<1> HIDE DEF Points
<1>3. action.setPoint \in Points
  BY <1>1
<1> QED
  BY <1>2, <1>3, Zenon

\* What ControlProgram reads is an integer or the null value.
LEMMA InputTypes ==
    ASSUME TypeOK, NEW first \in NtcValues, NEW second \in NtcValues, NEW now
    PROVE  GetTempValue(first, second) \in Int /\ GetSetPoint(now) \in Int
<1>1. VALUE_NULL \in Int
  BY DEF VALUE_NULL
<1>2. GetTempValue(first, second) \in Int
  <2>1. sensorTemp \in Int
    <3>1. sensorTemp \in UInt16 \/ sensorTemp = VALUE_NULL
      BY Zenon DEF TypeOK
    <3>2. UInt16 \subseteq Int
      BY DEF UInt16
    <3>3. QED
      BY <3>1, <3>2, <1>1, Zenon
  <2>2. second \in Int
    <3>1. NtcValues \subseteq Int
      BY SensorAssumption
    <3>2. QED
      BY <3>1, Zenon
  <2>3. QED
    BY <1>1, <2>1, <2>2 DEF GetTempValue
<1>3. info.daySetPoint \in Int /\ info.nightSetPoint \in Int
  BY DEF TypeOK, InfoType, Int16
<1>4. action.setPoint \in Int
  BY CommandTypes
<1>5. GetSetPoint(now) \in Int
  BY <1>1, <1>3, <1>4 DEF GetSetPoint, ScheduledPoint
<1>6. QED
  BY <1>2, <1>5

\* The statics of ControlProgram after a change of demand and a stage change.
LEMMA StageTypes ==
    ASSUME TypeOK, NEW demand \in Demands, NEW t \in Int
    PROVE  /\ Restart(demand, t) \in CtlType
           /\ Restart(demand, t).CoolOrHeat = demand
           /\ NextStage(Restart(demand, t), t) \in Stages
<1>1. ctl \in CtlType
  BY DEF TypeOK
<1>2. Later(ctl.age, StageTime) \in 0..(StageTime + 1)
  <2>1. ctl.age \in 0..(StageTime + 1)
    BY <1>1 DEF CtlType
  <2>2. QED
    BY <2>1, LaterBound, LimitsAssumption
<1>3. 0 \in 0..(StageTime + 1)
  BY LimitsAssumption
<1>4. Restart(demand, t) \in CtlType
  BY <1>1, <1>2, <1>3 DEF Restart, CtlType, Stages
<1>5. Restart(demand, t).CoolOrHeat = demand
  BY <1>1 DEF Restart, CtlType
<1>6. NextStage(Restart(demand, t), t) \in Stages
  BY <1>4 DEF NextStage, CtlType, Stages
<1>7. QED
  BY <1>4, <1>5, <1>6

\* Demand is one of the three.
LEMMA DemandType ==
    ASSUME NEW t, NEW p, NEW db
    PROVE  Demand(t, p, db) \in Demands
BY DEF Demand, Demands

\* A second keeps the types.
LEMMA SecondTypes == TypeOK /\ Second => TypeOK'
<1> SUFFICES ASSUME TypeOK, Second PROVE TypeOK'
  OBVIOUS
<1> PICK first \in NtcValues, second \in NtcValues, now \in Clocks :
        LET temperature == GetTempValue(first, second)
            point       == GetSetPoint(now)
            silence     == Later(link.silence, TIMEOUT)
        IN  /\ ControlProgram(temperature, point, silence)
            /\ local' = [temperature |-> temperature, point |-> point,
                         mode |-> info.mode]
            /\ link' = [link EXCEPT !.silence = silence]
            /\ started' = TRUE
            /\ UNCHANGED <<sensorTemp, action>>
  BY DEF Second
<1> DEFINE t == GetTempValue(first, second)
           p == GetSetPoint(now)
           silence == Later(link.silence, TIMEOUT)
<1>0. t \in Int /\ p \in Int
  BY InputTypes
<1> HIDE DEF t, p
<1>1. /\ sensorTemp' \in UInt16 \/ sensorTemp' = VALUE_NULL
      /\ action' \in ActionType /\ started' \in BOOLEAN
  BY DEF TypeOK
<1>2. link' \in LinkType
  <2>1. link \in LinkType /\ link.silence \in 0..(TIMEOUT + 1)
    BY DEF TypeOK, LinkType
  <2>2. Later(link.silence, TIMEOUT) \in 0..(TIMEOUT + 1)
    BY <2>1, LaterBound, LimitsAssumption
  <2>3. QED
    BY <2>1, <2>2 DEF LinkType
<1>3. local' \in LocalType
  <2>1. info.mode \in 0..255
    BY DEF TypeOK, InfoType
  <2>2. QED
    BY <1>0, <2>1 DEF LocalType, t, p
<1>4. /\ info' \in InfoType
      /\ ctl' \in CtlType
      /\ relays' \in SUBSET RelayPins
  <2>0. ControlProgram(t, p, silence)
    BY DEF t, p
  <2>1. \A d \in Demands : MonitorConnectedState([info EXCEPT !.CoolOrHeat = d], silence) \in InfoType
    <3>1. \A d \in Demands : [info EXCEPT !.CoolOrHeat = d] \in InfoType
      BY DEF TypeOK, InfoType
    <3>2. QED
      BY <3>1, MonitorTypes
  <2>2. [ctl EXCEPT !.age = Later(@, StageTime)] \in CtlType
    <3>1. ctl \in CtlType /\ ctl.age \in 0..(StageTime + 1)
      BY DEF TypeOK, CtlType
    <3>2. Later(ctl.age, StageTime) \in 0..(StageTime + 1)
      BY <3>1, LaterBound, LimitsAssumption
    <3>3. QED
      BY <3>1, <3>2 DEF CtlType
  <2>3. relays \in SUBSET RelayPins
    BY DEF TypeOK
  <2>4. NORUN \in Demands
    BY DEF Demands
  <2>5. CASE NoData(t, p, silence)
    BY <2>1, <2>2, <2>3, <2>4, <2>5, CtrlRelayPins DEF NoData
  <2>6. CASE Disabled(t, p, silence)
    BY <2>1, <2>2, <2>3, <2>4, <2>6, CtrlRelayPins DEF Disabled
  <2>7. CASE Run(t, p, silence)
    <3> DEFINE demand  == Demand(t, p, info.deadBand)
               restart == Restart(demand, t)
               stage   == NextStage(restart, t)
    <3>1. demand \in Demands
      BY DemandType
    <3>2. restart \in CtlType /\ stage \in Stages
      BY <1>0, <3>1, StageTypes
    <3>3. [restart EXCEPT !.stage = stage] \in CtlType
      <4> HIDE DEF restart, stage
      <4> QED BY <3>2 DEF CtlType
    <3>4. ctl' \in CtlType
      BY <2>7, <3>3 DEF Run
    <3>5. info' \in InfoType
      BY <2>7, <2>1, <2>4, <3>1 DEF Run
    <3>6. relays' \in SUBSET RelayPins
      BY <2>7, <2>3, CtrlRelayPins DEF Run
    <3>7. QED
      BY <3>4, <3>5, <3>6
  <2>8. QED
    BY <2>0, <2>5, <2>6, <2>7 DEF ControlProgram
<1>5. QED
  BY <1>1, <1>2, <1>3, <1>4 DEF TypeOK

\* An edit of the settings that leaves the reported demand alone.
Edits(i, j) == j \in InfoType /\ j.CoolOrHeat = i.CoolOrHeat

\* Assigning a value of the field's width to a setting is such an edit.
LEMMA SettingTypes ==
    ASSUME NEW i \in InfoType
    PROVE  /\ \A u \in 0..255 : /\ Edits(i, [i EXCEPT !.mode = u])
                                /\ Edits(i, [i EXCEPT !.deadBand = u])
                                /\ Edits(i, [i EXCEPT !.tempFrom = u])
           /\ \A w \in Int16 : /\ Edits(i, [i EXCEPT !.daySetPoint = w])
                               /\ Edits(i, [i EXCEPT !.nightSetPoint = w])
           /\ \A v \in UInt16 : /\ Edits(i, [i EXCEPT !.dayStartTime = v])
                                /\ Edits(i, [i EXCEPT !.dayEndTime = v])
           /\ \A b \in {0, 1} : Edits(i, [i EXCEPT !.moduleMode = b])
<1>1. ASSUME NEW u \in 0..255
      PROVE  /\ Edits(i, [i EXCEPT !.mode = u])
             /\ Edits(i, [i EXCEPT !.deadBand = u])
             /\ Edits(i, [i EXCEPT !.tempFrom = u])
  BY DEF Edits, InfoType
<1>2. ASSUME NEW w \in Int16
      PROVE  /\ Edits(i, [i EXCEPT !.daySetPoint = w])
             /\ Edits(i, [i EXCEPT !.nightSetPoint = w])
  BY DEF Edits, InfoType
<1>3. ASSUME NEW v \in UInt16
      PROVE  /\ Edits(i, [i EXCEPT !.dayStartTime = v])
             /\ Edits(i, [i EXCEPT !.dayEndTime = v])
  BY DEF Edits, InfoType
<1>4. ASSUME NEW b \in {0, 1}
      PROVE  Edits(i, [i EXCEPT !.moduleMode = b])
  BY DEF Edits, InfoType, MODULE_SLAVE, MODULE_MASTER
<1>5. QED
  BY <1>1, <1>2, <1>3, <1>4, Zenon

\* Frames and keys keep the types, and touch neither the relays nor what
\* ControlProgram owns.
LEMMA EnvironmentStep ==
    ASSUME TypeOK, Environment
    PROVE  /\ TypeOK'
           /\ info'.CoolOrHeat = info.CoolOrHeat
           /\ UNCHANGED <<ctl, local, started, relays>>
<1>0. info \in InfoType /\ link \in LinkType
  BY DEF TypeOK
<1>1. ASSUME SetLastConnectTime PROVE link' \in LinkType
  BY <1>1, LimitsAssumption DEF SetLastConnectTime, LinkType, TypeOK
<1>byte. \A u \in 0..255 : /\ Edits(info, [info EXCEPT !.mode = u])
                           /\ Edits(info, [info EXCEPT !.deadBand = u])
                           /\ Edits(info, [info EXCEPT !.tempFrom = u])
  BY <1>0, SettingTypes, Zenon
<1>point. \A w \in Int16 : /\ Edits(info, [info EXCEPT !.daySetPoint = w])
                           /\ Edits(info, [info EXCEPT !.nightSetPoint = w])
  BY <1>0, SettingTypes, Zenon
<1>time. \A v \in UInt16 : /\ Edits(info, [info EXCEPT !.dayStartTime = v])
                           /\ Edits(info, [info EXCEPT !.dayEndTime = v])
  BY <1>0, SettingTypes, Zenon
<1>flag. \A b \in {0, 1} : Edits(info, [info EXCEPT !.moduleMode = b])
  BY <1>0, SettingTypes, Zenon
<1>2. ASSUME NEW ours \in BOOLEAN, RegisterFrame(ours)
      PROVE  /\ TypeOK'
             /\ info'.CoolOrHeat = info.CoolOrHeat
             /\ UNCHANGED <<ctl, local, started, relays>>
  <2>1. info' \in InfoType /\ info'.CoolOrHeat = info.CoolOrHeat
    BY <1>0, <1>2 DEF RegisterFrame, InfoType
  <2>2. QED
    BY <1>1, <1>2, <2>1 DEF RegisterFrame, TypeOK
<1>3. ASSUME WriteSetting
      PROVE  /\ TypeOK'
             /\ info'.CoolOrHeat = info.CoolOrHeat
             /\ UNCHANGED <<ctl, local, started, relays>>
  <2>1. \A v \in UInt16 : ToU8(v) \in 0..255 /\ ToS16(v) \in Int16
    BY ConversionTypes
  <2>2. /\ \A v \in ModeRegs : ToU8(v) \in 0..255
        /\ \A v \in DeadBandRegs : ToU8(v) \in 0..255
        /\ \A v \in TempFromRegs : ToU8(v) \in 0..255
        /\ \A v \in SetPointRegs : ToS16(v) \in Int16
        /\ \A v \in DayTimeRegs : v \in UInt16
    BY <2>1, RegisterAssumption
  <2>3. Edits(info, info')
    <3>1. CASE \E v \in ModeRegs : info' = [info EXCEPT !.mode = ToU8(v)]
      BY <1>byte, <2>2, <3>1, Zenon
    <3>2. CASE \E v \in DeadBandRegs : info' = [info EXCEPT !.deadBand = ToU8(v)]
      BY <1>byte, <2>2, <3>2, Zenon
    <3>3. CASE \E v \in SetPointRegs : info' = [info EXCEPT !.daySetPoint = ToS16(v)]
      BY <1>point, <2>2, <3>3
    <3>4. CASE \E v \in SetPointRegs : info' = [info EXCEPT !.nightSetPoint = ToS16(v)]
      BY <1>point, <2>2, <3>4
    <3>5. CASE \E v \in TempFromRegs : info' = [info EXCEPT !.tempFrom = ToU8(v)]
      BY <1>byte, <2>2, <3>5, Zenon
    <3>6. CASE \E v \in DayTimeRegs : info' = [info EXCEPT !.dayStartTime = v]
      BY <1>time, <2>2, <3>6
    <3>7. CASE \E v \in DayTimeRegs : info' = [info EXCEPT !.dayEndTime = v]
      BY <1>time, <2>2, <3>7
    <3>8. QED
      BY <1>3, <3>1, <3>2, <3>3, <3>4, <3>5, <3>6, <3>7 DEF WriteSetting
  <2>4. QED
    BY <1>1, <1>3, <2>3 DEF WriteSetting, HostFrame, TypeOK, Edits
<1>4. ASSUME WriteCtrl
      PROVE  /\ TypeOK'
             /\ info'.CoolOrHeat = info.CoolOrHeat
             /\ UNCHANGED <<ctl, local, started, relays>>
  <2>1. PICK v \in UInt16 : action' = [en |-> v \div 32768,
                                       type |-> (v \div 256) % 16,
                                       setPoint |-> ToU8(v) * 10]
    BY <1>4, RegisterAssumption DEF WriteCtrl
  <2>2. action' \in ActionType
    BY <2>1, ConversionTypes DEF ActionType
  <2>3. QED
    BY <1>1, <1>4, <2>2 DEF WriteCtrl, HostFrame, TypeOK
<1>5. ASSUME WriteTemp
      PROVE  /\ TypeOK'
             /\ info'.CoolOrHeat = info.CoolOrHeat
             /\ UNCHANGED <<ctl, local, started, relays>>
  BY <1>1, <1>5, RegisterAssumption DEF WriteTemp, HostFrame, TypeOK
<1>6. ASSUME OtherFrame
      PROVE  /\ TypeOK'
             /\ info'.CoolOrHeat = info.CoolOrHeat
             /\ UNCHANGED <<ctl, local, started, relays>>
  BY <1>1, <1>6 DEF OtherFrame, HostFrame, TypeOK
<1>7. ASSUME Panel
      PROVE  /\ TypeOK'
             /\ info'.CoolOrHeat = info.CoolOrHeat
             /\ UNCHANGED <<ctl, local, started, relays>>
  <2>1. Stepped(MODULE_SLAVE, MODULE_MASTER, info.moduleMode) \subseteq {0, 1}
    <3>1. info.moduleMode \in {0, 1}
      BY <1>0 DEF InfoType, MODULE_SLAVE, MODULE_MASTER
    <3>2. QED
      BY <3>1 DEF Stepped, AddData, SubData, MODULE_SLAVE, MODULE_MASTER
  <2>2. /\ Stepped(MODE_1_CONVENTIONAL, MODE_3_B, info.mode) \subseteq 0..255
        /\ Stepped(TEMP_FROM_REMOTE, TEMP_FROM_LOCAL, info.tempFrom) \subseteq 0..255
    <3>1. info.mode \in 0..255 /\ info.tempFrom \in 0..255
      BY <1>0 DEF InfoType
    <3>2. QED
      BY <3>1 DEF Stepped, AddData, SubData, MODE_1_CONVENTIONAL, MODE_3_B,
                  TEMP_FROM_REMOTE, TEMP_FROM_LOCAL
  <2>3. PanelSetPoints \subseteq Int16
    <3>1. 0..500 \subseteq Int16
      BY DEF Int16
    <3>2. QED
      BY <3>1, PanelAssumption
  <2>4. PanelDeadBands \subseteq 0..255 /\ PanelDayTimes \subseteq UInt16
    BY PanelAssumption
  <2>5. Edits(info, info')
    <3>1. CASE \E v \in Stepped(MODULE_SLAVE, MODULE_MASTER, info.moduleMode) :
                  info' = [info EXCEPT !.moduleMode = v]
      BY <1>flag, <2>1, <3>1
    <3>2. CASE \E v \in Stepped(MODE_1_CONVENTIONAL, MODE_3_B, info.mode) :
                  info' = [info EXCEPT !.mode = v]
      BY <1>byte, <2>2, <3>2, Zenon
    <3>3. CASE \E v \in Stepped(TEMP_FROM_REMOTE, TEMP_FROM_LOCAL, info.tempFrom) :
                  info' = [info EXCEPT !.tempFrom = v]
      BY <1>byte, <2>2, <3>3, Zenon
    <3>4. CASE \E v \in PanelSetPoints : \/ info' = [info EXCEPT !.daySetPoint = v]
                                         \/ info' = [info EXCEPT !.nightSetPoint = v]
      BY <1>point, <2>3, <3>4
    <3>5. CASE \E v \in PanelDeadBands : info' = [info EXCEPT !.deadBand = v]
      BY <1>byte, <2>4, <3>5, Zenon
    <3>6. CASE \E v \in PanelDayTimes : \/ info' = [info EXCEPT !.dayStartTime = v]
                                        \/ info' = [info EXCEPT !.dayEndTime = v]
      BY <1>time, <2>4, <3>6
    <3>7. QED
      BY <1>7, <3>1, <3>2, <3>3, <3>4, <3>5, <3>6 DEF Panel
  <2>6. QED
    BY <1>7, <2>5 DEF Panel, TypeOK, Edits
<1>8. QED
  BY <1>2, <1>3, <1>4, <1>5, <1>6, <1>7 DEF Environment

-----------------------------------------------------------------------------
(* The invariant.                                                          *)

\* Until a second has run the relays are released and nothing is timed.
LEMMA InitInv == Init => ControlInv
<1> SUFFICES ASSUME Init PROVE ControlInv
  OBVIOUS
<1>1. info \in InfoType
  <2>1. 250 \in Int16 /\ 8 * 256 \in UInt16 /\ 18 * 256 \in UInt16
    BY DEF Int16, UInt16
  <2>2. /\ 50 \in 0..255 /\ MODE_1_CONVENTIONAL \in 0..255
        /\ TEMP_FROM_REMOTE \in 0..255
    BY DEF MODE_1_CONVENTIONAL, TEMP_FROM_REMOTE
  <2>3. QED
    BY <2>1, <2>2 DEF Init, InfoType
<1>2. action \in ActionType
  BY DEF Init, ActionType, ACTION_TYPE_BY_AUTO
<1>3. ctl \in CtlType
  BY LimitsAssumption DEF Init, CtlType, Stages, Demands
<1>4. local \in LocalType
  BY DEF Init, LocalType, VALUE_NULL
<1>5. link \in LinkType
  BY LimitsAssumption DEF Init, LinkType
<1>6. TypeOK
  BY <1>1, <1>2, <1>3, <1>4, <1>5 DEF Init, TypeOK, Off
<1>7. QED
  BY <1>6 DEF Init, ControlInv, IdleMeansReleased, OutputFollowsDemand,
              StageIsAged, DemandIsTimed, ReleasedAtBoot

\* The outputs ControlProgram leaves: released when it reports no demand, and
\* the wiring of the mode when the equipment has one.
LEMMA RunOutput ==
    ASSUME NEW r \in SUBSET RelayPins, NEW m, NEW d \in Demands, NEW s \in Stages
    PROVE  LET before == IF d = NORUN THEN CtrlRelay(r, m, NORUN, 1, NO) ELSE r
               after  == CtrlRelay(before, m, d, s, YES)
           IN  /\ d = NORUN => after = Off
               /\ m \in WiringModes => after = Wiring(m, d, s)
<1>1. CASE d = NORUN
  <2>1. CtrlRelay(r, m, NORUN, 1, NO) = Off
    BY CtrlRelayStops
  <2>2. CtrlRelay(Off, m, NORUN, s, YES) = Off
    BY CtrlRelayIdle DEF Off
  <2>3. Wiring(m, NORUN, s) = Off
    BY DEF Wiring
  <2>4. QED
    BY <1>1, <2>1, <2>2, <2>3
<1>2. CASE d # NORUN
  <2>1. d \in {COOLING, HEATING}
    BY <1>2 DEF Demands
  <2>2. QED
    BY <1>2, <2>1, CtrlRelayIsWiring
<1>3. QED
  BY <1>1, <1>2

\* A demand reaches the second stage only when it is old enough.
LEMMA StageAges ==
    ASSUME TypeOK, StageIsAged, NEW demand \in Demands, NEW t \in Int
    PROVE  NextStage(Restart(demand, t), t) = 2
              => Restart(demand, t).age > StageTime
<1>1. ctl \in CtlType /\ StageTime \in Nat /\ ctl.age \in 0..(StageTime + 1)
  BY LimitsAssumption DEF TypeOK, CtlType
<1>2. CASE demand # ctl.CoolOrHeat
  BY <1>2 DEF Restart, NextStage
<1>3. CASE demand = ctl.CoolOrHeat
  <2>1. Restart(demand, t) = [ctl EXCEPT !.age = Later(ctl.age, StageTime)]
    BY <1>3 DEF Restart
  <2>2. /\ Restart(demand, t).age = Later(ctl.age, StageTime)
        /\ Restart(demand, t).stage = ctl.stage
    BY <1>1, <2>1 DEF CtlType
  <2>3. ctl.age > StageTime => Later(ctl.age, StageTime) > StageTime
    BY <1>1 DEF Later
  <2>4. QED
    BY <2>2, <2>3 DEF NextStage, StageIsAged
<1>4. QED
  BY <1>2, <1>3

\* A second re-establishes the invariant.
LEMMA SecondInv == ControlInv /\ Second => ControlInv'
<1> SUFFICES ASSUME ControlInv, Second PROVE ControlInv'
  OBVIOUS
<1>1. TypeOK /\ StageIsAged
  BY DEF ControlInv
<1>2. TypeOK'
  BY <1>1, SecondTypes
<1>3. PICK first \in NtcValues, second \in NtcValues, now \in Clocks :
        LET temperature == GetTempValue(first, second)
            point       == GetSetPoint(now)
            silence     == Later(link.silence, TIMEOUT)
        IN  /\ ControlProgram(temperature, point, silence)
            /\ local' = [temperature |-> temperature, point |-> point,
                         mode |-> info.mode]
            /\ started' = TRUE
  BY DEF Second
<1> DEFINE t == GetTempValue(first, second)
           p == GetSetPoint(now)
           silence == Later(link.silence, TIMEOUT)
<1>4. t \in Int /\ p \in Int
  BY <1>1, InputTypes
<1>5. ControlProgram(t, p, silence) /\ local'.mode = info.mode /\ started' = TRUE
  BY <1>3
<1> HIDE DEF t, p, silence
<1>6. relays \in SUBSET RelayPins /\ info \in InfoType /\ ctl \in CtlType
  BY <1>1 DEF TypeOK
<1>7. \A d \in Demands :
         MonitorConnectedState([info EXCEPT !.CoolOrHeat = d], silence).CoolOrHeat = d
  <2>1. \A d \in Demands : /\ [info EXCEPT !.CoolOrHeat = d] \in InfoType
                           /\ [info EXCEPT !.CoolOrHeat = d].CoolOrHeat = d
    BY <1>6 DEF InfoType
  <2>2. QED
    BY <2>1, MonitorTypes
<1>8. NORUN \in Demands
  BY DEF Demands
<1>9. ASSUME NoData(t, p, silence) \/ Disabled(t, p, silence)
      PROVE  /\ info'.CoolOrHeat = NORUN /\ relays' = Off
             /\ StageIsAged'
  <2>1. /\ info' = MonitorConnectedState([info EXCEPT !.CoolOrHeat = NORUN], silence)
        /\ relays' = CtrlRelay(relays, info.mode, NORUN, 1, NO)
        /\ ctl' = [ctl EXCEPT !.age = Later(@, StageTime)]
    BY <1>9 DEF NoData, Disabled
  <2>2. relays' = Off
    BY <1>6, <2>1, CtrlRelayStops
  <2>3. StageIsAged'
    <3>1. ctl.age \in 0..(StageTime + 1) /\ StageTime \in Nat
      BY <1>6, LimitsAssumption DEF CtlType
    <3>2. ctl'.age = Later(ctl.age, StageTime) /\ ctl'.stage = ctl.stage
      BY <1>6, <2>1 DEF CtlType
    <3>3. ctl.age > StageTime => Later(ctl.age, StageTime) > StageTime
      BY <3>1 DEF Later
    <3>4. QED
      BY <1>1, <3>2, <3>3 DEF StageIsAged
  <2>4. QED
    BY <1>7, <1>8, <2>1, <2>2, <2>3
<1>10. ASSUME Run(t, p, silence)
       PROVE  /\ info'.CoolOrHeat = NORUN => relays' = Off
              /\ info.mode \in WiringModes
                    => relays' = Wiring(info.mode, info'.CoolOrHeat, ctl'.stage)
              /\ info'.CoolOrHeat \in {NORUN, ctl'.CoolOrHeat}
              /\ StageIsAged'
  <2> DEFINE demand  == Demand(t, p, info.deadBand)
             restart == Restart(demand, t)
             stage   == NextStage(restart, t)
             lost    == info.connected = NO /\ info.mode = MODULE_SLAVE
             before  == IF demand = NORUN
                        THEN CtrlRelay(relays, info.mode, NORUN, 1, NO) ELSE relays
  <2>1. /\ ctl' = [restart EXCEPT !.stage = stage]
        /\ info' = MonitorConnectedState(
                     [info EXCEPT !.CoolOrHeat = IF lost THEN NORUN ELSE demand], silence)
        /\ relays' = IF lost
                     THEN CtrlRelay(before, info.mode, NORUN, 1, NO)
                     ELSE CtrlRelay(before, info.mode, demand, stage, YES)
    BY <1>10 DEF Run
  <2>2. demand \in Demands
    BY DemandType
  <2>3. restart \in CtlType /\ restart.CoolOrHeat = demand /\ stage \in Stages
    BY <1>1, <1>4, <2>2, StageTypes
  <2>4. stage = 2 => restart.age > StageTime
    BY <1>1, <1>4, <2>2, StageAges
  <2>5. /\ before \in SUBSET RelayPins
        /\ demand = NORUN => CtrlRelay(before, info.mode, demand, stage, YES) = Off
        /\ info.mode \in WiringModes =>
             CtrlRelay(before, info.mode, demand, stage, YES) = Wiring(info.mode, demand, stage)
    BY <1>6, <2>2, <2>3, RunOutput, CtrlRelayPins
  <2> HIDE DEF demand, restart, stage, before
  <2>6. ctl'.stage = stage /\ ctl'.age = restart.age /\ ctl'.CoolOrHeat = demand
    BY <2>1, <2>3 DEF CtlType
  <2>7. CASE lost
    <3>1. info'.CoolOrHeat = NORUN
      BY <1>7, <1>8, <2>1, <2>7
    <3>2. relays' = Off
      BY <2>1, <2>5, <2>7, CtrlRelayStops
    <3>3. info.mode \notin WiringModes
      BY <2>7 DEF WiringModes, MODULE_SLAVE, MODE_1_CONVENTIONAL, MODE_2_0, MODE_3_B
    <3>4. QED
      BY <2>4, <2>6, <3>1, <3>2, <3>3 DEF StageIsAged
  <2>8. CASE ~lost
    <3>1. info'.CoolOrHeat = demand
      BY <1>7, <2>1, <2>2, <2>8
    <3>2. relays' = CtrlRelay(before, info.mode, demand, stage, YES)
      BY <2>1, <2>8
    <3>3. QED
      BY <2>4, <2>5, <2>6, <3>1, <3>2 DEF StageIsAged
  <2>9. QED
    BY <2>7, <2>8
<1>11. CASE NoData(t, p, silence) \/ Disabled(t, p, silence)
  <2>1. \A m : Wiring(m, NORUN, ctl'.stage) = Off
    BY DEF Wiring
  <2>2. IdleMeansReleased' /\ OutputFollowsDemand' /\ DemandIsTimed' /\ ReleasedAtBoot'
    BY <1>5, <1>9, <1>11, <2>1
       DEF IdleMeansReleased, OutputFollowsDemand, DemandIsTimed, ReleasedAtBoot
  <2>3. QED
    BY <1>2, <1>9, <1>11, <2>2 DEF ControlInv
<1>12. CASE Run(t, p, silence)
  <2>1. IdleMeansReleased' /\ OutputFollowsDemand' /\ DemandIsTimed' /\ ReleasedAtBoot'
    BY <1>5, <1>10, <1>12
       DEF IdleMeansReleased, OutputFollowsDemand, DemandIsTimed, ReleasedAtBoot
  <2>2. QED
    BY <1>2, <1>10, <1>12, <2>1 DEF ControlInv
<1>13. QED
  BY <1>5, <1>11, <1>12 DEF ControlProgram

\* Frames, keys and stuttering keep the invariant.
LEMMA NextInv == ControlInv /\ [Next]_vars => ControlInv'
<1> SUFFICES ASSUME ControlInv, [Next]_vars PROVE ControlInv'
  OBVIOUS
<1>1. CASE Second
  BY <1>1, SecondInv
<1>2. CASE Environment
  <2>1. TypeOK
    BY DEF ControlInv
  <2>2. TypeOK' /\ info'.CoolOrHeat = info.CoolOrHeat
        /\ UNCHANGED <<ctl, local, started, relays>>
    BY <1>2, <2>1, EnvironmentStep
  <2>3. QED
    BY <2>2 DEF ControlInv, IdleMeansReleased, OutputFollowsDemand, StageIsAged,
                DemandIsTimed, ReleasedAtBoot
<1>3. CASE UNCHANGED vars
  BY <1>3 DEF vars, ControlInv, TypeOK, IdleMeansReleased, OutputFollowsDemand,
              StageIsAged, DemandIsTimed, ReleasedAtBoot
<1>4. QED
  BY <1>1, <1>2, <1>3 DEF Next

\* The inductive invariant holds in every reachable state of the controller.
THEOREM InvariantHolds == Spec => []ControlInv
BY InitInv, NextInv, PTL DEF Spec

(***************************************************************************)
(* Type correctness: no register write, key or reading takes a field of    *)
(* gInfo, the command, the statics of ControlProgram or the relays outside *)
(* its range.                                                              *)
(***************************************************************************)
THEOREM TypeCorrect == Spec => []TypeOK
<1>1. ControlInv => TypeOK
  BY DEF ControlInv
<1>2. QED
  BY <1>1, InvariantHolds, PTL

(***************************************************************************)
(* On every path on which ControlProgram reports NORUN the relays are      *)
(* released, for every wiring mode the host may write.                     *)
(***************************************************************************)
THEOREM IdleIsReleased == Spec => []IdleMeansReleased
<1>1. ControlInv => IdleMeansReleased
  BY DEF ControlInv
<1>2. QED
  BY <1>1, InvariantHolds, PTL

(***************************************************************************)
(* The outputs CtrlRelay leaves are those of the requirements for the mode,*)
(* the reported demand and the stage, whatever was energised before.       *)
(***************************************************************************)
THEOREM OutputIsWiring == Spec => []OutputFollowsDemand
<1>1. ControlInv => OutputFollowsDemand
  BY DEF ControlInv
<1>2. QED
  BY <1>1, InvariantHolds, PTL

(***************************************************************************)
(* ControlProgram energises Y2 or W2 only for a demand that has been timed *)
(* for more than StageTime seconds.                                        *)
(***************************************************************************)
THEOREM SecondStageEarned == Spec => []SecondStageIsEarned
<1>1. ControlInv => SecondStageIsEarned
  <2> SUFFICES ASSUME ControlInv, SecondStage(relays), local.mode \in WiringModes
               PROVE  ctl.age > StageTime /\ info.CoolOrHeat = ctl.CoolOrHeat
    BY DEF SecondStageIsEarned
  <2>1. started
    BY DEF ControlInv, ReleasedAtBoot, SecondStage, Off, TypeOK
  <2>2. relays = Wiring(local.mode, info.CoolOrHeat, ctl.stage)
    BY <2>1 DEF ControlInv, OutputFollowsDemand
  <2>3. info.CoolOrHeat \in Demands /\ ctl.stage \in Stages
    BY DEF ControlInv, TypeOK, InfoType, CtlType
  <2>4. ctl.stage = 2 /\ info.CoolOrHeat # NORUN
    BY <2>2, <2>3, WiringSecondStage
  <2>5. QED
    BY <2>1, <2>4 DEF ControlInv, StageIsAged, DemandIsTimed
<1>2. QED
  BY <1>1, InvariantHolds, PTL

-----------------------------------------------------------------------------
(* The dead band.                                                          *)

\* The comparison with the dead band never asks to leave the set point.
LEMMA DemandSound ==
    ASSUME NEW t \in Int, NEW p \in Int, NEW db \in 0..255, p >= 0
    PROVE  /\ Demand(t, p, db) = COOLING => t > p
           /\ Demand(t, p, db) = HEATING => t < p
BY DEF Demand, COOLING, HEATING, NORUN

(***************************************************************************)
(* ControlProgram cools only above and heats only below a set point that is*)
(* not negative, for every dead band the register can hold.                *)
(***************************************************************************)
THEOREM DrivesTowardsSetPoint == Spec => []NeverDrivesAway
<1>1. Init => NeverDrivesAway
  BY DEF Init, NeverDrivesAway
<1>2. TypeOK /\ NeverDrivesAway /\ [Next]_vars => NeverDrivesAway'
  <2> SUFFICES ASSUME TypeOK, NeverDrivesAway, [Next]_vars PROVE NeverDrivesAway'
    OBVIOUS
  <2>1. CASE Second
    <3>1. PICK first \in NtcValues, second \in NtcValues, now \in Clocks :
            LET temperature == GetTempValue(first, second)
                point       == GetSetPoint(now)
                silence     == Later(link.silence, TIMEOUT)
            IN  /\ ControlProgram(temperature, point, silence)
                /\ local' = [temperature |-> temperature, point |-> point,
                             mode |-> info.mode]
      BY <2>1 DEF Second
    <3> DEFINE t == GetTempValue(first, second)
               p == GetSetPoint(now)
               silence == Later(link.silence, TIMEOUT)
    <3>2. t \in Int /\ p \in Int
      BY InputTypes
    <3>3. ControlProgram(t, p, silence) /\ local'.temperature = t /\ local'.point = p
      BY <3>1
    <3> HIDE DEF t, p, silence
    <3>4. info \in InfoType /\ info.deadBand \in 0..255
      BY DEF TypeOK, InfoType
    <3>5. info'.CoolOrHeat \in {NORUN, Demand(t, p, info.deadBand)}
      <4>1. \A d \in Demands :
              MonitorConnectedState([info EXCEPT !.CoolOrHeat = d], silence).CoolOrHeat = d
        <5>1. \A d \in Demands : /\ [info EXCEPT !.CoolOrHeat = d] \in InfoType
                                 /\ [info EXCEPT !.CoolOrHeat = d].CoolOrHeat = d
          BY <3>4 DEF InfoType
        <5>2. QED
          BY <5>1, MonitorTypes
      <4>2. NORUN \in Demands /\ Demand(t, p, info.deadBand) \in Demands
        BY DemandType DEF Demands
      <4>3. \E d \in {NORUN, Demand(t, p, info.deadBand)} :
              info' = MonitorConnectedState([info EXCEPT !.CoolOrHeat = d], silence)
        BY <3>3 DEF ControlProgram, NoData, Disabled, Run
      <4>4. QED
        BY <4>1, <4>2, <4>3
    <3>6. NORUN # COOLING /\ NORUN # HEATING
      BY DEF NORUN, COOLING, HEATING
    <3>7. p >= 0 => /\ Demand(t, p, info.deadBand) = COOLING => t > p
                    /\ Demand(t, p, info.deadBand) = HEATING => t < p
      BY <3>2, <3>4, DemandSound
    <3>8. p >= 0 => /\ info'.CoolOrHeat = COOLING => t > p
                    /\ info'.CoolOrHeat = HEATING => t < p
      BY <3>5, <3>6, <3>7, Zenon
    <3>9. QED
      BY <3>3, <3>8 DEF NeverDrivesAway
  <2>2. CASE Environment
    BY <2>2, EnvironmentStep DEF NeverDrivesAway
  <2>3. CASE UNCHANGED vars
    BY <2>3 DEF vars, NeverDrivesAway
  <2>4. QED
    BY <2>1, <2>2, <2>3 DEF Next
<1>3. QED
  BY <1>1, <1>2, TypeCorrect, PTL DEF Spec

-----------------------------------------------------------------------------
(***************************************************************************)
(* Proofs about RelayDrive: what the relays are between two calls of       *)
(* CtrlRelay and what they may do during one, for every interleaving of the*)
(* main thread with the uart thread and every value of the inputs.         *)
(***************************************************************************)

(* The invariant.                                                          *)

\* The outputs a call under way leaves behind.
Target == (relays \cup call.yes) \ call.no

CallType ==
    [yes : SUBSET RelayPins, no : SUBSET RelayPins, heating : BOOLEAN,
     then : {"idle", "monitor", "link"}, mode : 0..255,
     moved : SUBSET RelayPins]

CmdType == [left : SUBSET CommandFields, new : ActionType]

DriveTypes == TypeOK /\ call \in CallType /\ cmd \in CmdType

\* A call under way writes each pin once, and is on its way to the row of the
\* table for the mode it read, or to releasing everything.
CallIsHeading ==
    mpc = "drive" =>
        /\ call.yes \cap call.no = {}
        /\ call.then \in {"monitor", "link"}
        /\ call.then = "monitor" /\ call.mode \in WiringModes =>
                Target = Wiring(call.mode, info.CoolOrHeat, ctl.stage)
        /\ call.then = "link" => Target = Off /\ info.CoolOrHeat = NORUN

\* The second call is reached without a demand only with the relays released.
IdleIsOff == mpc = "link" /\ info.CoolOrHeat = NORUN => relays = Off

\* Nothing was switched in this block before a call that may switch
\* something, and a pin still to be switched by a call was not switched before.
MovesOnce ==
    /\ mpc \in {"idle", "temp", "type", "point", "mode", "decide"}
         => call.moved = {}
    /\ mpc = "link" /\ info.CoolOrHeat # NORUN => call.moved = {}
    /\ mpc = "drive" =>
         ((call.yes \ relays) \cup (call.no \cap relays)) \cap call.moved = {}

DriveInv ==
    /\ DriveTypes
    /\ CallIsHeading
    /\ IdleIsOff
    /\ CallIsOneRow
    /\ MovesOnce

\* What every step but those of the calls leaves alone.
Quiet == /\ relays' = relays /\ call' = call /\ ctl' = ctl
         /\ started' = started /\ mpc' = mpc
         /\ info'.CoolOrHeat = info.CoolOrHeat

-----------------------------------------------------------------------------
(* Lemmas.                                                                 *)

\* A step that touches neither the relays, nor the call, nor what is reported
\* keeps the parts of the invariant that are about them.
LEMMA QuietKeeps ==
    ASSUME DriveInv, Quiet, DriveTypes'
    PROVE  DriveInv'
BY DEF DriveInv, Quiet, CallIsHeading, IdleIsOff, CallIsOneRow, MovesOnce, Target

\* A step of the main thread to a point where nothing is promised.
LEMMA BeforeDecision ==
    ASSUME DriveTypes', mpc' \in {"temp", "type", "point", "mode", "decide"},
           call'.moved = {}
    PROVE  DriveInv'
BY DEF DriveInv, CallIsHeading, IdleIsOff, CallIsOneRow, MovesOnce

\* CtrlRelay(NORUN, 1, NO) is on its way to releasing every relay.
LEMMA CallNoHeads ==
    ASSUME DriveTypes, DriveTypes', NEW then \in {"monitor", "link"},
           CallNo(then), relays' = relays, info'.CoolOrHeat = NORUN,
           relays \cap call.moved = {}
    PROVE  DriveInv'
<1>1. /\ call'.yes = {} /\ call'.no = RelayPins /\ call'.then = then
      /\ call'.moved = call.moved /\ mpc' = "drive"
  BY DEF CallNo
<1>2. Target' = Off
  BY <1>1 DEF Target, DriveTypes, TypeOK, Off
<1>3. CallIsHeading'
  BY <1>1, <1>2 DEF CallIsHeading, Wiring
<1>4. MovesOnce'
  BY <1>1 DEF MovesOnce
<1> QED
  BY <1>1, <1>3, <1>4 DEF DriveInv, IdleIsOff, CallIsOneRow

\* CtrlRelay(coolOrHeat, stage, YES) is on its way to the row of the table.
LEMMA CallYesHeads ==
    ASSUME DriveTypes, DriveTypes', IdleIsOff, MovesOnce, mpc = "link",
           CallYes(info.CoolOrHeat, ctl.stage, "monitor"),
           relays' = relays, info' = info, ctl' = ctl
    PROVE  DriveInv'
<1> DEFINE y == WritesYes(info.mode, info.CoolOrHeat, ctl.stage)
           n == WritesNo(info.mode, info.CoolOrHeat, ctl.stage)
<1>1. /\ call'.yes = y /\ call'.no = n /\ call'.then = "monitor"
      /\ call'.moved = call.moved /\ call'.mode = info.mode /\ mpc' = "drive"
  BY DEF CallYes
<1>2. info.CoolOrHeat \in Demands /\ ctl.stage \in Stages
      /\ relays \in SUBSET RelayPins
  BY DEF DriveTypes, TypeOK, InfoType, CtlType
<1>3. y \cap n = {}
  BY <1>2 DEF WritesYes, WritesNo, Demands, Stages, NORUN, COOLING, HEATING
<1>4. ASSUME info.mode \in WiringModes
      PROVE  (relays \cup y) \ n = Wiring(info.mode, info.CoolOrHeat, ctl.stage)
  <2>1. CASE info.CoolOrHeat = NORUN
    <3>1. y = {} /\ n = {}
      BY <2>1 DEF WritesYes, WritesNo, NORUN, COOLING, HEATING
    <3> QED
      BY <2>1, <3>1 DEF IdleIsOff, Wiring, Off
  <2>2. CASE info.CoolOrHeat \in {COOLING, HEATING}
    <3>0. CtrlRelay(relays, info.mode, info.CoolOrHeat, ctl.stage, YES)
            = Wiring(info.mode, info.CoolOrHeat, ctl.stage)
      BY <1>2, <1>4, <2>2, CtrlRelayIsWiring, Zenon
    <3>1. (relays \ n) \cup y = Wiring(info.mode, info.CoolOrHeat, ctl.stage)
      BY <3>0, Zenon DEF CtrlRelay
    <3>2. (relays \ n) \cup y = (relays \cup y) \ n
      BY <1>3
    <3> QED
      BY <3>1, <3>2
  <2> QED
    BY <1>2, <2>1, <2>2 DEF Demands
<1>5. CallIsHeading'
  BY <1>1, <1>3, <1>4 DEF CallIsHeading, Target
<1>6. MovesOnce'
  <2>1. CASE info.CoolOrHeat = NORUN
    <3>1. y = {} /\ n = {}
      BY <2>1 DEF WritesYes, WritesNo, NORUN, COOLING, HEATING
    <3> QED
      BY <1>1, <3>1 DEF MovesOnce
  <2>2. CASE info.CoolOrHeat # NORUN
    BY <1>1, <2>2 DEF MovesOnce
  <2> QED
    BY <2>1, <2>2
<1> QED
  BY <1>1, <1>5, <1>6 DEF DriveInv, IdleIsOff, CallIsOneRow

\* One pin written, or the return: the target stays, and the pin is done.
LEMMA DriveStep ==
    ASSUME DriveInv, Drive, DriveTypes'
    PROVE  DriveInv'
<1>0. /\ info' = info /\ ctl' = ctl /\ started' = started /\ mpc = "drive"
      /\ call \in CallType /\ relays \in SUBSET RelayPins
  BY DEF Drive, DriveInv, DriveTypes, TypeOK
<1>1. /\ call.yes \cap call.no = {} /\ call.then \in {"monitor", "link"}
      /\ call.then = "monitor" /\ call.mode \in WiringModes =>
                Target = Wiring(call.mode, info.CoolOrHeat, ctl.stage)
      /\ call.then = "link" => Target = Off /\ info.CoolOrHeat = NORUN
  BY <1>0 DEF DriveInv, CallIsHeading
<1>2. ((call.yes \ relays) \cup (call.no \cap relays)) \cap call.moved = {}
  BY <1>0 DEF DriveInv, MovesOnce
<1>3. ASSUME NEW pin \in call.yes, relays' = relays \cup {pin},
             call' = [call EXCEPT !.yes = @ \ {pin},
                                  !.moved = @ \cup ({pin} \ relays)], mpc' = mpc
      PROVE  DriveInv'
  <2>1. /\ call'.yes = call.yes \ {pin} /\ call'.no = call.no
        /\ call'.then = call.then /\ call'.mode = call.mode
        /\ call'.moved = call.moved \cup ({pin} \ relays)
    BY <1>0, <1>3 DEF CallType
  <2>2. Target' = Target /\ pin \in Target
    BY <1>1, <1>3, <2>1 DEF Target
  <2>3. CallIsHeading'
    BY <1>0, <1>1, <2>1, <2>2 DEF CallIsHeading
  <2>4. MovesOnce'
    BY <1>0, <1>1, <1>2, <1>3, <2>1 DEF MovesOnce
  <2> QED
    BY <1>0, <1>3, <2>3, <2>4 DEF DriveInv, IdleIsOff, CallIsOneRow
<1>4. ASSUME NEW pin \in call.no, call.yes = {}, relays' = relays \ {pin},
             call' = [call EXCEPT !.no = @ \ {pin},
                                  !.moved = @ \cup ({pin} \cap relays)],
             mpc' = mpc
      PROVE  DriveInv'
  <2>1. /\ call'.yes = call.yes /\ call'.no = call.no \ {pin}
        /\ call'.then = call.then /\ call'.mode = call.mode
        /\ call'.moved = call.moved \cup ({pin} \cap relays)
    BY <1>0, <1>4 DEF CallType
  <2>2. Target' = Target /\ pin \notin Target
    BY <1>4, <2>1 DEF Target
  <2>3. CallIsHeading'
    BY <1>0, <1>1, <2>1, <2>2, <1>4 DEF CallIsHeading
  <2>4. MovesOnce'
    BY <1>0, <1>2, <1>4, <2>1 DEF MovesOnce
  <2> QED
    BY <1>0, <1>4, <2>3, <2>4 DEF DriveInv, IdleIsOff, CallIsOneRow
<1>5. ASSUME call.yes = {}, call.no = {}, mpc' = call.then,
             call' = Returned(call.mode, call.moved), relays' = relays
      PROVE  DriveInv'
  <2>1. Target = relays /\ call'.mode = call.mode /\ mpc' # "drive"
    BY <1>1, <1>5 DEF Target, Returned
  <2>2. CallIsOneRow' /\ IdleIsOff'
    BY <1>0, <1>1, <1>5, <2>1 DEF CallIsOneRow, IdleIsOff
  <2> QED
    BY <1>0, <1>1, <1>5, <2>1, <2>2 DEF DriveInv, CallIsHeading, MovesOnce
<1> QED
  BY <1>3, <1>4, <1>5 DEF Drive

-----------------------------------------------------------------------------
(* Types.                                                                  *)

\* The main thread, before and after the calls, and its decisions.
LEMMA MainTypes ==
    ASSUME DriveTypes, MainThread
    PROVE  DriveTypes'
<1>0. /\ TypeOK /\ info \in InfoType /\ ctl \in CtlType /\ local \in LocalType
      /\ link \in LinkType /\ relays \in SUBSET RelayPins
      /\ call \in CallType /\ cmd \in CmdType
  BY DEF DriveTypes, TypeOK
<1>norun. [info EXCEPT !.CoolOrHeat = NORUN] \in InfoType
  BY <1>0 DEF InfoType, Demands
<1>no. ASSUME NEW then \in {"monitor", "link"}, CallNo(then)
       PROVE  call' \in CallType
  BY <1>0, <1>no DEF CallNo, CallType
<1>yes. ASSUME NEW d, NEW s, CallYes(d, s, "monitor")
        PROVE  call' \in CallType
  <2>1. /\ WritesYes(info.mode, d, s) \in SUBSET RelayPins
        /\ WritesNo(info.mode, d, s) \in SUBSET RelayPins
    BY DEF WritesYes, WritesNo, RelayPins
  <2>2. info.mode \in 0..255
    BY <1>0 DEF InfoType
  <2> QED
    BY <1>0, <1>yes, <2>1, <2>2 DEF CallYes, CallType
<1>1. CASE Wake
  <2>1. link' \in LinkType
    <3>1. link.silence \in 0..(TIMEOUT + 1)
      BY <1>0 DEF LinkType
    <3>2. Later(link.silence, TIMEOUT) \in 0..(TIMEOUT + 1)
      BY <3>1, LaterBound, LimitsAssumption
    <3> QED
      BY <1>0, <1>1, <3>2 DEF Wake, LinkType
  <2> QED
    BY <1>0, <1>1, <2>1 DEF Wake, DriveTypes, TypeOK
<1>2. CASE ReadTemp
  <2>1. PICK first \in NtcValues, second \in NtcValues :
             local' = [local EXCEPT !.temperature = GetTempValue(first, second)]
    BY <1>2 DEF ReadTemp
  <2>2. GetTempValue(first, second) \in Int
    BY <1>0, InputTypes
  <2>3. local' \in LocalType
    BY <1>0, <2>1, <2>2 DEF LocalType
  <2> QED
    BY <1>0, <1>2, <2>3 DEF ReadTemp, DriveTypes, TypeOK
<1>3. CASE ReadType
  <2>1. \A now : GetSetPoint(now) \in Int
    <3>1. info.daySetPoint \in Int /\ info.nightSetPoint \in Int
      BY <1>0 DEF InfoType, Int16
    <3>2. action.setPoint \in Int /\ VALUE_NULL \in Int
      BY <1>0, CommandTypes DEF VALUE_NULL
    <3> QED
      BY <3>1, <3>2 DEF GetSetPoint, ScheduledPoint
  <2>2. local' \in LocalType
    BY <1>0, <1>3, <2>1 DEF ReadType, LocalType
  <2> QED
    BY <1>0, <1>3, <2>2 DEF ReadType, DriveTypes, TypeOK
<1>4. CASE ReadPoint
  <2>1. action.setPoint \in Int
    BY <1>0, CommandTypes
  <2>2. local' \in LocalType
    BY <1>0, <1>4, <2>1 DEF ReadPoint, LocalType
  <2> QED
    BY <1>0, <1>4, <2>2 DEF ReadPoint, DriveTypes, TypeOK
<1>5. CASE ReadMode
  <2>1. local' \in LocalType
    BY <1>0, <1>5 DEF ReadMode, LocalType, InfoType
  <2> QED
    BY <1>0, <1>5, <2>1 DEF ReadMode, DriveTypes, TypeOK
<1>6. CASE DecideStop
  <2>1. ctl' \in CtlType
    <3>1. ctl.age \in 0..(StageTime + 1)
      BY <1>0 DEF CtlType
    <3>2. Later(ctl.age, StageTime) \in 0..(StageTime + 1)
      BY <3>1, LaterBound, LimitsAssumption
    <3> QED
      BY <1>0, <1>6, <3>2 DEF DecideStop, CtlType
  <2>2. call' \in CallType
    BY <1>6, <1>no DEF DecideStop
  <2> QED
    BY <1>0, <1>6, <1>norun, <2>1, <2>2 DEF DecideStop, DriveTypes, TypeOK
<1>7. CASE DecideRun
  <2> DEFINE demand  == Demand(local.temperature, local.point, info.deadBand)
             restart == Restart(demand, local.temperature)
  <2>1. demand \in Demands /\ local.temperature \in Int
    BY <1>0, DemandType DEF LocalType
  <2>2. restart \in CtlType /\ NextStage(restart, local.temperature) \in Stages
    BY <1>0, <2>1, StageTypes
  <2>3. ctl' \in CtlType
    <3>1. ctl' = [restart EXCEPT !.stage = NextStage(restart, local.temperature)]
      BY <1>7 DEF DecideRun
    <3> HIDE DEF restart
    <3> QED
      BY <2>2, <3>1 DEF CtlType
  <2>4. info' \in InfoType
    <3>1. info' = [info EXCEPT !.CoolOrHeat = demand]
      BY <1>7 DEF DecideRun
    <3> HIDE DEF demand
    <3> QED
      BY <1>0, <2>1, <3>1 DEF InfoType
  <2>5. call' \in CallType
    <3>1. CallNo("link") \/ call' = call
      BY <1>7 DEF DecideRun
    <3> QED
      BY <1>0, <1>no, <3>1
  <2>6. UNCHANGED <<sensorTemp, action, local, link, started, relays, cmd>>
    BY <1>7 DEF DecideRun
  <2> QED
    BY <1>0, <2>3, <2>4, <2>5, <2>6 DEF DriveTypes, TypeOK
<1>8. CASE Output
  <2>1. call' \in CallType
    BY <1>8, <1>no, <1>yes DEF Output
  <2>2. info' \in InfoType
    BY <1>0, <1>8, <1>norun DEF Output
  <2> QED
    BY <1>0, <1>8, <2>1, <2>2 DEF Output, DriveTypes, TypeOK
<1>9. CASE Drive
  <2>1. call' \in CallType
    <3>1. \/ \E pin \in call.yes :
               call' = [call EXCEPT !.yes = @ \ {pin},
                                    !.moved = @ \cup ({pin} \ relays)]
          \/ \E pin \in call.no :
               call' = [call EXCEPT !.no = @ \ {pin},
                                    !.moved = @ \cup ({pin} \cap relays)]
          \/ call' = Returned(call.mode, call.moved)
      BY <1>9, Zenon DEF Drive
    <3>2. Returned(call.mode, call.moved) \in CallType
      BY <1>0 DEF CallType, Returned
    <3>3. /\ \A pin \in call.yes :
                [call EXCEPT !.yes = @ \ {pin},
                             !.moved = @ \cup ({pin} \ relays)] \in CallType
          /\ \A pin \in call.no :
                [call EXCEPT !.no = @ \ {pin},
                             !.moved = @ \cup ({pin} \cap relays)] \in CallType
      BY <1>0 DEF CallType
    <3> QED
      BY <3>1, <3>2, <3>3, Zenon
  <2>2. relays' \in SUBSET RelayPins
    <3>1. \/ \E pin \in call.yes : relays' = relays \cup {pin}
          \/ \E pin \in call.no : relays' = relays \ {pin}
          \/ relays' = relays
      BY <1>9, Zenon DEF Drive
    <3> QED
      BY <1>0, <3>1 DEF CallType
  <2> QED
    BY <1>0, <1>9, <2>1, <2>2 DEF Drive, DriveTypes, TypeOK
<1>10. CASE Monitor
  <2>1. info' \in InfoType
    BY <1>0, <1>10, MonitorTypes DEF Monitor
  <2>2. call' \in CallType
    BY <1>0, <1>10 DEF Monitor, CallType
  <2> QED
    BY <1>0, <1>10, <2>1, <2>2 DEF Monitor, DriveTypes, TypeOK
<1> QED
  BY <1>1, <1>2, <1>3, <1>4, <1>5, <1>6, <1>7, <1>8, <1>9, <1>10 DEF MainThread

\* The uart thread and the panel touch neither the relays nor the call.
LEMMA OtherThreads ==
    ASSUME DriveTypes, BeginCtrl \/ StoreField \/ Frame \/ Keys
    PROVE  DriveTypes' /\ Quiet
<1>0. /\ TypeOK /\ action \in ActionType /\ link \in LinkType /\ cmd \in CmdType
      /\ started \in BOOLEAN
  BY DEF DriveTypes, TypeOK
<1>1. CASE BeginCtrl
  <2>1. PICK v \in CtrlRegs :
           cmd' = [left |-> CommandFields,
                   new |-> [en |-> v \div 32768, type |-> (v \div 256) % 16,
                            setPoint |-> ToU8(v) * 10]]
    BY <1>1 DEF BeginCtrl
  <2>2. v \in UInt16
    BY RegisterAssumption
  <2>3. cmd' \in CmdType
    BY <2>1, <2>2, ConversionTypes DEF CmdType, ActionType
  <2> QED
    BY <1>0, <1>1, <2>3 DEF BeginCtrl, vars, DriveTypes, TypeOK, Quiet
<1>2. CASE StoreField
  <2>1. PICK f \in cmd.left :
         /\ action' = [action EXCEPT ![f] = cmd.new[f]]
         /\ cmd' = [cmd EXCEPT !.left = @ \ {f}]
         /\ IF cmd.left = {f} THEN SetLastConnectTime ELSE UNCHANGED link
    BY <1>2 DEF StoreField
  <2>2. cmd' \in CmdType
    BY <1>0, <2>1 DEF CmdType
  <2>3. f \in CommandFields /\ cmd.new \in ActionType
    BY <1>0, <2>1 DEF CmdType
  <2>4. action' \in ActionType
    <3> DEFINE Points == 0..2550 \cup {VALUE_NULL}
               Types  == 0..15
               Flags  == {NO, YES}
    <3>0. ActionType = [en : Flags, type : Types, setPoint : Points]
      BY DEF ActionType
    <3> HIDE DEF Points, Types, Flags
    <3>1. CASE f = "en"
      <4>1. action' = [action EXCEPT !.en = cmd.new.en]
        BY <2>1, <3>1, Zenon
      <4> QED
        BY <1>0, <2>3, <3>0, <4>1
    <3>2. CASE f = "type"
      <4>1. action' = [action EXCEPT !.type = cmd.new.type]
        BY <2>1, <3>2, Zenon
      <4> QED
        BY <1>0, <2>3, <3>0, <4>1
    <3>3. CASE f = "setPoint"
      <4>1. action' = [action EXCEPT !.setPoint = cmd.new.setPoint]
        BY <2>1, <3>3, Zenon
      <4> QED
        BY <1>0, <2>3, <3>0, <4>1
    <3> QED
      BY <2>3, <3>1, <3>2, <3>3 DEF CommandFields
  <2>5. link' \in LinkType
    BY <1>0, <2>1, LimitsAssumption DEF SetLastConnectTime, LinkType
  <2> QED
    BY <1>0, <1>2, <2>2, <2>4, <2>5 DEF StoreField, DriveTypes, TypeOK, Quiet
<1>3. CASE Frame \/ Keys
  <2>1. Environment /\ UNCHANGED <<mpc, call, cmd>>
    BY <1>3, Zenon DEF Frame, Keys, Environment
  <2> QED
    BY <1>0, <2>1, EnvironmentStep DEF DriveTypes, Quiet
<1> QED
  BY <1>1, <1>2, <1>3

-----------------------------------------------------------------------------
\* The first instruction of the program.
LEMMA DriveInit == DInit => DriveInv
<1> SUFFICES ASSUME DInit PROVE DriveInv
  OBVIOUS
<1>1. TypeOK /\ ~started /\ relays = Off /\ mpc = "idle" /\ action \in ActionType
  BY InitInv DEF DInit, ControlInv, Init, TypeOK
<1>2. call \in CallType /\ call.moved = {}
  BY DEF DInit, Returned, CallType, MODE_1_CONVENTIONAL
<1>3. cmd \in CmdType
  BY <1>1 DEF DInit, CmdType
<1> QED
  BY <1>1, <1>2, <1>3
     DEF DriveInv, DriveTypes, CallIsHeading, IdleIsOff, CallIsOneRow, MovesOnce

\* Every step keeps the invariant.
LEMMA DriveNext == DriveInv /\ [DNext]_dvars => DriveInv'
<1> SUFFICES ASSUME DriveInv, [DNext]_dvars PROVE DriveInv'
  OBVIOUS
<1>0. DriveTypes
  BY DEF DriveInv
<1>1. CASE UNCHANGED dvars
  <2>1. DriveTypes' /\ Quiet
    BY <1>0, <1>1 DEF dvars, vars, DriveTypes, TypeOK, Quiet
  <2> QED
    BY <2>1, QuietKeeps
<1>2. CASE BeginCtrl \/ StoreField \/ Frame \/ Keys
  BY <1>0, <1>2, OtherThreads, QuietKeeps
<1>3. CASE MainThread
  <2>0. DriveTypes'
    BY <1>0, <1>3, MainTypes
  <2>1. CASE Wake \/ ReadTemp \/ ReadType \/ ReadPoint \/ ReadMode
    <3>1. /\ mpc' \in {"temp", "type", "point", "mode", "decide"}
          /\ mpc \in {"idle", "temp", "type", "point", "mode"} /\ call' = call
      BY <2>1 DEF Wake, ReadTemp, ReadType, ReadPoint, ReadMode
    <3>2. call'.moved = {}
      BY <3>1 DEF DriveInv, MovesOnce
    <3> QED
      BY <2>0, <3>1, <3>2, BeforeDecision
  <2>2. CASE DecideStop
    <3>1. CallNo("monitor") /\ relays' = relays /\ info'.CoolOrHeat = NORUN
      BY <1>0, <2>2 DEF DecideStop, DriveTypes, TypeOK, InfoType
    <3>2. call.moved = {}
      BY <2>2 DEF DecideStop, DriveInv, MovesOnce
    <3> QED
      BY <1>0, <2>0, <3>1, <3>2, CallNoHeads
  <2>3. CASE DecideRun
    <3> DEFINE demand == Demand(local.temperature, local.point, info.deadBand)
    <3>1. /\ relays' = relays /\ info' = [info EXCEPT !.CoolOrHeat = demand]
          /\ IF demand = NORUN THEN CallNo("link")
             ELSE mpc' = "link" /\ call' = call
      BY <2>3 DEF DecideRun
    <3>2. info'.CoolOrHeat = demand
      BY <1>0, <3>1 DEF DriveTypes, TypeOK, InfoType
    <3>3. call.moved = {}
      BY <2>3 DEF DecideRun, DriveInv, MovesOnce
    <3> HIDE DEF demand
    <3>4. CASE demand = NORUN
      BY <1>0, <2>0, <3>1, <3>2, <3>3, <3>4, CallNoHeads
    <3>5. CASE demand # NORUN
      BY <2>0, <3>1, <3>2, <3>3, <3>5
         DEF DriveInv, CallIsHeading, IdleIsOff, CallIsOneRow, MovesOnce
    <3> QED
      BY <3>4, <3>5
  <2>4. CASE Output
    <3>1. CASE info.connected = NO /\ local.mode = MODULE_SLAVE
      <4>1. CallNo("monitor") /\ relays' = relays /\ info'.CoolOrHeat = NORUN
        BY <1>0, <2>4, <3>1 DEF Output, DriveTypes, TypeOK, InfoType
      <4>2. relays \cap call.moved = {}
        BY <2>4 DEF Output, DriveInv, IdleIsOff, MovesOnce, Off
      <4> QED
        BY <1>0, <2>0, <4>1, <4>2, CallNoHeads
    <3>2. CASE ~(info.connected = NO /\ local.mode = MODULE_SLAVE)
      <4>1. /\ CallYes(info.CoolOrHeat, ctl.stage, "monitor") /\ mpc = "link"
            /\ relays' = relays /\ info' = info /\ ctl' = ctl
        BY <2>4, <3>2 DEF Output
      <4> QED
        BY <1>0, <2>0, <4>1, CallYesHeads DEF DriveInv
    <3> QED
      BY <3>1, <3>2
  <2>5. CASE Drive
    BY <2>0, <2>5, DriveStep
  <2>6. CASE Monitor
    <3>1. /\ mpc = "monitor" /\ mpc' = "idle" /\ relays' = relays
          /\ ctl' = ctl /\ started' = started
          /\ call' = [call EXCEPT !.moved = {}]
      BY <2>6 DEF Monitor
    <3>2. info'.CoolOrHeat = info.CoolOrHeat
      BY <1>0, <2>6, MonitorTypes DEF Monitor, DriveTypes, TypeOK
    <3>3. call'.mode = call.mode /\ call'.moved = {}
      BY <1>0, <3>1 DEF DriveTypes, CallType
    <3> QED
      BY <2>0, <3>1, <3>2, <3>3
         DEF DriveInv, CallIsHeading, IdleIsOff, CallIsOneRow, MovesOnce
  <2> QED
    BY <1>3, <2>1, <2>2, <2>3, <2>4, <2>5, <2>6 DEF MainThread
<1> QED
  BY <1>1, <1>2, <1>3 DEF DNext

(***************************************************************************)
(* The invariant holds in every state: each call of CtrlRelay is on its way*)
(* to one row of the wiring table, whatever the uart thread does meanwhile.*)
(***************************************************************************)
THEOREM DriveInvariant == DSpec => []DriveInv
BY DriveInit, DriveNext, PTL DEF DSpec

(***************************************************************************)
(* Between two calls the outputs are one row of the wiring table, that of  *)
(* the mode CtrlRelay itself read, although info->mode may be written while*)
(* the pins are (ControlProgram, CtrlRelay).                               *)
(***************************************************************************)
THEOREM OutputsAreOneRow == DSpec => []CallIsOneRow
BY DriveInvariant, PTL DEF DriveInv

(***************************************************************************)
(* No relay is switched twice in one pass of ControlProgram, over both of  *)
(* the calls of CtrlRelay it may make and under every interleaving with the*)
(* uart thread.                                                            *)
(***************************************************************************)
THEOREM RelaysDoNotChatter == DSpec => NoChatter
<1> DEFINE Once == \A pin \in RelayPins :
                      (pin \in relays) # (pin \in relays') => pin \notin call.moved
<1>1. DriveInv /\ [DNext]_dvars => [Once]_dvars
  <2> SUFFICES ASSUME DriveInv, DNext PROVE Once
    OBVIOUS
  <2>0. DriveTypes
    BY DEF DriveInv
  <2>1. CASE relays' = relays
    BY <2>1
  <2>2. CASE Drive
    <3>1. ((call.yes \ relays) \cup (call.no \cap relays)) \cap call.moved = {}
      BY <2>2 DEF Drive, DriveInv, MovesOnce
    <3>2. \/ \E pin \in call.yes : relays' = relays \cup {pin}
          \/ \E pin \in call.no : relays' = relays \ {pin}
          \/ relays' = relays
      BY <2>2, Zenon DEF Drive
    <3>3. ASSUME NEW pin \in call.yes, relays' = relays \cup {pin} PROVE Once
      BY <3>1, <3>3
    <3>4. ASSUME NEW pin \in call.no, relays' = relays \ {pin} PROVE Once
      BY <3>1, <3>4
    <3> QED
      BY <2>1, <3>2, <3>3, <3>4
  <2>3. CASE BeginCtrl \/ StoreField \/ Frame \/ Keys
    BY <2>0, <2>1, <2>3, OtherThreads DEF Quiet
  <2>4. CASE Wake \/ ReadTemp \/ ReadType \/ ReadPoint \/ ReadMode
    BY <2>1, <2>4 DEF Wake, ReadTemp, ReadType, ReadPoint, ReadMode
  <2>5. CASE DecideStop \/ DecideRun \/ Output \/ Monitor
    BY <2>1, <2>5 DEF DecideStop, DecideRun, Output, Monitor
  <2> QED
    BY <2>2, <2>3, <2>4, <2>5 DEF DNext, MainThread
<1> QED
  BY <1>1, DriveInvariant, PTL DEF DSpec, NoChatter

-----------------------------------------------------------------------------
(***************************************************************************)
(* From the decision to the next time the inputs are read: the demand that *)
(* is reported is the one that is timed, and leads towards the set point   *)
(* that was read, if that is not negative.                                 *)
(***************************************************************************)
Decided == started /\ mpc \in {"link", "drive", "monitor", "idle"}

DecisionIsTimed ==
    Decided /\ info.CoolOrHeat # NORUN => ctl.CoolOrHeat = info.CoolOrHeat

DecisionIsSound ==
    Decided /\ local.point >= 0 =>
        /\ info.CoolOrHeat = COOLING => local.temperature > local.point
        /\ info.CoolOrHeat = HEATING => local.temperature < local.point

\* Before the first second nothing is energised.
RestsAtBoot == ~started => mpc = "idle" /\ relays = Off

DecisionInv == StageIsAged /\ DecisionIsTimed /\ DecisionIsSound /\ RestsAtBoot

\* What the other threads do not touch.
LEMMA OthersLeaveLocal ==
    ASSUME DriveTypes, BeginCtrl \/ StoreField \/ Frame \/ Keys
    PROVE  local' = local
<1>1. CASE BeginCtrl
  BY <1>1 DEF BeginCtrl, vars
<1>2. CASE StoreField
  BY <1>2 DEF StoreField
<1>3. CASE Frame \/ Keys
  <2>1. Environment
    BY <1>3, Zenon DEF Frame, Keys, Environment
  <2> QED
    BY <2>1, EnvironmentStep DEF DriveTypes
<1> QED
  BY <1>1, <1>2, <1>3

\* A step that leaves what was decided, or takes the demand back.
LEMMA DecisionStays ==
    ASSUME DecisionInv, local' = local, ctl' = ctl, started' = started, started,
           info'.CoolOrHeat \in {info.CoolOrHeat, NORUN}, Decided
    PROVE  DecisionInv'
<1>1. StageIsAged' /\ RestsAtBoot'
  BY DEF DecisionInv, StageIsAged, RestsAtBoot
<1>2. DecisionIsTimed'
  BY DEF DecisionInv, DecisionIsTimed
<1>3. DecisionIsSound'
  BY DEF DecisionInv, DecisionIsSound, NORUN, COOLING, HEATING
<1> QED
  BY <1>1, <1>2, <1>3 DEF DecisionInv

\* A new decision: what was read is compared once, and timed.
LEMMA DecideRunDecides ==
    ASSUME DriveInv, DecisionInv, DecideRun
    PROVE  DecisionInv'
<1> DEFINE t == local.temperature
           demand == Demand(t, local.point, info.deadBand)
           restart == Restart(demand, t)
<1>0. /\ info \in InfoType /\ ctl \in CtlType /\ TypeOK
      /\ t \in Int /\ local.point \in Int /\ info.deadBand \in 0..255
  BY DEF DriveInv, DriveTypes, TypeOK, InfoType, LocalType
<1>1. /\ demand \in Demands /\ restart \in CtlType
      /\ NextStage(restart, t) \in Stages
  BY <1>0, DemandType, StageTypes
<1>2. /\ info' = [info EXCEPT !.CoolOrHeat = demand] /\ local' = local
      /\ ctl' = [restart EXCEPT !.stage = NextStage(restart, t)]
      /\ started' = started /\ mpc = "decide"
  BY DEF DecideRun
<1>3. NextStage(restart, t) = 2 => restart.age > StageTime
  BY <1>0, <1>1, StageAges DEF DecisionInv
<1>4. restart.CoolOrHeat = demand
  BY <1>0 DEF Restart, CtlType
<1>5. local.point >= 0 => /\ demand = COOLING => t > local.point
                          /\ demand = HEATING => t < local.point
  BY <1>0, DemandSound
<1>6. started
  BY <1>2 DEF DecisionInv, RestsAtBoot
<1> HIDE DEF demand, restart
<1>7. info'.CoolOrHeat = demand
  BY <1>0, <1>2 DEF InfoType
<1>8. /\ ctl'.stage = NextStage(restart, t) /\ ctl'.age = restart.age
      /\ ctl'.CoolOrHeat = restart.CoolOrHeat
  BY <1>1, <1>2 DEF CtlType
<1>9. StageIsAged'
  BY <1>3, <1>8 DEF StageIsAged
<1>10. DecisionIsTimed'
  BY <1>4, <1>7, <1>8 DEF DecisionIsTimed
<1>11. DecisionIsSound'
  BY <1>2, <1>5, <1>7 DEF DecisionIsSound
<1>12. RestsAtBoot'
  BY <1>2, <1>6 DEF RestsAtBoot
<1> QED
  BY <1>9, <1>10, <1>11, <1>12 DEF DecisionInv

LEMMA DecisionNext == DriveInv /\ DecisionInv /\ [DNext]_dvars => DecisionInv'
<1> SUFFICES ASSUME DriveInv, DecisionInv, [DNext]_dvars PROVE DecisionInv'
  OBVIOUS
<1>0. /\ DriveTypes /\ TypeOK /\ info \in InfoType /\ ctl \in CtlType
  BY DEF DriveInv, DriveTypes, TypeOK
<1>1. CASE UNCHANGED dvars
  BY <1>1 DEF dvars, vars, DecisionInv, StageIsAged, DecisionIsTimed,
              DecisionIsSound, RestsAtBoot, Decided
<1>2. CASE BeginCtrl \/ StoreField \/ Frame \/ Keys
  <2>1. Quiet /\ local' = local
    BY <1>0, <1>2, OtherThreads, OthersLeaveLocal
  <2> QED
    BY <2>1 DEF Quiet, DecisionInv, StageIsAged, DecisionIsTimed,
                DecisionIsSound, RestsAtBoot, Decided
<1>3. CASE Wake \/ ReadTemp \/ ReadType \/ ReadPoint \/ ReadMode
  <2>1. /\ ctl' = ctl /\ started'
        /\ mpc' \in {"temp", "type", "point", "mode", "decide"}
    BY <1>3 DEF Wake, ReadTemp, ReadType, ReadPoint, ReadMode, DecisionInv,
                RestsAtBoot
  <2> QED
    BY <2>1 DEF DecisionInv, StageIsAged, DecisionIsTimed, DecisionIsSound,
                RestsAtBoot, Decided
<1>4. CASE DecideStop
  <2>1. /\ info'.CoolOrHeat = NORUN /\ local' = local /\ started' = started
        /\ started
    BY <1>0, <1>4 DEF DecideStop, InfoType, DecisionInv, RestsAtBoot
  <2>2. ctl'.stage = ctl.stage /\ ctl'.age = Later(ctl.age, StageTime)
    BY <1>0, <1>4 DEF DecideStop, CtlType
  <2>3. StageIsAged'
    <3>1. ctl.age > StageTime => Later(ctl.age, StageTime) > StageTime
      BY <1>0, LimitsAssumption DEF Later, CtlType
    <3> QED
      BY <2>2, <3>1 DEF DecisionInv, StageIsAged
  <2> QED
    BY <2>1, <2>3 DEF DecisionInv, DecisionIsTimed, DecisionIsSound, RestsAtBoot,
                      NORUN, COOLING, HEATING
<1>5. CASE DecideRun
  BY <1>5, DecideRunDecides
<1>6. CASE Output \/ Drive \/ Monitor
  <2>1. mpc \in {"link", "drive", "monitor"}
    BY <1>6 DEF Output, Drive, Monitor
  <2>2. started /\ Decided
    BY <2>1 DEF DecisionInv, RestsAtBoot, Decided
  <2>3. local' = local /\ ctl' = ctl /\ started' = started
    BY <1>6 DEF Output, Drive, Monitor
  <2>4. info'.CoolOrHeat \in {info.CoolOrHeat, NORUN}
    <3>1. CASE Output
      BY <1>0, <3>1 DEF Output, InfoType
    <3>2. CASE Drive
      BY <3>2 DEF Drive
    <3>3. CASE Monitor
      BY <1>0, <3>3, MonitorTypes DEF Monitor
    <3> QED
      BY <1>6, <3>1, <3>2, <3>3
  <2> QED
    BY <2>2, <2>3, <2>4, DecisionStays
<1> QED
  BY <1>1, <1>2, <1>3, <1>4, <1>5, <1>6 DEF DNext, MainThread

(***************************************************************************)
(* Every decision of ControlProgram is timed and leads towards the set     *)
(* point it read, until the next one is made, whatever frames arrive while *)
(* it reads, decides and drives the pins.                                  *)
(***************************************************************************)
THEOREM DecisionInvariant == DSpec => []DecisionInv
<1>1. DInit => DecisionInv
  BY InitInv DEF DInit, Init, ControlInv, DecisionInv, StageIsAged, RestsAtBoot,
                 DecisionIsTimed, DecisionIsSound, Decided
<1> QED
  BY <1>1, DecisionNext, DriveInvariant, PTL DEF DSpec

(***************************************************************************)
(* Between two calls of CtrlRelay the second stage is energised only for a *)
(* demand older than StageTime, under every interleaving with the uart     *)
(* thread.                                                                 *)
(***************************************************************************)
THEOREM SecondStageStaysEarned == DSpec => []EarnedBetweenCalls
<1>1. DriveInv /\ DecisionInv => EarnedBetweenCalls
  <2> SUFFICES ASSUME DriveInv, DecisionInv, mpc \in {"monitor", "idle"},
                      call.mode \in WiringModes, SecondStage(relays)
               PROVE  ctl.age > StageTime /\ info.CoolOrHeat = ctl.CoolOrHeat
    BY DEF EarnedBetweenCalls
  <2>1. started
    BY DEF DecisionInv, RestsAtBoot, SecondStage, Off
  <2>2. relays = Wiring(call.mode, info.CoolOrHeat, ctl.stage)
    BY <2>1 DEF DriveInv, CallIsOneRow
  <2>3. info.CoolOrHeat \in Demands /\ ctl.stage \in Stages
    BY DEF DriveInv, DriveTypes, TypeOK, InfoType, CtlType
  <2>4. ctl.stage = 2 /\ info.CoolOrHeat # NORUN
    BY <2>2, <2>3, WiringSecondStage
  <2> QED
    BY <2>1, <2>4 DEF DecisionInv, StageIsAged, DecisionIsTimed, Decided
<1> QED
  BY <1>1, DriveInvariant, DecisionInvariant, PTL

-----------------------------------------------------------------------------
(* Res2Temp.                                                               *)

\* The table falls from entry to entry, and beyond it there is nothing.
LEMMA NextIsLess ==
    /\ \A i \in Nat : Entry(i) \in Nat
    /\ \A i \in 0..119 : Entry(i) > Entry(i + 1)
    /\ \A i \in Nat : i > 120 => Entry(i) = 0
    /\ Entry(120) > 0
<1>1. Len(NTC_Rtable) = 121
  BY SMT DEF NTC_Rtable
<1>2. ASSUME NEW k \in 1..121 PROVE NTC_Rtable[k] \in Nat /\ NTC_Rtable[k] > 0
  BY SMT DEF NTC_Rtable
<1>3. ASSUME NEW k \in 1..120 PROVE NTC_Rtable[k] > NTC_Rtable[k + 1]
  BY SMT DEF NTC_Rtable
<1>4. \A i \in 0..120 : Entry(i) = NTC_Rtable[i + 1] /\ i + 1 \in 1..121
  BY <1>1 DEF Entry
<1>5. ASSUME NEW i \in 0..119 PROVE Entry(i) > Entry(i + 1)
  BY <1>3, <1>4
<1>6. \A i \in Nat : i > 120 => Entry(i) = 0
  BY <1>1 DEF Entry
<1>7. ASSUME NEW i \in Nat PROVE Entry(i) \in Nat
  BY <1>2, <1>4, <1>6
<1> QED
  BY <1>2, <1>4, <1>5, <1>6, <1>7

\* So an entry further on is never greater, by doubling the distance.
LEMMA EntriesFall ==
    ASSUME NEW i \in Nat, NEW j \in Nat, i <= j
    PROVE  Entry(i) >= Entry(j)
<1> DEFINE Falls(n) ==
             \A a \in Nat, b \in Nat : a <= b /\ b <= a + n => Entry(a) >= Entry(b)
<1>1. \A a \in Nat : Entry(a) \in Nat
  BY NextIsLess
<1>2. Falls(1)
  <2> SUFFICES ASSUME NEW a \in Nat, NEW b \in Nat, a <= b, b <= a + 1
               PROVE  Entry(a) >= Entry(b)
    OBVIOUS
  <2>1. CASE a = b
    BY <1>1, <2>1
  <2>2. CASE b = a + 1 /\ a <= 119
    <3>1. a \in 0..119
      BY <2>2
    <3> QED
      BY <1>1, <2>2, <3>1, NextIsLess
  <2>3. CASE b = a + 1 /\ a > 119
    BY <1>1, <2>3, NextIsLess
  <2> QED
    BY <2>1, <2>2, <2>3
<1>3. ASSUME NEW n \in Nat, Falls(n) PROVE Falls(n + n)
  <2> SUFFICES ASSUME NEW a \in Nat, NEW b \in Nat, a <= b, b <= a + (n + n)
               PROVE  Entry(a) >= Entry(b)
    OBVIOUS
  <2>1. CASE b <= a + n
    BY <1>3, <2>1
  <2>2. CASE b > a + n
    <3>1. a + n \in Nat /\ a <= a + n /\ a + n <= b /\ b <= (a + n) + n
      BY <2>2
    <3>2. Entry(a) >= Entry(a + n) /\ Entry(a + n) >= Entry(b)
      BY <1>3, <3>1
    <3> QED
      BY <1>1, <3>1, <3>2
  <2> QED
    BY <2>1, <2>2
<1> HIDE DEF Falls
<1>4. Falls(2) /\ Falls(4) /\ Falls(8) /\ Falls(16)
  <2>1. Falls(2)
    BY <1>2, <1>3
  <2>2. Falls(4)
    BY <1>3, <2>1
  <2>3. Falls(8)
    BY <1>3, <2>2
  <2> QED
    BY <1>3, <2>1, <2>2, <2>3
<1>5. Falls(128)
  <2>1. Falls(32)
    BY <1>3, <1>4
  <2>2. Falls(64)
    BY <1>3, <2>1
  <2> QED
    BY <1>3, <2>2
<1>6. CASE j <= i + 128
  BY <1>5, <1>6 DEF Falls
<1>7. CASE j > i + 128
  BY <1>1, <1>7, NextIsLess
<1> QED
  BY <1>6, <1>7

(***************************************************************************)
(* The search is at i and the next step is w/2 wide: res is found, or lies *)
(* between the entries less than w away.                                   *)
(***************************************************************************)
Bracket(i, w, res) ==
    \/ i \in 0..127 /\ Between(i, res)
    \/ /\ i >= w /\ i + w <= 128
       /\ Entry(i - w + 1) >= res /\ Entry(i + w) < res

\* A step halves the bracket; the byte does not wrap in it.
LEMMA ProbeHalves ==
    ASSUME NEW res \in Nat, NEW w \in 1..32, NEW i \in Nat,
           Bracket(i, w + w, res)
    PROVE  /\ Probe(i, w, res) \in Nat
           /\ Bracket(Probe(i, w, res), w, res)
<1>0. \A k \in Nat : Entry(k) \in Nat
  BY NextIsLess
<1>1. CASE Between(i, res)
  <2>1. Probe(i, w, res) = i
    BY <1>1 DEF Probe
  <2>2. i \in 0..127
    <3>1. ASSUME i >= w + w, i + (w + w) <= 128 PROVE i \in 0..127
      BY <3>1
    <3> QED
      BY <3>1 DEF Bracket
  <2> QED
    BY <1>1, <2>1, <2>2 DEF Bracket
<1>2. CASE ~Between(i, res)
  <2>1. /\ i >= w + w /\ i + (w + w) <= 128
        /\ Entry(i - (w + w) + 1) >= res /\ Entry(i + (w + w)) < res
    BY <1>2 DEF Bracket
  <2>2. CASE Entry(i) < res
    <3>1. Probe(i, w, res) = i - w
      BY <1>2, <2>1, <2>2 DEF Probe
    <3>2. (i - w) - w + 1 = i - (w + w) + 1 /\ (i - w) + w = i
      OBVIOUS
    <3>3. /\ i - w >= w /\ (i - w) + w <= 128
          /\ Entry((i - w) - w + 1) >= res /\ Entry((i - w) + w) < res
      BY <2>1, <2>2, <3>2
    <3> QED
      BY <2>1, <3>1, <3>3 DEF Bracket
  <2>3. CASE Entry(i) >= res
    <3>1. Probe(i, w, res) = i + w
      BY <1>0, <1>2, <2>1, <2>3 DEF Probe
    <3>2. Entry(i + 1) >= res
      BY <1>0, <1>2, <2>3 DEF Between
    <3>3. (i + w) - w + 1 = i + 1 /\ (i + w) + w = i + (w + w)
      OBVIOUS
    <3>4. /\ i + w >= w /\ (i + w) + w <= 128
          /\ Entry((i + w) - w + 1) >= res /\ Entry((i + w) + w) < res
      BY <2>1, <3>2, <3>3
    <3> QED
      BY <3>1, <3>4 DEF Bracket
  <2> QED
    BY <1>0, <2>2, <2>3
<1> QED
  BY <1>1, <1>2

(***************************************************************************)
(* The search finds every resistance of the table, although it begins at an*)
(* entry beyond it and its first step wraps.                               *)
(***************************************************************************)
LEMMA SearchFinds ==
    ASSUME NEW res \in Nat, 0 < res, res <= Entry(0)
    PROVE  Search(res) \in 0..127 /\ Between(Search(res), res)
<1> DEFINE i1 == Step(128, res)[128]
           i2 == Step(64, res)[i1]
           i3 == Step(32, res)[i2]
           i4 == Step(16, res)[i3]
           i5 == Step(8, res)[i4]
           i6 == Step(4, res)[i5]
           i7 == Step(2, res)[i6]
           i8 == Step(1, res)[i7]
<1>0. Search(res) = i8
  BY DEF Search
<1>at. \A w : \A i \in 0..255 : Step(w, res)[i] = Probe(i, w, res)
  BY DEF Step
<1>step. ASSUME NEW i \in Nat, NEW w \in 1..32, Bracket(i, w + w, res)
         PROVE  Step(w, res)[i] \in Nat /\ Bracket(Step(w, res)[i], w, res)
  <2>1. i \in 0..255
    <3>1. ASSUME i >= w + w, i + (w + w) <= 128 PROVE i \in 0..255
      BY <3>1
    <3>2. ASSUME i \in 0..127 PROVE i \in 0..255
      BY <3>2
    <3> QED
      BY <1>step, <3>1, <3>2 DEF Bracket
  <2> QED
    BY <1>step, <1>at, <2>1, ProbeHalves
<1>1. Entry(128) = 0 /\ Entry(0) \in Nat /\ Entry(1) \in Nat
  BY NextIsLess
<1>2. i1 = 0
  <2>1. i1 = Probe(128, 128, res)
    BY <1>at
  <2> QED
    BY <1>1, <2>1 DEF Probe, Between
<1>probe. i2 = Probe(0, 64, res)
  BY <1>2, <1>at
<1> HIDE DEF i1, i2
<1>3. i2 \in Nat /\ Bracket(i2, 64, res)
  <2>1. CASE Between(0, res)
    <3>1. i2 = 0
      BY <1>probe, <2>1 DEF Probe
    <3> QED
      BY <2>1, <3>1 DEF Bracket
  <2>2. CASE ~Between(0, res)
    <3>1. Entry(1) >= res
      BY <1>1, <2>2 DEF Between
    <3>2. i2 = 64
      BY <1>1, <1>probe, <2>2 DEF Probe
    <3>3. 64 - 64 + 1 = 1 /\ 64 + 64 = 128
      OBVIOUS
    <3> QED
      BY <1>1, <3>1, <3>2, <3>3 DEF Bracket
  <2> QED
    BY <2>1, <2>2
<1>4. 64 = 32 + 32 /\ 32 = 16 + 16 /\ 16 = 8 + 8 /\ 8 = 4 + 4 /\ 4 = 2 + 2 /\ 2 = 1 + 1
  OBVIOUS
<1>5. i3 \in Nat /\ Bracket(i3, 32, res)
  BY <1>3, <1>4, <1>step
<1> HIDE DEF i3
<1>6. i4 \in Nat /\ Bracket(i4, 16, res)
  BY <1>4, <1>5, <1>step
<1> HIDE DEF i4
<1>7. i5 \in Nat /\ Bracket(i5, 8, res)
  BY <1>4, <1>6, <1>step
<1> HIDE DEF i5
<1>8. i6 \in Nat /\ Bracket(i6, 4, res)
  BY <1>4, <1>7, <1>step
<1> HIDE DEF i6
<1>9. i7 \in Nat /\ Bracket(i7, 2, res)
  BY <1>4, <1>8, <1>step
<1> HIDE DEF i7
<1>10. i8 \in Nat /\ Bracket(i8, 1, res)
  BY <1>4, <1>9, <1>step
<1> HIDE DEF i8
<1>11. i8 \in 0..127 /\ Between(i8, res)
  <2>1. ASSUME i8 >= 1, i8 + 1 <= 128, Entry(i8 - 1 + 1) >= res,
               Entry(i8 + 1) < res
        PROVE  i8 \in 0..127 /\ Between(i8, res)
    <3>1. i8 - 1 + 1 = i8
      BY <1>10
    <3> QED
      BY <1>10, <2>1, <3>1 DEF Between
  <2> QED
    BY <1>10, <2>1 DEF Bracket
<1> QED
  BY <1>0, <1>11

\* Between two entries the quotient is a number of tenths.
LEMMA Tenths ==
    ASSUME NEW a \in Nat, NEW d \in Nat, a < d
    PROVE  /\ Quotient(a * 10, d) \in 0..9
           /\ a = 0 => Quotient(a * 10, d) = 0
           /\ \A b \in Nat : b <= a => Quotient(b * 10, d) <= Quotient(a * 10, d)
<1>1. d # 0
  OBVIOUS
<1>2. (a * 10) \div d \in 0..9
  BY SMT
<1>3. a = 0 => (a * 10) \div d = 0
  BY SMT
<1>4. ASSUME NEW b \in Nat, b <= a PROVE (b * 10) \div d <= (a * 10) \div d
  BY <1>1, <1>4, SMT
<1> QED
  BY <1>1, <1>2, <1>3, <1>4 DEF Quotient

\* The temperature of a resistance on the table, and that there is none.
LEMMA TempFound ==
    ASSUME NEW res \in Nat, 0 < res, res <= Entry(0)
    PROVE  LET i == Search(res)
               t == Degrees(i) + Quotient((Entry(i) - res) * 10,
                                          Entry(i) - Entry(i + 1))
           IN  /\ i \in Nat /\ Between(i, res)
               /\ Entry(i) - res \in Nat /\ Entry(i) - Entry(i + 1) \in Nat
               /\ Entry(i) - res < Entry(i) - Entry(i + 1)
               /\ i <= 119 <=> Entry(120) < res
               /\ Res2Temp(res) = IF i <= 119 THEN t ELSE NO_TEMP
<1> DEFINE i == Search(res)
           q == Quotient((Entry(i) - res) * 10, Entry(i) - Entry(i + 1))
<1>1. i \in 0..127 /\ Between(i, res)
  BY SearchFinds
<1>2. Res2Temp(res) = IF res > Entry(0) \/ (i - 40) * 10 + q >= 800 THEN NO_TEMP
                      ELSE (i - 40) * 10 + q
  BY DEF Res2Temp
<1> HIDE DEF i
<1>3. /\ Entry(i) \in Nat /\ Entry(i + 1) \in Nat /\ Entry(120) \in Nat
      /\ Entry(0) \in Nat
  BY <1>1, NextIsLess
<1>4. /\ Entry(i) - res \in Nat /\ Entry(i) - Entry(i + 1) \in Nat
      /\ Entry(i) - res < Entry(i) - Entry(i + 1)
  BY <1>1, <1>3 DEF Between
<1>5. q \in 0..9
  BY <1>4, Tenths
<1> HIDE DEF q
<1>6. i <= 119 => Entry(120) < res
  <2> SUFFICES ASSUME i <= 119 PROVE Entry(120) < res
    OBVIOUS
  <2>1. Entry(i + 1) >= Entry(120)
    BY <1>1, EntriesFall
  <2> QED
    BY <1>1, <1>3, <2>1 DEF Between
<1>7. i > 119 => Entry(120) >= res
  <2> SUFFICES ASSUME i > 119 PROVE Entry(120) >= res
    OBVIOUS
  <2>1. Entry(120) >= Entry(i)
    BY <1>1, EntriesFall
  <2> QED
    BY <1>1, <1>3, <2>1 DEF Between
<1>8. (i - 40) * 10 + q >= 800 <=> i > 119
  BY <1>1, <1>5
<1>9. Res2Temp(res) = IF i <= 119 THEN Degrees(i) + q ELSE NO_TEMP
  BY <1>1, <1>2, <1>3, <1>8 DEF Degrees
<1>10. i \in Nat /\ (i <= 119 <=> Entry(120) < res)
  BY <1>1, <1>3, <1>6, <1>7
<1> QED
  BY <1>1, <1>4, <1>9, <1>10 DEF i, q

\* A resistance of 0 is followed to the end, where there is no temperature.
LEMMA NoneForZero == Res2Temp(0) = NO_TEMP
<1>1. \A k \in Nat : Entry(k) \in Nat
  BY NextIsLess
<1>2. ASSUME NEW k \in Nat, NEW w \in Nat
      PROVE  Probe(k, w, 0) = (k + w) % 256
  BY <1>1 DEF Probe, Between
<1>3. /\ (128 + 128) % 256 = 0 /\ (0 + 64) % 256 = 64 /\ (64 + 32) % 256 = 96
      /\ (96 + 16) % 256 = 112 /\ (112 + 8) % 256 = 120
      /\ (120 + 4) % 256 = 124 /\ (124 + 2) % 256 = 126
      /\ (126 + 1) % 256 = 127
  OBVIOUS
<1>4. /\ Probe(128, 128, 0) = 0 /\ Probe(0, 64, 0) = 64 /\ Probe(64, 32, 0) = 96
      /\ Probe(96, 16, 0) = 112 /\ Probe(112, 8, 0) = 120
      /\ Probe(120, 4, 0) = 124 /\ Probe(124, 2, 0) = 126
      /\ Probe(126, 1, 0) = 127
  BY <1>2, <1>3
<1>5. Search(0) = 127
  <2>1. \A w : \A i \in 0..255 : Step(w, 0)[i] = Probe(i, w, 0)
    BY DEF Step
  <2>2. /\ Step(128, 0)[128] = 0 /\ Step(64, 0)[0] = 64 /\ Step(32, 0)[64] = 96
        /\ Step(16, 0)[96] = 112 /\ Step(8, 0)[112] = 120
        /\ Step(4, 0)[120] = 124 /\ Step(2, 0)[124] = 126
        /\ Step(1, 0)[126] = 127
    BY <1>4, <2>1
  <2> DEFINE i1 == Step(128, 0)[128]
             i2 == Step(64, 0)[i1]
             i3 == Step(32, 0)[i2]
             i4 == Step(16, 0)[i3]
             i5 == Step(8, 0)[i4]
             i6 == Step(4, 0)[i5]
             i7 == Step(2, 0)[i6]
  <2>3. Search(0) = Step(1, 0)[i7]
    BY DEF Search
  <2>4. i1 = 0
    BY <2>2
  <2> HIDE DEF i1
  <2>5. i2 = 64
    BY <2>2, <2>4
  <2> HIDE DEF i2
  <2>6. i3 = 96
    BY <2>2, <2>5
  <2> HIDE DEF i3
  <2>7. i4 = 112
    BY <2>2, <2>6
  <2> HIDE DEF i4
  <2>8. i5 = 120
    BY <2>2, <2>7
  <2> HIDE DEF i5
  <2>9. i6 = 124
    BY <2>2, <2>8
  <2> HIDE DEF i6
  <2>10. i7 = 126
    BY <2>2, <2>9
  <2> HIDE DEF i7
  <2> QED
    BY <2>2, <2>3, <2>10
<1>6. Entry(127) = 0 /\ Entry(128) = 0
  BY NextIsLess
<1> QED
  BY <1>1, <1>5, <1>6 DEF Res2Temp, Quotient

(***************************************************************************)
(* Whatever the resistance, Res2Temp returns the temperature of the curve, *)
(* or none outside of it, and a higher resistance never gives a higher one.*)
(***************************************************************************)
THEOREM ReadingIsOnCurve ==
    \A res \in Nat : OnCurve(res, Res2Temp(res)) /\ (res > 0 => Falling(res))
<1>0. Entry(0) \in Nat /\ Entry(120) \in Nat /\ Entry(120) > 0
  BY NextIsLess
<1>1. ASSUME NEW res \in Nat PROVE OnCurve(res, Res2Temp(res))
  <2>1. CASE res > Entry(0)
    BY <2>1 DEF OnCurve, Res2Temp
  <2>2. CASE res = 0
    BY <1>0, <2>2, NoneForZero DEF OnCurve
  <2>3. CASE 0 < res /\ res <= Entry(120) /\ res <= Entry(0)
    <3>1. Res2Temp(res) = NO_TEMP
      BY <1>0, <2>3, TempFound
    <3> QED
      BY <2>3, <3>1 DEF OnCurve
  <2>4. CASE Entry(120) < res /\ res <= Entry(0)
    <3> DEFINE i == Search(res)
               a == Entry(i) - res
               d == Entry(i) - Entry(i + 1)
               q == Quotient(a * 10, d)
    <3>1. /\ i \in Nat /\ Between(i, res) /\ i <= 119 /\ a \in Nat /\ d \in Nat
          /\ a < d /\ Res2Temp(res) = Degrees(i) + q
      BY <1>0, <2>4, TempFound
    <3>2. q \in 0..9 /\ (a = 0 => q = 0)
      BY <3>1, Tenths
    <3>3. res = Entry(i) => a = 0
      BY NextIsLess, <3>1
    <3> HIDE DEF i, q, a
    <3>4. /\ Degrees(i) <= Degrees(i) + q /\ Degrees(i) + q < Degrees(i + 1)
          /\ res = Entry(i) => Degrees(i) + q = Degrees(i)
      BY <3>1, <3>2, <3>3 DEF Degrees
    <3>5. i \in 0..119
      BY <3>1
    <3>6. ~(res > Entry(0) \/ res <= Entry(120))
      BY <1>0, <2>4
    <3>7. \E k \in 0..119 :
             /\ Between(k, res)
             /\ Degrees(k) <= Res2Temp(res) /\ Res2Temp(res) < Degrees(k + 1)
             /\ res = Entry(k) => Res2Temp(res) = Degrees(k)
      BY <3>1, <3>4, <3>5
    <3> QED
      BY <3>6, <3>7 DEF OnCurve
  <2> QED
    BY <1>0, <2>1, <2>2, <2>3, <2>4
<1>2. ASSUME NEW res \in Nat, res > 0 PROVE Falling(res)
  <2> SUFFICES ASSUME Res2Temp(res) # NO_TEMP, Res2Temp(res - 1) # NO_TEMP
               PROVE  Res2Temp(res) <= Res2Temp(res - 1)
    BY DEF Falling
  <2> DEFINE low == res - 1
             i == Search(res)
             j == Search(low)
             a == Entry(i) - res
             b == Entry(j) - low
             d == Entry(i) - Entry(i + 1)
             e == Entry(j) - Entry(j + 1)
  <2>1. low \in Nat /\ low < res
    BY <1>2
  <2>2. /\ res <= Entry(0) /\ Entry(120) < res
        /\ low <= Entry(0) /\ Entry(120) < low /\ 0 < low
    <3>1. res <= Entry(0) /\ Entry(120) < res
      BY <1>0, <1>1 DEF OnCurve
    <3>2. low <= Entry(0) /\ Entry(120) < low
      BY <1>0, <1>1, <2>1 DEF OnCurve
    <3> QED
      BY <1>0, <2>1, <3>1, <3>2
  <2>3. /\ i \in Nat /\ Between(i, res) /\ a \in Nat /\ d \in Nat /\ a < d
        /\ Res2Temp(res) = Degrees(i) + Quotient(a * 10, d)
    BY <1>2, <2>2, TempFound
  <2>4. /\ j \in Nat /\ Between(j, low) /\ b \in Nat /\ e \in Nat /\ b < e
        /\ Res2Temp(low) = Degrees(j) + Quotient(b * 10, e)
    BY <2>1, <2>2, TempFound
  <2>5. Quotient(a * 10, d) \in 0..9 /\ Quotient(b * 10, e) \in 0..9
    BY <2>3, <2>4, Tenths
  <2>6. CASE i = j
    <3>1. b = a + 1 /\ e = d
      BY <1>2, <2>3, <2>6, NextIsLess
    <3>2. Quotient(a * 10, d) <= Quotient(b * 10, e)
      BY <2>3, <2>4, <3>1, Tenths
    <3> QED
      BY <2>3, <2>4, <2>5, <2>6, <3>2 DEF Degrees
  <2>7. CASE i < j
    <3> HIDE DEF i, j, a, b, d, e, low
    <3>1. Degrees(i) + 10 <= Degrees(j) /\ Degrees(i) \in Int /\ Degrees(j) \in Int
      BY <2>3, <2>4, <2>7 DEF Degrees
    <3> QED
      BY <2>3, <2>4, <2>5, <3>1 DEF low
  <2>8. CASE j < i
    <3> HIDE DEF i, j
    <3>1. Entry(j + 1) >= Entry(i) /\ Entry(j + 1) \in Nat /\ Entry(i) \in Nat
      BY <2>3, <2>4, <2>8, EntriesFall, NextIsLess
    <3>2. Entry(i) >= res /\ Entry(j + 1) < low
      BY <2>3, <2>4 DEF Between
    <3> QED
      BY <2>1, <3>1, <3>2
  <2> QED
    BY <2>3, <2>4, <2>6, <2>7, <2>8
<1> QED
  BY <1>1, <1>2

\* The resistances that a run compares are resistances.
LEMMA ProbesAreNatural == Probes \subseteq Nat
<1>1. ASSUME NEW k \in 1..Len(NTC_Rtable)
      PROVE  NTC_Rtable[k] \in Nat /\ NTC_Rtable[k] > 0
  <2>1. Len(NTC_Rtable) = 121
    BY SMT DEF NTC_Rtable
  <2>2. ASSUME NEW n \in 1..121 PROVE NTC_Rtable[n] \in Nat /\ NTC_Rtable[n] > 0
    BY SMT DEF NTC_Rtable
  <2> QED
    BY <2>1, <2>2
<1>2. ASSUME NEW r \in {NTC_Rtable[k] : k \in 1..Len(NTC_Rtable)}
      PROVE  r - 1 \in Nat /\ r \in Nat /\ r + 1 \in Nat
  <2>1. PICK k \in 1..Len(NTC_Rtable) : r = NTC_Rtable[k]
    BY Zenon
  <2>2. r \in Nat /\ r > 0
    BY <1>1, <2>1, Zenon
  <2> QED
    BY <2>2
<1> DEFINE T == {NTC_Rtable[k] : k \in 1..Len(NTC_Rtable)}
<1> DEFINE Near == UNION {{r - 1, r, r + 1} : r \in T}
           Ends == {0, 1, LargestRes}
<1>3. Probes = Ends \cup Near
  BY Zenon DEF Probes
<1>4. \A r \in T : r - 1 \in Nat /\ r \in Nat /\ r + 1 \in Nat
  BY <1>2
<1> HIDE DEF T
<1>5. \A p \in Near : p \in Nat
  BY <1>4, Zenon
<1>6. 0 \in Nat /\ 1 \in Nat /\ LargestRes \in Nat
  BY SMT DEF LargestRes
<1>7. \A p \in Ends : p \in Nat
  BY <1>6, Zenon
<1> HIDE DEF Near, Ends
<1> QED
  BY <1>3, <1>5, <1>7

(***************************************************************************)
(* The temperature of the controller's own sensor is that of the curve, in *)
(* every state (Res2Temp, called by GetNtcValue).                          *)
(***************************************************************************)
THEOREM SensorIsTrue == Spec => []SensorTellsCurve
<1>1. CurveIsFound
  BY ReadingIsOnCurve, ProbesAreNatural, Zenon DEF CurveIsFound
<1>2. SensorTellsCurve
  BY <1>1 DEF SensorTellsCurve
<1> QED
  BY <1>2, PTL
=============================================================================
