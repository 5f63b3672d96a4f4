---------------------------- MODULE RelayDrive ------------------------------
(***************************************************************************)
(* Control at a finer grain.  The one-second block of the main thread takes*)
(* its inputs from shared state one after the other and CtrlRelay writes   *)
(* the relays pin by pin; the uart thread, which has the same priority and *)
(* is time-sliced with it, may run between any two of these accesses, and  *)
(* the main thread between any two stores of SetActionInfo.                *)
(*                                                                         *)
(* The panel belongs to a thread of lower priority: it changes settings    *)
(* only while both are asleep.                                             *)
(***************************************************************************)
EXTENDS Control

VARIABLES
    mpc,    \* where the main thread is in its one-second block
    call,   \* the call of CtrlRelay under way: the pins still to be written
            \* YES and NO, whether its NO pins are the heating row's, where
            \* the block goes on after it, and (history) the wiring mode it
            \* read and the relays switched so far in this one-second block
    cmd     \* SetActionInfo in the uart thread: its arguments, and the
            \* fields it has not stored yet

dvars == <<vars, mpc, call, cmd>>

CommandFields == {"en", "type", "setPoint"}

-----------------------------------------------------------------------------
(* The calls of CtrlRelay.                                                 *)

\* The order of the statements: first the pins switched on, W Y G and the
\* second stage, then the pins switched off, which the heating rows write
\* with Y2 before W2.
Rank(heating, pin) ==
    CASE pin = "W"  -> 1
      [] pin = "Y"  -> 2
      [] pin = "G"  -> 3
      [] pin = "W2" -> IF heating THEN 5 ELSE 4
      [] pin = "Y2" -> IF heating THEN 4 ELSE 5

IsNext(pin, pins, heating) ==
    pin \in pins /\ \A q \in pins : Rank(heating, pin) <= Rank(heating, q)

Returned(mode, moved) == [yes |-> {}, no |-> {}, heating |-> FALSE,
                          then |-> "idle", mode |-> mode, moved |-> moved]

CallNo(then) ==
    /\ call' = [yes |-> {}, no |-> RelayPins, heating |-> FALSE, then |-> then,
                mode |-> call.mode, moved |-> call.moved]
    /\ mpc' = "drive"

\* CtrlRelay(coolOrHeat, stage, YES) reads info->mode, not controlMode.
CallYes(coolOrHeat, stage, then) ==
    /\ call' = [yes |-> WritesYes(info.mode, coolOrHeat, stage),
                no |-> WritesNo(info.mode, coolOrHeat, stage),
                heating |-> coolOrHeat = HEATING, then |-> then,
                mode |-> info.mode, moved |-> call.moved]
    /\ mpc' = "drive"

\* A slip: the mode is tested again for the pins that are switched off.
DriveRereadsMode ==
    /\ mpc = "drive"
    /\ \/ \E pin \in call.yes :
            /\ IsNext(pin, call.yes, call.heating)
            /\ relays' = relays \cup {pin}
            /\ call' = [call EXCEPT !.yes = @ \ {pin},
                            !.no = WritesNo(info.mode, info.CoolOrHeat, ctl.stage)]
            /\ UNCHANGED mpc
       \/ \E pin \in call.no :
            /\ call.yes = {} /\ IsNext(pin, call.no, call.heating)
            /\ relays' = relays \ {pin}
            /\ call' = [call EXCEPT !.no = @ \ {pin},
                                   !.moved = @ \cup ({pin} \cap relays)]
            /\ UNCHANGED mpc
       \/ /\ call.yes = {} /\ call.no = {}
          /\ mpc' = call.then
          /\ call' = Returned(call.mode, call.moved)
          /\ UNCHANGED relays
    /\ UNCHANGED <<info, sensorTemp, action, ctl, local, link, started, cmd>>

\* One rt_pin_write, or the return from the call.
Drive ==
    /\ mpc = "drive"
    /\ \/ \E pin \in call.yes :
            /\ IsNext(pin, call.yes, call.heating)
            /\ relays' = relays \cup {pin}
            /\ call' = [call EXCEPT !.yes = @ \ {pin},
                                   !.moved = @ \cup ({pin} \ relays)]
            /\ UNCHANGED mpc
       \/ \E pin \in call.no :
            /\ call.yes = {} /\ IsNext(pin, call.no, call.heating)
            /\ relays' = relays \ {pin}
            /\ call' = [call EXCEPT !.no = @ \ {pin},
                                   !.moved = @ \cup ({pin} \cap relays)]
            /\ UNCHANGED mpc
       \/ /\ call.yes = {} /\ call.no = {}
          /\ mpc' = call.then
          /\ call' = Returned(call.mode, call.moved)
          /\ UNCHANGED relays
    /\ UNCHANGED <<info, sensorTemp, action, ctl, local, link, started, cmd>>

-----------------------------------------------------------------------------
(* The main thread.                                                        *)

\* TimeRunning.
Wake ==
    /\ mpc = "idle"
    /\ mpc' = "temp"
    /\ started' = TRUE
    /\ link' = [link EXCEPT !.silence = Later(@, TIMEOUT)]
    /\ UNCHANGED <<info, sensorTemp, action, ctl, local, relays, call, cmd>>

ReadTemp ==
    /\ mpc = "temp"
    /\ mpc' = "type"
    /\ \E first, second \in NtcValues :
         local' = [local EXCEPT !.temperature = GetTempValue(first, second)]
    /\ UNCHANGED <<info, sensorTemp, action, ctl, link, started, relays, call, cmd>>

\* GetSetPoint: the type of the command, and only then its set point.
ReadType ==
    /\ mpc = "type"
    /\ IF info.moduleMode = MODULE_SLAVE /\ action.type = ACTION_TYPE_USE_MASTER
       THEN mpc' = "point" /\ UNCHANGED local
       ELSE /\ mpc' = "mode"
            /\ \E now \in Clocks : local' = [local EXCEPT !.point = GetSetPoint(now)]
    /\ UNCHANGED <<info, sensorTemp, action, ctl, link, started, relays, call, cmd>>

ReadPoint ==
    /\ mpc = "point"
    /\ mpc' = "mode"
    /\ local' = [local EXCEPT !.point = action.setPoint]
    /\ UNCHANGED <<info, sensorTemp, action, ctl, link, started, relays, call, cmd>>

\* controlMode
ReadMode ==
    /\ mpc = "mode"
    /\ mpc' = "decide"
    /\ local' = [local EXCEPT !.mode = info.mode]
    /\ UNCHANGED <<info, sensorTemp, action, ctl, link, started, relays, call, cmd>>

HaveData == local.temperature # VALUE_NULL /\ local.point # VALUE_NULL

\* No data, or disabled: stop, and leave the statics alone.
DecideStop ==
    /\ mpc = "decide"
    /\ ~HaveData \/ (action.en = NO /\ local.mode = MODULE_SLAVE)
    /\ info' = [info EXCEPT !.CoolOrHeat = NORUN]
    /\ ctl' = [ctl EXCEPT !.age = Later(@, StageTime)]
    /\ CallNo("monitor")
    /\ UNCHANGED <<sensorTemp, action, local, link, started, relays, cmd>>

\* A slip: whatever the demand, all relays are released first.
DecideRunReleasesFirst ==
    LET demand  == Demand(local.temperature, local.point, info.deadBand)
        restart == Restart(demand, local.temperature)
    IN  /\ mpc = "decide"
        /\ HaveData /\ (action.en = YES \/ local.mode # MODULE_SLAVE)
        /\ info' = [info EXCEPT !.CoolOrHeat = demand]
        /\ ctl' = [restart EXCEPT !.stage = NextStage(restart, local.temperature)]
        /\ CallNo("link")
        /\ UNCHANGED <<sensorTemp, action, local, link, started, relays, cmd>>

\* The demand and the stage; within the dead band the relays are released.
DecideRun ==
    LET demand  == Demand(local.temperature, local.point, info.deadBand)
        restart == Restart(demand, local.temperature)
    IN  /\ mpc = "decide"
        /\ HaveData /\ (action.en = YES \/ local.mode # MODULE_SLAVE)
        /\ info' = [info EXCEPT !.CoolOrHeat = demand]
        /\ ctl' = [restart EXCEPT !.stage = NextStage(restart, local.temperature)]
        /\ IF demand = NORUN THEN CallNo("link")
           ELSE mpc' = "link" /\ UNCHANGED call
        /\ UNCHANGED <<sensorTemp, action, local, link, started, relays, cmd>>

\* A slip: the call is left out when something is energised already.
OutputOnlyFromOff ==
    /\ mpc = "link"
    /\ IF relays = Off THEN CallYes(info.CoolOrHeat, ctl.stage, "monitor")
       ELSE mpc' = "monitor" /\ UNCHANGED call
    /\ UNCHANGED <<vars, cmd>>

\* The test of the link, and the call that drives the relays.
Output ==
    /\ mpc = "link"
    /\ IF info.connected = NO /\ local.mode = MODULE_SLAVE
       THEN info' = [info EXCEPT !.CoolOrHeat = NORUN] /\ CallNo("monitor")
       ELSE UNCHANGED info /\ CallYes(info.CoolOrHeat, ctl.stage, "monitor")
    /\ UNCHANGED <<sensorTemp, action, ctl, local, link, started, relays, cmd>>

Monitor ==
    /\ mpc = "monitor"
    /\ mpc' = "idle"
    /\ info' = MonitorConnectedState(info, link.silence)
    /\ call' = [call EXCEPT !.moved = {}]
    /\ UNCHANGED <<sensorTemp, action, ctl, local, link, started, relays, cmd>>

MainThread ==
    \/ Wake \/ ReadTemp \/ ReadType \/ ReadPoint \/ ReadMode
    \/ DecideStop \/ DecideRun \/ Output \/ Drive \/ Monitor

-----------------------------------------------------------------------------
(* The uart thread.                                                        *)

\* A write of REG_CTRL: SetActionInfo is called ...
BeginCtrl ==
    /\ cmd.left = {} /\ info.registerState = YES
    /\ \E v \in CtrlRegs :
         cmd' = [left |-> CommandFields,
                 new |-> [en |-> v \div 32768, type |-> (v \div 256) % 16,
                          setPoint |-> ToU8(v) * 10]]
    /\ UNCHANGED <<vars, mpc, call>>

\* ... and stores its arguments; the fields are plain memory, so that the
\* compiled code may store them in any order.
StoreField ==
    /\ \E f \in cmd.left :
         /\ action' = [action EXCEPT ![f] = cmd.new[f]]
         /\ cmd' = [cmd EXCEPT !.left = @ \ {f}]
         /\ IF cmd.left = {f} THEN SetLastConnectTime ELSE UNCHANGED link
    /\ UNCHANGED <<info, sensorTemp, ctl, local, started, relays, mpc, call>>

\* A frame that changes shared state in one store.
Frame ==
    /\ cmd.left = {}
    /\ (\E ours \in BOOLEAN : RegisterFrame(ours)) \/ WriteSetting \/ WriteTemp
            \/ OtherFrame
    /\ UNCHANGED <<mpc, call, cmd>>

Keys == mpc = "idle" /\ cmd.left = {} /\ Panel /\ UNCHANGED <<mpc, call, cmd>>

-----------------------------------------------------------------------------
DInit ==
    /\ Init
    /\ mpc = "idle"
    /\ call = Returned(MODE_1_CONVENTIONAL, {})
    /\ cmd = [left |-> {}, new |-> action]

DNext == MainThread \/ BeginCtrl \/ StoreField \/ Frame \/ Keys

DSpec == DInit /\ [][DNext]_dvars

\* Both threads keep running.
DFairSpec == DSpec /\ WF_dvars(MainThread) /\ WF_dvars(StoreField)

-----------------------------------------------------------------------------
(* Properties                                                              *)

(***************************************************************************)
(* Between two calls the outputs are exactly those of the wiring table for *)
(* the demand reported, the stage, and one wiring mode, the one CtrlRelay  *)
(* itself read, however often the uart thread changed the mode while the   *)
(* pins were being written: no call writes part of one row and part of     *)
(* another, and nothing of an earlier call stays on.                       *)
(***************************************************************************)
CallIsOneRow ==
    started /\ mpc \in {"monitor", "idle"} /\ call.mode \in WiringModes =>
        relays = Wiring(call.mode, info.CoolOrHeat, ctl.stage)

(***************************************************************************)
(* No relay chatters: in one one-second block, which calls CtrlRelay once  *)
(* or twice, no relay is switched a second time, whatever the uart thread  *)
(* changes between the calls and between the pins of one.  A reversal of a *)
(* heat pump, say, does not stop its compressor and its fan for a moment.  *)
(***************************************************************************)
NoChatter ==
    [][\A pin \in RelayPins :
          (pin \in relays) # (pin \in relays') => pin \notin call.moved]_dvars

(***************************************************************************)
(* The second stage stays earned: between two calls Y2 or W2 is energised  *)
(* only for the demand being timed and only once that is older than        *)
(* StageTime, although demand and stage are decided on values read one by  *)
(* one, with frames in between, and reach the pins several steps later.    *)
(***************************************************************************)
EarnedBetweenCalls ==
    /\ mpc \in {"monitor", "idle"} /\ call.mode \in WiringModes
    /\ SecondStage(relays)
    => ctl.age > StageTime /\ info.CoolOrHeat = ctl.CoolOrHeat

(***************************************************************************)
(* What the present settings, temperature and command ask for.             *)
(***************************************************************************)
Settled(now) ==
    LET temperature == GetTempValue(VALUE_NULL, VALUE_NULL)
        point       == GetSetPoint(now)
    IN  IF temperature = VALUE_NULL \/ point = VALUE_NULL THEN NORUN
        ELSE Demand(temperature, point, info.deadBand)

(***************************************************************************)
(* What the outputs depend on: the settings, the temperature, the command. *)
(***************************************************************************)
Settings == [f \in DOMAIN info \ {"registerState", "CoolOrHeat", "connected"}
                |-> info[f]]

(***************************************************************************)
(* A command, temperature or mode read half old and half new is made good: *)
(* once host and panel change nothing any more, the outputs of a module    *)
(* that may run, a master, or a slave that is enabled and keeps its link,  *)
(* end up as the wiring of what they last wrote, and stay so.              *)
(***************************************************************************)
OutputSettles ==
    <>[][UNCHANGED <<Settings, sensorTemp, action, cmd>>]_dvars /\ <>[]Entitled =>
        <>[](info.mode \in WiringModes =>
                \E now \in Clocks :
                    relays = Wiring(info.mode, Settled(now), ctl.stage))
=============================================================================
