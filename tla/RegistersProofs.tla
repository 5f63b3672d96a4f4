--------------------------- MODULE RegistersProofs --------------------------
(***************************************************************************)
(* Proofs about Registers: what the host reads is what was last set, by a  *)
(* frame or by a key, for every value, every block read or written and     *)
(* every interleaving of the uart thread with LedProgram, with the keys of *)
(* the panel and with restarts; and about WallClock: the clock shows the   *)
(* time the host sent, if nothing came between the steps that set it.      *)
(***************************************************************************)
EXTENDS Registers, WallClock, TLAPS

-----------------------------------------------------------------------------
(* The invariant.                                                          *)

Octet == 0..255

\* The fields of type_info_t with their widths.
InfoType ==
    [ctrl : Word, unit : Octet, mode : Octet, deadBand : Octet,
     daySetPoint : Short, nightSetPoint : Short, tempFrom : Octet,
     dayStartTime : Word, dayEndTime : Word]

ActionType == [en : {NO, YES}, type : 0..15, setPoint : Nat]

LedType ==
    [pc : {"compare", "copy", "decide", "blink", "loop"}, flag : {NO, YES},
     age : 0..(LocateTime + 1), mode : {"normal", "fast"}, cnt : Nat,
     pin : {0, 1}]

CmdType ==
    [kind : {"none", "read", "write"}, reg : Word, size : Octet,
     data : Seq(Word), done : Octet, test : Word, len : Nat]

\* A key changes a byte, a signed value or one byte of a time.
KeysType ==
    [at : {0} \cup SettingPositions, value : Short, presses : 0..MaxPresses]

\* The value a key has computed fits the place it goes to.
KeysFit ==
    /\ keys.at \in {0} \cup Edits
    /\ keys.at \notin {0, 4, 5} => keys.value \in Octet

\* The frame under way: a reply has a value for each register done and the
\* length computed for it.
CmdFits ==
    /\ cmd.done <= cmd.size
    /\ cmd.kind = "none" => cmd = NoFrame
    /\ cmd.kind = "read" => Len(cmd.data) = cmd.done /\ cmd.len = cmd.size * 2 + 5

Told == Settings \cup {REG_CTRL}

Types ==
    /\ info \in InfoType
    /\ actionInfo \in ActionType
    /\ locationFlag \in {NO, YES}
    /\ led \in LedType
    /\ cmd \in CmdType
    /\ keys \in KeysType
    /\ written \in [Told -> Word \cup {NULL}]
    /\ restarts \in 0..MaxRestarts

\* What a read of a register shows.
Shows(reg) == IF reg = REG_CTRL THEN info.ctrl ELSE Shown(info[SettingOf[reg]])

\* What it should show: the value last written, as far as the field keeps it.
Kept(reg) == IF reg \in Narrow THEN written[reg] % 256 ELSE written[reg]

\* The settings are the ones last written.
SettingsAreWritten == \A reg \in Told : written[reg] # NULL => Shows(reg) = Kept(reg)

RegistersInv ==
    /\ Types
    /\ CmdFits
    /\ SettingsAreWritten
    /\ ReadTellsWritten
    /\ KeysFit

-----------------------------------------------------------------------------
(* The integers of C.                                                      *)

\* A word is a number of 16 bits.
LEMMA Words ==
    ASSUME NEW v \in Int
    PROVE  v \in Word <=> 0 <= v /\ v <= 65535
BY SMT DEF Word

\* What the host may send and read.
LEMMA Constants ==
    /\ Values \subseteq Word
    /\ \A block \in Writes : block \in Word \X (0..255)
    /\ \A block \in Reads : block \in Word \X (0..125)
    /\ Edits \subseteq SettingPositions /\ MaxPresses \in Nat
    /\ LocateTime \in Nat /\ MaxRestarts \in Nat
<1>1. /\ Values \subseteq Word /\ Writes \subseteq Word \X (0..255)
      /\ Reads \subseteq Word \X (0..125)
      /\ Edits \subseteq SettingPositions /\ MaxPresses \in Nat
      /\ LocateTime \in Nat /\ MaxRestarts \in Nat
  BY RegistersAssumption
<1> HIDE DEF Word
<1> QED
  BY <1>1, Zenon

(***************************************************************************)
(* What a field keeps of a word fits it, and a read shows the word again,  *)
(* or its lower byte where the field is a byte.                            *)
(***************************************************************************)
LEMMA StoredFits ==
    ASSUME NEW v \in Word
    PROVE  /\ \A f \in U8Fields : Stored(f, v) \in Octet /\ Shown(Stored(f, v)) = v % 256
           /\ \A f \in S16Fields : Stored(f, v) \in Short /\ Shown(Stored(f, v)) = v
           /\ \A f : f \notin U8Fields \cup S16Fields => Stored(f, v) = v
           /\ Shown(v) = v
<1>0. U8Fields \cap S16Fields = {} /\ v \in Int /\ 0 <= v /\ v <= 65535
  BY SMT DEF U8Fields, S16Fields, Word
<1>1. ASSUME NEW f \in U8Fields PROVE Stored(f, v) = v % 256
  <2>1. f \notin S16Fields
    BY <1>0
  <2> QED
    BY <1>0, <2>1, SMT DEF Stored
<1>2. v % 256 \in Octet /\ Shown(v % 256) = v % 256 /\ Shown(v) = v
  BY <1>0, SMT DEF Octet, Shown
<1>3. ASSUME NEW f \in S16Fields
      PROVE  Stored(f, v) = IF v >= 32768 THEN v - 65536 ELSE v
  <2>1. f \notin U8Fields
    BY <1>0
  <2> QED
    BY <1>0, <2>1, SMT DEF Stored
<1> DEFINE s == IF v >= 32768 THEN v - 65536 ELSE v
<1>4. s \in Short /\ Shown(s) = v
  <2>1. CASE v >= 32768
    <3>1. s = v - 65536 /\ (v - 65536) % 65536 = v
      BY <1>0, <2>1, SMT
    <3> HIDE DEF s
    <3>2. s \in Short
      BY <1>0, <2>1, <3>1, SMT DEF Short
    <3> QED
      BY <3>1, <3>2 DEF Shown
  <2>2. CASE v < 32768
    <3>1. s = v /\ v % 65536 = v
      BY <1>0, <2>2, SMT
    <3> HIDE DEF s
    <3>2. s \in Short
      BY <1>0, <2>2, <3>1, SMT DEF Short
    <3> QED
      BY <3>1, <3>2 DEF Shown
  <2> QED
    BY <1>0, <2>1, <2>2
<1>5. \A f : f \notin U8Fields \cup S16Fields => Stored(f, v) = v
  BY DEF Stored
<1> QED
  BY <1>1, <1>2, <1>3, <1>4, <1>5

(***************************************************************************)
(* The registers that are settings, and their fields.                      *)
(***************************************************************************)
LEMMA SettingTable ==
    /\ Settings = {1027, 1028, 1029, 1031, 1032, 1037, 1038, 1039}
    /\ SettingOf[1027] = "unit" /\ SettingOf[1028] = "mode"
    /\ SettingOf[1029] = "deadBand" /\ SettingOf[1031] = "daySetPoint"
    /\ SettingOf[1032] = "nightSetPoint" /\ SettingOf[1037] = "tempFrom"
    /\ SettingOf[1038] = "dayStartTime" /\ SettingOf[1039] = "dayEndTime"
BY SMT DEF Settings, SettingOf

\* A register belongs to one field: a write of one leaves the others alone.
LEMMA FieldsDiffer ==
    /\ \A r, s \in Settings : r # s => SettingOf[r] # SettingOf[s]
    /\ \A r \in Settings : SettingOf[r] \in DOMAIN DefaultInfo \ {"ctrl"}
BY SettingTable DEF DefaultInfo

\* The registers of a byte are those whose field is one.
LEMMA NarrowFields ==
    \A r \in Settings : /\ r \in Narrow => SettingOf[r] \in U8Fields
                        /\ r \notin Narrow => SettingOf[r] \notin U8Fields
BY SettingTable DEF Narrow, U8Fields

(***************************************************************************)
(* A field that is given a value of its width: the widths are kept and the *)
(* other fields are left alone.                                            *)
(***************************************************************************)
LEMMA FieldSet ==
    ASSUME info \in InfoType, NEW reg \in Settings, NEW x,
           info' = [info EXCEPT ![SettingOf[reg]] = x],
           SettingOf[reg] \in U8Fields => x \in Octet,
           SettingOf[reg] \in S16Fields => x \in Short,
           SettingOf[reg] \notin U8Fields \cup S16Fields => x \in Word
    PROVE  /\ info' \in InfoType
           /\ info'.ctrl = info.ctrl
           /\ info'[SettingOf[reg]] = x
           /\ \A r \in Settings \ {reg} : info'[SettingOf[r]] = info[SettingOf[r]]
<1> DEFINE f == SettingOf[reg]
<1>0. info' = [info EXCEPT ![f] = x]
  OBVIOUS
<1>1. DOMAIN info = DOMAIN DefaultInfo
  BY DEF InfoType, DefaultInfo
<1>2. f \in DOMAIN info /\ f # "ctrl"
  BY <1>1, FieldsDiffer
<1>3. info'[f] = x
  BY <1>0, <1>2
<1>4. \A r \in Settings \ {reg} : info'[SettingOf[r]] = info[SettingOf[r]]
  BY <1>0, <1>1, FieldsDiffer
<1>5. info'.ctrl = info.ctrl
  BY <1>0, <1>2
<1>6. info' \in InfoType
  <2>1. f \in U8Fields => x \in Octet
    OBVIOUS
  <2>2. f \in S16Fields => x \in Short
    OBVIOUS
  <2>3. f \in {"dayStartTime", "dayEndTime"} => x \in Word
    BY DEF U8Fields, S16Fields
  <2>4. f \in {"unit", "mode", "deadBand", "daySetPoint", "nightSetPoint",
               "tempFrom", "dayStartTime", "dayEndTime"}
    BY SettingTable
  <2> HIDE DEF f
  <2>5. CASE f = "unit"
    BY <1>0, <2>1, <2>5 DEF InfoType, U8Fields
  <2>6. CASE f = "mode"
    BY <1>0, <2>1, <2>6 DEF InfoType, U8Fields
  <2>7. CASE f = "deadBand"
    BY <1>0, <2>1, <2>7 DEF InfoType, U8Fields
  <2>8. CASE f = "daySetPoint"
    BY <1>0, <2>2, <2>8 DEF InfoType, S16Fields
  <2>9. CASE f = "nightSetPoint"
    BY <1>0, <2>2, <2>9 DEF InfoType, S16Fields
  <2>10. CASE f = "tempFrom"
    BY <1>0, <2>1, <2>10 DEF InfoType, U8Fields
  <2>11. CASE f = "dayStartTime"
    BY <1>0, <2>3, <2>11 DEF InfoType
  <2>12. CASE f = "dayEndTime"
    BY <1>0, <2>3, <2>12 DEF InfoType
  <2> QED
    BY <2>4, <2>5, <2>6, <2>7, <2>8, <2>9, <2>10, <2>11, <2>12
<1> QED
  BY <1>3, <1>4, <1>5, <1>6

(***************************************************************************)
(* A write of a setting keeps the widths and is read back.                 *)
(***************************************************************************)
LEMMA SettingWritten ==
    ASSUME info \in InfoType, NEW reg \in Settings, NEW v \in Word,
           WriteSetting(reg, v)
    PROVE  /\ info' \in InfoType
           /\ info'.ctrl = info.ctrl
           /\ Shown(info'[SettingOf[reg]]) = IF reg \in Narrow THEN v % 256 ELSE v
           /\ \A r \in Settings \ {reg} : info'[SettingOf[r]] = info[SettingOf[r]]
<1> DEFINE f == SettingOf[reg]
           x == Stored(f, v)
<1>1. info' = [info EXCEPT ![f] = x]
  BY DEF WriteSetting
<1>2. Shown(x) = IF reg \in Narrow THEN v % 256 ELSE v
  <2>1. CASE reg \in Narrow
    BY <2>1, NarrowFields, StoredFits
  <2>2. CASE reg \notin Narrow
    BY <2>2, NarrowFields, StoredFits
  <2> QED
    BY <2>1, <2>2
<1>3. /\ f \in U8Fields => x \in Octet
      /\ f \in S16Fields => x \in Short
      /\ f \notin U8Fields \cup S16Fields => x \in Word
  BY StoredFits
<1> HIDE DEF x
<1> QED
  BY <1>1, <1>2, <1>3, FieldSet

-----------------------------------------------------------------------------
(* The main thread.                                                        *)

(***************************************************************************)
(* LedProgram leaves everything alone but the LED and the locate flag.     *)
(***************************************************************************)
LEMMA MainStep ==
    ASSUME RegistersInv, MainThread
    PROVE  RegistersInv'
<1>0. led \in LedType /\ locationFlag \in {NO, YES} /\ LocateTime \in Nat
  BY Constants DEF RegistersInv, Types
<1>1. UNCHANGED uart
  BY DEF MainThread, Compare, Copy, Decide, Blink, Loop
<1>2. led' \in LedType /\ locationFlag' \in {NO, YES}
  <2>1. CASE Compare
    <3>1. PICK pc \in {"copy", "decide"} : led' = [led EXCEPT !.pc = pc]
      BY <2>1 DEF Compare
    <3> QED
      BY <1>0, <2>1, <3>1 DEF Compare, LedType
  <2>2. CASE Copy
    <3>1. PICK age \in {0, led.age} :
             led' = [led EXCEPT !.pc = "decide", !.flag = locationFlag,
                                !.age = age]
      BY <2>2, Zenon DEF Copy
    <3>2. age \in 0..(LocateTime + 1)
      BY <1>0 DEF LedType
    <3> QED
      BY <1>0, <2>2, <3>1, <3>2 DEF Copy, LedType
  <2>3. CASE Decide
    <3>1. PICK mode \in {"normal", "fast", led.mode} :
             led' = [led EXCEPT !.pc = "blink", !.mode = mode]
      BY <2>3, Zenon DEF Decide
    <3>2. locationFlag' \in {NO, YES}
      BY <1>0, <2>3 DEF Decide
    <3> QED
      BY <1>0, <3>1, <3>2 DEF LedType
  <2>4. CASE Blink
    <3>1. PICK cnt \in {0, led.cnt + 1}, pin \in {led.pin, Turned(led.pin)} :
             led' = [led EXCEPT !.pc = "loop", !.cnt = cnt, !.pin = pin]
      BY <2>4, Zenon DEF Blink
    <3>2. cnt \in Nat /\ pin \in {0, 1}
      BY <1>0 DEF LedType, Turned
    <3> QED
      BY <1>0, <2>4, <3>1, <3>2 DEF Blink, LedType
  <2>5. ASSUME NEW s \in BOOLEAN, Loop(s)
        PROVE  led' \in LedType /\ locationFlag' \in {NO, YES}
    <3> DEFINE age == IF s /\ led.age <= LocateTime THEN led.age + 1 ELSE led.age
    <3>1. led' = [led EXCEPT !.pc = "compare", !.age = age]
      BY <2>5, Zenon DEF Loop
    <3>2. age \in 0..(LocateTime + 1)
      BY <1>0 DEF LedType
    <3> HIDE DEF age
    <3> QED
      BY <1>0, <2>5, <3>1, <3>2 DEF Loop, LedType
  <2> QED
    BY <2>1, <2>2, <2>3, <2>4, <2>5 DEF MainThread
<1> QED
  BY <1>1, <1>2 DEF uart, RegistersInv, Types, CmdFits, SettingsAreWritten, Shows,
     Kept, ReadTellsWritten, KeysFit

-----------------------------------------------------------------------------
(* The uart thread.                                                        *)

\* What a step that only takes, or finishes, a frame leaves alone.
Taking == UNCHANGED <<info, actionInfo, sensorInfo, locationFlag, written,
                      others>>

\* Such a step keeps the invariant if the frame is one.
LEMMA FrameKeeps ==
    ASSUME RegistersInv, Taking, cmd' \in CmdType, CmdFits',
           ReadTellsWritten'
    PROVE  RegistersInv'
BY DEF Taking, others, RegistersInv, Types, SettingsAreWritten, Shows, Kept,
       KeysFit

\* No frame is under way.
LEMMA NoFrameFits == NoFrame \in CmdType
<1>1. <<>> \in Seq(Word) /\ 0 \in Word /\ 0 \in Octet
  BY SMT DEF Word, Octet
<1> QED
  BY <1>1 DEF NoFrame, CmdType

\* A frame that reads begins: the length of the reply is fixed.
LEMMA ReadFrameStep ==
    ASSUME RegistersInv, ReadFrame
    PROVE  RegistersInv'
<1>1. PICK block \in Reads :
         cmd' = [NoFrame EXCEPT !.kind = "read", !.reg = block[1],
                                !.size = block[2], !.len = block[2] * 2 + 5]
  BY DEF ReadFrame
<1> DEFINE r == block[1]
           n == block[2]
           l == n * 2 + 5
<1>2. r \in Word /\ n \in 0..125
  BY Constants
<1>3. cmd' = [NoFrame EXCEPT !.kind = "read", !.reg = r, !.size = n, !.len = l]
  BY <1>1
<1>4. n \in Octet /\ l \in Nat /\ l = n * 2 + 5
  BY <1>2 DEF Octet
<1> HIDE DEF r, n, l
<1>5. /\ cmd'.kind = "read" /\ cmd'.reg = r /\ cmd'.size = n
      /\ cmd'.data = <<>> /\ cmd'.done = 0 /\ cmd'.len = l
  BY <1>3 DEF NoFrame
<1>6. cmd' \in CmdType
  BY <1>2, <1>3, <1>4, NoFrameFits DEF CmdType
<1>7. Len(cmd'.data) = 0
  BY <1>5
<1>8. CmdFits'
  BY <1>4, <1>5, <1>7 DEF CmdFits, Octet
<1>9. ReadTellsWritten'
  BY <1>4, <1>5, <1>7 DEF ReadTellsWritten, Octet
<1>10. Taking
  BY DEF ReadFrame, Taking
<1> QED
  BY <1>6, <1>8, <1>9, <1>10, FrameKeeps

\* A frame that writes begins.
LEMMA WriteFrameStep ==
    ASSUME RegistersInv, WriteFrame
    PROVE  RegistersInv'
<1>1. Taking
  BY DEF WriteFrame, Taking
<1>2. PICK block \in Writes :
         cmd' = [NoFrame EXCEPT !.kind = "write", !.reg = block[1],
                                !.size = block[2]]
  BY DEF WriteFrame
<1> DEFINE r == block[1]
           n == block[2]
<1>3. r \in Word /\ n \in Octet
  BY Constants DEF Octet
<1>4. cmd' = [NoFrame EXCEPT !.kind = "write", !.reg = r, !.size = n]
  BY <1>2
<1> HIDE DEF r, n
<1>5. cmd'.kind = "write" /\ cmd'.size = n /\ cmd'.done = 0
  BY <1>4 DEF NoFrame
<1>6. cmd' \in CmdType
  BY <1>3, <1>4, NoFrameFits DEF CmdType
<1>7. CmdFits' /\ ReadTellsWritten'
  BY <1>3, <1>5 DEF CmdFits, ReadTellsWritten, Octet
<1> QED
  BY <1>1, <1>6, <1>7, FrameKeeps

\* The reply is sent and the frame is over.
LEMMA AnswerStep ==
    ASSUME RegistersInv, Answer
    PROVE  RegistersInv'
<1>1. cmd' = NoFrame /\ Taking
  BY DEF Answer, Taking
<1>2. CmdFits' /\ ReadTellsWritten'
  BY <1>1 DEF NoFrame, CmdFits, ReadTellsWritten
<1> QED
  BY <1>1, <1>2, NoFrameFits, FrameKeeps

(***************************************************************************)
(* What a read of one register finds: a word, and for a setting or the     *)
(* command what is stored, whatever the register before it left behind.    *)
(***************************************************************************)
LEMMA ReadFinds ==
    ASSUME info \in InfoType, NEW reg \in Nat, NEW test \in Word,
           NEW ports \in {0, 31}
    PROVE  /\ ReadValue(reg, test, ports) \in Word
           /\ reg \in Told => ReadValue(reg, test, ports) = Shows(reg)
<1> DEFINE value == ReadValue(reg, test, ports)
<1>1. \A r \in Settings : Shown(info[SettingOf[r]]) \in Word
  <2>1. \A r \in Settings : info[SettingOf[r]] \in Int
    BY SettingTable DEF InfoType, Octet, Short, Word
  <2>2. \A v \in Int : Shown(v) \in Word
    BY SMT DEF Shown, Word
  <2> QED
    BY <2>1, <2>2
<1>2. CASE reg = REG_CTRL
  <2>1. value = info.ctrl
    BY <1>2, SettingTable DEF ReadValue, LOCATION, REG_CTRL_MODE, REG_PORT_SIZE,
       REG_PORT_STATE, REG_CTRL, WriteOnly, REG_NOW_TIME, REG_NOW_TIME1, Sensors
  <2> QED
    BY <1>2, <2>1 DEF InfoType, Shows
<1>3. CASE reg \in Settings
  <2>1. reg # REG_CTRL
    BY <1>3, SettingTable DEF REG_CTRL
  <2>2. value = Shown(info[SettingOf[reg]])
    BY <1>3, SettingTable DEF ReadValue, LOCATION, REG_CTRL_MODE, REG_PORT_SIZE,
       REG_PORT_STATE, REG_CTRL, WriteOnly, REG_NOW_TIME, REG_NOW_TIME1, Sensors
  <2> QED
    BY <1>1, <1>3, <2>1, <2>2 DEF Shows
<1>4. CASE reg \notin Told
  <2>1. value \in {0, 5, ports, test, 65535}
    BY <1>4, SMT DEF ReadValue, Told
  <2>2. {0, 5, ports, 65535} \subseteq Word
    BY SMT DEF Word
  <2> QED
    BY <1>4, <2>1, <2>2
<1> QED
  BY <1>2, <1>3, <1>4 DEF Told

(***************************************************************************)
(* The next register of a read: the reply grows by what the host wrote.    *)
(***************************************************************************)
LEMMA ReadStep ==
    ASSUME RegistersInv, ReadRegister
    PROVE  RegistersInv'
<1>0. /\ cmd \in CmdType /\ CmdFits /\ info \in InfoType
      /\ locationFlag \in {NO, YES} /\ cmd.kind = "read"
      /\ written \in [Told -> Word \cup {NULL}]
  BY DEF RegistersInv, Types, ReadRegister
<1> DEFINE reg == cmd.reg + cmd.done
<1>1. PICK ports \in {0, 31} :
         /\ cmd' = [cmd EXCEPT !.done = @ + 1,
                               !.test = ReadValue(reg, cmd.test, ports),
                               !.data = Append(@, ReadValue(reg, cmd.test, ports))]
         /\ locationFlag' = IF reg = LOCATION THEN YES ELSE locationFlag
  BY Zenon DEF ReadRegister
<1> DEFINE value == ReadValue(reg, cmd.test, ports)
           data  == Append(cmd.data, value)
           done  == cmd.done + 1
<1>2. /\ cmd' = [cmd EXCEPT !.done = done, !.test = value, !.data = data]
      /\ locationFlag' \in {NO, YES}
      /\ UNCHANGED <<info, actionInfo, written, led, keys, restarts>>
  BY <1>0, <1>1 DEF ReadRegister, others
<1>3. /\ cmd.done \in Nat /\ cmd.size \in 0..255 /\ cmd.done < cmd.size
      /\ cmd.reg \in Nat /\ cmd.test \in Word /\ cmd.data \in Seq(Word)
      /\ Len(cmd.data) = cmd.done /\ cmd.len = cmd.size * 2 + 5
  BY <1>0 DEF CmdType, CmdFits, ReadRegister, Word, Octet
<1>4. reg \in Nat
  BY <1>3
<1>5. value \in Word /\ (reg \in Told => value = Shows(reg))
  BY <1>0, <1>3, <1>4, ReadFinds
<1> HIDE DEF value
<1>6. /\ data \in Seq(Word) /\ Len(data) = done /\ done \in 0..255
      /\ done <= cmd.size
      /\ \A k \in 1..cmd.done : data[k] = cmd.data[k]
      /\ data[done] = value
  <2>0. cmd.done \in Nat /\ cmd.size \in 0..255 /\ cmd.done < cmd.size
    BY <1>3
  <2>1. done \in 0..255 /\ done <= cmd.size
    BY <2>0
  <2>2. /\ data \in Seq(Word) /\ Len(data) = Len(cmd.data) + 1
        /\ \A k \in 1..Len(cmd.data) : data[k] = cmd.data[k]
        /\ data[Len(cmd.data) + 1] = value
    BY <1>3, <1>5
  <2> HIDE DEF data, done
  <2>3. done = Len(cmd.data) + 1
    BY <1>3 DEF done
  <2> QED
    BY <1>3, <2>1, <2>2, <2>3
<1> HIDE DEF data, done
<1>7. cmd' \in CmdType
  <2>1. done \in Octet
    BY <1>6 DEF Octet
  <2> QED
    BY <1>0, <1>2, <1>5, <1>6, <2>1 DEF CmdType
<1>8. /\ cmd'.kind = "read" /\ cmd'.reg = cmd.reg /\ cmd'.size = cmd.size
      /\ cmd'.data = data /\ cmd'.done = done /\ cmd'.len = cmd.len
  BY <1>0, <1>2 DEF CmdType
<1>9. CmdFits'
  BY <1>3, <1>6, <1>8 DEF CmdFits
<1>10. ReadTellsWritten'
  <2>1. written' = written /\ DOMAIN written = Told
    BY <1>0, <1>2
  <2>2. ASSUME NEW k \in 1..Len(data), cmd.reg + k - 1 \in Told,
               written[cmd.reg + k - 1] # NULL
        PROVE  data[k] = Kept(cmd.reg + k - 1)
    <3>1. CASE k \in 1..cmd.done
      <4>1. cmd.data[k] = Kept(cmd.reg + k - 1)
        BY <1>0, <1>3, <2>1, <2>2, <3>1 DEF RegistersInv, ReadTellsWritten, Kept
      <4> QED
        BY <1>6, <3>1, <4>1
    <3>2. CASE k = done
      <4>1. cmd.reg + k - 1 = reg
        BY <1>3, <3>2 DEF done
      <4>2. Shows(reg) = Kept(reg)
        BY <2>2, <4>1 DEF RegistersInv, SettingsAreWritten
      <4> QED
        BY <1>5, <1>6, <2>2, <3>2, <4>1, <4>2
    <3>3. k \in 1..cmd.done \/ k = done
      BY <1>3, <1>6 DEF done
    <3> QED
      BY <3>1, <3>2, <3>3
  <2>3. done = cmd.size => cmd.len = 3 + 2 * Len(data) + 2
    BY <1>3, <1>6
  <2> QED
    BY <1>8, <2>1, <2>2, <2>3 DEF ReadTellsWritten, Kept
<1> QED
  BY <1>2, <1>7, <1>9, <1>10 DEF RegistersInv, Types, SettingsAreWritten, Shows,
     Kept, KeysFit

(***************************************************************************)
(* A written value is a word and so never the mark for "not written".      *)
(***************************************************************************)
LEMMA WordIsNotNull == NULL \notin Word
BY SMT DEF NULL, Word

\* The bit fields of a command.
LEMMA DecodedType ==
    ASSUME NEW v \in Word
    PROVE  Decoded(v) \in ActionType
<1>0. v \in Int /\ 0 <= v /\ v <= 65535
  BY SMT DEF Word
<1> DEFINE en == v \div 32768
           type == (v \div 256) % 16
           point == (v % 256) * 10
<1>1. en \in {0, 1}
  BY <1>0, SMT
<1>2. type \in 0..15
  BY <1>0, SMT
<1>3. point \in Nat
  BY <1>0, SMT
<1>4. Decoded(v) = [en |-> en, type |-> type, setPoint |-> point]
  BY DEF Decoded
<1> HIDE DEF en, type, point
<1> QED
  BY <1>1, <1>2, <1>3, <1>4 DEF ActionType, NO, YES

\* The registers of WriteValue's alternatives are different ones.
LEMMA RegistersDiffer ==
    /\ REG_CTRL \notin Settings /\ REG_CTRL \notin WriteOnly
    /\ Settings \cap WriteOnly = {}
    /\ REG_NOW_TIME \notin Sensors /\ REG_NOW_TIME1 \notin Sensors
    /\ REG_NOW_TIME1 = REG_NOW_TIME + 1
BY SettingTable, SMT
   DEF REG_CTRL, WriteOnly, REG_NOW_TIME, REG_NOW_TIME1, Sensors

(***************************************************************************)
(* The next register of a write: the settings stay what was last written,  *)
(* whatever the receive buffer holds by now.                               *)
(***************************************************************************)
LEMMA WriteStep ==
    ASSUME RegistersInv, WriteRegister
    PROVE  RegistersInv'
<1> DEFINE reg == cmd.reg + cmd.done
<1>0. /\ Types /\ CmdFits /\ SettingsAreWritten /\ KeysFit
      /\ cmd.kind = "write" /\ cmd.done < cmd.size
      /\ DOMAIN written = Told
  BY DEF RegistersInv, WriteRegister, Types
<1>1. PICK v \in Values :
      /\ WriteValue(reg, v)
      /\ written' = IF reg \in Told THEN [written EXCEPT ![reg] = v] ELSE written
      /\ cmd' = [cmd EXCEPT !.done = @ + 1]
      /\ UNCHANGED <<locationFlag, led, keys, restarts>>
  BY <1>0 DEF WriteRegister, others
<1>2. v \in Word /\ v # NULL
  BY Constants, WordIsNotNull
<1>3. cmd' \in CmdType /\ CmdFits' /\ ReadTellsWritten'
  <2> DEFINE done == cmd.done + 1
  <2>0. cmd.done \in 0..255 /\ cmd.size \in 0..255 /\ cmd.done < cmd.size
    BY <1>0 DEF Types, CmdType, Octet
  <2>1. cmd' = [cmd EXCEPT !.done = done] /\ done \in Octet /\ done <= cmd.size
    <3>1. ASSUME NEW d \in 0..255, NEW n \in 0..255, d < n
          PROVE  d + 1 \in 0..255 /\ d + 1 <= n
      BY <3>1
    <3>2. done \in Octet /\ done <= cmd.size
      BY <2>0, <3>1 DEF Octet
    <3> QED
      BY <1>1, <3>2
  <2> HIDE DEF done
  <2>2. cmd' \in CmdType
    BY <1>0, <2>1 DEF Types, CmdType
  <2>3. /\ cmd'.kind = "write" /\ cmd'.size = cmd.size /\ cmd'.done = done
    BY <1>0, <2>1 DEF Types, CmdType
  <2>4. CmdFits' /\ ReadTellsWritten'
    BY <1>0, <2>1, <2>3 DEF CmdFits, ReadTellsWritten
  <2> QED
    BY <2>2, <2>4
<1> HIDE DEF reg
<1>4. /\ written' \in [Told -> Word \cup {NULL}]
      /\ reg \in Told => written'[reg] = v
      /\ \A r \in Told \ {reg} : written'[r] = written[r]
  BY <1>0, <1>1, <1>2 DEF Types
<1>5. CASE reg = REG_CTRL
  <2>1. info' = [info EXCEPT !.ctrl = v] /\ actionInfo' = Decoded(v)
    BY <1>1, <1>5, RegistersDiffer DEF WriteValue, WriteCtrl, WriteOnly
  <2>2. info' \in InfoType /\ info'.ctrl = v
    BY <1>0, <1>2, <2>1 DEF Types, InfoType
  <2>3. \A r \in Settings : info'[SettingOf[r]] = info[SettingOf[r]]
    <3>1. DOMAIN info = DOMAIN DefaultInfo
      BY <1>0 DEF Types, InfoType, DefaultInfo
    <3> QED
      BY <2>1, <3>1, FieldsDiffer
  <2>4. SettingsAreWritten'
    BY <1>0, <1>4, <1>5, <2>2, <2>3
       DEF SettingsAreWritten, Shows, Kept, Told, Narrow, REG_CTRL
  <2> QED
    BY <1>0, <1>1, <1>2, <1>3, <1>4, <2>1, <2>2, <2>4, DecodedType
       DEF RegistersInv, Types, KeysFit
<1>6. CASE reg \in Settings
  <2>1. WriteSetting(reg, v) /\ actionInfo' = actionInfo /\ reg # REG_CTRL
    BY <1>1, <1>6, RegistersDiffer DEF WriteValue, WriteOnly
  <2>2. /\ info' \in InfoType /\ info'.ctrl = info.ctrl
        /\ Shown(info'[SettingOf[reg]]) = IF reg \in Narrow THEN v % 256 ELSE v
        /\ \A r \in Settings \ {reg} : info'[SettingOf[r]] = info[SettingOf[r]]
    BY <1>0, <1>2, <1>6, <2>1, SettingWritten DEF Types
  <2>3. ASSUME NEW r \in Told, written'[r] # NULL PROVE Shows(r)' = Kept(r)'
    <3>1. CASE r = reg
      BY <1>4, <1>6, <2>1, <2>2, <3>1 DEF Shows, Kept, Told
    <3>2. CASE r = REG_CTRL
      BY <1>0, <1>4, <2>1, <2>2, <2>3, <3>2 DEF SettingsAreWritten, Shows, Kept
    <3>3. CASE r \in Settings \ {reg}
      BY <1>0, <1>4, <2>2, <2>3, <3>3, RegistersDiffer
         DEF SettingsAreWritten, Shows, Kept, Told
    <3> QED
      BY <3>1, <3>2, <3>3 DEF Told
  <2> QED
    BY <1>0, <1>1, <1>3, <1>4, <2>1, <2>2, <2>3
       DEF RegistersInv, Types, SettingsAreWritten, KeysFit
<1>7. CASE reg \notin Told
  <2>1. UNCHANGED <<info, actionInfo, written>>
    BY <1>1, <1>7 DEF WriteValue, Told
  <2> QED
    BY <1>0, <1>1, <1>3, <2>1 DEF RegistersInv, Types, SettingsAreWritten, Shows,
       Kept, KeysFit
<1> QED
  BY <1>5, <1>6, <1>7 DEF Told

-----------------------------------------------------------------------------
(* The oled thread.                                                        *)

\* What fits a position: a signed value for a set point, else a byte.
Fits(cusor, v) == IF cusor \in {4, 5} THEN v \in Short ELSE v \in Octet

\* A key makes of a value that fits its position another one.
LEMMA StepFits ==
    ASSUME NEW c \in SettingPositions, NEW v, Fits(c, v)
    PROVE  Fits(c, StepUp(c, v)) /\ Fits(c, StepDown(c, v))
<1>1. CASE c \in {4, 5}
  <2>1. v \in Int /\ -32768 <= v /\ v <= 32767
    BY <1>1 DEF Fits, Short
  <2>2. /\ StepUp(c, v) = IF v < 490 THEN v + 10 ELSE 0
        /\ StepDown(c, v) = IF v > 10 THEN v - 10 ELSE 500
    BY <1>1 DEF StepUp, StepDown
  <2> QED
    BY <1>1, <2>1, <2>2 DEF Fits, Short
<1>2. CASE c = 6
  <2>1. v \in 0..255
    BY <1>2 DEF Fits, Octet
  <2>2. /\ StepUp(c, v) = IF v < 50 THEN v + 10 ELSE 10
        /\ StepDown(c, v) = IF v > 10 THEN v - 10 ELSE 50
    BY <1>2 DEF StepUp, StepDown
  <2> QED
    BY <1>2, <2>1, <2>2 DEF Fits, Octet
<1>3. CASE c \notin {4, 5, 6}
  <2>1. v \in 0..255
    BY <1>3 DEF Fits, Octet
  <2>2. Least(c) \in {0, 1} /\ Greatest(c) \in {2, 3, 23, 59}
    BY <1>3 DEF SettingPositions, Least, Greatest
  <2>3. /\ StepUp(c, v) = IF v < Greatest(c) THEN v + 1 ELSE Least(c)
        /\ StepDown(c, v) = IF v > Least(c) THEN v - 1 ELSE Greatest(c)
    BY <1>3 DEF StepUp, StepDown, AddData, SubData
  <2>4. StepUp(c, v) \in 0..255 /\ StepDown(c, v) \in 0..255
    BY <2>1, <2>2, <2>3
  <2> QED
    BY <1>3, <2>4 DEF Fits, Octet
<1> QED
  BY <1>1, <1>2, <1>3

\* The register of a position, and the width of its field.
LEMMA PositionTable ==
    ASSUME NEW c \in SettingPositions
    PROVE  /\ RegisterAt(c) \in Settings
           /\ c \in {4, 5} => SettingOf[RegisterAt(c)] \in S16Fields
           /\ c \in {2, 3, 6, 8} => SettingOf[RegisterAt(c)] \in U8Fields
           /\ c \in Hours \cup Minutes =>
                  SettingOf[RegisterAt(c)] \in {"dayStartTime", "dayEndTime"}
           /\ RegisterAt(c) \in Narrow <=> c \in {2, 3, 6, 8}
<1>1. /\ c = 2 => RegisterAt(c) = 1028
      /\ c = 3 => RegisterAt(c) = 1027
      /\ c = 4 => RegisterAt(c) = 1031
      /\ c = 5 => RegisterAt(c) = 1032
      /\ c = 6 => RegisterAt(c) = 1029
      /\ c = 8 => RegisterAt(c) = 1037
      /\ c \in {15, 16} => RegisterAt(c) = 1038
      /\ c \in {17, 18} => RegisterAt(c) = 1039
  BY SMT DEF RegisterAt
<1> QED
  BY <1>1, SettingTable
     DEF SettingPositions, Narrow, U8Fields, S16Fields, Hours, Minutes

\* What stands at a position fits it.
LEMMA ValueFits ==
    ASSUME info \in InfoType, NEW c \in SettingPositions
    PROVE  Fits(c, ValueAt(c))
<1> DEFINE v == info[SettingOf[RegisterAt(c)]]
<1>1. CASE c \in {4, 5}
  <2>1. v \in Short
    BY <1>1, PositionTable DEF InfoType, S16Fields
  <2>2. ValueAt(c) = v
    BY <1>1 DEF ValueAt, Hours, Minutes
  <2> QED
    BY <1>1, <2>1, <2>2 DEF Fits
<1>2. CASE c \in {2, 3, 6, 8}
  <2>1. v \in Octet
    BY <1>2, PositionTable DEF InfoType, U8Fields
  <2>2. ValueAt(c) = v
    BY <1>2 DEF ValueAt, Hours, Minutes
  <2> QED
    BY <1>2, <2>1, <2>2 DEF Fits
<1>3. CASE c \in Hours \cup Minutes
  <2>1. v \in Word
    BY <1>3, PositionTable DEF InfoType
  <2>2. v \in Int /\ 0 <= v /\ v <= 65535
    BY <2>1 DEF Word
  <2>3. ValueAt(c) \in {v \div 256, v % 256}
    BY <1>3 DEF ValueAt, Hours, Minutes
  <2> HIDE DEF v
  <2>4. v \div 256 \in 0..255 /\ v % 256 \in 0..255
    BY <2>2, SMT
  <2>5. c \notin {4, 5}
    BY <1>3 DEF Hours, Minutes
  <2> QED
    BY <2>3, <2>4, <2>5 DEF Fits, Octet
<1> QED
  BY <1>1, <1>2, <1>3 DEF SettingPositions, Hours, Minutes

\* What fits a position makes a value of the field's width.
LEMMA PlacedFits ==
    ASSUME info \in InfoType, NEW c \in SettingPositions, NEW v, Fits(c, v)
    PROVE  /\ c \in {4, 5} => Placed(c, v) \in Short
           /\ c \in {2, 3, 6, 8} => Placed(c, v) \in Octet
           /\ c \in Hours \cup Minutes => Placed(c, v) \in Word
<1> DEFINE w == info[SettingOf[RegisterAt(c)]]
<1>1. c \in {2, 3, 4, 5, 6, 8} => Placed(c, v) = v
  BY DEF Placed, Hours, Minutes
<1>2. ASSUME c \in Hours \cup Minutes PROVE Placed(c, v) \in Word
  <2>1. w \in Word
    BY <1>2, PositionTable DEF InfoType
  <2>2. w \in Int /\ 0 <= w /\ w <= 65535
    BY <2>1 DEF Word
  <2>3. v \in 0..255
    BY <1>2 DEF Fits, Octet, Hours, Minutes
  <2>4. Placed(c, v) \in {v * 256 + (w % 256), w - (w % 256) + v}
    BY <1>2 DEF Placed, Hours, Minutes
  <2> HIDE DEF w
  <2>5. /\ 0 <= v * 256 + (w % 256) /\ v * 256 + (w % 256) <= 65535
        /\ v * 256 + (w % 256) \in Int
    BY <2>2, <2>3, SMT
  <2>6. /\ 0 <= w - (w % 256) + v /\ w - (w % 256) + v <= 65535
        /\ w - (w % 256) + v \in Int
    BY <2>2, <2>3, SMT
  <2> QED
    BY <2>4, <2>5, <2>6, Words
<1> QED
  BY <1>1, <1>2 DEF Fits

(***************************************************************************)
(* A key loads a value: only the edit under way changes.                   *)
(***************************************************************************)
LEMMA KeyLoadsStep ==
    ASSUME RegistersInv, KeyLoads
    PROVE  RegistersInv'
<1>1. PICK c \in Edits : \E x \in {StepUp(c, ValueAt(c)), StepDown(c, ValueAt(c))} :
         keys' = [at |-> c, presses |-> keys.presses + 1, value |-> x]
  BY Zenon DEF KeyLoads
<1>0. PICK x \in {StepUp(c, ValueAt(c)), StepDown(c, ValueAt(c))} :
         keys' = [at |-> c, presses |-> keys.presses + 1, value |-> x]
  BY <1>1
<1>2. c \in SettingPositions /\ Fits(c, x)
  <2>1. c \in SettingPositions /\ info \in InfoType
    BY Constants DEF RegistersInv, Types
  <2>2. Fits(c, ValueAt(c))
    BY <2>1, ValueFits
  <2> QED
    BY <2>1, <2>2, StepFits
<1>3. keys.presses + 1 \in 0..MaxPresses
  BY Constants DEF RegistersInv, Types, KeysType, KeyLoads
<1>4. x \in Short /\ (c \notin {4, 5} => x \in Octet)
  <2>1. Octet \subseteq Short
    BY SMT DEF Octet, Short
  <2> QED
    BY <1>2, <2>1 DEF Fits
<1>5. keys' \in KeysType /\ KeysFit'
  BY <1>0, <1>1, <1>2, <1>3, <1>4 DEF KeysType, KeysFit
<1>6. UNCHANGED <<info, actionInfo, locationFlag, cmd, led, written, restarts>>
  BY DEF KeyLoads
<1> QED
  BY <1>5, <1>6 DEF RegistersInv, Types, CmdFits, SettingsAreWritten, Shows,
     Kept, ReadTellsWritten

(***************************************************************************)
(* A key stores what it made of the value it loaded, which may be another  *)
(* one by now: the field keeps its width and a read shows what was stored. *)
(***************************************************************************)
LEMMA KeyStoresStep ==
    ASSUME RegistersInv, KeyStores
    PROVE  RegistersInv'
<1> DEFINE c   == keys.at
           reg == RegisterAt(c)
           x   == Placed(c, keys.value)
<1>0. /\ Types /\ CmdFits /\ SettingsAreWritten /\ KeysFit
      /\ DOMAIN written = Told /\ info \in InfoType
  BY DEF RegistersInv, Types
<1>1. /\ info' = [info EXCEPT ![SettingOf[reg]] = x]
      /\ written' = [written EXCEPT ![reg] = Shown(x)]
      /\ keys' = [NoEdit EXCEPT !.presses = keys.presses]
      /\ cmd = NoFrame /\ cmd' = cmd /\ c # 0
      /\ UNCHANGED <<actionInfo, locationFlag, led, restarts>>
  BY DEF KeyStores
<1>2. c \in SettingPositions
  BY <1>0, <1>1, Constants DEF KeysFit
<1>3. Fits(c, keys.value)
  BY <1>0, <1>1 DEF Fits, KeysFit, Types, KeysType
<1>4. /\ c \in {4, 5} => x \in Short
      /\ c \in {2, 3, 6, 8} => x \in Octet
      /\ c \in Hours \cup Minutes => x \in Word
  BY <1>0, <1>2, <1>3, PlacedFits
<1>5. /\ reg \in Settings
      /\ c \in {4, 5} => SettingOf[reg] \in S16Fields
      /\ c \in {2, 3, 6, 8} => SettingOf[reg] \in U8Fields
      /\ c \in Hours \cup Minutes =>
            SettingOf[reg] \in {"dayStartTime", "dayEndTime"}
      /\ reg \in Narrow <=> c \in {2, 3, 6, 8}
  BY <1>2, PositionTable
<1>6. c \in {4, 5} \/ c \in {2, 3, 6, 8} \/ c \in Hours \cup Minutes
  BY <1>2 DEF SettingPositions, Hours, Minutes
<1> HIDE DEF c, reg, x
<1>7. /\ SettingOf[reg] \in U8Fields => x \in Octet
      /\ SettingOf[reg] \in S16Fields => x \in Short
      /\ SettingOf[reg] \notin U8Fields \cup S16Fields => x \in Word
  BY <1>4, <1>5, <1>6 DEF U8Fields, S16Fields
<1>8. /\ info' \in InfoType /\ info'.ctrl = info.ctrl
      /\ info'[SettingOf[reg]] = x
      /\ \A r \in Settings \ {reg} : info'[SettingOf[r]] = info[SettingOf[r]]
  BY <1>0, <1>1, <1>5, <1>7, FieldSet
<1>9. /\ reg \in Narrow => Shown(x) % 256 = Shown(x)
      /\ Shown(x) \in Word
  <2>1. x \in Int
    BY <1>4, <1>6 DEF Short, Octet, Word
  <2>2. Shown(x) \in Word
    BY <2>1, SMT DEF Shown, Word
  <2>3. x \in Octet => Shown(x) % 256 = Shown(x)
    BY SMT DEF Octet, Shown
  <2> QED
    BY <1>4, <1>5, <2>2, <2>3
<1>10. /\ written' \in [Told -> Word \cup {NULL}]
       /\ written'[reg] = Shown(x)
       /\ \A r \in Told \ {reg} : written'[r] = written[r]
       /\ reg \in Told /\ reg # REG_CTRL
  BY <1>0, <1>1, <1>5, <1>9, RegistersDiffer DEF Types, Told
<1>11. ASSUME NEW r \in Told, written'[r] # NULL PROVE Shows(r)' = Kept(r)'
  <2>1. CASE r = reg
    BY <1>8, <1>9, <1>10, <2>1 DEF Shows, Kept
  <2>2. CASE r = REG_CTRL
    BY <1>0, <1>8, <1>10, <1>11, <2>2 DEF SettingsAreWritten, Shows, Kept
  <2>3. CASE r \in Settings \ {reg}
    BY <1>0, <1>8, <1>10, <1>11, <2>3, RegistersDiffer
       DEF SettingsAreWritten, Shows, Kept, Told
  <2> QED
    BY <2>1, <2>2, <2>3 DEF Told
<1>12. CmdFits' /\ ReadTellsWritten' /\ cmd' \in CmdType
  BY <1>0, <1>1 DEF CmdFits, ReadTellsWritten, NoFrame, Types
<1>13. keys' \in KeysType /\ KeysFit'
  <2>1. keys.presses \in 0..MaxPresses /\ 0 \in Short
    BY <1>0 DEF Types, KeysType, Short
  <2> QED
    BY <1>1, <2>1 DEF NoEdit, KeysType, KeysFit
<1> QED
  BY <1>0, <1>1, <1>8, <1>10, <1>11, <1>12, <1>13
     DEF RegistersInv, Types, SettingsAreWritten

-----------------------------------------------------------------------------
(***************************************************************************)
(* The start, and a restart with the saved settings or the defaults:       *)
(* nothing counts as written any more.                                     *)
(***************************************************************************)
LEMMA StartFits ==
    /\ DefaultInfo \in InfoType /\ NoAction \in ActionType /\ LedStart \in LedType
    /\ Unwritten \in [Told -> Word \cup {NULL}]
    /\ \A reg \in Told : Unwritten[reg] = NULL
<1>1. DefaultInfo \in InfoType
  BY SMT DEF DefaultInfo, InfoType, Octet, Short, Word
<1>2. NoAction \in ActionType
  BY SMT DEF NoAction, ActionType, NULL, NO, YES
<1>3. LedStart \in LedType
  BY Constants DEF LedStart, LedType
<1>4. /\ Unwritten \in [Told -> Word \cup {NULL}]
      /\ \A reg \in Told : Unwritten[reg] = NULL
  BY DEF Unwritten, Told
<1> QED
  BY <1>1, <1>2, <1>3, <1>4

\* The presses so far are all that is kept of the edits.
LEMMA NoEditFits ==
    ASSUME NEW n \in 0..MaxPresses
    PROVE  [NoEdit EXCEPT !.presses = n] \in KeysType
<1>1. 0 \in Short
  BY SMT DEF Short
<1> QED
  BY <1>1 DEF NoEdit, KeysType

\* After power-up nothing has been written, commanded or located.
LEMMA Started ==
    ASSUME info \in InfoType, actionInfo = NoAction, locationFlag = NO,
           cmd = NoFrame, led = LedStart, written = Unwritten,
           keys = NoEdit,
           restarts \in 0..MaxRestarts
    PROVE  RegistersInv
<1>0. NoEdit \in KeysType
  <2>1. 0 \in 0..MaxPresses /\ NoEdit = [NoEdit EXCEPT !.presses = 0]
    BY Constants DEF NoEdit
  <2> QED
    BY <2>1, NoEditFits
<1>1. Types
  BY <1>0, StartFits, NoFrameFits DEF Types
<1>2. CmdFits /\ ReadTellsWritten
  BY DEF NoFrame, CmdFits, ReadTellsWritten
<1>3. SettingsAreWritten
  BY StartFits DEF SettingsAreWritten
<1>4. KeysFit
  BY DEF NoEdit, KeysFit
<1> QED
  BY <1>1, <1>2, <1>3, <1>4 DEF RegistersInv

\* A restart forgets the frame under way and the history.
LEMMA RestartStep ==
    ASSUME RegistersInv, Restart
    PROVE  RegistersInv'
<1>1. info' \in InfoType
  BY StartFits DEF Restart, RegistersInv, Types
<1>2. restarts' \in 0..MaxRestarts
  BY Constants DEF Restart, RegistersInv, Types
<1>3. /\ actionInfo' = NoAction /\ locationFlag' = NO /\ cmd' = NoFrame
      /\ led' = LedStart /\ written' = Unwritten
      /\ keys' = [NoEdit EXCEPT !.presses = keys.presses]
  BY DEF Restart
<1>4. Types'
  <2>1. keys' \in KeysType
    BY <1>3, NoEditFits DEF RegistersInv, Types, KeysType
  <2> QED
    BY <1>1, <1>2, <1>3, <2>1, StartFits, NoFrameFits DEF Types
<1>5. CmdFits' /\ ReadTellsWritten'
  BY <1>3 DEF NoFrame, CmdFits, ReadTellsWritten
<1>6. SettingsAreWritten'
  BY <1>3, StartFits DEF SettingsAreWritten
<1>7. KeysFit'
  BY <1>3 DEF NoEdit, KeysFit
<1> QED
  BY <1>4, <1>5, <1>6, <1>7 DEF RegistersInv

(***************************************************************************)
(* Every step keeps the invariant.                                         *)
(***************************************************************************)
LEMMA RegistersStep == RegistersInv /\ [Next]_vars => RegistersInv'
<1> SUFFICES ASSUME RegistersInv, [Next]_vars PROVE RegistersInv'
  OBVIOUS
<1>1. CASE UartThread
  BY <1>1, ReadFrameStep, WriteFrameStep, ReadStep, WriteStep, AnswerStep
     DEF UartThread
<1>2. CASE MainThread
  BY <1>2, MainStep
<1>3. CASE OledThread
  BY <1>3, KeyLoadsStep, KeyStoresStep DEF OledThread
<1>5. CASE Restart
  BY <1>5, RestartStep
<1>4. CASE UNCHANGED vars
  BY <1>4 DEF vars, RegistersInv, Types, CmdFits, SettingsAreWritten, Shows, Kept,
     ReadTellsWritten, KeysFit
<1> QED
  BY <1>1, <1>2, <1>3, <1>4, <1>5 DEF Next

(***************************************************************************)
(* The invariant holds in every state: for every value the host may write, *)
(* every block it may read and every place of a restart.                   *)
(***************************************************************************)
THEOREM RegistersInvariant == Spec => []RegistersInv
<1>1. Init => RegistersInv
  <2> SUFFICES ASSUME Init PROVE RegistersInv
    OBVIOUS
  <2>1. restarts \in 0..MaxRestarts
    BY Constants DEF Init
  <2> QED
    BY <2>1, StartFits, Started DEF Init
<1> QED
  BY <1>1, RegistersStep, PTL DEF Spec

(***************************************************************************)
(* Types: each field of type_info_t stays within its width, whatever is    *)
(* written to its register.                                                *)
(***************************************************************************)
THEOREM TypeCorrect == Spec => []TypeOK
<1>1. RegistersInv => TypeOK
  <2> SUFFICES ASSUME RegistersInv PROVE TypeOK
    OBVIOUS
  <2>1. ASSUME NEW f \in DOMAIN DefaultInfo
        PROVE  info[f] \in CASE f \in U8Fields  -> 0..255
                             [] f \in S16Fields -> Short
                             [] OTHER           -> Word
    <3>1. /\ \A g \in U8Fields : info[g] \in Octet
          /\ \A g \in S16Fields : info[g] \in Short
          /\ \A g \in {"ctrl", "dayStartTime", "dayEndTime"} : info[g] \in Word
      BY DEF RegistersInv, Types, InfoType, U8Fields, S16Fields
    <3>2. f \in U8Fields \/ f \in S16Fields
            \/ f \in {"ctrl", "dayStartTime", "dayEndTime"}
      BY DEF DefaultInfo, U8Fields, S16Fields
    <3>3. CASE f \in U8Fields
      <4>1. f \notin S16Fields
        BY <3>3 DEF U8Fields, S16Fields
      <4> QED
        BY <3>1, <3>3, <4>1 DEF Octet
    <3>4. CASE f \in S16Fields
      <4>1. f \notin U8Fields
        BY <3>4 DEF U8Fields, S16Fields
      <4> QED
        BY <3>1, <3>4, <4>1
    <3>5. CASE f \in {"ctrl", "dayStartTime", "dayEndTime"}
      <4>1. f \notin U8Fields /\ f \notin S16Fields
        BY <3>5 DEF U8Fields, S16Fields
      <4> QED
        BY <3>1, <3>5, <4>1
    <3> QED
      BY <3>2, <3>3, <3>4, <3>5
  <2>2. /\ actionInfo.en \in {NO, YES} /\ actionInfo.type \in 0..15
        /\ locationFlag \in {NO, YES} /\ led.flag \in {NO, YES}
        /\ led.age \in 0..(LocateTime + 1) /\ restarts \in 0..MaxRestarts
    BY DEF RegistersInv, Types, ActionType, LedType
  <2>3. cmd.done \in 0..cmd.size
    <3>1. cmd.done \in 0..255 /\ cmd.size \in 0..255 /\ cmd.done <= cmd.size
      BY DEF RegistersInv, Types, CmdType, CmdFits, Octet
    <3> QED
      BY <3>1
  <2>4. keys.at \in {0} \cup Edits /\ keys.presses \in 0..MaxPresses
    BY DEF RegistersInv, Types, KeysType, KeysFit
  <2> QED
    BY <2>1, <2>2, <2>3, <2>4, Zenon DEF TypeOK
<1> QED
  BY <1>1, RegistersInvariant, PTL

(***************************************************************************)
(* A read tells the host what was last set, by a frame or by a key,        *)
(* whatever was written, located or read in between, and the length put    *)
(* into the header of the reply before it was filled is its length         *)
(* (READ_MUTI of ModbusCommandAnalysis).                                   *)
(***************************************************************************)
THEOREM HostReadsItsWrites == Spec => []ReadTellsWritten
BY RegistersInvariant, PTL DEF RegistersInv

-----------------------------------------------------------------------------
(* WallClock: the halves of a time.                                        *)

(***************************************************************************)
(* Bit p of a word is what its halvings down to p leave over, so that the  *)
(* sixteen bits of a word sum up to it.                                    *)
(***************************************************************************)
LEMMA BitsOfWord ==
    ASSUME NEW w \in Half
    PROVE  LET bit(p) == IF (w \div p) % 2 = 1 THEN p ELSE 0
           IN  w = bit(1) + bit(2) + bit(4) + bit(8) + bit(16) + bit(32)
                     + bit(64) + bit(128) + bit(256) + bit(512) + bit(1024)
                     + bit(2048) + bit(4096) + bit(8192) + bit(16384)
                     + bit(32768)
<1> DEFINE bit(p) == IF (w \div p) % 2 = 1 THEN p ELSE 0
<1>0. w \in Int /\ 0 <= w /\ w <= 65535
  BY DEF Half
<1>1. bit(1) = w - 2 * (w \div 2)
  BY <1>0, SMT
<1>2. bit(2) = 2 * (w \div 2) - 4 * (w \div 4)
  BY <1>0, SMT
<1>3. bit(4) = 4 * (w \div 4) - 8 * (w \div 8)
  BY <1>0, SMT
<1>4. bit(8) = 8 * (w \div 8) - 16 * (w \div 16)
  BY <1>0, SMT
<1>5. bit(16) = 16 * (w \div 16) - 32 * (w \div 32)
  BY <1>0, SMT
<1>6. bit(32) = 32 * (w \div 32) - 64 * (w \div 64)
  BY <1>0, SMT
<1>7. bit(64) = 64 * (w \div 64) - 128 * (w \div 128)
  BY <1>0, SMT
<1>8. bit(128) = 128 * (w \div 128) - 256 * (w \div 256)
  BY <1>0, SMT
<1>9. bit(256) = 256 * (w \div 256) - 512 * (w \div 512)
  BY <1>0, SMT
<1>10. bit(512) = 512 * (w \div 512) - 1024 * (w \div 1024)
  BY <1>0, SMT
<1>11. bit(1024) = 1024 * (w \div 1024) - 2048 * (w \div 2048)
  BY <1>0, SMT
<1>12. bit(2048) = 2048 * (w \div 2048) - 4096 * (w \div 4096)
  BY <1>0, SMT
<1>13. bit(4096) = 4096 * (w \div 4096) - 8192 * (w \div 8192)
  BY <1>0, SMT
<1>14. bit(8192) = 8192 * (w \div 8192) - 16384 * (w \div 16384)
  BY <1>0, SMT
<1>15. bit(16384) = 16384 * (w \div 16384) - 32768 * (w \div 32768)
  BY <1>0, SMT
<1>16. bit(32768) = 32768 * (w \div 32768)
  BY <1>0, SMT
<1> HIDE DEF bit
<1>17. w = bit(1) + bit(2) + bit(4) + bit(8) + bit(16) + bit(32)
             + bit(64) + bit(128) + bit(256) + bit(512) + bit(1024)
             + bit(2048) + bit(4096) + bit(8192) + bit(16384) + bit(32768)
  BY <1>0, <1>1, <1>2, <1>3, <1>4, <1>5, <1>6, <1>7, <1>8, <1>9, <1>10, <1>11,
     <1>12, <1>13, <1>14, <1>15, <1>16, SMT
<1> QED
  BY <1>17 DEF bit

(***************************************************************************)
(* A word or-ed to a time whose lower half is clear completes it.          *)
(***************************************************************************)
LEMMA HalvesJoin ==
    ASSUME NEW v \in Nat, NEW w \in Half
    PROVE  Or16(v * 65536, w) = v * 65536 + w
<1> DEFINE a == v * 65536
           set(x, p) == (x \div p) % 2 = 1
           both(p) == IF set(a, p) \/ set(w, p) THEN p ELSE 0
           bit(p) == IF (w \div p) % 2 = 1 THEN p ELSE 0
<1>0. v \in Int /\ w \in Int
  BY DEF Half
<1>1. /\ both(1) = bit(1) /\ both(2) = bit(2) /\ both(4) = bit(4)
      /\ both(8) = bit(8)
  BY <1>0, SMT
<1>2. /\ both(16) = bit(16) /\ both(32) = bit(32) /\ both(64) = bit(64)
      /\ both(128) = bit(128)
  BY <1>0, SMT
<1>3. /\ both(256) = bit(256) /\ both(512) = bit(512) /\ both(1024) = bit(1024)
      /\ both(2048) = bit(2048)
  BY <1>0, SMT
<1>4. /\ both(4096) = bit(4096) /\ both(8192) = bit(8192)
      /\ both(16384) = bit(16384) /\ both(32768) = bit(32768)
  BY <1>0, SMT
<1>5. a % 65536 = 0 /\ a \in Int
  BY <1>0, SMT
<1>6. Or16(a, w) = (a - (a % 65536)) + both(1) + both(2) + both(4) + both(8)
                     + both(16) + both(32) + both(64) + both(128) + both(256)
                     + both(512) + both(1024) + both(2048) + both(4096)
                     + both(8192) + both(16384) + both(32768)
  BY SMT DEF Or16
<1>7. /\ bit(1) \in Int /\ bit(2) \in Int /\ bit(4) \in Int /\ bit(8) \in Int
      /\ bit(16) \in Int /\ bit(32) \in Int /\ bit(64) \in Int
      /\ bit(128) \in Int /\ bit(256) \in Int /\ bit(512) \in Int
      /\ bit(1024) \in Int /\ bit(2048) \in Int /\ bit(4096) \in Int
      /\ bit(8192) \in Int /\ bit(16384) \in Int /\ bit(32768) \in Int
  BY SMT
<1>8. w = bit(1) + bit(2) + bit(4) + bit(8) + bit(16) + bit(32)
             + bit(64) + bit(128) + bit(256) + bit(512) + bit(1024)
             + bit(2048) + bit(4096) + bit(8192) + bit(16384) + bit(32768)
  BY BitsOfWord
<1> HIDE DEF both, bit, a
<1>9. Or16(a, w) = a + w
  BY <1>0, <1>1, <1>2, <1>3, <1>4, <1>5, <1>6, <1>7, <1>8, SMT
<1> QED
  BY <1>9 DEF a

-----------------------------------------------------------------------------
(* WallClock: the invariant and its steps.                                 *)

Pairs == Positive \X Half

UpType ==
    [pc : {"idle", "high", "low", "convert", "copy", "set_date", "fill_date",
           "put_date", "set_time", "fill_time", "put_time"},
     kind : {"none", "both", "high", "low"}, buf : Pairs, sent : Pairs,
     time : Nat, for : Moment, stamp : Moment, whole : BOOLEAN, calm : BOOLEAN]

OledType ==
    [pc : {"idle", "copy", "set_date", "set_time", "fill", "put"},
     for : Moment, stamp : Moment]

ClockTypes ==
    /\ timeCorrect \in Nat
    /\ rtc \in Moment /\ rtc.day >= MinDay
    /\ tm \in Moment
    /\ up \in UpType
    /\ oled \in OledType
    /\ reader \in [pc : {"idle", "fill"}, now : Moment]
    /\ due \in [known : BOOLEAN, clock : Moment, calm : BOOLEAN]
    /\ count \in [ticks : 0..MaxTicks, frames : Nat, keys : Nat]

\* A frame that was not replaced is put together as it was sent ...
Assembled ==
    up.whole =>
        /\ up.pc \in {"high", "low"} => up.buf = up.sent
        /\ up.pc = "low" => timeCorrect = up.sent[1] * 65536
        /\ up.pc = "convert" => up.time = Sent(up.sent)

\* ... and broken down, if the struct tm is left alone.
BrokenDown ==
    up.whole /\ up.calm =>
        /\ up.pc = "copy" => tm = localtime(Sent(up.sent))
        /\ up.pc \in {"set_date", "fill_date", "put_date", "set_time",
                      "fill_time", "put_time"} => up.for = localtime(Sent(up.sent))

\* set_date leaves the date, which set_time finds and keeps.
DateThenTime ==
    /\ up.pc \in {"fill_date", "put_date"} => up.stamp.day = up.for.day
    /\ up.calm =>
         /\ up.pc \in {"put_date", "put_time"} => tm = up.stamp
         /\ up.for.day >= MinDay =>
              /\ up.pc = "set_time" => rtc.day = up.for.day
              /\ up.pc \in {"fill_time", "put_time"} => up.stamp = up.for

\* The clock is as it was sent until the next frame has set the date.
KeptSince ==
    /\ up.pc \notin {"set_time", "fill_time", "put_time"}
    /\ due.known /\ due.calm
    => rtc = due.clock

ClockInv == ClockTypes /\ Assembled /\ BrokenDown /\ DateThenTime /\ KeptSince

(***************************************************************************)
(* What localtime makes of a time is a day and a second of it.             *)
(***************************************************************************)
LEMMA LocaltimeFits ==
    ASSUME NEW t \in Nat PROVE localtime(t) \in Moment
<1>1. DAY \in Nat /\ DAY > 0
  BY WallClockAssumption
<1>2. t \div DAY \in Nat /\ t % DAY \in 0..(DAY - 1)
  BY <1>1, SMT
<1> QED
  BY <1>2, Zenon DEF localtime, Moment

(***************************************************************************)
(* A second later is a day and a second of it, not an earlier day.         *)
(***************************************************************************)
LEMMA AfterFits ==
    ASSUME NEW m \in Moment PROVE After(m) \in Moment /\ After(m).day >= m.day
<1>1. DAY \in Nat /\ DAY > 0
  BY WallClockAssumption
<1> QED
  BY <1>1 DEF After, Moment

(***************************************************************************)
(* What is or-ed together is a time.                                       *)
(***************************************************************************)
LEMMA OrFits ==
    ASSUME NEW v \in Nat, NEW w \in Half PROVE Or16(v, w) \in Nat
<1> DEFINE set(x, p) == (x \div p) % 2 = 1
           both(p) == IF set(v, p) \/ set(w, p) THEN p ELSE 0
<1>1. /\ both(1) \in Nat /\ both(2) \in Nat /\ both(4) \in Nat /\ both(8) \in Nat
      /\ both(16) \in Nat /\ both(32) \in Nat /\ both(64) \in Nat
      /\ both(128) \in Nat /\ both(256) \in Nat /\ both(512) \in Nat
      /\ both(1024) \in Nat /\ both(2048) \in Nat /\ both(4096) \in Nat
      /\ both(8192) \in Nat /\ both(16384) \in Nat /\ both(32768) \in Nat
  BY SMT
<1>2. v - (v % 65536) \in Nat
  BY SMT
<1>3. Or16(v, w) = (v - (v % 65536)) + both(1) + both(2) + both(4) + both(8)
                     + both(16) + both(32) + both(64) + both(128) + both(256)
                     + both(512) + both(1024) + both(2048) + both(4096)
                     + both(8192) + both(16384) + both(32768)
  BY SMT DEF Or16
<1> HIDE DEF both
<1> QED
  BY <1>1, <1>2, <1>3, SMT

(***************************************************************************)
(* The uart thread at rest, the first moment and the empty pair have their *)
(* types.                                                                  *)
(***************************************************************************)
LEMMA IdleFits == Idle \in UpType /\ Midnight \in Moment /\ Nothing \in Pairs
BY WallClockAssumption DEF Idle, UpType, Midnight, Moment, Nothing, Pairs, Positive, Half

(***************************************************************************)
(* The steps of the uart thread keep the invariant.                        *)
(***************************************************************************)
LEMMA UartStep == ClockInv /\ UartSets => ClockInv'
<1> SUFFICES ASSUME ClockInv, UartSets PROVE ClockInv'
  OBVIOUS
<1> USE DEF ClockInv
<1>0. Times \subseteq Pairs /\ MinDay \in Nat
  BY WallClockAssumption DEF Pairs
<1>1. CASE Take
  <2>1. PICK kind \in {"both", "high", "low"}, pair \in Times :
          up' = [Idle EXCEPT !.pc = IF kind = "low" THEN "low" ELSE "high",
                             !.kind = kind, !.buf = pair,
                             !.sent = IF kind = "both" THEN pair ELSE Nothing,
                             !.whole = (kind = "both")]
    BY <1>1 DEF Take
  <2>2. /\ up'.pc = (IF kind = "low" THEN "low" ELSE "high") /\ up'.buf = pair
        /\ up'.sent = (IF kind = "both" THEN pair ELSE Nothing)
        /\ up'.whole = (kind = "both")
    BY <2>1 DEF Idle
  <2>3. up' \in UpType
    BY <1>0, <2>1, IdleFits DEF UpType
  <2>4. ClockTypes'
    BY <1>1, <2>3 DEF Take, ClockTypes, threads
  <2>5. up'.pc \in {"high", "low"} /\ (up'.whole => up'.pc = "high" /\ up'.buf = up'.sent)
    BY <2>2
  <2>6. Assembled' /\ BrokenDown' /\ DateThenTime'
    BY <2>5 DEF Assembled, BrokenDown, DateThenTime
  <2>7. KeptSince'
    BY <1>1, <2>5 DEF Take, KeptSince
  <2> QED
    BY <2>4, <2>6, <2>7
<1>2. CASE Replace
  <2>1. PICK pair \in Times :
          up' = [up EXCEPT !.buf = pair, !.sent = Nothing, !.whole = FALSE]
    BY <1>2 DEF Replace
  <2>2. up' \in UpType /\ ~up'.whole /\ up'.pc = up.pc
    BY <1>0, <2>1, IdleFits DEF ClockTypes, UpType
  <2>3. ClockTypes'
    BY <1>2, <2>2 DEF Replace, ClockTypes, threads
  <2> QED
    BY <1>2, <2>2, <2>3 DEF Replace, Assembled, BrokenDown, DateThenTime, KeptSince
<1>3. CASE High
  <2>1. up.buf[1] \in Nat
    BY DEF ClockTypes, UpType, Pairs, Positive
  <2>2. timeCorrect' = up.buf[1] * 65536 /\ timeCorrect' \in Nat
    BY <1>3, <2>1 DEF High, HighHalf
  <2>3. CASE up.kind = "high"
    <3>1. up' = Idle
      BY <1>3, <2>3 DEF High
    <3>2. ClockTypes'
      BY <1>3, <2>2, <3>1, IdleFits DEF High, ClockTypes, threads
    <3>3. up'.pc = "idle"
      BY <3>1 DEF Idle
    <3> QED
      BY <1>3, <3>2, <3>3 DEF High, Assembled, BrokenDown, DateThenTime, KeptSince
  <2>4. CASE up.kind # "high"
    <3>1. up' = [up EXCEPT !.pc = "low"]
      BY <1>3, <2>4 DEF High
    <3>2. up' \in UpType /\ up'.pc = "low" /\ up'.buf = up.buf /\ up'.sent = up.sent
          /\ up'.whole = up.whole
      BY <3>1 DEF ClockTypes, UpType
    <3>3. ClockTypes'
      BY <1>3, <2>2, <3>2 DEF High, ClockTypes, threads
    <3> QED
      BY <1>3, <2>2, <3>2, <3>3 DEF High, Assembled, BrokenDown, DateThenTime, KeptSince
  <2> QED
    BY <2>3, <2>4
<1>4. CASE Low
  <2>1. up.buf[2] \in Half /\ up.sent[1] \in Nat
    BY DEF ClockTypes, UpType, Pairs, Positive
  <2>2. timeCorrect' = Or16(timeCorrect, up.buf[2]) /\ timeCorrect' \in Nat
    BY <1>4, <2>1, OrFits DEF Low, ClockTypes
  <2>3. up' = [up EXCEPT !.pc = "convert", !.time = timeCorrect', !.buf = Nothing]
    BY <1>4 DEF Low
  <2>4. up' \in UpType /\ up'.pc = "convert" /\ up'.time = timeCorrect'
        /\ up'.sent = up.sent /\ up'.whole = up.whole
    BY <2>2, <2>3, IdleFits DEF ClockTypes, UpType
  <2>5. up.whole => timeCorrect' = Sent(up.sent)
    <3> SUFFICES ASSUME up.whole PROVE timeCorrect' = Sent(up.sent)
      OBVIOUS
    <3>1. timeCorrect = up.sent[1] * 65536 /\ up.buf = up.sent
      BY <1>4 DEF Low, Assembled
    <3> QED
      BY <2>1, <2>2, <3>1, HalvesJoin DEF Sent
  <2>6. ClockTypes'
    BY <1>4, <2>2, <2>4 DEF Low, ClockTypes, threads
  <2> QED
    BY <1>4, <2>4, <2>5, <2>6 DEF Low, Assembled, BrokenDown, DateThenTime, KeptSince
<1>5. CASE Convert
  <2>1. up' = [up EXCEPT !.pc = "copy"] /\ tm' = localtime(up.time)
    BY <1>5 DEF Convert
  <2>2. up' \in UpType /\ up'.pc = "copy" /\ up'.sent = up.sent /\ up'.whole = up.whole
    BY <2>1 DEF ClockTypes, UpType
  <2>3. tm' \in Moment
    BY <2>1, LocaltimeFits DEF ClockTypes, UpType
  <2>4. ClockTypes'
    BY <1>5, <2>2, <2>3 DEF Convert, ClockTypes, threads
  <2>5. up.whole => up.time = Sent(up.sent)
    BY <1>5 DEF Convert, Assembled
  <2> QED
    BY <1>5, <2>1, <2>2, <2>4, <2>5 DEF Convert, Assembled, BrokenDown, DateThenTime, KeptSince
<1>6. CASE CopyFields
  <2>1. up' = [up EXCEPT !.pc = "set_date", !.for = tm, !.time = 0]
    BY <1>6 DEF CopyFields
  <2>2. up' \in UpType /\ up'.pc = "set_date" /\ up'.for = tm /\ up'.sent = up.sent
        /\ up'.whole = up.whole /\ up'.calm = up.calm
    BY <2>1 DEF ClockTypes, UpType
  <2>3. ClockTypes'
    BY <1>6, <2>2 DEF CopyFields, ClockTypes, threads
  <2> QED
    BY <1>6, <2>2, <2>3 DEF CopyFields, Assembled, BrokenDown, DateThenTime, KeptSince
<1>7. CASE ReadDate
  <2>1. up' = [up EXCEPT !.pc = "fill_date", !.stamp = WithDate(up.for)] /\ tm' = rtc
    BY <1>7 DEF ReadDate
  <2>2. WithDate(up.for) \in Moment /\ WithDate(up.for).day = up.for.day
    BY DEF WithDate, Moment, ClockTypes, UpType
  <2>3. up' \in UpType /\ up'.pc = "fill_date" /\ up'.for = up.for /\ up'.sent = up.sent
        /\ up'.whole = up.whole /\ up'.calm = up.calm /\ up'.stamp.day = up.for.day
    BY <2>1, <2>2 DEF ClockTypes, UpType
  <2>4. ClockTypes'
    BY <1>7, <2>1, <2>3 DEF ReadDate, ClockTypes, threads
  <2> QED
    BY <1>7, <2>3, <2>4 DEF ReadDate, Assembled, BrokenDown, DateThenTime, KeptSince
<1>8. CASE FillDate
  <2>1. up' = [up EXCEPT !.pc = "put_date"] /\ tm' = up.stamp
    BY <1>8 DEF FillDate
  <2>2. up' \in UpType /\ up'.pc = "put_date" /\ up'.for = up.for /\ up'.sent = up.sent
        /\ up'.whole = up.whole /\ up'.calm = up.calm /\ up'.stamp = up.stamp
        /\ up.stamp \in Moment
    BY <2>1 DEF ClockTypes, UpType
  <2>3. ClockTypes'
    BY <1>8, <2>1, <2>2 DEF FillDate, ClockTypes, threads
  <2> QED
    BY <1>8, <2>1, <2>2, <2>3 DEF FillDate, Assembled, BrokenDown, DateThenTime, KeptSince
<1>9. CASE PutDate
  <2>1. up' = [up EXCEPT !.pc = "set_time", !.stamp = Midnight]
    BY <1>9 DEF PutDate
  <2>2. up' \in UpType /\ up'.pc = "set_time" /\ up'.for = up.for /\ up'.sent = up.sent
        /\ up'.whole = up.whole /\ up'.calm = up.calm
    BY <2>1, IdleFits DEF ClockTypes, UpType
  <2>3. rtc' = IF tm.day < MinDay THEN rtc ELSE tm
    BY <1>9 DEF PutDate, SetClock
  <2>4. rtc' \in Moment /\ rtc'.day >= MinDay
    BY <1>0, <2>3 DEF ClockTypes, Moment
  <2>5. ClockTypes'
    BY <1>9, <2>2, <2>4 DEF PutDate, ClockTypes, threads
  <2>6. up.calm /\ up.for.day >= MinDay => rtc'.day = up.for.day
    <3>1. up.calm => tm.day = up.for.day
      BY <1>9 DEF PutDate, DateThenTime
    <3>2. up.for.day \in Nat
      BY DEF ClockTypes, UpType, Moment
    <3> QED
      BY <1>0, <2>3, <3>1, <3>2
  <2> QED
    BY <1>9, <2>2, <2>5, <2>6 DEF PutDate, Assembled, BrokenDown, DateThenTime, KeptSince
<1>10. CASE ReadTime
  <2>1. up' = [up EXCEPT !.pc = "fill_time", !.stamp = WithTime(up.for)] /\ tm' = rtc
    BY <1>10 DEF ReadTime
  <2>2. WithTime(up.for) \in Moment
    BY DEF WithTime, Moment, ClockTypes, UpType
  <2>3. up' \in UpType /\ up'.pc = "fill_time" /\ up'.for = up.for /\ up'.sent = up.sent
        /\ up'.whole = up.whole /\ up'.calm = up.calm /\ up'.stamp = WithTime(up.for)
    BY <2>1, <2>2 DEF ClockTypes, UpType
  <2>4. ClockTypes'
    BY <1>10, <2>1, <2>3 DEF ReadTime, ClockTypes, threads
  <2>5. up.calm /\ up.for.day >= MinDay => WithTime(up.for) = up.for
    <3>1. up.calm /\ up.for.day >= MinDay => rtc.day = up.for.day
      BY <1>10 DEF ReadTime, DateThenTime
    <3>2. up.for \in Moment
      BY DEF ClockTypes, UpType
    <3> QED
      BY <3>1, <3>2 DEF WithTime, Moment
  <2> QED
    BY <1>10, <2>3, <2>4, <2>5 DEF ReadTime, Assembled, BrokenDown, DateThenTime, KeptSince
<1>11. CASE FillTime
  <2>1. up' = [up EXCEPT !.pc = "put_time"] /\ tm' = up.stamp
    BY <1>11 DEF FillTime
  <2>2. up' \in UpType /\ up'.pc = "put_time" /\ up'.for = up.for /\ up'.sent = up.sent
        /\ up'.whole = up.whole /\ up'.calm = up.calm /\ up'.stamp = up.stamp
        /\ up.stamp \in Moment
    BY <2>1 DEF ClockTypes, UpType
  <2>3. ClockTypes'
    BY <1>11, <2>1, <2>2 DEF FillTime, ClockTypes, threads
  <2> QED
    BY <1>11, <2>1, <2>2, <2>3 DEF FillTime, Assembled, BrokenDown, DateThenTime, KeptSince
<1>12. CASE PutTime
  <2> DEFINE sent == localtime(Sent(up.sent))
  <2>1. up' = Idle /\ up'.pc = "idle" /\ up'.whole = FALSE
    BY <1>12 DEF PutTime, Idle
  <2>2. rtc' = IF tm.day < MinDay THEN rtc ELSE tm
    BY <1>12 DEF PutTime, SetClock
  <2>3. rtc' \in Moment /\ rtc'.day >= MinDay
    BY <1>0, <2>2 DEF ClockTypes, Moment
  <2>4. sent \in Moment
    <3>1. Sent(up.sent) \in Nat
      BY DEF Sent, ClockTypes, UpType, Pairs, Positive, Half
    <3> QED
      BY <3>1, LocaltimeFits
  <2> HIDE DEF sent
  <2>5. due' = IF up.whole /\ sent.day >= MinDay
               THEN [known |-> TRUE, clock |-> sent, calm |-> up.calm]
               ELSE NoDue
    BY <1>12 DEF PutTime, sent
  <2>6. due' \in [known : BOOLEAN, clock : Moment, calm : BOOLEAN]
    BY <2>4, <2>5, IdleFits DEF NoDue, ClockTypes, UpType
  <2>7. ClockTypes'
    BY <1>12, <2>1, <2>3, <2>6, IdleFits DEF PutTime, ClockTypes, threads
  <2>8. ASSUME due'.known, due'.calm PROVE rtc' = due'.clock
    <3>1. up.whole /\ sent.day >= MinDay /\ due'.clock = sent /\ up.calm
      BY <2>5, <2>8 DEF NoDue
    <3>2. up.for = sent /\ tm = up.stamp
      BY <1>12, <3>1 DEF PutTime, BrokenDown, DateThenTime, sent
    <3>3. up.stamp = up.for
      BY <1>12, <3>1, <3>2 DEF PutTime, DateThenTime
    <3>4. sent.day \in Nat
      BY <2>4 DEF Moment
    <3> QED
      BY <1>0, <2>2, <3>1, <3>2, <3>3, <3>4
  <2> QED
    BY <2>1, <2>7, <2>8 DEF Assembled, BrokenDown, DateThenTime, KeptSince
<1> QED
  BY <1>1, <1>2, <1>3, <1>4, <1>5, <1>6, <1>7, <1>8, <1>9, <1>10, <1>11, <1>12
     DEF UartSets

(***************************************************************************)
(* So do the clock and the main thread: what they disturb is not calm.     *)
(***************************************************************************)
LEMMA OthersStep == ClockInv /\ (Tick \/ MainReads \/ MainFills) => ClockInv'
<1> SUFFICES ASSUME ClockInv, Tick \/ MainReads \/ MainFills PROVE ClockInv'
  OBVIOUS
<1> USE DEF ClockInv
<1>1. CASE Tick
  <2>1. /\ count.ticks < MaxTicks
        /\ count' = [count EXCEPT !.ticks = @ + 1]
        /\ rtc' = After(rtc)
        /\ due' = [due EXCEPT !.clock = After(@)]
        /\ up' = [up EXCEPT !.calm = @ /\ ~(up.pc = "set_time" /\ rtc.sec = DAY - 1)]
        /\ UNCHANGED <<timeCorrect, tm, oled, reader>>
    BY <1>1 DEF Tick
  <2>2. rtc' \in Moment /\ rtc'.day >= MinDay
    <3>1. rtc' \in Moment /\ rtc'.day >= rtc.day /\ rtc.day >= MinDay
      BY <2>1, AfterFits DEF ClockTypes
    <3>2. rtc.day \in Nat /\ rtc'.day \in Nat /\ MinDay \in Nat
      BY <3>1, WallClockAssumption DEF ClockTypes, Moment
    <3> QED
      BY <3>1, <3>2
  <2>3. /\ due' \in [known : BOOLEAN, clock : Moment, calm : BOOLEAN]
        /\ due'.known = due.known /\ due'.calm = due.calm
        /\ due'.clock = After(due.clock)
    BY <2>1, AfterFits DEF ClockTypes
  <2>4. /\ up' \in UpType
        /\ up'.pc = up.pc /\ up'.buf = up.buf /\ up'.sent = up.sent
        /\ up'.time = up.time /\ up'.for = up.for /\ up'.stamp = up.stamp
        /\ up'.whole = up.whole
        /\ up'.calm => up.calm /\ ~(up.pc = "set_time" /\ rtc.sec = DAY - 1)
    BY <2>1 DEF ClockTypes, UpType
  <2>5. count' \in [ticks : 0..MaxTicks, frames : Nat, keys : Nat]
    BY <2>1, WallClockAssumption DEF ClockTypes
  <2>6. ClockTypes'
    BY <2>1, <2>2, <2>3, <2>4, <2>5 DEF ClockTypes
  <2>7. up'.calm /\ up.pc = "set_time" => rtc'.day = rtc.day
    <3>1. rtc.sec # DAY - 1 => After(rtc).day = rtc.day
      BY DEF After, ClockTypes, Moment
    <3> QED
      BY <2>1, <2>4, <3>1
  <2>8. Assembled' /\ BrokenDown'
    BY <2>1, <2>4 DEF Assembled, BrokenDown
  <2>9. DateThenTime'
    BY <2>1, <2>4, <2>7 DEF DateThenTime
  <2>10. KeptSince'
    BY <2>1, <2>3, <2>4 DEF KeptSince
  <2> QED
    BY <2>6, <2>8, <2>9, <2>10
<1>2. CASE MainReads
  BY <1>2 DEF MainReads, ClockTypes, Assembled, BrokenDown, DateThenTime, KeptSince
<1>3. CASE MainFills
  <2>1. /\ tm' = reader.now
        /\ reader' = [pc |-> "idle", now |-> Midnight]
        /\ up' = [up EXCEPT !.calm = @ /\ up.pc \notin {"copy", "put_date", "put_time"}]
        /\ UNCHANGED <<timeCorrect, rtc, oled, due, count>>
    BY <1>3 DEF MainFills
  <2>2. /\ up' \in UpType
        /\ up'.pc = up.pc /\ up'.buf = up.buf /\ up'.sent = up.sent
        /\ up'.time = up.time /\ up'.for = up.for /\ up'.stamp = up.stamp
        /\ up'.whole = up.whole
        /\ up'.calm => up.calm /\ up.pc \notin {"copy", "put_date", "put_time"}
    BY <2>1 DEF ClockTypes, UpType
  <2>3. ClockTypes'
    BY <2>1, <2>2, IdleFits DEF ClockTypes
  <2> QED
    BY <2>1, <2>2, <2>3 DEF Assembled, BrokenDown, DateThenTime, KeptSince
<1> QED
  BY <1>1, <1>2, <1>3

(***************************************************************************)
(* And the panel, which runs while no frame is executed and ends what is   *)
(* due once it has set the clock.                                          *)
(***************************************************************************)
LEMMA PanelStep == ClockInv /\ PanelSets => ClockInv'
<1> SUFFICES ASSUME ClockInv, PanelSets PROVE ClockInv'
  OBVIOUS
<1> USE DEF ClockInv
<1>0. up' = up /\ up.pc = "idle"
  BY DEF PanelSets, PageReads, KeyChanges, KeyReads, KeyFills, KeyPuts
<1>1. ASSUME ClockTypes', rtc' = rtc /\ due' = due PROVE ClockInv'
  BY <1>0, <1>1 DEF Assembled, BrokenDown, DateThenTime, KeptSince
<1>2. CASE PageReads
  <2>1. oled' \in OledType /\ count' \in [ticks : 0..MaxTicks, frames : Nat, keys : Nat]
    BY <1>2 DEF PageReads, ClockTypes, OledType
  <2>2. ClockTypes'
    BY <1>2, <2>1 DEF PageReads, ClockTypes
  <2> QED
    BY <1>1, <1>2, <2>2 DEF PageReads
<1>3. CASE KeyChanges
  <2>1. oled' \in OledType
    <3>1. /\ \A day \in PanelDays : [tm EXCEPT !.day = day] \in Moment
          /\ \A sec \in PanelSeconds : [tm EXCEPT !.sec = sec] \in Moment
      BY WallClockAssumption DEF ClockTypes, Moment
    <3>2. PICK m \in Moment, pc \in {"set_date", "set_time"} :
            oled' = [oled EXCEPT !.pc = pc, !.for = m]
      BY <1>3, <3>1, Zenon DEF KeyChanges
    <3> QED
      BY <3>2 DEF ClockTypes, OledType
  <2>2. ClockTypes'
    BY <1>3, <2>1 DEF KeyChanges, ClockTypes
  <2> QED
    BY <1>1, <1>3, <2>2 DEF KeyChanges
<1>4. CASE KeyReads
  <2>1. oled' \in OledType
    <3>1. WithDate(oled.for) \in Moment /\ WithTime(oled.for) \in Moment
      BY DEF WithDate, WithTime, ClockTypes, OledType, Moment
    <3> QED
      BY <1>4, <3>1 DEF KeyReads, ClockTypes, OledType
  <2>2. ClockTypes'
    BY <1>4, <2>1 DEF KeyReads, ClockTypes
  <2> QED
    BY <1>1, <1>4, <2>2 DEF KeyReads
<1>5. CASE KeyFills
  <2>1. oled' \in OledType /\ oled.stamp \in Moment
    BY <1>5 DEF KeyFills, ClockTypes, OledType
  <2>2. ClockTypes'
    BY <1>5, <2>1 DEF KeyFills, ClockTypes
  <2> QED
    BY <1>1, <1>5, <2>2 DEF KeyFills
<1>6. CASE KeyPuts
  <2>1. oled' \in OledType /\ due' = NoDue /\ ~due'.known
        /\ due' \in [known : BOOLEAN, clock : Moment, calm : BOOLEAN]
    BY <1>6, IdleFits DEF KeyPuts, Ready, NoDue, OledType
  <2>2. rtc' \in Moment /\ rtc'.day >= MinDay
    BY <1>6, WallClockAssumption DEF KeyPuts, SetClock, ClockTypes, Moment
  <2>3. ClockTypes'
    BY <1>6, <2>1, <2>2 DEF KeyPuts, ClockTypes
  <2> QED
    BY <1>0, <2>1, <2>3 DEF Assembled, BrokenDown, DateThenTime, KeptSince
<1> QED
  BY <1>2, <1>3, <1>4, <1>5, <1>6 DEF PanelSets

(***************************************************************************)
(* The invariant of the clock, in every reachable state.                   *)
(***************************************************************************)
THEOREM ClockInvariant == CSpec => []ClockInv
<1>1. CInit => ClockInv
  <2> SUFFICES ASSUME CInit PROVE ClockInv
    OBVIOUS
  <2>1. up = Idle /\ up.pc = "idle" /\ ~due.known /\ due.clock = Midnight
    BY DEF CInit, Idle, NoDue
  <2>2. Midnight \in Moment /\ Midnight.day >= MinDay
    BY IdleFits, WallClockAssumption DEF Midnight
  <2>3. ClockTypes
    BY <2>1, <2>2, IdleFits, WallClockAssumption
       DEF CInit, ClockTypes, NoDue, Ready, OledType
  <2> QED
    BY <2>1, <2>3 DEF ClockInv, Assembled, BrokenDown, DateThenTime, KeptSince
<1>2. ClockInv /\ [CNext]_cvars => ClockInv'
  <2>1. ClockInv /\ UNCHANGED cvars => ClockInv'
    BY DEF cvars, ClockInv, ClockTypes, Assembled, BrokenDown, DateThenTime, KeptSince
  <2> QED
    BY <2>1, UartStep, OthersStep, PanelStep DEF CNext
<1> QED
  BY <1>1, <1>2, PTL DEF CSpec

(***************************************************************************)
(* The clock never shows a day it cannot hold, for every pair of halves,   *)
(* whatever the keys set and whoever used the struct tm (set_rtc_time_stamp*)
(* refuses a year before 2000).                                            *)
(***************************************************************************)
THEOREM ClockIsAlwaysValid == CSpec => []ClockTypeOK
<1>1. ClockInv => ClockTypeOK
  BY DEF ClockInv, ClockTypes, ClockTypeOK
<1> QED
  BY <1>1, ClockInvariant, PTL

(***************************************************************************)
(* Between frames the clock shows the time the host sent, advanced by the  *)
(* seconds since, for every time, every earlier frame and every moment in  *)
(* which set_date and set_time read the clock, if nothing came between the *)
(* steps that belong together (REG_NOW_TIME1 of ModbusCommand).            *)
(***************************************************************************)
THEOREM ClockIsATimeSent == CSpec => []ClockIsSent
<1>1. ClockInv => ClockIsSent
  BY DEF ClockInv, KeptSince, ClockIsSent
<1> QED
  BY <1>1, ClockInvariant, PTL
=============================================================================
