# Hvac: a TLA+ verification of the thermostat module

The program is the firmware of an HVAC module (STM32, RT-Thread): a thermostat
that drives five relays (W, Y, G, W2, Y2), a slave on an RS-485 Modbus bus, an
OLED panel with three keys. All of its own logic is under
`src/Hvac/Hvac/applications`; the rest of the repository is RT-Thread, the
STM32 HAL, CMSIS, generated project files and documents. Paths below are
relative to `applications` unless they start with `src/`.

This file has the inventory of the system, the correspondence of the modules
with the code, what the runs and the proofs show, what the code does that its
comments do not say, and what is still to be done.

## 1. The system

### Threads

| thread | priority, slice | period | runs |
|---|---|---|---|
| UART receive interrupt | above all threads | per frame | `Uart1_input` |
| main | 10, 20 | 20 ms loop with a 1 s block | `TimeRunning`, `ControlProgram`, `MonitorConnectedState`, `LedProgram` |
| uart_task | 10, 8 | 20 ms loop; 1 s and 10 s blocks | `Uart1Analysis` or `SendMsgHandle`; registration request, `SaveGlobalInfo` |
| oled_task | 20 | 100 ms loop with a 1 s block | pages, menu, what the keys change, back light |
| button_task | 22 | 20 ms loop | key scan, debounce, key callbacks |

main and uart_task have the same priority and are time-sliced; the interrupt
preempts both. There is no mutex, semaphore or disabled interrupt anywhere in
the applications: all communication goes through globals that are read and
written in place (`gInfo`, `sensorInfo`, `actionInfo`, `timeRun`,
`lastConnectTime`, `uart1_msg`, `sendMsgList`, `pageSelect`), and through the one
struct tm that `localtime` returns to every thread. This is the
main source of behaviour that tests hardly reach.

### Components

| component | state | operations | what makes it correct |
|---|---|---|---|
| **Thermostat control** (`Control/Control.c`) | `gInfo`, `sensorInfo`, `actionInfo`, statics of `ControlProgram` (`lastTime`, `lastTemp`, `stage`, `CoolOrHeat`), the relays | `ControlProgram`, `CtrlRelay`, `GetSetPoint`, `GetTempValue`, `IdentifyDaYAndNight`, `SetActionInfo`, `MonitorConnectedState` | relays always those of the wiring table for the reported demand and stage; idle means released; never drives away from the set point; second stage only when earned; a lasting demand is served |
| **Main loop** (`main.c`) | `timeRun`, statics of `LedProgram` | one-second block, LED and locate | the blocks run in order and again and again; a request to locate is honoured and ends |
| **Link to the host** (`Uart/UartDataLayer.c`, `Uart/Uart.c`) | `uart1_msg` (one buffer, one flag), `registerState`, `addr`, `connected`, `lastConnectTime` | `Uart1_input`, `UartEntry`, `Uart1Analysis`, `ModbusCommandAnalysis`, `GenerateRegisterData` | no wake-up lost; commands for others not executed; registration lasts no longer than the contact; a lost registration is made good |
| **Register map** (`Uart/UartDataLayer.c`, `ModbusCommand`) | the settings | reads and writes of registers | a read tells what was last set, by the host or on the panel |
| **Real-time clock** (`Uart/UartDataLayer.c`, `main.c`; `set_date`, `set_time` of RT-Thread, `drivers/drv_rtc.c`) | the clock, the static `timeCorrect`, the struct tm of `localtime` | two registers of the host, date and time on the panel, `getTimeForMat` | the clock shows a valid day, and the time that was sent |
| **Send and receive lists** (`Uart/Communicate.c`) | `sendMsgList` | `AddToSendMsgList`, `RemoveFromSendMsgList`, `SendMsgHandle` | bounded; each kept message sent once; drains |
| **Saved settings** (`Uart/Uart.c`) | flash page, `last_crc` | `TakeGlobalInfo`, `SaveGlobalInfo`, `flash_write` | after a reset: the last saved settings, or defaults, never a mixture |
| **Keys** (`Button/ButtonTask.c`) | per key state, `continue_time` | scan, debounce, short and long press | each press reported as what it was, once |
| **Pages and menu** (`Oled/Oled.c`, `Oled/Pages.c`) | page stack, cursor, edit mode | key callbacks, page functions | what is drawn exists; only the value chosen is changed; keys are served; returns home |
| **Temperature sensor** (`Adc/Ntc.c`) | list of ten samples | `GetNtcValue`, `Res2Temp` | no node freed twice under two callers; the temperature of the curve |
| **Pins and timers** (`Gpio/Gpio.c`) | timers, locate flag | `TimerTask`, `GpioInit`, locate | periods |
| **Checksums** (`crc_32.c`, `Gpio/Gpio.c`) | none | CRC16, CRC32 | pure bit arithmetic |
| **Display driver, fonts** (`Oled/st7567`) | frame buffer | drawing | rendering only |
| **Board, RTOS, HAL** | | | third-party |

### How they interact

A frame arrives: the interrupt overwrites the single buffer and, if checksum and
address fit, sets `messageFlag`. At its next poll uart_task clears the flag and
analyses *the live buffer*. A registration answer sets `registerState` and
`addr`; a command for this module is passed to `ModbusCommand`, which writes
settings, sensor data or the action in place and queues a reply. Each analysis
that got that far ends with `SetLastConnectTime(GetTimeRun())`. A poll that
finds nothing received sends one entry of the list. Every 10 s uart_task asks for
registration if it is not registered, and saves the settings if they changed.
Meanwhile, each second, the main thread advances `timeRun`, runs the controller
on whatever the other threads have left in the globals, and decides from
`lastConnectTime` whether the link is up; if not it takes back the
registration. The panel changes the same settings.

### What is hard

`PROJECT.json` lists the hazards, each at its line. The main groups are: the
single receive buffer read several times while the interrupt may replace it; two
threads writing `registerState` in opposite senses around a time-out; 0 meaning
"never" in `lastConnectTime` while a frame in the first second stores 0; timers
left running over an interruption of the data; a relay table in which every row
must write every pin; signed and unsigned conversions around set point and dead
band; a list searched by content with a partial comparison; a checksum taken over
a live structure; settings erased before they are programmed; relays written pin
by pin and a command stored field by field while another thread of the same
priority may run; key callbacks overtaken by the thread that draws; a sample
list with two owners; a reply copied from a buffer after it was tested; a clock
set in two halves through a struct tm another thread uses.

## 2. Modules

| module | models | composed with |
|---|---|---|
| `Relays` | `CtrlRelay` as a function on the set of energised relays; the wiring of the requirements, stated by what each terminal is for | extended by `Control` |
| `MenuItems` | the positions, lines, limits and steps of the settings menu | extended by `Control`, `Registers` and `Ui` |
| `Control` | the one-second block, the host's register writes, the panel's changes | `Relays`, `MenuItems` |
| `Sensor` | the NTC table and the search of `Res2Temp` | `MCControl` |
| `MCControl` | inputs a cfg cannot write, readings of the sensor among them | `Control`, `Sensor` |
| `ControlProofs` | lemmas and theorems about `Control`, `RelayDrive` and `Sensor` | `RelayDrive`, `MCControl` |
| `RelayDrive` | `Control` access by access and pin by pin, with the uart thread in between | extends `Control` |
| `MCRelayDrive` | one input | `RelayDrive` |
| `Registers` | the register map, the keys that change the same settings, `LedProgram` and the locate flag, restarts | `MenuItems` |
| `MCRegisters` | blocks of registers | `Registers` |
| `WallClock` | how the host and the keys set the real-time clock, step by step on the struct tm the threads share | |
| `MCWallClock` | two times | `WallClock` |
| `RegistersProofs` | lemmas on words and bits, invariants and theorems | `Registers`, `WallClock` |
| `Ui` | the oled thread and the key callbacks on the page they share | `MenuItems` |
| `UiProofs` | invariants of the stack, the edit mode and the cursor | `Ui` |
| `Button` | one key, scan by scan | |
| `ButtonProofs` | invariant and theorems | `Button` |
| `Ntc` | the sample list under two threads | |
| `Messages` | the list operators of `Communicate.c` (capacity and length checks, duplicate test, insertion, removal by content) as pure operators | extended by `SendList` and `Uart` |
| `Outbox` | abstract specification: a bounded set of pending messages | instantiated by `SendList` |
| `SendList` | the send list as a component of its own | implements `Outbox` |
| `MCSendList` | messages of every length and one too long | `SendList` |
| `MessagesProofs`, `SendListProofs` | lemmas on the operators; invariant and refinement | |
| `Uart` | interrupt, uart thread and link monitor, step by step on shared state | `Messages` |
| `MCUart` | the frames of the runs | `Uart` |
| `UartProofs` | invariants of `Uart` | `Uart` |
| `Store` | abstract specification: at most one record, committed as a whole | instantiated by `FlashStore` |
| `FlashStore` | saving to and restoring from flash, one step per operation on the flash | implements `Store` |
| `MCFlashStore` | four fields at their real offsets, a small ideal checksum | `FlashStore` |
| `FlashStoreProofs` | invariants of `FlashStore`, refinement | `FlashStore` |

Definitions carry the names of the C functions where there is one. `PROJECT.json`
maps each to its lines. Definitions introduced as "a slip" are mutated forms of
the definition that follows them; no specification uses them.

### Control

One action, `Second`, is the whole one-second block of the main thread:
`TimeRunning`, then `ControlProgram` in one of its three ways out (`NoData`,
`Disabled`, `Run`), then `MonitorConnectedState`. Its inputs are two readings of
the NTC (the code samples twice: the first reading decides whether there is a
temperature, the second is the temperature) and the clock. The environment
actions are the frames the uart thread executes, one action per kind of register
(`RegisterFrame`, `WriteSetting`, `WriteCtrl`, `WriteTemp`, `OtherFrame`), and
what the panel changes (`Panel`). Register values are 16-bit and are converted
as the assignments convert them: `ToU8` for byte fields, `ToS16` for set points,
unsigned for the temperature, bit fields for `REG_CTRL`.

*Ages.* The code stores absolute values of `timeRun` and only ever asks whether
`timeRun` has passed one of them by more than a limit. The model keeps the number
of seconds since, saturated one past the limit, which answers the same
questions and has finitely many values. `lastConnectTime = 0` ("never") is
`~link.heard`; a frame before the first second ends stores 0, so `heard` becomes
`started`. `timeRun` is 32 bits of seconds and its overflow (136 years) is left
out.

`local` holds the temperature, the set point and the wiring mode that
`ControlProgram` worked with, so that properties can speak of them after a
setting has changed.

`Init` has the defaults of `TakeGlobalInfo`, and for `connected` and `CoolOrHeat`
what a saved record may bring back. The relays are released at power-up.

*Granularity.* `Second` is atomic here; `RelayDrive` takes it apart.

### RelayDrive

The same one-second block, a step per access to shared state: `mpc` is where the
main thread is. `Wake` is `TimeRunning`; `ReadTemp`, `ReadType`, `ReadPoint` and
`ReadMode` load what `ControlProgram` works with; `DecideStop` and `DecideRun`
write `info->CoolOrHeat` and the statics; `Output` tests the link and calls
`CtrlRelay`; `Drive` is one `rt_pin_write` of that call or its return; `Monitor`
ends the block. `call` holds the pins still to be written, in the order of the
statements (`Rank`): the pins switched on come first. The uart thread begins a
command with `BeginCtrl` and stores its three fields one by one in any order
(`StoreField`: they are plain memory, so the compiler may reorder them); its other frames change shared state in
one store and are `Control`'s actions. The panel belongs to a thread of lower
priority and changes settings only between the blocks (`Keys`). `CtrlRelay`
tests the mode up to three times before it writes the first pin; the build
optimises (-Os) and loads the field, which is not volatile, once for these
tests, so the model reads it once per call, at its beginning.

### MenuItems, Ui

`MenuItems` has the 18 positions of the cursor on the settings page, their menu
lines, and the steps of their values: `AddData` and `SubData` go round within
limits; set points and dead band have rules of their own.

In `Ui` a pass of the oled thread (`OledPass`) is one step: it has the higher
priority and does not block inside a pass. It opens a new page (`Opened`), draws
(`pageProgram`, with `HomeProgram` or `SettingProgram`), and once a second
monitors the back light. A key callback of the button thread takes a step per
access (`LoadStack` to `SetFlag`), and a pass may fall between any two of them. The
page stack is the 64-bit word of the code, a byte a page. `Press` is the report
of `Button`; that no callback runs before the first pass is
`Button`'s `FirstReportIsLate`. `Overtakes` bounds the passes
that may fall into one callback: the thread sleeps 100 ms between two passes and
a callback takes microseconds, so it is at most 1 (`SleepAssumption`). `waits` and `edit` are
history variables.

### Button

`Buttonprogram` for one key; the keys share nothing. A scan is a step. `Finger`
bounds what the finger does: a press of at most `MaxHold` scans (3279, 65.5 s,
where the 16-bit time wraps into the range of a short press) and a release of at
least two. `held`, `gap`, `shorts`, `longs` and `scans` are history variables,
which say what was pressed and what was reported.

### Registers

The uart thread executes a frame register by register: `ReadFrame`/`ReadRegister`
and `WriteFrame`/`WriteRegister`, then `Answer`. The value of a write is taken from
the receive buffer only when it is the register's turn, and the interrupt may have
put another frame there: it is any value a buffer may hold. `test` is carried from
one register of a read to the next, as in the code. Fields keep their C width
(`Stored`). A key on the settings page loads a value and steps it (`KeyLoads`, with
the steps of `MenuItems`) and stores it (`KeyStores`); the oled thread has the lower
priority, so any number of frames may come in between, but it does not run within
one. The main thread runs `LedProgram` an access to the locate flag at a time
(`Compare`, `Copy`, `Decide`, `Blink`). `Restart` keeps the settings or brings the
defaults, as `FlashStore` shows, and forgets the rest. `written` is a history
variable: what a frame or a key last put into each register. The clock registers
only end a stretch of a frame here, their effect is in `WallClock`. What the
registers do to the controller is in `Control`; how the reply is sent is in
`SendList`.

### WallClock

A clock frame writes both halves, or one of them alone (`Take`); each half is taken
from the live buffer (`High`, `Low`), which the interrupt may replace (`Replace`).
`GetSysTimeByTimestamp` breaks the time down in the struct tm of `localtime`
(`Convert`) and copies its fields (`CopyFields`). `set_date` reads the clock and
replaces its date (`ReadDate`), the driver breaks the result down in the same
struct tm (`FillDate`) and writes the clock from it (`PutDate`), unless the year is
before 2000; `set_time` does the same with the time of day. In between a second may
pass (`Tick`), and the main thread, time-sliced with the uart thread, may break
down the present time in the struct tm (`MainReads`, `MainFills`). The keys
(`PageReads` to `KeyPuts`) set date or time of day the same way, while no frame is
executed. A moment is a day and a second of it; `mktime` is the inverse of
`localtime`. `due` is a history variable: what the clock should show since the last
whole frame, and whether anything came between two steps that belong together
(`calm`). Setting the clock restarts its second, so a midnight between `set_date`
and `set_time` takes a delay of a second there; `Tick` allows it. The two HAL calls
of the driver are one step for the same reason. Times before 1970 and after 2038
are left out.

### Ntc, Sensor

`Ntc` is the list of samples. A call of `GetNtcValue` by the main thread is one
step, because the oled thread cannot preempt it; a call by the oled thread takes
a step per access. A block is in `used` from `rt_malloc` to `rt_free`. `Sensor`
has the whole table and the search, with its byte index.

### Messages, SendList, Outbox

An entry is a buffer of `MSG_SIZE` bytes, padded with zeros, and its length.
`AddToSendMsgList` refuses a message that is too long, a full list, and a message
whose bytes agree with the beginning of the buffer of any entry; otherwise it
puts it *in front*. `RemoveFromSendMsgList` looks an entry up by its bytes and
takes out the first that matches. `SendMsgHandle` sends the first entry and then
removes it that way. `Outbox` promises what a caller can rely on: a message kept
is sent once, nothing else is sent, nothing kept is lost, never more than
`Capacity`. The receive list in `Communicate.c` is the same code and is never
called.

### Uart

Each step is a stretch of code that accesses shared state once. The interrupt is
`Uart1_input(f)`. The uart thread is at `upc`: `poll` (clear the flag, or send),
`verify` (length and checksum), `kind` (a registration frame or not), `register` and
`assign` (`registerState`, then the address) or `filter`, `command` (address, command
and register read again from the buffer), `data` (values read again, command
executed, the reply to a read or a write of several registers queued), `test`,
`compare` and `copy` (a write of one register is answered by the buffer itself:
tested for address 0, compared with the list and copied, each from the buffer as it
is then), `touch` and `stamp` (`SetLastConnectTime(GetTimeRun())`), `rest` (the 10 s
block). The main thread is at `mpc`: `idle`, `monitor` (reads `lastConnectTime`),
`alive` or `lost` (writes the verdict). A frame is a record of what the code tests: address,
validity, kind, assigned address. `rang` and `seen` are history variables:
whether the interrupt announced the frame in the buffer, and the frame that the
last analysis read from first to last.

*Time.* `sinceTry < RetryTime` in `Tick` says that the 10 s block of the uart
thread comes round at least once in `RetryTime` seconds: it is 501 polls of a
20 ms loop, about 11 s, and TIMEOUT is 30 s. Without that the model would allow
the uart thread to stand still for any number of seconds.

### FlashStore, Store

`SaveGlobalInfo` computes the checksum over the live `gInfo`, remembers it in
`last_crc` and calls `flash_write`, which erases the page (`Erase`) and programs
it double word by double word (`Program`), reading `gInfo` again each time. Each
operation may fail: a failed erase ends the save, a failed word is skipped. The main thread has
the priority of the uart thread and may run in between, so `MainWrites` changes
the status fields (`registerState`, `connected`, `CoolOrHeat`) at any point. The
settings proper are written by the uart thread itself or by the oled thread,
whose lower priority keeps it from running before the save is over; `Change` is
therefore possible only between saves. `Reset` may come between any two
operations and keeps only the page. `TakeGlobalInfo` accepts the page if its
checksum fits and takes the defaults otherwise; the `registerState = NO` of
`UartEntry` is part of that step.

The record has its real layout: 25 bytes, the fields at their offsets, the two
bytes of `crc` in different double words (3 and 4). The computation of the
checksum is one step. The checksum is *ideal* (`CrcAssumption`): programmed in
full or in part, it fits no other content. It may be 0, the initial `last_crc`. A CRC16 satisfies
this for changes confined to 16 consecutive bits, that is, one field changed
during a save, and for the erased page (the CRC of 23 bytes of 255 is not
65535); for several fields it holds but for a chance of 1 in 65536.

`snap` (what the last checksum was taken of), `source` (`snap` of the save
that last erased the page) and `clean` (there was a save since the start, and the
last one ended without a failure or a change meanwhile) are history variables.

`Store` promises what the rest of the program can rely on, without bytes, words
or checksums: at most one record; a save gives up the old one, then commits the
settings that were in force when it began, once or not at all, and what is
committed stays until the next save; a start finds that or the defaults. The
mapping takes for `stored` what `TakeGlobalInfo` would accept now.

## 3. Runs

All bounds are constants of the cfg files. TIMEOUT and StageTime are 0 or 1
instead of 30 and 300: the age saturates one past the limit, so every
comparison with the limit has both outcomes and each is reached after a longer
or shorter run of seconds.

| run | checks | bounds | shows |
|---|---|---|---|
| `control` | `TypeOK`, `IdleMeansReleased`, `OutputFollowsDemand`, `SecondStageIsEarned`, `NeverDrivesAway`, `SensorTellsCurve`, `HotRoomIsCooled` | `FairSpec`; wiring modes 0, 1 and 3 (256 and 259 written by the host, 0 and 3 in a byte; `relay_drive` steps through all three on the panel), set points 25.0, -2.0 and, by command, 2.0 degrees, below the dead band, day and night exchanged, both module modes, both temperature sources, 31.0 degrees remote, local readings of 6.0 degrees and none, also one after the other, a link that is lost after a second; every entry of the NTC table, its neighbours and the limits of the adc; about 155 000 states | relays and display agree after every second; nothing of an earlier direction, stage or mode stays on; idle releases all on each path; the second stage is always earned; the comparison with the dead band is right where its lower limit is clamped at 0; the search finds the right interval although it begins beyond the entries given; a room that stays hot is in the end cooled without interruption, if the module is a master, or a slave that is enabled and keeps its link (`Entitled`: `Control.c:324` and `:360` mean to stop the others) |
| `sendlist` | `TypeOK`, `NoTwins`, `IsOutbox`, `ListDrains` | buffer of 2 bytes over {0,1}, list of 3, every message of 1 and 2 bytes and one of 3; `FairSpec`; 595 states | zero padding, prefixes, a full list, a message too long, failed allocations |
| `uart_race` | `TypeOK`, `NoLostFrame`, `RegisteredIsRecent`, `OwnUnlessReplaced` | seven frames (registration of this and another module, other registration frames, commands to this module, to another, to all, a damaged frame), list of 1, two addresses; about 1.2 million states | every interleaving of interrupt, analysis and monitor |
| `uart_link` | `WritesToAllAreSilent`, `SilenceIsNoticed`, `Reregisters` | `LiveSpec`, `PoliteHost`: six frames, writes to this module and to all among them, list of 2, TIMEOUT 4, RetryTime 1, a host that may fail for good at any point; about 131 000 states | no write to all is answered; a silent bus is noticed, for good; while the host is up a lost registration is made good again and again |
| `flash_save` | `TypeOK`, `AcceptedIsOneSave`, `NothingToSaveMeansSaved`, `SettledIsSaved`, `IsStore` | `FairSpec`; four fields of two values in words 1 and 3, the real record size; about 206 000 states | no mixture of two saves or of before and after a change is restored; nothing to save means saved; settled settings reach the flash; the page is a `Store`, also for the contents whose checksum has the high byte of an erased page and is complete a word early |
| `relay_drive` | `CallIsOneRow`, `NoChatter`, `EarnedBetweenCalls`, `OutputSettles` | `DFairSpec`; modes 0..3, a temperature, two commands that differ in type and set point, time limits 0; about 1.2 million states | the outputs are one whole row whatever changes meanwhile; no relay is switched twice in a second, over both calls it may make; half-read commands do not last |
| `ui` | `DrawsRealLines`, `StackIsShallow`, `KeysAreServed`, `EditIsMeant`, `IdleReturnsHome` | `FairSpec`; six positions, one value followed, the timer every second pass, light off after one second, one pass within a callback; about 845 000 states | the panel under every interleaving of passes and callbacks: six positions make the window of five lines move |
| `button` | `ReportsMatchHold`, `FirstReportIsLate` | presses up to 3279 scans, the real times; 9 876 states | every length of press up to the wrap |
| `registers` | `TypeOK`, `ReadTellsWritten`, `LocateIsHonoured`, `BlinkingEnds` | `FairSpec`; five blocks written with a value that has its sign bit and both bytes set, five blocks read, the locate register among them, keys on a signed value and on one byte of a time, limits 0 for the LED, one restart; about 759 000 states | reads, writes and keys in any order, with a restart at any moment; the locate flag between uart thread and `LedProgram` |
| `wallclock` | `ClockTypeOK`, `ClockIsSent` | days of two seconds, two times that share no bits and fall on different days and seconds, two frames, one second, one key; about 2.2 million states | no half of an earlier time gets into a later one; the date that `set_date` wrote is the one `set_time` keeps; the clock never shows a day it cannot hold |

Deadlock is checked in all of them. Each property of these runs has a mutant of
a mapped definition that violates it (`PROJECT.json`, "mutants").

Two further runs check what a comment or an assertion says and find it violated:

| run | says | the code |
|---|---|---|
| `control_lostlink` | `Control.c:360`: a module that lost its host does not heat or cool | tests the wiring mode against `MODULE_SLAVE`; never true for modes 1..3 |
| `ntc_free` | `src/Hvac/Hvac/rt-thread/src/mem.c:593`: the block freed is in use | the main thread samples between the oled thread's look-up of the oldest node and its `rt_free` (`Ntc.c:119`); the node is freed twice |

Further behaviour met while modelling, for which no run is kept:

- A negative temperature written by the host is stored unsigned and is cooled
  (`UartDataLayer.c:439`); a missing adc is taken for 0.1 degrees (`Ntc.c:76`).
- `fanRun` is saved and shown but never read by the controller.
- After an interruption of the temperature or the set point the output may
  resume directly in the second stage: the early return at `Control.c:314`
  leaves the timer and the stage as they were.
- The temperature the stage decision compares with is the one at the start of
  the demand, however long ago (`Control.c:351` can be read either way).
- `last_crc` is set before the write. A save that failed, or during which a
  status field changed, is not repeated if the fields are, or return to, what
  they were when its checksum was taken; the page then stays invalid and a reset
  brings the defaults. `SettledIsSaved` leaves this case out.

- Action types 1..4 select no set point and stop a slave (`Control.c:251` handles 0
  and 5); `Control.h:49-50` says they select the day or the night setting.
- When the day ends past midnight, day and night are exchanged (`Control.c:128`;
  `Control.h:65-66` call the times the beginning and the end of the day).
- There is no delay between switching off and on again (`Control.c:334`); the
  requirements (`HVAC要求V2.docx`) ask for five minutes.
- A frame that replaces another in the buffer between the address test and the
  execution is executed whatever its address (`UartDataLayer.c:162`; the comment at
  :155 says such frames are filtered out).
- A read sent to address 0 is answered (`UartDataLayer.c:217`; the comment at :225
  speaks of broadcasts in general, the test is in the write branches only).
- A read of more than 7 registers makes a reply longer than `MSG_SIZE`, which is not
  queued; from 126 registers on its length wraps in a byte.
- A register that can only be written repeats, when read, the value of the
  register before it in the block.
- After a restart the command register tells the command of before, which is not
  in force.
- `last_crc` starts at 0 (`Uart.c:91`): settings whose checksum is 0 are not saved
  before another save.
- At exactly 80.0 degrees `Res2Temp` gives none (`temp>=800`, `Ntc.c:59`); its
  comment says above 80.
- `WRITE_SINGLE` tests the address in the live buffer (`UartDataLayer.c:226`) and
  hands the same buffer to `AddToSendMsgList`, which tests it for duplicates and
  copies it in different steps (`Communicate.c:77`, `:86`): without a host that waits,
  a write to all that arrives in between is answered (the comment at
  `UartDataLayer.c:225` says it is not), and two equal messages may be queued. `Uart`
  with `PoliteHost = FALSE` violates `WritesToAllAreSilent`. `NoTwins` of `SendList` is about callers whose message
  stays as it is.
- A key that sets date or time works with the clock as read at the beginning of the
  pass (`Pages.c:369`) and undoes that half of a correction by the host since.
- The main thread's `localtime`, once a second, may replace the struct tm between two
  steps of `set_date` or `set_time` (`drv_rtc.c:65-77`); the clock is then written back
  as it was, although the comment at `UartDataLayer.c:463` takes it to be corrected.
  `WallClock` without the condition `calm` in `ClockIsSent` shows this.
- `REG_NOW_TIME1` written without `REG_NOW_TIME` is or-ed into the previous time.
- A locate request within the 20 ms after `CloseModuleLocation` is not noticed as a
  new one, and a request during the minute does not prolong it.
- The sample list may keep an eleventh node for good when both threads find
  nine; `GetTempValue` samples twice and uses the second reading.
- `Res2Temp` divides by zero for resistances beyond the table; the quotient is not used.
- A release of a key that lasts a single scan repeats the report of a short press
  at every scan of the next one; a press longer than 65.5 s may be
  reported as long and as short.
- Up or down on the settings page that is overtaken by the pass that begins the
  edit mode still moves the cursor, and edits what it then points to
  (`EditIsMeant` leaves that case out). The first key in the dark wakes the light
  and acts as well. On the home page the cursor may be left where a callback put
  it; enter does nothing until it is at 1 again. If two passes fell into one
  callback the cursor could become 0 on the settings page.
- A dead band written by the host that is not a multiple of 10 can be stepped by the panel to a value outside 10..50.

### Fairness

- `WF(Second)`: the main thread has the highest application priority, shared
  with a thread that sleeps 20 ms in each loop, and never blocks on anything but its delay.
- `WF(UartThread)`, `WF(MainThread)`: equal priority, time-sliced, and both
  sleep in every loop.
- `WF(SendMsgHandle)` in `SendList`: some polls find nothing received. In `Uart`
  this is not assumed: sending is one outcome of a poll.
- `WF(TakeGlobalInfo)`, `WF(Save)` in `FlashStore`: uart_task starts and goes
  round its loop; each operation on the flash returns.
- `WF(MainThread)`, `WF(StoreField)` in `RelayDrive`: the same two threads; a
  command that was begun is stored.
- `SF_time1S(Loop)`, `WF(Callback)`, `WF(Tick)` in `Ui`: the oled thread goes round
  its loop (a pass is not possible while it has used up `Overtakes`, hence strong
  fairness), a callback that began goes on, seconds pass. No key need be pressed.
- `WF_led(MainThread)`, `SF_led(Loop(TRUE))` in `Registers`: the main thread runs and
  its one-second timer fires again and again.
- `SF(Answer)` in `LiveSpec`, and `PoliteHost`: assumptions on the host, which is
  not part of the repository: while it is up (`HostFails` may end that) it answers registration requests it receives, within
  the second and before its next command, and leaves a poll of silence after
  each frame so that the module can send at all. Without them the bus may keep
  the module from ever sending its request.

No fairness is assumed of the bus, the host (but for `Reregisters`), the panel or the sensor.

## 4. Proofs

All theorems hold for every value of the constants allowed by the ASSUMEs: any
sets of 16-bit register values, any readings, any limits in Nat, any buffer size
and list length, any set of addresses and frames. The ASSUMEs are evaluated by
TLC in the runs. One of them is about the surroundings: `SleepAssumption` (at most
one pass of the oled thread, which sleeps 100 ms between two, falls into a
callback of microseconds), used by `CursorInvariant`. `NoAnswerToAll` and
`NothingIsQueuedTwice` say `PoliteHost` in their statements.

| module | theorem | states |
|---|---|---|
| `ControlProofs` | `InvariantHolds` | `Spec => []ControlInv` |
| | `TypeCorrect`, `IdleIsReleased`, `OutputIsWiring`, `SecondStageEarned` | the invariants of `control` |
| | `DrivesTowardsSetPoint` | `NeverDrivesAway` |
| | `DriveInvariant` | `DSpec => []DriveInv` |
| | `OutputsAreOneRow` | `CallIsOneRow` |
| | `RelaysDoNotChatter` | `NoChatter` |
| | `DecisionInvariant` | `DSpec => []DecisionInv` |
| | `SecondStageStaysEarned` | `EarnedBetweenCalls` |
| | `ReadingIsOnCurve` | `OnCurve` and `Falling` for every resistance in `Nat` |
| | `SensorIsTrue` | `SensorTellsCurve` |
| `SendListProofs` | `TypeCorrect` | `TypeOK` |
| | `EntriesStayApart` | `NoTwins` |
| | `ListIsOutbox` | `Spec => IsOutbox`, the refinement |
| `UartProofs` | `TypeCorrect` | `TypeOK` |
| | `NoWakeUpIsLost` | `NoLostFrame` |
| | `RegistrationIsRecent` | `RegisteredIsRecent` |
| | `OwnFramesOnly` | `OwnUnlessReplaced` |
| | `NoAnswerToAll` | `PoliteHost => WritesToAllAreSilent` |
| | `NothingIsQueuedTwice` | `Spec => [](PoliteHost => QueuedOnce)`: no two waiting messages hold the same bytes |
| `RegistersProofs` | `RegistersInvariant` | `Spec => []RegistersInv` |
| | `TypeCorrect`, `HostReadsItsWrites` | `TypeOK`, `ReadTellsWritten` |
| | `ClockInvariant` | `CSpec => []ClockInv` |
| | `ClockIsAlwaysValid`, `ClockIsATimeSent` | `ClockTypeOK`, `ClockIsSent` |
| `FlashStoreProofs` | `RestoredIsTyped` | `TypeOK` |
| | `NoMixtureIsAccepted` | `AcceptedIsOneSave` |
| | `CleanSaveIsComplete` | `NothingToSaveMeansSaved` |
| | `PageIsStore` | `Spec => IsStore`, the refinement |
| `ButtonProofs` | `KeyInvariant` | `Spec => []IInv` |
| | `TypeCorrect`, `PressIsReportedOnce`, `ReportsComeLate` | `TypeOK`, `ReportsMatchHold`, `FirstReportIsLate` |
| `UiProofs` | `UiInvariant` | `Spec => []UiInv` |
| | `TypeCorrect`, `StackStaysShallow`, `KeysAreServedInTime` | `TypeOK`, `StackIsShallow`, `KeysAreServed` |
| | `EditInvariant` | `Spec => [](UiInv /\ EditInv)` |
| | `EditsAreMeant` | `EditIsMeant`, an action property |
| | `CursorInvariant` | `Spec => [](UiInv /\ EditInv /\ CursorInv)` |
| | `RealLinesAreDrawn` | `DrawsRealLines` |

*Control.* `OutputFollowsDemand` and `IdleMeansReleased` are kept by every
`Second`, because each row of the table writes all five pins
(`CtrlRelayIsWiring`) whatever was energised before; the environment touches
neither the relays nor `local`. `SecondStageIsEarned` is not inductive: the
second stage may survive in `ctl.stage` while the output is off. `ControlInv`
adds that a second stage always belongs to an old demand (`StageIsAged`), that
the demand reported is the demand timed (`DemandIsTimed`), and that nothing is
energised before the first second (`ReleasedAtBoot`). `Restart` re-establishes
the first by returning to stage 1 together with the timer. `NeverDrivesAway`
follows from `DemandSound`, a fact about the comparison alone.

*RelayDrive.* `CallIsOneRow` says nothing of a call under way. `DriveInv` adds
that the relays energised so far, with the pins still to be written, make up
the row the call heads for (`CallIsHeading`), whatever the mode is meanwhile,
and that the second call is reached without a demand only with the relays
released (`IdleIsOff`). That the pins to be switched on and off are disjoint
and together all five is the table's (`CtrlRelayIsWiring`). `NoChatter` is about
all the calls of one second, of which there may be two: one that releases the
relays when there is no demand, and one for the output. `MovesOnce` says that the
first has switched nothing when the second has a demand to serve, and that a pin
still to be switched was not switched before in this second; with a demand gone,
the second call finds the relays released (`IdleIsOff`) and leaves them.
`DecisionInv` carries what `Control` proves of an atomic second over to the
interleaved one. It holds from the decision to the next reading of the inputs:
the demand reported is the one timed and leads towards the set point that was
read (`DecisionIsTimed`, `DecisionIsSound`); the uart thread writes neither the
locals nor the statics, and the steps in between can only take the demand back.
A second stage always belongs to an old demand (`StageIsAged`, as in `Control`).
With `CallIsOneRow`, which says that the pins are the row of that demand and
stage, `EarnedBetweenCalls` follows.

*Sensor.* No induction is needed. That an entry further on is never greater is
proved by doubling the distance, from 1 to 128 (`EntriesFall`); that each entry
is greater than the next is the table itself (`NextIsLess`). The search keeps a
bracket (`Bracket`): it has found the interval, or the resistance lies between
the entries less than twice the next step away, and the byte does not wrap there; a
step halves it (`ProbeHalves`). The first step, from the empty entry 128, does
wrap, to 0, and the second opens the bracket. `SearchFinds` is then the eight
steps one after the other. The quotient is 0..9 tenths and grows as the
resistance falls (`Tenths`).

*SendList.* `ListInv` is the type invariant and `NoTwins`. `NoTwins` is what
makes removal by content safe: the first entry is the only one with its bytes, so
`RemoveFromSendMsgList` takes out exactly what was sent (`RemovesHead`,
`WithoutHead`). It is kept by `AddToSendMsgList` although only the new message's
bytes are compared, because two equal buffers agree on those too.
Under the mapping `pending <- Kept` (the set of entries), an addition is `Keep`
or a stutter and a sending is `Transmit`; the bound on the cardinality uses that
distinct positions hold distinct entries.

*Uart.* `NoLostFrame` speaks of the polling point; `FrameInv` extends it to the
points of the analysis: wherever the thread is but just before `verify`, with the
flag clear, an announced frame still in the buffer is the one the analysis under
way has read so far. It holds because the flag is cleared *before* the buffer
is read: a later arrival sets it again. `LinkInv` adds to `RegisteredIsRecent`
that a monitor about to write "alive" has a recent contact (contact can only
get more recent meanwhile), that the block runs only after time has started, and
that the time read and about to be stored is no older than the one it replaces
and recent if the module is registered.
`WritesToAllAreSilent` needs `EchoInv`: what was tested, and compared with the list,
is what is copied. That holds only as long as nothing arrives during an analysis
(`PoliteHost`). A write of several registers tests the very address it puts into
its reply (`RepliesAreSilent`) and needs no such host; `AddToSendMsgList` keeps the
first two bytes of what it is given (`AddedFirst`). `QueuedOnce` carries `NoTwins` of `SendList` over
to the link, where the messages are the code's own: while the host is silent the
10 s block asks again and again, and at most one request per address waits.

*Registers.* A reply holds what a register showed when it was its turn, so
`ReadTellsWritten` needs that every setting is what a frame or a key last put there,
as far as its field keeps it (`SettingsAreWritten`), that what a key has computed
fits the byte or the field it goes to, whatever frames come before it is stored
(`KeysFit`; `ValueFits` and `PlacedFits` for the two bytes of a time), and that the frame under way
has as many values as registers done, with the length computed at its beginning
(`CmdFits`). That a field stored and shown again is the register's value, for
each width and sign, is `SettingWritten`. The uart thread and
`LedProgram` share the locate flag only, which none of this reads.

*WallClock.* `ClockInv` follows a time on its way. As long as the frame is not
replaced, the static holds its high half and an empty low half when the low half
comes, and then the whole (`Assembled`); that the or of the two is their sum is
proved bit by bit (`BitsOfWord`, `HalvesJoin`), which is why `Or16` is written as a
sum of sixteen bits. As long as nothing else came in between, it is what
`localtime` leaves in the struct tm and what is copied from there (`BrokenDown`);
`set_date` leaves its day in the clock, `set_time` finds that day and adds the
seconds (`DateThenTime`). What an earlier frame left is still shown until the next
has set the date (`KeptSince`).

*FlashStore.* `AcceptedIsOneSave` is not inductive: it says nothing of a page
half programmed. `FlashInv` adds that the checksum bytes of the page are, as far
as they are programmed, those of `source` (`Stamped`), because `crc` is not
touched between `SaveGlobalInfo` and the last word; by `CrcAssumption` a page
that passes the test then holds `source` and nothing else. `Undisturbed` says
how far a clean save has come: every field in a double word before `word` is
copied; after it, page and `last_crc` are those of `source`; that all fields are copied at the end is `EveryByteHasAWord`, the rounding in
`flash_write`. `InRecord` keeps the loop within the record.

For `IsStore` the page must not become acceptable twice, nor stop being so
before the next erase. An erased page is no record (`BlankIsNothing`: the
checksum of one would fit every content). Before its own double word the checksum
is untouched (`Unstamped`), and it comes after every field (`ChecksumIsLast`).
So a page that is acceptable while the save goes on has its fields behind it, and
the next word writes the high byte it already has (`RecordStays`), however
`gInfo` has changed since. The page that becomes acceptable holds `source`, which
is what this save took. `Program` is thus `Commit`, `End` or a stutter, `Erase` is
`GiveUp` or, when it fails, `End`.

*Button.* `IInv` ties `continue_time` to the history: while the key counts as down
it is 20 ms times the scans held, modulo 2^16 (`TimeOf`), `have_read` says that
the long press was reported, and the type is never a short press when the key
goes down again, because a release lasts two scans (`FieldsInv`). `CoolingInv`
and `StartInv` relate the counters of the start to the scans made. `MaxHold` at
most 3279 keeps the wrapped time below the short limit.

*Ui.* `KeysAreServed` needs `WaitIsTimed`: while a key is pending and no refresh
is requested, it has waited fewer passes than the timer has counted, so that the
timer's request comes in time. `StackIsShallow` needs what a callback
under way has loaded (`CallbackFits`): `BackPage` stores a shifted copy of a stack
that may have changed since; shifting either stack leaves the home page.

`EditIsMeant` needs `EditInv`: in an edit mode begun between two callbacks the
cursor stays, no callback is on its way to move it (a callback that starts in
the edit mode is turned away by `TestEdit`), and a flag set or about to be set
was asked for in it (`EditIsHeld`); the settings page is entered from the home
page with `changeValue` off (`EditIsOver`), so that an edit mode never begins by
opening a page. This holds for any number of passes within a callback.
`DrawsRealLines` needs `CursorInv`: the limits are those of the page opened last
(`LimitsAreSet`); what a callback has loaded is what the page holds, or a pass
came in between and, if it opened the settings page, found the cursor on the
first position (`OperandsFit`); and the position about to be stored is one of
the page (`TargetFits`). The home page promises a cursor of 1 only while it is
about to open the settings and no pass fell into the callback (`CursorFits`): a
callback overtaken by the return to the home page may store any position there.
With two passes in one callback the second may open the settings page over
such operands and the property fails (TLC finds it with `Overtakes = 2`); hence
`SleepAssumption`.

Left to TLC: the liveness properties (`HotRoomIsCooled`, `ListDrains`,
`SilenceIsNoticed`, `Reregisters`, `SettledIsSaved`, `OutputSettles`,
`IdleReturnsHome`, `LocateIsHonoured`, `BlinkingEnds`), which need fairness, and
the two violations. Every invariant, action property and refinement that a
passing run checks is a theorem. The type invariants of
`Button` and `Ui`, and `QueuedOnce`, are theorems only; no run repeats them.

## 5. Not modelled

- Checksums: pure bit arithmetic; a frame carries whether its checksum matches.
- Display driver, fonts, drawing: no behaviour that other parts depend on.
- `TimeSelectPage`, `DataPrintPage` and the page `TIME_SELECT_PAGE`: no code reaches
  them. Which digit of date or time a key changes: in `WallClock` it sets any. The
  calendar: a date is a day number.
- Board support, RT-Thread, HAL, CMSIS: third-party, about 99 % of the lines of the
  repository; they appear as the scheduling, the allocator and the devices described above.
- The receive list of `Communicate.c`: never called.

With these exceptions every operation of `applications` that changes state is
an action of a module.

## 6. Plan

Done: every component with behaviour of its own, and a theorem for every
invariant, action property and refinement that a run checks. What would add most
next:

1. An abstract link (registered or not, by recent contact) refined by `Uart`, and
   `Control`'s atomic second refined by `RelayDrive` when nothing changes meanwhile.
2. `Ntc` with the threads excluded from each other, to show what a lock would restore.
3. The values of the panel within their limits, for values the host wrote as well.
4. `WallClock` with a struct tm of its own for each caller (`localtime_r`), to show
   what that would restore.
