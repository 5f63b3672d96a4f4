-------------------------------- MODULE Uart --------------------------------
(***************************************************************************)
(* The link to the host: the receive interrupt Uart1_input, the uart thread*)
(* (UartEntry, Uart1Analysis, ModbusCommandAnalysis) and the main thread's *)
(* MonitorConnectedState, on the state they share without a lock.          *)
(*                                                                         *)
(* The two threads have the same priority and are time-sliced, and the     *)
(* interrupt preempts both, so each step below is a stretch of code that   *)
(* reads or writes shared state once.  What a command does to the settings *)
(* is module Control's business; here a command is executed and answered.  *)
(*                                                                         *)
(* The analysis works on the receive buffer itself, which the interrupt may*)
(* replace between any two of its reads; a checksum over parts of two      *)
(* frames counts as wrong, and one copy or comparison of a buffer sees one *)
(* frame.                                                                  *)
(*                                                                         *)
(* lastConnectTime is kept as an age: heard (it is not 0) and silence (the *)
(* seconds since, saturated one past TIMEOUT).                             *)
(***************************************************************************)
EXTENDS Messages

CONSTANTS
    Addr,       \* bus addresses of modules
    Frames,     \* frames that appear on the bus
    ReadValues, \* contents of read replies
    TIMEOUT,    \* seconds of silence after which the link is lost (30)
    RetryTime,  \* seconds within which the 10 s block runs again (11)
    PoliteHost  \* the host leaves a poll of silence after each frame and,
                \* while it is up, answers every registration request, and
                \* only those, within the second

NO  == 0
YES == 1

BROADCAST      == 0
REGISTER_CODE  == 250
REGISTER_ASK   == 0
REGISTER_ANSER == 128
DEFAULT_ADDR   == 1
READ_MUTI      == 3
WRITE_SINGLE   == 6
WRITE_MUTI     == 16

\* cmd: "answer" is a registration answer that carries this module's id,
\* "other" any other registration frame.  valid: length and checksum.
Frame == [addr : Addr \cup {BROADCAST, REGISTER_CODE}, valid : BOOLEAN,
          cmd : {"answer", "other", "read", "single", "multi"}, assign : Addr]

\* The second byte of a frame; "other" stands for an answer to another
\* module, or a command that is not known here.
Code == [answer |-> REGISTER_ANSER, other |-> REGISTER_ANSER,
         read |-> READ_MUTI, single |-> WRITE_SINGLE, multi |-> WRITE_MUTI]

\* The bytes of a frame that the replies repeat.
Bytes(f) == <<f.addr, Code[f.cmd]>>

ASSUME UartAssumption ==
    /\ DEFAULT_ADDR \in Addr
    /\ Addr \subseteq Byte \ {BROADCAST, REGISTER_CODE}
    /\ {REGISTER_CODE, REGISTER_ANSER, READ_MUTI, WRITE_SINGLE, WRITE_MUTI}
         \subseteq Byte
    /\ MSG_SIZE >= 3
    /\ ReadValues \subseteq Byte
    /\ Frames \subseteq Frame
    /\ TIMEOUT \in Nat
    /\ RetryTime \in Nat \ {0}
    /\ PoliteHost \in BOOLEAN

VARIABLES
    slot,          \* uart1_msg: the frame received last
    flag,          \* uart1_msg.messageFlag
    registerState, \* gInfo.registerState
    addr,          \* gInfo.addr
    connected,     \* gInfo.connected
    link,          \* lastConnectTime
    stamp,         \* what the uart thread has read from timeRun, to store it
    started,       \* timeRun > 0
    sendMsgList,   \* messages to send
    upc,           \* where the uart thread is
    head,          \* addr and cmd as ModbusCommandAnalysis read them
    mpc,           \* where the main thread is in its one-second block
    sinceTry,      \* seconds since the last 10 s block
    asked,         \* a registration request is on the bus, unanswered
    quiet,         \* a poll has found nothing since the last frame
    up,            \* the host is running
    rang,          \* history: the interrupt set the flag for the frame in slot
    seen           \* history: the frame the last analysis read from first to
                   \* last, NoFrame if it read parts of several

shared == <<registerState, addr, connected, link, started, sendMsgList>>
uart   == <<upc, head, stamp>>
main   == <<mpc, sinceTry>>
host   == <<asked, quiet, up>>
vars   == <<slot, flag, shared, uart, main, host, rang, seen>>

NoFrame == [addr |-> BROADCAST, valid |-> FALSE, cmd |-> "other",
            assign |-> DEFAULT_ADDR]
NoHead  == [addr |-> BROADCAST, cmd |-> "other"]
Unheard == [heard |-> FALSE, silence |-> 0]

\* A time of contact a second later.
Older(time) ==
    [time EXCEPT !.silence = IF @ > TIMEOUT THEN TIMEOUT + 1 ELSE @ + 1]

-----------------------------------------------------------------------------
(***************************************************************************)
(* The interrupt: the frame replaces the one in the buffer, whatever it is;*)
(* the flag is set for a valid frame that may concern this module.         *)
(***************************************************************************)
Accepts(f) == f.valid /\ f.addr \in {REGISTER_CODE, BROADCAST, addr}

Uart1_input(f) ==
    /\ up
    /\ PoliteHost => /\ flag = NO /\ upc = "poll" /\ quiet
                     /\ f.cmd = "answer" => asked
    /\ quiet' = FALSE
    /\ slot' = f
    /\ flag' = IF Accepts(f) THEN YES ELSE flag
    /\ asked' = (asked /\ f.cmd # "answer")
    /\ rang' = Accepts(f)
    /\ UNCHANGED <<shared, uart, main, up, seen>>

-----------------------------------------------------------------------------
(* The uart thread.                                                        *)

\* A read of the buffer by the analysis under way.
Reads == seen' = IF slot = seen THEN seen ELSE NoFrame

Goto(pc) == upc' = pc

\* A frame was received: clear the flag, then analyse the buffer.
Poll ==
    /\ upc = "poll" /\ flag = YES
    /\ flag' = NO
    /\ Goto("verify")
    /\ UNCHANGED <<slot, shared, head, stamp, main, host, rang, seen>>

\* Nothing was received: SendMsgHandle sends the first message of the list.
PollSend ==
    /\ upc = "poll" /\ flag = NO
    /\ IF sendMsgList = <<>>
       THEN UNCHANGED <<sendMsgList, asked>>
       ELSE LET first == sendMsgList[1].data
            IN  /\ sendMsgList' =
                     RemoveFromSendMsgList(sendMsgList, first, MSG_SIZE)
                /\ asked' = \/ asked
                            \/ first[1] = REGISTER_CODE /\ first[2] = REGISTER_ASK
    /\ quiet' = TRUE
    /\ Goto("rest")
    /\ UNCHANGED <<slot, flag, registerState, addr, connected, link, started,
                   head, stamp, main, up, rang, seen>>

\* Uart1Analysis: the length and the checksum.
Verify ==
    /\ upc = "verify"
    /\ Goto(IF slot.valid THEN "kind" ELSE "rest")
    /\ seen' = slot
    /\ UNCHANGED <<slot, flag, shared, head, stamp, main, host, rang>>

\* A registration frame, or one for a registered module?
Kind ==
    /\ upc = "kind"
    /\ Goto(IF slot.addr = REGISTER_CODE THEN "register" ELSE "filter")
    /\ Reads
    /\ UNCHANGED <<slot, flag, shared, head, stamp, main, host, rang>>

\* An answer with this module's id registers it ...
Register ==
    /\ upc = "register"
    /\ IF slot.cmd = "answer"
       THEN registerState' = YES /\ Goto("assign")
       ELSE UNCHANGED registerState /\ Goto("touch")
    /\ Reads
    /\ UNCHANGED <<slot, flag, addr, connected, link, started, sendMsgList,
                   head, stamp, main, host, rang>>

\* ... at the address the buffer then gives.
Assign ==
    /\ upc = "assign"
    /\ addr' = slot.assign
    /\ Goto("touch")
    /\ Reads
    /\ UNCHANGED <<slot, flag, registerState, connected, link, started,
                   sendMsgList, head, stamp, main, host, rang>>

\* A slip: the address is not looked at.
FilterAnyAddress ==
    /\ upc = "filter"
    /\ Goto(IF registerState = YES THEN "command" ELSE "rest")
    /\ Reads
    /\ UNCHANGED <<slot, flag, shared, head, stamp, main, host, rang>>

\* Any other frame: only when registered, and only to us or to all.
Filter ==
    /\ upc = "filter"
    /\ Goto(IF registerState = YES /\ slot.addr \in {addr, BROADCAST}
            THEN "command" ELSE "rest")
    /\ Reads
    /\ UNCHANGED <<slot, flag, shared, head, stamp, main, host, rang>>

\* ModbusCommandAnalysis reads the buffer again: address, command, register,
Command ==
    /\ upc = "command"
    /\ head' = [addr |-> slot.addr, cmd |-> slot.cmd]
    /\ Goto("data")
    /\ Reads
    /\ UNCHANGED <<slot, flag, shared, stamp, main, host, rang>>

\* The replies built from the address and the command as they were read:
\* to a read always, to a write of several registers unless it was to all.
Replies ==
    CASE head.cmd = "read" -> {<<head.addr, READ_MUTI, v>> : v \in ReadValues}
      [] head.cmd = "multi" /\ head.addr # BROADCAST
            -> {<<head.addr, WRITE_MUTI>>}
      [] OTHER -> {}

\* ... and again for the values, executes, and puts the reply in the list.
\* There is no reply when the allocation fails or the reply is too long.
Data ==
    /\ upc = "data"
    /\ \/ UNCHANGED sendMsgList
       \/ \E m \in Replies : sendMsgList' = AddToSendMsgList(sendMsgList, m)
    /\ head' = NoHead
    /\ Goto(IF head.cmd = "single" THEN "test" ELSE "touch")
    /\ Reads
    /\ UNCHANGED <<slot, flag, registerState, addr, connected, link, started,
                   stamp, main, host, rang>>

\* A slip: a write of one register is answered in any case.
TestNot ==
    /\ upc = "test"
    /\ Goto("compare")
    /\ Reads
    /\ UNCHANGED <<slot, flag, shared, head, stamp, main, host, rang>>

\* A write of one register is answered by the buffer itself, unless the
\* address in it says that it was to all;
Test ==
    /\ upc = "test"
    /\ Goto(IF slot.addr = BROADCAST THEN "touch" ELSE "compare")
    /\ Reads
    /\ UNCHANGED <<slot, flag, shared, head, stamp, main, host, rang>>

\* AddToSendMsgList refuses the message or gets no memory,
CompareRefuses ==
    /\ upc = "compare"
    /\ Goto("touch")
    /\ Reads
    /\ UNCHANGED <<slot, flag, shared, head, stamp, main, host, rang>>

\* or finds the bytes now in the buffer in no entry
Compare ==
    /\ upc = "compare"
    /\ ~Refused(sendMsgList, Bytes(slot))
    /\ Goto("copy")
    /\ Reads
    /\ UNCHANGED <<slot, flag, shared, head, stamp, main, host, rang>>

\* and then copies the ones in the buffer by then.
Copy ==
    /\ upc = "copy"
    /\ sendMsgList' = <<NewMsg(Bytes(slot))>> \o sendMsgList
    /\ Goto("touch")
    /\ Reads
    /\ UNCHANGED <<slot, flag, registerState, addr, connected, link, started,
                   head, stamp, main, host, rang>>

\* SetLastConnectTime(GetTimeRun()) reads the time, 0 in the first second,
Touch ==
    /\ upc = "touch"
    /\ stamp' = [heard |-> started, silence |-> 0]
    /\ Goto("stamp")
    /\ UNCHANGED <<slot, flag, shared, head, main, host, rang, seen>>

\* A slip: the frame is executed but does not count as a sign of life.
StampNot ==
    /\ upc = "stamp"
    /\ stamp' = Unheard
    /\ Goto("rest")
    /\ UNCHANGED <<slot, flag, shared, head, main, host, rang, seen>>

\* and stores it.
Stamp ==
    /\ upc = "stamp"
    /\ link' = stamp
    /\ stamp' = Unheard
    /\ Goto("rest")
    /\ UNCHANGED <<slot, flag, registerState, addr, connected, started,
                   sendMsgList, head, main, host, rang, seen>>

\* GenerateRegisterData: the request carries the present address.
RegisterData == <<REGISTER_CODE, REGISTER_ASK, addr>>

\* A slip: the flag is cleared once more after the analysis.
RestClearsFlag ==
    /\ upc = "rest"
    /\ Goto("poll")
    /\ sinceTry' = 0
    /\ flag' = NO
    /\ UNCHANGED <<slot, shared, head, stamp, mpc, host, rang, seen>>

\* The rest of the loop: every RetryTime seconds at the latest, the 10 s
\* block asks for registration unless registered (and saves the settings).
Rest ==
    /\ upc = "rest"
    /\ Goto("poll")
    /\ \/ /\ sinceTry < RetryTime
          /\ UNCHANGED <<sendMsgList, sinceTry>>
       \/ /\ sinceTry' = 0
          /\ sendMsgList' =
               IF registerState = NO
               THEN AddToSendMsgList(sendMsgList, RegisterData)
               ELSE sendMsgList
    /\ UNCHANGED <<slot, flag, registerState, addr, connected, link, started,
                   head, stamp, mpc, host, rang, seen>>

UartThread ==
    \/ Poll \/ PollSend \/ Verify \/ Kind \/ Register \/ Assign \/ Filter
    \/ Command \/ Data \/ Test \/ CompareRefuses \/ Compare \/ Copy
    \/ Touch \/ Stamp \/ Rest

-----------------------------------------------------------------------------
(* The main thread's one-second block.                                     *)

\* TimeRunning and ControlProgram, which leave the link alone.
Tick ==
    /\ mpc = "idle"
    /\ sinceTry < RetryTime
    /\ PoliteHost /\ up => ~asked
    /\ mpc' = "monitor"
    /\ sinceTry' = sinceTry + 1
    /\ started' = TRUE
    /\ link' = Older(link)
    /\ stamp' = IF upc = "stamp" THEN Older(stamp) ELSE stamp
    /\ UNCHANGED <<slot, flag, registerState, addr, connected, sendMsgList,
                   upc, head, host, rang, seen>>

Recent == link.heard /\ link.silence <= TIMEOUT

\* A slip: the test for "never heard" is missing.
MonitorTrustsZero ==
    /\ mpc = "monitor"
    /\ mpc' = IF link.silence <= TIMEOUT THEN "alive" ELSE "lost"
    /\ UNCHANGED <<slot, flag, shared, uart, sinceTry, host, rang, seen>>

\* MonitorConnectedState reads lastConnectTime ...
Monitor ==
    /\ mpc = "monitor"
    /\ mpc' = IF Recent THEN "alive" ELSE "lost"
    /\ UNCHANGED <<slot, flag, shared, uart, sinceTry, host, rang, seen>>

\* A slip: the registration outlives the connection.
VerdictKeepsRegistration ==
    /\ mpc \in {"alive", "lost"}
    /\ mpc' = "idle"
    /\ connected' = IF mpc = "alive" THEN YES ELSE NO
    /\ UNCHANGED <<slot, flag, registerState, addr, link, started, sendMsgList,
                   uart, sinceTry, host, rang, seen>>

\* ... and writes its verdict.
Verdict ==
    /\ mpc \in {"alive", "lost"}
    /\ mpc' = "idle"
    /\ connected' = IF mpc = "alive" THEN YES ELSE NO
    /\ registerState' = IF mpc = "alive" THEN registerState ELSE NO
    /\ UNCHANGED <<slot, flag, addr, link, started, sendMsgList, uart,
                   sinceTry, host, rang, seen>>

MainThread == Tick \/ Monitor \/ Verdict

-----------------------------------------------------------------------------
\* After InitLastConnectTime and registerState = NO in UartEntry; connected
\* and addr may come from a saved record.
Init ==
    /\ slot = NoFrame
    /\ flag = NO
    /\ registerState = NO
    /\ addr \in Addr
    /\ connected \in {NO, YES}
    /\ link = Unheard
    /\ stamp = Unheard
    /\ started = FALSE
    /\ sendMsgList = <<>>
    /\ upc = "poll"
    /\ head = NoHead
    /\ mpc = "idle"
    /\ sinceTry = 0
    /\ asked = FALSE
    /\ quiet = FALSE
    /\ up = TRUE
    /\ rang = FALSE
    /\ seen = NoFrame

Bus == \E f \in Frames : Uart1_input(f)

\* The host, or the cable, fails: nothing is received from then on.
HostFails ==
    /\ PoliteHost /\ up
    /\ up' = FALSE
    /\ UNCHANGED <<slot, flag, shared, uart, main, asked, quiet, rang, seen>>

Next == UartThread \/ MainThread \/ Bus \/ HostFails

Spec == Init /\ [][Next]_vars

\* Both threads keep running.
FairSpec == Spec /\ WF_vars(UartThread) /\ WF_vars(MainThread)

\* The host, while it is up, answers a registration request.
Answer == asked /\ \E f \in Frames : f.cmd = "answer" /\ f.valid /\ Uart1_input(f)

LiveSpec == FairSpec /\ SF_vars(Answer)

-----------------------------------------------------------------------------
(* Properties                                                              *)

(***************************************************************************)
(* Types of the link state; the list never passes its limit.               *)
(***************************************************************************)
TypeOK ==
    /\ slot \in Frame
    /\ flag \in {NO, YES}
    /\ registerState \in {NO, YES}
    /\ addr \in Addr
    /\ connected \in {NO, YES}
    /\ link \in [heard : BOOLEAN, silence : 0..(TIMEOUT + 1)]
    /\ stamp \in [heard : BOOLEAN, silence : 0..(TIMEOUT + 1)]
    /\ started \in BOOLEAN
    /\ sendMsgList \in Seq(Entry) /\ Len(sendMsgList) <= MSG_LIST_MAX
    /\ upc \in {"poll", "verify", "kind", "register", "assign", "filter",
                "command", "data", "test", "compare", "copy", "touch", "stamp",
                "rest"}
    /\ head \in [addr : Addr \cup {BROADCAST, REGISTER_CODE},
                 cmd : {"answer", "other", "read", "single", "multi"}]
    /\ mpc \in {"idle", "monitor", "alive", "lost"}
    /\ sinceTry \in 0..RetryTime
    /\ asked \in BOOLEAN
    /\ quiet \in BOOLEAN
    /\ up \in BOOLEAN
    /\ rang \in BOOLEAN
    /\ seen \in Frame

(***************************************************************************)
(* No wake-up is lost: when the thread is about to poll and the flag is    *)
(* clear, a frame the interrupt accepted and that is still in the buffer   *)
(* was analysed, from the checksum to the last byte used, as that one      *)
(* frame, wherever in the analysis of an earlier frame it arrived.         *)
(***************************************************************************)
NoLostFrame ==
    upc = "poll" /\ flag = NO /\ rang => seen = slot

(***************************************************************************)
(* Between two one-second blocks, a module that takes itself for registered*)
(* has heard its host within TIMEOUT: whichever way the thread that sets   *)
(* registerState and then the time of contact interleaves with the one that*)
(* reads the time and then clears registerState.                           *)
(***************************************************************************)
RegisteredIsRecent ==
    /\ started /\ mpc = "idle" /\ registerState = YES
    /\ upc \notin {"assign", "touch", "stamp"}
    => Recent

(***************************************************************************)
(* A frame that is executed and was not replaced in the buffer since its   *)
(* checksum was verified is intact and meant for this module or for all,   *)
(* whatever arrived, was registered or was lost before (Uart1Analysis; a   *)
(* frame that replaces it in the middle of the analysis is another matter).*)
(***************************************************************************)
OwnUnlessReplaced ==
    upc \in {"command", "data", "test", "compare", "copy"} /\ seen # NoFrame =>
        seen.valid /\ seen.addr \in {addr, BROADCAST}

(***************************************************************************)
(* No write to all is answered (the comment in WRITE_SINGLE of             *)
(* ModbusCommandAnalysis): a reply in the list that carries address 0      *)
(* answers a read.  With a host that waits for a reply before it sends the *)
(* next frame this holds; without one, a write to all that arrives between *)
(* the test of the address and the copy of the buffer is answered.         *)
(***************************************************************************)
WritesToAllAreSilent ==
    \A i \in 1..Len(sendMsgList) :
        sendMsgList[i].data[1] = BROADCAST => sendMsgList[i].data[2] = READ_MUTI

(***************************************************************************)
(* When nothing more is received, because the host failed or keeps silent  *)
(* for good, the module in the end shows the link as lost and takes itself *)
(* for unregistered, and this stays so: nothing that was under way when the*)
(* last frame arrived brings the registration back.                        *)
(***************************************************************************)
SilenceIsNoticed ==
    <>[][~Bus]_vars => <>[](connected = NO /\ registerState = NO)

(***************************************************************************)
(* With a host that stays up and answers, the module is time and again     *)
(* registered and connected, with no verdict to the contrary on its way: a *)
(* registration lost to the monitor, to a full list or to silence is made  *)
(* good.                                                                   *)
(***************************************************************************)
Reregisters ==
    []up => []<>(registerState = YES /\ connected = YES /\ Recent /\ mpc # "lost")

=============================================================================
