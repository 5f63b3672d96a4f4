----------------------------- MODULE UartProofs -----------------------------
(***************************************************************************)
(* No wake-up of the uart thread is lost, and a registered module has heard*)
(* its host, for every bus, every set of addresses and every time-out.     *)
(***************************************************************************)
EXTENDS Uart, MessagesProofs

(***************************************************************************)
(* The inductive invariants.  NoLostFrame speaks of the poll only; it needs*)
(* that at every other point but the one between clearing the flag and the *)
(* first look at the buffer, a frame announced by a cleared flag is the one*)
(* that the analysis has read.  RegisteredIsRecent needs that a favourable *)
(* verdict of the monitor is still true when it is written, and that a time*)
(* the uart thread is about to store is no older than the one stored: it   *)
(* may have been read several seconds ago.                                 *)
(***************************************************************************)
FrameInv == upc # "verify" /\ flag = NO /\ rang => seen = slot

LinkInv ==
    /\ mpc # "idle" => started
    /\ link.heard \/ stamp.heard => started
    /\ mpc = "alive" => Recent
    /\ upc = "stamp" => /\ link.heard => stamp.heard
                        /\ stamp.silence <= link.silence
    /\ upc = "stamp" /\ started /\ mpc = "idle" /\ registerState = YES
         => stamp.heard /\ stamp.silence <= TIMEOUT
    /\ RegisteredIsRecent

(***************************************************************************)
(* The types, and that there is room for a message about to be copied.     *)
(***************************************************************************)
TypeInv ==
    /\ TypeOK
    /\ upc = "copy" => Len(sendMsgList) < MSG_LIST_MAX

-----------------------------------------------------------------------------
(***************************************************************************)
(* Bus addresses, including the two special ones, are bytes.               *)
(***************************************************************************)
LEMMA AddressesAreBytes == Addr \cup {BROADCAST, REGISTER_CODE} \subseteq Byte
BY UartAssumption, MessagesAssumption DEF BROADCAST

(***************************************************************************)
(* What ModbusCommandAnalysis hands to AddToSendMsgList is a message.      *)
(***************************************************************************)
LEMMA RepliesAreMessages ==
    ASSUME TypeOK, NEW m \in Replies
    PROVE  m \in Seq(Byte) \ {<<>>}
<1>1. head.addr \in Byte
  BY AddressesAreBytes DEF TypeOK
<1>2. READ_MUTI \in Byte /\ WRITE_MUTI \in Byte
  BY UartAssumption
<1>3. CASE head.cmd = "read"
  <2>1. Replies = {<<head.addr, READ_MUTI, v>> : v \in ReadValues}
    BY <1>3 DEF Replies
  <2>2. PICK v \in ReadValues : m = <<head.addr, READ_MUTI, v>>
    BY <2>1
  <2>3. v \in Byte
    BY UartAssumption
  <2> HIDE DEF READ_MUTI
  <2> QED
    BY <1>1, <1>2, <2>2, <2>3
<1>4. CASE head.cmd = "multi" /\ head.addr # BROADCAST
  <2>1. m = <<head.addr, WRITE_MUTI>>
    BY <1>4 DEF Replies
  <2> QED
    BY <1>1, <1>2, <2>1
<1>5. CASE head.cmd # "read" /\ ~(head.cmd = "multi" /\ head.addr # BROADCAST)
  <2>1. Replies = {}
    BY <1>5 DEF Replies
  <2> QED
    BY <2>1
<1> QED
  BY <1>3, <1>4, <1>5

(***************************************************************************)
(* The bytes of any frame in the buffer fit an entry of the list.          *)
(***************************************************************************)
LEMMA BytesAreMessages ==
    ASSUME NEW f \in Frame
    PROVE  /\ Bytes(f) \in Seq(Byte) \ {<<>>}
           /\ Len(Bytes(f)) = 2
           /\ NewMsg(Bytes(f)) \in Entry
<1>1. f.addr \in Byte
  BY AddressesAreBytes DEF Frame
<1>2. Code[f.cmd] \in Byte
  <2>1. f.cmd \in {"answer", "other", "read", "single", "multi"}
    BY DEF Frame
  <2> QED
    BY <2>1, UartAssumption DEF Code
<1>3. Bytes(f) \in Seq(Byte) \ {<<>>} /\ Len(Bytes(f)) = 2
  BY <1>1, <1>2 DEF Bytes
<1>4. 2 <= MSG_SIZE
  BY UartAssumption, MessagesAssumption
<1> QED
  BY <1>3, <1>4, NewMsgIsEntry

(***************************************************************************)
(* The placeholders of an empty buffer are of the types of real ones.      *)
(***************************************************************************)
LEMMA Placeholders ==
    /\ NoFrame \in Frame
    /\ NoHead \in [addr : Addr \cup {BROADCAST, REGISTER_CODE},
                   cmd : {"answer", "other", "read", "single", "multi"}]
    /\ Unheard \in [heard : BOOLEAN, silence : 0..(TIMEOUT + 1)]
BY UartAssumption DEF NoFrame, NoHead, Unheard, Frame

(***************************************************************************)
(* A second makes a time of contact older by one, up to one past TIMEOUT,  *)
(* and keeps the order of two such times.                                  *)
(***************************************************************************)
LEMMA OlderIsTime ==
    ASSUME NEW t \in [heard : BOOLEAN, silence : 0..(TIMEOUT + 1)]
    PROVE  /\ Older(t) \in [heard : BOOLEAN, silence : 0..(TIMEOUT + 1)]
           /\ Older(t).heard = t.heard
           /\ Older(t).silence = IF t.silence > TIMEOUT THEN TIMEOUT + 1
                                 ELSE t.silence + 1
BY UartAssumption DEF Older

(***************************************************************************)
(* A registration request is a message.                                    *)
(***************************************************************************)
LEMMA RequestIsMessage ==
    ASSUME addr \in Addr
    PROVE  RegisterData \in Seq(Byte) \ {<<>>}
BY AddressesAreBytes, MessagesAssumption DEF RegisterData, REGISTER_ASK

-----------------------------------------------------------------------------
(***************************************************************************)
(* Every step keeps the types, the limit of the list among them.           *)
(***************************************************************************)
LEMMA TypeStep == TypeInv /\ [Next]_vars => TypeInv'
<1> SUFFICES ASSUME TypeInv, [Next]_vars PROVE TypeInv'
  OBVIOUS
<1>0. TypeOK
  BY DEF TypeInv
<1> USE DEF Goto
<1>1. CASE UNCHANGED vars
  BY <1>1 DEF TypeInv, TypeOK, vars, shared, uart, main, host
<1>2. CASE Poll
  BY <1>0, <1>2 DEF TypeInv, TypeOK, Poll, shared, main, host
<1>3. CASE PollSend
  <2>1. sendMsgList' \in Seq(Entry) /\ Len(sendMsgList') <= MSG_LIST_MAX
    BY <1>0, <1>3, SendKeepsList DEF TypeOK, PollSend
  <2>2. asked' \in BOOLEAN
    BY <1>0, <1>3 DEF TypeOK, PollSend
  <2> QED
    BY <1>0, <1>3, <2>1, <2>2 DEF TypeInv, TypeOK, PollSend, main
<1>4. CASE Verify
  BY <1>0, <1>4 DEF TypeInv, TypeOK, Verify, shared, main, host
<1>5. ASSUME Reads PROVE seen' \in Frame
  BY <1>0, <1>5, Placeholders DEF TypeOK, Reads
<1>6. CASE Register
  <2>1. registerState' \in {NO, YES} /\ upc' \in {"assign", "touch"}
    BY <1>0, <1>6 DEF TypeOK, Register
  <2> QED
    BY <1>0, <1>5, <1>6, <2>1 DEF TypeInv, TypeOK, Register, main, host
<1>7. CASE Assign
  <2>1. addr' \in Addr
    BY <1>0, <1>7 DEF TypeOK, Assign, Frame
  <2> QED
    BY <1>0, <1>5, <1>7, <2>1 DEF TypeInv, TypeOK, Assign, main, host
<1>8. CASE Kind \/ Filter \/ Test \/ CompareRefuses
  BY <1>0, <1>5, <1>8
     DEF TypeInv, TypeOK, Kind, Filter, Test, CompareRefuses, shared, main, host
<1>9. CASE Command
  <2>1. head' \in [addr : Addr \cup {BROADCAST, REGISTER_CODE},
                   cmd : {"answer", "other", "read", "single", "multi"}]
    BY <1>0, <1>9 DEF TypeOK, Command, Frame
  <2> QED
    BY <1>0, <1>5, <1>9, <2>1 DEF TypeInv, TypeOK, Command, shared, main, host
<1>10. CASE Data
  <2>1. sendMsgList' \in Seq(Entry) /\ Len(sendMsgList') <= MSG_LIST_MAX
    BY <1>0, <1>10, AddKeepsList, RepliesAreMessages DEF TypeOK, Data
  <2> QED
    BY <1>0, <1>5, <1>10, <2>1, Placeholders DEF TypeInv, TypeOK, Data, main, host
<1>11. CASE Compare
  <2>1. Len(sendMsgList) < MSG_LIST_MAX
    BY <1>0, <1>11, MessagesAssumption DEF TypeOK, Compare, Refused
  <2> QED
    BY <1>0, <1>5, <1>11, <2>1 DEF TypeInv, TypeOK, Compare, shared, main, host
<1>12. CASE Copy
  <2>1. Len(sendMsgList) < MSG_LIST_MAX /\ upc' = "touch"
    BY <1>12 DEF TypeInv, Copy
  <2>2. NewMsg(Bytes(slot)) \in Entry
    BY <1>0, BytesAreMessages DEF TypeOK
  <2>3. sendMsgList' = <<NewMsg(Bytes(slot))>> \o sendMsgList
    BY <1>12 DEF Copy
  <2>4. sendMsgList' \in Seq(Entry) /\ Len(sendMsgList') = Len(sendMsgList) + 1
    BY <1>0, <2>2, <2>3 DEF TypeOK
  <2>5. Len(sendMsgList') <= MSG_LIST_MAX
    BY <1>0, <2>1, <2>4, MessagesAssumption DEF TypeOK
  <2> QED
    BY <1>0, <1>5, <1>12, <2>1, <2>4, <2>5 DEF TypeInv, TypeOK, Copy, main, host
<1>13. CASE Touch
  <2>1. stamp' \in [heard : BOOLEAN, silence : 0..(TIMEOUT + 1)]
    BY <1>0, <1>13, UartAssumption DEF TypeOK, Touch
  <2> QED
    BY <1>0, <1>13, <2>1 DEF TypeInv, TypeOK, Touch, shared, main, host
<1>14. CASE Stamp
  <2>1. stamp' \in [heard : BOOLEAN, silence : 0..(TIMEOUT + 1)]
    BY <1>14, Placeholders DEF Stamp
  <2>2. link' \in [heard : BOOLEAN, silence : 0..(TIMEOUT + 1)]
    BY <1>0, <1>14 DEF TypeOK, Stamp
  <2> QED
    BY <1>0, <1>14, <2>1, <2>2 DEF TypeInv, TypeOK, Stamp, main, host
<1>15. CASE Rest
  <2>1. RegisterData \in Seq(Byte) \ {<<>>}
    BY <1>0, RequestIsMessage DEF TypeOK
  <2>2. sendMsgList' \in Seq(Entry) /\ Len(sendMsgList') <= MSG_LIST_MAX
    BY <1>0, <1>15, <2>1, AddKeepsList DEF TypeOK, Rest
  <2>3. sinceTry' \in 0..RetryTime
    BY <1>0, <1>15, UartAssumption DEF TypeOK, Rest
  <2> QED
    BY <1>0, <1>15, <2>2, <2>3 DEF TypeInv, TypeOK, Rest, host
<1>16. CASE Tick
  <2>1. link' \in [heard : BOOLEAN, silence : 0..(TIMEOUT + 1)]
    BY <1>0, <1>16, OlderIsTime DEF TypeOK, Tick
  <2>2. stamp' \in [heard : BOOLEAN, silence : 0..(TIMEOUT + 1)]
    BY <1>0, <1>16, OlderIsTime DEF TypeOK, Tick
  <2>3. sinceTry' \in 0..RetryTime
    BY <1>0, <1>16, UartAssumption DEF TypeOK, Tick
  <2> QED
    BY <1>0, <1>16, <2>1, <2>2, <2>3 DEF TypeInv, TypeOK, Tick, host
<1>17. CASE Monitor
  BY <1>0, <1>17 DEF TypeInv, TypeOK, Monitor, shared, uart, host
<1>18. CASE Verdict
  BY <1>0, <1>18 DEF TypeInv, TypeOK, Verdict, uart, host
<1>19. CASE HostFails
  <2>1. up' \in BOOLEAN
    BY <1>19, Zenon DEF HostFails
  <2> QED
    BY <1>0, <1>19, <2>1 DEF TypeInv, TypeOK, HostFails, shared, uart, main
<1>20. ASSUME NEW f \in Frames, Uart1_input(f) PROVE TypeInv'
  <2>1. f \in Frame
    BY UartAssumption
  <2>2. rang' \in BOOLEAN /\ asked' \in BOOLEAN /\ quiet' \in BOOLEAN
    BY <1>20, Zenon DEF Uart1_input, Accepts
  <2> QED
    BY <1>0, <1>20, <2>1, <2>2 DEF TypeInv, TypeOK, Uart1_input, shared, uart, main
<1> QED
  BY <1>1, <1>2, <1>3, <1>4, <1>6, <1>7, <1>8, <1>9, <1>10, <1>11, <1>12, <1>13,
     <1>14, <1>15, <1>16, <1>17, <1>18, <1>19, <1>20
     DEF Next, UartThread, MainThread, Bus

(***************************************************************************)
(* What UartEntry initialises is well typed.                               *)
(***************************************************************************)
LEMMA TypeInit == Init => TypeInv
<1> SUFFICES ASSUME Init PROVE TypeInv
  OBVIOUS
<1>1. sendMsgList \in Seq(Entry) /\ Len(sendMsgList) <= MSG_LIST_MAX
  BY MessagesAssumption, EmptySeq DEF Init
<1>2. link \in [heard : BOOLEAN, silence : 0..(TIMEOUT + 1)]
  BY Placeholders DEF Init
<1>3. sinceTry \in 0..RetryTime
  BY UartAssumption DEF Init
<1>4. started \in BOOLEAN /\ asked \in BOOLEAN /\ quiet \in BOOLEAN
      /\ up \in BOOLEAN /\ rang \in BOOLEAN
  BY Zenon DEF Init
<1> QED
  BY <1>1, <1>2, <1>3, <1>4, Placeholders DEF Init, TypeInv, TypeOK

(***************************************************************************)
(* Every variable of the link keeps its type and the send list its limit,  *)
(* whatever arrives and however the threads interleave.                    *)
(***************************************************************************)
THEOREM TypeCorrect == Spec => []TypeOK
<1>1. TypeInv => TypeOK
  BY DEF TypeInv
<1> QED
  BY <1>1, TypeInit, TypeStep, PTL DEF Spec

-----------------------------------------------------------------------------
(***************************************************************************)
(* FrameInv is inductive: an arrival either sets the flag or is not        *)
(* announced, and a read of the buffer by the analysis finds the frame it  *)
(* began with unless an arrival came between.                              *)
(***************************************************************************)
LEMMA FrameStep == FrameInv /\ [Next]_vars => FrameInv'
<1> SUFFICES ASSUME FrameInv, [Next]_vars PROVE FrameInv'
  OBVIOUS
<1> USE DEF FrameInv, Goto, NO, YES
<1>1. CASE UNCHANGED vars
  BY <1>1 DEF vars, uart
<1>2. CASE Poll
  BY <1>2 DEF Poll
<1>3. CASE PollSend \/ Touch \/ Stamp \/ Rest
  BY <1>3 DEF PollSend, Touch, Stamp, Rest
<1>4. CASE Verify
  BY <1>4 DEF Verify
<1>5. CASE \/ Kind \/ Register \/ Assign \/ Filter \/ Command \/ Data \/ Test
           \/ CompareRefuses \/ Compare \/ Copy
  BY <1>5 DEF Kind, Register, Assign, Filter, Command, Data, Test,
              CompareRefuses, Compare, Copy, Reads
<1>6. CASE Tick \/ Monitor \/ Verdict
  BY <1>6 DEF Tick, Monitor, Verdict, uart
<1>7. CASE HostFails
  BY <1>7 DEF HostFails, uart
<1>8. ASSUME NEW f \in Frames, Uart1_input(f) PROVE FrameInv'
  <2>1. CASE Accepts(f)
    BY <1>8, <2>1 DEF Uart1_input
  <2>2. CASE ~Accepts(f)
    <3>1. rang' = Accepts(f)
      BY <1>8 DEF Uart1_input
    <3>2. ~rang'
      BY <2>2, <3>1
    <3> QED
      BY <3>2
  <2> QED
    BY <2>1, <2>2
<1> QED
  BY <1>1, <1>2, <1>3, <1>4, <1>5, <1>6, <1>7, <1>8
     DEF Next, UartThread, MainThread, Bus

(***************************************************************************)
(* No wake-up is lost: when the uart thread polls and finds the flag clear,*)
(* the frame last announced and still in the buffer has been analysed as a *)
(* whole (Uart1_input, UartEntry, Uart1Analysis).                          *)
(***************************************************************************)
THEOREM NoWakeUpIsLost == Spec => []NoLostFrame
<1>1. Init => FrameInv
  BY DEF Init, FrameInv
<1>2. FrameInv => NoLostFrame
  BY DEF FrameInv, NoLostFrame
<1> QED
  BY <1>1, <1>2, FrameStep, PTL DEF Spec

-----------------------------------------------------------------------------
(***************************************************************************)
(* LinkInv is inductive.  The only step that registers the module leaves   *)
(* the uart thread on its way to a contact that is recent when it is       *)
(* stored; the only step that lets time pass leaves the main thread before *)
(* the monitor, which unregisters the module if the time stored is old.    *)
(***************************************************************************)
LEMMA LinkStep == TypeOK /\ LinkInv /\ [Next]_vars => LinkInv'
<1> SUFFICES ASSUME TypeOK, LinkInv, [Next]_vars PROVE LinkInv'
  OBVIOUS
<1> USE DEF LinkInv, RegisteredIsRecent, Recent, Goto, NO, YES
<1>1. CASE UNCHANGED vars
  BY <1>1 DEF vars, shared, uart, main
<1>2. CASE \/ Poll \/ Verify \/ Kind \/ Filter \/ Command \/ Test
           \/ CompareRefuses \/ Compare
  BY <1>2 DEF Poll, Verify, Kind, Filter, Command, Test, CompareRefuses, Compare,
              shared, main
<1>3. CASE PollSend \/ Data \/ Copy
  <2>1. /\ UNCHANGED <<link, stamp, started, registerState, mpc>>
        /\ upc \in {"poll", "data", "copy"} /\ upc' \in {"rest", "test", "touch"}
    <3>1. CASE PollSend
      BY <3>1 DEF PollSend, main
    <3>2. CASE Data
      BY <3>2 DEF Data, main
    <3>3. CASE Copy
      BY <3>3 DEF Copy, main
    <3> QED
      BY <1>3, <3>1, <3>2, <3>3
  <2> QED
    BY <2>1
<1>4. CASE Register \/ Assign
  BY <1>4 DEF Register, Assign, main
<1>5. CASE Touch
  <2>1. stamp'.heard = started /\ stamp'.silence = 0
    BY <1>5 DEF Touch
  <2>2. 0 <= TIMEOUT /\ 0 <= link.silence
    BY UartAssumption DEF TypeOK
  <2> QED
    BY <1>5, <2>1, <2>2 DEF Touch, shared, main, TypeOK
<1>6. CASE Stamp
  <2>1. /\ link' = stamp
        /\ stamp'.heard = FALSE
    BY <1>6 DEF Stamp, Unheard
  <2>2. /\ upc = "stamp" /\ upc' = "rest"
        /\ UNCHANGED <<mpc, started, registerState>>
    BY <1>6 DEF Stamp, main
  <2>3. mpc = "alive" => stamp.heard /\ stamp.silence <= TIMEOUT
    BY <2>2, UartAssumption DEF TypeOK
  <2> QED
    BY <2>1, <2>2, <2>3 DEF TypeOK
<1>7. CASE Rest
  BY <1>7 DEF Rest
<1>8. CASE Tick
  <2>1. /\ link' = Older(link)
        /\ stamp' = IF upc = "stamp" THEN Older(stamp) ELSE stamp
        /\ mpc' = "monitor" /\ started' = TRUE /\ upc' = upc
    BY <1>8 DEF Tick
  <2>2. /\ Older(link).heard = link.heard /\ Older(stamp).heard = stamp.heard
        /\ Older(link).silence = IF link.silence > TIMEOUT THEN TIMEOUT + 1
                                 ELSE link.silence + 1
        /\ Older(stamp).silence = IF stamp.silence > TIMEOUT THEN TIMEOUT + 1
                                 ELSE stamp.silence + 1
    BY OlderIsTime DEF TypeOK
  <2>3. stamp.silence <= link.silence => Older(stamp).silence <= Older(link).silence
    BY <2>2, UartAssumption DEF TypeOK
  <2> QED
    BY <2>1, <2>2, <2>3
<1>9. CASE Monitor
  BY <1>9 DEF Monitor, shared, uart
<1>10. CASE Verdict
  <2>1. /\ mpc' = "idle"
        /\ registerState' = IF mpc = "alive" THEN registerState ELSE NO
        /\ UNCHANGED <<link, started, upc, stamp>>
    BY <1>10 DEF Verdict, uart
  <2>2. mpc = "alive" /\ upc = "stamp" => stamp.heard /\ stamp.silence <= TIMEOUT
    BY UartAssumption DEF TypeOK
  <2> QED
    BY <2>1, <2>2
<1>11. CASE HostFails
  BY <1>11 DEF HostFails, shared, uart, main
<1>12. ASSUME NEW f \in Frames, Uart1_input(f) PROVE LinkInv'
  BY <1>12 DEF Uart1_input, shared, uart, main
<1> QED
  BY <1>1, <1>2, <1>3, <1>4, <1>5, <1>6, <1>7, <1>8, <1>9, <1>10, <1>11, <1>12
     DEF Next, UartThread, MainThread, Bus

(***************************************************************************)
(* A module that takes itself for registered has heard its host within     *)
(* TIMEOUT, whichever way Uart1Analysis and MonitorConnectedState          *)
(* interleave.                                                             *)
(***************************************************************************)
THEOREM RegistrationIsRecent == Spec => []RegisteredIsRecent
<1>1. Init => LinkInv
  BY DEF Init, LinkInv, RegisteredIsRecent, Unheard
<1>2. LinkInv => RegisteredIsRecent
  BY DEF LinkInv
<1> QED
  BY <1>1, <1>2, LinkStep, TypeCorrect, PTL DEF Spec
-----------------------------------------------------------------------------
(***************************************************************************)
(* A frame on its way to the address test was verified; one that passed it *)
(* is for this module or for all, and the address only changes by a        *)
(* registration, which takes another way.                                  *)
(***************************************************************************)
OwnInv ==
    /\ upc \in {"kind", "filter"} /\ seen # NoFrame => seen.valid
    /\ OwnUnlessReplaced

LEMMA OwnStep == OwnInv /\ [Next]_vars => OwnInv'
<1> SUFFICES ASSUME OwnInv, [Next]_vars PROVE OwnInv'
  OBVIOUS
<1> USE DEF OwnInv, OwnUnlessReplaced, Goto
<1>1. CASE UNCHANGED vars
  BY <1>1 DEF vars, uart, shared
<1>2. CASE Poll \/ PollSend \/ CompareRefuses \/ Copy \/ Touch \/ Stamp \/ Rest
  BY <1>2 DEF Poll, PollSend, CompareRefuses, Copy, Touch, Stamp, Rest
<1>3. CASE Verify
  BY <1>3 DEF Verify, shared
<1>4. CASE Register \/ Assign
  BY <1>4 DEF Register, Assign
<1>5. CASE Kind \/ Filter
  BY <1>5 DEF Kind, Filter, Reads, shared
<1>6. CASE Command \/ Data \/ Test \/ Compare
  BY <1>6 DEF Command, Data, Test, Compare, Reads, shared
<1>7. CASE Tick \/ Monitor \/ Verdict
  BY <1>7 DEF Tick, Monitor, Verdict, uart, shared
<1>8. CASE HostFails
  BY <1>8 DEF HostFails, uart, shared
<1>9. ASSUME NEW f \in Frames, Uart1_input(f) PROVE OwnInv'
  BY <1>9 DEF Uart1_input, uart, shared
<1> QED
  BY <1>1, <1>2, <1>3, <1>4, <1>5, <1>6, <1>7, <1>8, <1>9
     DEF Next, UartThread, MainThread, Bus

(***************************************************************************)
(* What Uart1Analysis hands to ModbusCommandAnalysis, unless it was        *)
(* replaced in the meantime, is intact and for this module or for all.     *)
(***************************************************************************)
THEOREM OwnFramesOnly == Spec => []OwnUnlessReplaced
<1>1. Init => OwnInv
  BY DEF Init, OwnInv, OwnUnlessReplaced
<1>2. OwnInv => OwnUnlessReplaced
  BY DEF OwnInv
<1> QED
  BY <1>1, <1>2, OwnStep, PTL DEF Spec
-----------------------------------------------------------------------------
(***************************************************************************)
(* The steps that leave the list alone.                                    *)
(***************************************************************************)
ListKept ==
    \/ Poll \/ Verify \/ Kind \/ Register \/ Assign \/ Filter \/ Command \/ Test
    \/ CompareRefuses \/ Compare \/ Touch \/ Stamp
    \/ MainThread \/ Bus \/ HostFails \/ UNCHANGED vars

LEMMA ListUnchanged == ListKept => UNCHANGED sendMsgList
<1>1. Poll \/ Verify \/ Kind \/ Register \/ Assign => UNCHANGED sendMsgList
  BY DEF Poll, Verify, Kind, Register, Assign, shared
<1>2. Filter \/ Command \/ Test \/ CompareRefuses \/ Compare
        => UNCHANGED sendMsgList
  BY DEF Filter, Command, Test, CompareRefuses, Compare, shared
<1>3. Touch \/ Stamp => UNCHANGED sendMsgList
  BY DEF Touch, Stamp, shared
<1>4. MainThread => UNCHANGED sendMsgList
  BY DEF MainThread, Tick, Monitor, Verdict, shared
<1>5. Bus \/ HostFails => UNCHANGED sendMsgList
  BY DEF Bus, Uart1_input, HostFails, shared
<1>6. UNCHANGED vars => UNCHANGED sendMsgList
  BY DEF vars, shared
<1> QED
  BY <1>1, <1>2, <1>3, <1>4, <1>5, <1>6 DEF ListKept

(***************************************************************************)
(* Entries of the list that do not answer a write to all.                  *)
(***************************************************************************)
Silent(e) == e.data[1] = BROADCAST => e.data[2] = READ_MUTI

(***************************************************************************)
(* A message of two bytes or more is either refused or becomes the first   *)
(* entry of the list, with its first two bytes.                            *)
(***************************************************************************)
LEMMA AddedFirst ==
    ASSUME NEW list \in Seq(Entry), NEW data \in Seq(Byte) \ {<<>>},
           Len(data) >= 2, ~Refused(list, data)
    PROVE  LET new == AddToSendMsgList(list, data)
           IN  /\ Len(new) = Len(list) + 1
               /\ new[1].data[1] = data[1] /\ new[1].data[2] = data[2]
               /\ \A i \in 2..Len(new) : new[i] = list[i - 1]
<1> DEFINE e == NewMsg(data)
<1>1. Len(data) \in Nat /\ Len(data) <= MSG_SIZE /\ 2 <= MSG_SIZE
  BY MessagesAssumption DEF Refused
<1>2. e \in Entry
  BY <1>1, NewMsgIsEntry
<1>3. e.data[1] = data[1] /\ e.data[2] = data[2]
  BY <1>1, MessagesAssumption DEF NewMsg
<1>4. AddToSendMsgList(list, data) = <<e>> \o list
  BY DEF AddToSendMsgList
<1> HIDE DEF e
<1>5. /\ Len(<<e>> \o list) = Len(list) + 1
      /\ (<<e>> \o list)[1] = e
      /\ \A i \in 2..Len(<<e>> \o list) : (<<e>> \o list)[i] = list[i - 1]
  BY <1>2
<1> QED
  BY <1>3, <1>4, <1>5

(***************************************************************************)
(* AddToSendMsgList with a silent message keeps a silent list silent.      *)
(***************************************************************************)
LEMMA AddKeepsSilence ==
    ASSUME NEW list \in Seq(Entry), NEW data \in Seq(Byte) \ {<<>>},
           Len(data) >= 2, data[1] = BROADCAST => data[2] = READ_MUTI,
           \A i \in 1..Len(list) : Silent(list[i])
    PROVE  LET new == AddToSendMsgList(list, data)
           IN  \A i \in 1..Len(new) : Silent(new[i])
<1> DEFINE new == AddToSendMsgList(list, data)
<1>1. CASE Refused(list, data)
  BY <1>1 DEF AddToSendMsgList
<1>2. CASE ~Refused(list, data)
  <2>1. /\ Len(new) = Len(list) + 1
        /\ new[1].data[1] = data[1] /\ new[1].data[2] = data[2]
        /\ \A i \in 2..Len(new) : new[i] = list[i - 1]
    BY <1>2, AddedFirst
  <2> HIDE DEF new
  <2>2. Silent(new[1])
    BY <2>1 DEF Silent
  <2>3. ASSUME NEW i \in 2..Len(new) PROVE Silent(new[i])
    <3>1. i - 1 \in 1..Len(list)
      BY <2>1
    <3>2. new[i] = list[i - 1]
      BY <2>1
    <3> QED
      BY <3>1, <3>2
  <2>4. ASSUME NEW i \in 1..Len(new) PROVE i = 1 \/ i \in 2..Len(new)
    BY <2>1
  <2> QED
    BY <2>2, <2>3, <2>4 DEF new
<1> QED
  BY <1>1, <1>2

(***************************************************************************)
(* A reply that ModbusCommandAnalysis builds has two bytes or more, and    *)
(* with address 0 it answers a read.                                       *)
(***************************************************************************)
LEMMA RepliesAreSilent ==
    ASSUME NEW m \in Replies
    PROVE  Len(m) >= 2 /\ (m[1] = BROADCAST => m[2] = READ_MUTI)
<1>1. CASE head.cmd = "read"
  <2>1. Replies = {<<head.addr, READ_MUTI, v>> : v \in ReadValues}
    BY <1>1 DEF Replies
  <2>2. PICK v \in ReadValues : m = <<head.addr, READ_MUTI, v>>
    BY <2>1
  <2> QED
    BY <2>2
<1>2. CASE head.cmd = "multi" /\ head.addr # BROADCAST
  <2>1. m = <<head.addr, WRITE_MUTI>>
    BY <1>2 DEF Replies
  <2> QED
    BY <1>2, <2>1
<1>3. CASE head.cmd # "read" /\ ~(head.cmd = "multi" /\ head.addr # BROADCAST)
  <2>1. Replies = {}
    BY <1>3 DEF Replies
  <2> QED
    BY <2>1
<1> QED
  BY <1>1, <1>2, <1>3

(***************************************************************************)
(* With a polite host the buffer stays as it is during an analysis, so what*)
(* was tested and compared is what is copied.                              *)
(***************************************************************************)
EchoInv ==
    /\ upc \in {"compare", "copy"} => slot.addr # BROADCAST
    /\ upc = "copy" => ~Refused(sendMsgList, Bytes(slot))

LEMMA EchoStep == PoliteHost /\ EchoInv /\ [Next]_vars => EchoInv'
<1> SUFFICES ASSUME PoliteHost, EchoInv, [Next]_vars PROVE EchoInv'
  OBVIOUS
<1> USE DEF EchoInv, Goto
<1>1. CASE UNCHANGED vars
  BY <1>1 DEF vars, shared, uart
<1>2. CASE \/ Poll \/ PollSend \/ Verify \/ Kind \/ Register \/ Assign \/ Filter
           \/ Command \/ Data \/ CompareRefuses \/ Copy \/ Touch \/ Stamp \/ Rest
  BY <1>2 DEF Poll, PollSend, Verify, Kind, Register, Assign, Filter, Command,
              Data, CompareRefuses, Copy, Touch, Stamp, Rest
<1>3. CASE Test \/ Compare
  BY <1>3 DEF Test, Compare, shared
<1>4. CASE Tick \/ Monitor \/ Verdict
  BY <1>4 DEF Tick, Monitor, Verdict, shared, uart
<1>5. CASE HostFails
  BY <1>5 DEF HostFails, shared, uart
<1>6. ASSUME NEW f \in Frames, Uart1_input(f) PROVE EchoInv'
  BY <1>6 DEF Uart1_input, uart
<1> QED
  BY <1>1, <1>2, <1>3, <1>4, <1>5, <1>6 DEF Next, UartThread, MainThread, Bus

(***************************************************************************)
(* The copy of a message that was not refused is AddToSendMsgList of it.   *)
(***************************************************************************)
LEMMA CopyAdds ==
    ASSUME TypeOK, EchoInv, Copy
    PROVE  /\ sendMsgList' = AddToSendMsgList(sendMsgList, Bytes(slot))
           /\ Bytes(slot) \in Seq(Byte) \ {<<>>} /\ Len(Bytes(slot)) = 2
           /\ Bytes(slot)[1] # BROADCAST
<1>1. ~Refused(sendMsgList, Bytes(slot)) /\ slot.addr # BROADCAST
  BY DEF EchoInv, Copy
<1>2. Bytes(slot)[1] = slot.addr
  BY DEF Bytes
<1> QED
  BY <1>1, <1>2, BytesAreMessages DEF TypeOK, Copy, AddToSendMsgList

(***************************************************************************)
(* WritesToAllAreSilent is then inductive together with the types.         *)
(***************************************************************************)
LEMMA SilentStep ==
    TypeOK /\ EchoInv /\ WritesToAllAreSilent /\ [Next]_vars
        => WritesToAllAreSilent'
<1> SUFFICES ASSUME TypeOK, EchoInv, WritesToAllAreSilent, [Next]_vars
             PROVE  WritesToAllAreSilent'
  OBVIOUS
<1>0. /\ sendMsgList \in Seq(Entry)
      /\ \A i \in 1..Len(sendMsgList) : Silent(sendMsgList[i])
  BY DEF TypeOK, WritesToAllAreSilent, Silent
<1>1. CASE UNCHANGED sendMsgList
  BY <1>1 DEF WritesToAllAreSilent
<1>2. CASE PollSend /\ sendMsgList # <<>>
  <2>1. sendMsgList' = Without(sendMsgList, 1)
    BY <1>0, <1>2, RemovesHead DEF PollSend
  <2>2. /\ Len(sendMsgList') = Len(sendMsgList) - 1
        /\ \A i \in 1..(Len(sendMsgList) - 1) :
              sendMsgList'[i] = sendMsgList[i + 1]
    BY <1>0, <1>2, <2>1, WithoutHead
  <2>3. ASSUME NEW i \in 1..Len(sendMsgList') PROVE Silent(sendMsgList'[i])
    <3>1. i + 1 \in 1..Len(sendMsgList) /\ i \in 1..(Len(sendMsgList) - 1)
      BY <1>0, <2>2
    <3> QED
      BY <1>0, <2>2, <3>1
  <2> QED
    BY <2>3 DEF WritesToAllAreSilent, Silent
<1>3. CASE Data
  <2>1. ASSUME NEW m \in Replies,
               sendMsgList' = AddToSendMsgList(sendMsgList, m)
        PROVE  \A i \in 1..Len(sendMsgList') : Silent(sendMsgList'[i])
    BY <1>0, <2>1, RepliesAreMessages, RepliesAreSilent, AddKeepsSilence
  <2> QED
    BY <1>1, <1>3, <2>1 DEF Data, WritesToAllAreSilent, Silent
<1>4. CASE Copy
  <2>1. \A i \in 1..Len(sendMsgList') : Silent(sendMsgList'[i])
    BY <1>0, <1>4, CopyAdds, AddKeepsSilence
  <2> QED
    BY <2>1 DEF WritesToAllAreSilent, Silent
<1>5. CASE Rest
  <2>1. RegisterData \in Seq(Byte) \ {<<>>}
    BY RequestIsMessage DEF TypeOK
  <2>2. Len(RegisterData) >= 2 /\ RegisterData[1] # BROADCAST
    BY DEF RegisterData, REGISTER_CODE, BROADCAST
  <2>3. CASE sendMsgList' = AddToSendMsgList(sendMsgList, RegisterData)
    <3>1. \A i \in 1..Len(sendMsgList') : Silent(sendMsgList'[i])
      BY <1>0, <2>1, <2>2, <2>3, AddKeepsSilence
    <3> QED
      BY <3>1 DEF WritesToAllAreSilent, Silent
  <2> QED
    BY <1>1, <1>5, <2>3 DEF Rest
<1> QED
  <2>1. CASE PollSend
    BY <1>1, <1>2, <2>1 DEF PollSend
  <2>2. CASE ListKept
    BY <1>1, <2>2, ListUnchanged
  <2> QED
    BY <1>3, <1>4, <1>5, <2>1, <2>2 DEF Next, UartThread, ListKept

(***************************************************************************)
(* No write to all is answered, as long as the host leaves the buffer alone*)
(* while ModbusCommandAnalysis tests, compares and copies it.              *)
(***************************************************************************)
THEOREM NoAnswerToAll == Spec => [](PoliteHost => WritesToAllAreSilent)
<1> DEFINE Inv == PoliteHost => EchoInv /\ WritesToAllAreSilent
<1>1. Init => Inv
  BY DEF Init, EchoInv, WritesToAllAreSilent
<1>2. TypeOK /\ Inv /\ [Next]_vars => Inv'
  BY EchoStep, SilentStep
<1>3. Inv => (PoliteHost => WritesToAllAreSilent)
  OBVIOUS
<1> QED
  BY <1>1, <1>2, <1>3, TypeCorrect, PTL DEF Spec
-----------------------------------------------------------------------------
(***************************************************************************)
(* No two entries of a list hold the same bytes.                           *)
(***************************************************************************)
Apart(list) ==
    \A i, j \in 1..Len(list) : list[i].data = list[j].data => i = j

(***************************************************************************)
(* AddToSendMsgList compares only the bytes of the new message, and yet no *)
(* entry it adds has a twin.                                               *)
(***************************************************************************)
LEMMA AddKeepsApart ==
    ASSUME NEW list \in Seq(Entry), NEW data \in Seq(Byte) \ {<<>>}, Apart(list)
    PROVE  Apart(AddToSendMsgList(list, data))
<1> DEFINE e == NewMsg(data)
           new == <<e>> \o list
<1>1. CASE Refused(list, data)
  BY <1>1 DEF AddToSendMsgList
<1>2. CASE ~Refused(list, data)
  <2>1. Len(data) \in Nat /\ Len(data) <= MSG_SIZE
    BY <1>2, MessagesAssumption DEF Refused
  <2>2. e \in Entry
    BY <2>1, NewMsgIsEntry
  <2>3. ASSUME NEW i \in 1..Len(list), list[i].data = e.data PROVE FALSE
    <3>1. \A k \in 1..Len(data) : data[k] = e.data[k]
      BY <2>1, MessagesAssumption DEF NewMsg
    <3>2. SameBytes(data, list[i].data, Len(data))
      BY <2>3, <3>1 DEF SameBytes
    <3> QED
      BY <1>2, <3>2 DEF Refused, AlreadyListed
  <2>4. AddToSendMsgList(list, data) = new
    BY <1>2 DEF AddToSendMsgList
  <2> HIDE DEF e
  <2>5. /\ Len(new) = Len(list) + 1 /\ Len(list) \in Nat
        /\ new[1] = e
        /\ \A i \in 2..Len(new) : new[i] = list[i - 1]
    BY <2>2
  <2> HIDE DEF new
  <2>6. ASSUME NEW i \in 1..Len(new), NEW j \in 1..Len(new),
               new[i].data = new[j].data
        PROVE  i = j
    <3>1. ASSUME NEW k \in 1..Len(new), k # 1
          PROVE  k - 1 \in 1..Len(list) /\ new[k] = list[k - 1]
      BY <2>5, <3>1
    <3>2. CASE i = 1 /\ j # 1
      BY <2>3, <2>5, <2>6, <3>1, <3>2
    <3>3. CASE i # 1 /\ j = 1
      BY <2>3, <2>5, <2>6, <3>1, <3>3
    <3>4. CASE i # 1 /\ j # 1
      <4>1. i - 1 \in 1..Len(list) /\ j - 1 \in 1..Len(list)
        BY <3>1, <3>4
      <4>2. list[i - 1].data = list[j - 1].data
        BY <2>6, <3>1, <3>4
      <4>3. i - 1 = j - 1
        BY <4>1, <4>2 DEF Apart
      <4> QED
        BY <2>5, <4>3
    <3> QED
      BY <3>2, <3>3, <3>4
  <2> QED
    BY <2>4, <2>6 DEF Apart
<1> QED
  BY <1>1, <1>2

(***************************************************************************)
(* Sending the first entry leaves the others apart.                        *)
(***************************************************************************)
LEMMA SendKeepsApart ==
    ASSUME NEW list \in Seq(Entry), list # <<>>, Apart(list)
    PROVE  Apart(RemoveFromSendMsgList(list, list[1].data, MSG_SIZE))
<1> DEFINE rest == Without(list, 1)
<1>1. RemoveFromSendMsgList(list, list[1].data, MSG_SIZE) = rest
  BY RemovesHead
<1>2. /\ Len(rest) = Len(list) - 1 /\ Len(list) \in Nat
      /\ \A i \in 1..(Len(list) - 1) : rest[i] = list[i + 1]
  BY WithoutHead
<1> HIDE DEF rest
<1>3. ASSUME NEW i \in 1..Len(rest), NEW j \in 1..Len(rest),
             rest[i].data = rest[j].data
      PROVE  i = j
  <2>1. /\ i + 1 \in 1..Len(list) /\ j + 1 \in 1..Len(list)
        /\ rest[i] = list[i + 1] /\ rest[j] = list[j + 1]
    BY <1>2
  <2>2. i + 1 = j + 1
    BY <1>3, <2>1 DEF Apart
  <2> QED
    BY <1>2, <2>2
<1> QED
  BY <1>1, <1>3 DEF Apart

(***************************************************************************)
(* The list of the link is inductively apart, given the types and a buffer *)
(* that stays as it is: replies and registration requests all go through   *)
(* AddToSendMsgList.                                                       *)
(***************************************************************************)
QueuedOnce == Apart(sendMsgList)

LEMMA QueuedStep == TypeOK /\ EchoInv /\ QueuedOnce /\ [Next]_vars => QueuedOnce'
<1> SUFFICES ASSUME TypeOK, EchoInv, QueuedOnce, [Next]_vars PROVE QueuedOnce'
  OBVIOUS
<1>0. sendMsgList \in Seq(Entry) /\ Apart(sendMsgList)
  BY DEF TypeOK, QueuedOnce
<1>1. CASE UNCHANGED sendMsgList
  BY <1>0, <1>1 DEF QueuedOnce, Apart
<1>2. ASSUME Apart(sendMsgList') PROVE QueuedOnce'
  BY <1>2 DEF QueuedOnce, Apart
<1>3. CASE PollSend
  BY <1>0, <1>1, <1>2, <1>3, SendKeepsApart DEF PollSend
<1>4. CASE Data
  <2>1. ASSUME NEW m \in Replies,
               sendMsgList' = AddToSendMsgList(sendMsgList, m)
        PROVE  QueuedOnce'
    BY <1>0, <1>2, <2>1, RepliesAreMessages, AddKeepsApart
  <2> QED
    BY <1>1, <1>4, <2>1 DEF Data
<1>5. CASE Copy
  BY <1>0, <1>2, <1>5, CopyAdds, AddKeepsApart
<1>6. CASE Rest
  <2>1. RegisterData \in Seq(Byte) \ {<<>>}
    BY RequestIsMessage DEF TypeOK
  <2>2. CASE sendMsgList' = AddToSendMsgList(sendMsgList, RegisterData)
    BY <1>0, <1>2, <2>1, <2>2, AddKeepsApart
  <2> QED
    BY <1>1, <1>6, <2>2 DEF Rest
<1>7. CASE ListKept
  BY <1>1, <1>7, ListUnchanged
<1> QED
  BY <1>3, <1>4, <1>5, <1>6, <1>7 DEF Next, UartThread, ListKept

(***************************************************************************)
(* With a host that leaves the buffer alone during an analysis, the same   *)
(* message is queued at most once, however often the 10 s block asks for   *)
(* registration and however often a command is repeated before its reply is*)
(* sent: a host that is silent cannot fill the list of replies with copies *)
(* of one request (GenerateRegisterData, AddToSendMsgList).                *)
(***************************************************************************)
THEOREM NothingIsQueuedTwice == Spec => [](PoliteHost => QueuedOnce)
<1> DEFINE Inv == PoliteHost => EchoInv /\ QueuedOnce
<1>1. Init => Inv
  BY EmptySeq DEF Init, EchoInv, QueuedOnce, Apart
<1>2. TypeOK /\ Inv /\ [Next]_vars => Inv'
  BY EchoStep, QueuedStep
<1>3. Inv => (PoliteHost => QueuedOnce)
  OBVIOUS
<1> QED
  BY <1>1, <1>2, <1>3, TypeCorrect, PTL DEF Spec
=============================================================================
