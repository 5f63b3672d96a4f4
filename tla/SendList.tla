------------------------------ MODULE SendList ------------------------------
(***************************************************************************)
(* Communicate.c: the uart thread puts replies and registration requests in*)
(* a bounded list and sends one entry per poll in which nothing was        *)
(* received.  Only that thread touches the list.                           *)
(***************************************************************************)
EXTENDS Messages, FiniteSets

CONSTANT Data   \* the messages the callers build, byte sequences

ASSUME DataAssumption == Data \subseteq Seq(Byte) \ {<<>>}

VARIABLES
    sendMsgList, \* the list, first entry first
    wire         \* the entry SendToMaster wrote last

vars == <<sendMsgList, wire>>

Nothing == [data |-> <<>>, len |-> 0]

Init ==
    /\ sendMsgList = <<>>
    /\ wire = Nothing

\* The allocation fails or the message goes through AddToSendMsgList.
Add(data) ==
    /\ \/ UNCHANGED sendMsgList
       \/ sendMsgList' = AddToSendMsgList(sendMsgList, data)
    /\ UNCHANGED wire

\* Send the first entry, then take it out by looking its bytes up again.
SendMsgHandle ==
    /\ sendMsgList # <<>>
    /\ sendMsgList[1].len # 0
    /\ wire' = sendMsgList[1]
    /\ sendMsgList' =
         RemoveFromSendMsgList(sendMsgList, sendMsgList[1].data, MSG_SIZE)

Next == SendMsgHandle \/ \E data \in Data : Add(data)

Spec == Init /\ [][Next]_vars

\* The uart thread polls every 20 ms; some polls find nothing received.
FairSpec == Spec /\ WF_vars(SendMsgHandle)

-----------------------------------------------------------------------------
(* Types: the list is within its limit and every entry is a whole buffer.  *)
TypeOK ==
    /\ sendMsgList \in Seq(Entry)
    /\ Len(sendMsgList) <= MSG_LIST_MAX
    /\ wire \in Entry \cup {Nothing}

(***************************************************************************)
(* No two entries hold the same bytes, although AddToSendMsgList compares  *)
(* only as many bytes as the new message has: looking an entry up by its   *)
(* bytes can find no other.                                                *)
(***************************************************************************)
NoTwins ==
    \A i, j \in 1..Len(sendMsgList) :
        sendMsgList[i].data = sendMsgList[j].data => i = j

(***************************************************************************)
(* The list implements the outbox: what was kept is sent once, nothing else*)
(* is sent, nothing kept is lost.                                          *)
(***************************************************************************)
Kept == {sendMsgList[i] : i \in 1..Len(sendMsgList)}

Promise == INSTANCE Outbox WITH Message <- Entry, Capacity <- MSG_LIST_MAX,
                                pending <- Kept, wire <- wire

IsOutbox == Promise!Spec

(***************************************************************************)
(* Once no message is added any more, the list drains and stays empty: no  *)
(* entry is sent for ever or blocks those behind it.                       *)
(***************************************************************************)
ListDrains ==
    <>[][UNCHANGED sendMsgList \/ SendMsgHandle]_vars => <>[](sendMsgList = <<>>)
=============================================================================
