--------------------------- MODULE MessagesProofs ---------------------------
(***************************************************************************)
(* What the operations of the send list do to a list, for every buffer size*)
(* and list limit.                                                         *)
(***************************************************************************)
EXTENDS Messages, SequenceTheorems, TLAPS

-----------------------------------------------------------------------------
(***************************************************************************)
(* A message that is not refused becomes a whole entry (NewMsg pads it).   *)
(***************************************************************************)
LEMMA NewMsgIsEntry ==
    ASSUME NEW data \in Seq(Byte) \ {<<>>}, Len(data) <= MSG_SIZE
    PROVE  NewMsg(data) \in Entry
<1>1. data \in Seq(Byte) /\ Len(data) \in 1..MSG_SIZE
  BY EmptySeq, MessagesAssumption
<1>2. \A k \in 1..Len(data) : data[k] \in Byte
  BY <1>1
<1>3. [k \in 1..MSG_SIZE |-> IF k <= Len(data) THEN data[k] ELSE 0] \in Buffer
  BY <1>1, <1>2, MessagesAssumption DEF Buffer
<1> QED
  BY <1>1, <1>3 DEF NewMsg, Entry

(***************************************************************************)
(* Looking up the first entry by all its bytes finds the first entry, so   *)
(* RemoveFromSendMsgList as SendMsgHandle calls it takes off the head.     *)
(***************************************************************************)
LEMMA RemovesHead ==
    ASSUME NEW list \in Seq(Entry), list # <<>>
    PROVE  RemoveFromSendMsgList(list, list[1].data, MSG_SIZE) = Without(list, 1)
<1> DEFINE hits == {i \in 1..Len(list) :
                       SameBytes(list[1].data, list[i].data, MSG_SIZE)}
<1>1. Len(list) \in Nat /\ Len(list) >= 1
  BY EmptySeq
<1>2. 1 \in hits
  BY <1>1 DEF SameBytes
<1>3. (CHOOSE i \in hits : \A j \in hits : i <= j) = 1
  <2>1. \A j \in hits : 1 <= j
    BY <1>1
  <2>2. PICK k \in hits : k = (CHOOSE i \in hits : \A j \in hits : i <= j)
                          /\ \A j \in hits : k <= j
    BY <1>2, <2>1
  <2>3. k <= 1
    BY <1>2, <2>2, Zenon
  <2>4. k \in 1..Len(list)
    OBVIOUS
  <2>5. k = 1
    BY <1>1, <2>3, <2>4
  <2> QED
    BY <2>2, <2>5
<1>4. ~(MSG_SIZE > MSG_SIZE) /\ MSG_SIZE # 0
  BY MessagesAssumption
<1> QED
  BY <1>2, <1>3, <1>4 DEF RemoveFromSendMsgList

(***************************************************************************)
(* Taking off the head leaves a list one shorter of the other entries.     *)
(***************************************************************************)
LEMMA WithoutHead ==
    ASSUME NEW list \in Seq(Entry), list # <<>>
    PROVE  /\ Without(list, 1) \in Seq(Entry)
           /\ Len(Without(list, 1)) = Len(list) - 1
           /\ \A i \in 1..(Len(list) - 1) : Without(list, 1)[i] = list[i + 1]
<1>1. Len(list) \in Nat /\ Len(list) >= 1
  BY EmptySeq
<1>2. \A i \in 1..(Len(list) - 1) :
        Without(list, 1)[i] = list[i + 1] /\ list[i + 1] \in Entry
  BY <1>1 DEF Without
<1>3. Without(list, 1) \in [1..(Len(list) - 1) -> Entry]
  BY <1>1, <1>2 DEF Without
<1>4. Len(list) - 1 \in Nat
  BY <1>1
<1>5. Without(list, 1) \in Seq(Entry)
  BY <1>3, <1>4, IsASeq DEF Without
<1>6. Len(Without(list, 1)) = Len(list) - 1
  BY <1>3, <1>4, <1>5
<1> QED
  BY <1>2, <1>5, <1>6

(***************************************************************************)
(* A well-formed list stays one under AddToSendMsgList, whatever the       *)
(* message, and never passes the limit.                                    *)
(***************************************************************************)
LEMMA AddKeepsList ==
    ASSUME NEW list \in Seq(Entry), Len(list) <= MSG_LIST_MAX,
           NEW data \in Seq(Byte) \ {<<>>}
    PROVE  /\ AddToSendMsgList(list, data) \in Seq(Entry)
           /\ Len(AddToSendMsgList(list, data)) <= MSG_LIST_MAX
<1>1. CASE Refused(list, data)
  BY <1>1 DEF AddToSendMsgList
<1>2. CASE ~Refused(list, data)
  <2>1. Len(data) <= MSG_SIZE /\ Len(list) < MSG_LIST_MAX
    BY <1>2, MessagesAssumption DEF Refused
  <2>2. NewMsg(data) \in Entry
    BY <2>1, NewMsgIsEntry
  <2>3. <<NewMsg(data)>> \o list \in Seq(Entry)
        /\ Len(<<NewMsg(data)>> \o list) = Len(list) + 1
    BY <2>2
  <2> QED
    BY <1>2, <2>1, <2>3, MessagesAssumption DEF AddToSendMsgList
<1> QED
  BY <1>1, <1>2

(***************************************************************************)
(* Sending the first entry (SendMsgHandle) leaves a well-formed list.      *)
(***************************************************************************)
LEMMA SendKeepsList ==
    ASSUME NEW list \in Seq(Entry), Len(list) <= MSG_LIST_MAX, list # <<>>
    PROVE  LET rest == RemoveFromSendMsgList(list, list[1].data, MSG_SIZE)
           IN  rest \in Seq(Entry) /\ Len(rest) <= MSG_LIST_MAX
<1>1. RemoveFromSendMsgList(list, list[1].data, MSG_SIZE) = Without(list, 1)
  BY RemovesHead
<1>2. Without(list, 1) \in Seq(Entry) /\ Len(Without(list, 1)) = Len(list) - 1
  BY WithoutHead
<1> QED
  BY <1>1, <1>2, MessagesAssumption
=============================================================================
