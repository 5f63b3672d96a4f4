--------------------------- MODULE SendListProofs ---------------------------
(***************************************************************************)
(* The send list keeps its limit and its entries apart, and implements the *)
(* outbox, for every buffer size, list limit and set of messages.          *)
(***************************************************************************)
EXTENDS SendList, MessagesProofs, FiniteSetTheorems

ListInv == TypeOK /\ NoTwins

-----------------------------------------------------------------------------
(***************************************************************************)
(* ListInv is inductive.  Add keeps the entries apart because a buffer that*)
(* equals an entry's agrees with it on the bytes compared.                 *)
(***************************************************************************)
LEMMA AddKeepsListInv ==
    ASSUME ListInv, NEW data \in Data, ~Refused(sendMsgList, data),
           sendMsgList' = <<NewMsg(data)>> \o sendMsgList, UNCHANGED wire
    PROVE  /\ ListInv'
           /\ \A i \in 1..Len(sendMsgList) : sendMsgList[i] # NewMsg(data)
           /\ Kept' = Kept \cup {NewMsg(data)}
<1> DEFINE m == NewMsg(data)
           list == sendMsgList
<1>1. list \in Seq(Entry) /\ Len(list) < MSG_LIST_MAX /\ Len(list) \in Nat
  BY MessagesAssumption DEF ListInv, TypeOK, Refused
<1>2. m \in Entry
  BY NewMsgIsEntry, DataAssumption, MessagesAssumption DEF Refused
<1>3. /\ list' \in Seq(Entry) /\ Len(list') = Len(list) + 1
      /\ list'[1] = m
      /\ \A i \in 2..Len(list') : list'[i] = list[i - 1]
  BY <1>1, <1>2
<1>4. \A i \in 1..Len(list) : list[i].data # m.data
  <2> SUFFICES ASSUME NEW i \in 1..Len(list), list[i].data = m.data
               PROVE  FALSE
    OBVIOUS
  <2>1. Len(data) \in Nat /\ Len(data) <= MSG_SIZE
    BY DataAssumption, MessagesAssumption DEF Refused
  <2>2. \A k \in 1..Len(data) : data[k] = m.data[k]
    BY <2>1, MessagesAssumption DEF NewMsg
  <2>3. SameBytes(data, list[i].data, Len(data))
    BY <2>2 DEF SameBytes
  <2> QED
    BY <2>3 DEF Refused, AlreadyListed
<1>5. TypeOK'
  BY <1>1, <1>3, MessagesAssumption DEF ListInv, TypeOK
<1>6. NoTwins'
  <2> SUFFICES ASSUME NEW i \in 1..Len(list'), NEW j \in 1..Len(list'),
                      list'[i].data = list'[j].data
               PROVE  i = j
    BY DEF NoTwins
  <2>1. CASE i = 1 /\ j # 1
    BY <1>1, <1>3, <1>4, <2>1
  <2>2. CASE i # 1 /\ j = 1
    BY <1>1, <1>3, <1>4, <2>2
  <2>3. CASE i # 1 /\ j # 1
    <3>1. /\ i - 1 \in 1..Len(list) /\ j - 1 \in 1..Len(list)
          /\ list[i - 1].data = list[j - 1].data
      BY <1>1, <1>3, <2>3
    <3>2. i - 1 = j - 1
      BY <3>1 DEF ListInv, NoTwins
    <3> QED
      BY <3>2, <1>1, <1>3
  <2> QED
    BY <2>1, <2>2, <2>3
<1>7. Kept' = Kept \cup {m}
  <2>1. \A i \in 1..Len(list) : list[i] = list'[i + 1] /\ i + 1 \in 1..Len(list')
    BY <1>1, <1>3
  <2>2. \A i \in 1..Len(list') : list'[i] = m \/ (i - 1 \in 1..Len(list) /\ list'[i] = list[i - 1])
    BY <1>1, <1>3
  <2>3. 1 \in 1..Len(list') /\ list'[1] = m
    BY <1>1, <1>3
  <2>4. Kept' \subseteq Kept \cup {m}
    BY <2>2, Zenon DEF Kept
  <2>5. Kept \subseteq Kept'
    BY <2>1, Zenon DEF Kept
  <2>6. m \in Kept'
    BY <2>3, Zenon DEF Kept
  <2> QED
    BY <2>4, <2>5, <2>6
<1> QED
  BY <1>4, <1>5, <1>6, <1>7 DEF ListInv

LEMMA SendKeepsListInv ==
    ASSUME ListInv, SendMsgHandle
    PROVE  /\ ListInv'
           /\ sendMsgList[1] \in Kept
           /\ Kept' = Kept \ {sendMsgList[1]}
<1> DEFINE list == sendMsgList
<1>1. list \in Seq(Entry) /\ list # <<>> /\ Len(list) \in Nat /\ Len(list) >= 1
  BY EmptySeq DEF ListInv, TypeOK, SendMsgHandle
<1>2. /\ list' \in Seq(Entry) /\ Len(list') = Len(list) - 1
      /\ \A i \in 1..(Len(list) - 1) : list'[i] = list[i + 1]
  BY <1>1, RemovesHead, WithoutHead DEF SendMsgHandle
<1>3. list[1] \in Entry
  BY <1>1
<1>4. TypeOK'
  BY <1>1, <1>2, <1>3, MessagesAssumption DEF ListInv, TypeOK, SendMsgHandle
<1>5. NoTwins'
  <2> SUFFICES ASSUME NEW i \in 1..Len(list'), NEW j \in 1..Len(list'),
                      list'[i].data = list'[j].data
               PROVE  i = j
    BY DEF NoTwins
  <2>1. /\ i + 1 \in 1..Len(list) /\ j + 1 \in 1..Len(list)
        /\ list[i + 1].data = list[j + 1].data
    BY <1>1, <1>2
  <2>2. i + 1 = j + 1
    BY <2>1 DEF ListInv, NoTwins
  <2> QED
    BY <2>2, <1>1, <1>2
<1>6. 1 \in 1..Len(list) /\ list[1] \in Kept
  BY <1>1 DEF Kept
<1>7. \A i \in 1..Len(list) : list[i] = list[1] => i = 1
  BY <1>6 DEF ListInv, NoTwins
<1>8. Kept' = Kept \ {list[1]}
  <2>1. \A i \in 1..Len(list') : i + 1 \in 1..Len(list) /\ list'[i] = list[i + 1]
                                 /\ i + 1 # 1
    BY <1>1, <1>2
  <2>2. \A i \in 1..Len(list) : i # 1 =>
          i - 1 \in 1..Len(list') /\ list'[i - 1] = list[i]
    BY <1>1, <1>2
  <2>3. Kept' \subseteq Kept \ {list[1]}
    BY <2>1, <1>7, Zenon DEF Kept
  <2>4. Kept \ {list[1]} \subseteq Kept'
    BY <2>2, <1>7, Zenon DEF Kept
  <2> QED
    BY <2>3, <2>4
<1> QED
  BY <1>4, <1>5, <1>6, <1>8 DEF ListInv

(***************************************************************************)
(* The list keeps its limit, its entries are whole buffers and no two of   *)
(* them hold the same bytes (AddToSendMsgList, RemoveFromSendMsgList).     *)
(***************************************************************************)
THEOREM ListInvariant == Spec => []ListInv
<1>1. Init => ListInv
  BY MessagesAssumption, EmptySeq DEF Init, ListInv, TypeOK, NoTwins
<1>2. ListInv /\ [Next]_vars => ListInv'
  <2> SUFFICES ASSUME ListInv, [Next]_vars PROVE ListInv'
    OBVIOUS
  <2>1. CASE UNCHANGED vars
    BY <2>1 DEF ListInv, TypeOK, NoTwins, vars
  <2>2. CASE SendMsgHandle
    BY <2>2, SendKeepsListInv
  <2>3. ASSUME NEW data \in Data, Add(data) PROVE ListInv'
    <3>1. CASE UNCHANGED <<sendMsgList, wire>>
      BY <3>1 DEF ListInv, TypeOK, NoTwins
    <3>2. CASE /\ ~Refused(sendMsgList, data)
               /\ sendMsgList' = <<NewMsg(data)>> \o sendMsgList
               /\ UNCHANGED wire
      BY <3>2, AddKeepsListInv
    <3> QED
      BY <2>3, <3>1, <3>2 DEF Add, AddToSendMsgList
  <2> QED
    BY <2>1, <2>2, <2>3 DEF Next
<1> QED
  BY <1>1, <1>2, PTL DEF Spec

(***************************************************************************)
(* The list never holds more than MSG_LIST_MAX entries, each a whole buffer*)
(* and a length that fits it, whatever is added, refused or sent           *)
(* (AddToSendMsgList, SendMsgHandle).                                      *)
(***************************************************************************)
THEOREM TypeCorrect == Spec => []TypeOK
BY ListInvariant, PTL DEF ListInv

(***************************************************************************)
(* No two entries of the send list hold the same bytes, so an entry looked *)
(* up by its bytes is the one meant.                                       *)
(***************************************************************************)
THEOREM EntriesStayApart == Spec => []NoTwins
BY ListInvariant, PTL DEF ListInv

(***************************************************************************)
(* A list of at most Len entries keeps at most that many messages.         *)
(***************************************************************************)
LEMMA KeptIsBounded ==
    ASSUME sendMsgList \in Seq(Entry)
    PROVE  /\ Cardinality(Kept) <= Len(sendMsgList)
           /\ IsFiniteSet(Kept)
<1> DEFINE f == [i \in 1..Len(sendMsgList) |-> sendMsgList[i]]
<1>1. Len(sendMsgList) \in Nat
  OBVIOUS
<1>2. f \in Surjection(1..Len(sendMsgList), Kept)
  BY Zenon DEF Surjection, Kept
<1>3. ExistsSurjection(1..Len(sendMsgList), Kept)
  BY <1>2 DEF ExistsSurjection
<1>4. IsFiniteSet(1..Len(sendMsgList))
  BY <1>1, FS_Interval
<1>5. IsFiniteSet(Kept)
  BY <1>2, <1>4, FS_Surjection, Zenon
<1> QED
  BY <1>1, <1>3, <1>5, FS_SurjCardinalityBound, Zenon

(***************************************************************************)
(* The send list implements the outbox: every step of AddToSendMsgList and *)
(* SendMsgHandle keeps a new message, transmits a kept one, or does nothing*)
(* the outbox sees.                                                        *)
(***************************************************************************)
THEOREM ListIsOutbox == Spec => IsOutbox
<1>1. Init => Promise!Init
  <2> SUFFICES ASSUME Init PROVE Promise!Init
    OBVIOUS
  <2>1. Kept = {}
    BY EmptySeq DEF Init, Kept
  <2>2. Nothing \notin Entry
    BY DEF Nothing, Entry
  <2> QED
    BY <2>1, <2>2 DEF Init, Promise!Init
<1>2. ListInv /\ [Next]_vars => [Promise!Next]_<<Kept, wire>>
  <2> SUFFICES ASSUME ListInv, [Next]_vars
               PROVE  Promise!Next \/ UNCHANGED <<Kept, wire>>
    OBVIOUS
  <2>1. CASE UNCHANGED vars
    BY <2>1 DEF Kept, vars
  <2>2. CASE SendMsgHandle
    <3>1. sendMsgList[1] \in Kept /\ Kept' = Kept \ {sendMsgList[1]}
      BY <2>2, SendKeepsListInv
    <3>2. sendMsgList[1] \in Entry
      BY <2>2, EmptySeq DEF ListInv, TypeOK, SendMsgHandle
    <3>3. wire' = sendMsgList[1]
      BY <2>2 DEF SendMsgHandle
    <3>4. Promise!Transmit(sendMsgList[1])
      BY <3>1, <3>3 DEF Promise!Transmit
    <3> QED
      BY <3>2, <3>4 DEF Promise!Next
  <2>3. ASSUME NEW data \in Data, Add(data)
        PROVE  Promise!Next \/ UNCHANGED <<Kept, wire>>
    <3>1. CASE UNCHANGED <<sendMsgList, wire>>
      BY <3>1 DEF Kept
    <3>2. CASE /\ ~Refused(sendMsgList, data)
               /\ sendMsgList' = <<NewMsg(data)>> \o sendMsgList
               /\ UNCHANGED wire
      <4> DEFINE m == NewMsg(data)
      <4>1. m \in Entry
        BY <3>2, NewMsgIsEntry, DataAssumption, MessagesAssumption DEF Refused
      <4>2. m \notin Kept /\ Kept' = Kept \cup {m}
        BY <3>2, AddKeepsListInv, Zenon DEF Kept
      <4>3. Len(sendMsgList) < MSG_LIST_MAX /\ Len(sendMsgList) \in Nat
        BY <3>2, MessagesAssumption DEF Refused, ListInv, TypeOK
      <4>4. Cardinality(Kept) <= Len(sendMsgList) /\ IsFiniteSet(Kept)
        BY KeptIsBounded DEF ListInv, TypeOK
      <4>5. Promise!Cardinality(Kept) = Cardinality(Kept)
        BY DEF Cardinality, Promise!Cardinality, IsFiniteSet, Promise!IsFiniteSet
      <4>6. Cardinality(Kept) < MSG_LIST_MAX
        BY <4>3, <4>4, FS_CardinalityType, MessagesAssumption
      <4>7. Promise!Keep(m)
        BY <3>2, <4>2, <4>5, <4>6 DEF Promise!Keep
      <4> QED
        BY <4>1, <4>7 DEF Promise!Next
    <3> QED
      BY <2>3, <3>1, <3>2 DEF Add, AddToSendMsgList
  <2> QED
    BY <2>1, <2>2, <2>3 DEF Next
<1> QED
  BY <1>1, <1>2, ListInvariant, PTL DEF Spec, IsOutbox, Promise!Spec
=============================================================================
