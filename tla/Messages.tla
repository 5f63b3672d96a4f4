------------------------------ MODULE Messages ------------------------------
(***************************************************************************)
(* The list of outgoing messages (Communicate.c) as operations on a        *)
(* sequence whose first element is the list's first entry.  An entry is a  *)
(* buffer of MSG_SIZE bytes, zero beyond the message, and a length.        *)
(***************************************************************************)
EXTENDS Integers, Sequences

CONSTANTS
    MSG_SIZE,     \* bytes an entry can hold (20)
    MSG_LIST_MAX, \* entries the list can hold (20)
    Byte          \* values of a byte, 0 among them

ASSUME MessagesAssumption ==
    /\ MSG_SIZE \in Nat \ {0}
    /\ MSG_LIST_MAX \in Nat \ {0}
    /\ 0 \in Byte

Buffer == [1..MSG_SIZE -> Byte]
Entry  == [data : Buffer, len : 1..MSG_SIZE]

\* rt_memcmp(a, b, len) = 0
SameBytes(a, b, len) == \A k \in 1..len : a[k] = b[k]

\* The entry of a freshly cleared allocation after rt_memcpy.
NewMsg(data) ==
    [data |-> [k \in 1..MSG_SIZE |-> IF k <= Len(data) THEN data[k] ELSE 0],
     len  |-> Len(data)]

\* A slip: only the newest entry is compared.
AlreadyListedFirst(list, data) ==
    list # <<>> /\ SameBytes(data, list[1].data, Len(data))

\* The message is compared with the first len bytes of each entry.
AlreadyListed(list, data) ==
    \E i \in 1..Len(list) : SameBytes(data, list[i].data, Len(data))

\* A slip: the limit is only noticed once it is passed.
RefusedLate(list, data) ==
    Len(data) > MSG_SIZE \/ Len(list) > MSG_LIST_MAX \/ AlreadyListed(list, data)

Refused(list, data) ==
    \/ Len(data) > MSG_SIZE
    \/ Len(list) >= MSG_LIST_MAX
    \/ AlreadyListed(list, data)

\* A new entry goes in after the head: the list is a stack.
AddToSendMsgList(list, data) ==
    IF Refused(list, data) THEN list ELSE <<NewMsg(data)>> \o list

Without(list, k) ==
    [i \in 1..(Len(list) - 1) |-> IF i < k THEN list[i] ELSE list[i + 1]]

\* A slip: the length check refuses a full buffer.
RemoveFromSendMsgListShort(list, data, len) ==
    LET hits == {i \in 1..Len(list) : SameBytes(data, list[i].data, len)}
    IN  IF len >= MSG_SIZE \/ len = 0 \/ hits = {} THEN list
        ELSE Without(list, CHOOSE i \in hits : \A j \in hits : i <= j)

\* Removes the first entry that agrees with data on len bytes.
RemoveFromSendMsgList(list, data, len) ==
    LET hits == {i \in 1..Len(list) : SameBytes(data, list[i].data, len)}
    IN  IF len > MSG_SIZE \/ len = 0 \/ hits = {} THEN list
        ELSE Without(list, CHOOSE i \in hits : \A j \in hits : i <= j)
=============================================================================
