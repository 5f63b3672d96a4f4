----------------------------- MODULE MCSendList -----------------------------
(* Model values for SendList: messages of every length, one too long.      *)
EXTENDS SendList

Messages4 == UNION {[1..n -> Byte] : n \in 1..MSG_SIZE}
                \cup {[k \in 1..(MSG_SIZE + 1) |-> 1]}
=============================================================================
