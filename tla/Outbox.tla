------------------------------- MODULE Outbox -------------------------------
(***************************************************************************)
(* What the send list promises, without order or layout: a bounded set of  *)
(* pending messages.  A message put in is either kept or dropped; a message*)
(* leaves the set only by being transmitted, and is transmitted once each  *)
(* time it was kept.                                                       *)
(***************************************************************************)
EXTENDS Integers, FiniteSets

CONSTANTS Message, Capacity

VARIABLES
    pending, \* messages kept and not yet transmitted
    wire     \* the last message transmitted, or none of them at first

Init ==
    /\ pending = {}
    /\ wire \notin Message

Keep(m) ==
    /\ m \notin pending
    /\ Cardinality(pending) < Capacity
    /\ pending' = pending \cup {m}
    /\ UNCHANGED wire

Transmit(m) ==
    /\ m \in pending
    /\ pending' = pending \ {m}
    /\ wire' = m

Next == \E m \in Message : Keep(m) \/ Transmit(m)

Spec == Init /\ [][Next]_<<pending, wire>>
=============================================================================
