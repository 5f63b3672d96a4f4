------------------------------- MODULE Store --------------------------------
(***************************************************************************)
(* What the saved settings promise, without bytes, double words or         *)
(* checksums: at most one record, which a save takes as a whole.  A save   *)
(* first gives up the old record and then stores, once or not at all, the  *)
(* settings that were in force when it began; whatever is stored is then   *)
(* left alone until the next save, and a start finds that or the defaults. *)
(***************************************************************************)
CONSTANTS
    Settings,
    Default,
    Woken       \* what a start makes of the settings it finds

VARIABLES
    phase,  \* "off", "idle", "erase" (the save has yet to give up the old
            \* record), "program" (it may store the new one)
    live,   \* the settings in force
    taken,  \* the settings that were in force when the last save began
    stored  \* the record a start would find, or {}

Init ==
    /\ phase = "off"
    /\ live = Default
    /\ taken = Default
    /\ stored = {}

Start ==
    /\ phase = "off"
    /\ phase' = "idle"
    /\ \E s \in IF stored = {} THEN {Default} ELSE stored : live' = Woken[s]
    /\ UNCHANGED <<taken, stored>>

Set ==
    /\ phase # "off"
    /\ live' \in Settings
    /\ UNCHANGED <<phase, taken, stored>>

Begin ==
    /\ phase = "idle"
    /\ phase' = "erase"
    /\ taken' = live
    /\ UNCHANGED <<live, stored>>

GiveUp ==
    /\ phase = "erase"
    /\ phase' = "program"
    /\ stored' = {}
    /\ UNCHANGED <<live, taken>>

\* It may be the last thing the save does.
Commit ==
    /\ phase = "program"
    /\ phase' \in {"program", "idle"}
    /\ stored = {}
    /\ stored' = {taken}
    /\ UNCHANGED <<live, taken>>

\* The save is over; it has stored its record or failed.
End ==
    /\ phase \in {"erase", "program"}
    /\ phase' = "idle"
    /\ UNCHANGED <<live, taken, stored>>

Crash ==
    /\ phase' = "off"
    /\ live' = Default
    /\ UNCHANGED <<taken, stored>>

Next == Start \/ Set \/ Begin \/ GiveUp \/ Commit \/ End \/ Crash

Spec == Init /\ [][Next]_<<phase, live, taken, stored>>
=============================================================================
