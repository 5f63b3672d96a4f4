-------------------------------- MODULE Ntc ---------------------------------
(***************************************************************************)
(* The samples of the temperature sensor: GetNtcValue keeps the last ten in*)
(* a list of allocated nodes, without a lock.  The main thread calls it    *)
(* from ControlProgram, the oled thread from the home page.  The main      *)
(* thread has the higher priority, so a call of it falls as a whole between*)
(* two steps of a call of the oled thread.  A walk along the list is one   *)
(* step.                                                                   *)
(***************************************************************************)
EXTENDS SequencesExt

CONSTANTS
    Capacity,   \* samples that are kept (10)
    Nodes       \* blocks of the heap

NoNode == "none"

VARIABLES
    list,   \* the nodes of the list, the newest first
    used,   \* the blocks that are allocated
    oled    \* the oled thread's call: how far it is, its new and its oldest node

vars == <<list, used, oled>>

Idle == [pc |-> "idle", new |-> NoNode, first |-> NoNode]

-----------------------------------------------------------------------------
\* rt_malloc fails when nothing is left (external, mem.c).
Malloc(n) == n \in Nodes \ used \/ (n = NoNode /\ used = Nodes)

\* rt_slist_remove: nothing happens when the node is not in the list.
Removed(l, n) == IF Contains(l, n) THEN RemoveAt(l, CHOOSE i \in DOMAIN l : l[i] = n)
                 ELSE l

\* The whole call, by the main thread.
MainSample ==
    \E n \in Nodes \cup {NoNode} :
      /\ Malloc(n)
      /\ \/ n = NoNode /\ UNCHANGED <<list, used>>
         \/ /\ n # NoNode /\ Len(list) < Capacity
            /\ list' = <<n>> \o list /\ used' = used \cup {n}
         \/ /\ n # NoNode /\ Len(list) >= Capacity
            /\ list' = <<n>> \o Removed(list, Last(list))
            /\ used' = (used \cup {n}) \ {Last(list)}
      /\ UNCHANGED oled

\* The call of the oled thread: the length decides, a node is allocated, ...
Measure ==
    /\ oled = Idle
    /\ oled' = [oled EXCEPT !.pc = IF Len(list) < Capacity THEN "grow" ELSE "turn"]
    /\ UNCHANGED <<list, used>>

Allocate ==
    /\ oled.pc \in {"grow", "turn"}
    /\ \E n \in Nodes \cup {NoNode} :
         /\ Malloc(n)
         /\ used' = used \cup ({n} \ {NoNode})
         /\ oled' = CASE n = NoNode -> Idle
                      [] oled.pc = "grow" /\ n # NoNode ->
                            [oled EXCEPT !.pc = "insert", !.new = n]
                      [] OTHER -> [oled EXCEPT !.pc = "tail", !.new = n]
    /\ UNCHANGED list

\* ... the oldest node is looked up, ...
Oldest ==
    /\ oled.pc = "tail"
    /\ oled' = [oled EXCEPT !.pc = "remove", !.first = Last(list)]
    /\ UNCHANGED <<list, used>>

\* ... taken out of the list, ...
TakeOut ==
    /\ oled.pc = "remove"
    /\ list' = Removed(list, oled.first)
    /\ oled' = [oled EXCEPT !.pc = "free"]
    /\ UNCHANGED used

\* ... freed, ...
Free ==
    /\ oled.pc = "free"
    /\ used' = used \ {oled.first}
    /\ oled' = [oled EXCEPT !.pc = "insert", !.first = NoNode]
    /\ UNCHANGED list

\* ... and the new one inserted; then the samples are added up.
Insert ==
    /\ oled.pc = "insert"
    /\ list' = <<oled.new>> \o list
    /\ oled' = Idle
    /\ UNCHANGED used

Init == list = <<>> /\ used = {} /\ oled = Idle

Next == MainSample \/ Measure \/ Allocate \/ Oldest \/ TakeOut \/ Free \/ Insert

Spec == Init /\ [][Next]_vars

-----------------------------------------------------------------------------
(***************************************************************************)
(* The block the oled thread frees is in use: the assertion of rt_free,    *)
(* RT_ASSERT(mem->used) in rt-thread/src/mem.c, at the call in Ntc.c.      *)
(***************************************************************************)
FreedIsUsed == oled.pc = "free" => oled.first \in used
=============================================================================
