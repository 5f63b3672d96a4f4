--------------------------------- MODULE Ui ---------------------------------
(***************************************************************************)
(* The panel: the page stack, the cursor, the edit mode and the back light,*)
(* shared without a lock by the oled thread (OledEntry, pageProgram) and   *)
(* the button thread (the key callbacks of Pages.c).                       *)
(*                                                                         *)
(* The oled thread has the higher priority of the two and does not block   *)
(* inside a pass of its loop, so a pass is one step here; it may come      *)
(* between any two accesses of a callback, which are steps of their own.   *)
(* GetPageSelect is compiled apart from the callbacks, so each use of it   *)
(* reads the structure anew.                                               *)
(***************************************************************************)
EXTENDS MenuItems

CONSTANTS
    TouchTime,      \* passes after which the one-second timer fires (10)
    Overtakes,      \* passes in a row that may fall into a callback
    BackLightTime,  \* seconds without a key until the light goes off (60)
    SettingMax,     \* positions of the settings page (18)
    Watched         \* positions whose values are followed

ASSUME UiAssumption ==
    /\ TouchTime \in Nat \ {0}
    /\ Overtakes \in Nat
    /\ BackLightTime \in Nat
    /\ Watched \subseteq Positions \ ClockPositions
    /\ SettingMax \in Positions

\* The loop of the oled thread sleeps 100 ms, a callback takes microseconds.
ASSUME SleepAssumption == Overtakes <= 1

NO  == 0
YES == 1

\* Oled.h; no code pushes the third page, TIME_SELECT_PAGE.
HOME_PAGE    == 0
SETTING_PAGE == 1

NONE == 256     \* an operand not loaded yet; no byte

VARIABLES
    page,       \* pageSelect
    pageInfor,  \* the page stack, a byte a page, the present one lowest
    nowPagePre, \* the page of the last pass, 255 before the first
    reflash,    \* reflash_flag
    time1S,     \* passes since the timer fired
    window,     \* min and max of SettingPage: the lines shown
    light,      \* the pin LCD_BK
    idle,       \* seconds since backlightTime
    val,        \* the watched values
    btn,        \* the button thread: what it is doing, for which key, and the
                \* operands it has loaded
    overtook,   \* the last so many passes fell into a callback
    waits,      \* history: passes that left a key of the edit mode pending
    edit        \* history of the edit mode: the position it was entered at,
                \* whether a callback was under way at that moment, and
                \* whether up or down was pressed since

vars == <<page, pageInfor, nowPagePre, reflash, time1S, window, light, idle,
          val, btn, overtook, waits, edit>>

NotEditing == [at |-> 0, alone |-> TRUE, asked |-> FALSE]

Later(age, limit) == IF age > limit THEN limit + 1 ELSE age + 1

NoKey == [pc |-> "scan", key |-> "enter", cusor |-> NONE, limit |-> NONE]

-----------------------------------------------------------------------------
(* The oled thread.  A pass works on what it shares with the button thread *)
(* as a whole: Seen is what it finds.                                      *)

Seen == [page |-> page, stack |-> pageInfor, window |-> window, val |-> val,
         edit |-> edit]

\* pageSetting: the cursor of a page that is opened.
Opened(p) ==
    [page EXCEPT !.cusor_home = 1, !.cusor = 1,
                 !.cusor_max = IF p = HOME_PAGE THEN 1 ELSE SettingMax]

\* The home page: the enter key opens the settings.
HomeProgram(sel) ==
    LET enters == sel.select = YES /\ sel.cusor = 1
    IN  [Seen EXCEPT
            !.stack = IF enters THEN @ * 256 + SETTING_PAGE ELSE @,
            !.page  = [sel EXCEPT !.select = NO,
                                  !.changeValue = IF enters THEN NO ELSE @]]

\* The lines shown follow the line of the cursor.
Window(line) ==
    IF line < window.min THEN [min |-> line, max |-> line + 4]
    ELSE IF line > window.max THEN [min |-> line - 4, max |-> line]
    ELSE window

\* A slip: keys pressed while the cursor moved are not forgotten.
ToggledKeepsKeys(sel) ==
    [sel EXCEPT !.changeValue = IF sel.select = YES THEN YES - @ ELSE @,
                !.select = NO]

\* The enter key on the settings page begins or ends the edit mode.
Toggled(sel) ==
    LET begins == sel.select = YES /\ sel.changeValue = NO
    IN  [sel EXCEPT !.changeValue = IF sel.select = YES THEN YES - @ ELSE @,
                    !.up = IF begins THEN NO ELSE @,
                    !.down = IF begins THEN NO ELSE @,
                    !.select = NO]

\* SettingPage applies the keys to the value at the cursor, up before down.
Edited(sel) ==
    [c \in Watched |->
        IF c # sel.cusor THEN val[c]
        ELSE LET up == IF sel.up = YES THEN StepUp(c, val[c]) ELSE val[c]
             IN  IF sel.down = YES THEN StepDown(c, up) ELSE up]

SettingProgram(sel) ==
    LET now     == Toggled(sel)
        line    == LineOf(now.cusor)
        shown   == Window(line)
        editing == now.changeValue = YES /\ line \in shown.min..shown.max
    IN  [Seen EXCEPT
            !.window = shown,
            !.val    = IF editing THEN Edited(now) ELSE @,
            !.page   = IF editing THEN [now EXCEPT !.up = NO, !.down = NO]
                       ELSE now,
            !.edit   = IF now.changeValue = NO THEN NotEditing
                       ELSE IF sel.changeValue = NO
                       THEN [at |-> now.cusor, alone |-> btn.pc = "scan",
                             asked |-> FALSE]
                       ELSE @]

pageProgram(p, sel) ==
    CASE p = HOME_PAGE    -> HomeProgram(sel)
      [] p = SETTING_PAGE -> SettingProgram(sel)
      [] OTHER            -> [Seen EXCEPT !.page = [sel EXCEPT !.select = NO]]

\* A new page is set up and drawn, the present one drawn again on request.
NowPage == pageInfor % 256

Draws == NowPage # nowPagePre \/ reflash = YES

Shown ==
    IF Draws
    THEN pageProgram(NowPage, IF NowPage # nowPagePre THEN Opened(NowPage)
                              ELSE page)
    ELSE Seen

\* A key pressed in the edit mode of the settings page, not yet applied.
Pending(shown) ==
    /\ NowPage = SETTING_PAGE /\ shown.page.changeValue = YES
    /\ shown.page.up = YES \/ shown.page.down = YES

\* A slip: the light goes off and the page stays.
MonitorLightOnly(stack) ==
    /\ light' = IF idle > BackLightTime THEN NO ELSE light
    /\ pageInfor' = stack

\* Too long without a key: the light goes off and the page is left.
monitorBackLight(stack) ==
    IF idle > BackLightTime
    THEN light' = NO /\ pageInfor' = stack \div 256
    ELSE UNCHANGED light /\ pageInfor' = stack

\* A slip: the timer does not ask for a refresh.
RefreshOnRequest(second) == IF Draws THEN NO ELSE reflash

\* The request to draw: met by a pass that draws, made by the timer.
Refresh(second) == IF second THEN YES ELSE IF Draws THEN NO ELSE reflash

(***************************************************************************)
(* The next pass of OledEntry's loop, TimerTask first.  The loop sleeps 100*)
(* ms between two passes and a callback takes microseconds, so that at most*)
(* Overtakes passes in a row find the button thread in one.                *)
(***************************************************************************)
Loop ==
    /\ btn.pc # "scan" => overtook < Overtakes
    /\ time1S' = IF time1S >= TouchTime THEN 0 ELSE time1S + 1

\* The rest of the pass; second: the timer has fired.
OledPass(second) ==
    LET shown == Shown
    IN  /\ Loop
        /\ second = (time1S >= TouchTime)
        /\ overtook' = IF btn.pc = "scan" THEN 0 ELSE overtook + 1
        /\ waits' = IF Pending(shown) THEN Later(waits, TouchTime) ELSE 0
        /\ nowPagePre' = NowPage
        /\ reflash' = Refresh(second)
        /\ page' = shown.page
        /\ window' = shown.window
        /\ val' = shown.val
        /\ edit' = shown.edit
        /\ IF second THEN monitorBackLight(shown.stack)
           ELSE pageInfor' = shown.stack /\ UNCHANGED light
        /\ UNCHANGED <<idle, btn>>

-----------------------------------------------------------------------------
(* The button thread: the callbacks, an access to shared state at a time.  *)

screen == <<nowPagePre, time1S, window, val, overtook, waits>>

Goto(pc) == btn' = [btn EXCEPT !.pc = pc]

(***************************************************************************)
(* Buttonprogram reports a press: enter short or long, up or down short.   *)
(* The first report takes at least six scans, 100 ms, and the oled thread, *)
(* which starts first, makes its first pass after a delay of 100 ms.       *)
(***************************************************************************)
Press(key) ==
    /\ btn.pc = "scan" /\ nowPagePre # 255
    /\ btn' = [NoKey EXCEPT !.key = key,
                    !.pc = CASE key = "enter" -> "wake"
                             [] key = "back"  -> "back"
                             [] OTHER         -> "test"]
    /\ UNCHANGED <<page, pageInfor, reflash, screen, light, idle, edit>>

\* The long press of enter: BackPage loads the stack and stores it shifted.
\* (The stack never holds more than the settings page, so what was loaded
\* fits the field of a byte operand.)
LoadStack ==
    /\ btn.pc = "back"
    /\ btn' = [btn EXCEPT !.pc = "pop", !.cusor = pageInfor]
    /\ UNCHANGED <<page, pageInfor, reflash, screen, light, idle, edit>>

\* A slip: the long press pushes the home page.
StoreStackPushes ==
    /\ btn.pc = "pop"
    /\ pageInfor' = btn.cusor * 256 + HOME_PAGE
    /\ btn' = [btn EXCEPT !.pc = "reflash", !.cusor = NONE]
    /\ UNCHANGED <<page, reflash, screen, light, idle, edit>>

StoreStack ==
    /\ btn.pc = "pop"
    /\ pageInfor' = btn.cusor \div 256
    /\ btn' = [btn EXCEPT !.pc = "reflash", !.cusor = NONE]
    /\ UNCHANGED <<page, reflash, screen, light, idle, edit>>

\* Up and down move the cursor, unless a value is being changed.
TestEdit ==
    /\ btn.pc = "test"
    /\ Goto(IF page.changeValue = NO THEN "compare" ELSE "wake")
    /\ edit' = [edit EXCEPT !.asked = @ \/ page.changeValue = YES]
    /\ UNCHANGED <<page, pageInfor, reflash, screen, light, idle>>

\* The operands of the comparison, in either order.
Limit == IF btn.key = "up" THEN page.cusor_home ELSE page.cusor_max

LoadOperand ==
    /\ btn.pc = "compare"
    /\ \/ btn.cusor = NONE /\ btn' = [btn EXCEPT !.cusor = page.cusor]
       \/ btn.limit = NONE /\ btn' = [btn EXCEPT !.limit = Limit]
    /\ UNCHANGED <<page, pageInfor, reflash, screen, light, idle, edit>>

\* A slip: up moves on from the first position instead of going round.
LoadTargetOffByOne ==
    /\ btn.pc = "compare" /\ btn.cusor # NONE /\ btn.limit # NONE
    /\ LET target ==
             CASE btn.key = "up" /\ btn.cusor >= btn.limit ->
                        (page.cusor + 255) % 256
               [] btn.key = "up" /\ btn.cusor < btn.limit -> page.cusor_max
               [] btn.key = "down" /\ btn.cusor < btn.limit ->
                        (page.cusor + 1) % 256
               [] OTHER -> page.cusor_home
       IN  btn' = [btn EXCEPT !.pc = "store", !.cusor = target, !.limit = NONE]
    /\ UNCHANGED <<page, pageInfor, reflash, screen, light, idle, edit>>

\* Not at the end of the page: the cursor is loaded again and stored one
\* further; at the end it goes round.
LoadTarget ==
    /\ btn.pc = "compare" /\ btn.cusor # NONE /\ btn.limit # NONE
    /\ LET target ==
             CASE btn.key = "up" /\ btn.cusor > btn.limit ->
                        (page.cusor + 255) % 256
               [] btn.key = "up" /\ btn.cusor <= btn.limit -> page.cusor_max
               [] btn.key = "down" /\ btn.limit = 0 -> btn.cusor
               [] btn.key = "down" /\ btn.limit # 0 /\ btn.cusor < btn.limit ->
                        (page.cusor + 1) % 256
               [] OTHER -> page.cusor_home
       IN  btn' = [btn EXCEPT !.pc = "store", !.cusor = target, !.limit = NONE]
    /\ UNCHANGED <<page, pageInfor, reflash, screen, light, idle, edit>>

StoreCursor ==
    /\ btn.pc = "store"
    /\ page' = [page EXCEPT !.cusor = btn.cusor]
    /\ btn' = [btn EXCEPT !.pc = "wake", !.cusor = NONE]
    /\ UNCHANGED <<pageInfor, reflash, screen, light, idle, edit>>

wakeUpOledBackLight ==
    /\ btn.pc = "wake"
    /\ idle' = 0 /\ light' = YES
    /\ Goto(IF btn.key = "enter" THEN "flag" ELSE "reflash")
    /\ UNCHANGED <<page, pageInfor, reflash, screen, edit>>

\* The page is asked to refresh; enter sets select before, up and down set
\* theirs after.
SetReflash ==
    /\ btn.pc = "reflash"
    /\ reflash' = YES
    /\ btn' = IF btn.key \in {"up", "down"} THEN [btn EXCEPT !.pc = "flag"]
              ELSE NoKey
    /\ UNCHANGED <<page, pageInfor, screen, light, idle, edit>>

SetFlag ==
    /\ btn.pc = "flag"
    /\ page' = CASE btn.key = "enter" -> [page EXCEPT !.select = YES]
                 [] btn.key = "up"    -> [page EXCEPT !.up = YES]
                 [] btn.key = "down"  -> [page EXCEPT !.down = YES]
    /\ btn' = IF btn.key = "enter" THEN [btn EXCEPT !.pc = "reflash"] ELSE NoKey
    /\ UNCHANGED <<pageInfor, reflash, screen, light, idle, edit>>

Callback ==
    \/ LoadStack \/ StoreStack \/ TestEdit \/ LoadOperand \/ LoadTarget
    \/ StoreCursor \/ wakeUpOledBackLight \/ SetReflash \/ SetFlag

-----------------------------------------------------------------------------
\* The main thread counts seconds.
Tick ==
    /\ idle' = Later(idle, BackLightTime)
    /\ UNCHANGED <<page, pageInfor, reflash, screen, light, btn, edit>>

\* OledEntry before its loop; the structure is zero until the first pass.
Init ==
    /\ page = [cusor_home |-> 0, cusor_max |-> 0, cusor |-> 0, select |-> NO,
               changeValue |-> NO, up |-> NO, down |-> NO]
    /\ pageInfor = HOME_PAGE
    /\ nowPagePre = 255
    /\ reflash = NO
    /\ time1S = 0
    /\ window = [min |-> 1, max |-> 5]
    /\ light = YES
    /\ idle = 0
    /\ val = [c \in Watched |-> Least(c)]
    /\ btn = NoKey
    /\ overtook = 0
    /\ waits = 0
    /\ edit = NotEditing

AnyPress == \E key \in {"enter", "back", "up", "down"} : Press(key)

OledThread == \E second \in BOOLEAN : OledPass(second)

Next == OledThread \/ AnyPress \/ Callback \/ Tick

Spec == Init /\ [][Next]_vars

(***************************************************************************)
(* All threads keep running, the oled thread before the button thread; a   *)
(* pass is the only step that moves the timer on.  Nobody needs to press a *)
(* key.                                                                    *)
(***************************************************************************)
FairSpec == Spec /\ SF_time1S(Loop) /\ WF_vars(Callback) /\ WF_vars(Tick)

-----------------------------------------------------------------------------
(* Properties                                                              *)

Bytes == 0..255

(***************************************************************************)
(* Types; the cursor and the operands of a callback are bytes.             *)
(***************************************************************************)
TypeOK ==
    /\ page \in [cusor_home : {0, 1}, cusor_max : {0, 1, SettingMax}, cusor : Bytes,
                 select : {NO, YES}, changeValue : {NO, YES}, up : {NO, YES},
                 down : {NO, YES}]
    /\ pageInfor \in Nat
    /\ nowPagePre \in Bytes
    /\ reflash \in {NO, YES}
    /\ time1S \in 0..TouchTime
    /\ window \in [min : Int, max : Int]
    /\ light \in {NO, YES}
    /\ idle \in 0..(BackLightTime + 1)
    /\ val \in [Watched -> Int]
    /\ btn \in [pc : {"scan", "back", "pop", "test", "compare", "store", "wake",
                      "reflash", "flag"},
                key : {"enter", "back", "up", "down"},
                cusor : Bytes \cup {NONE}, limit : Bytes \cup {NONE}]
    /\ overtook \in 0..Overtakes
    /\ waits \in 0..(TouchTime + 1)
    /\ edit \in [at : Bytes, alone : BOOLEAN, asked : BOOLEAN]

(***************************************************************************)
(* What the settings page draws exists: the five lines of its window are   *)
(* lines of the menu (name[] has twelve), and on that page the cursor is on*)
(* one of its positions, and so on a line there is, whichever callback   *)
(* was overtaken by a change of page.                                      *)
(***************************************************************************)
DrawsRealLines ==
    /\ window.min \in Lines /\ window.max \in Lines
    /\ window.max = window.min + 4
    /\ nowPagePre = SETTING_PAGE /\ NowPage = SETTING_PAGE =>
            page.cusor \in 1..SettingMax /\ LineOf(page.cusor) \in Lines

(***************************************************************************)
(* The page stack never gets deeper than the settings page: neither keys   *)
(* nor the time-out, in any order, pile up pages or leave an unknown one.  *)
(***************************************************************************)
StackIsShallow == pageInfor \in {HOME_PAGE, SETTING_PAGE}

(***************************************************************************)
(* A value is changed only when it was meant: if no callback was under way *)
(* when the edit mode began, the panel changes only the value at the       *)
(* position where it began, and only after up or down was pressed in it.   *)
(***************************************************************************)
EditIsMeant ==
    [][OledThread /\ edit'.alone =>
        \A c \in Watched : val'[c] # val[c] => c = edit'.at /\ edit'.asked]_vars

(***************************************************************************)
(* A key pressed while a value is edited takes effect within a second (the *)
(* passes of one period of the timer), although the request to refresh is  *)
(* made before the key is noted and a pass may fall in between and use it  *)
(* up.                                                                     *)
(***************************************************************************)
KeysAreServed == waits <= TouchTime

(***************************************************************************)
(* When no key is pressed any more the panel returns to the home page and  *)
(* goes dark, for good.                                                    *)
(***************************************************************************)
IdleReturnsHome ==
    <>[][~AnyPress]_vars =>
        <>[](NowPage = HOME_PAGE /\ nowPagePre = HOME_PAGE /\ light = NO)
=============================================================================
