------------------------------ MODULE UiProofs ------------------------------
(***************************************************************************)
(* Proofs about Ui, for every period of the timer, every length of the     *)
(* settings page and every set of values followed.  That at most one pass  *)
(* falls into a callback (SleepAssumption) is used for the cursor alone.   *)
(***************************************************************************)
EXTENDS Ui, TLAPS

-----------------------------------------------------------------------------
(* The invariant.                                                          *)

PageType ==
    [cusor_home : {0, 1}, cusor_max : {0, 1, SettingMax}, cusor : Bytes,
     select : {NO, YES}, changeValue : {NO, YES}, up : {NO, YES},
     down : {NO, YES}]

WindowType == [min : Int, max : Int]
EditType   == [at : Bytes, alone : BOOLEAN, asked : BOOLEAN]
ValType    == [Watched -> Int]

\* What a pass makes of the shared state.
PassType == [page : PageType, stack : {HOME_PAGE, SETTING_PAGE},
             window : WindowType, val : ValType, edit : EditType]

\* What BackPage loaded is a stack, what a cursor is stored from a byte, and
\* only enter, up and down have a flag.
CallbackFits ==
    /\ btn.pc = "pop" => btn.cusor \in {HOME_PAGE, SETTING_PAGE}
    /\ btn.pc = "store" => btn.cusor \in Bytes
    /\ btn.pc = "flag" => btn.key # "back"

WindowIsFive == window.max = window.min + 4

\* While no refresh is asked for, the passes a key has waited are fewer than
\* the passes since the timer fired; right after it fired one is asked for.
WaitIsTimed ==
    /\ waits <= TouchTime
    /\ reflash = NO => waits = 0 \/ waits < time1S
    /\ reflash = NO /\ time1S = 0 => nowPagePre = 255

UiInv ==
    /\ TypeOK
    /\ StackIsShallow
    /\ CallbackFits
    /\ WindowIsFive
    /\ WaitIsTimed

-----------------------------------------------------------------------------
(* What a pass does.                                                       *)

\* The line of the cursor is a number, and within the window that is shown.
LEMMA LineIsShown ==
    ASSUME window \in WindowType, WindowIsFive, NEW line \in Int
    PROVE  /\ Window(line) \in WindowType
           /\ Window(line).max = Window(line).min + 4
           /\ line \in Window(line).min..Window(line).max
BY DEF Window, WindowType, WindowIsFive

\* A line is a number.
LEMMA LineType ==
    ASSUME NEW c \in Bytes
    PROVE  LineOf(c) \in Int
BY DEF LineOf, Bytes

\* A step of a value is a number.
LEMMA EditedType ==
    ASSUME val \in ValType, NEW sel
    PROVE  Edited(sel) \in ValType
<1>1. \A c : Least(c) \in Int /\ Greatest(c) \in Int
  BY DEF Least, Greatest
<1>2. ASSUME NEW c, NEW v \in Int
      PROVE  StepUp(c, v) \in Int /\ StepDown(c, v) \in Int
  BY <1>1 DEF StepUp, StepDown, AddData, SubData
<1>3. ASSUME NEW c \in Watched
      PROVE  (IF c # sel.cusor THEN val[c]
              ELSE LET up == IF sel.up = YES THEN StepUp(c, val[c]) ELSE val[c]
                   IN  IF sel.down = YES THEN StepDown(c, up) ELSE up) \in Int
  <2>1. val[c] \in Int
    BY <1>3 DEF ValType
  <2>2. (IF sel.up = YES THEN StepUp(c, val[c]) ELSE val[c]) \in Int
    BY <1>2, <2>1
  <2> QED
    BY <1>2, <2>1, <2>2
<1> QED
  BY <1>3, Zenon DEF Edited, ValType

\* A page that is opened is well typed.
LEMMA OpenedType ==
    ASSUME page \in PageType, NEW p
    PROVE  Opened(p) \in PageType
<1> DEFINE max == IF p = HOME_PAGE THEN 1 ELSE SettingMax
<1>1. max \in {0, 1, SettingMax} /\ 1 \in Bytes
  BY DEF Bytes
<1>2. Opened(p) = [page EXCEPT !.cusor_home = 1, !.cusor = 1, !.cusor_max = max]
  BY DEF Opened
<1> HIDE DEF max
<1> QED
  BY <1>1, <1>2 DEF PageType

\* The enter key leaves a page well typed.
LEMMA ToggledType ==
    ASSUME NEW sel \in PageType
    PROVE  Toggled(sel) \in PageType
<1> DEFINE begins == sel.select = YES /\ sel.changeValue = NO
           change == IF sel.select = YES THEN YES - sel.changeValue
                     ELSE sel.changeValue
           u == IF begins THEN NO ELSE sel.up
           d == IF begins THEN NO ELSE sel.down
<1>1. change \in {NO, YES} /\ u \in {NO, YES} /\ d \in {NO, YES}
  BY DEF PageType, NO, YES
<1>2. Toggled(sel) = [sel EXCEPT !.changeValue = change, !.up = u, !.down = d,
                                 !.select = NO]
  BY DEF Toggled
<1> HIDE DEF change, u, d
<1> QED
  BY <1>1, <1>2 DEF PageType

BtnType == [pc : {"scan", "back", "pop", "test", "compare", "store", "wake",
                  "reflash", "flag"},
            key : {"enter", "back", "up", "down"},
            cusor : Bytes \cup {NONE}, limit : Bytes \cup {NONE}]

\* The types of the variables, one by one.
LEMMA Types ==
    TypeOK <=> /\ page \in PageType /\ pageInfor \in Nat /\ nowPagePre \in Bytes
               /\ reflash \in {NO, YES} /\ time1S \in 0..TouchTime
               /\ window \in WindowType /\ light \in {NO, YES}
               /\ idle \in 0..(BackLightTime + 1) /\ val \in ValType
               /\ btn \in BtnType /\ overtook \in 0..Overtakes
               /\ waits \in 0..(TouchTime + 1) /\ edit \in EditType
BY Zenon DEF TypeOK, PageType, WindowType, ValType, BtnType, EditType

\* The state a pass finds is well typed.
LEMMA SeenType ==
    ASSUME UiInv
    PROVE  /\ Seen \in PassType
           /\ Seen.page = page /\ Seen.stack = pageInfor
           /\ Seen.window = window
BY DEF Seen, PassType, UiInv, TypeOK, StackIsShallow, PageType, WindowType,
       ValType, EditType

\* The home page: one settings page is pushed, on the home page.
LEMMA HomeStep ==
    ASSUME UiInv, NEW sel \in PageType, pageInfor = HOME_PAGE
    PROVE  /\ HomeProgram(sel) \in PassType
           /\ HomeProgram(sel).window = window
<1> DEFINE enters == sel.select = YES /\ sel.cusor = 1
           stack  == IF enters THEN pageInfor * 256 + SETTING_PAGE
                     ELSE pageInfor
           change == IF enters THEN NO ELSE sel.changeValue
           now    == [sel EXCEPT !.select = NO, !.changeValue = change]
<1>1. stack \in {HOME_PAGE, SETTING_PAGE}
  BY DEF HOME_PAGE, SETTING_PAGE
<1>2. change \in {NO, YES}
  BY DEF PageType
<1>3. now \in PageType
  <2> HIDE DEF change
  <2> QED
    BY <1>2 DEF PageType
<1>4. HomeProgram(sel) = [Seen EXCEPT !.stack = stack, !.page = now]
  BY SeenType DEF HomeProgram
<1> HIDE DEF stack, now
<1> QED
  BY <1>1, <1>3, <1>4, SeenType DEF PassType

\* The settings page: a key of the edit mode is applied, or forgotten when
\* the mode begins.
LEMMA SettingStep ==
    ASSUME UiInv, NEW sel \in PageType
    PROVE  LET s == SettingProgram(sel)
           IN  /\ s \in PassType
               /\ s.window.max = s.window.min + 4
               /\ s.page.changeValue = YES => s.page.up = NO /\ s.page.down = NO
<1> DEFINE now     == Toggled(sel)
           line    == LineOf(now.cusor)
           shown   == Window(line)
           editing == now.changeValue = YES /\ line \in shown.min..shown.max
           values  == IF editing THEN Edited(now) ELSE val
           after   == IF editing THEN [now EXCEPT !.up = NO, !.down = NO]
                      ELSE now
           history == IF now.changeValue = NO THEN NotEditing
                      ELSE IF sel.changeValue = NO
                      THEN [at |-> now.cusor, alone |-> btn.pc = "scan",
                            asked |-> FALSE]
                      ELSE edit
<1>0. window \in WindowType /\ WindowIsFive /\ val \in ValType
      /\ edit \in EditType
  BY DEF UiInv, TypeOK, WindowType, ValType, EditType
<1>1. now \in PageType
  BY ToggledType
<1>2. now.cusor \in Bytes
  BY <1>1 DEF PageType
<1>3. line \in Int
  BY <1>2, LineType
<1>4. /\ shown \in WindowType /\ shown.max = shown.min + 4
      /\ line \in shown.min..shown.max
  BY <1>0, <1>3, LineIsShown
<1>5. values \in ValType
  BY <1>0, EditedType
<1>6. /\ after \in PageType
      /\ after.changeValue = YES => after.up = NO /\ after.down = NO
  <2> HIDE DEF now, line, shown
  <2> QED
    BY <1>1, <1>4 DEF PageType, NO, YES
<1>7. history \in EditType
  <2>1. NotEditing \in EditType
    BY DEF NotEditing, EditType, Bytes
  <2>2. [at |-> now.cusor, alone |-> btn.pc = "scan", asked |-> FALSE]
            \in EditType
    <3> HIDE DEF now
    <3> QED
      BY <1>2 DEF EditType
  <2> QED
    BY <1>0, <2>1, <2>2
<1>8. SettingProgram(sel) = [Seen EXCEPT !.window = shown, !.val = values,
                                         !.page = after, !.edit = history]
  BY DEF SettingProgram, Seen
<1> HIDE DEF shown, values, after, history
<1> QED
  BY <1>4, <1>5, <1>6, <1>7, <1>8, SeenType DEF PassType

\* A pass, drawing or not; one that draws the settings page leaves no key of
\* the edit mode behind.
LEMMA PassStep ==
    ASSUME UiInv
    PROVE  /\ Shown \in PassType
           /\ Shown.window.max = Shown.window.min + 4
           /\ Draws => ~Pending(Shown)
<1> DEFINE sel == IF NowPage # nowPagePre THEN Opened(NowPage) ELSE page
<1>1. page \in PageType /\ pageInfor \in {HOME_PAGE, SETTING_PAGE}
      /\ WindowIsFive
  BY DEF UiInv, TypeOK, PageType, StackIsShallow
<1>2. sel \in PageType
  BY <1>1, OpenedType
<1>3. NowPage = pageInfor
  BY <1>1 DEF NowPage, HOME_PAGE, SETTING_PAGE
<1>4. CASE ~Draws
  BY <1>1, <1>4, SeenType DEF Shown, WindowIsFive
<1> HIDE DEF sel
<1>5. CASE Draws /\ NowPage = HOME_PAGE
  <2>1. Shown = HomeProgram(sel)
    BY <1>5 DEF Shown, pageProgram, sel, HOME_PAGE, SETTING_PAGE
  <2>2. ~Pending(Shown)
    BY <1>5 DEF Pending, HOME_PAGE, SETTING_PAGE
  <2> QED
    BY <1>1, <1>2, <1>3, <1>5, <2>1, <2>2, HomeStep DEF WindowIsFive
<1>6. CASE Draws /\ NowPage = SETTING_PAGE
  <2>1. Shown = SettingProgram(sel)
    BY <1>6 DEF Shown, pageProgram, sel, HOME_PAGE, SETTING_PAGE
  <2>2. ~Pending(Shown)
    BY <1>2, <2>1, SettingStep DEF Pending, NO, YES
  <2> QED
    BY <1>2, <2>1, <2>2, SettingStep
<1> QED
  BY <1>1, <1>3, <1>4, <1>5, <1>6

\* A pass of the oled thread keeps the invariant.
LEMMA OledStep ==
    ASSUME UiInv, NEW second \in BOOLEAN, OledPass(second)
    PROVE  UiInv'
<1>0. /\ TouchTime \in Nat \ {0} /\ Overtakes \in Nat
      /\ page \in PageType /\ nowPagePre \in Bytes /\ reflash \in {NO, YES}
      /\ time1S \in 0..TouchTime /\ light \in {NO, YES}
      /\ idle \in 0..(BackLightTime + 1) /\ btn \in BtnType
      /\ overtook \in 0..Overtakes /\ waits \in 0..(TouchTime + 1)
      /\ pageInfor \in {HOME_PAGE, SETTING_PAGE} /\ WaitIsTimed
  BY UiAssumption, Types DEF UiInv, StackIsShallow
<1>1. /\ page' = Shown.page /\ window' = Shown.window /\ val' = Shown.val
      /\ edit' = Shown.edit /\ nowPagePre' = NowPage /\ reflash' = Refresh(second)
      /\ idle' = idle /\ btn' = btn /\ Loop /\ second = (time1S >= TouchTime)
      /\ overtook' = IF btn.pc = "scan" THEN 0 ELSE overtook + 1
      /\ waits' = IF Pending(Shown) THEN Later(waits, TouchTime) ELSE 0
      /\ IF second THEN monitorBackLight(Shown.stack)
         ELSE pageInfor' = Shown.stack /\ UNCHANGED light
  BY Zenon DEF OledPass
<1>2. /\ Shown.page \in PageType /\ Shown.window \in WindowType
      /\ Shown.val \in ValType /\ Shown.edit \in EditType
      /\ Shown.stack \in {HOME_PAGE, SETTING_PAGE}
      /\ Shown.window.max = Shown.window.min + 4
      /\ Draws => ~Pending(Shown)
  BY PassStep DEF PassType
<1>3. pageInfor' \in {HOME_PAGE, SETTING_PAGE} /\ light' \in {NO, YES}
  <2>1. Shown.stack \div 256 = HOME_PAGE
    BY <1>2 DEF HOME_PAGE, SETTING_PAGE
  <2> QED
    BY <1>0, <1>1, <1>2, <2>1 DEF monitorBackLight
<1>4. time1S' = (IF second THEN 0 ELSE time1S + 1) /\ time1S' \in 0..TouchTime
  <2>1. /\ time1S' = IF time1S >= TouchTime THEN 0 ELSE time1S + 1
        /\ second = (time1S >= TouchTime)
    BY <1>1, Zenon DEF Loop
  <2>2. time1S' = IF second THEN 0 ELSE time1S + 1
    BY <2>1, Zenon
  <2>3. time1S' \in 0..TouchTime
    BY <1>0, <2>1, SMT
  <2> QED
    BY <2>2, <2>3
<1>5. overtook' \in 0..Overtakes
  BY <1>0, <1>1 DEF Loop
<1>6. NowPage \in Bytes /\ NowPage # 255
  BY <1>0 DEF NowPage, Bytes, HOME_PAGE, SETTING_PAGE
<1>7. reflash' \in {NO, YES} /\ (second => reflash' = YES)
      /\ (~second /\ Draws => reflash' = NO)
      /\ (~second /\ ~Draws => reflash' = reflash)
  BY <1>0, <1>1 DEF Refresh
<1>8. waits' \in 0..(TouchTime + 1) /\ WaitIsTimed'
  <2>1. CASE Draws
    <3>1. waits' = 0
      BY <1>1, <1>2, <2>1
    <3>2. ~second => time1S' # 0
      BY <1>0, <1>4
    <3> QED
      BY <1>0, <1>7, <3>1, <3>2 DEF WaitIsTimed, NO, YES
  <2>2. CASE ~Draws
    <3>1. reflash = NO /\ nowPagePre # 255
      BY <1>0, <1>6, <2>2 DEF Draws
    <3>2. time1S # 0 /\ (waits = 0 \/ waits < time1S)
      BY <1>0, <3>1 DEF WaitIsTimed
    <3>3. waits' = 0 \/ waits' = waits + 1
      BY <1>0, <1>1, <3>2 DEF Later
    <3>4. waits' <= time1S
      BY <1>0, <3>2, <3>3
    <3> QED
      BY <1>0, <1>4, <1>7, <2>2, <3>1, <3>2, <3>4, <3>3 DEF WaitIsTimed, NO, YES
  <2> QED
    BY <2>1, <2>2
<1>9. TypeOK'
  <2>1. pageInfor' \in Nat
    BY <1>3 DEF HOME_PAGE, SETTING_PAGE
  <2> QED
    BY <1>0, <1>1, <1>2, <1>3, <1>4, <1>5, <1>6, <1>7, <1>8, <2>1
       DEF TypeOK, PageType, WindowType, ValType, BtnType, EditType
<1>10. CallbackFits'
  BY <1>1 DEF UiInv, CallbackFits
<1> QED
  BY <1>1, <1>2, <1>3, <1>8, <1>9, <1>10
     DEF UiInv, StackIsShallow, WindowIsFive

-----------------------------------------------------------------------------
(* The callbacks.                                                          *)

\* A step that leaves the pass alone and puts nothing but well-typed values
\* into the page, the stack, the light and the callback keeps the invariant.
LEMMA CallbackKeeps ==
    ASSUME UiInv, UNCHANGED screen,
           page' \in PageType, pageInfor' \in {HOME_PAGE, SETTING_PAGE},
           reflash' \in {reflash, YES}, light' \in {NO, YES},
           idle' \in 0..(BackLightTime + 1), btn' \in BtnType,
           edit' \in EditType, CallbackFits'
    PROVE  UiInv'
<1>1. /\ nowPagePre' = nowPagePre /\ time1S' = time1S /\ window' = window
      /\ val' = val /\ overtook' = overtook /\ waits' = waits
  BY DEF screen
<1>2. pageInfor' \in Nat
  BY DEF HOME_PAGE, SETTING_PAGE
<1>3. TypeOK'
  BY <1>1, <1>2
     DEF UiInv, TypeOK, PageType, WindowType, ValType, BtnType, EditType
<1>4. WaitIsTimed'
  BY <1>1 DEF UiInv, WaitIsTimed, NO, YES
<1>5. WindowIsFive'
  BY <1>1 DEF UiInv, WindowIsFive
<1> QED
  BY <1>3, <1>4, <1>5 DEF UiInv, StackIsShallow

\* Each access of a callback keeps the invariant.
LEMMA CallbackStep ==
    ASSUME UiInv, Callback \/ AnyPress \/ Tick
    PROVE  UiInv'
<1>0. /\ page \in PageType /\ pageInfor \in {HOME_PAGE, SETTING_PAGE}
      /\ reflash \in {NO, YES} /\ light \in {NO, YES}
      /\ idle \in 0..(BackLightTime + 1) /\ btn \in BtnType
      /\ edit \in EditType /\ CallbackFits /\ BackLightTime \in Nat
  BY UiAssumption, Types DEF UiInv, StackIsShallow
<1>key. NoKey \in BtnType
  BY DEF NoKey, BtnType
<1>limits. /\ page.cusor \in Bytes /\ page.cusor_home \in Bytes
           /\ page.cusor_max \in Bytes /\ btn.cusor \in Bytes \cup {NONE}
  BY <1>0, UiAssumption DEF PageType, Bytes, Positions, BtnType
<1>1. CASE LoadStack
  <2>1. /\ btn' = [btn EXCEPT !.pc = "pop", !.cusor = pageInfor]
        /\ UNCHANGED <<page, pageInfor, reflash, screen, light, idle, edit>>
    BY <1>1 DEF LoadStack
  <2>2. pageInfor \in Bytes
    BY <1>0 DEF Bytes, HOME_PAGE, SETTING_PAGE
  <2>3. btn' \in BtnType /\ btn'.cusor = pageInfor /\ btn'.pc = "pop"
    BY <1>0, <2>1, <2>2 DEF BtnType
  <2>4. CallbackFits'
    BY <1>0, <2>1, <2>3 DEF CallbackFits
  <2> QED
    BY <1>0, <2>1, <2>3, <2>4, CallbackKeeps
<1>2. CASE StoreStack
  <2>1. /\ btn' = [btn EXCEPT !.pc = "reflash", !.cusor = NONE]
        /\ pageInfor' = btn.cusor \div 256 /\ btn.pc = "pop"
        /\ UNCHANGED <<page, reflash, screen, light, idle, edit>>
    BY <1>2 DEF StoreStack
  <2>2. pageInfor' = HOME_PAGE
    BY <1>0, <2>1 DEF CallbackFits, HOME_PAGE, SETTING_PAGE
  <2>3. btn' \in BtnType /\ btn'.pc = "reflash"
    BY <1>0, <2>1 DEF BtnType
  <2>4. CallbackFits'
    BY <2>3 DEF CallbackFits
  <2> QED
    BY <1>0, <2>1, <2>2, <2>3, <2>4, CallbackKeeps
<1>3. CASE TestEdit
  <2> DEFINE pc == IF page.changeValue = NO THEN "compare" ELSE "wake"
             asked == edit.asked \/ page.changeValue = YES
  <2>1. /\ btn' = [btn EXCEPT !.pc = pc]
        /\ edit' = [edit EXCEPT !.asked = asked]
        /\ UNCHANGED <<page, pageInfor, reflash, screen, light, idle>>
    BY <1>3 DEF TestEdit, Goto
  <2>2. pc \in {"compare", "wake"} /\ asked \in BOOLEAN
    OBVIOUS
  <2> HIDE DEF pc, asked
  <2>3. btn' \in BtnType /\ btn'.pc = pc
    BY <1>0, <2>1, <2>2 DEF BtnType
  <2>4. edit' \in EditType
    BY <1>0, <2>1, <2>2 DEF EditType
  <2>5. CallbackFits'
    BY <2>2, <2>3 DEF CallbackFits
  <2> QED
    BY <1>0, <2>1, <2>3, <2>4, <2>5, CallbackKeeps
<1>4. CASE LoadOperand
  <2>1. /\ btn.pc = "compare"
        /\ \/ btn' = [btn EXCEPT !.cusor = page.cusor]
           \/ btn' = [btn EXCEPT !.limit = Limit]
        /\ UNCHANGED <<page, pageInfor, reflash, screen, light, idle, edit>>
    BY <1>4 DEF LoadOperand
  <2>2. page.cusor \in Bytes /\ Limit \in Bytes
    BY <1>limits DEF Limit
  <2>3. btn' \in BtnType /\ btn'.pc = "compare"
    BY <1>0, <2>1, <2>2 DEF BtnType
  <2>4. CallbackFits'
    BY <2>3 DEF CallbackFits
  <2> QED
    BY <1>0, <2>1, <2>3, <2>4, CallbackKeeps
<1>5. CASE LoadTarget
  <2> DEFINE target ==
               CASE btn.key = "up" /\ btn.cusor > btn.limit ->
                          (page.cusor + 255) % 256
                 [] btn.key = "up" /\ btn.cusor <= btn.limit -> page.cusor_max
                 [] btn.key = "down" /\ btn.limit = 0 -> btn.cusor
                 [] btn.key = "down" /\ btn.limit # 0 /\ btn.cusor < btn.limit ->
                          (page.cusor + 1) % 256
                 [] OTHER -> page.cusor_home
  <2>0. target \in {(page.cusor + 255) % 256, (page.cusor + 1) % 256,
                    page.cusor_max, page.cusor_home, btn.cusor}
    OBVIOUS
  <2>1. btn' = [btn EXCEPT !.pc = "store", !.cusor = target, !.limit = NONE]
    BY <1>5 DEF LoadTarget
  <2> HIDE DEF target
  <2>2. /\ btn.cusor # NONE
        /\ UNCHANGED <<page, pageInfor, reflash, screen, light, idle, edit>>
    BY <1>5 DEF LoadTarget
  <2>3. target \in Bytes
    BY <1>limits, <2>0, <2>2 DEF Bytes
  <2>4. btn' \in BtnType /\ btn'.pc = "store" /\ btn'.cusor = target
    BY <1>0, <2>1, <2>3 DEF BtnType
  <2>5. CallbackFits'
    BY <2>3, <2>4 DEF CallbackFits
  <2> QED
    BY <1>0, <2>2, <2>4, <2>5, CallbackKeeps
<1>6. CASE StoreCursor
  <2>1. /\ btn.pc = "store" /\ page' = [page EXCEPT !.cusor = btn.cusor]
        /\ btn' = [btn EXCEPT !.pc = "wake", !.cusor = NONE]
        /\ UNCHANGED <<pageInfor, reflash, screen, light, idle, edit>>
    BY <1>6 DEF StoreCursor
  <2>2. btn.cusor \in Bytes
    BY <1>0, <2>1 DEF CallbackFits
  <2>3. page' \in PageType
    BY <1>0, <2>1, <2>2 DEF PageType
  <2>4. btn' \in BtnType /\ btn'.pc = "wake"
    BY <1>0, <2>1 DEF BtnType
  <2>5. CallbackFits'
    BY <2>4 DEF CallbackFits
  <2> QED
    BY <1>0, <2>1, <2>3, <2>4, <2>5, CallbackKeeps
<1>7. CASE wakeUpOledBackLight
  <2> DEFINE pc == IF btn.key = "enter" THEN "flag" ELSE "reflash"
  <2>1. /\ idle' = 0 /\ light' = YES /\ btn' = [btn EXCEPT !.pc = pc]
        /\ UNCHANGED <<page, pageInfor, reflash, screen, edit>>
    BY <1>7 DEF wakeUpOledBackLight, Goto
  <2>2. pc \in {"flag", "reflash"} /\ (pc = "flag" => btn.key = "enter")
    OBVIOUS
  <2> HIDE DEF pc
  <2>3. btn' \in BtnType /\ btn'.pc = pc /\ btn'.key = btn.key
    BY <1>0, <2>1, <2>2 DEF BtnType
  <2>4. CallbackFits'
    BY <2>2, <2>3 DEF CallbackFits
  <2> QED
    BY <1>0, <2>1, <2>3, <2>4, CallbackKeeps
<1>8. CASE SetReflash
  <2>1. /\ reflash' = YES
        /\ \/ btn.key \in {"up", "down"} /\ btn' = [btn EXCEPT !.pc = "flag"]
           \/ btn' = NoKey
        /\ UNCHANGED <<page, pageInfor, screen, light, idle, edit>>
    BY <1>8, Zenon DEF SetReflash
  <2>2. btn' \in BtnType /\ CallbackFits'
    BY <1>0, <1>key, <2>1 DEF BtnType, NoKey, CallbackFits
  <2> QED
    BY <1>0, <2>1, <2>2, CallbackKeeps
<1>9. CASE SetFlag
  <2>1. /\ btn.pc = "flag"
        /\ \/ btn' = [btn EXCEPT !.pc = "reflash"]
           \/ btn' = NoKey
        /\ UNCHANGED <<pageInfor, reflash, screen, light, idle, edit>>
    BY <1>9, Zenon DEF SetFlag
  <2>2. btn.key \in {"enter", "up", "down"}
    BY <1>0, <2>1 DEF CallbackFits, BtnType
  <2>3. \/ page' = [page EXCEPT !.select = YES]
        \/ page' = [page EXCEPT !.up = YES]
        \/ page' = [page EXCEPT !.down = YES]
    BY <1>9, <2>2 DEF SetFlag
  <2>4. page' \in PageType
    BY <1>0, <2>3 DEF PageType
  <2>5. btn' \in BtnType /\ CallbackFits'
    BY <1>0, <1>key, <2>1 DEF BtnType, NoKey, CallbackFits
  <2> QED
    BY <1>0, <2>1, <2>4, <2>5, CallbackKeeps
<1>10. CASE AnyPress
  <2>1. PICK key \in {"enter", "back", "up", "down"} : Press(key)
    BY <1>10 DEF AnyPress
  <2>2. PICK pc \in {"wake", "back", "test"} :
             btn' = [NoKey EXCEPT !.key = key, !.pc = pc]
    BY <2>1, Zenon DEF Press
  <2>3. btn' \in BtnType /\ btn'.pc = pc
    BY <2>2, <1>key DEF BtnType
  <2>4. CallbackFits'
    BY <2>3 DEF CallbackFits
  <2> QED
    BY <1>0, <2>1, <2>3, <2>4, CallbackKeeps DEF Press
<1>11. CASE Tick
  <2>1. /\ idle' = Later(idle, BackLightTime)
        /\ UNCHANGED <<page, pageInfor, reflash, screen, light, btn, edit>>
    BY <1>11 DEF Tick
  <2>2. idle' \in 0..(BackLightTime + 1)
    BY <1>0, <2>1 DEF Later
  <2>3. CallbackFits'
    BY <1>0, <2>1 DEF CallbackFits
  <2> QED
    BY <1>0, <2>1, <2>2, <2>3, CallbackKeeps
<1> QED
  BY <1>1, <1>2, <1>3, <1>4, <1>5, <1>6, <1>7, <1>8, <1>9, <1>10, <1>11
     DEF Callback

-----------------------------------------------------------------------------
\* OledEntry before its loop.
LEMMA UiInit == Init => UiInv
<1> SUFFICES ASSUME Init PROVE UiInv
  OBVIOUS
<1>1. /\ page \in PageType /\ btn \in BtnType /\ edit \in EditType
      /\ window \in WindowType /\ WindowIsFive
  BY DEF Init, PageType, BtnType, EditType, WindowType, WindowIsFive, NoKey,
         NotEditing, Bytes
<1>2. val \in ValType
  <2>1. \A c : Least(c) \in Int
    BY DEF Least
  <2> QED
    BY <2>1 DEF Init, ValType
<1>3. TypeOK
  <2>1. /\ pageInfor \in Nat /\ nowPagePre \in Bytes /\ reflash \in {NO, YES}
        /\ time1S \in 0..TouchTime /\ light \in {NO, YES}
        /\ idle \in 0..(BackLightTime + 1) /\ overtook \in 0..Overtakes
        /\ waits \in 0..(TouchTime + 1)
    BY UiAssumption DEF Init, Bytes, HOME_PAGE
  <2> QED
    BY <1>1, <1>2, <2>1, Types
<1>4. WaitIsTimed
  BY UiAssumption DEF Init, WaitIsTimed
<1>5. CallbackFits
  BY DEF Init, NoKey, CallbackFits
<1> QED
  BY <1>1, <1>3, <1>4, <1>5 DEF UiInv, Init, StackIsShallow

(***************************************************************************)
(* The invariant holds in every state, whichever pass of the oled thread   *)
(* falls into whichever callback.                                          *)
(***************************************************************************)
THEOREM UiInvariant == Spec => []UiInv
<1>1. UiInv /\ [Next]_vars => UiInv'
  <2> SUFFICES ASSUME UiInv, [Next]_vars PROVE UiInv'
    OBVIOUS
  <2>1. CASE OledThread
    BY <2>1, OledStep DEF OledThread
  <2>2. CASE Callback \/ AnyPress \/ Tick
    BY <2>2, CallbackStep
  <2>3. CASE UNCHANGED vars
    BY <2>3 DEF vars, UiInv, TypeOK, StackIsShallow, CallbackFits,
                WindowIsFive, WaitIsTimed
  <2> QED
    BY <2>1, <2>2, <2>3 DEF Next
<1> QED
  BY <1>1, UiInit, PTL DEF Spec

(***************************************************************************)
(* Types: the cursor of the panel stays a byte, and the timer within its   *)
(* period.                                                                 *)
(***************************************************************************)
THEOREM TypeCorrect == Spec => []TypeOK
BY UiInvariant, PTL DEF UiInv

(***************************************************************************)
(* The page stack never gets deeper than the settings page, although       *)
(* BackPage stores a stack it loaded before a pass that pushed a page.     *)
(***************************************************************************)
THEOREM StackStaysShallow == Spec => []StackIsShallow
BY UiInvariant, PTL DEF UiInv

(***************************************************************************)
(* A key pressed in the edit mode waits for at most one period of the      *)
(* timer, although a pass may use up its request to refresh before the key *)
(* is noted (UpBtnCallBack, DowmBtnCallBack, OledEntry).                   *)
(***************************************************************************)
THEOREM KeysAreServedInTime == Spec => []KeysAreServed
BY UiInvariant, PTL DEF UiInv, WaitIsTimed, KeysAreServed

-----------------------------------------------------------------------------
(* The edit mode.                                                          *)

\* The settings page is opened from the home page, out of the edit mode.
EditIsOver ==
    /\ nowPagePre \in {HOME_PAGE, SETTING_PAGE, 255}
    /\ nowPagePre # SETTING_PAGE /\ NowPage = SETTING_PAGE =>
            nowPagePre = HOME_PAGE /\ page.changeValue = NO

\* The edit mode of the settings page, begun while no callback was under way.
EditingAlone ==
    nowPagePre = SETTING_PAGE /\ page.changeValue = YES /\ edit.alone

\* The long press of enter is the only key that goes back.
BackIsBack == btn.pc \in {"back", "pop"} => btn.key = "back"

\* In it the cursor stays, no callback is about to move it, and a key that is
\* noted, or about to be, was pressed in it.
EditIsHeld ==
    EditingAlone =>
        /\ page.cusor = edit.at
        /\ page.up = YES \/ page.down = YES => edit.asked
        /\ btn.pc \notin {"compare", "store"}
        /\ btn.pc \in {"wake", "reflash", "flag"} /\ btn.key \in {"up", "down"} =>
                edit.asked

EditInv == EditIsOver /\ BackIsBack /\ EditIsHeld

-----------------------------------------------------------------------------
(* The cursor.                                                             *)

\* The limits of the cursor are those of the page that was opened last.
LimitsAreSet ==
    /\ nowPagePre = HOME_PAGE => page.cusor_home = 1 /\ page.cusor_max = 1
    /\ nowPagePre = SETTING_PAGE => page.cusor_home = 1 /\ page.cusor_max = SettingMax

\* On the settings page the cursor is on a position; on the home page it may
\* be anywhere, but not while that page is about to open the settings, unless
\* a pass fell into the callback under way or the last one.
CursorFits ==
    /\ nowPagePre = SETTING_PAGE => page.cusor \in 1..SettingMax
    /\ nowPagePre = HOME_PAGE /\ NowPage = SETTING_PAGE /\ overtook = 0 =>
            page.cusor = 1

\* What a callback has loaded is what is in the page, unless a pass came
\* between; if that pass opened the settings, the cursor is on the first
\* position and was so on the home page.
OperandsFit ==
    /\ btn.pc # "scan" => nowPagePre # 255
    /\ btn.pc = "test" => btn.cusor = NONE /\ btn.limit = NONE
    /\ btn.pc = "compare" =>
        \/ btn.cusor \in {NONE, page.cusor} /\ btn.limit \in {NONE, Limit}
        \/ /\ overtook # 0
           /\ nowPagePre = SETTING_PAGE =>
                /\ page.cusor = 1 /\ btn.cusor \in {NONE, 1}
                /\ btn.limit \in {NONE, 1, Limit}

\* The position a callback is about to store.
TargetFits ==
    btn.pc = "store" =>
        /\ nowPagePre = SETTING_PAGE => btn.cusor \in 1..SettingMax
        /\ nowPagePre = HOME_PAGE /\ page.cusor = 1 /\ overtook = 0 =>
                btn.cusor = 1

WindowIsReal == window.min \in 1..8

CursorInv ==
    /\ LimitsAreSet
    /\ CursorFits
    /\ OperandsFit
    /\ TargetFits
    /\ WindowIsReal

-----------------------------------------------------------------------------
(* What a pass does, in detail.                                            *)

\* The page a pass works on.
Sel == IF NowPage # nowPagePre THEN Opened(NowPage) ELSE page

\* Opening a page moves the cursor and leaves the keys.
LEMMA SelFields ==
    ASSUME UiInv
    PROVE  /\ Sel \in PageType /\ Sel.changeValue = page.changeValue
           /\ Sel.up = page.up /\ Sel.down = page.down /\ Sel.select = page.select
           /\ NowPage # nowPagePre =>
                /\ Sel.cusor = 1 /\ Sel.cusor_home = 1
                /\ Sel.cusor_max = IF NowPage = HOME_PAGE THEN 1 ELSE SettingMax
           /\ NowPage = nowPagePre => Sel = page
<1>1. page \in PageType
  BY Types DEF UiInv
<1> DEFINE max == IF NowPage = HOME_PAGE THEN 1 ELSE SettingMax
<1>2. Opened(NowPage) = [page EXCEPT !.cusor_home = 1, !.cusor = 1,
                                     !.cusor_max = max]
  BY DEF Opened
<1>3. Sel \in PageType
  BY <1>1, OpenedType DEF Sel
<1> HIDE DEF max
<1>4. /\ Opened(NowPage).changeValue = page.changeValue
      /\ Opened(NowPage).up = page.up /\ Opened(NowPage).down = page.down
      /\ Opened(NowPage).select = page.select /\ Opened(NowPage).cusor = 1
      /\ Opened(NowPage).cusor_home = 1 /\ Opened(NowPage).cusor_max = max
  BY <1>1, <1>2 DEF PageType
<1> QED
  BY <1>3, <1>4 DEF Sel, max

\* A pass and the stack; the stack has one page or the settings on it.
LEMMA PassFacts ==
    ASSUME UiInv, NEW second \in BOOLEAN, OledPass(second)
    PROVE  /\ pageInfor \in {HOME_PAGE, SETTING_PAGE} /\ NowPage = pageInfor
           /\ pageInfor' \in {HOME_PAGE, SETTING_PAGE} /\ NowPage' = pageInfor'
           /\ page' = Shown.page /\ window' = Shown.window /\ val' = Shown.val
           /\ edit' = Shown.edit /\ nowPagePre' = NowPage /\ btn' = btn
           /\ pageInfor' = SETTING_PAGE => Shown.stack = SETTING_PAGE
           /\ overtook' = IF btn.pc = "scan" THEN 0 ELSE overtook + 1
           /\ btn.pc # "scan" => overtook < Overtakes
<1>1. /\ page' = Shown.page /\ window' = Shown.window /\ val' = Shown.val
      /\ edit' = Shown.edit /\ nowPagePre' = NowPage /\ btn' = btn /\ Loop
      /\ overtook' = IF btn.pc = "scan" THEN 0 ELSE overtook + 1
      /\ IF second THEN monitorBackLight(Shown.stack)
         ELSE pageInfor' = Shown.stack /\ UNCHANGED light
  BY Zenon DEF OledPass
<1>2. UiInv'
  BY OledStep
<1>3. /\ pageInfor \in {HOME_PAGE, SETTING_PAGE}
      /\ pageInfor' \in {HOME_PAGE, SETTING_PAGE}
  BY <1>2 DEF UiInv, StackIsShallow
<1>4. NowPage = pageInfor /\ NowPage' = pageInfor'
  <2>1. \A s \in {HOME_PAGE, SETTING_PAGE} : s % 256 = s
    BY DEF HOME_PAGE, SETTING_PAGE
  <2>2. NowPage = pageInfor % 256 /\ NowPage' = pageInfor' % 256
    BY Zenon DEF NowPage
  <2> QED
    BY <1>3, <2>1, <2>2, Zenon
<1>5. pageInfor' = SETTING_PAGE => Shown.stack = SETTING_PAGE
  <2>1. Shown.stack \in {HOME_PAGE, SETTING_PAGE}
    BY PassStep DEF PassType
  <2>2. pageInfor' = Shown.stack \/ pageInfor' = Shown.stack \div 256
    BY <1>1 DEF monitorBackLight
  <2> QED
    BY <2>1, <2>2 DEF HOME_PAGE, SETTING_PAGE
<1>6. btn.pc # "scan" => overtook < Overtakes
  BY <1>1, Zenon DEF Loop
<1> QED
  BY <1>1, <1>3, <1>4, <1>5, <1>6, Zenon

\* A pass that does not draw.
LEMMA IdlePass ==
    ASSUME UiInv, NEW second \in BOOLEAN, OledPass(second), ~Draws
    PROVE  /\ nowPagePre = NowPage
           /\ pageInfor' = SETTING_PAGE => pageInfor = SETTING_PAGE
           /\ UNCHANGED <<page, window, val, edit>>
<1>1. Shown = Seen
  BY DEF Shown
<1> QED
  BY <1>1, PassFacts DEF Seen, Draws

\* A pass that draws the home page.
LEMMA HomePass ==
    ASSUME UiInv, NEW second \in BOOLEAN, OledPass(second), Draws,
           NowPage = HOME_PAGE
    PROVE  /\ page'.cusor = Sel.cusor /\ page'.cusor_home = Sel.cusor_home
           /\ page'.cusor_max = Sel.cusor_max
           /\ pageInfor' = SETTING_PAGE => Sel.cusor = 1 /\ page'.changeValue = NO
           /\ UNCHANGED <<window, val, edit>>
<1> DEFINE enters == Sel.select = YES /\ Sel.cusor = 1
           stack  == IF enters THEN pageInfor * 256 + SETTING_PAGE
                     ELSE pageInfor
           change == IF enters THEN NO ELSE Sel.changeValue
           now    == [Sel EXCEPT !.select = NO, !.changeValue = change]
<1>1. Shown = HomeProgram(Sel)
  BY DEF Shown, pageProgram, Sel, HOME_PAGE, SETTING_PAGE
<1>2. HomeProgram(Sel) = [Seen EXCEPT !.stack = stack, !.page = now]
  BY SeenType DEF HomeProgram
<1>3. Sel \in PageType
  BY SelFields
<1>4. /\ now.cusor = Sel.cusor /\ now.cusor_home = Sel.cusor_home
      /\ now.cusor_max = Sel.cusor_max /\ now.changeValue = change
  <2> HIDE DEF change
  <2> QED
    BY <1>3 DEF PageType
<1>5. stack = SETTING_PAGE => Sel.cusor = 1 /\ change = NO
  BY PassFacts DEF HOME_PAGE, SETTING_PAGE
<1> HIDE DEF stack, now, change
<1>6. /\ Shown.page = now /\ Shown.stack = stack /\ Shown.window = window
      /\ Shown.val = val /\ Shown.edit = edit
  BY <1>1, <1>2 DEF Seen
<1> QED
  BY <1>4, <1>5, <1>6, PassFacts

\* A pass that draws the settings page.
LEMMA SettingPass ==
    ASSUME UiInv, NEW second \in BOOLEAN, OledPass(second), Draws,
           NowPage = SETTING_PAGE
    PROVE  /\ page'.cusor = Sel.cusor /\ page'.cusor_home = Sel.cusor_home
           /\ page'.cusor_max = Sel.cusor_max
           /\ page'.changeValue = YES => page'.up = NO /\ page'.down = NO
           /\ page'.changeValue = YES /\ Sel.changeValue = YES => edit' = edit
           /\ page'.changeValue = YES /\ Sel.changeValue = NO =>
                edit' = [at |-> Sel.cusor, alone |-> btn.pc = "scan",
                         asked |-> FALSE]
           /\ \A c \in Watched : val'[c] # val[c] =>
                /\ page'.changeValue = YES /\ Sel.changeValue = YES
                /\ c = Sel.cusor /\ (Sel.up = YES \/ Sel.down = YES)
           /\ window' = Window(LineOf(Sel.cusor))
<1> DEFINE now     == Toggled(Sel)
           line    == LineOf(now.cusor)
           shown   == Window(line)
           editing == now.changeValue = YES /\ line \in shown.min..shown.max
           values  == IF editing THEN Edited(now) ELSE val
           after   == IF editing THEN [now EXCEPT !.up = NO, !.down = NO]
                      ELSE now
           history == IF now.changeValue = NO THEN NotEditing
                      ELSE IF Sel.changeValue = NO
                      THEN [at |-> now.cusor, alone |-> btn.pc = "scan",
                            asked |-> FALSE]
                      ELSE edit
<1>0. Shown = SettingProgram(Sel)
  BY DEF Shown, pageProgram, Sel, HOME_PAGE, SETTING_PAGE
<1>1. SettingProgram(Sel) = [Seen EXCEPT !.window = shown, !.val = values,
                                         !.page = after, !.edit = history]
  BY DEF SettingProgram, Seen
<1>2. Sel \in PageType /\ now \in PageType
  BY SelFields, ToggledType
<1>3. /\ now.cusor = Sel.cusor /\ now.cusor_home = Sel.cusor_home
      /\ now.cusor_max = Sel.cusor_max
      /\ now.changeValue = YES /\ Sel.changeValue = NO => now.up = NO /\ now.down = NO
      /\ now.changeValue = YES /\ Sel.changeValue = YES =>
            now.up = Sel.up /\ now.down = Sel.down
  BY <1>2 DEF Toggled, PageType, NO, YES
<1>4. /\ page' = after /\ window' = shown /\ val' = values /\ edit' = history
  <2> HIDE DEF shown, values, after, history
  <2> QED
    BY <1>0, <1>1, PassFacts DEF Seen
<1>5. /\ after.cusor = now.cusor /\ after.cusor_home = now.cusor_home
      /\ after.cusor_max = now.cusor_max /\ after.changeValue = now.changeValue
  <2> HIDE DEF now
  <2> QED
    BY <1>2 DEF PageType
<1>6. page'.changeValue = YES => page'.up = NO /\ page'.down = NO
  BY <1>0, <1>2, SettingStep, PassFacts
<1>7. ASSUME NEW c \in Watched, values[c] # val[c]
      PROVE  /\ now.changeValue = YES /\ c = now.cusor
             /\ now.up = YES \/ now.down = YES
  BY <1>7 DEF Edited
<1>8. Sel.changeValue \in {NO, YES}
  BY <1>2 DEF PageType
<1> HIDE DEF now, line, shown, values, after
<1>9. ASSUME NEW c \in Watched, val'[c] # val[c]
      PROVE  /\ page'.changeValue = YES /\ Sel.changeValue = YES
             /\ c = Sel.cusor /\ (Sel.up = YES \/ Sel.down = YES)
  BY <1>3, <1>4, <1>5, <1>7, <1>8, <1>9 DEF NO, YES
<1>10. /\ page'.changeValue = YES /\ Sel.changeValue = YES => edit' = edit
       /\ page'.changeValue = YES /\ Sel.changeValue = NO =>
                edit' = [at |-> Sel.cusor, alone |-> btn.pc = "scan",
                         asked |-> FALSE]
  BY <1>3, <1>4, <1>5 DEF NO, YES
<1> QED
  BY <1>3, <1>4, <1>5, <1>6, <1>9, <1>10 DEF shown, line

-----------------------------------------------------------------------------
(* What a step of the button thread does, in detail.                       *)

\* What the button thread does next.
BtnMoves ==
    \/ btn' = btn /\ page' = page
    \/ btn'.pc = "scan"
    \/ /\ btn.pc = "scan" /\ nowPagePre # 255
       /\ btn'.cusor = NONE /\ btn'.limit = NONE
       /\ \/ btn'.pc = "wake" /\ btn'.key = "enter"
          \/ btn'.pc = "back" /\ btn'.key = "back"
          \/ btn'.pc = "test"
    \/ btn.pc = "back" /\ btn'.pc = "pop" /\ btn'.key = btn.key
    \/ btn.pc = "pop" /\ btn'.pc = "reflash" /\ btn'.key = btn.key
    \/ /\ btn.pc = "test" /\ btn'.key = btn.key
       /\ btn'.cusor = btn.cusor /\ btn'.limit = btn.limit
       /\ \/ btn'.pc = "compare" /\ page.changeValue = NO
          \/ btn'.pc = "wake" /\ (page.changeValue = YES => edit'.asked)
    \/ /\ btn.pc = "compare" /\ btn'.pc = "compare" /\ btn'.key = btn.key
       /\ \/ btn'.cusor = page.cusor /\ btn'.limit = btn.limit
          \/ btn'.cusor = btn.cusor /\ btn'.limit = Limit
    \/ LoadTarget /\ btn'.pc = "store"
    \/ btn.pc = "store" /\ btn'.pc = "wake" /\ btn'.key = btn.key
    \/ btn.pc = "wake" /\ btn'.pc \in {"flag", "reflash"} /\ btn'.key = btn.key
    \/ btn.pc = "reflash" /\ btn'.pc = "flag" /\ btn'.key = btn.key
    \/ /\ btn.pc = "flag" /\ btn'.pc = "reflash"
       /\ btn'.key = btn.key /\ btn.key = "enter"

\* What it makes of the page: a cursor that was loaded, and the flag of a key.
PageMoves ==
    /\ page'.changeValue = page.changeValue
    /\ page'.cusor_home = page.cusor_home /\ page'.cusor_max = page.cusor_max
    /\ \/ page'.cusor = page.cusor
       \/ btn.pc = "store" /\ btn'.pc = "wake" /\ page'.cusor = btn.cusor
    /\ \/ page'.up = page.up
       \/ btn.pc = "flag" /\ btn.key = "up"
    /\ \/ page'.down = page.down
       \/ btn.pc = "flag" /\ btn.key = "down"

\* The rest: only BackPage touches the stack, only a key test the history.
RestMoves ==
    /\ UNCHANGED <<nowPagePre, window, val, overtook>>
    /\ pageInfor' = pageInfor \/ pageInfor' = HOME_PAGE
    /\ edit'.at = edit.at /\ edit'.alone = edit.alone
    /\ edit.asked => edit'.asked

\* Every step of the button thread, and of the main thread, is such a move.
LEMMA ButtonMoves ==
    ASSUME UiInv, Callback \/ AnyPress \/ Tick
    PROVE  BtnMoves /\ PageMoves /\ RestMoves
<1>0. page \in PageType /\ btn \in BtnType /\ edit \in EditType /\ CallbackFits
  BY Types DEF UiInv
<1>same. ASSUME page' = page
         PROVE  PageMoves
  BY <1>same DEF PageMoves
<1>rest. ASSUME UNCHANGED <<pageInfor, screen, edit>>
         PROVE  RestMoves
  BY <1>rest DEF RestMoves, screen
<1>1. CASE LoadStack
  <2>1. /\ btn.pc = "back" /\ btn' = [btn EXCEPT !.pc = "pop", !.cusor = pageInfor]
        /\ UNCHANGED <<page, pageInfor, screen, edit>>
    BY <1>1 DEF LoadStack
  <2>2. btn'.pc = "pop" /\ btn'.key = btn.key
    BY <1>0, <2>1 DEF BtnType
  <2> QED
    BY <1>same, <1>rest, <2>1, <2>2 DEF BtnMoves
<1>2. CASE StoreStack
  <2>1. /\ btn.pc = "pop" /\ btn' = [btn EXCEPT !.pc = "reflash", !.cusor = NONE]
        /\ pageInfor' = btn.cusor \div 256
        /\ UNCHANGED <<page, screen, edit>>
    BY <1>2 DEF StoreStack
  <2>2. btn'.pc = "reflash" /\ btn'.key = btn.key
    BY <1>0, <2>1 DEF BtnType
  <2>3. pageInfor' = HOME_PAGE
    BY <1>0, <2>1 DEF CallbackFits, HOME_PAGE, SETTING_PAGE
  <2> QED
    BY <1>same, <2>1, <2>2, <2>3 DEF BtnMoves, RestMoves, screen
<1>3. CASE TestEdit
  <2> DEFINE pc == IF page.changeValue = NO THEN "compare" ELSE "wake"
             asked == edit.asked \/ page.changeValue = YES
  <2>1. /\ btn.pc = "test" /\ btn' = [btn EXCEPT !.pc = pc]
        /\ edit' = [edit EXCEPT !.asked = asked]
        /\ UNCHANGED <<page, pageInfor, screen>>
    BY <1>3 DEF TestEdit, Goto
  <2> HIDE DEF pc, asked
  <2>2. /\ btn'.pc = pc /\ btn'.key = btn.key /\ btn'.cusor = btn.cusor
        /\ btn'.limit = btn.limit
    BY <1>0, <2>1 DEF BtnType
  <2>3. edit'.at = edit.at /\ edit'.alone = edit.alone /\ edit'.asked = asked
    BY <1>0, <2>1 DEF EditType
  <2>4. BtnMoves
    BY <2>1, <2>2, <2>3 DEF BtnMoves, pc, asked
  <2>5. RestMoves
    BY <2>1, <2>3 DEF RestMoves, screen, asked
  <2> QED
    BY <1>same, <2>1, <2>4, <2>5
<1>4. CASE LoadOperand
  <2>1. /\ btn.pc = "compare"
        /\ \/ btn' = [btn EXCEPT !.cusor = page.cusor]
           \/ btn' = [btn EXCEPT !.limit = Limit]
        /\ UNCHANGED <<page, pageInfor, screen, edit>>
    BY <1>4 DEF LoadOperand
  <2>2. /\ btn'.pc = "compare" /\ btn'.key = btn.key
        /\ \/ btn'.cusor = page.cusor /\ btn'.limit = btn.limit
           \/ btn'.cusor = btn.cusor /\ btn'.limit = Limit
    BY <1>0, <2>1 DEF BtnType
  <2> QED
    BY <1>same, <1>rest, <2>1, <2>2 DEF BtnMoves
<1>5. CASE LoadTarget
  <2>1. UNCHANGED <<page, pageInfor, screen, edit>>
    BY <1>5 DEF LoadTarget
  <2>2. PICK target : btn' = [btn EXCEPT !.pc = "store", !.cusor = target,
                                         !.limit = NONE]
    BY <1>5 DEF LoadTarget
  <2>3. btn'.pc = "store"
    BY <1>0, <2>2 DEF BtnType
  <2> QED
    BY <1>5, <1>same, <1>rest, <2>1, <2>3 DEF BtnMoves
<1>6. CASE StoreCursor
  <2>1. /\ btn.pc = "store" /\ page' = [page EXCEPT !.cusor = btn.cusor]
        /\ btn' = [btn EXCEPT !.pc = "wake", !.cusor = NONE]
        /\ UNCHANGED <<pageInfor, screen, edit>>
    BY <1>6 DEF StoreCursor
  <2>2. btn'.pc = "wake" /\ btn'.key = btn.key
    BY <1>0, <2>1 DEF BtnType
  <2>3. PageMoves
    BY <1>0, <2>1, <2>2 DEF PageMoves, PageType
  <2> QED
    BY <1>rest, <2>1, <2>2, <2>3 DEF BtnMoves
<1>7. CASE wakeUpOledBackLight
  <2>1. PICK pc \in {"flag", "reflash"} :
             /\ btn.pc = "wake" /\ btn' = [btn EXCEPT !.pc = pc]
             /\ UNCHANGED <<page, pageInfor, screen, edit>>
    BY <1>7 DEF wakeUpOledBackLight, Goto
  <2>2. btn'.pc = pc /\ btn'.key = btn.key
    BY <1>0, <2>1 DEF BtnType
  <2> QED
    BY <1>same, <1>rest, <2>1, <2>2 DEF BtnMoves
<1>8. CASE SetReflash
  <2>1. /\ btn.pc = "reflash"
        /\ btn' = [btn EXCEPT !.pc = "flag"] \/ btn' = NoKey
        /\ UNCHANGED <<page, pageInfor, screen, edit>>
    BY <1>8, Zenon DEF SetReflash
  <2>2. \/ btn'.pc = "scan"
        \/ btn'.pc = "flag" /\ btn'.key = btn.key
    BY <1>0, <2>1 DEF BtnType, NoKey
  <2> QED
    BY <1>same, <1>rest, <2>1, <2>2 DEF BtnMoves
<1>9. CASE SetFlag
  <2>1. /\ btn.pc = "flag"
        /\ \/ btn.key = "enter" /\ btn' = [btn EXCEPT !.pc = "reflash"]
           \/ btn' = NoKey
        /\ UNCHANGED <<pageInfor, screen, edit>>
    BY <1>9, Zenon DEF SetFlag
  <2>2. btn.key \in {"enter", "up", "down"}
    BY <1>0, <2>1 DEF CallbackFits, BtnType
  <2>3. \/ page' = [page EXCEPT !.select = YES]
        \/ btn.key = "up" /\ page' = [page EXCEPT !.up = YES]
        \/ btn.key = "down" /\ page' = [page EXCEPT !.down = YES]
    BY <1>9, <2>2 DEF SetFlag
  <2>4. PageMoves
    BY <1>0, <2>1, <2>3 DEF PageMoves, PageType
  <2>5. \/ btn'.pc = "scan"
        \/ btn'.pc = "reflash" /\ btn'.key = btn.key /\ btn.key = "enter"
    BY <1>0, <2>1 DEF BtnType, NoKey
  <2> QED
    BY <1>rest, <2>1, <2>4, <2>5 DEF BtnMoves
<1>10. CASE AnyPress
  <2>1. PICK key \in {"enter", "back", "up", "down"} : Press(key)
    BY <1>10 DEF AnyPress
  <2>2. /\ btn.pc = "scan" /\ nowPagePre # 255
        /\ UNCHANGED <<page, pageInfor, screen, edit>>
    BY <2>1 DEF Press
  <2>3. PICK pc \in {"wake", "back", "test"} :
             /\ btn' = [NoKey EXCEPT !.key = key, !.pc = pc]
             /\ pc = "wake" => key = "enter"
             /\ pc = "back" => key = "back"
    BY <2>1 DEF Press
  <2>4. /\ btn'.cusor = NONE /\ btn'.limit = NONE /\ btn'.pc = pc
        /\ btn'.key = key
    BY <2>3 DEF NoKey
  <2> QED
    BY <1>same, <1>rest, <2>2, <2>3, <2>4 DEF BtnMoves
<1>11. CASE Tick
  BY <1>11, <1>same, <1>rest DEF Tick, BtnMoves
<1> QED
  BY <1>1, <1>2, <1>3, <1>4, <1>5, <1>6, <1>7, <1>8, <1>9, <1>10, <1>11
     DEF Callback

-----------------------------------------------------------------------------
(* The edit mode is held.                                                  *)

\* A pass begins the edit mode at the cursor, or leaves it as it is.
LEMMA EditPass ==
    ASSUME UiInv, EditInv, NEW second \in BOOLEAN, OledPass(second)
    PROVE  EditInv'
<1>0. page \in PageType
  BY Types DEF UiInv
<1>1. /\ NowPage \in {HOME_PAGE, SETTING_PAGE} /\ nowPagePre' = NowPage
      /\ NowPage = pageInfor /\ NowPage' = pageInfor' /\ btn' = btn
  BY PassFacts
<1>2. HOME_PAGE # SETTING_PAGE /\ NO # YES
  BY DEF HOME_PAGE, SETTING_PAGE, NO, YES
<1>3. EditIsOver'
  <2>1. CASE NowPage = SETTING_PAGE
    BY <1>1, <1>2, <2>1 DEF EditIsOver
  <2>2. CASE NowPage = HOME_PAGE /\ Draws
    BY <1>1, <1>2, <2>2, HomePass DEF EditIsOver
  <2>3. CASE NowPage = HOME_PAGE /\ ~Draws
    BY <1>1, <1>2, <2>3, IdlePass DEF EditIsOver
  <2> QED
    BY <1>1, <2>1, <2>2, <2>3
<1>4. BackIsBack'
  BY <1>1 DEF EditInv, BackIsBack
<1>5. ASSUME EditingAlone'
      PROVE  /\ page'.cusor = edit'.at
             /\ page'.up = YES \/ page'.down = YES => edit'.asked
             /\ btn'.pc \notin {"compare", "store"}
             /\ btn'.pc \in {"wake", "reflash", "flag"} /\ btn'.key \in {"up", "down"} =>
                     edit'.asked
  <2>1. NowPage = SETTING_PAGE /\ page'.changeValue = YES /\ edit'.alone
    BY <1>1, <1>5 DEF EditingAlone
  <2>2. CASE ~Draws
    <3>1. nowPagePre = NowPage /\ UNCHANGED <<page, edit>>
      BY <2>2, IdlePass
    <3> QED
      BY <1>1, <2>1, <3>1 DEF EditInv, EditIsHeld, EditingAlone
  <2>3. CASE Draws /\ Sel.changeValue = NO
    <3>1. /\ page'.cusor = Sel.cusor /\ page'.up = NO /\ page'.down = NO
          /\ edit' = [at |-> Sel.cusor, alone |-> btn.pc = "scan",
                      asked |-> FALSE]
      BY <2>1, <2>3, SettingPass
    <3>2. edit'.at = Sel.cusor /\ btn.pc = "scan"
      BY <2>1, <3>1
    <3> QED
      BY <1>1, <1>2, <3>1, <3>2
  <2>4. CASE Draws /\ Sel.changeValue = YES
    <3>1. /\ page'.cusor = Sel.cusor /\ page'.up = NO /\ page'.down = NO
          /\ edit' = edit
      BY <2>1, <2>4, SettingPass
    <3>2. page.changeValue = YES
      BY <2>4, SelFields
    <3>3. nowPagePre = SETTING_PAGE
      BY <1>2, <2>1, <3>2 DEF EditInv, EditIsOver
    <3>4. Sel = page
      BY <2>1, <3>3, SelFields
    <3> QED
      BY <1>1, <1>2, <2>1, <3>1, <3>2, <3>3, <3>4
         DEF EditInv, EditIsHeld, EditingAlone
  <2>5. Sel.changeValue \in {NO, YES}
    BY SelFields DEF PageType
  <2> QED
    BY <2>2, <2>3, <2>4, <2>5
<1> QED
  BY <1>3, <1>4, <1>5, Zenon DEF EditInv, EditIsHeld

\* A callback that begins in the edit mode does not move the cursor.
LEMMA EditCallback ==
    ASSUME UiInv, EditInv, Callback \/ AnyPress \/ Tick
    PROVE  EditInv'
<1>1. BtnMoves /\ PageMoves /\ RestMoves
  BY ButtonMoves
<1>2. EditIsOver'
  <2>1. NowPage' = NowPage \/ NowPage' = HOME_PAGE
    BY <1>1 DEF RestMoves, NowPage, HOME_PAGE
  <2> QED
    BY <1>1, <2>1 DEF EditInv, EditIsOver, RestMoves, PageMoves, HOME_PAGE,
                      SETTING_PAGE
<1>3. BackIsBack'
  BY <1>1 DEF EditInv, BackIsBack, BtnMoves
<1>4. ASSUME EditingAlone'
      PROVE  /\ page'.cusor = edit'.at
             /\ page'.up = YES \/ page'.down = YES => edit'.asked
             /\ btn'.pc \notin {"compare", "store"}
             /\ btn'.pc \in {"wake", "reflash", "flag"} /\ btn'.key \in {"up", "down"} =>
                     edit'.asked
  <2>1. EditingAlone /\ page.changeValue = YES /\ NO # YES
    BY <1>1, <1>4 DEF EditingAlone, RestMoves, PageMoves, NO, YES
  <2>2. /\ page.cusor = edit.at
        /\ page.up = YES \/ page.down = YES => edit.asked
        /\ btn.pc \notin {"compare", "store"}
        /\ btn.pc \in {"wake", "reflash", "flag"} /\ btn.key \in {"up", "down"} =>
                edit.asked
    BY <2>1 DEF EditInv, EditIsHeld
  <2>3. page'.cusor = edit'.at
    BY <1>1, <2>2 DEF PageMoves, RestMoves
  <2>4. page'.up = YES \/ page'.down = YES => edit'.asked
    BY <1>1, <2>2 DEF PageMoves, RestMoves
  <2>5. btn'.pc \notin {"compare", "store"}
    BY <1>1, <2>1, <2>2 DEF BtnMoves, LoadTarget
  <2>6. btn'.pc \in {"wake", "reflash", "flag"} /\ btn'.key \in {"up", "down"} =>
             edit'.asked
    BY <1>1, <2>1, <2>2 DEF EditInv, BackIsBack, BtnMoves, RestMoves, LoadTarget
  <2> QED
    BY <2>3, <2>4, <2>5, <2>6
<1> QED
  BY <1>2, <1>3, <1>4, Zenon DEF EditInv, EditIsHeld

(***************************************************************************)
(* The panel leaves the edit mode before it leaves for the settings page   *)
(* anew, and in an edit mode that began between two callbacks the cursor   *)
(* stays where it was and every key noted was pressed in it.               *)
(***************************************************************************)
THEOREM EditInvariant == Spec => [](UiInv /\ EditInv)
<1>1. Init => EditInv
  BY DEF Init, EditInv, EditIsOver, BackIsBack, EditIsHeld, EditingAlone,
         NowPage, HOME_PAGE, SETTING_PAGE, NoKey
<1>2. UiInv /\ EditInv /\ [Next]_vars => EditInv'
  <2> SUFFICES ASSUME UiInv, EditInv, [Next]_vars PROVE EditInv'
    OBVIOUS
  <2>1. CASE OledThread
    BY <2>1, EditPass DEF OledThread
  <2>2. CASE Callback \/ AnyPress \/ Tick
    BY <2>2, EditCallback
  <2>3. CASE UNCHANGED vars
    BY <2>3 DEF vars, EditInv, EditIsOver, BackIsBack, EditIsHeld,
                EditingAlone, NowPage
  <2> QED
    BY <2>1, <2>2, <2>3 DEF Next
<1> QED
  BY <1>1, <1>2, UiInvariant, PTL DEF Spec

(***************************************************************************)
(* A value is changed only when it was meant: an edit mode that began      *)
(* between two callbacks changes the value it began at, and only after up  *)
(* or down was pressed in it (SettingPage, the callbacks of Pages.c).      *)
(***************************************************************************)
THEOREM EditsAreMeant == Spec => EditIsMeant
<1> DEFINE Meant == OledThread /\ edit'.alone =>
              \A c \in Watched : val'[c] # val[c] => c = edit'.at /\ edit'.asked
<1>1. UiInv /\ EditInv /\ [Next]_vars => [Meant]_vars
  <2> SUFFICES ASSUME UiInv, EditInv, NEW second \in BOOLEAN, OledPass(second),
                      edit'.alone, NEW c \in Watched, val'[c] # val[c]
               PROVE  c = edit'.at /\ edit'.asked
    BY DEF OledThread
  <2>1. NowPage \in {HOME_PAGE, SETTING_PAGE}
    BY PassFacts
  <2>2. Draws /\ NowPage = SETTING_PAGE
    BY <2>1, IdlePass, HomePass
  <2>3. /\ page'.changeValue = YES /\ Sel.changeValue = YES /\ edit' = edit
        /\ c = Sel.cusor /\ (Sel.up = YES \/ Sel.down = YES)
    BY <2>2, SettingPass
  <2>4. page.changeValue = YES /\ page.up = Sel.up /\ page.down = Sel.down
    BY <2>3, SelFields
  <2>5. nowPagePre = SETTING_PAGE
    BY <2>2, <2>4 DEF EditInv, EditIsOver, NO, YES
  <2>6. Sel = page
    BY <2>2, <2>5, SelFields
  <2> QED
    BY <2>3, <2>4, <2>5, <2>6 DEF EditInv, EditIsHeld, EditingAlone
<1> QED
  BY <1>1, EditInvariant, PTL DEF Spec, EditIsMeant

-----------------------------------------------------------------------------
(* The cursor stays on the page.                                           *)

\* Every position of the page has a line of the menu.
LEMMA PositionsHaveLines ==
    ASSUME NEW c \in 1..SettingMax
    PROVE  c \in 1..18 /\ LineOf(c) \in 1..12
<1>1. c \in 1..18
  BY UiAssumption DEF Positions
<1> QED
  BY <1>1 DEF LineOf

\* A pass that does not open a page leaves the cursor, drawing or not.
LEMMA PassCursor ==
    ASSUME UiInv, NEW second \in BOOLEAN, OledPass(second)
    PROVE  /\ page'.cusor = Sel.cusor /\ page'.cusor_home = Sel.cusor_home
           /\ page'.cusor_max = Sel.cusor_max
           /\ NowPage = HOME_PAGE /\ NowPage' = SETTING_PAGE => Sel.cusor = 1
           /\ \/ window' = window
              \/ NowPage = SETTING_PAGE /\ window' = Window(LineOf(Sel.cusor))
<1>1. /\ NowPage \in {HOME_PAGE, SETTING_PAGE}
      /\ NowPage = pageInfor /\ NowPage' = pageInfor'
  BY PassFacts
<1>2. HOME_PAGE # SETTING_PAGE
  BY DEF HOME_PAGE, SETTING_PAGE
<1>3. CASE ~Draws
  <2>1. NowPage = nowPagePre /\ UNCHANGED <<page, window>>
        /\ (pageInfor' = SETTING_PAGE => pageInfor = SETTING_PAGE)
    BY <1>3, IdlePass
  <2>2. Sel = page
    BY <2>1, SelFields
  <2> QED
    BY <1>1, <1>2, <2>1, <2>2
<1>4. CASE Draws /\ NowPage = HOME_PAGE
  BY <1>1, <1>4, HomePass
<1>5. CASE Draws /\ NowPage = SETTING_PAGE
  BY <1>2, <1>5, SettingPass
<1> QED
  BY <1>1, <1>3, <1>4, <1>5

\* A pass keeps the cursor on its page, and what a callback has loaded fits.
LEMMA CursorPass ==
    ASSUME UiInv, EditInv, CursorInv, NEW second \in BOOLEAN, OledPass(second)
    PROVE  CursorInv'
<1>0. /\ NowPage \in {HOME_PAGE, SETTING_PAGE} /\ nowPagePre' = NowPage
      /\ btn' = btn /\ HOME_PAGE # SETTING_PAGE /\ NowPage # 255
  BY PassFacts DEF HOME_PAGE, SETTING_PAGE
<1>1. /\ page'.cusor = Sel.cusor /\ page'.cusor_home = Sel.cusor_home
      /\ page'.cusor_max = Sel.cusor_max
      /\ NowPage = HOME_PAGE /\ NowPage' = SETTING_PAGE => Sel.cusor = 1
      /\ \/ window' = window
         \/ NowPage = SETTING_PAGE /\ window' = Window(LineOf(Sel.cusor))
  BY PassCursor
<1>2. /\ NowPage # nowPagePre =>
            /\ Sel.cusor = 1 /\ Sel.cusor_home = 1
            /\ Sel.cusor_max = IF NowPage = HOME_PAGE THEN 1 ELSE SettingMax
      /\ NowPage = nowPagePre => Sel = page
  BY SelFields
\* A pass may fall into a callback once, so none has when one does.
<1>3. btn.pc # "scan" => overtook = 0 /\ overtook' # 0
  <2>1. overtook \in 0..Overtakes
    BY Types DEF UiInv
  <2>2. /\ btn.pc # "scan" => overtook < Overtakes
        /\ overtook' = IF btn.pc = "scan" THEN 0 ELSE overtook + 1
    BY PassFacts
  <2> QED
    BY <2>1, <2>2, UiAssumption, SleepAssumption
\* When such a pass opens the settings page, the cursor does not move.
<1>4. NowPage = SETTING_PAGE /\ nowPagePre # SETTING_PAGE /\ overtook = 0 =>
          /\ nowPagePre = HOME_PAGE /\ page.cusor = 1
          /\ page.cusor_home = 1 /\ page.cusor_max = 1
  BY DEF EditInv, EditIsOver, CursorInv, CursorFits, LimitsAreSet
<1>5. LimitsAreSet'
  <2>1. CASE NowPage = nowPagePre
    BY <1>0, <1>1, <1>2, <2>1 DEF CursorInv, LimitsAreSet
  <2>2. CASE NowPage # nowPagePre
    BY <1>0, <1>1, <1>2, <2>2 DEF LimitsAreSet
  <2> QED
    BY <2>1, <2>2
<1>6. NowPage = SETTING_PAGE => Sel.cusor \in 1..SettingMax
  <2>1. 1 \in 1..SettingMax
    BY UiAssumption DEF Positions
  <2> QED
    BY <1>2, <2>1, Zenon DEF CursorInv, CursorFits
<1>7. CursorFits'
  BY <1>0, <1>1, <1>6, Zenon DEF CursorFits
<1>8. OperandsFit'
  <2>1. /\ btn'.pc # "scan" => nowPagePre' # 255
        /\ btn'.pc = "test" => btn'.cusor = NONE /\ btn'.limit = NONE
    BY <1>0 DEF CursorInv, OperandsFit
  <2>2. ASSUME btn.pc = "compare"
        PROVE  \/ btn'.cusor \in {NONE, page'.cusor} /\ btn'.limit \in {NONE, Limit'}
               \/ /\ overtook' # 0
                  /\ nowPagePre' = SETTING_PAGE =>
                       /\ page'.cusor = 1 /\ btn'.cusor \in {NONE, 1}
                       /\ btn'.limit \in {NONE, 1, Limit'}
    <3>1. overtook = 0 /\ overtook' # 0
      BY <1>3, <2>2
    <3>2. btn.cusor \in {NONE, page.cusor} /\ btn.limit \in {NONE, Limit}
      BY <2>2, <3>1 DEF CursorInv, OperandsFit
    <3>3. CASE NowPage = nowPagePre
      <4>1. page'.cusor = page.cusor /\ Limit' = Limit
        BY <1>0, <1>1, <1>2, <3>3 DEF Limit
      <4> QED
        BY <1>0, <3>2, <4>1
    <3>4. CASE NowPage = SETTING_PAGE /\ NowPage # nowPagePre
      <4>1. page.cusor = 1 /\ Limit = 1
        BY <1>4, <3>1, <3>4 DEF Limit
      <4>2. page'.cusor = 1
        BY <1>1, <1>2, <3>4
      <4> QED
        BY <1>0, <3>1, <3>2, <4>1, <4>2
    <3>5. CASE NowPage = HOME_PAGE
      BY <1>0, <3>1, <3>5
    <3> QED
      BY <1>0, <3>3, <3>4, <3>5
  <2> QED
    BY <1>0, <2>1, <2>2, Zenon DEF OperandsFit
<1>9. TargetFits'
  <2>1. ASSUME btn.pc = "store", NowPage = SETTING_PAGE
        PROVE  btn.cusor \in 1..SettingMax
    <3>1. CASE nowPagePre = SETTING_PAGE
      BY <2>1, <3>1 DEF CursorInv, TargetFits
    <3>2. CASE nowPagePre # SETTING_PAGE
      <4>1. overtook = 0 /\ nowPagePre = HOME_PAGE /\ page.cusor = 1
        BY <1>3, <1>4, <2>1, <3>2
      <4>2. btn.cusor = 1
        BY <2>1, <4>1 DEF CursorInv, TargetFits
      <4> QED
        BY <4>2, UiAssumption DEF Positions
    <3> QED
      BY <3>1, <3>2
  <2> QED
    BY <1>0, <1>3, <2>1 DEF TargetFits
<1>10. WindowIsReal'
  <2>1. CASE window' = window
    BY <2>1 DEF CursorInv, WindowIsReal
  <2>2. CASE NowPage = SETTING_PAGE /\ window' = Window(LineOf(Sel.cusor))
    <3>1. LineOf(Sel.cusor) \in 1..12
      BY <1>6, <2>2, PositionsHaveLines
    <3>2. window \in WindowType /\ WindowIsFive /\ window.min \in 1..8
      BY Types DEF UiInv, CursorInv, WindowIsReal
    <3>3. ASSUME NEW line \in 1..12
          PROVE  Window(line).min \in 1..8
      BY <3>2 DEF Window, WindowIsFive
    <3> QED
      BY <2>2, <3>1, <3>3 DEF WindowIsReal
  <2> QED
    BY <1>1, <2>1, <2>2
<1> QED
  BY <1>5, <1>7, <1>8, <1>9, <1>10 DEF CursorInv

\* The position that up or down goes to, on either page.
LEMMA TargetStays ==
    ASSUME UiInv, CursorInv, LoadTarget
    PROVE  TargetFits'
<1> DEFINE target ==
             CASE btn.key = "up" /\ btn.cusor > btn.limit ->
                        (page.cusor + 255) % 256
               [] btn.key = "up" /\ btn.cusor <= btn.limit -> page.cusor_max
               [] btn.key = "down" /\ btn.limit = 0 -> btn.cusor
               [] btn.key = "down" /\ btn.limit # 0 /\ btn.cusor < btn.limit ->
                        (page.cusor + 1) % 256
               [] OTHER -> page.cusor_home
<1>1. /\ btn.pc = "compare" /\ btn.cusor # NONE /\ btn.limit # NONE
      /\ btn' = [btn EXCEPT !.pc = "store", !.cusor = target, !.limit = NONE]
      /\ page' = page /\ nowPagePre' = nowPagePre /\ overtook' = overtook
  BY DEF LoadTarget, screen
<1>2. /\ btn.cusor \in Int /\ btn.limit \in Int /\ page.cusor \in Int
      /\ btn \in BtnType
  BY <1>1, Types DEF UiInv, BtnType, PageType, Bytes
<1>3. SettingMax \in Int /\ 1 <= SettingMax /\ SettingMax <= 18
  BY UiAssumption DEF Positions
<1>4. ASSUME NEW c \in Int, 1 <= c, c <= 18
      PROVE  (c + 1) % 256 = c + 1 /\ (c + 255) % 256 = c - 1
  BY <1>4, SMT
<1>5. \/ btn.cusor = page.cusor /\ btn.limit = Limit
      \/ /\ overtook # 0
         /\ nowPagePre = SETTING_PAGE =>
              /\ page.cusor = 1 /\ btn.cusor = 1 /\ btn.limit \in {1, Limit}
  BY <1>1, Zenon DEF CursorInv, OperandsFit
<1>6. ASSUME nowPagePre = SETTING_PAGE
      PROVE  target \in 1..SettingMax
  <2>1. /\ page.cusor_home = 1 /\ page.cusor_max = SettingMax
        /\ page.cusor \in 1..SettingMax
    BY <1>6 DEF CursorInv, LimitsAreSet, CursorFits
  <2>2. /\ btn.cusor = page.cusor
        /\ btn.limit = Limit \/ (page.cusor = 1 /\ btn.limit = 1)
    BY <1>5, <1>6
  <2>3. CASE btn.key = "up"
    <3>1. btn.limit = 1
      BY <2>1, <2>2, <2>3 DEF Limit
    <3>2. CASE btn.cusor > 1
      <4>1. target = (page.cusor + 255) % 256
        BY <1>2, <2>3, <3>1, <3>2
      <4>2. target = page.cusor - 1
        BY <1>3, <1>4, <2>1, <4>1
      <4> QED
        BY <1>3, <2>1, <2>2, <3>2, <4>2
    <3>3. CASE btn.cusor <= 1
      <4>1. target = page.cusor_max
        BY <1>2, <2>3, <3>1, <3>3
      <4> QED
        BY <1>3, <2>1, <4>1
    <3> QED
      BY <1>2, <3>2, <3>3
  <2>4. CASE btn.key # "up"
    <3>1. btn.limit = SettingMax \/ (page.cusor = 1 /\ btn.limit = 1)
      BY <2>1, <2>2, <2>4 DEF Limit
    <3>2. btn.limit # 0
      BY <1>3, <3>1
    <3>3. CASE btn.key = "down" /\ btn.cusor < btn.limit
      <4>1. target = (page.cusor + 1) % 256
        BY <1>2, <2>4, <3>2, <3>3
      <4>2. target = page.cusor + 1 /\ page.cusor < SettingMax
        BY <1>2, <1>3, <1>4, <2>1, <2>2, <3>1, <3>3, <4>1
      <4> QED
        BY <1>3, <2>1, <4>2
    <3>4. CASE ~(btn.key = "down" /\ btn.cusor < btn.limit)
      <4>1. target = page.cusor_home
        BY <2>4, <3>2, <3>4
      <4> QED
        BY <1>3, <2>1, <4>1
    <3> QED
      BY <3>3, <3>4
  <2> QED
    BY <2>3, <2>4
<1>7. ASSUME nowPagePre = HOME_PAGE, page.cusor = 1, overtook = 0
      PROVE  target = 1
  <2>1. /\ page.cusor_home = 1 /\ page.cusor_max = 1 /\ btn.cusor = 1
        /\ btn.limit = 1
    BY <1>5, <1>7 DEF CursorInv, LimitsAreSet, Limit
  <2> QED
    BY <2>1
<1> HIDE DEF target
<1>8. btn'.cusor = target
  BY <1>1, <1>2 DEF BtnType
<1> QED
  BY <1>1, <1>6, <1>7, <1>8 DEF TargetFits

\* A callback keeps it there.
LEMMA CursorCallback ==
    ASSUME UiInv, CursorInv, Callback \/ AnyPress \/ Tick
    PROVE  CursorInv'
<1>1. BtnMoves /\ PageMoves /\ RestMoves
  BY ButtonMoves
<1>2. LimitsAreSet' /\ WindowIsReal'
  BY <1>1 DEF CursorInv, LimitsAreSet, WindowIsReal, PageMoves, RestMoves
<1>3. CursorFits'
  <2>1. NowPage' = SETTING_PAGE => NowPage = SETTING_PAGE
    BY <1>1 DEF RestMoves, NowPage, HOME_PAGE, SETTING_PAGE
  <2> QED
    BY <1>1, <2>1, Zenon
       DEF CursorInv, CursorFits, TargetFits, PageMoves, RestMoves
<1>4. OperandsFit'
  <2>1. nowPagePre' = nowPagePre /\ overtook' = overtook
    BY <1>1 DEF RestMoves
  <2>2. CASE btn' = btn /\ page' = page
    BY <2>1, <2>2 DEF CursorInv, OperandsFit, Limit
  <2>3. CASE btn'.pc # "compare" /\ ~(btn' = btn /\ page' = page)
    BY <1>1, <2>1, <2>3 DEF BtnMoves, CursorInv, OperandsFit, LoadTarget
  <2>4. CASE btn'.pc = "compare" /\ ~(btn' = btn /\ page' = page)
    <3>1. /\ page'.cusor = page.cusor /\ btn'.key = btn.key /\ Limit' = Limit
          /\ btn.pc \in {"test", "compare"}
      BY <1>1, <2>4 DEF BtnMoves, PageMoves, Limit
    <3>2. CASE btn.pc = "test"
      <4>1. btn'.cusor = NONE /\ btn'.limit = NONE
        BY <1>1, <2>4, <3>2 DEF BtnMoves, CursorInv, OperandsFit
      <4> QED
        BY <2>1, <2>4, <3>1, <3>2, <4>1 DEF CursorInv, OperandsFit
    <3>3. CASE btn.pc = "compare"
      <4>1. \/ btn'.cusor = page.cusor /\ btn'.limit = btn.limit
            \/ btn'.cusor = btn.cusor /\ btn'.limit = Limit
        BY <1>1, <2>4, <3>3 DEF BtnMoves
      <4> QED
        BY <2>1, <2>4, <3>1, <3>3, <4>1 DEF CursorInv, OperandsFit
    <3> QED
      BY <3>1, <3>2, <3>3
  <2> QED
    BY <2>2, <2>3, <2>4
<1>5. TargetFits'
  <2>1. CASE btn' = btn /\ page' = page
    BY <1>1, <2>1 DEF CursorInv, TargetFits, RestMoves
  <2>2. CASE LoadTarget
    BY <2>2, TargetStays
  <2>3. CASE ~(btn' = btn /\ page' = page) /\ ~LoadTarget
    <3>1. btn'.pc # "store"
      BY <1>1, <2>3, Zenon DEF BtnMoves
    <3> QED
      BY <3>1 DEF TargetFits
  <2> QED
    BY <2>1, <2>2, <2>3
<1> QED
  BY <1>2, <1>3, <1>4, <1>5 DEF CursorInv

(***************************************************************************)
(* The cursor on its page and the lines in the window, although a pass that*)
(* changes the page may fall between any two accesses of a callback.       *)
(***************************************************************************)
THEOREM CursorInvariant == Spec => [](UiInv /\ EditInv /\ CursorInv)
<1>1. Init => CursorInv
  BY DEF Init, CursorInv, LimitsAreSet, CursorFits, OperandsFit, TargetFits,
         WindowIsReal, NowPage, HOME_PAGE, SETTING_PAGE, NoKey
<1>2. UiInv /\ EditInv /\ CursorInv /\ [Next]_vars => CursorInv'
  <2> SUFFICES ASSUME UiInv, EditInv, CursorInv, [Next]_vars PROVE CursorInv'
    OBVIOUS
  <2>1. CASE OledThread
    BY <2>1, CursorPass DEF OledThread
  <2>2. CASE Callback \/ AnyPress \/ Tick
    BY <2>2, CursorCallback
  <2>3. CASE UNCHANGED vars
    BY <2>3 DEF vars, CursorInv, LimitsAreSet, CursorFits, OperandsFit,
                TargetFits, WindowIsReal, NowPage, Limit
  <2> QED
    BY <2>1, <2>2, <2>3 DEF Next
<1> QED
  BY <1>1, <1>2, EditInvariant, PTL DEF Spec

(***************************************************************************)
(* What the settings page draws exists: its window shows lines of the menu *)
(* and its cursor is on a position, whichever callback was overtaken by a  *)
(* change of page (SettingPage, pageSetting, UpBtnCallBack).               *)
(***************************************************************************)
THEOREM RealLinesAreDrawn == Spec => []DrawsRealLines
<1>1. UiInv /\ CursorInv => DrawsRealLines
  <2> SUFFICES ASSUME UiInv, CursorInv PROVE DrawsRealLines
    OBVIOUS
  <2>1. /\ window.min \in Lines /\ window.max \in Lines
        /\ window.max = window.min + 4
    BY DEF UiInv, CursorInv, WindowIsReal, WindowIsFive, Lines
  <2>2. nowPagePre = SETTING_PAGE =>
            page.cusor \in 1..SettingMax /\ LineOf(page.cusor) \in Lines
    BY PositionsHaveLines DEF CursorInv, CursorFits, Lines
  <2> QED
    BY <2>1, <2>2 DEF DrawsRealLines
<1> QED
  BY <1>1, CursorInvariant, PTL
=============================================================================
