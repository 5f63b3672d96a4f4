SPECIFICATION FairSpec
CONSTANTS
    StageTime = 0
    StageDelta = 10
    TIMEOUT = 1
    ModeRegs = {256, 259}
    DeadBandRegs = {306}
    SetPointRegs = {65516}
    TempFromRegs = {2}
    DayTimeRegs = {2048}
    TempRegs = {310}
    CtrlRegs = {32770}
    PanelItems = {"Module", "TempFrom"}
    PanelSetPoints = {250}
    PanelDeadBands = {50}
    PanelDayTimes = {2048}
    NtcValues <- NtcReadings
    Clocks = {43200}
INVARIANTS TypeOK IdleMeansReleased OutputFollowsDemand SecondStageIsEarned NeverDrivesAway SensorTellsCurve
PROPERTY HotRoomIsCooled
