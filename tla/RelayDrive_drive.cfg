SPECIFICATION DFairSpec
CONSTANTS
    StageTime = 0
    StageDelta = 10
    TIMEOUT = 0
    ModeRegs = {0}
    DeadBandRegs = {}
    SetPointRegs = {}
    TempFromRegs = {}
    DayTimeRegs = {}
    TempRegs = {310}
    CtrlRegs = {32813, 34079}
    PanelItems = {"Mode"}
    PanelSetPoints = {}
    PanelDeadBands = {}
    PanelDayTimes = {}
    NtcValues <- NtcNone
    Clocks = {36000}
INVARIANTS CallIsOneRow EarnedBetweenCalls
PROPERTIES NoChatter OutputSettles
