SPECIFICATION Spec
CONSTANTS
    StageTime = 1
    StageDelta = 10
    TIMEOUT = 1
    ModeRegs = {}
    DeadBandRegs = {}
    SetPointRegs = {}
    TempFromRegs = {}
    DayTimeRegs = {}
    TempRegs = {310}
    CtrlRegs = {}
    PanelItems = {}
    PanelSetPoints = {}
    PanelDeadBands = {}
    PanelDayTimes = {}
    NtcValues <- NtcNone
    Clocks = {36000}
PROPERTY LostLinkStopsOutput
