SPECIFICATION CSpec
CONSTANTS
    Times <- TwoTimes
    DAY = 2
    MinDay = 32000
    PanelDays = {40000}
    PanelSeconds = {1}
    MaxTicks = 1
    MaxFrames = 2
    MaxKeys = 1
INVARIANTS ClockTypeOK ClockIsSent
