SPECIFICATION Spec
CONSTANTS
    MaxHold = 3279
    MinRelease = 2
INVARIANTS ReportsMatchHold FirstReportIsLate
