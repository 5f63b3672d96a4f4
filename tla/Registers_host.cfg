SPECIFICATION FairSpec
CONSTANTS
    Values = {33037}
    Writes <- WrittenBlocks
    Reads <- ReadBlocks
    Edits = {4, 15}
    MaxPresses = 1
    LocateTime = 0
    NormalPasses = 0
    FastPasses = 0
    MaxRestarts = 1
INVARIANTS TypeOK ReadTellsWritten
PROPERTIES LocateIsHonoured BlinkingEnds
