SPECIFICATION FairSpec
CONSTANTS
    Setting = {"daySetPoint", "moduleMode"}
    Status = {"registerState", "CoolOrHeat"}
    Value = {0, 1}
    Default <- Defaults
    SIZE = 25
    Offset <- Fields4
    Crc <- Toy
INVARIANTS TypeOK AcceptedIsOneSave NothingToSaveMeansSaved
PROPERTIES SettledIsSaved IsStore
