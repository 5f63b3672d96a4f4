SPECIFICATION FairSpec
CONSTANTS
    TouchTime = 1
    Overtakes = 1
    BackLightTime = 0
    SettingMax = 6
    Watched = {3}
INVARIANTS DrawsRealLines StackIsShallow KeysAreServed
PROPERTIES EditIsMeant IdleReturnsHome
