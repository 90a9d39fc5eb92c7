SPECIFICATION FairTimerSpec
CONSTANTS
    f1 = f1
    w1 = w1
    None = None
    Functions = {f1}
    Workers = {w1}
    MetaKeys = {"tenant"}
    MetaValues = {"v"}
    ClockSkew = 1
    LevelConfig <- TimerLevelConfig
    LogValues = {0}
    Type <- TimerTypes
    OnUpdate = {}
    Messages <- TimerMessages
    MaxTime = 3
    MaxDeliveries = 4
    MaxFaults = 1
    MaxRestarts = 1
CHECK_DEADLOCK FALSE
INVARIANTS
    TickerOK
    RoundsApart
    TotalIsSum
    StampHasRow
PROPERTIES
    ImplementsSerial
    RunningIsLogged
