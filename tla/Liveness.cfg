SPECIFICATION FairSpec
CONSTANTS
    f1 = f1
    f2 = f2
    f3 = f3
    w1 = w1
    w2 = w2
    None = None
    Functions = {f1}
    Workers = {w1, w2}
    MetaKeys = {"tenant"}
    MetaValues = {"v"}
    ClockSkew = 1
    LevelConfig <- DefaultLevelConfig
    LogValues = {0, 1}
    Type <- LivenessTypes
    OnUpdate = {}
    Messages <- LivenessMessages
    MaxTime = 1
    MaxDeliveries = 3
    MaxFaults = 1
    MaxRestarts = 0
CHECK_DEADLOCK FALSE
PROPERTIES
    EveryMessageReturns
    ChangeIsAnnounced
