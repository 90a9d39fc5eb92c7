SPECIFICATION Spec
CONSTANTS
    f1 = f1
    f2 = f2
    f3 = f3
    w1 = w1
    w2 = w2
    None = None
    Functions = {f1, f2}
    Workers = {w1, w2}
    MetaKeys = {"tenant"}
    MetaValues = {"v"}
    ClockSkew = 1
    LevelConfig <- RecoveryLevelConfig
    LogValues = {0, 1}
    Type <- RecoveryTypes
    OnUpdate = {}
    Messages <- RecoveryMessages
    MaxTime = 2
    MaxDeliveries = 4
    MaxFaults = 1
    MaxRestarts = 1
CHECK_DEADLOCK FALSE
INVARIANTS
    Recoverable
    SubscriberInSync
    PersistBeforePublish
