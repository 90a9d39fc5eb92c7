SPECIFICATION Spec
CONSTANTS
    f1 = f1
    f2 = f2
    f3 = f3
    w1 = w1
    w2 = w2
    None = None
    Functions = {f1, f2, f3}
    Workers = {w1}
    MetaKeys = {"tenant"}
    MetaValues = {"v"}
    ClockSkew = 1
    LevelConfig <- DefaultLevelConfig
    LogValues = {0, 1}
    Type <- MeasurementsTypes
    OnUpdate = {}
    Messages <- MeasurementsMessages
    MaxTime = 2
    MaxDeliveries = 4
    MaxFaults = 1
    MaxRestarts = 0
CHECK_DEADLOCK FALSE
INVARIANTS
    SubscriberInSync
    PersistBeforePublish
    TemperatureLog
    DriftBounded
