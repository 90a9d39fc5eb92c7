SPECIFICATION Spec
CONSTANTS
    f1 = f1
    f2 = f2
    f3 = f3
    w1 = w1
    w2 = w2
    None = None
    Functions = {f1}
    Workers = {w1, w2}
    MetaKeys = {"tenant"}
    MetaValues = {"v"}
    ClockSkew = 1
    LevelConfig <- DefaultLevelConfig
    LogValues = {0, 1}
    Type <- LivenessTypes
    OnUpdate = {}
    Messages <- FirstUpdateMessages
    MaxTime = 1
    MaxDeliveries = 3
    MaxFaults = 0
    MaxRestarts = 0
CHECK_DEADLOCK FALSE
INVARIANTS
    ForcedFirstUpdate
