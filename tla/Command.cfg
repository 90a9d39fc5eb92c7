SPECIFICATION FairCommandSpec
CONSTANTS
    f1 = f1
    f2 = f2
    w1 = w1
    h1 = h1
    h2 = h2
    None = None
    Functions = {f1, f2}
    Workers = {w1}
    Handlers = {h1, h2}
    MetaKeys = {"tenant"}
    MetaValues = {"v"}
    ClockSkew = 1
    LevelConfig <- CounterLevelConfig
    Type <- CounterTypes
    OnUpdate = {}
    Messages <- AcceptedMessages
    Commands <- CounterCommands
    DeviceMeta <- Places
    TTL = 2
    Timeout = 1
    MaxTime = 2
    MaxDeliveries = 2
    MaxCommands = 2
    MaxFaults = 1
    MaxRestarts = 1
CHECK_DEADLOCK FALSE
INVARIANTS
    CommandTypeOK
    
    CounterNoMore
    FreshCount
PROPERTIES
    EveryCommandReturns
