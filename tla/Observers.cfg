SPECIFICATION ObserverSpec
CONSTANTS
    f1 = f1
    f2 = f2
    w1 = w1
    t1 = t1
    t2 = t2
    c1 = c1
    None = None
    Functions = {f1, f2}
    Workers = {w1}
    Transformers = {t1, t2}
    Clients = {c1}
    PeopleCounters = {f2}
    MetaKeys = {"tenant"}
    MetaValues = {"v"}
    ClockSkew = 1
    LevelConfig <- NoLevel
    Type <- ObservedTypes
    OnUpdate = {}
    Messages <- ObservedMessages
    MaxTime = 2
    MaxDeliveries = 3
    MaxTransforms = 2
    MaxQueries = 1
    MaxLastN = 2
    MaxFaults = 1
    MaxRestarts = 1
CHECK_DEADLOCK FALSE
INVARIANTS
    ObserverTypeOK
    TransformedInOrder
    ListedIsLogged
