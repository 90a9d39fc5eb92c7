SPECIFICATION FairRegistrySpec
CONSTANTS
    a = a
    b = b
    A = A
    B = B
    Aa = Aa
    None = None
    Ids = {"id1", "id2"}
    Spellings = {A, Aa, B}
    Sensors = {a, b}
    ToLower <- LowerCase
    CutShort <- Beginnings
    Types = {"counter", "level"}
    Lines <- ConfigLines
    MaxLines = 3
    MaxScans = 2
    MaxFaults = 1
CHECK_DEADLOCK FALSE
INVARIANTS
    RegistryTypeOK
    StartedAsConfigured
    LoggedOrRefused
PROPERTIES
    RegistryLoads
