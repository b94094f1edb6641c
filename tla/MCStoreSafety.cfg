SPECIFICATION Spec
CONSTANTS
    a = a
    b = b
    r1 = r1
    s1 = s1
    Names = {a, b}
    NoName = NoName
    Configs <- GrowConfigs
    InitConfig <- Alone
    Reloaders = {r1}
    Subscribers = {s1}
    Dummy = TRUE
    MaxReloads = 2
    MaxStamp = 2
CONSTRAINT Focus
INVARIANTS
    SnapshotAligned
    StatsConsistent
    NoLostReload
    NoLostWakeup
    OneLiveWorkerPerNode
PROPERTIES
    ImplementsService
    NoRegressWithinGeneration
