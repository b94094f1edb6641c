SPECIFICATION FairSpec
CONSTANTS
    a = a
    b = b
    r1 = r1
    s1 = s1
    Names = {a}
    NoName = NoName
    Configs <- MoveConfigs
    InitConfig <- Alone
    Reloaders = {r1}
    Subscribers = {s1}
    Dummy = FALSE
    MaxReloads = 2
    MaxStamp = 2
CONSTRAINT FocusLive
PROPERTIES
    ReloadTakesEffect
    EveryNodeAppears
    RetiredWorkersEnd
    EveryChangeIsSeen
