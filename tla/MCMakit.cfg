SPECIFICATION FairSpec
CONSTANTS
    Delay = 1
    MaxWriters = 1
    Badges = {"fleet", "gpu", "host"}
    NoLevel = NoLevel
    Exports <- ThreeExports
    Local = TRUE
    Retransmit = 2
    Deadline = 5
    MaxQueries = 5
    MaxInbox = 1
INVARIANTS
    NoMissedChange
    PanelConsistent
    NoLeakedConnection
    QueriesPaced
PROPERTIES
    BadgesTakeTurns
    LookupEnds
