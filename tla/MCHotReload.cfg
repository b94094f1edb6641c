SPECIFICATION FairSpec
CONSTANTS
    Invalid = {}
    Refused = {1}
    MaxEdits = 2
    MaxHups = 1
INVARIANTS
    NoLostEdit
    StoreFollowsFileUnlessOverlapped
PROPERTIES
    OnlyOverlapStepsBack
    EditIsRead
    WatcherEnds
CHECK_DEADLOCK FALSE
