SPECIFICATION Spec
CONSTANTS
    Invalid = {}
    Refused = {}
    MaxEdits = 2
    MaxHups = 1
INVARIANTS
    StoreFollowsFile
CHECK_DEADLOCK FALSE
