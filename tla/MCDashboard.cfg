SPECIFICATION FairSpec
CONSTANTS
    MaxVersion = 4
    MaxWriters = 2
    MaxWire = 2
    MaxFetches = 2
    MaxLoads = 2
    MaxRestarts = 2
INVARIANTS
    NoMissedUpdate
    LabelTruthful
    BadgeNotOlder
PROPERTY
    PageSettles
CHECK_DEADLOCK FALSE
