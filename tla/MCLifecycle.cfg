SPECIFICATION FairSpec
CONSTANTS
    Clients = {"page", "curl"}
    Exports = 3
    MainTimeout = 10
    PromTimeout = 5
INVARIANTS
    ExporterEndsFirst
PROPERTIES
    MainEnds
CHECK_DEADLOCK FALSE
