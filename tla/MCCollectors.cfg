SPECIFICATION Spec
CONSTANTS
    NaN = NaN
    Inf = Inf
    NegInf = NegInf
    None = None
    Gpus = {"gpu0", "gpu1"}
    Idle = {"idle"}
    Busy = {"busy"}
    Bodies <- AllBodies
    Nodes <- AllNodes
    Peer <- APeer
    Lists <- SomeLists
CONSTRAINT CountersLead
INVARIANTS
    MatchesReadme
    NothingInvented
    PagesAgree
PROPERTY PercentUnlessNaN
