SPECIFICATION FairSpec
CONSTANTS
    Delay = 2
    MaxWriters = 2
    Badges = {"fleet", "gpu"}
    Exported <- TwoBadges
INVARIANTS
    NoMissedChange
    NoIgnoredFrame
PROPERTIES
    SettlesOnCurrent
    ExporterEnds
