SPECIFICATION Spec
CONSTANTS
    Names = {"a"}
    Hosts = {"h1", "h2"}
    NoSample = NoSample
    None = None
    MaxTime = 2
    MaxBoots = 2
    MaxReloads = 1
INVARIANTS
    UsageIsExact
