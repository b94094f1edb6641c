SPECIFICATION ConfigSpec
CONSTANTS
    Files <- AllFiles
    Hosts = {"", "makit.local", "::1"}
    Ipv6 = {"::1"}
    Leads = {"plain", "0", "+"}
    Dummy = FALSE
    Unset = Unset
    Rejected = Rejected
CONSTRAINT EditsFirst
INVARIANTS
    LoadedIsAcceptedUnlessIpv6
    OnePanel
    ExportsGetPorts
