SPECIFICATION ConfigSpec
CONSTANTS
    Files <- MakitFiles
    Hosts = {"", "makit.local", "::1"}
    Ipv6 = {"::1"}
    Leads = {"plain", "0", "+"}
    Dummy = FALSE
    Unset = Unset
    Rejected = Rejected
INVARIANTS
    LoadedIsAccepted
