SPECIFICATION Spec
CONSTANTS
    Hosts = {"h1"}
    Users = {}
    Software = {}
    Snapshots = {}
    Pollers = {p1, p2}
    LabPosts = {"DONE"}
    MaxReimages = 1
    MaxMessages = 1
    MaxCrashes = 1
    None = None
CHECK_DEADLOCK FALSE
SYMMETRY Symmetry
INVARIANTS
    TypeOK
    ReadyMailHonest
    DoneMeansCleaned
    OneNotice
