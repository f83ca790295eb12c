SPECIFICATION FairSpec
CONSTANTS
    Hosts = {"h1"}
    Users = {"u1"}
    Software = {}
    Snapshots = {"s1"}
    Pollers = {p1}
    LabPosts = {"DONE"}
    MaxReimages = 0
    MaxMessages = 0
    MaxCrashes = 0
    None = None
CHECK_DEADLOCK FALSE
INVARIANTS
    NoticeMeansOrdered
PROPERTIES
    ReadyMailComes
