SPECIFICATION FairSpec
CONSTANTS
    Hosts = {h1, h2}
    Bookings = {b1}
    Pollers = {p1}
    Freers = {f1}
    PodSizes = {1, 2}
    LabOutcomes = {"DONE"}
    WebOps = {}
    MaxCrashes = 1
    None = None
    Clean = Clean
CHECK_DEADLOCK FALSE
INVARIANTS
    BookedHostsAccountedFor
PROPERTIES
    EndedBookingsFreed
