SPECIFICATION Spec
CONSTANTS
    Hosts = {h1}
    Bookings = {b1, b2}
    Pollers = {p1}
    Freers = {f1}
    PodSizes = {1}
    LabOutcomes = {"DONE"}
    WebOps = {"delete", "reimage", "update"}
    MaxCrashes = 0
    None = None
    Clean = Clean
CHECK_DEADLOCK FALSE
SYMMETRY Symmetry
INVARIANTS
    TypeOK
    BundledHostsBooked
    ActiveBookingsKeepHosts
PROPERTIES
    LeaseSpec
