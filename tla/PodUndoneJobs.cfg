SPECIFICATION Spec
CONSTANTS
    Hosts = {h1, h2}
    Bookings = {b1, b2}
    Pollers = {p1}
    Freers = {f1}
    PodSizes = {1, 2}
    LabOutcomes = {"DONE"}
    WebOps = {}
    MaxCrashes = 0
    None = None
    Clean = Clean
CHECK_DEADLOCK FALSE
SYMMETRY Symmetry
INVARIANTS
    UndoneJobsExcluded
