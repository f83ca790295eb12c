SPECIFICATION Spec
CONSTANTS
    Hosts = {h1}
    Bookings = {b1, b2}
    Pollers = {p1, p2}
    Freers = {f1, f2}
    PodSizes = {1}
    LabOutcomes = {"DONE"}
    WebOps = {}
    MaxCrashes = 0
    None = None
    Clean = Clean
CHECK_DEADLOCK FALSE
SYMMETRY Symmetry
INVARIANTS
    ActiveBookingsUntouched
    SelectedJobsStaySettled
    
