SPECIFICATION Spec
CONSTANTS
    Users = {ann}
    Guests = {bob}
    Leads = {ann}
    Designer = ann
    MaxBookings = 2
    MaxTime = 2
    MaxRare = 2
    Lengths = {2}
    MaxLength = 2
    Limit = 1
    None = None
CHECK_DEADLOCK FALSE
INVARIANTS
    TypeOK
    PodsNotShared
    LimitKept
    
    StatisticsTrue
