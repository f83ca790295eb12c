SPECIFICATION FairSpec
CONSTANTS
    Bookings = {"b1", "b2"}
    Hosts = {"h1"}
    Names = {"frodo"}
    Schedule <- OneMachine
    Windows <- MCWindows
    MaxTime = 2
    MaxFlows = 4
    MaxAccidents = 1
    None = None
CHECK_DEADLOCK FALSE
INVARIANTS
    TypeOK
    ListedHaveRecords
    
    OneFlowEach
    CleanedMachinesBlank
PROPERTIES
    
    InstalledMachineKept
