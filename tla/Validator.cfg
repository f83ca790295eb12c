SPECIFICATION FairSpec
CONSTANTS
    Top = 12
    Installer = 3
    Ends = {3, 8, 10}
    Machines = {8, 9, 10}
    Foreign = {11}
    Hardware <- ThreeKinds
    MaxNodes = 3
    Passes = 2
    Attempts = 2
    MaxTrouble = 1
CHECK_DEADLOCK FALSE
INVARIANTS
    TypeOK
    PingedAsAsked
    
PROPERTIES
    ServerEnds
