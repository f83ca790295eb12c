SPECIFICATION Spec
CONSTANTS
    Templates = {"a", "b"}
    HostNames <- Names
    StockTemplates = {"a"}
    Configs = {"ca", "c2"}
    StockConfigs <- Stock
    OpnfvConfigs = {"o1"}
    Users = {"u"}
    Machines <- TwoMachines
    MaxDepth = 4
    MaxBacks = 4
    None = None
INVARIANTS
    ConfirmationHonest
