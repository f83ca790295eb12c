SPECIFICATION Spec
CONSTANTS
    Hosts = {h1, h2}
    Ports = {"eth0", "eth1"}
    Bookings = {"b1", "b2"}
    Pollers = {p1, p2}
    Vlans = {1, 2}
    PublicVlans = {101}
    Networks = {"public", "red", "blue"}
    Public = {"public"}
    Template <- PlainTemplate
    None = None
CHECK_DEADLOCK FALSE
SYMMETRY Symmetry
INVARIANTS
    TypeOK
    LivePodsKeepNetworks
    NetworksApart
    CleanedPodsUnwired
    VlansAccountedFor
