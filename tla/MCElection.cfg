\* Four nodes at any of five hosts: on one machine, at equal distance on both
\* sides of the master, under a name that is not an address, or at its URL.
CONSTANTS
    Nodes = {"Master", "Slave1", "Slave2", "Slave3"}
    MainMaster = "Master"
    Order <- MCOrder
    Placements <- MCPlacements
    Localhost = Localhost
    OtherName = OtherName
    Octets = 128
    Nobody = Nobody
SPECIFICATION Spec
INVARIANTS
    ElectsSortedFirst
    SameUnlessUnseen
    DashboardAgrees
