\* Nothing fails: the delete goes to a slave.
CONSTANTS
    Nodes = {"Master", "Slave1", "Slave2", "Slave3"}
    Master = "Master"
    PythonSlaves = {"Slave2"}
    Order <- MCOrder
    URL <- MCURL
    Localhost = Localhost
    OtherName = OtherName
    Octets = 128
    Nobody = Nobody
    MaxCrashes = 0
SPECIFICATION Spec
INVARIANT DeleteIsForwarded
CHECK_DEADLOCK FALSE
