\* One Go slave, one Python slave; one crash.
CONSTANTS
    Nodes = {"Master", "Slave1", "Slave2"}
    Master = "Master"
    PythonSlaves = {"Slave2"}
    Order <- MCOrder
    URL <- MCURL
    Localhost = Localhost
    OtherName = OtherName
    Octets = 128
    Nobody = Nobody
    MaxCrashes = 1
SPECIFICATION FairSpec
PROPERTY EveryCallEnds
\* A write that was answered is over.
CHECK_DEADLOCK FALSE
