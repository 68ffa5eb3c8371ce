\* Slave1 and Slave3 in Go, Slave2 in Python; one crash.
CONSTANTS
    Nodes = {"Master", "Slave1", "Slave2", "Slave3"}
    Master = "Master"
    PythonSlaves = {"Slave2"}
    Order <- MCOrder
    URL <- MCURL
    Localhost = Localhost
    OtherName = OtherName
    Octets = 128
    Nobody = Nobody
    MaxCrashes = 1
SPECIFICATION Spec
INVARIANTS
    FailoverTypeOK
    OneTemporaryMaster
    ForwardingDescends
    TemporaryMasterIsClosest
    AnswersAreTrue
    ApprovalFirst
PROPERTIES
    HandlersAdvance
    KeepsForwardedWrite
\* A write that was answered is over.
CHECK_DEADLOCK FALSE
