\* One slave, one client, and the three writes of its life.
CONSTANTS
    NationalIDs = {nidA, nidB}
    Details = {d1}
    NoClient = NoClient
    NoRequest = NoRequest
    MaxID = 2
    MaxRequests = 0
    MaxWrites = 3
    Calls = {}
    Slaves = {slave1}
    PythonSlaves = {}
SPECIFICATION Spec
INVARIANT CopiedToAllSlaves
CHECK_DEADLOCK FALSE
