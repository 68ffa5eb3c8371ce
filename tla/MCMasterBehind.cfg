\* One slave of each language; one write.
CONSTANTS
    NationalIDs = {nidA, nidB}
    Details = {good, bad}
    BadEmails = {bad}
    NoClient = NoClient
    MaxID = 2
    Master = Master
    GoSlaves = {slave1}
    PythonSlaves = {slave2}
    MaxWrites = 1
    MaxRestarts = 0
SPECIFICATION Spec
INVARIANT MasterHasTheWrites
CHECK_DEADLOCK FALSE
