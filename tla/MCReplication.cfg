\* One Go slave and one Python slave; all writes come directly to the master.
CONSTANTS
    NationalIDs = {nidA, nidB}
    Details = {d1, d2}
    NoClient = NoClient
    NoRequest = NoRequest
    MaxID = 2
    MaxRequests = 0
    MaxWrites = 3
    Calls = {}
    Slaves = {slave1, slave2}
    PythonSlaves = {slave2}
SPECIFICATION FairSpec
INVARIANTS
    TypeOK
    NoMissingRow
    RowsCameFromMaster
    CounterCatchesUp
    SerialWritesConverge
PROPERTY
    RowsArrive
\* Users may stop; the bounds stop the model as well.
CHECK_DEADLOCK FALSE
