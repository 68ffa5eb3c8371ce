\* One slave of each language, as in MCCluster.cfg.
CONSTANTS
    NationalIDs = {nidA, nidB}
    Details = {good, bad}
    BadEmails = {bad}
    NoClient = NoClient
    MaxID = 2
    Master = Master
    GoSlaves = {slave1}
    PythonSlaves = {slave2}
    MaxWrites = 3
    MaxRestarts = 1
SPECIFICATION OneMasterSpec
PROPERTY
    KeepsReplication
\* Users may stop; the bounds stop the model as well.
CHECK_DEADLOCK FALSE
