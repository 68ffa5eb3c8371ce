\* One administrator: the table of requests implements WriteApproval.
CONSTANTS
    NationalIDs = {nidA, nidB}
    Details = {d1}
    NoClient = NoClient
    NoRequest = NoRequest
    MaxID = 2
    MaxRequests = 2
    MaxWrites = 4
    Calls = {admin1}
SPECIFICATION MasterSpec
SYMMETRY Symmetry
INVARIANTS
    RejectedNotApplied
    AppliedAtMostOnce
PROPERTY
    KeepsApproval
CHECK_DEADLOCK FALSE
