\* Two administrators decide on one request at the same time.
CONSTANTS
    NationalIDs = {nidA}
    Details = {d1}
    NoClient = NoClient
    NoRequest = NoRequest
    MaxID = 1
    MaxRequests = 1
    MaxWrites = 2
    Calls = {admin1, admin2}
SPECIFICATION MasterSpec
INVARIANT RejectedNotApplied
CHECK_DEADLOCK FALSE
