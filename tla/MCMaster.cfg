\* Two administrators, two pending requests, direct writes in between.
CONSTANTS
    NationalIDs = {nidA, nidB}
    Details = {d1}
    NoClient = NoClient
    NoRequest = NoRequest
    MaxID = 2
    MaxRequests = 2
    MaxWrites = 4
    Calls = {admin1, admin2}
SPECIFICATION MasterSpec
SYMMETRY Symmetry
INVARIANTS
    MasterTypeOK
    NationalIDUnique
    JournalMatchesRepository
    OneLifePerID
    ApprovedWasApplied
    AppliedIsDecided
    AppliedOncePerCall
PROPERTY
    RequestsAreStable
\* Users and administrators may stop; the bounds stop the model as well.
CHECK_DEADLOCK FALSE
