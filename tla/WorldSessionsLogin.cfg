SPECIFICATION FairSpec
CONSTANTS
    Accounts = {a1}
    a1 = a1
    Chars = {c1, c2}
    OwnerOf <- MCOwnerOf
    SessionIds = {s1, s2, s3}
    Exempt = {}
    Limits = {0}
    Tolerance = FALSE
    LoginAfterDC = TRUE
    MayReject = FALSE
    None = None
INVARIANTS OneCharacterPerAccount OneOwner ShutdownComplete
PROPERTIES ConnectionLossHandled OfflineEnds
