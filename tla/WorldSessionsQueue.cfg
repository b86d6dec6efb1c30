SPECIFICATION Spec
CONSTANTS
    Accounts = {a1, a2, a3}
    a1 = a1
    Chars = {}
    OwnerOf <- MCOwnerOf
    SessionIds = {s1, s2, s3}
    Exempt = {a1}
    Limits = {1, 2}
    Tolerance = TRUE
    LoginAfterDC = TRUE
    MayReject = TRUE
    None = None
SYMMETRY QueueSymmetry
INVARIANTS QueueConsistent
PROPERTY NoPlaceWasted
