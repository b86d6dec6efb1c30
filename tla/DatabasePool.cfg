SPECIFICATION FairSpec
CONSTANTS
    Async = {w1}
    Sync = {d1}
    Singles = {s1}
    Transactions = {t1, t2}
    Size = 2
    MaxErrors = 2
    MaxLosses = 1
    None = None
INVARIANTS AllOrNothing IssueOrder NoOpenTransaction ConnectionAliveInUse
PROPERTIES OperationsEnd
