CONSTANTS
    c1 = c1
    c2 = c2
    a = a
    b = b
    bad = bad
    Unreadable = Unreadable
    Callers <- MCCallers
    Names <- MCNames
    Checked <- MCChecked
    Requests <- MCRequests
    FoundRows <- MCFoundRows
    MaxChanges = 2
SPECIFICATION FairSpec
INVARIANTS
    TypeOK
    AuditAllOrError
PROPERTIES
    ImplementsFlagStore
    EveryCallEnds
