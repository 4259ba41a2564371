CONSTANTS
    f1 = f1
    f2 = f2
    Subjects = {u1, u2}
    ExclusiveOr <- MCExclusiveOr
    Names <- MCNames
    Values = {number}
    Flags = {f1, f2}
    FlagSets <- MCFlagSets
    OtherTags <- MCOtherTags
    MaxHops = 2
    None = None
    Null = Null
    Unreadable = Unreadable
SPECIFICATION Spec
INVARIANTS
    TypeOK
    ContextArrivesWhole
    NoOtherSubject
    EntriesArriveWhole
    NotModifiedIsTrue
    NoNeedlessDownload
    OnlyMissingFlagFallsBack
