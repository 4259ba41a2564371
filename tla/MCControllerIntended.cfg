CONSTANTS
    u1 = u1
    u2 = u2
    u3 = u3
    nosalt = nosalt
    c1 = c1
    Subjects <- MCSubjects
    Salts <- MCSalts
    EmptySalt = nosalt
    UnsaltedBucket <- MCUnsaltedBucket
    SaltedBucket <- MCSaltedBucket
    MaxStreak = 7
    MaxCrashes = 2
    Windows <- MCWindows
    Releases <- AscendingReleases
    Starts <- IntendedStarts
SPECIFICATION FairSpec
INVARIANTS
    InStep
PROPERTIES
    ImplementsStagedRollout
    HealthyTrafficCompletes
    FailingTrafficStops
