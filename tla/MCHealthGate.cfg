CONSTANTS
    MaxStreak = 3
    MaxWindows = 3
    Releases <- MCReleases
    Limits <- MCLimits
    Windows <- MCWindows
SPECIFICATION Spec
INVARIANTS
    TypeOK
    CountNeverOverflows
PROPERTIES
    RollbackExactlyAtLimit
    RestartIsTransparent
    LatencyBreachIsTail
