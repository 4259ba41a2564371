CONSTANTS
    None = None
    ExtraDays = 1
    Policies <- MCPolicies
    Percentages <- MCPercentages
SPECIFICATION FairSpec
INVARIANTS
    TypeOK
    UntrackedGetsItsLife
PROPERTIES
    WarnedBeforeStale
    OnlyUseRejuvenates
    AbandonedFlagIsReported
