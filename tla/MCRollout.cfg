CONSTANTS
    u1 = u1
    u2 = u2
    u3 = u3
    nosalt = nosalt
    c1 = c1
    c2 = c2
    Subjects <- MCSubjects
    Salts <- MCSalts
    EmptySalt = nosalt
    UnsaltedBucket <- MCUnsaltedBucket
    SaltedBucket <- MCSaltedBucket
    Requests <- MCRequests
    Orgs <- MCOrgs
    NoOrg = NoOrg
    OrgBucket <- MCOrgBucket
SPECIFICATION Spec
INVARIANTS
    TypeOK
    MarkIsHighestGrant
    NextPromotionRestoresSubjects
    UncycledDecidesLikeFlag
PROPERTIES
    PromotionKeepsSubjects
    NoClimbBelowMark
