CONSTANTS
    c1 = c1
    c2 = c2
    a = a
    b = b
    d = d
    u = u
    Clients <- MCClients
    Names <- MCNames
    Users <- MCUsers
    NameBucket <- MCNameBucket
    Orgs = {}
    NoOrg = NoOrg
    OrgBucket <- MCOrgBucket
    Shards = 2
    ShardOf <- MCShardOf
    NewFlags <- MCNewFlags
    MaxInstants = 3
SPECIFICATION Spec
SYMMETRY ClientSymmetry
INVARIANT BulkReadsSnapshot
