CONSTANTS
    ip1 = ip1
    ip2 = ip2
    ip3 = ip3
    Addrs <- AddrsDef
    TriedBuckets <- TriedBucketsDef
    NewBuckets <- NewBucketsDef
    GetTriedBucket <- GetTriedBucketDef
    GetNewBucket <- GetNewBucketDef
    ADDRMAN_TRIED_BUCKET_SIZE = 1
    ADDRMAN_NEW_BUCKET_SIZE = 1
    ADDRMAN_NEW_BUCKETS_PER_ADDRESS = 2
    ADDRMAN_GETADDR_MAX_PCT = 50
    ADDRMAN_GETADDR_MAX = 2
    MaxId = 3
SPECIFICATION Spec
INVARIANTS
    TypeOK
    CheckReturnsZero
PROPERTIES
    TriedNeverDeleted
    RoundTrip
