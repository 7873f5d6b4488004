CONSTANTS
    Ids = {1, 2, 3, 4}
    Times = {1, 2, 3}
    ADDRMAN_TRIED_ENTRIES_INSPECT_ON_EVICT = 3
SPECIFICATION Spec
INVARIANTS
    BucketKept
    
