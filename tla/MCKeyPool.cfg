SPECIFICATION Spec
CONSTANTS
    KeyPoolSize = 2
    MaxKey = 8
INVARIANTS
    KeysUsedOnce
    PoolExact
    PoolRenewed
CHECK_DEADLOCK FALSE
