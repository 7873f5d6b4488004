CONSTANTS
    c = c
    p = p
    q = q
    r = r
    x = x
    y = y
    k = k
    z = z
    Null = Null
    Txs <- TxsDef
    Tx <- TxDef
    Mined <- MinedDef
    MAX_ORPHAN_TRANSACTIONS = 2
SPECIFICATION Spec
INVARIANTS
    PoolIndexExact
    PoolClosed
    OrphanIndexExact
    
