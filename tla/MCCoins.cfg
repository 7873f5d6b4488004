SPECIFICATION Spec
CONSTANTS
    Tx <- MCTx
    vin <- MCvin
    vout <- MCvout
    CoinBases = {"reward"}
    Payments = {"pay", "next"}
    Block <- MCBlock
    Genesis = "genesis"
    None = "none"
    OwnKeys = {"own"}
    ImportKeys = {"imported"}
    nCoinbaseMaturity = 1
    BackupHeight = 1
INVARIANTS
    
    
    SpentHasSpender
    
CHECK_DEADLOCK TRUE
