SPECIFICATION Spec
CONSTANTS
  g = g
  a = a
  f = f
  b = b
  m = m
  q = q
  c = c
  n = n
  e = e
  d = d
  r = r
  w = w
  h = h
  u = u
  null = null
  Blocks <- MCBlocks
  Txs <- MCTxs
  Null = null
  Genesis = g
  Block <- MCBlock
  Tx <- MCTx
  Times <- MCTimes
  MAX_MONEY = 10
  TX_FEE = 1
  MIN_BLOCK_SPACING = 1
  nCoinbaseMaturity = 2
INVARIANTS
  SupplyWithinLimit
  SupplyMatchesUnspent
  DiskMemoryAgree
  
  SpendsJustified
  LoadFailsOnlyInGenesisWindow
PROPERTIES
  NeverJoinsLater
  SpentIsFinal
  ImplementsLedger
