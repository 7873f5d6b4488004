---------------------------- MODULE ChainProofs ----------------------------
(***************************************************************************)
(* Theorems about Chain for every universe of blocks and transactions.     *)
(* IInv is inductive; the properties of the index follow from it.  The     *)
(* second half is about the operators that Chain and Ledger are built      *)
(* from: sums, the value of a set of outputs and the transactions of a     *)
(* block applied in turn.  LedgerProofs needs them.                        *)
(***************************************************************************)
EXTENDS Chain, FiniteSetTheorems, WellFoundedInduction, TLAPS

(* A process that is not running holds nothing in memory. *)
StoppedIsEmpty ==
    pc \in {"down", "failed"} =>
        /\ mapBlockIndex = {}
        /\ pnext = [b \in Blocks |-> Null]
        /\ nMoneySupply = [b \in Blocks |-> 0]
        /\ hashBestChain = Null

(* Records on disk: parents are indexed before their children, and only the  *)
(* genesis block is indexed before there is a best chain.                    *)
DiskIndexClosed ==
    /\ dbIndex # {} => Genesis \in dbIndex
    /\ \A b \in dbIndex : b # Genesis =>
          Prev(b) \in dbIndex /\ nHeight[b] = nHeight[Prev(b)] + 1
    /\ dbBest # Null => dbBest \in dbIndex
    /\ dbBest = Null => dbIndex \subseteq {Genesis}
    /\ \A b \in Blocks : b \notin dbIndex => dbNext[b] = Null /\ dbSupply[b] = 0

(* The same links as MainChainLinked, between the records on disk. *)
DiskChainLinked ==
    /\ dbBest # Null => dbNext[dbBest] = Null
    /\ \A b \in Blocks : dbNext[b] # Null => Prev(dbNext[b]) = b /\ OnDiskChain(dbNext[b])
    /\ \A b \in Blocks : OnDiskChain(b) /\ b # Genesis =>
          OnDiskChain(Prev(b)) /\ dbNext[Prev(b)] = b

(* The block being processed is indexed, and ConnectBlock's running totals   *)
(* exceed what went in by no more than the coinbase.                         *)
InProgress ==
    /\ pc \in {"setbest", "connect"} => cur \in dbIndex
    /\ pc \in {"idle", "connect"} => hashBestChain # Null
    /\ pc = "setbest" /\ hashBestChain = Null => cur = Genesis
    /\ pc = "failed" => dbBest = Null /\ dbIndex # {}
    /\ pc = "connect" =>
          /\ Prev(cur) = hashBestChain
          /\ \A i \in DOMAIN Block[cur].vtx : IsCoinBase(Block[cur].vtx[i]) <=> i = 1
          /\ k = 0 => nValueOut - nValueIn <= 0
          /\ k > 0 => /\ TxValueOut(Block[cur].vtx[1]) \in Int
                      /\ nValueOut - nValueIn <= TxValueOut(Block[cur].vtx[1])

IInv ==
    /\ TypeOK
    /\ StoppedIsEmpty
    /\ DiskMemoryAgree
    /\ DiskIndexClosed
    /\ DiskChainLinked
    /\ InProgress
    /\ SupplyWithinLimit

-----------------------------------------------------------------------------
(* The parent of a block is a block or Null. *)
LEMMA PrevType == \A b \in Blocks : Prev(b) \in Blocks \cup {Null}
  BY BlockAssumption DEF Prev, BlockData

(* The list of transactions of a block is a sequence of transactions. *)
LEMMA VtxType == \A b \in Blocks : Block[b].vtx \in Seq(Txs)
  BY BlockAssumption DEF BlockData

(* LoadBlockIndex's fork points are blocks of the best chain. *)
LEMMA ForkPointType ==
  ASSUME DiskChainLinked, NEW now, NEW fork \in ForkPoints(now)
  PROVE  fork = Null \/ OnDiskChain(fork)
  <1>1. CASE BadBlocks(now) = {}
    BY <1>1 DEF ForkPoints
  <1>2. CASE BadBlocks(now) # {}
    <2>1. PICK b \in BadBlocks(now) : fork = Prev(b)
      BY <1>2 DEF ForkPoints
    <2>2. b \in Blocks /\ OnDiskChain(b) /\ b # Genesis
      BY <2>1, BlockAssumption DEF BadBlocks, Prev
    <2>3. QED
      BY <2>1, <2>2 DEF DiskChainLinked
  <1>3. QED
    BY <1>1, <1>2

-----------------------------------------------------------------------------
(* The first process finds an empty database. *)
LEMMA InitIInv == Init => IInv
  <1> SUFFICES ASSUME Init PROVE IInv
    OBVIOUS
  <1>1. TypeOK
    BY BlockAssumption DEF Init, TypeOK
  <1>2. SupplyWithinLimit
    BY LimitAssumption DEF Init, SupplyWithinLimit
  <1>3. StoppedIsEmpty /\ DiskMemoryAgree /\ InProgress
    BY DEF Init, StoppedIsEmpty, DiskMemoryAgree, InProgress
  <1>4. DiskIndexClosed /\ DiskChainLinked
    BY DEF Init, DiskIndexClosed, DiskChainLinked, OnDiskChain
  <1>5. QED
    BY <1>1, <1>2, <1>3, <1>4 DEF IInv

(* A dead process leaves the disk as it was. *)
LEMMA StopIInv == IInv /\ Stop => IInv'
  <1> SUFFICES ASSUME IInv, Stop PROVE IInv'
    OBVIOUS
  <1> USE DEF IInv, Stop, dbVars
  <1>1. TypeOK'
    BY BlockAssumption DEF TypeOK, MemoryLost, LoopIdle
  <1>2. SupplyWithinLimit'
    BY LimitAssumption DEF SupplyWithinLimit, MemoryLost
  <1>3. StoppedIsEmpty' /\ DiskMemoryAgree' /\ InProgress'
    BY DEF MemoryLost, StoppedIsEmpty, DiskMemoryAgree, InProgress
  <1>4. DiskIndexClosed' /\ DiskChainLinked'
    BY DEF MemoryLost, DiskIndexClosed, DiskChainLinked, OnDiskChain
  <1>5. QED
    BY <1>1, <1>2, <1>3, <1>4

(* A refused database leaves everything as it was. *)
LEMMA LoadFailsIInv == IInv /\ LoadBlockIndexFails => IInv'
  <1> SUFFICES ASSUME IInv, LoadBlockIndexFails PROVE IInv'
    OBVIOUS
  <1> USE DEF IInv, LoadBlockIndexFails, memVars, dbVars, loopVars
  <1>1. TypeOK' /\ SupplyWithinLimit'
    BY DEF TypeOK, SupplyWithinLimit
  <1>2. StoppedIsEmpty' /\ DiskMemoryAgree' /\ InProgress'
    BY DEF StoppedIsEmpty, DiskMemoryAgree, InProgress, DiskIndexClosed
  <1>3. DiskIndexClosed' /\ DiskChainLinked'
    BY DEF DiskIndexClosed, DiskChainLinked, OnDiskChain
  <1>4. QED
    BY <1>1, <1>2, <1>3

(* LoadBlockIndex copies the disk into memory. *)
LEMMA LoadIInv ==
  ASSUME IInv, NEW now \in Times, LoadBlockIndex(now) PROVE IInv'
  <1> USE DEF IInv, LoadBlockIndex, dbVars, loopVars
  <1>1. pindexFork' \in dbIndex \cup {Null}
    BY ForkPointType DEF OnDiskChain
  <1>2. TypeOK'
    BY <1>1, BlockAssumption DEF TypeOK, AfterLoad
  <1>3. SupplyWithinLimit'
    BY DEF SupplyWithinLimit
  <1>4. StoppedIsEmpty' /\ DiskMemoryAgree' /\ InProgress'
    BY <1>1, BlockAssumption DEF StoppedIsEmpty, DiskMemoryAgree, InProgress, AfterLoad, TypeOK
  <1>5. DiskIndexClosed' /\ DiskChainLinked'
    BY DEF DiskIndexClosed, DiskChainLinked, OnDiskChain
  <1>6. QED
    BY <1>2, <1>3, <1>4, <1>5

(* Indexing a block whose parent is indexed, or the very first one. *)
LEMMA AddToBlockIndexIInv ==
  ASSUME IInv, NEW b \in Blocks, AddToBlockIndex(b),
         pc \in {"down", "idle"},
         pc = "down" => dbIndex = {} /\ b = Genesis,
         pc = "idle" => b \notin dbIndex /\ Prev(b) \in dbIndex
  PROVE  IInv'
  <1> USE DEF IInv, loopVars
  <1>1. mapBlockIndex = dbIndex /\ hashBestChain = dbBest
    BY DEF StoppedIsEmpty, DiskMemoryAgree, DiskIndexClosed, TypeOK
  <1>2. dbNext = pnext /\ dbSupply = nMoneySupply
    <2>1. CASE pc = "idle"
      BY <2>1 DEF DiskMemoryAgree
    <2>2. CASE pc = "down"
      <3>1. dbNext = [c \in Blocks |-> Null] /\ dbSupply = [c \in Blocks |-> 0]
        BY <2>2 DEF TypeOK, DiskIndexClosed
      <3>2. QED
        BY <2>2, <3>1 DEF StoppedIsEmpty
    <2>3. QED
      BY <2>1, <2>2
  <1>3. dbNext' = dbNext /\ dbSupply' = dbSupply
    BY <1>2 DEF AddToBlockIndex, TypeOK
  <1>4. nHeight' \in [Blocks -> Nat]
    BY PrevType, BlockAssumption DEF TypeOK, AddToBlockIndex
  <1>5. pc' = "idle" => pc = "idle" /\ cur' = Null
    <2>1. pc = "down" => nHeight'[b] + 1 > ChainTrust(hashBestChain)
      BY <1>4 DEF StoppedIsEmpty, ChainTrust
    <2>2. QED
      BY <2>1 DEF AddToBlockIndex
  <1>6. /\ pc' \in {"idle", "setbest"}
        /\ pc' = "setbest" => cur' = b
    BY DEF AddToBlockIndex
  <1>7. TypeOK'
    BY <1>3, <1>4, <1>5, <1>6, BlockAssumption DEF TypeOK, AddToBlockIndex
  <1>8. SupplyWithinLimit' /\ StoppedIsEmpty'
    BY <1>3, <1>6 DEF SupplyWithinLimit, StoppedIsEmpty, AddToBlockIndex
  <1>9. DiskMemoryAgree'
    BY <1>1, <1>2, <1>3 DEF DiskMemoryAgree, AddToBlockIndex
  <1>10. DiskIndexClosed'
    <2>1. dbIndex' = dbIndex \cup {b} /\ dbBest' = dbBest /\ b \notin dbIndex
      BY DEF AddToBlockIndex
    <2>2. \A c \in dbIndex : nHeight'[c] = nHeight[c]
      BY <2>1 DEF AddToBlockIndex, TypeOK
    <2>3. b # Genesis => Prev(b) \in dbIndex /\ nHeight'[b] = nHeight'[Prev(b)] + 1
      BY <1>1, <2>1, <2>2 DEF AddToBlockIndex, TypeOK
    <2>4. pc = "idle" => dbBest # Null
      BY <1>1 DEF InProgress
    <2>5. QED
      BY <1>3, <2>1, <2>2, <2>3, <2>4 DEF DiskIndexClosed
  <1>11. DiskChainLinked'
    <2>1. \A c \in Blocks : OnDiskChain(c)' <=> OnDiskChain(c)
      <3>1. b \notin dbIndex /\ b # dbBest /\ dbNext[b] = Null
        BY BlockAssumption DEF DiskIndexClosed
      <3>2. dbIndex' = dbIndex \cup {b} /\ dbBest' = dbBest /\ dbNext' = dbNext
        BY <1>3 DEF AddToBlockIndex
      <3>3. QED
        BY <3>1, <3>2 DEF OnDiskChain
    <2>2. \A c \in Blocks : dbNext[c] # Null => dbNext[c] \in Blocks
      BY DEF TypeOK
    <2>3. dbNext' = dbNext /\ dbBest' = dbBest
      BY <1>3 DEF AddToBlockIndex
    <2>4. \A c \in Blocks : dbNext'[c] # Null => Prev(dbNext'[c]) = c /\ OnDiskChain(dbNext[c])'
      BY <2>1, <2>2, <2>3 DEF DiskChainLinked
    <2>5. ASSUME NEW c \in Blocks, OnDiskChain(c)', c # Genesis
          PROVE  OnDiskChain(Prev(c))' /\ dbNext'[Prev(c)] = c
      <3>1. OnDiskChain(Prev(c)) /\ dbNext[Prev(c)] = c
        BY <2>1, <2>5 DEF DiskChainLinked
      <3>2. Prev(c) \in Blocks
        BY <3>1 DEF OnDiskChain, TypeOK
      <3>3. QED
        BY <2>1, <2>3, <3>1, <3>2
    <2>6. QED
      BY <2>3, <2>4, <2>5 DEF DiskChainLinked
  <1>12. InProgress'
    BY <1>1, <1>3, <1>5, <1>6 DEF InProgress, AddToBlockIndex, StoppedIsEmpty
  <1>13. QED
    BY <1>7, <1>8, <1>9, <1>10, <1>11, <1>12

(* The genesis block is created in an empty database. *)
LEMMA CreateGenesisIInv == IInv /\ CreateGenesis => IInv'
  BY AddToBlockIndexIInv, BlockAssumption DEF CreateGenesis

(* A received block is indexed once its parent is. *)
LEMMA ProcessBlockIInv ==
  ASSUME IInv, NEW b \in Blocks, NEW now \in Times, ProcessBlock(b, now) PROVE IInv'
  <1>1. mapBlockIndex = dbIndex
    BY DEF ProcessBlock, IInv, DiskMemoryAgree
  <1>2. b \notin dbIndex /\ Prev(b) \in dbIndex
    BY <1>1 DEF ProcessBlock, Deliverable
  <1>3. QED
    BY <1>2, AddToBlockIndexIInv DEF ProcessBlock

(* The handler gives up on its block: nothing changes but the best invalid   *)
(* trust.                                                                    *)
LEMMA GiveUpIInv ==
  ASSUME IInv, pc \in {"setbest", "connect"}, hashBestChain # Null, Idle,
         InvalidChainFound(cur) \/ UNCHANGED <<memVars, dbVars>>
  PROVE  IInv'
  <1> USE DEF IInv, Idle, memVars, dbVars
  <1>1. UNCHANGED <<mapBlockIndex, nHeight, pnext, nMoneySupply, hashBestChain, pindexFork,
                    dbIndex, dbNext, dbSupply, dbBest, dbPos, dbSpent>>
    BY DEF InvalidChainFound
  <1>2. bnBestInvalidTrust' \in Nat /\ dbInvalidTrust' \in Nat
    BY BlockAssumption DEF InvalidChainFound, TypeOK, ChainTrust
  <1>3. TypeOK'
    BY <1>1, <1>2, BlockAssumption DEF TypeOK, LoopIdle
  <1>4. SupplyWithinLimit' /\ StoppedIsEmpty' /\ DiskMemoryAgree' /\ InProgress'
    BY <1>1 DEF SupplyWithinLimit, StoppedIsEmpty, DiskMemoryAgree, InProgress
  <1>5. DiskIndexClosed' /\ DiskChainLinked'
    BY <1>1 DEF DiskIndexClosed, DiskChainLinked, OnDiskChain
  <1>6. QED
    BY <1>3, <1>4, <1>5

(* The genesis block becomes the tip of an empty chain. *)
LEMMA SetBestGenesisIInv == IInv /\ SetBestGenesis => IInv'
  <1> SUFFICES ASSUME IInv, SetBestGenesis PROVE IInv'
    OBVIOUS
  <1> USE DEF IInv, SetBestGenesis, Idle
  <1>1. dbBest = Null /\ dbIndex = {Genesis}
    BY DEF DiskMemoryAgree, DiskIndexClosed, InProgress
  <1>2. TypeOK'
    BY BlockAssumption DEF TypeOK, LoopIdle
  <1>3. SupplyWithinLimit' /\ StoppedIsEmpty' /\ DiskMemoryAgree' /\ InProgress'
    BY BlockAssumption DEF SupplyWithinLimit, StoppedIsEmpty, DiskMemoryAgree, InProgress
  <1>4. DiskIndexClosed'
    BY <1>1, BlockAssumption DEF DiskIndexClosed
  <1>5. dbNext[Genesis] = Null
    <2>1. SUFFICES ASSUME dbNext[Genesis] # Null PROVE FALSE
      OBVIOUS
    <2>2. OnDiskChain(dbNext[Genesis]) /\ Prev(dbNext[Genesis]) = Genesis
      BY <2>1, BlockAssumption DEF DiskChainLinked
    <2>3. dbNext[Genesis] = Genesis
      BY <1>1, <2>2 DEF OnDiskChain
    <2>4. QED
      BY <2>2, <2>3, BlockAssumption DEF Prev
  <1>6. \A b \in Blocks : dbNext[b] = Null /\ (OnDiskChain(b)' => b = Genesis)
    BY <1>1, <1>5 DEF DiskIndexClosed, OnDiskChain
  <1>7. DiskChainLinked'
    BY <1>6, BlockAssumption DEF DiskChainLinked
  <1>8. QED
    BY <1>2, <1>3, <1>4, <1>7

(* ConnectBlock starts with empty totals, on a block that CheckBlock took.   *)
LEMMA ConnectBeginIInv ==
  ASSUME IInv, NEW now \in Times, ConnectBegin(now) PROVE IInv'
  <1>1. CASE ~CheckBlock(cur, now)
    BY <1>1, GiveUpIInv DEF ConnectBegin
  <1>2. CASE CheckBlock(cur, now)
    <2> USE DEF IInv, memVars, dbVars
    <2>1. /\ pc' = "connect" /\ k' = 0 /\ viewPos' = dbPos /\ viewSpent' = dbSpent
          /\ nValueIn' = 0 /\ nValueOut' = 0 /\ UNCHANGED <<cur, memVars, dbVars>>
          /\ pc = "setbest" /\ hashBestChain # Null /\ Prev(cur) = hashBestChain
      BY <1>2 DEF ConnectBegin, OnTip
    <2>2. \A i \in DOMAIN Block[cur].vtx : IsCoinBase(Block[cur].vtx[i]) <=> i = 1
      BY <1>2 DEF CheckBlock
    <2>3. TypeOK'
      BY <2>1 DEF TypeOK
    <2>4. SupplyWithinLimit' /\ StoppedIsEmpty' /\ DiskMemoryAgree'
      BY <2>1 DEF SupplyWithinLimit, StoppedIsEmpty, DiskMemoryAgree
    <2>5. DiskIndexClosed' /\ DiskChainLinked'
      BY <2>1 DEF DiskIndexClosed, DiskChainLinked, OnDiskChain
    <2>6. InProgress'
      BY <2>1, <2>2 DEF InProgress
    <2>7. QED
      BY <2>3, <2>4, <2>5, <2>6
  <1>3. QED
    BY <1>1, <1>2

(* Each transaction after the coinbase takes in more than it puts out. *)
LEMMA ConnectTxIInv == IInv /\ ConnectTx => IInv'
  <1> SUFFICES ASSUME IInv, ConnectTx PROVE IInv'
    OBVIOUS
  <1> DEFINE t == NextTx
             coinbase == Block[cur].vtx[1]
  <1>1. /\ TypeOK /\ StoppedIsEmpty /\ DiskMemoryAgree /\ DiskIndexClosed /\ DiskChainLinked
        /\ InProgress /\ SupplyWithinLimit
    BY DEF IInv
  <1>2. /\ pc = "connect" /\ k < Len(Block[cur].vtx) /\ ValueOutInRange(t)
        /\ IsCoinBase(t) \/ ConnectInputs(t, cur)
        /\ k' = k + 1
        /\ viewPos' = [viewPos EXCEPT ![t] = cur]
        /\ viewSpent' = QueuedSpent(t)
        /\ nValueIn' = nValueIn + (IF IsCoinBase(t) THEN 0 ELSE TxValueIn(t))
        /\ nValueOut' = nValueOut + TxValueOut(t)
        /\ UNCHANGED <<memVars, dbVars, pc, cur>>
    BY DEF ConnectTx, AtTx
  <1> HIDE DEF t
  <1>3. /\ cur \in Blocks /\ k \in Nat /\ k + 1 \in DOMAIN Block[cur].vtx
        /\ t \in Txs /\ (IsCoinBase(t) <=> k = 0) /\ (k = 0 => t = coinbase)
    <2>1. cur \in Blocks /\ k \in Nat
      BY <1>1, <1>2 DEF TypeOK
    <2>2. k + 1 \in DOMAIN Block[cur].vtx
      BY <1>2, <2>1, VtxType
    <2>3. t = Block[cur].vtx[k + 1]
      BY DEF t, NextTx
    <2>4. t \in Txs
      BY <2>1, <2>2, <2>3, VtxType
    <2>5. IsCoinBase(Block[cur].vtx[k + 1]) <=> k + 1 = 1
      BY <1>1, <1>2, <2>2 DEF InProgress
    <2>6. QED
      BY <2>1, <2>2, <2>3, <2>4, <2>5
  <1>4. TxValueOut(t) \in Int
    BY <1>2, LimitAssumption DEF ValueOutInRange, MoneyRange
  <1>5. ASSUME k > 0 PROVE TxValueIn(t) \in Int /\ TxValueIn(t) >= TxValueOut(t)
    <2>1. ConnectInputs(t, cur)
      BY <1>2, <1>3, <1>5
    <2>2. MoneyRange(TxValueIn(t)) /\ TxValueIn(t) - TxValueOut(t) >= TX_FEE
      BY <2>1 DEF ConnectInputs
    <2>3. TxValueIn(t) \in Int /\ TX_FEE \in Nat
      BY <2>2, LimitAssumption DEF MoneyRange
    <2>4. QED
      BY <1>4, <2>2, <2>3
  <1>6. nValueIn \in Int /\ nValueOut \in Int
    BY <1>1 DEF TypeOK
  <1>7. /\ nValueIn' \in Int /\ nValueOut' \in Int
        /\ TxValueOut(coinbase) \in Int
        /\ nValueOut' - nValueIn' <= TxValueOut(coinbase)
    <2>1. CASE k = 0
      <3>1. nValueOut - nValueIn <= 0
        BY <1>1, <1>2, <2>1 DEF InProgress
      <3>2. nValueIn' = nValueIn + 0 /\ nValueOut' = nValueOut + TxValueOut(t)
        BY <1>2, <1>3, <2>1
      <3>3. QED
        BY <1>3, <1>4, <1>6, <2>1, <3>1, <3>2
    <2>2. CASE k > 0
      <3>1. TxValueOut(coinbase) \in Int /\ nValueOut - nValueIn <= TxValueOut(coinbase)
        BY <1>1, <1>2, <2>2 DEF InProgress
      <3>2. nValueIn' = nValueIn + TxValueIn(t) /\ nValueOut' = nValueOut + TxValueOut(t)
        <4>1. ~IsCoinBase(t)
          <5>1. k # 0
            BY <1>3, <2>2
          <5>2. QED
            BY <1>3, <5>1, Zenon
        <4>2. QED
          BY <1>2, <4>1, Zenon
      <3>3. QED
        BY <1>4, <1>5, <1>6, <2>2, <3>1, <3>2
    <2>3. QED
      BY <1>3, <2>1, <2>2
  <1>8. TypeOK'
    <2>1. viewPos' \in [Txs -> Blocks \cup {Null}]
      BY <1>1, <1>2, <1>3 DEF TypeOK
    <2>2. viewSpent' \in [OutPoints -> (Blocks \X Txs) \cup {Null}]
      BY <1>1, <1>2, <1>3 DEF TypeOK, QueuedSpent
    <2>3. k' \in Nat
      BY <1>2, <1>3
    <2>4. QED
      BY <1>1, <1>2, <1>7, <2>1, <2>2, <2>3 DEF TypeOK, memVars, dbVars
  <1>9. SupplyWithinLimit' /\ StoppedIsEmpty' /\ DiskMemoryAgree'
    BY <1>1, <1>2 DEF SupplyWithinLimit, StoppedIsEmpty, DiskMemoryAgree, memVars, dbVars
  <1>10. DiskIndexClosed' /\ DiskChainLinked'
    BY <1>1, <1>2 DEF DiskIndexClosed, DiskChainLinked, OnDiskChain, memVars, dbVars
  <1>11. InProgress'
    <2>1. UNCHANGED <<pc, cur, dbIndex, hashBestChain>> /\ pc' = "connect" /\ k' > 0
      BY <1>2, <1>3 DEF memVars, dbVars
    <2>2. /\ cur \in dbIndex /\ hashBestChain # Null /\ Prev(cur) = hashBestChain
          /\ \A i \in DOMAIN Block[cur].vtx : IsCoinBase(Block[cur].vtx[i]) <=> i = 1
      BY <1>1, <1>2 DEF InProgress
    <2>3. TxValueOut(Block[cur].vtx[1]) \in Int /\ nValueOut' - nValueIn' <= TxValueOut(Block[cur].vtx[1])
      BY <1>7
    <2>4. k' # 0
      BY <1>2, <1>3
    <2>5. QED
      BY <2>1, <2>2, <2>3, <2>4 DEF InProgress
  <1>12. QED
    BY <1>8, <1>9, <1>10, <1>11 DEF IInv

(* The commit puts the block on the tip, on disk and in memory alike, and    *)
(* what it mints stays within what GetProofOfWorkReward left.                *)
LEMMA ConnectCommitsIInv == IInv /\ ConnectCommits => IInv'
  <1> SUFFICES ASSUME IInv, ConnectCommits PROVE IInv'
    OBVIOUS
  <1> DEFINE prev == Prev(cur)
             supply == nMoneySupply[prev] + nValueOut - nValueIn
  <1> USE DEF IInv
  <1>1. /\ pc = "connect" /\ k = Len(Block[cur].vtx)
        /\ CommitBatch(supply) /\ UpdateMemory(supply) /\ Idle
        /\ TxValueOut(Block[cur].vtx[1]) <= GetProofOfWorkReward
    BY DEF ConnectCommits, AtEnd, RewardOK
  <1>2. /\ cur \in Blocks /\ cur \in dbIndex /\ cur # Genesis
        /\ prev = dbBest /\ prev = hashBestChain /\ prev \in Blocks /\ prev \in dbIndex
        /\ pnext = dbNext /\ nMoneySupply = dbSupply /\ mapBlockIndex = dbIndex
    BY <1>1, BlockAssumption DEF InProgress, TypeOK, DiskMemoryAgree, DiskIndexClosed, Prev
  <1>3. cur # prev /\ ~OnDiskChain(cur) /\ dbNext[cur] = Null
    <2>1. ~OnDiskChain(cur)
      <3>1. SUFFICES ASSUME OnDiskChain(cur) PROVE FALSE
        OBVIOUS
      <3>2. dbNext[prev] = cur
        BY <1>2, <3>1 DEF DiskChainLinked
      <3>3. QED
        BY <1>2, <3>2, BlockAssumption DEF DiskChainLinked
    <2>2. QED
      BY <1>2, <2>1 DEF OnDiskChain
  <1>4. supply \in Int /\ supply <= MAX_MONEY
    <2>1. /\ nMoneySupply[prev] \in Int /\ nMoneySupply[prev] <= MAX_MONEY
          /\ nValueIn \in Int /\ nValueOut \in Int /\ k \in Nat
      BY <1>2 DEF TypeOK, SupplyWithinLimit
    <2>2. CASE k = 0
      <3>1. nValueOut - nValueIn <= 0
        BY <1>1, <2>2 DEF InProgress
      <3>2. QED
        BY <2>1, <3>1, LimitAssumption
    <2>3. CASE k > 0
      <3>1. /\ TxValueOut(Block[cur].vtx[1]) \in Int
            /\ nValueOut - nValueIn <= TxValueOut(Block[cur].vtx[1])
        BY <1>1, <2>3 DEF InProgress
      <3>2. GetProofOfWorkReward <= MAX_MONEY - nMoneySupply[prev]
        BY <1>2, <2>1, LimitAssumption DEF GetProofOfWorkReward
      <3>3. GetProofOfWorkReward \in Int
        BY <1>2, <2>1, LimitAssumption DEF GetProofOfWorkReward
      <3>4. QED
        BY <1>1, <2>1, <3>1, <3>2, <3>3, LimitAssumption
    <2>4. QED
      BY <2>1, <2>2, <2>3
  <1>5. /\ nMoneySupply' = [nMoneySupply EXCEPT ![cur] = supply]
        /\ dbSupply' = nMoneySupply'
        /\ pnext' = [pnext EXCEPT ![prev] = cur]
        /\ dbNext' = pnext'
        /\ hashBestChain' = cur /\ dbBest' = cur
        /\ UNCHANGED <<mapBlockIndex, nHeight, dbIndex, bnBestInvalidTrust, pindexFork, dbInvalidTrust>>
        /\ dbPos' = viewPos /\ dbSpent' = viewSpent /\ pc' = "idle" /\ cur' = Null
    <2>1. dbSupply' = [nMoneySupply EXCEPT ![cur] = supply]
      BY <1>1, <1>2, <1>3 DEF CommitBatch, TypeOK
    <2>2. dbNext' = [pnext EXCEPT ![prev] = cur]
      BY <1>1, <1>2, <1>3 DEF CommitBatch, TypeOK
    <2>3. QED
      BY <1>1, <2>1, <2>2 DEF CommitBatch, UpdateMemory, Idle
  <1>6. TypeOK'
    <2>1. nMoneySupply' \in [Blocks -> Int] /\ pnext' \in [Blocks -> Blocks \cup {Null}]
      BY <1>2, <1>4, <1>5 DEF TypeOK
    <2>2. /\ viewPos' \in [Txs -> Blocks \cup {Null}]
          /\ viewSpent' \in [OutPoints -> (Blocks \X Txs) \cup {Null}]
          /\ k' \in Nat /\ nValueIn' \in Int /\ nValueOut' \in Int
      BY <1>1 DEF Idle, LoopIdle
    <2>3. /\ dbPos' \in [Txs -> Blocks \cup {Null}]
          /\ dbSpent' \in [OutPoints -> (Blocks \X Txs) \cup {Null}]
      BY <1>5 DEF TypeOK
    <2>4. dbSupply' \in [Blocks -> Int] /\ dbNext' \in [Blocks -> Blocks \cup {Null}]
      BY <1>5, <2>1
    <2>5. /\ hashBestChain' \in Blocks \cup {Null} /\ dbBest' \in Blocks \cup {Null}
          /\ cur' \in Blocks \cup {Null} /\ (cur' # Null <=> pc' \in {"setbest", "connect"})
          /\ pc' \in {"down", "failed", "idle", "setbest", "connect"}
      BY <1>2, <1>5
    <2>6. QED
      BY <1>5, <2>1, <2>2, <2>3, <2>4, <2>5 DEF TypeOK
  <1>7. SupplyWithinLimit'
    BY <1>2, <1>4, <1>5 DEF SupplyWithinLimit, TypeOK
  <1>8. StoppedIsEmpty' /\ DiskMemoryAgree' /\ InProgress'
    BY <1>2, <1>5, BlockAssumption DEF StoppedIsEmpty, DiskMemoryAgree, InProgress
  <1>9. \A b \in Blocks : dbNext'[b] = IF b = prev THEN cur ELSE dbNext[b]
    BY <1>2, <1>5 DEF TypeOK
  <1>10. DiskIndexClosed'
    <2>1. /\ dbIndex' # {} => Genesis \in dbIndex'
          /\ \A b \in dbIndex' : b # Genesis =>
                Prev(b) \in dbIndex' /\ nHeight'[b] = nHeight'[Prev(b)] + 1
      BY <1>5 DEF DiskIndexClosed
    <2>2. dbBest' \in dbIndex' /\ dbBest' # Null
      BY <1>2, <1>5, BlockAssumption
    <2>3. ASSUME NEW b \in Blocks, b \notin dbIndex'
          PROVE  dbNext'[b] = Null /\ dbSupply'[b] = 0
      <3>1. b # prev /\ b # cur /\ dbNext[b] = Null /\ dbSupply[b] = 0
        BY <1>2, <1>5, <2>3 DEF DiskIndexClosed
      <3>2. dbNext'[b] = Null
        BY <1>9, <3>1
      <3>3. dbSupply'[b] = dbSupply[b]
        BY <1>2, <1>5, <3>1 DEF TypeOK
      <3>4. QED
        BY <3>1, <3>2, <3>3
    <2>4. QED
      BY <2>1, <2>2, <2>3 DEF DiskIndexClosed
  <1>11. \A b \in Blocks : OnDiskChain(b)' <=> OnDiskChain(b) \/ b = cur
    BY <1>2, <1>3, <1>5, <1>9, BlockAssumption DEF OnDiskChain
  <1>12. DiskChainLinked'
    <2>1. dbBest' # Null => dbNext'[dbBest'] = Null
      BY <1>2, <1>3, <1>5, <1>9
    <2>2. ASSUME NEW b \in Blocks, dbNext'[b] # Null
          PROVE  Prev(dbNext'[b]) = b /\ OnDiskChain(dbNext[b])'
      <3>1. CASE b = prev
        BY <1>2, <1>5, <1>9, <3>1, BlockAssumption DEF OnDiskChain
      <3>2. CASE b # prev
        <4>1. dbNext'[b] = dbNext[b] /\ Prev(dbNext[b]) = b /\ OnDiskChain(dbNext[b])
          BY <1>9, <2>2, <3>2 DEF DiskChainLinked
        <4>2. dbNext[b] \in Blocks
          BY <4>1 DEF OnDiskChain, TypeOK
        <4>3. QED
          BY <1>11, <4>1, <4>2
      <3>3. QED
        BY <3>1, <3>2
    <2>3. ASSUME NEW b \in Blocks, OnDiskChain(b)', b # Genesis
          PROVE  OnDiskChain(Prev(b))' /\ dbNext'[Prev(b)] = b
      <3>1. CASE b = cur
        BY <1>2, <1>9, <1>11, <3>1 DEF OnDiskChain
      <3>2. CASE b # cur
        <4>1. OnDiskChain(Prev(b)) /\ dbNext[Prev(b)] = b
          BY <1>11, <2>3, <3>2 DEF DiskChainLinked
        <4>2. Prev(b) \in Blocks /\ Prev(b) # prev
          <5>1. Prev(b) \in Blocks
            BY <4>1 DEF OnDiskChain, TypeOK
          <5>2. dbNext[prev] = Null
            BY <1>2, BlockAssumption DEF DiskChainLinked
          <5>3. QED
            BY <2>3, <4>1, <5>1, <5>2, BlockAssumption
        <4>3. QED
          BY <1>9, <1>11, <4>1, <4>2
      <3>3. QED
        BY <3>1, <3>2
    <2>4. QED
      BY <2>1, <2>2, <2>3 DEF DiskChainLinked
  <1>13. QED
    BY <1>6, <1>7, <1>8, <1>10, <1>12

-----------------------------------------------------------------------------
(* Every step of the node keeps IInv. *)
LEMMA NextIInv == IInv /\ [Next]_vars => IInv'
  <1> SUFFICES ASSUME IInv, [Next]_vars PROVE IInv'
    OBVIOUS
  <1>1. CASE CreateGenesis
    BY <1>1, CreateGenesisIInv
  <1>2. CASE LoadBlockIndexFails
    BY <1>2, LoadFailsIInv
  <1>3. CASE Stop
    BY <1>3, StopIInv
  <1>4. ASSUME NEW now \in Times, LoadBlockIndex(now) PROVE IInv'
    BY <1>4, LoadIInv
  <1>5. ASSUME NEW now \in Times, ConnectBegin(now) PROVE IInv'
    BY <1>5, ConnectBeginIInv
  <1>6. ASSUME NEW b \in Blocks, NEW now \in Times, ProcessBlock(b, now) PROVE IInv'
    BY <1>6, ProcessBlockIInv
  <1>7. ASSUME NEW b \in Blocks, NEW now \in Times, ProcessBlockFaults(b, now) PROVE IInv'
    BY <1>7, StopIInv DEF ProcessBlockFaults
  <1>8. CASE SetBestGenesis
    BY <1>8, SetBestGenesisIInv
  <1>9. CASE SetBestRefuses
    BY <1>9, GiveUpIInv DEF SetBestRefuses
  <1>10. CASE ConnectTx
    BY <1>10, ConnectTxIInv
  <1>11. CASE ConnectTxFails \/ ConnectTxThrows \/ ConnectReward
    <2>1. pc = "connect" /\ hashBestChain # Null
      BY <1>11 DEF ConnectTxFails, ConnectTxThrows, ConnectReward, AtTx, AtEnd, IInv, InProgress
    <2>2. Idle /\ (InvalidChainFound(cur) \/ UNCHANGED <<memVars, dbVars>>)
      BY <1>11 DEF ConnectTxFails, ConnectTxThrows, ConnectReward
    <2>3. QED
      BY <2>1, <2>2, GiveUpIInv
  <1>12. CASE ConnectCommits
    BY <1>12, ConnectCommitsIInv
  <1>13. CASE UNCHANGED vars
    <2> USE <1>13 DEF vars, memVars, dbVars, loopVars
    <2>1. TypeOK' /\ SupplyWithinLimit'
      BY DEF IInv, TypeOK, SupplyWithinLimit
    <2>2. StoppedIsEmpty' /\ DiskMemoryAgree' /\ InProgress'
      BY DEF IInv, StoppedIsEmpty, DiskMemoryAgree, InProgress
    <2>3. DiskIndexClosed' /\ DiskChainLinked'
      BY DEF IInv, DiskIndexClosed, DiskChainLinked, OnDiskChain
    <2>4. QED
      BY <2>1, <2>2, <2>3 DEF IInv
  <1>14. QED
    BY <1>1, <1>2, <1>3, <1>4, <1>5, <1>6, <1>7, <1>8, <1>9, <1>10, <1>11, <1>12, <1>13 DEF Next

(* IInv holds in every reachable state. *)
THEOREM Invariance == Spec => []IInv
  BY InitIInv, NextIInv, PTL DEF Spec

(* Every variable of the node keeps its type, in every universe of blocks    *)
(* and transactions and across any number of restarts.                       *)
THEOREM TypeCorrect == Spec => []TypeOK
  <1>1. IInv => TypeOK
    BY DEF IInv
  <1>2. QED
    BY <1>1, Invariance, PTL

(* No block record ever carries a money supply above MAX_MONEY: the sums of  *)
(* ConnectBlock and the cap of GetProofOfWorkReward fit together.            *)
THEOREM SupplyCapped == Spec => []SupplyWithinLimit
  <1>1. IInv => SupplyWithinLimit
    BY DEF IInv
  <1>2. QED
    BY <1>1, Invariance, PTL

(* The index in memory is the one on disk whenever the process runs. *)
THEOREM DiskIsMemory == Spec => []DiskMemoryAgree
  <1>1. IInv => DiskMemoryAgree
    BY DEF IInv
  <1>2. QED
    BY <1>1, Invariance, PTL

(* pnext and pprev describe the same chain, from the genesis block to the    *)
(* tip.                                                                      *)
THEOREM ChainIsLinked == Spec => []MainChainLinked
  <1>1. ASSUME IInv PROVE MainChainLinked
    <2> USE <1>1 DEF IInv
    <2>1. CASE pc \in {"down", "failed"}
      BY <2>1 DEF StoppedIsEmpty, MainChainLinked, IsInMainChain
    <2>2. CASE pc \notin {"down", "failed"}
      <3>1. mapBlockIndex = dbIndex /\ pnext = dbNext /\ hashBestChain = dbBest
        BY <2>2 DEF DiskMemoryAgree, TypeOK
      <3>2. \A b : IsInMainChain(b) <=> OnDiskChain(b)
        BY <3>1 DEF IsInMainChain, OnDiskChain
      <3>3. \A b \in Blocks : OnDiskChain(b) /\ b # Genesis => nHeight[b] = nHeight[Prev(b)] + 1
        BY DEF DiskIndexClosed, OnDiskChain
      <3>4. QED
        BY <3>1, <3>2, <3>3 DEF DiskChainLinked, MainChainLinked
    <2>3. QED
      BY <2>1, <2>2
  <1>2. QED
    BY <1>1, Invariance, PTL

(* A database is refused only when the process died while creating it. *)
THEOREM LoadFailure == Spec => []LoadFailsOnlyInGenesisWindow
  <1>1. IInv => LoadFailsOnlyInGenesisWindow
    BY DEF IInv, InProgress, DiskIndexClosed, LoadFailsOnlyInGenesisWindow
  <1>2. QED
    BY <1>1, Invariance, PTL

(* What a step can do to the best chain on disk. *)
LEMMA ChainSteps ==
  ASSUME IInv, [Next]_vars
  PROVE  \/ UNCHANGED <<dbBest, dbNext>>
         \/ pc \in {"setbest", "connect"} /\ dbBest' = cur /\ Prev(cur) = dbBest
            /\ dbIndex' = dbIndex
            /\ \A b \in Blocks : dbNext'[b] # dbNext[b] => b = dbBest \/ b = cur
  <1> USE DEF IInv
  <1>1. ASSUME NEW b \in Blocks, AddToBlockIndex(b), (pc = "down" /\ dbIndex = {}) \/ pc = "idle"
        PROVE  UNCHANGED <<dbBest, dbNext>>
    <2>1. pnext[b] = dbNext[b]
      BY <1>1 DEF StoppedIsEmpty, DiskMemoryAgree, DiskIndexClosed
    <2>2. QED
      BY <1>1, <2>1 DEF AddToBlockIndex, TypeOK
  <1>2. CASE CreateGenesis
    BY <1>1, <1>2, BlockAssumption DEF CreateGenesis
  <1>3. CASE \E b \in Blocks, now \in Times : ProcessBlock(b, now)
    BY <1>1, <1>3 DEF ProcessBlock
  <1>4. CASE SetBestGenesis
    BY <1>4, BlockAssumption DEF SetBestGenesis, DiskMemoryAgree, Prev
  <1>5. CASE ConnectCommits
    BY <1>5 DEF ConnectCommits, CommitBatch, AtEnd, InProgress, DiskMemoryAgree, TypeOK
  <1>6. CASE LoadBlockIndexFails \/ Stop \/ SetBestRefuses \/ ConnectTx \/ ConnectTxThrows
    BY <1>6 DEF LoadBlockIndexFails, Stop, SetBestRefuses, ConnectTx, ConnectTxThrows, dbVars
  <1>7. CASE \E now \in Times : LoadBlockIndex(now) \/ ConnectBegin(now)
    BY <1>7 DEF LoadBlockIndex, ConnectBegin, InvalidChainFound, dbVars
  <1>8. CASE \E b \in Blocks, now \in Times : ProcessBlockFaults(b, now)
    BY <1>8 DEF ProcessBlockFaults, Stop, dbVars
  <1>9. CASE ConnectTxFails \/ ConnectReward
    BY <1>9 DEF ConnectTxFails, ConnectReward, InvalidChainFound
  <1>10. CASE UNCHANGED vars
    BY <1>10 DEF vars, dbVars
  <1>11. QED
    BY <1>2, <1>3, <1>4, <1>5, <1>6, <1>7, <1>8, <1>9, <1>10 DEF Next

(* The best chain on disk never loses a block, whatever arrives and whenever *)
(* the process dies.                                                         *)
THEOREM NoReorganisation == Spec => BestOnlyExtends
  <1>1. IInv /\ [Next]_vars => [dbBest' = dbBest \/ Prev(dbBest') = dbBest]_vars
    BY ChainSteps
  <1>2. QED
    BY <1>1, Invariance, PTL DEF Spec, BestOnlyExtends

(* Which block the handler turns to. *)
LEMMA HandlerSteps ==
  ASSUME IInv, [Next]_vars
  PROVE  cur' = cur \/ cur' = Null \/ cur' \notin dbIndex \/ OnDiskChain(cur')
  <1> USE DEF IInv
  <1>1. CASE CreateGenesis
    BY <1>1 DEF CreateGenesis, AddToBlockIndex
  <1>2. CASE \E b \in Blocks, now \in Times : ProcessBlock(b, now)
    <2>1. PICK b \in Blocks, now \in Times : ProcessBlock(b, now)
      BY <1>2
    <2>2. pc = "idle" /\ b \notin mapBlockIndex /\ AddToBlockIndex(b)
      BY <2>1 DEF ProcessBlock, Deliverable
    <2>3. b \notin dbIndex
      BY <2>2 DEF DiskMemoryAgree
    <2>4. cur' = b \/ cur' = Null
      BY <2>2 DEF AddToBlockIndex
    <2>5. QED
      BY <2>3, <2>4
  <1>3. CASE \E now \in Times : LoadBlockIndex(now)
    BY <1>3, ForkPointType DEF LoadBlockIndex
  <1>4. CASE \E now \in Times : ConnectBegin(now)
    BY <1>4 DEF ConnectBegin, Idle
  <1>5. CASE Stop \/ \E b \in Blocks, now \in Times : ProcessBlockFaults(b, now)
    BY <1>5 DEF ProcessBlockFaults, Stop
  <1>6. CASE LoadBlockIndexFails \/ ConnectTx \/ UNCHANGED vars
    BY <1>6 DEF LoadBlockIndexFails, ConnectTx, vars
  <1>7. CASE SetBestGenesis \/ SetBestRefuses \/ ConnectTxFails \/ ConnectTxThrows
               \/ ConnectCommits \/ ConnectReward
    BY <1>7 DEF SetBestGenesis, SetBestRefuses, ConnectTxFails, ConnectTxThrows,
                ConnectCommits, ConnectReward, Idle
  <1>8. QED
    BY <1>1, <1>2, <1>3, <1>4, <1>5, <1>6, <1>7 DEF Next

(* A block whose connection was interrupted or refused is never connected    *)
(* afterwards.                                                               *)
THEOREM InterruptedIsLost == Spec => NeverJoinsLater
  <1>1. ASSUME IInv, [Next]_vars, NEW b \in dbIndex, ~OnDiskChain(b), cur # b
        PROVE  cur' # b /\ ~(OnDiskChain(b)')
    <2>1. b \in Blocks /\ dbNext[b] = Null /\ b # dbBest
      BY <1>1 DEF IInv, TypeOK, OnDiskChain
    <2>2. dbNext'[b] = Null /\ b # dbBest'
      BY <1>1, <2>1, ChainSteps
    <2>3. cur' # b
      BY <1>1, <2>1, HandlerSteps, BlockAssumption
    <2>4. QED
      BY <2>2, <2>3 DEF OnDiskChain
  <1>2. IInv /\ [Next]_vars =>
          [\A b \in dbIndex : ~OnDiskChain(b) /\ cur # b => cur' # b /\ ~OnDiskChain(b)']_vars
    BY <1>1
  <1>3. QED
    BY <1>2, Invariance, PTL DEF Spec, NeverJoinsLater

-----------------------------------------------------------------------------
(* Induction. *)

(* Induction on the natural numbers, for a set. *)
LEMMA SetInduction ==
  ASSUME NEW S, 0 \in S, \A n \in Nat : n \in S => n + 1 \in S
  PROVE  Nat \subseteq S
  <1> DEFINE R == OpToRel(<, Nat)
             T == {n \in Nat : n \notin S}
  <1>1. SUFFICES ASSUME T # {} PROVE FALSE
    OBVIOUS
  <1>2. IsWellFoundedOn(R, Nat)
    BY NatLessThanWellFounded, Zenon
  <1>3. T \subseteq Nat
    OBVIOUS
  <1>4. \E x \in T : \A y \in T : ~(<<y, x>> \in R)
    <2> HIDE DEF R, T
    <2> QED
      BY <1>1, <1>2, <1>3, WFMin, Zenon
  <1>5. PICK x \in T : \A y \in T : ~(<<y, x>> \in R)
    BY <1>4
  <1>6. \A y \in Nat : y < x => <<y, x>> \in R
    BY DEF OpToRel
  <1> HIDE DEF R
  <1>7. x \in Nat /\ x # 0 /\ x - 1 \in Nat /\ x - 1 < x /\ (x - 1) + 1 = x
    OBVIOUS
  <1>8. x - 1 \in S
    BY <1>5, <1>6, <1>7
  <1>9. x \in S
    BY <1>7, <1>8
  <1>10. QED
    BY <1>9

(* f is base, h[base], h[h[base]] ... *)
IsIteration(f, A, base, h, n) ==
    f \in [0..n -> A] /\ f = [j \in 0..n |-> IF j = 0 THEN base ELSE h[f[j - 1]]]

(* A function defined by recursion on 0..n exists. *)
LEMMA IterationExists ==
  ASSUME NEW A, NEW base \in A, NEW h \in [A -> A], NEW n \in Nat
  PROVE  \E f : IsIteration(f, A, base, h, n)
  <1> DEFINE P(m, f) == f = [j \in 0..m |-> IF j = 0 THEN base ELSE h[f[j - 1]]]
             S == {m \in Nat : \E f \in [0..m -> A] : P(m, f)}
  <1>1. 0 \in S
    <2> DEFINE f == [j \in 0..0 |-> base]
    <2>1. f \in [0..0 -> A] /\ P(0, f)
      OBVIOUS
    <2> QED
      BY <2>1
  <1>2. ASSUME NEW m \in Nat, m \in S PROVE m + 1 \in S
    <2>1. PICK f \in [0..m -> A] : P(m, f)
      BY <1>2
    <2> DEFINE g == [j \in 0..(m + 1) |-> IF j = m + 1 THEN h[f[m]] ELSE f[j]]
    <2>2. g \in [0..(m + 1) -> A]
      OBVIOUS
    <2>3. ASSUME NEW j \in 0..(m + 1) PROVE g[j] = IF j = 0 THEN base ELSE h[g[j - 1]]
      <3>1. CASE j = m + 1
        <4>1. g[j] = h[f[m]] /\ g[j - 1] = f[m] /\ j # 0
          BY <3>1
        <4> QED
          BY <4>1
      <3>2. CASE j # m + 1
        <4>1. g[j] = f[j] /\ f[j] = IF j = 0 THEN base ELSE h[f[j - 1]]
          BY <2>1, <3>2
        <4>2. j # 0 => g[j - 1] = f[j - 1]
          BY <3>2
        <4> QED
          BY <4>1, <4>2
      <3> QED
        BY <3>1, <3>2
    <2>4. P(m + 1, g)
      BY <2>3
    <2>5. \E f1 \in [0..(m + 1) -> A] : P(m + 1, f1)
      <3> HIDE DEF g, P
      <3> QED
        BY <2>2, <2>4
    <2>6. m + 1 \in Nat
      OBVIOUS
    <2> HIDE DEF P
    <2> QED
      BY <2>5, <2>6
  <1> HIDE DEF S
  <1>3. Nat \subseteq S
    BY <1>1, <1>2, SetInduction, Zenon
  <1>4. QED
    BY <1>3 DEF S, IsIteration

-----------------------------------------------------------------------------
(* Sums. *)

(* w[s] is the sum of f over s, however s is taken apart. *)
IsSum(w, f, D) ==
    /\ w \in [SUBSET D -> Int]
    /\ w[{}] = 0
    /\ \A s \in SUBSET D : \A x \in s : w[s] = f[x] + w[s \ {x}]

(* Taking an element out of a finite set. *)
LEMMA RemoveOne ==
  ASSUME NEW D, IsFiniteSet(D), NEW s \in SUBSET D, NEW n \in Nat, Cardinality(s) <= n + 1, NEW x \in s
  PROVE  s \ {x} \in SUBSET D /\ Cardinality(s \ {x}) <= n
  <1>1. IsFiniteSet(s)
    BY FS_Subset
  <1>2. Cardinality(s) \in Nat
    BY <1>1, FS_CardinalityType
  <1>3. Cardinality(s \ {x}) = Cardinality(s) - 1
    BY <1>1, FS_RemoveElement
  <1>4. QED
    BY <1>2, <1>3

(* Only the empty set has no element. *)
LEMMA NoElements ==
  ASSUME NEW D, IsFiniteSet(D), NEW s \in SUBSET D, Cardinality(s) <= 0 PROVE s = {}
  <1>1. IsFiniteSet(s)
    BY FS_Subset
  <1>2. Cardinality(s) \in Nat
    BY <1>1, FS_CardinalityType
  <1>3. Cardinality(s) = 0
    BY <1>2
  <1>4. QED
    BY <1>1, <1>3, FS_EmptySet

(* A finite family of integers has a sum. *)
LEMMA SumExists ==
  ASSUME NEW D, IsFiniteSet(D), NEW f \in [D -> Int]
  PROVE  \E w : IsSum(w, f, D)
  <1> DEFINE Small(m) == {s \in SUBSET D : Cardinality(s) <= m}
             P(m, w) == /\ \A s \in Small(m) : w[s] \in Int
                        /\ w[{}] = 0
                        /\ \A s \in Small(m) : \A x \in s : w[s] = f[x] + w[s \ {x}]
             Ex(m) == \E w : P(m, w)
             S == {m \in Nat : Ex(m)}
  <1>1. 0 \in S
    <2> DEFINE w0 == [s \in SUBSET D |-> 0]
    <2>1. \A s \in Small(0) : s = {}
      BY NoElements
    <2>2. P(0, w0)
      <3>1. w0[{}] = 0
        OBVIOUS
      <3> HIDE DEF w0, Small
      <3>2. ASSUME NEW s \in Small(0) PROVE w0[s] \in Int
        BY <2>1, <3>1
      <3>3. ASSUME NEW s \in Small(0), NEW x \in s PROVE FALSE
        BY <2>1
      <3> QED
        BY <3>1, <3>2, <3>3
    <2> HIDE DEF P, w0
    <2>3. Ex(0)
      BY <2>2
    <2> HIDE DEF Ex
    <2> QED
      BY <2>3
  <1>2. ASSUME NEW m \in Nat, m \in S PROVE m + 1 \in S
    <2> HIDE DEF P
    <2>1. PICK w : P(m, w)
      BY <1>2
    <2> DEFINE c(s) == CHOOSE x \in s : TRUE
               new == [s \in SUBSET D |-> IF Cardinality(s) <= m THEN w[s] ELSE f[c(s)] + w[s \ {c(s)}]]
    <2> HIDE DEF Small
    <2>2. ASSUME NEW s \in SUBSET D, s # {} PROVE c(s) \in s
      BY <2>2
    <2>3. ASSUME NEW s \in Small(m + 1), NEW x \in s
          PROVE  s \in SUBSET D /\ s \ {x} \in Small(m)
      BY RemoveOne DEF Small
    <2>4. Small(m) \subseteq SUBSET D /\ {} \in Small(m)
      BY FS_EmptySet DEF Small
    <2>5. \A s \in Small(m) : new[s] = w[s]
      BY DEF Small
    <2>6. ASSUME NEW s \in Small(m + 1), s \notin Small(m)
          PROVE  s # {} /\ new[s] = f[c(s)] + w[s \ {c(s)}]
      <3>1. s \in SUBSET D /\ ~(Cardinality(s) <= m)
        BY <2>6 DEF Small
      <3> QED
        BY <2>4, <2>6, <3>1
    <2> HIDE DEF new, c
    <2>7. ASSUME NEW s \in Small(m + 1) PROVE new[s] \in Int
      <3>1. CASE s \in Small(m)
        BY <2>1, <2>5, <3>1 DEF P
      <3>2. CASE s \notin Small(m)
        <4>1. s # {} /\ new[s] = f[c(s)] + w[s \ {c(s)}]
          BY <2>6, <3>2
        <4>2. s \in SUBSET D
          BY DEF Small
        <4>3. c(s) \in s
          BY <2>2, <4>1, <4>2
        <4>4. s \ {c(s)} \in Small(m)
          BY <2>3, <4>3
        <4>5. w[s \ {c(s)}] \in Int
          BY <2>1, <4>4 DEF P
        <4> QED
          BY <4>1, <4>2, <4>3, <4>5
      <3> QED
        BY <3>1, <3>2
    <2>8. ASSUME NEW s \in Small(m + 1), NEW x \in s PROVE new[s] = f[x] + new[s \ {x}]
      <3>1. s \in SUBSET D /\ s \ {x} \in Small(m) /\ new[s \ {x}] = w[s \ {x}]
        BY <2>3, <2>5
      <3>2. CASE s \in Small(m)
        <4>1. w[s] = f[x] + w[s \ {x}]
          BY <2>1, <3>2 DEF P
        <4> QED
          BY <2>5, <3>1, <3>2, <4>1
      <3>3. CASE s \notin Small(m)
        <4>1. new[s] = f[c(s)] + w[s \ {c(s)}] /\ c(s) \in s
          BY <2>2, <2>6, <3>1, <3>3
        <4>2. CASE c(s) = x
          BY <3>1, <4>1, <4>2
        <4>3. CASE c(s) # x
          <5>1. x \in s \ {c(s)} /\ c(s) \in s \ {x} /\ (s \ {x}) \ {c(s)} = (s \ {c(s)}) \ {x}
            BY <4>1, <4>3
          <5>2. s \ {c(s)} \in Small(m)
            BY <2>3, <4>1
          <5>3. w[s \ {c(s)}] = f[x] + w[(s \ {c(s)}) \ {x}]
            BY <2>1, <5>1, <5>2 DEF P
          <5>4. w[s \ {x}] = f[c(s)] + w[(s \ {x}) \ {c(s)}]
            BY <2>1, <3>1, <5>1 DEF P
          <5>5. f[x] \in Int /\ f[c(s)] \in Int
            BY <3>1, <4>1
          <5>6. (s \ {x}) \ {c(s)} \in Small(m) /\ w[(s \ {x}) \ {c(s)}] \in Int
            <6>1. (s \ {x}) \ {c(s)} \in Small(m)
              <7>1. s \ {x} \in Small(m + 1)
                <8>1. Cardinality(s \ {x}) \in Nat
                  BY <3>1, FS_Subset, FS_CardinalityType
                <8>2. s \ {x} \in SUBSET D /\ Cardinality(s \ {x}) <= m
                  BY <3>1 DEF Small
                <8> QED
                  BY <8>1, <8>2 DEF Small
              <7> QED
                BY <2>3, <5>1, <7>1
            <6> QED
              BY <2>1, <6>1 DEF P
          <5>7. w[s \ {c(s)}] = f[x] + w[(s \ {x}) \ {c(s)}]
            BY <5>1, <5>3, Zenon
          <5> QED
            BY <3>1, <4>1, <5>4, <5>5, <5>6, <5>7
        <4> QED
          BY <4>2, <4>3
      <3> QED
        BY <3>2, <3>3
    <2>9. new[{}] = 0
      BY <2>1, <2>4, <2>5 DEF P
    <2>10. P(m + 1, new)
      BY <2>7, <2>8, <2>9 DEF P
    <2>11. Ex(m + 1)
      BY <2>10
    <2> HIDE DEF Ex
    <2> QED
      BY <2>11
  <1> HIDE DEF S, Ex
  <1>3. Nat \subseteq S
    BY <1>1, <1>2, SetInduction, Zenon
  <1>4. Cardinality(D) \in Nat
    BY FS_CardinalityType
  <1>5. PICK w : P(Cardinality(D), w)
    BY <1>3, <1>4 DEF S, Ex
  <1>6. ASSUME NEW s \in SUBSET D PROVE s \in Small(Cardinality(D))
    BY FS_Subset
  <1> DEFINE v == [s \in SUBSET D |-> w[s]]
  <1> HIDE DEF Small
  <1>7. \A s \in SUBSET D : v[s] = w[s] /\ v[s] \in Int
    BY <1>5, <1>6
  <1>8. v \in [SUBSET D -> Int]
    BY <1>7
  <1>9. ASSUME NEW s \in SUBSET D, NEW x \in s PROVE v[s] = f[x] + v[s \ {x}]
    <2>1. s \ {x} \in SUBSET D /\ w[s] = f[x] + w[s \ {x}]
      BY <1>5, <1>6
    <2> QED
      BY <1>7, <2>1
  <1>10. v[{}] = 0
    BY <1>5, <1>7
  <1> HIDE DEF v
  <1>11. IsSum(v, f, D)
    BY <1>8, <1>9, <1>10 DEF IsSum
  <1> QED
    BY <1>11

(* SumFunction computes that sum. *)
LEMMA SumIs ==
  ASSUME NEW D, IsFiniteSet(D), NEW f \in [D -> Int], NEW w, IsSum(w, f, D)
  PROVE  SumFunction(f) = w[D]
  <1> DEFINE c(s) == CHOOSE x \in s : TRUE
             Eq(e) == e = [s \in SUBSET D |-> IF s = {} THEN 0 ELSE f[c(s)] + e[s \ {c(s)}]]
             iter == CHOOSE e : Eq(e)
  <1>1. \A s \in SUBSET D : s # {} => c(s) \in s
    OBVIOUS
  <1>2. SumFunction(f) = iter[D]
    <2>1. DOMAIN f = D
      OBVIOUS
    <2> QED
      BY <2>1 DEF SumFunction, SumFunctionOnSet, FoldFunctionOnSet, MapThenFoldSet
  <1> HIDE DEF c
  <1>3. Eq(w)
    <2>1. \A s \in SUBSET D : w[s] = IF s = {} THEN 0 ELSE f[c(s)] + w[s \ {c(s)}]
      BY <1>1 DEF IsSum
    <2>2. w = [s \in SUBSET D |-> w[s]]
      BY DEF IsSum
    <2> QED
      BY <2>1, <2>2
  <1>4. Eq(iter)
    <2> HIDE DEF Eq
    <2> QED
      BY <1>3, Zenon
  <1> HIDE DEF iter
  <1> DEFINE Same(m) == \A s \in SUBSET D : Cardinality(s) <= m => iter[s] = w[s]
             S == {m \in Nat : Same(m)}
  <1>5. 0 \in S
    <2>1. ASSUME NEW s \in SUBSET D, Cardinality(s) <= 0 PROVE iter[s] = w[s]
      <3>1. s = {}
        BY <2>1, NoElements
      <3> QED
        BY <1>4, <3>1 DEF IsSum
    <2> QED
      BY <2>1
  <1>6. ASSUME NEW m \in Nat, m \in S PROVE m + 1 \in S
    <2>1. ASSUME NEW s \in SUBSET D, Cardinality(s) <= m + 1 PROVE iter[s] = w[s]
      <3>1. CASE s = {}
        BY <1>4, <3>1 DEF IsSum
      <3>2. CASE s # {}
        <4>1. c(s) \in s
          BY <1>1, <3>2
        <4>2. s \ {c(s)} \in SUBSET D /\ Cardinality(s \ {c(s)}) <= m
          BY <2>1, <4>1, RemoveOne
        <4>3. iter[s \ {c(s)}] = w[s \ {c(s)}]
          BY <1>6, <4>2
        <4>4. iter[s] = f[c(s)] + iter[s \ {c(s)}]
          BY <1>4, <3>2
        <4>5. w[s] = f[c(s)] + w[s \ {c(s)}]
          BY <4>1 DEF IsSum
        <4> QED
          BY <4>3, <4>4, <4>5
      <3> QED
        BY <3>1, <3>2
    <2>2. Same(m + 1)
      BY <2>1
    <2> HIDE DEF Same
    <2> QED
      BY <2>2
  <1> HIDE DEF S
  <1>7. Nat \subseteq S
    BY <1>5, <1>6, SetInduction, Zenon
  <1>8. Cardinality(D) \in Nat
    BY FS_CardinalityType
  <1>9. Same(Cardinality(D))
    BY <1>7, <1>8 DEF S
  <1>10. QED
    BY <1>2, <1>8, <1>9

(* Summing over a part of the domain. *)
LEMMA SumOfPart ==
  ASSUME NEW D, IsFiniteSet(D), NEW f \in [D -> Int], NEW w, IsSum(w, f, D), NEW E \in SUBSET D
  PROVE  SumFunction([x \in E |-> f[x]]) = w[E]
  <1> DEFINE g == [x \in E |-> f[x]]
             v == [s \in SUBSET E |-> w[s]]
  <1>1. IsFiniteSet(E) /\ g \in [E -> Int]
    BY FS_Subset
  <1>2. \A s \in SUBSET E : s \in SUBSET D
    OBVIOUS
  <1>3. v \in [SUBSET E -> Int] /\ v[{}] = 0
    BY <1>2 DEF IsSum
  <1>4. ASSUME NEW s \in SUBSET E, NEW x \in s PROVE v[s] = g[x] + v[s \ {x}]
    <2>1. s \ {x} \in SUBSET E /\ w[s] = f[x] + w[s \ {x}]
      BY <1>2 DEF IsSum
    <2> QED
      BY <2>1
  <1>5. v[E] = w[E]
    OBVIOUS
  <1> HIDE DEF g, v
  <1>6. IsSum(v, g, E)
    BY <1>3, <1>4 DEF IsSum
  <1>7. SumFunction(g) = v[E]
    BY <1>1, <1>6, SumIs
  <1>8. QED
    BY <1>5, <1>7 DEF g

(* Two enumerations of the same values have the same sum. *)
LEMMA SumReindex ==
  ASSUME NEW D, IsFiniteSet(D), NEW f \in [D -> Int],
         NEW E, IsFiniteSet(E), NEW g \in [E -> Int],
         NEW p \in [E -> D], \A i, j \in E : p[i] = p[j] => i = j,
         \A x \in D : \E i \in E : x = p[i], \A i \in E : g[i] = f[p[i]]
  PROVE  SumFunction(g) = SumFunction(f)
  <1>1. PICK w : IsSum(w, f, D)
    BY SumExists
  <1> DEFINE Im(s) == {p[i] : i \in s}
             v == [s \in SUBSET E |-> w[Im(s)]]
  <1>2. \A s \in SUBSET E : Im(s) \in SUBSET D
    OBVIOUS
  <1>3. Im({}) = {} /\ Im(E) = D
    OBVIOUS
  <1>4. ASSUME NEW s \in SUBSET E, NEW i \in s PROVE Im(s \ {i}) = Im(s) \ {p[i]} /\ p[i] \in Im(s)
    OBVIOUS
  <1> HIDE DEF Im
  <1>5. v \in [SUBSET E -> Int] /\ v[{}] = 0
    BY <1>1, <1>2, <1>3 DEF IsSum
  <1>6. ASSUME NEW s \in SUBSET E, NEW i \in s PROVE v[s] = g[i] + v[s \ {i}]
    <2>1. Im(s) \in SUBSET D /\ p[i] \in Im(s) /\ Im(s \ {i}) = Im(s) \ {p[i]}
      BY <1>2, <1>4
    <2>2. w[Im(s)] = f[p[i]] + w[Im(s) \ {p[i]}]
      BY <1>1, <2>1 DEF IsSum
    <2>3. v[s] = w[Im(s)] /\ v[s \ {i}] = w[Im(s \ {i})]
      OBVIOUS
    <2>4. g[i] = f[p[i]]
      OBVIOUS
    <2> HIDE DEF v
    <2> QED
      BY <2>1, <2>2, <2>3, <2>4
  <1>7. v[E] = w[D]
    BY <1>3
  <1> HIDE DEF v
  <1>8. IsSum(v, g, E)
    BY <1>5, <1>6 DEF IsSum
  <1>9. SumFunction(g) = v[E]
    BY <1>8, SumIs
  <1>10. SumFunction(f) = w[D]
    BY <1>1, SumIs
  <1>11. QED
    BY <1>7, <1>9, <1>10

(* Sums over disjoint sets add up. *)
LEMMA SumOfUnion ==
  ASSUME NEW D, IsFiniteSet(D), NEW f \in [D -> Int], NEW w, IsSum(w, f, D),
         NEW A \in SUBSET D, NEW B \in SUBSET D, A \cap B = {}
  PROVE  w[A \cup B] = w[A] + w[B]
  <1> DEFINE Adds(m) == \A s \in SUBSET B : Cardinality(s) <= m => w[A \cup s] = w[A] + w[s]
             S == {m \in Nat : Adds(m)}
  <1>1. IsFiniteSet(B) /\ w[A] \in Int /\ \A s \in SUBSET B : w[s] \in Int /\ A \cup s \in SUBSET D
    BY FS_Subset DEF IsSum
  <1>2. 0 \in S
    <2>1. ASSUME NEW s \in SUBSET B, Cardinality(s) <= 0 PROVE w[A \cup s] = w[A] + w[s]
      <3>1. s = {} /\ A \cup s = A
        BY <1>1, <2>1, NoElements
      <3>2. w[s] = 0
        BY <3>1 DEF IsSum
      <3> QED
        BY <1>1, <3>1, <3>2
    <2> QED
      BY <2>1
  <1>3. ASSUME NEW m \in Nat, m \in S PROVE m + 1 \in S
    <2>1. ASSUME NEW s \in SUBSET B, Cardinality(s) <= m + 1 PROVE w[A \cup s] = w[A] + w[s]
      <3>1. CASE s = {}
        <4>1. A \cup s = A
          BY <3>1
        <4>2. w[s] = 0
          BY <3>1 DEF IsSum
        <4>3. w[A \cup s] = w[A]
          BY <4>1, Zenon
        <4> QED
          BY <1>1, <4>2, <4>3
      <3>2. CASE s # {}
        <4>1. PICK x : x \in s
          BY <3>2
        <4>2. s \ {x} \in SUBSET B /\ Cardinality(s \ {x}) <= m
          BY <1>1, <2>1, <4>1, RemoveOne
        <4>3. w[A \cup (s \ {x})] = w[A] + w[s \ {x}]
          BY <1>3, <4>2
        <4>4. (A \cup s) \ {x} = A \cup (s \ {x}) /\ x \in A \cup s /\ A \cup s \in SUBSET D
          BY <4>1
        <4>5. w[A \cup s] = f[x] + w[A \cup (s \ {x})]
          <5>1. w[A \cup s] = f[x] + w[(A \cup s) \ {x}]
            BY <4>4 DEF IsSum
          <5> QED
            BY <4>4, <5>1
        <4>6. w[s] = f[x] + w[s \ {x}]
          BY <4>1 DEF IsSum
        <4>7. f[x] \in Int /\ w[s \ {x}] \in Int
          BY <1>1, <4>1, <4>2
        <4> DEFINE a == w[A]
                   y == f[x]
                   z == w[s \ {x}]
        <4>8. w[A \cup s] = y + (a + z) /\ w[s] = y + z
          BY <4>3, <4>5, <4>6
        <4>9. a \in Int /\ y \in Int /\ z \in Int
          BY <1>1, <4>7
        <4>10. w[A] + w[s] = a + (y + z)
          BY <4>8
        <4> HIDE DEF a, y, z
        <4> QED
          BY <4>8, <4>9, <4>10
      <3> QED
        BY <3>1, <3>2
    <2>2. Adds(m + 1)
      BY <2>1
    <2> HIDE DEF Adds
    <2> QED
      BY <2>2
  <1> HIDE DEF S
  <1>4. Nat \subseteq S
    BY <1>2, <1>3, SetInduction, Zenon
  <1>5. Cardinality(B) \in Nat
    BY <1>1, FS_CardinalityType
  <1>6. Adds(Cardinality(B))
    BY <1>4, <1>5 DEF S
  <1>7. QED
    BY <1>5, <1>6

(* A sum of natural numbers is one. *)
LEMMA SumOfNat ==
  ASSUME NEW D, IsFiniteSet(D), NEW f \in [D -> Int], NEW w, IsSum(w, f, D), \A x \in D : f[x] >= 0
  PROVE  w[D] >= 0
  <1> DEFINE Pos(m) == \A s \in SUBSET D : Cardinality(s) <= m => w[s] >= 0
             S == {m \in Nat : Pos(m)}
  <1>1. 0 \in S
    <2>1. ASSUME NEW s \in SUBSET D, Cardinality(s) <= 0 PROVE w[s] >= 0
      <3>1. s = {}
        BY <2>1, NoElements
      <3>2. w[s] = 0
        BY <3>1 DEF IsSum
      <3> QED
        BY <3>2
    <2> QED
      BY <2>1
  <1>2. ASSUME NEW m \in Nat, m \in S PROVE m + 1 \in S
    <2>1. ASSUME NEW s \in SUBSET D, Cardinality(s) <= m + 1 PROVE w[s] >= 0
      <3>1. CASE s = {}
        <4>1. w[s] = 0
          BY <3>1 DEF IsSum
        <4> QED
          BY <4>1
      <3>2. CASE s # {}
        <4>1. PICK x : x \in s
          BY <3>2
        <4>2. s \ {x} \in SUBSET D /\ Cardinality(s \ {x}) <= m
          BY <2>1, <4>1, RemoveOne
        <4>3. w[s \ {x}] >= 0 /\ w[s \ {x}] \in Int
          BY <1>2, <4>2 DEF IsSum
        <4>4. w[s] = f[x] + w[s \ {x}] /\ f[x] \in Int /\ f[x] >= 0
          BY <4>1 DEF IsSum
        <4> QED
          BY <4>3, <4>4
      <3> QED
        BY <3>1, <3>2
    <2>2. Pos(m + 1)
      BY <2>1
    <2> HIDE DEF Pos
    <2> QED
      BY <2>2
  <1> HIDE DEF S
  <1>3. Nat \subseteq S
    BY <1>1, <1>2, SetInduction, Zenon
  <1>4. Cardinality(D) \in Nat
    BY FS_CardinalityType
  <1>5. Pos(Cardinality(D))
    BY <1>3, <1>4 DEF S
  <1>6. QED
    BY <1>4, <1>5

-----------------------------------------------------------------------------
(* Values of sets of outputs. *)

(* The value of an output. *)
Val(op) == Tx[op[1]].vout[op[2]]

(* A finite set of outputs, each of a value that GetValueOut accepts. *)
SoundOutputs(ops) == IsFiniteSet(ops) /\ \A op \in ops : MoneyRange(Val(op))

(* Outputs have integer values. *)
LEMMA OutPointFacts ==
  /\ \A op \in OutPoints : /\ op[1] \in Txs /\ op[2] \in DOMAIN Tx[op[1]].vout
                           /\ op = <<op[1], op[2]>> /\ Val(op) \in Int
  /\ \A t \in Txs : /\ Tx[t].vout \in Seq(Int) /\ Tx[t].vin \in Seq(Txs \X (Nat \ {0}))
                    /\ \A n \in DOMAIN Tx[t].vout : <<t, n>> \in OutPoints
  <1>1. \A t \in Txs : Tx[t].vout \in Seq(Int) /\ Tx[t].vin \in Seq(Txs \X (Nat \ {0}))
    BY TxAssumption DEF TxData
  <1>2. ASSUME NEW op \in OutPoints
        PROVE  op[1] \in Txs /\ op[2] \in DOMAIN Tx[op[1]].vout /\ op = <<op[1], op[2]>>
    BY DEF OutPoints
  <1>3. ASSUME NEW op \in OutPoints PROVE Val(op) \in Int
    BY <1>1, <1>2 DEF Val
  <1>4. ASSUME NEW t \in Txs, NEW n \in DOMAIN Tx[t].vout PROVE <<t, n>> \in OutPoints
    BY DEF OutPoints
  <1>5. QED
    BY <1>1, <1>2, <1>3, <1>4

(* Value is a sum over a set of outputs. *)
LEMMA ValueIs == \A ops : Abstract!Value(ops) = SumFunction([op \in ops |-> Val(op)])
  BY DEF Abstract!Value, Abstract!SumFunction, Abstract!SumFunctionOnSet,
         Abstract!FoldFunctionOnSet, Abstract!MapThenFoldSet, Val,
         SumFunction, SumFunctionOnSet, FoldFunctionOnSet, MapThenFoldSet

(* Disjoint sets of outputs: their values add up. *)
LEMMA ValueOfUnion ==
  ASSUME NEW A \in SUBSET OutPoints, NEW B \in SUBSET OutPoints,
         IsFiniteSet(A), IsFiniteSet(B), A \cap B = {}
  PROVE  /\ Abstract!Value(A) \in Int /\ Abstract!Value(B) \in Int
         /\ Abstract!Value(A \cup B) = Abstract!Value(A) + Abstract!Value(B)
  <1> DEFINE D == A \cup B
             f == [op \in D |-> Val(op)]
  <1>1. IsFiniteSet(D)
    BY FS_Union
  <1>2. f \in [D -> Int]
    BY OutPointFacts
  <1>3. A \in SUBSET D /\ B \in SUBSET D /\ D \in SUBSET D
    OBVIOUS
  <1>4. /\ [op \in A |-> Val(op)] = [op \in A |-> f[op]]
        /\ [op \in B |-> Val(op)] = [op \in B |-> f[op]]
        /\ [op \in D |-> Val(op)] = [op \in D |-> f[op]]
    OBVIOUS
  <1> HIDE DEF D, f
  <1>5. PICK w : IsSum(w, f, D)
    BY <1>1, <1>2, SumExists
  <1>6. /\ Abstract!Value(A) = SumFunction([op \in A |-> f[op]])
        /\ Abstract!Value(B) = SumFunction([op \in B |-> f[op]])
        /\ Abstract!Value(D) = SumFunction([op \in D |-> f[op]])
    BY <1>4, ValueIs
  <1>7. SumFunction([op \in A |-> f[op]]) = w[A]
    BY <1>1, <1>2, <1>3, <1>5, SumOfPart
  <1>8. SumFunction([op \in B |-> f[op]]) = w[B]
    BY <1>1, <1>2, <1>3, <1>5, SumOfPart
  <1>9. SumFunction([op \in D |-> f[op]]) = w[D]
    <2>1. f = [op \in D |-> f[op]]
      BY <1>2
    <2>2. SumFunction(f) = w[D]
      BY <1>1, <1>2, <1>5, SumIs
    <2> QED
      BY <2>1, <2>2
  <1>10. w[A \cup B] = w[A] + w[B]
    BY <1>1, <1>2, <1>3, <1>5, SumOfUnion
  <1>11. w[A] \in Int /\ w[B] \in Int
    BY <1>3, <1>5 DEF IsSum
  <1>12. Abstract!Value(A \cup B) = w[A \cup B]
    BY <1>6, <1>9 DEF D
  <1>13. QED
    BY <1>6, <1>7, <1>8, <1>10, <1>11, <1>12

(* Outputs in range: their value is not negative. *)
LEMMA ValueOfSound ==
  ASSUME NEW A \in SUBSET OutPoints, SoundOutputs(A)
  PROVE  Abstract!Value(A) \in Nat
  <1> DEFINE f == [op \in A |-> Val(op)]
  <1>1. f \in [A -> Int] /\ \A x \in A : f[x] >= 0
    BY OutPointFacts, LimitAssumption DEF SoundOutputs, MoneyRange
  <1>2. IsFiniteSet(A)
    BY DEF SoundOutputs
  <1>3. Abstract!Value(A) = SumFunction(f)
    BY ValueIs
  <1> HIDE DEF f
  <1>4. PICK w : IsSum(w, f, A)
    BY <1>1, <1>2, SumExists
  <1>5. SumFunction(f) = w[A]
    BY <1>1, <1>2, <1>4, SumIs
  <1>6. w[A] >= 0
    BY <1>1, <1>2, <1>4, SumOfNat
  <1>7. w[A] \in Int
    BY <1>4 DEF IsSum
  <1>8. QED
    BY <1>3, <1>5, <1>6, <1>7

(* No outputs, no value. *)
LEMMA ValueOfNone == Abstract!Value({}) = 0
  <1>1. {} \in SUBSET OutPoints /\ IsFiniteSet({}) /\ {} \cap {} = {} /\ {} \cup {} = {}
    BY FS_EmptySet
  <1>2. Abstract!Value({}) \in Int /\ Abstract!Value({} \cup {}) = Abstract!Value({}) + Abstract!Value({})
    BY <1>1, ValueOfUnion
  <1> DEFINE v == Abstract!Value({})
  <1>3. v \in Int /\ v = v + v
    BY <1>1, <1>2
  <1> HIDE DEF v
  <1>4. v = 0
    BY <1>3
  <1>5. QED
    BY <1>4 DEF v

(* GetValueOut sums what a transaction creates. *)
LEMMA CreatedValue ==
  ASSUME NEW t \in Txs
  PROVE  /\ Abstract!Created(t) \in SUBSET OutPoints
         /\ IsFiniteSet(Abstract!Created(t))
         /\ TxValueOut(t) = Abstract!Value(Abstract!Created(t))
  <1> DEFINE E == DOMAIN Tx[t].vout
             D == Abstract!Created(t)
             p == [n \in E |-> <<t, n>>]
             f == [op \in D |-> Val(op)]
             g == Tx[t].vout
  <1>1. D = {p[n] : n \in E}
    BY DEF Abstract!Created
  <1>2. g \in [E -> Int] /\ E = 1..Len(g) /\ Len(g) \in Nat
    BY OutPointFacts
  <1>3. IsFiniteSet(E)
    BY <1>2, FS_Interval
  <1>4. D \in SUBSET OutPoints
    BY OutPointFacts DEF Abstract!Created
  <1>5. /\ p \in [E -> D] /\ \A i, j \in E : p[i] = p[j] => i = j
        /\ \A x \in D : \E i \in E : x = p[i]
    BY <1>1
  <1>6. IsFiniteSet(D)
    <2> HIDE DEF p, D, E
    <2>1. p \in Surjection(E, D)
      BY <1>5 DEF Surjection
    <2> QED
      BY <1>3, <2>1, FS_Surjection
  <1>7. f \in [D -> Int]
    BY <1>4, OutPointFacts
  <1>8. ASSUME NEW n \in E PROVE g[n] = f[p[n]]
    <2>1. p[n] = <<t, n>> /\ p[n] \in D /\ p[n][1] = t /\ p[n][2] = n
      BY <1>5
    <2>2. Val(p[n]) = g[n]
      BY <2>1 DEF Val
    <2> HIDE DEF D, p
    <2> QED
      BY <2>1, <2>2
  <1>9. TxValueOut(t) = SumFunction(g)
    BY DEF TxValueOut
  <1>10. Abstract!Value(D) = SumFunction(f)
    BY ValueIs
  <1> HIDE DEF E, D, p, f, g
  <1>11. SumFunction(g) = SumFunction(f)
    <2>1. \A n \in E : g[n] = f[p[n]]
      BY <1>8
    <2>2. g \in [E -> Int]
      BY <1>2
    <2> QED
      BY <1>3, <1>5, <1>6, <1>7, <2>1, <2>2, SumReindex
  <1>12. TxValueOut(t) = Abstract!Value(D)
    BY <1>9, <1>10, <1>11
  <1>13. QED
    BY <1>4, <1>6, <1>12 DEF D

(* GetValueIn sums what a transaction without repeated inputs consumes. *)
LEMMA ConsumedValue ==
  ASSUME NEW t \in Txs, CheckTransaction(t), Inputs(t) \in SUBSET OutPoints
  PROVE  /\ IsFiniteSet(Inputs(t))
         /\ TxValueIn(t) = Abstract!Value(Inputs(t))
  <1> DEFINE p == Tx[t].vin
             E == DOMAIN p
             D == Inputs(t)
             f == [op \in D |-> Val(op)]
             g == [i \in E |-> Val(p[i])]
  <1>1. D = {p[n] : n \in E}
    BY DEF Inputs
  <1>2. E = 1..Len(p) /\ Len(p) \in Nat
    BY OutPointFacts
  <1>3. IsFiniteSet(E)
    BY <1>2, FS_Interval
  <1>4. p \in [E -> D] /\ \A x \in D : \E i \in E : x = p[i]
    <2>1. p = [i \in E |-> p[i]]
      BY OutPointFacts
    <2> QED
      BY <1>1, <2>1
  <1>5. IsFiniteSet(D)
    <2> HIDE DEF p, D, E
    <2>1. p \in Surjection(E, D)
      BY <1>4 DEF Surjection
    <2> QED
      BY <1>3, <2>1, FS_Surjection
  <1>6. \A i, j \in E : p[i] = p[j] => i = j
    BY DEF CheckTransaction
  <1>7. f \in [D -> Int]
    BY OutPointFacts
  <1>8. g \in [E -> Int]
    BY <1>4, OutPointFacts
  <1>9. TxValueIn(t) = SumFunction(g)
    BY DEF TxValueIn, Val
  <1>10. Abstract!Value(D) = SumFunction(f)
    BY ValueIs
  <1> HIDE DEF E, D, p
  <1>11. \A i \in E : g[i] = f[p[i]]
    BY <1>4
  <1> HIDE DEF f, g
  <1>12. SumFunction(g) = SumFunction(f)
    BY <1>3, <1>4, <1>5, <1>6, <1>7, <1>8, <1>11, SumReindex
  <1>13. QED
    BY <1>5, <1>9, <1>10, <1>12 DEF D

-----------------------------------------------------------------------------
(* Applying the transactions of a block one after the other. *)

(* after[i] is what the first i transactions leave of ops. *)
IsRun(after, ops, s, n) ==
    after = [i \in 0..n |-> IF i = 0 THEN ops ELSE Abstract!Apply(after[i - 1], s[i])]

(* There is such a function. *)
LEMMA RunExists == ASSUME NEW ops, NEW s, NEW n \in Nat PROVE \E after : IsRun(after, ops, s, n)
  <1> DEFINE Ex(m) == \E after : IsRun(after, ops, s, m)
             S == {m \in Nat : Ex(m)}
  <1>1. 0 \in S
    <2> DEFINE a == [i \in 0..0 |-> ops]
    <2>1. IsRun(a, ops, s, 0)
      <3>1. \A i \in 0..0 : i = 0
        OBVIOUS
      <3> QED
        BY <3>1 DEF IsRun
    <2> HIDE DEF a
    <2>2. Ex(0)
      BY <2>1
    <2> HIDE DEF Ex
    <2> QED
      BY <2>2
  <1>2. ASSUME NEW m \in Nat, m \in S PROVE m + 1 \in S
    <2>1. PICK f : IsRun(f, ops, s, m)
      BY <1>2
    <2> DEFINE g == [i \in 0..(m + 1) |-> IF i = m + 1 THEN Abstract!Apply(f[m], s[m + 1]) ELSE f[i]]
    <2>2. ASSUME NEW i \in 0..(m + 1)
          PROVE  g[i] = IF i = 0 THEN ops ELSE Abstract!Apply(g[i - 1], s[i])
      <3>1. CASE i = m + 1
        <4>1. i # 0 /\ i - 1 = m /\ m \in 0..(m + 1) /\ m # m + 1
          BY <3>1
        <4>2. g[i] = Abstract!Apply(f[m], s[m + 1]) /\ g[m] = f[m]
          BY <3>1, <4>1
        <4> HIDE DEF g
        <4> QED
          BY <3>1, <4>1, <4>2
      <3>2. CASE i # m + 1
        <4>1. i \in 0..m /\ g[i] = f[i]
          BY <3>2
        <4>2. i # 0 => i - 1 \in 0..(m + 1) /\ i - 1 # m + 1
          BY <3>2
        <4>3. i # 0 => g[i - 1] = f[i - 1]
          BY <4>2
        <4>4. f[i] = IF i = 0 THEN ops ELSE Abstract!Apply(f[i - 1], s[i])
          BY <2>1, <4>1 DEF IsRun
        <4> HIDE DEF g
        <4> QED
          BY <4>1, <4>3, <4>4
      <3> QED
        BY <3>1, <3>2
    <2>3. g = [i \in 0..(m + 1) |-> g[i]]
      OBVIOUS
    <2> HIDE DEF g
    <2>4. IsRun(g, ops, s, m + 1)
      BY <2>2, <2>3 DEF IsRun
    <2>5. Ex(m + 1)
      BY <2>4
    <2> HIDE DEF Ex
    <2> QED
      BY <2>5
  <1> HIDE DEF S, Ex
  <1>3. Nat \subseteq S
    BY <1>1, <1>2, SetInduction, Zenon
  <1>4. QED
    BY <1>3 DEF S, Ex

(* ApplyAll of the first n transactions is the n-th value of the run. *)
LEMMA ApplyAllIs ==
  ASSUME NEW ops, NEW s \in Seq(Txs), NEW n \in 0..Len(s), NEW m \in 0..n, NEW after, IsRun(after, ops, s, n)
  PROVE  Abstract!ApplyAll(ops, SubSeq(s, 1, m)) = after[m]
  <1> DEFINE q == SubSeq(s, 1, m)
             Eq(f) == f = [i \in 0..Len(q) |-> IF i = 0 THEN ops ELSE Abstract!Apply(f[i - 1], q[i])]
             e == CHOOSE f : Eq(f)
  <1>1. Len(q) = m /\ \A i \in 1..m : q[i] = s[i]
    OBVIOUS
  <1>2. Abstract!ApplyAll(ops, q) = e[m]
    BY <1>1 DEF Abstract!ApplyAll
  <1> HIDE DEF q
  <1>3. \E f : Eq(f)
    <2>1. m \in Nat
      OBVIOUS
    <2>2. PICK f : IsRun(f, ops, q, m)
      BY <2>1, RunExists
    <2>3. Eq(f)
      BY <1>1, <2>2 DEF IsRun
    <2> HIDE DEF Eq
    <2> QED
      BY <2>3
  <1>4. Eq(e)
    <2> HIDE DEF Eq
    <2> QED
      BY <1>3, Zenon
  <1> HIDE DEF e
  <1>5. e[0] = ops /\ \A i \in 1..m : e[i] = Abstract!Apply(e[i - 1], s[i])
    BY <1>1, <1>4
  <1>6. after[0] = ops /\ \A i \in 1..m : after[i] = Abstract!Apply(after[i - 1], s[i])
    BY DEF IsRun
  <1> HIDE DEF Eq
  <1> DEFINE S == {i \in Nat : i <= m => e[i] = after[i]}
  <1>7. 0 \in S
    BY <1>5, <1>6
  <1>8. ASSUME NEW i \in Nat, i \in S PROVE i + 1 \in S
    <2>1. SUFFICES ASSUME i + 1 <= m PROVE e[i + 1] = after[i + 1]
      OBVIOUS
    <2>2. i + 1 \in 1..m /\ (i + 1) - 1 = i /\ e[i] = after[i]
      <3>1. i <= m /\ i + 1 \in 1..m /\ (i + 1) - 1 = i
        BY <2>1
      <3> QED
        BY <1>8, <3>1
    <2>3. e[i + 1] = Abstract!Apply(e[(i + 1) - 1], s[i + 1])
      BY <1>5, <2>2
    <2>4. after[i + 1] = Abstract!Apply(after[(i + 1) - 1], s[i + 1])
      BY <1>6, <2>2
    <2> QED
      BY <2>2, <2>3, <2>4
  <1> HIDE DEF S
  <1>9. Nat \subseteq S
    BY <1>7, <1>8, SetInduction, Zenon
  <1>10. e[m] = after[m]
    BY <1>9 DEF S
  <1>11. QED
    BY <1>2, <1>10 DEF q

(* ApplyAll, one more transaction at a time. *)
LEMMA ApplyAllSteps ==
  ASSUME NEW ops, NEW s \in Seq(Txs)
  PROVE  /\ Abstract!ApplyAll(ops, SubSeq(s, 1, 0)) = ops
         /\ \A i \in 0..(Len(s) - 1) :
               Abstract!ApplyAll(ops, SubSeq(s, 1, i + 1)) =
                   Abstract!Apply(Abstract!ApplyAll(ops, SubSeq(s, 1, i)), s[i + 1])
  <1> DEFINE n == Len(s)
  <1>1. n \in Nat /\ n \in 0..Len(s)
    OBVIOUS
  <1>2. PICK f : IsRun(f, ops, s, n)
    BY <1>1, RunExists
  <1>3. \A m \in 0..n : Abstract!ApplyAll(ops, SubSeq(s, 1, m)) = f[m]
    BY <1>1, <1>2, ApplyAllIs
  <1>4. f[0] = ops
    BY <1>1, <1>2 DEF IsRun
  <1>5. ASSUME NEW i \in 0..(n - 1) PROVE f[i + 1] = Abstract!Apply(f[i], s[i + 1])
    <2>1. i + 1 \in 0..n /\ i + 1 # 0 /\ (i + 1) - 1 = i
      OBVIOUS
    <2>2. f[i + 1] = Abstract!Apply(f[(i + 1) - 1], s[i + 1])
      BY <1>2, <2>1 DEF IsRun
    <2> QED
      BY <2>1, <2>2
  <1>6. \A i \in 0..(n - 1) : i \in 0..n /\ i + 1 \in 0..n
    OBVIOUS
  <1>7. 0 \in 0..n
    OBVIOUS
  <1>8. QED
    BY <1>3, <1>4, <1>5, <1>6, <1>7
============================================================================
