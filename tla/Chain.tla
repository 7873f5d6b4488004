------------------------------- MODULE Chain -------------------------------
(***************************************************************************)
(* The block chain of one node: the in-memory block index, the LevelDB     *)
(* database behind it (block index records, transaction index, best-chain  *)
(* pointer) and the path a received block takes through ProcessBlock,      *)
(* AcceptBlock, AddToBlockIndex, SetBestChain and ConnectBlock, with the   *)
(* process dying at any point and starting again through LoadBlockIndex.   *)
(*                                                                         *)
(* All of this runs under cs_main, so one block is in progress at a time.  *)
(* The handler is cut where the outside world can see it stop half way:    *)
(* after the LevelDB commit that indexes the block, and once per           *)
(* transaction of ConnectBlock's loop.                                     *)
(***************************************************************************)
EXTENDS Integers, Sequences, FiniteSets, Functions

CONSTANTS
    Blocks,             \* block hashes
    Txs,                \* transaction hashes
    Null,               \* the zero hash / NULL pointer / null position
    Genesis,            \* hashGenesisBlock
    Block,              \* contents of every block, see BlockData
    Tx,                 \* contents of every transaction, see TxData
    Times,              \* what GetAdjustedTime() + nMaxClockDrift can read
    MAX_MONEY,
    TX_FEE,
    MIN_BLOCK_SPACING,
    nCoinbaseMaturity

(* wellFormed: size, nBits range, coinbase timestamp, sigops, merkle root.  *)
(* authentic: the RSA signature over the block verifies.  rightBits: nBits  *)
(* is the target CheckWork computes.  final: every transaction IsFinal at   *)
(* the block's height and time.                                             *)
BlockData == [hashPrevBlock : Blocks \cup {Null}, nTime : Nat, vtx : Seq(Txs),
              wellFormed : BOOLEAN, authentic : BOOLEAN,
              rightBits : BOOLEAN, final : BOOLEAN]

(* vin: the outpoints spent, empty for a coinbase.  vout: output values.    *)
(* sigOK: VerifySignature succeeds for every input.                         *)
TxData == [vin : Seq(Txs \X (Nat \ {0})), vout : Seq(Int), nTime : Nat, sigOK : BOOLEAN]

ASSUME BlockAssumption ==
    /\ Block \in [Blocks -> BlockData]
    /\ Null \notin Blocks
    /\ Genesis \in Blocks
    /\ Block[Genesis].hashPrevBlock = Null

ASSUME TxAssumption == Tx \in [Txs -> TxData]

ASSUME LimitAssumption ==
    /\ MAX_MONEY \in Nat
    /\ TX_FEE \in Nat
    /\ MIN_BLOCK_SPACING \in Nat
    /\ nCoinbaseMaturity \in Nat
    /\ Times \subseteq Nat

OutPoints == UNION {{t} \X DOMAIN Tx[t].vout : t \in Txs}

(* A null hash or position is not that of a block, an output or a spend. *)
ASSUME NullAssumption == Null \notin OutPoints \cup (Blocks \X Txs)

VARIABLES
    \* memory
    mapBlockIndex,      \* the blocks with a CBlockIndex
    nHeight,            \* CBlockIndex::nHeight, reloaded unchanged from disk
    pnext,              \* CBlockIndex::pnext
    nMoneySupply,       \* CBlockIndex::nMoneySupply
    hashBestChain,      \* the hash of pindexBest
    bnBestInvalidTrust,
    pindexFork,         \* where the last LoadBlockIndex wanted to reorganise to
    \* LevelDB
    dbIndex,            \* the blocks with a "blockindex" record
    dbNext,             \* CDiskBlockIndex::hashNext
    dbSupply,           \* CDiskBlockIndex::nMoneySupply
    dbBest,             \* "hashBestChain"
    dbPos,              \* block part of CTxIndex::pos, Null when no "tx" record
    dbSpent,            \* CTxIndex::vSpent, as <<block, spending tx>>
    dbInvalidTrust,     \* "bnBestInvalidTrust"
    \* the block being processed
    pc,                 \* where its handler is
    cur,                \* the block
    k,                  \* transactions ConnectBlock has gone through
    viewPos,            \* dbPos overlaid with mapQueuedChanges
    viewSpent,          \* dbSpent overlaid with mapQueuedChanges
    nValueIn,
    nValueOut

memVars == <<mapBlockIndex, nHeight, pnext, nMoneySupply, hashBestChain,
             bnBestInvalidTrust, pindexFork>>
dbVars == <<dbIndex, dbNext, dbSupply, dbBest, dbPos, dbSpent, dbInvalidTrust>>
loopVars == <<k, viewPos, viewSpent, nValueIn, nValueOut>>
vars == <<memVars, dbVars, pc, cur, loopVars>>

-----------------------------------------------------------------------------
(* Transactions on their own. *)

IsCoinBase(t) == Tx[t].vin = <<>>

MoneyRange(v) == v \in 0..MAX_MONEY

TxValueOut(t) == SumFunction(Tx[t].vout)

TxValueIn(t) ==
    SumFunction([i \in DOMAIN Tx[t].vin |-> Tx[Tx[t].vin[i][1]].vout[Tx[t].vin[i][2]]])

(* GetValueOut throws when this is false. *)
ValueOutInRange(t) ==
    /\ \A i \in DOMAIN Tx[t].vout : MoneyRange(Tx[t].vout[i])
    /\ MoneyRange(TxValueOut(t))

(* An output may be negative as long as the running total stays in range;   *)
(* a zero output is allowed in a coinbase and as a first output only.       *)
CheckTransaction(t) ==
    LET vout == Tx[t].vout
    IN  /\ vout # <<>>
        /\ \A i \in DOMAIN vout :
              /\ vout[i] <= MAX_MONEY
              /\ MoneyRange(SumFunction(SubSeq(vout, 1, i)))
              /\ vout[i] = 0 => IsCoinBase(t) \/ i = 1
        /\ \A i, j \in DOMAIN Tx[t].vin : Tx[t].vin[i] = Tx[t].vin[j] => i = j

-----------------------------------------------------------------------------
(* Blocks on their own. *)

Prev(b) == Block[b].hashPrevBlock

CheckBlock(b, now) ==
    LET vtx == Block[b].vtx
    IN  /\ vtx # <<>>
        /\ Block[b].wellFormed
        /\ Block[b].nTime <= now
        /\ \A i \in DOMAIN vtx : IsCoinBase(vtx[i]) <=> i = 1
        /\ \A i \in DOMAIN vtx : CheckTransaction(vtx[i])
        /\ \A i, j \in DOMAIN vtx : vtx[i] = vtx[j] => i = j

(* GetBlockTrust is 1 for every block whose nBits is in range, so the trust *)
(* of a chain is its height plus one; before the genesis block it is 0.     *)
ChainTrust(b) == IF b = Null THEN 0 ELSE nHeight[b] + 1

IsInMainChain(b) == b \in mapBlockIndex /\ (pnext[b] # Null \/ b = hashBestChain)

(* CheckWork trusts nBits on a chain of fewer than four blocks.             *)
YoungChain(b) ==
    \/ b = Genesis
    \/ Prev(b) = Genesis
    \/ nHeight[hashBestChain] < 3

CheckWork(b) == YoungChain(b) \/ (Prev(b) \in mapBlockIndex /\ Block[b].rightBits)

(* The two places that follow a pprev pointer which may be NULL: CheckWork  *)
(* reads the grandparent's parent, ProcessBlock the parent of pindexBest.   *)
NullDereference(b) ==
    \/ /\ ~YoungChain(b)
       /\ Prev(b) \in mapBlockIndex
       /\ nHeight[Prev(b)] < 2
    \/ CheckWork(b) /\ Prev(b) # hashBestChain /\ hashBestChain = Genesis

AcceptBlock(b) ==
    /\ Block[b].nTime > Block[Prev(b)].nTime
    /\ Block[b].nTime >= Block[Prev(b)].nTime + MIN_BLOCK_SPACING
    /\ Block[b].final

-----------------------------------------------------------------------------
(* ConnectBlock's loop body, against the database and the queued changes.   *)

(* A fault: no search for an earlier transaction with the same hash. *)
DuplicateUnchecked(t) == FALSE

(* A transaction with this hash is already in the chain and not fully spent. *)
Duplicate(t) ==
    /\ dbPos[t] # Null
    /\ \E n \in 1..Len(Tx[t].vout) : dbSpent[<<t, n>>] = Null

FetchInputs(t) ==
    \A i \in DOMAIN Tx[t].vin :
        /\ viewPos[Tx[t].vin[i][1]] # Null
        /\ Tx[t].vin[i] \in OutPoints

(* The block at depth d below b, Null past the genesis block. *)
Ancestor(b, d) ==
    LET back[j \in 0..d] ==
          IF j = 0 THEN b
          ELSE IF back[j - 1] = Null THEN Null ELSE Prev(back[j - 1])
    IN  back[d]

(* A fault: one block too few is looked at. *)
MatureOneEarly(t, b) ==
    \A d \in 0..(nCoinbaseMaturity - 2) : Ancestor(b, d) # viewPos[t]

Mature(t, b) ==
    \A d \in 0..(nCoinbaseMaturity - 1) : Ancestor(b, d) # viewPos[t]

(* A fault: vSpent is not looked at. *)
ConnectInputsTwice(t, b) ==
    /\ \A i \in DOMAIN Tx[t].vin : LET prev == Tx[t].vin[i][1]
                                  IN  IsCoinBase(prev) => Mature(prev, b)
    /\ MoneyRange(TxValueIn(t))
    /\ TxValueIn(t) - TxValueOut(t) >= TX_FEE

ConnectInputs(t, b) ==
    /\ \A i \in DOMAIN Tx[t].vin :
          LET prevout == Tx[t].vin[i]
              value == Tx[prevout[1]].vout[prevout[2]]
          IN  /\ IsCoinBase(prevout[1]) => Mature(prevout[1], b)
              /\ Tx[prevout[1]].nTime <= Tx[t].nTime
              /\ MoneyRange(value)
              /\ viewSpent[prevout] = Null
    /\ MoneyRange(TxValueIn(t))
    /\ Tx[t].sigOK
    /\ TxValueIn(t) - TxValueOut(t) >= TX_FEE

GetProofOfWorkReward ==
    IF nMoneySupply[hashBestChain] < MAX_MONEY
    THEN MAX_MONEY - nMoneySupply[hashBestChain]
    ELSE 0

-----------------------------------------------------------------------------
(* Where the node can be. *)

(* The static initialisers of a process that has not loaded anything. *)
MemoryLost ==
    /\ mapBlockIndex' = {}
    /\ pnext' = [b \in Blocks |-> Null]
    /\ nMoneySupply' = [b \in Blocks |-> 0]
    /\ hashBestChain' = Null
    /\ bnBestInvalidTrust' = 0
    /\ pindexFork' = Null
    /\ UNCHANGED nHeight

LoopIdle ==
    /\ k' = 0
    /\ viewPos' = [t \in Txs |-> Null]
    /\ viewSpent' = [op \in OutPoints |-> Null]
    /\ nValueIn' = 0
    /\ nValueOut' = 0

Init ==
    /\ mapBlockIndex = {}
    /\ nHeight = [b \in Blocks |-> 0]
    /\ pnext = [b \in Blocks |-> Null]
    /\ nMoneySupply = [b \in Blocks |-> 0]
    /\ hashBestChain = Null
    /\ bnBestInvalidTrust = 0
    /\ pindexFork = Null
    /\ dbIndex = {}
    /\ dbNext = [b \in Blocks |-> Null]
    /\ dbSupply = [b \in Blocks |-> 0]
    /\ dbBest = Null
    /\ dbPos = [t \in Txs |-> Null]
    /\ dbSpent = [op \in OutPoints |-> Null]
    /\ dbInvalidTrust = 0
    /\ pc = "down"
    /\ cur = Null
    /\ k = 0
    /\ viewPos = [t \in Txs |-> Null]
    /\ viewSpent = [op \in OutPoints |-> Null]
    /\ nValueIn = 0
    /\ nValueOut = 0

-----------------------------------------------------------------------------
(* Start-up and death of the process. *)

OnDiskChain(b) == b \in dbIndex /\ (dbNext[b] # Null \/ b = dbBest)

(* The blocks LoadBlockIndex's verification loop finds bad: at the default   *)
(* check level, those that CheckBlock now refuses.  The loop goes back from  *)
(* pindexBest by pprev and so visits the best chain (MainChainLinked).       *)
BadBlocks(now) ==
    {b \in Blocks : OnDiskChain(b) /\ Prev(b) # Null /\ ~CheckBlock(b, now)}

(* The loop runs from the tip down, so the lowest bad block decides.         *)
ForkPoints(now) ==
    IF BadBlocks(now) = {} THEN {Null}
    ELSE {Prev(b) : b \in {c \in BadBlocks(now) :
                             \A d \in BadBlocks(now) : nHeight[c] <= nHeight[d]}}

AfterLoad(fork) == IF fork = Null THEN "idle" ELSE "setbest"

(* bnBestInvalidTrust is read into a local variable and stays 0.  A fork     *)
(* point is handed to SetBestChain.                                          *)
LoadBlockIndex(now) ==
    /\ pc = "down"
    /\ dbBest \in dbIndex
    /\ mapBlockIndex' = dbIndex
    /\ pnext' = dbNext
    /\ nMoneySupply' = dbSupply
    /\ hashBestChain' = dbBest
    /\ pindexFork' \in ForkPoints(now)
    /\ pc' = AfterLoad(pindexFork')
    /\ cur' = pindexFork'
    /\ UNCHANGED <<nHeight, bnBestInvalidTrust, dbVars, loopVars>>

(* An index without a best-chain pointer: the node refuses to start.         *)
LoadBlockIndexFails ==
    /\ pc = "down"
    /\ dbIndex # {}
    /\ dbBest \notin dbIndex
    /\ pc' = "failed"
    /\ UNCHANGED <<memVars, dbVars, cur, loopVars>>

(* The process ends, by a crash or a shutdown. *)
Stop ==
    /\ pc # "down"
    /\ MemoryLost
    /\ pc' = "down"
    /\ cur' = Null
    /\ LoopIdle
    /\ UNCHANGED dbVars

-----------------------------------------------------------------------------
(* A block arrives. *)

(* Indexes b in memory and commits its record, then hands it to SetBestChain *)
(* when its chain is longer than the best one.                               *)
AddToBlockIndex(b) ==
    /\ mapBlockIndex' = mapBlockIndex \cup {b}
    /\ nHeight' = [nHeight EXCEPT ![b] = IF Prev(b) \in mapBlockIndex
                                         THEN nHeight[Prev(b)] + 1 ELSE 0]
    /\ dbIndex' = dbIndex \cup {b}
    /\ dbNext' = [dbNext EXCEPT ![b] = pnext[b]]
    /\ dbSupply' = [dbSupply EXCEPT ![b] = nMoneySupply[b]]
    /\ LET best == nHeight'[b] + 1 > ChainTrust(hashBestChain)
       IN  /\ pc' = IF best THEN "setbest" ELSE "idle"
           /\ cur' = IF best THEN b ELSE Null
    /\ UNCHANGED <<pnext, nMoneySupply, hashBestChain, bnBestInvalidTrust, pindexFork,
                   dbBest, dbPos, dbSpent, dbInvalidTrust, loopVars>>

(* LoadBlockIndex on an empty database creates the genesis block. *)
CreateGenesis ==
    /\ pc = "down"
    /\ dbIndex = {}
    /\ AddToBlockIndex(Genesis)

(* A fault: a block already indexed is processed again. *)
DeliverableAgain(b, now) ==
    /\ Block[b].authentic \/ Prev(b) = Genesis
    /\ CheckBlock(b, now)

(* The checks of ProcessBlock before the first use of a pprev pointer.       *)
Deliverable(b, now) ==
    /\ b \notin mapBlockIndex
    /\ Block[b].authentic \/ Prev(b) = Genesis
    /\ CheckBlock(b, now)

(* A block that fails a check, or whose parent is unknown, changes nothing.  *)
ProcessBlock(b, now) ==
    /\ pc = "idle"
    /\ Deliverable(b, now)
    /\ CheckWork(b)
    /\ ~NullDereference(b)
    /\ Prev(b) \in mapBlockIndex
    /\ AcceptBlock(b)
    /\ AddToBlockIndex(b)

ProcessBlockFaults(b, now) ==
    /\ pc = "idle"
    /\ Deliverable(b, now)
    /\ NullDereference(b)
    /\ Stop

-----------------------------------------------------------------------------
(* SetBestChain and ConnectBlock. *)

Idle ==
    /\ pc' = "idle"
    /\ cur' = Null
    /\ LoopIdle

InvalidChainFound(b) ==
    /\ IF ChainTrust(b) > bnBestInvalidTrust
       THEN /\ bnBestInvalidTrust' = ChainTrust(b)
            /\ dbInvalidTrust' = ChainTrust(b)
       ELSE UNCHANGED <<bnBestInvalidTrust, dbInvalidTrust>>
    /\ UNCHANGED <<mapBlockIndex, nHeight, pnext, nMoneySupply, hashBestChain, pindexFork,
                   dbIndex, dbNext, dbSupply, dbBest, dbPos, dbSpent>>

(* A fault: WriteHashBestChain is left out. *)
SetBestGenesisUnwritten ==
    /\ pc = "setbest"
    /\ hashBestChain = Null
    /\ cur = Genesis
    /\ hashBestChain' = Genesis
    /\ Idle
    /\ UNCHANGED <<mapBlockIndex, nHeight, pnext, nMoneySupply, bnBestInvalidTrust, pindexFork, dbVars>>

SetBestGenesis ==
    /\ pc = "setbest"
    /\ hashBestChain = Null
    /\ cur = Genesis
    /\ dbBest' = Genesis
    /\ hashBestChain' = Genesis
    /\ Idle
    /\ UNCHANGED <<mapBlockIndex, nHeight, pnext, nMoneySupply, bnBestInvalidTrust, pindexFork,
                   dbIndex, dbNext, dbSupply, dbPos, dbSpent, dbInvalidTrust>>

(* A fault: any longer chain is taken as if it continued the best one. *)
OnTipAlways(b) == TRUE

OnTip(b) == Prev(b) = hashBestChain

(* A block that does not sit on the tip is refused: chains never reorganise. *)
SetBestRefuses ==
    /\ pc = "setbest"
    /\ hashBestChain # Null
    /\ ~OnTip(cur)
    /\ Idle
    /\ UNCHANGED <<memVars, dbVars>>

(* ConnectBlock checks the block again, reading the clock again. *)
ConnectBegin(now) ==
    /\ pc = "setbest"
    /\ hashBestChain # Null
    /\ OnTip(cur)
    /\ IF CheckBlock(cur, now)
       THEN /\ pc' = "connect"
            /\ k' = 0
            /\ viewPos' = dbPos
            /\ viewSpent' = dbSpent
            /\ nValueIn' = 0
            /\ nValueOut' = 0
            /\ UNCHANGED <<cur, memVars, dbVars>>
       ELSE Idle /\ InvalidChainFound(cur)

(* The transaction the loop is at. *)
NextTx == Block[cur].vtx[k + 1]

AtTx == pc = "connect" /\ k < Len(Block[cur].vtx)

Connectable(t) ==
    /\ ~Duplicate(t)
    /\ IsCoinBase(t) \/ FetchInputs(t)

Inputs(t) == {Tx[t].vin[i] : i \in DOMAIN Tx[t].vin}

(* A fault: the spent marks are not written back to mapQueuedChanges. *)
QueuedSpentLost(t) ==
    [op \in OutPoints |-> IF op[1] = t THEN Null ELSE viewSpent[op]]

(* mapQueuedChanges after the transaction: its inputs spent, and a fresh     *)
(* index entry of its own.                                                   *)
QueuedSpent(t) ==
    [op \in OutPoints |-> IF op[1] = t THEN Null
                          ELSE IF op \in Inputs(t) THEN <<cur, t>> ELSE viewSpent[op]]

ConnectTx ==
    /\ AtTx
    /\ LET t == NextTx
       IN  /\ Connectable(t)
           /\ ValueOutInRange(t)
           /\ IsCoinBase(t) \/ ConnectInputs(t, cur)
           /\ k' = k + 1
           /\ viewPos' = [viewPos EXCEPT ![t] = cur]
           /\ viewSpent' = QueuedSpent(t)
           /\ nValueIn' = nValueIn + (IF IsCoinBase(t) THEN 0 ELSE TxValueIn(t))
           /\ nValueOut' = nValueOut + TxValueOut(t)
    /\ UNCHANGED <<memVars, dbVars, pc, cur>>

ConnectTxFails ==
    /\ AtTx
    /\ LET t == NextTx
       IN  \/ ~Connectable(t)
           \/ Connectable(t) /\ ValueOutInRange(t) /\ ~IsCoinBase(t) /\ ~ConnectInputs(t, cur)
    /\ Idle
    /\ InvalidChainFound(cur)

(* GetValueOut throws; the exception is caught by the message loop and the   *)
(* batch dies with its CTxDB object, so InvalidChainFound is not reached.    *)
ConnectTxThrows ==
    /\ AtTx
    /\ Connectable(NextTx)
    /\ ~ValueOutInRange(NextTx)
    /\ Idle
    /\ UNCHANGED <<memVars, dbVars>>

AtEnd == pc = "connect" /\ k = Len(Block[cur].vtx)

(* A fault: the coinbase is not limited. *)
RewardUnlimited == TRUE

RewardOK == TxValueOut(Block[cur].vtx[1]) <= GetProofOfWorkReward

(* One LevelDB batch: both index records, the transaction index, the tip.    *)
CommitBatch(supply) ==
    /\ dbSupply' = [dbSupply EXCEPT ![cur] = supply, ![Prev(cur)] = nMoneySupply[Prev(cur)]]
    /\ dbNext' = [dbNext EXCEPT ![cur] = pnext[cur], ![Prev(cur)] = cur]
    /\ dbBest' = cur
    /\ dbPos' = viewPos
    /\ dbSpent' = viewSpent
    /\ UNCHANGED <<dbIndex, dbInvalidTrust>>

(* A fault: pnext of the old tip is left NULL. *)
UpdateMemoryNoNext(supply) ==
    /\ nMoneySupply' = [nMoneySupply EXCEPT ![cur] = supply]
    /\ hashBestChain' = cur
    /\ UNCHANGED <<mapBlockIndex, nHeight, pnext, bnBestInvalidTrust, pindexFork>>

(* The memory index follows the commit. *)
UpdateMemory(supply) ==
    /\ nMoneySupply' = [nMoneySupply EXCEPT ![cur] = supply]
    /\ pnext' = [pnext EXCEPT ![Prev(cur)] = cur]
    /\ hashBestChain' = cur
    /\ UNCHANGED <<mapBlockIndex, nHeight, bnBestInvalidTrust, pindexFork>>

ConnectCommits ==
    /\ AtEnd
    /\ RewardOK
    /\ LET supply == nMoneySupply[Prev(cur)] + nValueOut - nValueIn
       IN  CommitBatch(supply) /\ UpdateMemory(supply)
    /\ Idle

ConnectReward ==
    /\ AtEnd
    /\ ~RewardOK
    /\ Idle
    /\ InvalidChainFound(cur)

Next ==
    \/ CreateGenesis
    \/ LoadBlockIndexFails
    \/ Stop
    \/ \E now \in Times : LoadBlockIndex(now) \/ ConnectBegin(now)
    \/ \E b \in Blocks, now \in Times : ProcessBlock(b, now) \/ ProcessBlockFaults(b, now)
    \/ SetBestGenesis
    \/ SetBestRefuses
    \/ ConnectTx
    \/ ConnectTxFails
    \/ ConnectTxThrows
    \/ ConnectCommits
    \/ ConnectReward

Spec == Init /\ [][Next]_vars

-----------------------------------------------------------------------------
(* Properties *)

(* Every variable has its type; a handler step after the first has a block   *)
(* to work on, and an idle one has none (SetBestChain is never given NULL).  *)
TypeOK ==
    /\ mapBlockIndex \in SUBSET Blocks
    /\ nHeight \in [Blocks -> Nat]
    /\ pnext \in [Blocks -> Blocks \cup {Null}]
    /\ nMoneySupply \in [Blocks -> Int]
    /\ hashBestChain \in Blocks \cup {Null}
    /\ bnBestInvalidTrust \in Nat
    /\ pindexFork \in Blocks \cup {Null}
    /\ dbIndex \in SUBSET Blocks
    /\ dbNext \in [Blocks -> Blocks \cup {Null}]
    /\ dbSupply \in [Blocks -> Int]
    /\ dbBest \in Blocks \cup {Null}
    /\ dbPos \in [Txs -> Blocks \cup {Null}]
    /\ dbSpent \in [OutPoints -> (Blocks \X Txs) \cup {Null}]
    /\ dbInvalidTrust \in Nat
    /\ pc \in {"down", "failed", "idle", "setbest", "connect"}
    /\ cur \in Blocks \cup {Null}
    /\ cur # Null <=> pc \in {"setbest", "connect"}
    /\ k \in Nat
    /\ viewPos \in [Txs -> Blocks \cup {Null}]
    /\ viewSpent \in [OutPoints -> (Blocks \X Txs) \cup {Null}]
    /\ nValueIn \in Int
    /\ nValueOut \in Int

(* GetProofOfWorkReward's cap works: no block record, in memory or on disk,  *)
(* ever carries a money supply above MAX_MONEY.                              *)
SupplyWithinLimit ==
    \A b \in Blocks : nMoneySupply[b] <= MAX_MONEY /\ dbSupply[b] <= MAX_MONEY

Unspent == {op \in OutPoints : dbPos[op[1]] # Null /\ dbSpent[op] = Null}

(* The ledger the node implements: its state is what a restart would read.   *)
Abstract == INSTANCE Ledger WITH tip <- dbBest, utxo <- Unspent

(* The running nMoneySupply of the tip, kept by ConnectBlock from the sums   *)
(* of each block, is the value of the unspent outputs of the transaction     *)
(* index, whatever fees were burned and transactions mined twice.            *)
SupplyMatchesUnspent ==
    dbBest # Null => dbSupply[dbBest] = Abstract!Value(Unspent)

(* While the process runs, the index in memory is the one on disk, so that a *)
(* crash at any point restarts the node from the state it had.               *)
DiskMemoryAgree ==
    pc \in {"idle", "setbest", "connect"} =>
        /\ mapBlockIndex = dbIndex
        /\ pnext = dbNext
        /\ nMoneySupply = dbSupply
        /\ hashBestChain = dbBest

(* index.h: pnext is set exactly along the longest chain.  Going back from   *)
(* the tip by pprev and forward by pnext gives the same blocks, numbered     *)
(* without a gap.                                                            *)
MainChainLinked ==
    /\ hashBestChain # Null => pnext[hashBestChain] = Null
    /\ \A b \in Blocks :
          /\ pnext[b] # Null => Prev(pnext[b]) = b /\ IsInMainChain(pnext[b])
          /\ IsInMainChain(b) /\ b # Genesis =>
                /\ IsInMainChain(Prev(b))
                /\ pnext[Prev(b)] = b
                /\ nHeight[b] = nHeight[Prev(b)] + 1

(* LoadBlockIndex check levels 3, 4 and 6: a transaction's position is a     *)
(* main-chain block that contains it; a spent mark names a main-chain block, *)
(* not below the output's own, and a transaction in it that consumes it.     *)
(* ConnectInputs' depth loop: a coinbase output is spent only in a block at  *)
(* least nCoinbaseMaturity above the one that created it.                    *)
SpendsJustified ==
    /\ \A t \in Txs : dbPos[t] # Null =>
          OnDiskChain(dbPos[t]) /\ t \in Range(Block[dbPos[t]].vtx)
    /\ \A op \in OutPoints : dbSpent[op] # Null =>
          /\ OnDiskChain(dbSpent[op][1])
          /\ dbPos[op[1]] # Null
          /\ nHeight[dbSpent[op][1]] - nHeight[dbPos[op[1]]] >=
                IF IsCoinBase(op[1]) THEN nCoinbaseMaturity ELSE 0
          /\ dbSpent[op][2] \in Range(Block[dbSpent[op][1]].vtx)
          /\ op \in Inputs(dbSpent[op][2])

(* LoadBlockIndex refuses a database only when the process died between the  *)
(* two commits that create the genesis block.                                *)
LoadFailsOnlyInGenesisWindow ==
    pc = "failed" => dbIndex = {Genesis} /\ dbBest = Null

(* The best chain on disk only grows by one block on its tip: SetBestChain   *)
(* has no reorganisation, and neither a crash nor LoadBlockIndex moves it.   *)
BestOnlyExtends == [][dbBest' = dbBest \/ Prev(dbBest') = dbBest]_vars

(* A block that is indexed, not connected and not being processed is never   *)
(* processed again nor connected: ProcessBlock turns it away as known, so    *)
(* one whose process died between AddToBlockIndex's commit and SetBestChain's *)
(* is lost.                                                                  *)
NeverJoinsLater ==
    [][\A b \in dbIndex : ~OnDiskChain(b) /\ cur # b => cur' # b /\ ~OnDiskChain(b)']_vars

(* A spent mark in the transaction index is changed only by a block that     *)
(* contains the same transaction again, which ConnectBlock allows once all   *)
(* its outputs are spent.                                                    *)
SpentIsFinal ==
    [][\A op \in OutPoints :
          dbSpent[op] # Null /\ dbSpent'[op] # dbSpent[op] =>
              /\ dbPos'[op[1]] = dbBest'
              /\ \A n \in DOMAIN Tx[op[1]].vout : dbSpent[<<op[1], n>>] # Null]_vars

(* ConnectBlock's loop, its queued changes, its single commit and crashes    *)
(* anywhere in between look, on disk, like whole blocks applied atomically.  *)
ImplementsLedger == Abstract!Spec
============================================================================
