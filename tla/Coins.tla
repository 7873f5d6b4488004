------------------------------- MODULE Coins -------------------------------
(***************************************************************************)
(* The coins of a wallet: mapWallet with its flags of spent outputs and    *)
(* its cached credit, beside the chain that grows under it, the memory     *)
(* pool and wallet.dat.  Transactions come in blocks (ConnectBlock tells   *)
(* the wallet before it commits), from peers, from this wallet and from    *)
(* copies of it; keys are imported, wallet.dat is copied and put back,     *)
(* repairwallet runs, and the process ends at any point.                   *)
(*                                                                         *)
(* Every handler writes the records it changes, so mapWallet stands for    *)
(* wallet.dat too while the process is down.  AddToWallet writes the       *)
(* record of the transaction before those of the coins it spends, and the  *)
(* process may end in between.  An amount is the set of coins it sums.     *)
(***************************************************************************)
EXTENDS Integers, Sequences, FiniteSets, Functions

CONSTANTS
    Tx,             \* transactions
    vin,            \* for each, the outpoints <<tx, n>> it spends
    vout,           \* for each, the keys its outputs pay to, in order
    CoinBases,      \* the ones that are coinbases
    Payments,       \* the ones this wallet may make
    Block,          \* blocks with prev and vtx
    Genesis, None,
    OwnKeys,        \* keys of a new wallet
    ImportKeys,     \* keys a user may import
    nCoinbaseMaturity,
    BackupHeight    \* bound on when wallet.dat is copied

COPY_DEPTH == 3

ASSUME TxAssumption ==
    /\ IsFiniteSet(Tx)
    /\ DOMAIN vin = Tx /\ DOMAIN vout = Tx
    /\ CoinBases \subseteq Tx /\ Payments \subseteq Tx \ CoinBases
    /\ \A t \in Tx : \A o \in vin[t] : \E p \in Tx : \E n \in DOMAIN vout[p] : o = <<p, n>>
ASSUME BlockAssumption ==
    /\ None \notin DOMAIN Block \cup {Genesis}
    /\ \A b \in DOMAIN Block : Block[b].prev \in DOMAIN Block \cup {Genesis} /\ Block[b].vtx \in Seq(Tx)

VARIABLES
    alive,
    chain,          \* the best chain after the genesis block
    indexed,        \* blocks of the index: each is tried once
    connecting,     \* the block in ConnectBlock and how many of its transactions the wallet has seen
    pool,           \* mempool.mapTx
    mapWallet,      \* CWalletTx: hashBlock, the outputs flagged in vfSpent, vtxPrev with their hashBlock
    keys,           \* of the key store
    cached,         \* nAvailableCreditCached for the transactions that have it
    backup,         \* a copy of wallet.dat made earlier
    restored,       \* history: that copy was put in place and the chain not scanned since
    made            \* history: the payments made, each once

history == <<restored, made>>
vars == <<alive, chain, indexed, connecting, pool, mapWallet, keys, cached, backup, history>>

-----------------------------------------------------------------------------
(* The chain *)

NotConnecting == [block |-> None, done |-> 0]

hashBestChain == IF chain = <<>> THEN Genesis ELSE chain[Len(chain)]

(* The transactions of the index. *)
ChainTxs == UNION {Range(Block[b].vtx) : b \in Range(chain)}

InChain(t) == \E b \in Range(chain) : t \in Range(Block[b].vtx)

(* CTxIndex.vSpent *)
SpentInChain(o) == \E t \in ChainTxs : o \in vin[t]

(* GetDepthInMainChain of a transaction that claims to be in block b. *)
GetDepthInMainChain(b) ==
    IF b \in Range(chain) THEN Len(chain) + 1 - CHOOSE i \in DOMAIN chain : chain[i] = b ELSE 0

(* SetMerkleBranch(): the block the index knows for t, or the one already    *)
(* noted.                                                                    *)
BlockOf(t, noted) ==
    IF InChain(t) THEN CHOOSE b \in Range(chain) : t \in Range(Block[b].vtx) ELSE noted

Parents(ts) == {o[1] : o \in UNION {vin[t] : t \in ts}}

(* FetchInputs and ConnectInputs for t after the transactions of known. *)
Connects(t, known) ==
    /\ \A o \in vin[t] : o[1] \in known /\ ~\E u \in known : o \in vin[u]
    /\ \A p \in Parents({t}) \cap CoinBases : GetDepthInMainChain(BlockOf(p, None)) >= nCoinbaseMaturity

ConnectsAll(txs) ==
    \A i \in DOMAIN txs :
        LET known == ChainTxs \cup {txs[j] : j \in 1..(i - 1)}
        IN  txs[i] \notin known /\ Connects(txs[i], known)

-----------------------------------------------------------------------------
(* The wallet, for given contents w and keys ks *)

IsMine(ks, o) == vout[o[1]][o[2]] \in ks

Outputs(t) == {<<t, n>> : n \in DOMAIN vout[t]}

(* GetDebit *)
GetDebit(w, ks, t) == {o \in vin[t] : o[1] \in DOMAIN w /\ IsMine(ks, o)}

IsFromMe(w, ks, t) == GetDebit(w, ks, t) # {}

Involves(w, ks, t) == t \in DOMAIN w \/ (\E o \in Outputs(t) : IsMine(ks, o)) \/ IsFromMe(w, ks, t)

(* WalletUpdateSpent *)
WalletUpdateSpent(w, ks, t) ==
    [u \in DOMAIN w |-> [w[u] EXCEPT !.spent = @ \cup {n \in DOMAIN vout[u] : <<u, n>> \in GetDebit(w, ks, t)}]]

NewTx(b) == [hashBlock |-> b, spent |-> {}, vtxPrev |-> <<>>]

(* The first part of AddToWallet: the record is inserted or merged. *)
Merge(w, t, wtx) ==
    [u \in DOMAIN w \cup {t} |->
        IF u # t THEN w[u]
        ELSE IF t \notin DOMAIN w THEN wtx
        ELSE [w[t] EXCEPT !.hashBlock = IF wtx.hashBlock = None THEN @ ELSE wtx.hashBlock]]

(* A fault: the coins are flagged before the record is there. *)
FlagsFirst(w, ks, t, wtx) == WalletUpdateSpent(w, ks, t)

(* What AddToWallet has written when the process ends before                 *)
(* WalletUpdateSpent.                                                        *)
Recorded(w, ks, t, wtx) == Merge(w, t, wtx)

AddToWallet(w, ks, t, wtx) == WalletUpdateSpent(Merge(w, t, wtx), ks, t)

AddToWalletIfInvolvingMe(w, ks, t, b, fUpdate) ==
    IF t \in DOMAIN w /\ ~fUpdate THEN w
    ELSE IF Involves(w, ks, t) THEN AddToWallet(w, ks, t, NewTx(b))
    ELSE WalletUpdateSpent(w, ks, t)

(* The transactions of a block of the chain, in its order. *)
ScanBlock(w, ks, b, fUpdate) ==
    LET seen[i \in 0..Len(Block[b].vtx)] ==
          IF i = 0 THEN w ELSE AddToWalletIfInvolvingMe(seen[i - 1], ks, Block[b].vtx[i], b, fUpdate)
    IN  seen[Len(Block[b].vtx)]

(* ScanForWalletTransactions from the genesis block. *)
Scan(w, ks, fUpdate) ==
    LET scanned[i \in 0..Len(chain)] ==
          IF i = 0 THEN w ELSE ScanBlock(scanned[i - 1], ks, chain[i], fUpdate)
    IN  scanned[Len(chain)]

(* A fault: the index is not looked at. *)
SpentByFlags(w, ks) == w

(* A pass of ReacceptWalletTransactions over what is in the chain. *)
SpentByIndex(w, ks) ==
    [t \in DOMAIN w |->
        IF ~InChain(t) \/ (t \in CoinBases /\ 1 \in w[t].spent) THEN w[t]
        ELSE [w[t] EXCEPT !.spent = @ \cup {n \in DOMAIN vout[t] : SpentInChain(<<t, n>>) /\ IsMine(ks, <<t, n>>)}]]

(* ReacceptWalletTransactions: passes until none finds a coin that was spent *)
(* elsewhere, or the scan that follows finds no new transaction.             *)
Reaccept(w, ks) ==
    LET pass[k \in 0..Cardinality(Tx)] ==
          LET before == IF k = 0 THEN w ELSE pass[k - 1]
              marked == SpentByIndex(before, ks)
          IN  IF marked = before THEN before ELSE Scan(marked, ks, FALSE)
    IN  pass[Cardinality(Tx)]

(* AddSupportingTransactions: ancestors, up to those COPY_DEPTH deep.  What  *)
(* a vtxPrev holds is in the wallet or the chain as well.                    *)
Supporting(w, t) ==
    LET depth(u) == GetDepthInMainChain(BlockOf(u, IF u \in DOMAIN w THEN w[u].hashBlock ELSE None))
        known(us) == {u \in us : u \in DOMAIN w \/ InChain(u)}
        queue[k \in 0..Cardinality(Tx)] ==
          IF k = 0 THEN known(Parents({t}))
          ELSE LET q == queue[k - 1] IN q \cup known(Parents({u \in q : depth(u) < COPY_DEPTH}))
    IN  [u \in queue[Cardinality(Tx)] |-> BlockOf(u, IF u \in DOMAIN w THEN w[u].hashBlock ELSE None)]

(* IsConfirmed: in the chain, or from this wallet with ancestors that are. *)
IsConfirmed(w, ks, t) ==
    LET prev == w[t].vtxPrev
        deep(u) == GetDepthInMainChain(IF u = t THEN w[t].hashBlock ELSE prev[u]) > 0
        queue[k \in 0..Cardinality(Tx)] ==
          IF k = 0 THEN {t}
          ELSE LET q == queue[k - 1] IN q \cup (DOMAIN prev \cap Parents({u \in q : ~deep(u)}))
    IN  \A u \in queue[Cardinality(Tx)] :
            deep(u) \/ (IsFromMe(w, ks, u) /\ Parents({u}) \subseteq DOMAIN prev)

Mature(w, t) == t \in CoinBases => GetDepthInMainChain(w[t].hashBlock) >= 2 * nCoinbaseMaturity

(* GetAvailableCredit, computed anew. *)
GetAvailableCredit(w, ks, t) == {o \in Outputs(t) : o[2] \notin w[t].spent /\ IsMine(ks, o)}

AvailableCoins ==
    UNION {GetAvailableCredit(mapWallet, keys, t) :
              t \in {u \in DOMAIN mapWallet : IsConfirmed(mapWallet, keys, u) /\ Mature(mapWallet, u)}}

(* FixSpentCoins *)
FixSpentCoins(w, ks) ==
    [t \in DOMAIN w |->
        IF ~InChain(t) THEN w[t]
        ELSE [w[t] EXCEPT !.spent = {n \in DOMAIN vout[t] : IF IsMine(ks, <<t, n>>) THEN SpentInChain(<<t, n>>) ELSE n \in @}]]

(* A fault: MarkUnspent leaves the cached credit. *)
StillCachedUnspent(new, bound) ==
    [t \in {u \in DOMAIN cached : u \notin bound /\ new[u].spent \subseteq mapWallet[u].spent} |-> cached[t]]

(* MarkSpent and MarkUnspent drop the cached credit when they change a flag, *)
(* BindWallet drops it always.                                               *)
StillCached(new, bound) ==
    [t \in {u \in DOMAIN cached : u \notin bound /\ new[u].spent = mapWallet[u].spent} |-> cached[t]]

-----------------------------------------------------------------------------
(* The memory pool *)

(* CTxMemPool::accept with checked inputs. *)
Acceptable(t) ==
    /\ t \notin CoinBases
    /\ t \notin pool
    /\ ~InChain(t)
    /\ Connects(t, ChainTxs \cup pool)

ConflictFree(ts) == \A t, u \in ts : t # u => vin[t] \cap vin[u] = {}

(* The pools ReacceptWalletTransactions may leave: what is not in the chain  *)
(* is accepted without a look at its inputs, in the order of the hashes.     *)
PoolsAfter(before, w) ==
    LET own == {t \in DOMAIN w : ~InChain(t)}
        all == {t \in own \cup UNION {DOMAIN w[u].vtxPrev : u \in own} : ~InChain(t) /\ t \notin CoinBases}
    IN  {p \in SUBSET (before \cup all) :
            /\ before \subseteq p
            /\ ConflictFree(p)
            /\ \A t \in all \ p : ~ConflictFree(p \cup {t})}

-----------------------------------------------------------------------------
(* Actions *)

(* The process is gone; mapWallet is what wallet.dat holds then. *)
Dead ==
    /\ alive' = FALSE
    /\ connecting' = NotConnecting
    /\ pool' = {}
    /\ cached' = <<>>

Free == alive /\ connecting = NotConnecting

Exists(t) == t \in Payments => t \in made

(* AcceptBlock indexes the block, and ConnectBlock begins if it can be       *)
(* connected.  Its writes wait in the batch.                                 *)
ConnectBegin(b) ==
    /\ Free
    /\ b \notin indexed
    /\ Block[b].prev = hashBestChain
    /\ \A t \in Range(Block[b].vtx) : Exists(t)
    /\ indexed' = indexed \cup {b}
    /\ connecting' = IF ConnectsAll(Block[b].vtx) THEN [block |-> b, done |-> 0] ELSE NotConnecting
    /\ UNCHANGED <<alive, chain, pool, mapWallet, keys, cached, backup, history>>

(* SyncWithWallets for the next transaction of the block. *)
SyncWithWallets ==
    /\ connecting # NotConnecting
    /\ connecting.done < Len(Block[connecting.block].vtx)
    /\ LET t == Block[connecting.block].vtx[connecting.done + 1]
       IN  \/ /\ mapWallet' = AddToWalletIfInvolvingMe(mapWallet, keys, t, connecting.block, TRUE)
              /\ cached' = StillCached(mapWallet', {t})
              /\ connecting' = [connecting EXCEPT !.done = @ + 1]
              /\ UNCHANGED <<alive, pool>>
           \/ /\ Involves(mapWallet, keys, t)
              /\ mapWallet' = Recorded(mapWallet, keys, t, NewTx(connecting.block))
              /\ Dead
    /\ UNCHANGED <<chain, indexed, keys, backup, history>>

(* A fault: the batch is committed before the wallet hears of the block. *)
CommitsFirst ==
    /\ connecting # NotConnecting
    /\ connecting.done = 0
    /\ hashBestChain # connecting.block
    /\ chain' = Append(chain, connecting.block)
    /\ pool' = pool \ Range(Block[connecting.block].vtx)
    /\ UNCHANGED <<alive, indexed, connecting, mapWallet, keys, cached, backup, history>>

(* SetBestChainInner commits the batch and clears the pool of the block. *)
ConnectCommits ==
    /\ connecting # NotConnecting
    /\ connecting.done = Len(Block[connecting.block].vtx)
    /\ chain' = Append(chain, connecting.block)
    /\ pool' = pool \ Range(Block[connecting.block].vtx)
    /\ connecting' = NotConnecting
    /\ UNCHANGED <<alive, indexed, mapWallet, keys, cached, backup, history>>

(* A transaction from a peer is accepted and shown to the wallet. *)
ReceiveTx(t) ==
    /\ Free
    /\ Exists(t)
    /\ Acceptable(t)
    /\ \/ /\ pool' = pool \cup {t}
          /\ mapWallet' = AddToWalletIfInvolvingMe(mapWallet, keys, t, None, TRUE)
          /\ cached' = StillCached(mapWallet', {t})
          /\ UNCHANGED <<alive, connecting>>
       \/ /\ Involves(mapWallet, keys, t)
          /\ mapWallet' = Recorded(mapWallet, keys, t, NewTx(None))
          /\ Dead
    /\ UNCHANGED <<chain, indexed, keys, backup, history>>

(* CreateTransaction with coins it was offered, and CommitTransaction. *)
SendMoney(t) ==
    /\ Free
    /\ t \in Payments \ made
    /\ vin[t] \subseteq AvailableCoins
    /\ made' = made \cup {t}
    /\ LET wtx == [NewTx(None) EXCEPT !.vtxPrev = Supporting(mapWallet, t)]
       IN  \/ /\ mapWallet' = AddToWallet(mapWallet, keys, t, wtx)
              /\ cached' = StillCached(mapWallet', {t} \cup Parents({t}))
              /\ pool' = IF Acceptable(t) THEN pool \cup {t} ELSE pool
              /\ UNCHANGED <<alive, connecting>>
           \/ mapWallet' = Recorded(mapWallet, keys, t, wtx) /\ Dead
    /\ UNCHANGED <<chain, indexed, keys, backup, restored>>

(* importprivkey *)
ImportPrivKey(k) ==
    /\ Free
    /\ k \notin keys
    /\ keys' = keys \cup {k}
    /\ mapWallet' = Reaccept(Scan(mapWallet, keys', TRUE), keys')
    /\ cached' = <<>>
    /\ pool' \in PoolsAfter(pool, mapWallet')
    /\ restored' = FALSE
    /\ UNCHANGED <<alive, chain, indexed, connecting, backup, made>>

RepairWallet ==
    /\ Free
    /\ mapWallet' = FixSpentCoins(mapWallet, keys)
    /\ cached' = StillCached(mapWallet', {})
    /\ UNCHANGED <<alive, chain, indexed, connecting, pool, keys, backup, history>>

(* GetBalance and GetUnconfirmedBalance together look at every transaction. *)
GetBalance ==
    /\ Free
    /\ LET ts == {t \in DOMAIN mapWallet : Mature(mapWallet, t)}
       IN  cached' = [t \in DOMAIN cached \cup ts |->
                        IF t \in DOMAIN cached THEN cached[t] ELSE GetAvailableCredit(mapWallet, keys, t)]
    /\ UNCHANGED <<alive, chain, indexed, connecting, pool, mapWallet, keys, backup, history>>

NoBackup == [mapWallet |-> <<>>, keys |-> OwnKeys]

(* A copy is made while the chain has BackupHeight blocks and before the     *)
(* first payment, and is used once.                                          *)
BackupWallet ==
    /\ Free
    /\ backup = NoBackup
    /\ Len(chain) = BackupHeight
    /\ made = {}
    /\ backup' = [mapWallet |-> mapWallet, keys |-> keys]
    /\ UNCHANGED <<alive, chain, indexed, connecting, pool, mapWallet, keys, cached, history>>

(* A shutdown or a crash: a block whose batch is not committed is lost. *)
Die ==
    /\ alive
    /\ Dead
    /\ UNCHANGED <<chain, indexed, mapWallet, keys, backup, history>>

(* The user puts the copy in the place of wallet.dat. *)
Restore ==
    /\ ~alive
    /\ backup # NoBackup
    /\ mapWallet' = backup.mapWallet
    /\ keys' = backup.keys
    /\ backup' = NoBackup
    /\ restored' = TRUE
    /\ UNCHANGED <<alive, chain, indexed, connecting, pool, cached, made>>

(* AppInit2 from LoadWallet on, with or without -rescan. *)
Start(fRescan) ==
    /\ ~alive
    /\ alive' = TRUE
    /\ mapWallet' = Reaccept(IF fRescan THEN Scan(mapWallet, keys, TRUE) ELSE mapWallet, keys)
    /\ pool' \in PoolsAfter({}, mapWallet')
    /\ restored' = (restored /\ ~fRescan)
    /\ UNCHANGED <<chain, indexed, connecting, keys, cached, backup, made>>

Init ==
    /\ alive = FALSE
    /\ chain = <<>>
    /\ indexed = {}
    /\ connecting = NotConnecting
    /\ pool = {}
    /\ mapWallet = <<>>
    /\ keys = OwnKeys
    /\ cached = <<>>
    /\ backup = NoBackup
    /\ restored = FALSE
    /\ made = {}

Next ==
    \/ \E b \in DOMAIN Block : ConnectBegin(b)
    \/ SyncWithWallets
    \/ ConnectCommits
    \/ \E t \in Tx : ReceiveTx(t) \/ SendMoney(t)
    \/ \E k \in ImportKeys : ImportPrivKey(k)
    \/ RepairWallet
    \/ GetBalance
    \/ BackupWallet
    \/ Die
    \/ Restore
    \/ \E fRescan \in BOOLEAN : Start(fRescan)

Spec == Init /\ [][Next]_vars

-----------------------------------------------------------------------------
(* Properties *)

(* No payment is offered a coin that the chain has spent, whoever spent it   *)
(* and whatever came before: a copy of the wallet, a restored backup, an     *)
(* imported key, a block lost in a crash, repairwallet.  The exception is a  *)
(* coinbase whose first output is flagged already: ReacceptWalletTransac-    *)
(* tions passes over it, so another output of it that was spent elsewhere    *)
(* stays unflagged.                                                          *)
NoSpentCoinOffered ==
    alive => \A o \in AvailableCoins :
                SpentInChain(o) => o[1] \in CoinBases /\ 1 \in mapWallet[o[1]].spent

(* ConnectBlock tells the wallet before it commits, so a crash cannot leave  *)
(* a block in the chain that the wallet has not seen: every transaction of   *)
(* the chain that involves the wallet is in mapWallet, with its block.  A    *)
(* restored backup may lack some until -rescan or an import has scanned the  *)
(* chain.                                                                    *)
ChainCoinsKnown ==
    ~restored => \A t \in ChainTxs :
                    Involves(mapWallet, keys, t) =>
                        t \in DOMAIN mapWallet /\ mapWallet[t].hashBlock = BlockOf(t, None)

(* A coin is flagged as spent only if a transaction that spends it is in the *)
(* wallet or the chain, in wallet.dat as well, because AddToWallet writes    *)
(* the transaction before the flags of its coins: a crash takes no coin out  *)
(* of the balance for good.                                                  *)
SpentHasSpender ==
    \A t \in DOMAIN mapWallet : \A n \in mapWallet[t].spent :
        \E u \in DOMAIN mapWallet \cup ChainTxs : <<t, n>> \in vin[u]

(* The cached credit GetBalance adds up is the credit it would compute.      *)
(* importprivkey changes what is the wallet's own; repairwallet clears       *)
(* flags; both drop the cached values.                                       *)
CreditCacheCoherent ==
    \A t \in DOMAIN cached :
        t \in DOMAIN mapWallet /\ cached[t] = GetAvailableCredit(mapWallet, keys, t)
=============================================================================
