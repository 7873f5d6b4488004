------------------------------- MODULE TxPool -------------------------------
(***************************************************************************)
(* Unconfirmed transactions: the memory pool, the orphan transactions, and *)
(* the handler of the "tx" message that moves orphans to the pool once     *)
(* their inputs are there.  The chain is seen as the pool sees it, through *)
(* the transaction index: the transactions it has and the outputs spent.   *)
(*                                                                         *)
(* The handler runs under cs_main.  It is cut into its iterations, between *)
(* which nothing else runs; the order in which it meets the orphans of one *)
(* parent (their hashes' order) is left open.                              *)
(***************************************************************************)
EXTENDS Integers, Sequences, FiniteSets

CONSTANTS
    Txs,                        \* transaction hashes
    Tx,                         \* contents of every transaction, see TxData
    Mined,                      \* the transactions in the chain at start-up
    Null,
    MAX_ORPHAN_TRANSACTIONS

(* vin: the outpoints spent.  nOut: how many outputs.  standard: passes the  *)
(* checks of accept that need no inputs.  valid: passes those on its inputs  *)
(* that do not change with time (scripts, amounts, fee).  small: at most     *)
(* 5000 bytes.                                                               *)
TxData == [vin : SUBSET (Txs \X (Nat \ {0})), nOut : Nat,
           standard : BOOLEAN, valid : BOOLEAN, small : BOOLEAN]

ASSUME TxAssumption == Tx \in [Txs -> TxData] /\ Mined \subseteq Txs
ASSUME NullAssumption == Null \notin Txs
ASSUME OrphanAssumption == MAX_ORPHAN_TRANSACTIONS \in Nat

VARIABLES
    mapTx,                          \* the pool
    mapNextTx,                      \* for each outpoint the pool transaction that spends it
    mapOrphanTransactions,
    mapOrphanTransactionsByPrev,
    txindex,                        \* transactions in the chain
    vSpent,                         \* outpoints spent in the chain
    vWorkQueue,                     \* the handler's locals
    i,
    todo,                           \* orphans of vWorkQueue[i] not yet looked at
    vEraseQueue,
    unchecked,                      \* history: accepted without a look at their inputs
    quiet                           \* history: reached the pool or the chain by no "tx" message

handler == <<vWorkQueue, i, todo, vEraseQueue>>
pool == <<mapTx, mapNextTx>>
orphans == <<mapOrphanTransactions, mapOrphanTransactionsByPrev>>
chain == <<txindex, vSpent>>
history == <<unchecked, quiet>>
vars == <<pool, orphans, chain, handler, history>>

OutPoints == UNION {Tx[t].vin : t \in Txs}

Parents(t) == {op[1] : op \in Tx[t].vin}

-----------------------------------------------------------------------------
(* CTxMemPool *)

(* Why accept does not take a transaction, or that it does. *)
Missing(t) == \E p \in Parents(t) : p \notin txindex /\ p \notin mapTx

Known(t) == t \in mapTx \/ t \in txindex

(* A fault: a transaction may spend what another one in the pool spends. *)
ConflictIgnored(t) == FALSE

Conflict(t) == \E op \in Tx[t].vin : mapNextTx[op] # Null

Spendable(t) == \A op \in Tx[t].vin : op[2] <= Tx[op[1]].nOut /\ op \notin vSpent

Refused(t) == ~Tx[t].standard \/ Known(t) \/ Conflict(t)

accept(t) ==
    IF Refused(t) THEN "rejected"
    ELSE IF Missing(t) THEN "missing"
    ELSE IF Tx[t].valid /\ Spendable(t) THEN "accepted" ELSE "rejected"

addUnchecked(t) ==
    /\ mapTx' = mapTx \cup {t}
    /\ mapNextTx' = [op \in OutPoints |-> IF op \in Tx[t].vin THEN t ELSE mapNextTx[op]]

(* A fault: pool entries in conflict with the block go too, their children   *)
(* stay.                                                                     *)
removeConflicts(ts) ==
    LET gone == {t \in mapTx : \E u \in ts : Tx[t].vin \cap Tx[u].vin # {}}
    IN  /\ mapTx' = mapTx \ gone
        /\ mapNextTx' = [op \in OutPoints |-> IF mapNextTx[op] \in gone THEN Null ELSE mapNextTx[op]]

(* remove, for each of the transactions of a block. *)
remove(ts) ==
    /\ mapTx' = mapTx \ ts
    /\ mapNextTx' = [op \in OutPoints |->
                       IF \E t \in ts \cap mapTx : op \in Tx[t].vin THEN Null ELSE mapNextTx[op]]

-----------------------------------------------------------------------------
(* Orphans *)

ByPrevWith(t) ==
    [p \in Txs |-> mapOrphanTransactionsByPrev[p] \cup (IF p \in Parents(t) THEN {t} ELSE {})]

(* A fault: the index by parent keeps what was erased. *)
EraseOrphansByHash(byPrev, ts) == byPrev

(* The index by parent after EraseOrphanTx of each of ts. *)
EraseOrphans(byPrev, ts) == [p \in Txs |-> byPrev[p] \ ts]

(* LimitOrphanTxSize: what it may erase from os, which is at most one over.  *)
LimitOrphanTxSize(os) ==
    IF Cardinality(os) > MAX_ORPHAN_TRANSACTIONS THEN {{o} : o \in os} ELSE {{}}

(* AddOrphanTx, then LimitOrphanTxSize. *)
AddOrphan(t) ==
    LET added == t \notin mapOrphanTransactions /\ Tx[t].small
        os == IF added THEN mapOrphanTransactions \cup {t} ELSE mapOrphanTransactions
    IN  \E evicted \in LimitOrphanTxSize(os) :
          /\ mapOrphanTransactions' = os \ evicted
          /\ mapOrphanTransactionsByPrev' =
                EraseOrphans(IF added THEN ByPrevWith(t) ELSE mapOrphanTransactionsByPrev, evicted)

-----------------------------------------------------------------------------
(* The "tx" message *)

Idle == vWorkQueue = <<>>

HandlerDone ==
    /\ vWorkQueue' = <<>>
    /\ i' = 0
    /\ todo' = {}
    /\ vEraseQueue' = {}

TxAccepted(t) ==
    /\ Idle
    /\ accept(t) = "accepted"
    /\ addUnchecked(t)
    /\ vWorkQueue' = <<t>>
    /\ i' = 1
    /\ todo' = mapOrphanTransactionsByPrev[t]
    /\ vEraseQueue' = {t}
    /\ UNCHANGED <<orphans, chain, history>>

TxMissing(t) ==
    /\ Idle
    /\ accept(t) = "missing"
    /\ AddOrphan(t)
    /\ UNCHANGED <<pool, chain, handler, history>>

TxRejected(t) ==
    /\ Idle
    /\ accept(t) = "rejected"
    /\ UNCHANGED vars

(* A fault: orphans of the accepted orphan are not looked at. *)
PushWorkOnce(o) == vWorkQueue

PushWork(o) == Append(vWorkQueue, o)

(* One orphan that depends on vWorkQueue[i]. *)
TryOrphan(o) ==
    /\ o \in todo
    /\ todo' = todo \ {o}
    /\ \/ /\ accept(o) = "accepted"
          /\ addUnchecked(o)
          /\ vWorkQueue' = PushWork(o)
          /\ vEraseQueue' = vEraseQueue \cup {o}
       \/ /\ accept(o) = "rejected"
          /\ vEraseQueue' = vEraseQueue \cup {o}
          /\ UNCHANGED <<pool, vWorkQueue>>
       \/ /\ accept(o) = "missing"
          /\ UNCHANGED <<pool, vWorkQueue, vEraseQueue>>
    /\ UNCHANGED <<orphans, chain, i, history>>

NextParent ==
    /\ todo = {}
    /\ i < Len(vWorkQueue)
    /\ i' = i + 1
    /\ todo' = mapOrphanTransactionsByPrev[vWorkQueue[i + 1]]
    /\ UNCHANGED <<pool, orphans, chain, vWorkQueue, vEraseQueue, history>>

EraseQueue ==
    /\ ~Idle
    /\ todo = {}
    /\ i = Len(vWorkQueue)
    /\ mapOrphanTransactions' = mapOrphanTransactions \ vEraseQueue
    /\ mapOrphanTransactionsByPrev' = EraseOrphans(mapOrphanTransactionsByPrev, vEraseQueue)
    /\ HandlerDone
    /\ UNCHANGED <<pool, chain, history>>

-----------------------------------------------------------------------------
(* Other ways in and out *)

(* A transaction of the wallet, or of sendrawtransaction when asked to check *)
(* inputs.  There is no look at the orphans that wait for it.                *)
AcceptLocal(t) ==
    /\ Idle
    /\ accept(t) = "accepted"
    /\ addUnchecked(t)
    /\ quiet' = quiet \cup {t}
    /\ UNCHANGED <<orphans, chain, handler, unchecked>>

(* sendrawtransaction when not asked to check inputs, and the transactions   *)
(* of the wallet that are not in the chain when it is loaded.                *)
AcceptUnchecked(t) ==
    /\ Idle
    /\ ~Refused(t)
    /\ addUnchecked(t)
    /\ unchecked' = unchecked \cup {t}
    /\ quiet' = quiet \cup {t}
    /\ UNCHANGED <<orphans, chain, handler>>

(* A block with the transactions ts that ConnectBlock accepts.  It need not  *)
(* contain what the pool has, and conflicting pool entries stay.             *)
ConnectBlock(ts) ==
    /\ Idle
    /\ ts \cap txindex = {}
    /\ \A t \in ts : Tx[t].valid
    /\ \A t \in ts : \A op \in Tx[t].vin :
          /\ op[1] \in txindex \cup ts
          /\ op[2] <= Tx[op[1]].nOut
          /\ op \notin vSpent
          /\ \A u \in ts : op \in Tx[u].vin => u = t
    /\ txindex' = txindex \cup ts
    /\ vSpent' = vSpent \cup UNION {Tx[t].vin : t \in ts}
    /\ remove(ts)
    /\ quiet' = quiet \cup (ts \ mapTx)
    /\ UNCHANGED <<orphans, handler, unchecked>>

Init ==
    /\ mapTx = {}
    /\ mapNextTx = [op \in OutPoints |-> Null]
    /\ mapOrphanTransactions = {}
    /\ mapOrphanTransactionsByPrev = [t \in Txs |-> {}]
    /\ txindex = Mined
    /\ vSpent = {}
    /\ vWorkQueue = <<>>
    /\ i = 0
    /\ todo = {}
    /\ vEraseQueue = {}
    /\ unchecked = {}
    /\ quiet = Mined

Next ==
    \/ \E t \in Txs : TxAccepted(t) \/ TxMissing(t) \/ TxRejected(t) \/ TryOrphan(t)
    \/ \E t \in Txs : AcceptLocal(t) \/ AcceptUnchecked(t)
    \/ NextParent
    \/ EraseQueue
    \/ \E ts \in SUBSET Txs \ {{}} : ConnectBlock(ts)

Spec == Init /\ [][Next]_vars

-----------------------------------------------------------------------------
(* Types of the pool, the orphans and the handler's locals. *)
TypeOK ==
    /\ mapTx \subseteq Txs
    /\ mapNextTx \in [OutPoints -> Txs \cup {Null}]
    /\ mapOrphanTransactions \subseteq Txs
    /\ mapOrphanTransactionsByPrev \in [Txs -> SUBSET Txs]
    /\ txindex \subseteq Txs
    /\ vSpent \subseteq OutPoints
    /\ vWorkQueue \in Seq(Txs)
    /\ i \in 0..Len(vWorkQueue)
    /\ todo \subseteq Txs
    /\ vEraseQueue \subseteq Txs
    /\ unchecked \subseteq Txs
    /\ quiet \subseteq Txs

(* mapNextTx, which holds pointers into mapTx, names for each outpoint the     *)
(* one pool transaction that spends it: no two pool transactions conflict, and *)
(* no entry points to a transaction that was removed.                          *)
PoolIndexExact ==
    \A op \in OutPoints : \A t \in Txs :
        mapNextTx[op] = t <=> t \in mapTx /\ op \in Tx[t].vin

(* A pool transaction whose inputs accept looked at keeps its parents: each is *)
(* in the chain or in the pool, however blocks and removals interleave.  And   *)
(* nothing is both in the pool and in the chain.                               *)
PoolClosed ==
    /\ mapTx \cap txindex = {}
    /\ \A t \in mapTx \ unchecked : Parents(t) \subseteq txindex \cup mapTx

(* The two orphan maps agree, so no pointer to a deleted orphan is left in     *)
(* mapOrphanTransactionsByPrev, and the loop of the handler, which erases only *)
(* at its end, never stands on an erased orphan.                               *)
OrphanIndexExact ==
    /\ \A p \in Txs : mapOrphanTransactionsByPrev[p] =
                         {o \in mapOrphanTransactions : p \in Parents(o)}
    /\ todo \subseteq mapOrphanTransactions

(* No more orphans are kept than MAX_ORPHAN_TRANSACTIONS. *)
OrphansBounded == Cardinality(mapOrphanTransactions) <= MAX_ORPHAN_TRANSACTIONS

(* "Recursively process any orphan transactions that depended on this one":    *)
(* between messages an orphan that the pool would accept is one whose parent   *)
(* came otherwise, in a block or from this node's own user.                    *)
OrphansProcessed ==
    \A o \in mapOrphanTransactions :
        Idle /\ accept(o) = "accepted" => Parents(o) \cap quiet # {}
============================================================================
