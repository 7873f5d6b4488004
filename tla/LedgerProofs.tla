---------------------------- MODULE LedgerProofs ----------------------------
(***************************************************************************)
(* Chain implements Ledger, its money supply is the value of the unspent   *)
(* outputs, and its transaction index is justified by its blocks: theorems *)
(* for every universe of blocks and transactions.  LInv is inductive,      *)
(* given IInv of ChainProofs.                                              *)
(***************************************************************************)
EXTENDS ChainProofs

(* The unspent outputs as ConnectBlock sees them through its queued changes. *)
ViewUnspent == {op \in OutPoints : viewPos[op[1]] # Null /\ viewSpent[op] = Null}

(* The best chain has one block at every height. *)
HeightsCount ==
    /\ dbIndex # {} => nHeight[Genesis] = 0
    /\ \A b \in Blocks : OnDiskChain(b) => nHeight[b] <= nHeight[dbBest]
    /\ \A b, c \in Blocks : OnDiskChain(b) /\ OnDiskChain(c) /\ nHeight[b] = nHeight[c] => b = c

(* Before the genesis block is the tip the ledger is empty. *)
EmptyBeforeGenesis ==
    dbBest = Null => dbSupply[Genesis] = 0 /\ dbPos = [t \in Txs |-> Null]

(* A block of the best chain, or the one about to join it. *)
OnViewChain(b) == OnDiskChain(b) \/ b = cur

(* SpendsJustified for the queued changes. *)
ViewJustified ==
    /\ \A t \in Txs : viewPos[t] # Null =>
          OnViewChain(viewPos[t]) /\ t \in Range(Block[viewPos[t]].vtx)
    /\ \A op \in OutPoints : viewSpent[op] # Null =>
          /\ OnViewChain(viewSpent[op][1])
          /\ viewPos[op[1]] # Null
          /\ nHeight[viewSpent[op][1]] - nHeight[viewPos[op[1]]] >=
                IF IsCoinBase(op[1]) THEN nCoinbaseMaturity ELSE 0
          /\ viewSpent[op][2] \in Range(Block[viewSpent[op][1]].vtx)
          /\ op \in Inputs(viewSpent[op][2])

(* The transactions ConnectBlock has not come to. *)
Ahead(t) == \A i \in 1..k : Block[cur].vtx[i] # t

(* A transaction that is still ahead is indexed as it is on disk. *)
QueuedOnlyBehind ==
    /\ \A t \in Txs : Ahead(t) => viewPos[t] = dbPos[t]
    /\ \A op \in OutPoints : Ahead(op[1]) /\ dbSpent[op] # Null => viewSpent[op] = dbSpent[op]

(* A spent mark differs from the one on disk only where the whole            *)
(* transaction was spent and is in this block again.                         *)
RespentOnlyIfRemined ==
    \A op \in OutPoints : dbSpent[op] # Null /\ viewSpent[op] # dbSpent[op] =>
        /\ viewPos[op[1]] = cur
        /\ \A n \in DOMAIN Tx[op[1]].vout : dbSpent[<<op[1], n>>] # Null

(* ConnectBlock has applied the first k transactions, and its totals are the *)
(* difference they make.                                                     *)
Applied ==
    /\ k <= Len(Block[cur].vtx)
    /\ Abstract!ApplyAll(Unspent, SubSeq(Block[cur].vtx, 1, k)) = ViewUnspent
    /\ nValueOut - nValueIn = Abstract!Value(ViewUnspent) - Abstract!Value(Unspent)

Connecting ==
    pc = "connect" =>
        /\ \A i \in DOMAIN Block[cur].vtx : CheckTransaction(Block[cur].vtx[i])
        /\ \A i, j \in DOMAIN Block[cur].vtx : Block[cur].vtx[i] = Block[cur].vtx[j] => i = j
        /\ ViewJustified
        /\ QueuedOnlyBehind
        /\ RespentOnlyIfRemined
        /\ SoundOutputs(ViewUnspent)
        /\ Applied

LInv ==
    /\ HeightsCount
    /\ EmptyBeforeGenesis
    /\ SpendsJustified
    /\ SoundOutputs(Unspent)
    /\ SupplyMatchesUnspent
    /\ Connecting

-----------------------------------------------------------------------------
(* Heights and depths. *)

(* The block ConnectBlock works on is the child of the tip. *)
LEMMA ConnectFacts ==
  ASSUME IInv, pc = "connect"
  PROVE  /\ cur \in Blocks /\ cur # Null /\ cur # Genesis /\ ~OnDiskChain(cur)
         /\ dbBest \in Blocks /\ Prev(cur) = dbBest /\ OnDiskChain(dbBest)
         /\ nHeight[cur] = nHeight[dbBest] + 1
         /\ k \in Nat /\ Block[cur].vtx \in Seq(Txs)
         /\ nMoneySupply = dbSupply /\ pnext = dbNext /\ hashBestChain = dbBest
  <1> USE DEF IInv
  <1>1. cur \in Blocks /\ cur # Null /\ k \in Nat
    BY DEF TypeOK
  <1>2. cur \in dbIndex /\ hashBestChain # Null /\ Prev(cur) = hashBestChain
    BY DEF InProgress
  <1>3. hashBestChain = dbBest /\ nMoneySupply = dbSupply /\ pnext = dbNext
    BY DEF DiskMemoryAgree
  <1>4. dbBest \in Blocks /\ dbBest \in dbIndex /\ OnDiskChain(dbBest)
    BY <1>2, <1>3 DEF DiskIndexClosed, TypeOK, OnDiskChain
  <1>5. cur # Genesis
    BY <1>2, <1>3, <1>4, BlockAssumption DEF Prev
  <1>6. nHeight[cur] = nHeight[dbBest] + 1
    BY <1>2, <1>3, <1>5 DEF DiskIndexClosed
  <1>7. ~OnDiskChain(cur)
    <2>1. SUFFICES ASSUME OnDiskChain(cur) PROVE FALSE
      OBVIOUS
    <2>2. dbNext[dbBest] = cur
      BY <1>1, <1>2, <1>3, <1>5, <2>1 DEF DiskChainLinked
    <2>3. dbNext[dbBest] = Null
      BY <1>4, BlockAssumption DEF DiskChainLinked
    <2> QED
      BY <1>1, <2>2, <2>3
  <1>8. Block[cur].vtx \in Seq(Txs)
    BY <1>1, VtxType
  <1>9. QED
    BY <1>1, <1>2, <1>3, <1>4, <1>5, <1>6, <1>7, <1>8

(* Without a tip there is no chain. *)
LEMMA NoChainYet ==
  ASSUME IInv, dbBest = Null, NEW b \in Blocks PROVE ~OnDiskChain(b)
  <1> USE DEF IInv
  <1>1. SUFFICES ASSUME OnDiskChain(b) PROVE FALSE
    OBVIOUS
  <1>2. dbNext[b] # Null
    BY <1>1, BlockAssumption DEF OnDiskChain
  <1>3. Prev(dbNext[b]) = b /\ OnDiskChain(dbNext[b])
    BY <1>2 DEF DiskChainLinked
  <1>4. dbNext[b] = Genesis
    BY <1>3 DEF OnDiskChain, DiskIndexClosed
  <1>5. QED
    BY <1>3, <1>4, BlockAssumption DEF Prev

(* Blocks of the best chain are blocks. *)
LEMMA OnChainType == ASSUME IInv, NEW b, OnDiskChain(b) PROVE b \in Blocks /\ b \in dbIndex /\ b # Null
  BY BlockAssumption DEF IInv, TypeOK, OnDiskChain

(* Going back from the block being connected, by as many steps as the        *)
(* heights differ, leads to any given block of its chain.                    *)
LEMMA AncestorIs ==
  ASSUME IInv, HeightsCount, pc = "connect", NEW p \in Blocks, OnViewChain(p)
  PROVE  /\ nHeight[cur] - nHeight[p] \in Nat
         /\ Ancestor(cur, nHeight[cur] - nHeight[p]) = p
  <1> DEFINE d == nHeight[cur] - nHeight[p]
             A == Blocks \cup {Null}
             h == [b \in A |-> IF b = Null THEN Null ELSE Prev(b)]
             Eq(f) == f = [j \in 0..d |-> IF j = 0 THEN cur
                                          ELSE IF f[j - 1] = Null THEN Null ELSE Prev(f[j - 1])]
             e == CHOOSE f : Eq(f)
  <1>1. /\ cur \in Blocks /\ cur # Null /\ cur # Genesis /\ ~OnDiskChain(cur)
        /\ dbBest \in Blocks /\ Prev(cur) = dbBest /\ OnDiskChain(dbBest)
        /\ nHeight[cur] = nHeight[dbBest] + 1
    BY ConnectFacts
  <1>2. nHeight \in [Blocks -> Nat]
    BY DEF IInv, TypeOK
  <1>3. d \in Nat
    <2>1. OnDiskChain(p) => nHeight[p] <= nHeight[dbBest]
      BY DEF HeightsCount
    <2>2. nHeight[p] \in Nat /\ nHeight[cur] \in Nat /\ nHeight[dbBest] \in Nat
      BY <1>1, <1>2
    <2>3. CASE p = cur
      BY <2>2, <2>3
    <2>4. CASE p # cur
      BY <1>1, <2>1, <2>2, <2>4 DEF OnViewChain
    <2> QED
      BY <2>3, <2>4
  <1>4. Ancestor(cur, d) = e[d]
    BY DEF Ancestor
  <1> HIDE DEF d
  <1>5. \E f : Eq(f)
    <2>1. h \in [A -> A] /\ cur \in A
      BY <1>1, PrevType
    <2> HIDE DEF h, A
    <2>2. \E f : IsIteration(f, A, cur, h, d)
      BY <1>3, <2>1, IterationExists, Zenon
    <2>3. PICK f : f \in [0..d -> A] /\ f = [j \in 0..d |-> IF j = 0 THEN cur ELSE h[f[j - 1]]]
      BY <2>2 DEF IsIteration
    <2>4. \A j \in 0..d : j # 0 => h[f[j - 1]] = IF f[j - 1] = Null THEN Null ELSE Prev(f[j - 1])
      <3>1. \A j \in 0..d : j # 0 => j - 1 \in 0..d
        BY <1>3
      <3>2. \A j \in 0..d : j # 0 => f[j - 1] \in A
        BY <2>3, <3>1
      <3> QED
        BY <3>2 DEF h
    <2>5. Eq(f)
      BY <2>3, <2>4
    <2> HIDE DEF Eq
    <2> QED
      BY <2>5
  <1>6. Eq(e)
    <2> HIDE DEF Eq
    <2> QED
      BY <1>5, Zenon
  <1> HIDE DEF e
  <1>7. e[0] = cur
    BY <1>3, <1>6
  <1>8. ASSUME NEW j \in Nat, j + 1 <= d, e[j] # Null PROVE e[j + 1] = Prev(e[j])
    <2>1. j + 1 \in 0..d /\ j + 1 # 0 /\ (j + 1) - 1 = j
      BY <1>3, <1>8
    <2>2. e[j + 1] = IF e[(j + 1) - 1] = Null THEN Null ELSE Prev(e[(j + 1) - 1])
      BY <1>6, <2>1
    <2> QED
      BY <1>8, <2>1, <2>2
  <1> HIDE DEF Eq
  <1> DEFINE At(j) == e[j] \in Blocks /\ OnViewChain(e[j]) /\ nHeight[e[j]] = nHeight[cur] - j
             S == {j \in Nat : j <= d => At(j)}
  <1>9. At(0)
    BY <1>1, <1>2, <1>7 DEF OnViewChain
  <1>10. ASSUME NEW j \in Nat, j \in S PROVE j + 1 \in S
    <2> HIDE DEF At
    <2>1. SUFFICES ASSUME j + 1 <= d PROVE At(j + 1)
      OBVIOUS
    <2>2. At(j)
      <3>1. j <= d
        BY <1>3, <2>1
      <3> QED
        BY <1>10, <3>1
    <2>3. e[j] \in Blocks /\ OnViewChain(e[j]) /\ nHeight[e[j]] = nHeight[cur] - j
      BY <2>2 DEF At
    <2>4. e[j] # Null /\ e[j + 1] = Prev(e[j])
      BY <1>8, <2>1, <2>3, BlockAssumption
    <2>5. e[j] # Genesis
      <3>1. nHeight[e[j]] > nHeight[p] /\ nHeight[p] >= 0
        <4>1. nHeight[p] \in Nat /\ nHeight[cur] \in Nat
          BY <1>1, <1>2
        <4> QED
          BY <2>1, <2>3, <4>1 DEF d
      <3>2. nHeight[Genesis] = 0
        BY <1>1, OnChainType DEF HeightsCount
      <3> QED
        BY <1>2, <3>1, <3>2
    <2>6. CASE e[j] = cur
      <3>1. e[j + 1] = dbBest /\ nHeight[cur] = nHeight[cur] - j
        BY <1>1, <2>3, <2>4, <2>6
      <3>2. j = 0 /\ nHeight[dbBest] = nHeight[cur] - (j + 1)
        <4>1. nHeight[cur] \in Nat /\ nHeight[dbBest] \in Nat
          BY <1>1, <1>2
        <4> QED
          BY <1>1, <3>1, <4>1
      <3> QED
        BY <1>1, <3>1, <3>2 DEF At, OnViewChain
    <2>7. CASE e[j] # cur
      <3>1. OnDiskChain(e[j])
        BY <2>3, <2>7 DEF OnViewChain
      <3>2. OnDiskChain(Prev(e[j]))
        BY <2>3, <2>5, <3>1 DEF IInv, DiskChainLinked
      <3>3. nHeight[e[j]] = nHeight[Prev(e[j])] + 1
        BY <2>5, <3>1 DEF IInv, DiskIndexClosed, OnDiskChain
      <3>4. Prev(e[j]) \in Blocks
        BY <3>2, OnChainType
      <3>5. nHeight[Prev(e[j])] = nHeight[cur] - (j + 1)
        <4>1. nHeight[cur] \in Nat /\ nHeight[Prev(e[j])] \in Nat
          BY <1>1, <1>2, <3>4
        <4> QED
          BY <2>3, <3>3, <4>1
      <3> QED
        BY <2>4, <3>2, <3>4, <3>5 DEF At, OnViewChain
    <2> QED
      BY <2>6, <2>7
  <1>11. 0 \in S
    BY <1>9
  <1> HIDE DEF S
  <1>12. Nat \subseteq S
    BY <1>10, <1>11, SetInduction, Zenon
  <1>13. At(d)
    BY <1>3, <1>12 DEF S
  <1>14. nHeight[e[d]] = nHeight[p]
    <2>1. nHeight[cur] \in Nat /\ nHeight[p] \in Nat
      BY <1>1, <1>2
    <2> QED
      BY <1>13, <2>1 DEF d
  <1>15. e[d] = p
    <2>1. \A b \in Blocks : OnDiskChain(b) => nHeight[b] # nHeight[cur]
      <3>1. \A b \in Blocks : nHeight[b] \in Nat
        BY <1>2
      <3> QED
        BY <1>1, <3>1 DEF HeightsCount
    <2> QED
      BY <1>1, <1>13, <1>14, <2>1 DEF OnViewChain, HeightsCount
  <1>16. QED
    BY <1>3, <1>4, <1>15 DEF d

(* ConnectInputs' depth loop: a coinbase output it lets through is deep      *)
(* enough.                                                                   *)
LEMMA MatureMeans ==
  ASSUME IInv, HeightsCount, pc = "connect", NEW t \in Txs, viewPos[t] \in Blocks,
         OnViewChain(viewPos[t]), Mature(t, cur)
  PROVE  nHeight[cur] - nHeight[viewPos[t]] >= nCoinbaseMaturity
  <1> DEFINE d == nHeight[cur] - nHeight[viewPos[t]]
  <1>1. d \in Nat /\ Ancestor(cur, d) = viewPos[t]
    BY AncestorIs
  <1>2. d \notin 0..(nCoinbaseMaturity - 1)
    BY <1>1 DEF Mature
  <1> HIDE DEF d
  <1>3. d >= nCoinbaseMaturity
    BY <1>1, <1>2, LimitAssumption
  <1>4. QED
    BY <1>3 DEF d

-----------------------------------------------------------------------------
(* LInv is inductive, given IInv. *)

(* The first process finds an empty ledger. *)
LEMMA InitLInv == Init => LInv
  <1> SUFFICES ASSUME Init PROVE LInv
    OBVIOUS
  <1>1. HeightsCount
    BY DEF Init, HeightsCount, OnDiskChain
  <1>2. EmptyBeforeGenesis /\ SupplyMatchesUnspent /\ Connecting
    BY BlockAssumption DEF Init, EmptyBeforeGenesis, SupplyMatchesUnspent, Connecting
  <1>3. SpendsJustified
    BY DEF Init, SpendsJustified
  <1>4. Unspent = {}
    BY OutPointFacts DEF Init, Unspent
  <1>5. SoundOutputs(Unspent)
    BY <1>4, FS_EmptySet DEF SoundOutputs
  <1>6. QED
    BY <1>1, <1>2, <1>3, <1>5 DEF LInv

(* A step that leaves the chain and the transaction index on disk alone. *)
LEMMA QuietLInv ==
  ASSUME LInv, UNCHANGED <<nHeight, dbIndex, dbNext, dbSupply, dbBest, dbPos, dbSpent>>,
         pc' # "connect"
  PROVE  LInv'
  <1> USE DEF LInv
  <1>1. HeightsCount' /\ EmptyBeforeGenesis'
    BY DEF HeightsCount, EmptyBeforeGenesis, OnDiskChain
  <1>2. SpendsJustified'
    BY DEF SpendsJustified, OnDiskChain
  <1>3. Unspent' = Unspent
    BY DEF Unspent
  <1>4. SoundOutputs(Unspent)'
    BY <1>3 DEF SoundOutputs
  <1>5. SupplyMatchesUnspent'
    BY <1>3 DEF SupplyMatchesUnspent
  <1>6. Connecting'
    BY DEF Connecting
  <1>7. QED
    BY <1>1, <1>2, <1>4, <1>5, <1>6

(* Indexing a block changes neither the chain nor the ledger. *)
LEMMA AddToBlockIndexLInv ==
  ASSUME IInv, LInv, NEW b \in Blocks, AddToBlockIndex(b),
         pc \in {"down", "idle"},
         pc = "down" => dbIndex = {} /\ b = Genesis,
         pc = "idle" => b \notin dbIndex /\ Prev(b) \in dbIndex
  PROVE  LInv'
  <1> USE DEF IInv
  <1>1. /\ b \notin dbIndex /\ dbIndex' = dbIndex \cup {b}
        /\ UNCHANGED <<dbBest, dbPos, dbSpent>> /\ pc' # "connect"
    BY DEF AddToBlockIndex
  <1>2. dbNext' = dbNext /\ dbSupply' = dbSupply
    <2>1. pnext[b] = dbNext[b] /\ nMoneySupply[b] = dbSupply[b]
      BY <1>1 DEF StoppedIsEmpty, DiskMemoryAgree, DiskIndexClosed
    <2> QED
      BY <2>1 DEF AddToBlockIndex, TypeOK
  <1>3. \A c \in Blocks : c # b => nHeight'[c] = nHeight[c]
    BY DEF AddToBlockIndex, TypeOK
  <1>4. \A c \in Blocks : OnDiskChain(c)' <=> OnDiskChain(c)
    BY <1>1, <1>2, BlockAssumption DEF OnDiskChain, DiskIndexClosed
  <1>5. \A c \in Blocks : OnDiskChain(c) => nHeight'[c] = nHeight[c]
    BY <1>1, <1>3 DEF OnDiskChain
  <1>6. HeightsCount'
    <2>1. nHeight'[Genesis] = 0
      <3>1. CASE pc = "down"
        BY <3>1, BlockAssumption DEF AddToBlockIndex, StoppedIsEmpty, TypeOK
      <3>2. CASE pc = "idle"
        <4>1. Genesis \in dbIndex /\ nHeight[Genesis] = 0
          BY <3>2 DEF DiskIndexClosed, LInv, HeightsCount
        <4> QED
          BY <1>1, <1>3, <4>1, BlockAssumption
      <3> QED
        BY <3>1, <3>2
    <2>2. ASSUME NEW c \in Blocks, OnDiskChain(c) PROVE nHeight'[c] <= nHeight'[dbBest']
      <3>1. dbBest \in Blocks /\ OnDiskChain(dbBest)
        BY <2>2, NoChainYet DEF TypeOK, OnDiskChain, DiskIndexClosed
      <3> QED
        BY <1>1, <1>5, <2>2, <3>1 DEF LInv, HeightsCount
    <2>3. ASSUME NEW c \in Blocks, NEW d \in Blocks, OnDiskChain(c), OnDiskChain(d),
                 nHeight'[c] = nHeight'[d]
          PROVE  c = d
      BY <1>5, <2>3 DEF LInv, HeightsCount
    <2> QED
      BY <1>4, <2>1, <2>2, <2>3 DEF HeightsCount
  <1>7. EmptyBeforeGenesis'
    BY <1>1, <1>2 DEF LInv, EmptyBeforeGenesis
  <1>8. SpendsJustified'
    <2>1. ASSUME NEW t \in Txs, dbPos[t] # Null
          PROVE  /\ dbPos[t] \in Blocks /\ OnDiskChain(dbPos[t]) /\ OnDiskChain(dbPos[t])'
                 /\ t \in Range(Block[dbPos[t]].vtx)
      BY <1>1, <1>4, <2>1 DEF LInv, SpendsJustified, TypeOK
    <2>2. ASSUME NEW op \in OutPoints, dbSpent[op] # Null
          PROVE  /\ OnDiskChain(dbSpent[op][1])'
                 /\ dbPos[op[1]] # Null
                 /\ nHeight'[dbSpent[op][1]] - nHeight'[dbPos[op[1]]] >=
                       IF IsCoinBase(op[1]) THEN nCoinbaseMaturity ELSE 0
                 /\ dbSpent[op][2] \in Range(Block[dbSpent[op][1]].vtx)
                 /\ op \in Inputs(dbSpent[op][2])
      <3>1. /\ OnDiskChain(dbSpent[op][1])
            /\ dbPos[op[1]] # Null
            /\ nHeight[dbSpent[op][1]] - nHeight[dbPos[op[1]]] >=
                  IF IsCoinBase(op[1]) THEN nCoinbaseMaturity ELSE 0
            /\ dbSpent[op][2] \in Range(Block[dbSpent[op][1]].vtx)
            /\ op \in Inputs(dbSpent[op][2])
        BY <2>2 DEF LInv, SpendsJustified
      <3>2. dbSpent[op][1] \in Blocks
        BY <3>1, OnChainType
      <3>3. dbPos[op[1]] \in Blocks /\ OnDiskChain(dbPos[op[1]])
        BY <2>1, <3>1, OutPointFacts
      <3>4. nHeight'[dbSpent[op][1]] = nHeight[dbSpent[op][1]] /\ nHeight'[dbPos[op[1]]] = nHeight[dbPos[op[1]]]
        BY <1>5, <3>1, <3>2, <3>3
      <3>5. OnDiskChain(dbSpent[op][1])'
        BY <1>1, <1>4, <3>1, <3>2
      <3> QED
        BY <3>1, <3>4, <3>5
    <2> QED
      BY <1>1, <2>1, <2>2 DEF SpendsJustified
  <1>9. Unspent' = Unspent
    BY <1>1 DEF Unspent
  <1>10. SoundOutputs(Unspent)'
    BY <1>9 DEF SoundOutputs, LInv
  <1>11. SupplyMatchesUnspent'
    BY <1>1, <1>2, <1>9 DEF SupplyMatchesUnspent, LInv
  <1>12. Connecting'
    BY <1>1 DEF Connecting
  <1>13. QED
    BY <1>6, <1>7, <1>8, <1>10, <1>11, <1>12 DEF LInv

(* The genesis block becomes the tip: the ledger is still empty. *)
LEMMA SetBestGenesisLInv == IInv /\ LInv /\ SetBestGenesis => LInv'
  <1> SUFFICES ASSUME IInv, LInv, SetBestGenesis PROVE LInv'
    OBVIOUS
  <1> USE DEF SetBestGenesis, Idle
  <1>1. dbBest = Null /\ dbIndex = {Genesis}
    BY DEF IInv, DiskMemoryAgree, DiskIndexClosed, InProgress
  <1>2. \A b \in Blocks : dbNext[b] = Null
    <2>1. ASSUME NEW b \in Blocks, dbNext[b] # Null PROVE FALSE
      <3>1. OnDiskChain(dbNext[b])
        BY <2>1 DEF IInv, DiskChainLinked
      <3>2. dbNext[b] \in Blocks
        BY <3>1, OnChainType
      <3> QED
        BY <1>1, <3>1, <3>2, NoChainYet
    <2> QED
      BY <2>1
  <1>3. \A b \in Blocks : OnDiskChain(b)' <=> b = Genesis
    BY <1>1, <1>2, BlockAssumption DEF OnDiskChain
  <1>4. HeightsCount'
    BY <1>1, <1>3, BlockAssumption DEF LInv, HeightsCount, IInv, TypeOK
  <1>5. dbPos = [t \in Txs |-> Null] /\ dbSupply[Genesis] = 0
    BY <1>1 DEF LInv, EmptyBeforeGenesis
  <1>6. \A op \in OutPoints : dbSpent[op] = Null
    BY <1>5, OutPointFacts DEF LInv, SpendsJustified
  <1>7. EmptyBeforeGenesis' /\ SpendsJustified' /\ Connecting'
    BY <1>5, <1>6, BlockAssumption DEF EmptyBeforeGenesis, SpendsJustified, Connecting
  <1>8. Unspent = {} /\ Unspent' = {}
    BY <1>5, OutPointFacts DEF Unspent
  <1>9. SoundOutputs(Unspent)'
    BY <1>8, FS_EmptySet DEF SoundOutputs
  <1>10. SupplyMatchesUnspent'
    BY <1>5, <1>8, ValueOfNone DEF SupplyMatchesUnspent
  <1>11. QED
    BY <1>4, <1>7, <1>9, <1>10 DEF LInv

(* ConnectBlock starts from the ledger on disk. *)
LEMMA ConnectBeginLInv ==
  ASSUME IInv, LInv, NEW now \in Times, ConnectBegin(now) PROVE LInv'
  <1>1. CASE ~CheckBlock(cur, now)
    BY <1>1, QuietLInv DEF ConnectBegin, Idle, InvalidChainFound
  <1>2. CASE CheckBlock(cur, now)
    <2>1. /\ pc' = "connect" /\ k' = 0 /\ viewPos' = dbPos /\ viewSpent' = dbSpent
          /\ nValueIn' = 0 /\ nValueOut' = 0 /\ cur' = cur /\ pc = "setbest"
          /\ UNCHANGED <<nHeight, dbIndex, dbNext, dbSupply, dbBest, dbPos, dbSpent>>
      BY <1>2 DEF ConnectBegin, memVars, dbVars
    <2>2. cur \in Blocks
      BY <2>1 DEF IInv, TypeOK
    <2>3. HeightsCount' /\ EmptyBeforeGenesis'
      BY <2>1 DEF LInv, HeightsCount, EmptyBeforeGenesis, OnDiskChain
    <2>4. SpendsJustified'
      BY <2>1 DEF LInv, SpendsJustified, OnDiskChain
    <2>5. Unspent' = Unspent /\ ViewUnspent' = Unspent
      BY <2>1 DEF Unspent, ViewUnspent
    <2>6. SoundOutputs(Unspent)' /\ SoundOutputs(ViewUnspent)'
      BY <2>5 DEF SoundOutputs, LInv
    <2>7. SupplyMatchesUnspent'
      BY <2>1, <2>5 DEF SupplyMatchesUnspent, LInv
    <2>8. ViewJustified'
      BY <2>1 DEF LInv, SpendsJustified, ViewJustified, OnViewChain, OnDiskChain
    <2>9. QueuedOnlyBehind' /\ RespentOnlyIfRemined'
      BY <2>1 DEF QueuedOnlyBehind, RespentOnlyIfRemined
    <2>10. Applied'
      <3> DEFINE vtx == Block[cur].vtx
      <3>1. vtx \in Seq(Txs)
        BY <2>2, VtxType
      <3>2. Abstract!ApplyAll(Unspent, SubSeq(vtx, 1, 0)) = Unspent
        BY <3>1, ApplyAllSteps
      <3>3. Abstract!Value(Unspent) \in Nat
        BY ValueOfSound DEF LInv, Unspent
      <3>4. 0 <= Len(vtx) /\ 0 - 0 = Abstract!Value(Unspent) - Abstract!Value(Unspent)
        BY <3>1, <3>3
      <3> QED
        BY <2>1, <2>5, <3>2, <3>4 DEF Applied
    <2>11. /\ \A i \in DOMAIN Block[cur].vtx : CheckTransaction(Block[cur].vtx[i])
           /\ \A i, j \in DOMAIN Block[cur].vtx : Block[cur].vtx[i] = Block[cur].vtx[j] => i = j
      BY <1>2 DEF CheckBlock
    <2>12. Connecting'
      BY <2>1, <2>6, <2>8, <2>9, <2>10, <2>11 DEF Connecting
    <2> QED
      BY <2>3, <2>4, <2>6, <2>7, <2>12 DEF LInv
  <1>3. QED
    BY <1>1, <1>2

(* What ConnectBlock's loop body has established when it queues the changes  *)
(* of its transaction.                                                       *)
LEMMA ConnectTxFacts ==
  ASSUME IInv, LInv, ConnectTx
  PROVE  /\ pc = "connect" /\ pc' = "connect" /\ UNCHANGED <<memVars, dbVars, cur>>
         /\ k + 1 \in DOMAIN Block[cur].vtx /\ NextTx = Block[cur].vtx[k + 1] /\ k' = k + 1
         /\ NextTx \in Txs /\ CheckTransaction(NextTx) /\ Ahead(NextTx)
         /\ ~Duplicate(NextTx) /\ ValueOutInRange(NextTx)
         /\ Inputs(NextTx) \in SUBSET ViewUnspent
         /\ ~IsCoinBase(NextTx) => ConnectInputs(NextTx, cur)
         /\ IsCoinBase(NextTx) => Inputs(NextTx) = {}
         /\ viewPos' = [viewPos EXCEPT ![NextTx] = cur]
         /\ viewSpent' = QueuedSpent(NextTx)
         /\ nValueIn' = nValueIn + (IF IsCoinBase(NextTx) THEN 0 ELSE TxValueIn(NextTx))
         /\ nValueOut' = nValueOut + TxValueOut(NextTx)
  <1> DEFINE t == NextTx
  <1>1. /\ pc = "connect" /\ k < Len(Block[cur].vtx) /\ pc' = pc
        /\ Connectable(t) /\ ValueOutInRange(t) /\ (IsCoinBase(t) \/ ConnectInputs(t, cur))
        /\ k' = k + 1
        /\ viewPos' = [viewPos EXCEPT ![t] = cur]
        /\ viewSpent' = QueuedSpent(t)
        /\ nValueIn' = nValueIn + (IF IsCoinBase(t) THEN 0 ELSE TxValueIn(t))
        /\ nValueOut' = nValueOut + TxValueOut(t)
        /\ UNCHANGED <<memVars, dbVars, cur>>
    BY DEF ConnectTx, AtTx
  <1>2. cur \in Blocks /\ k \in Nat /\ Block[cur].vtx \in Seq(Txs)
    BY <1>1, ConnectFacts
  <1>3. /\ k + 1 \in DOMAIN Block[cur].vtx /\ t = Block[cur].vtx[k + 1]
        /\ \A i \in 1..k : i \in DOMAIN Block[cur].vtx /\ i # k + 1
    <2> DEFINE n == Len(Block[cur].vtx)
    <2>1. t = Block[cur].vtx[k + 1]
      BY DEF NextTx
    <2>2. DOMAIN Block[cur].vtx = 1..n /\ n \in Nat /\ k \in Nat
      BY <1>2
    <2>3. k < n
      BY <1>1
    <2> HIDE DEF n, t
    <2>4. k + 1 \in 1..n /\ \A i \in 1..k : i \in 1..n /\ i # k + 1
      BY <2>2, <2>3
    <2> QED
      BY <2>1, <2>2, <2>4
  <1> HIDE DEF t
  <1>4. t \in Txs
    BY <1>2, <1>3
  <1>5. CheckTransaction(t)
    BY <1>1, <1>3 DEF LInv, Connecting
  <1>6. Ahead(t)
    <2>1. \A i, j \in DOMAIN Block[cur].vtx : Block[cur].vtx[i] = Block[cur].vtx[j] => i = j
      BY <1>1 DEF LInv, Connecting
    <2> QED
      BY <1>3, <2>1 DEF Ahead
  <1>7. ~Duplicate(t) /\ (IsCoinBase(t) \/ FetchInputs(t))
    BY <1>1 DEF Connectable
  <1>8. IsCoinBase(t) => Inputs(t) = {}
    BY DEF IsCoinBase, Inputs
  <1>9. Inputs(t) \in SUBSET ViewUnspent
    <2>1. CASE IsCoinBase(t)
      BY <1>8, <2>1
    <2>2. CASE ~IsCoinBase(t)
      <3>1. ASSUME NEW i \in DOMAIN Tx[t].vin PROVE Tx[t].vin[i] \in ViewUnspent
        <4>1. Tx[t].vin[i] \in OutPoints /\ viewPos[Tx[t].vin[i][1]] # Null
          BY <1>7, <2>2 DEF FetchInputs
        <4>2. viewSpent[Tx[t].vin[i]] = Null
          BY <1>1, <2>2 DEF ConnectInputs
        <4> QED
          BY <4>1, <4>2 DEF ViewUnspent
      <3> QED
        BY <3>1 DEF Inputs
    <2> QED
      BY <2>1, <2>2
  <1>10. QED
    BY <1>1, <1>3, <1>4, <1>5, <1>6, <1>7, <1>8, <1>9 DEF t

(* The queued changes apply the transaction to the unspent outputs. *)
LEMMA ConnectTxApplies ==
  ASSUME IInv, LInv, ConnectTx
  PROVE  /\ Abstract!Created(NextTx) \cap ViewUnspent = {}
         /\ ViewUnspent' = (ViewUnspent \ Inputs(NextTx)) \cup Abstract!Created(NextTx)
         /\ ViewUnspent' = Abstract!Apply(ViewUnspent, NextTx)
  <1> DEFINE t == NextTx
  <1>1. /\ pc = "connect" /\ t \in Txs /\ Ahead(t) /\ ~Duplicate(t)
        /\ Inputs(t) \in SUBSET ViewUnspent
        /\ viewPos' = [viewPos EXCEPT ![t] = cur] /\ viewSpent' = QueuedSpent(t)
    BY ConnectTxFacts
  <1>2. cur \in Blocks /\ cur # Null
    BY <1>1, ConnectFacts
  <1> HIDE DEF t
  <1>3. \A op \in OutPoints : op \in Abstract!Created(t) <=> op[1] = t
    BY <1>1, OutPointFacts DEF Abstract!Created
  <1>4. Abstract!Created(t) \in SUBSET OutPoints
    BY <1>1, CreatedValue
  <1>5. ASSUME NEW op \in OutPoints, op[1] = t PROVE op \notin ViewUnspent
    <2>1. SUFFICES ASSUME viewPos[t] # Null, viewSpent[op] = Null PROVE FALSE
      BY <1>5 DEF ViewUnspent
    <2>2. dbPos[t] # Null
      BY <1>1, <2>1 DEF LInv, Connecting, QueuedOnlyBehind
    <2>3. op[2] \in 1..Len(Tx[t].vout) /\ op = <<t, op[2]>>
      BY <1>1, <1>5, OutPointFacts
    <2>4. dbSpent[op] # Null
      BY <1>1, <2>2, <2>3 DEF Duplicate
    <2>5. viewSpent[op] = dbSpent[op]
      BY <1>1, <1>5, <2>4 DEF LInv, Connecting, QueuedOnlyBehind
    <2> QED
      BY <2>1, <2>4, <2>5
  <1>6. Abstract!Created(t) \cap ViewUnspent = {}
    BY <1>3, <1>4, <1>5
  <1>7. ASSUME NEW op \in OutPoints
        PROVE  op \in ViewUnspent' <=> op \in (ViewUnspent \ Inputs(t)) \cup Abstract!Created(t)
    <2>1. viewPos'[op[1]] = IF op[1] = t THEN cur ELSE viewPos[op[1]]
      BY <1>1, OutPointFacts DEF IInv, TypeOK
    <2>2. viewSpent'[op] = IF op[1] = t THEN Null ELSE IF op \in Inputs(t) THEN <<cur, t>> ELSE viewSpent[op]
      BY <1>1 DEF QueuedSpent
    <2>3. <<cur, t>> # Null
      BY <1>1, <1>2, NullAssumption
    <2>4. op \in ViewUnspent' <=> viewPos'[op[1]] # Null /\ viewSpent'[op] = Null
      BY DEF ViewUnspent
    <2>5. op \in ViewUnspent <=> viewPos[op[1]] # Null /\ viewSpent[op] = Null
      BY DEF ViewUnspent
    <2> QED
      BY <1>2, <1>3, <2>1, <2>2, <2>3, <2>4, <2>5
  <1>8. ViewUnspent \in SUBSET OutPoints /\ ViewUnspent' \in SUBSET OutPoints
    BY DEF ViewUnspent
  <1>9. ViewUnspent' = (ViewUnspent \ Inputs(t)) \cup Abstract!Created(t)
    BY <1>4, <1>7, <1>8
  <1>10. Null \notin ViewUnspent
    BY <1>8, NullAssumption
  <1>11. Abstract!Consumed(t) = Inputs(t)
    BY DEF Abstract!Consumed, Inputs
  <1>12. Abstract!Apply(ViewUnspent, t) = (ViewUnspent \ Inputs(t)) \cup Abstract!Created(t)
    BY <1>1, <1>6, <1>10, <1>11 DEF Abstract!Apply
  <1>13. QED
    BY <1>6, <1>9, <1>12 DEF t

(* The unspent outputs stay sound, and their value changes by what the       *)
(* transaction puts out less what it takes in.                               *)
LEMMA ConnectTxValue ==
  ASSUME IInv, LInv, ConnectTx
  PROVE  SoundOutputs(ViewUnspent)' /\ Applied'
  <1> DEFINE t == NextTx
             vtx == Block[cur].vtx
             V == ViewUnspent
             I == Inputs(t)
             C == Abstract!Created(t)
             in == IF IsCoinBase(t) THEN 0 ELSE TxValueIn(t)
  <1>1. /\ pc = "connect" /\ UNCHANGED <<dbVars, cur>>
        /\ k + 1 \in DOMAIN vtx /\ t = vtx[k + 1] /\ k' = k + 1
        /\ t \in Txs /\ CheckTransaction(t) /\ ValueOutInRange(t)
        /\ I \in SUBSET V /\ (IsCoinBase(t) => I = {})
        /\ nValueIn' = nValueIn + in /\ nValueOut' = nValueOut + TxValueOut(t)
    BY ConnectTxFacts
  <1>2. C \cap V = {} /\ V' = (V \ I) \cup C /\ V' = Abstract!Apply(V, t)
    BY ConnectTxApplies
  <1>3. cur \in Blocks /\ k \in Nat /\ vtx \in Seq(Txs)
    BY <1>1, ConnectFacts
  <1>4. SoundOutputs(V) /\ Applied
    BY <1>1 DEF LInv, Connecting
  <1>5. SoundOutputs(Unspent) /\ Unspent \in SUBSET OutPoints /\ Unspent' = Unspent /\ V \in SUBSET OutPoints
    BY <1>1 DEF LInv, Unspent, ViewUnspent, dbVars
  <1>6. I \in SUBSET OutPoints
    BY <1>1, <1>5
  <1>7. C \in SUBSET OutPoints /\ IsFiniteSet(C) /\ TxValueOut(t) = Abstract!Value(C)
    BY <1>1, CreatedValue
  <1>8. IsFiniteSet(I) /\ TxValueIn(t) = Abstract!Value(I)
    BY <1>1, <1>6, ConsumedValue
  <1>9. in = Abstract!Value(I)
    BY <1>1, <1>8, ValueOfNone
  <1>10. nValueIn \in Int /\ nValueOut \in Int
    BY DEF IInv, TypeOK
  <1>11. /\ k <= Len(vtx) /\ Abstract!ApplyAll(Unspent, SubSeq(vtx, 1, k)) = V
         /\ nValueOut - nValueIn = Abstract!Value(V) - Abstract!Value(Unspent)
    BY <1>4 DEF Applied
  <1>12. \A op \in C : MoneyRange(Val(op))
    BY <1>1, OutPointFacts DEF ValueOutInRange, Abstract!Created, Val
  <1> HIDE DEF t, vtx, V, I, C, in
  <1>13. IsFiniteSet(V \ I) /\ V \ I \in SUBSET OutPoints
    BY <1>4, <1>5, FS_Subset DEF SoundOutputs
  <1>14. IsFiniteSet((V \ I) \cup C)
    BY <1>7, <1>13, FS_Union
  <1>15. SoundOutputs(V')
    BY <1>2, <1>4, <1>12, <1>14 DEF SoundOutputs
  <1>16. /\ Abstract!Value(V \ I) \in Int /\ Abstract!Value(C) \in Int
         /\ Abstract!Value((V \ I) \cup C) = Abstract!Value(V \ I) + Abstract!Value(C)
    <2>1. (V \ I) \cap C = {}
      BY <1>2
    <2> QED
      BY <1>7, <1>13, <2>1, ValueOfUnion
  <1>17. /\ Abstract!Value(I) \in Int
         /\ Abstract!Value((V \ I) \cup I) = Abstract!Value(V \ I) + Abstract!Value(I)
    <2>1. (V \ I) \cap I = {}
      OBVIOUS
    <2> QED
      BY <1>6, <1>8, <1>13, <2>1, ValueOfUnion
  <1>18. (V \ I) \cup I = V
    BY <1>1
  <1>19. Abstract!Value(V) = Abstract!Value(V \ I) + Abstract!Value(I)
    BY <1>17, <1>18
  <1>20. Abstract!Value(V') = Abstract!Value(V \ I) + Abstract!Value(C)
    BY <1>2, <1>16
  <1>21. Abstract!Value(Unspent) \in Nat
    BY <1>5, ValueOfSound
  <1>22. nValueOut' - nValueIn' = Abstract!Value(V') - Abstract!Value(Unspent)
    <2> DEFINE kept == Abstract!Value(V \ I)
               i == Abstract!Value(I)
               c == Abstract!Value(C)
               u == Abstract!Value(Unspent)
    <2>1. kept \in Int /\ i \in Int /\ c \in Int /\ u \in Int
      BY <1>16, <1>17, <1>21
    <2>2. nValueIn' = nValueIn + i /\ nValueOut' = nValueOut + c
      BY <1>1, <1>7, <1>9
    <2>3. nValueOut - nValueIn = (kept + i) - u
      BY <1>11, <1>19
    <2>4. Abstract!Value(V') - Abstract!Value(Unspent) = (kept + c) - u
      BY <1>20
    <2> HIDE DEF kept, i, c, u
    <2>5. nValueOut' - nValueIn' = (kept + c) - u
      BY <1>10, <2>1, <2>2, <2>3
    <2> QED
      BY <2>4, <2>5
  <1>23. k + 1 <= Len(vtx) /\ Abstract!ApplyAll(Unspent, SubSeq(vtx, 1, k + 1)) = V'
    <2>1. k \in 0..(Len(vtx) - 1) /\ k + 1 <= Len(vtx)
      BY <1>1, <1>3
    <2>2. Abstract!ApplyAll(Unspent, SubSeq(vtx, 1, k + 1)) =
            Abstract!Apply(Abstract!ApplyAll(Unspent, SubSeq(vtx, 1, k)), vtx[k + 1])
      BY <1>3, <2>1, ApplyAllSteps
    <2> QED
      BY <1>1, <1>2, <1>11, <2>1, <2>2
  <1>24. Applied'
    BY <1>1, <1>5, <1>22, <1>23 DEF Applied, V, vtx
  <1>25. SoundOutputs(ViewUnspent)'
    BY <1>15 DEF V, SoundOutputs
  <1>26. QED
    BY <1>24, <1>25

(* Every mark that the transaction leaves is justified. *)
LEMMA ConnectTxJustified ==
  ASSUME IInv, LInv, ConnectTx
  PROVE  ViewJustified'
  <1> DEFINE t == NextTx
  <1>1. /\ pc = "connect" /\ UNCHANGED <<memVars, dbVars, cur>>
        /\ k + 1 \in DOMAIN Block[cur].vtx /\ t = Block[cur].vtx[k + 1]
        /\ t \in Txs /\ Inputs(t) \in SUBSET ViewUnspent
        /\ ~IsCoinBase(t) => ConnectInputs(t, cur)
        /\ IsCoinBase(t) => Inputs(t) = {}
        /\ viewPos' = [viewPos EXCEPT ![t] = cur] /\ viewSpent' = QueuedSpent(t)
    BY ConnectTxFacts
  <1>2. cur \in Blocks /\ cur # Null
    BY <1>1, ConnectFacts
  <1>3. ViewJustified /\ HeightsCount
    BY <1>1 DEF LInv, Connecting
  <1>4. viewPos \in [Txs -> Blocks \cup {Null}]
    BY DEF IInv, TypeOK
  <1> HIDE DEF t
  <1>5. t \in Range(Block[cur].vtx)
    BY <1>1 DEF Range
  <1>6. \A b : OnViewChain(b)' <=> OnViewChain(b)
    BY <1>1 DEF OnViewChain, OnDiskChain, dbVars
  <1>7. nHeight' = nHeight
    BY <1>1 DEF memVars
  <1>8. \A s \in Txs : viewPos'[s] = IF s = t THEN cur ELSE viewPos[s]
    BY <1>1, <1>4
  <1>9. \A op \in OutPoints : viewSpent'[op] =
          IF op[1] = t THEN Null ELSE IF op \in Inputs(t) THEN <<cur, t>> ELSE viewSpent[op]
    BY <1>1 DEF QueuedSpent
  <1>10. ASSUME NEW s \in Txs, viewPos'[s] # Null
         PROVE  OnViewChain(viewPos'[s]) /\ s \in Range(Block[viewPos'[s]].vtx)
    <2>1. CASE s = t
      BY <1>5, <1>8, <2>1 DEF OnViewChain
    <2>2. CASE s # t
      BY <1>3, <1>8, <1>10, <2>2 DEF ViewJustified
    <2> QED
      BY <2>1, <2>2
  <1>11. ASSUME NEW op \in OutPoints, viewSpent'[op] # Null
         PROVE  /\ OnViewChain(viewSpent'[op][1])
                /\ viewPos'[op[1]] # Null
                /\ nHeight[viewSpent'[op][1]] - nHeight[viewPos'[op[1]]] >=
                      IF IsCoinBase(op[1]) THEN nCoinbaseMaturity ELSE 0
                /\ viewSpent'[op][2] \in Range(Block[viewSpent'[op][1]].vtx)
                /\ op \in Inputs(viewSpent'[op][2])
    <2>1. op[1] # t /\ op[1] \in Txs
      BY <1>9, <1>11, OutPointFacts
    <2>2. viewPos'[op[1]] = viewPos[op[1]]
      BY <1>8, <2>1
    <2>3. CASE op \in Inputs(t)
      <3>1. viewSpent'[op] = <<cur, t>>
        BY <1>9, <2>1, <2>3
      <3>2. viewPos[op[1]] # Null /\ viewPos[op[1]] \in Blocks
        BY <1>1, <1>4, <2>1, <2>3 DEF ViewUnspent
      <3>3. OnViewChain(viewPos[op[1]])
        BY <1>3, <2>1, <3>2 DEF ViewJustified
      <3>4. nHeight[cur] - nHeight[viewPos[op[1]]] \in Nat
        BY <1>1, <1>3, <3>2, <3>3, AncestorIs
      <3>5. ASSUME IsCoinBase(op[1])
            PROVE  nHeight[cur] - nHeight[viewPos[op[1]]] >= nCoinbaseMaturity
        <4>1. ConnectInputs(t, cur)
          BY <1>1, <2>3
        <4>2. PICK i \in DOMAIN Tx[t].vin : op = Tx[t].vin[i]
          BY <2>3 DEF Inputs
        <4>3. Mature(op[1], cur)
          BY <3>5, <4>1, <4>2 DEF ConnectInputs
        <4> QED
          BY <1>1, <1>3, <2>1, <3>2, <3>3, <4>3, MatureMeans
      <3>6. nHeight[cur] - nHeight[viewPos[op[1]]] >= IF IsCoinBase(op[1]) THEN nCoinbaseMaturity ELSE 0
        <4> DEFINE d == nHeight[cur] - nHeight[viewPos[op[1]]]
        <4>1. d \in Nat /\ (IsCoinBase(op[1]) => d >= nCoinbaseMaturity)
          BY <3>4, <3>5
        <4> HIDE DEF d
        <4>2. d >= IF IsCoinBase(op[1]) THEN nCoinbaseMaturity ELSE 0
          BY <4>1
        <4> QED
          BY <4>2 DEF d
      <3>7. viewSpent'[op][1] = cur /\ viewSpent'[op][2] = t
        BY <3>1
      <3> QED
        BY <1>5, <2>2, <2>3, <3>2, <3>6, <3>7 DEF OnViewChain
    <2>4. CASE op \notin Inputs(t)
      <3>1. viewSpent'[op] = viewSpent[op] /\ viewSpent[op] # Null
        BY <1>9, <1>11, <2>1, <2>4
      <3> QED
        BY <1>3, <2>2, <3>1 DEF ViewJustified
    <2> QED
      BY <2>3, <2>4
  <1>12. QED
    BY <1>6, <1>7, <1>10, <1>11 DEF ViewJustified

(* What is ahead is as on disk, and a spent output is spent again only when  *)
(* its transaction is mined again.                                           *)
LEMMA ConnectTxQueue ==
  ASSUME IInv, LInv, ConnectTx
  PROVE  QueuedOnlyBehind' /\ RespentOnlyIfRemined'
  <1> DEFINE t == NextTx
  <1>1. /\ pc = "connect" /\ UNCHANGED <<dbVars, cur>>
        /\ k + 1 \in DOMAIN Block[cur].vtx /\ t = Block[cur].vtx[k + 1] /\ k' = k + 1
        /\ t \in Txs /\ Inputs(t) \in SUBSET ViewUnspent /\ ~Duplicate(t) /\ Ahead(t)
        /\ viewPos' = [viewPos EXCEPT ![t] = cur] /\ viewSpent' = QueuedSpent(t)
    BY ConnectTxFacts
  <1>2. cur \in Blocks /\ cur # Null /\ k \in Nat
    BY <1>1, ConnectFacts
  <1>3. QueuedOnlyBehind /\ RespentOnlyIfRemined /\ SpendsJustified
    BY <1>1 DEF LInv, Connecting
  <1>4. viewPos \in [Txs -> Blocks \cup {Null}] /\ dbPos' = dbPos /\ dbSpent' = dbSpent /\ cur' = cur
    BY <1>1 DEF IInv, TypeOK, dbVars
  <1> HIDE DEF t
  <1>5. \A s : Ahead(s)' => Ahead(s) /\ s # t
    <2>1. k' = k + 1 /\ k \in Nat
      BY <1>1, <1>2
    <2>2. k + 1 \in 1..k' /\ \A i \in 1..k : i \in 1..k'
      BY <2>1
    <2> QED
      BY <1>1, <1>4, <2>2 DEF Ahead
  <1>6. \A s \in Txs : viewPos'[s] = IF s = t THEN cur ELSE viewPos[s]
    BY <1>1, <1>4
  <1>7. \A op \in OutPoints : viewSpent'[op] =
          IF op[1] = t THEN Null ELSE IF op \in Inputs(t) THEN <<cur, t>> ELSE viewSpent[op]
    BY <1>1 DEF QueuedSpent
  <1>8. \A op \in Inputs(t) : op \in OutPoints /\ viewSpent[op] = Null
    BY <1>1 DEF ViewUnspent
  <1>9. ASSUME NEW s \in Txs, Ahead(s)' PROVE viewPos'[s] = dbPos[s]
    BY <1>3, <1>5, <1>6, <1>9 DEF QueuedOnlyBehind
  <1>10. ASSUME NEW op \in OutPoints, Ahead(op[1])', dbSpent[op] # Null
         PROVE  viewSpent'[op] = dbSpent[op]
    <2>1. op[1] # t /\ viewSpent[op] = dbSpent[op]
      BY <1>3, <1>5, <1>10 DEF QueuedOnlyBehind
    <2> QED
      BY <1>7, <1>8, <1>10, <2>1
  <1>11. QueuedOnlyBehind'
    BY <1>4, <1>9, <1>10 DEF QueuedOnlyBehind
  <1>12. ASSUME NEW op \in OutPoints, dbSpent[op] # Null, viewSpent'[op] # dbSpent[op]
         PROVE  /\ viewPos'[op[1]] = cur
                /\ \A n \in DOMAIN Tx[op[1]].vout : dbSpent[<<op[1], n>>] # Null
    <2>1. op[1] \in Txs
      BY OutPointFacts
    <2>2. CASE op[1] = t
      <3>1. viewPos'[op[1]] = cur
        BY <1>6, <2>1, <2>2
      <3>2. dbPos[t] # Null
        BY <1>3, <1>12, <2>2 DEF SpendsJustified
      <3>3. DOMAIN Tx[t].vout = 1..Len(Tx[t].vout)
        BY <1>1, OutPointFacts
      <3>4. \A n \in 1..Len(Tx[t].vout) : dbSpent[<<t, n>>] # Null
        BY <1>1, <3>2 DEF Duplicate
      <3> QED
        BY <2>2, <3>1, <3>3, <3>4
    <2>3. CASE op[1] # t
      <3>1. viewSpent[op] # dbSpent[op]
        BY <1>7, <1>8, <1>12, <2>3
      <3>2. /\ viewPos[op[1]] = cur
            /\ \A n \in DOMAIN Tx[op[1]].vout : dbSpent[<<op[1], n>>] # Null
        BY <1>3, <1>12, <3>1 DEF RespentOnlyIfRemined
      <3> QED
        BY <1>6, <2>1, <2>3, <3>2
    <2> QED
      BY <2>2, <2>3
  <1>13. RespentOnlyIfRemined'
    BY <1>4, <1>12 DEF RespentOnlyIfRemined
  <1>14. QED
    BY <1>11, <1>13

(* ConnectBlock's loop body keeps LInv. *)
LEMMA ConnectTxLInv == IInv /\ LInv /\ ConnectTx => LInv'
  <1> SUFFICES ASSUME IInv, LInv, ConnectTx PROVE LInv'
    OBVIOUS
  <1>1. pc = "connect" /\ pc' = "connect" /\ UNCHANGED <<memVars, dbVars, cur>>
    BY ConnectTxFacts
  <1> USE DEF memVars, dbVars
  <1>2. HeightsCount' /\ EmptyBeforeGenesis'
    BY <1>1 DEF LInv, HeightsCount, EmptyBeforeGenesis, OnDiskChain
  <1>3. SpendsJustified'
    BY <1>1 DEF LInv, SpendsJustified, OnDiskChain
  <1>4. Unspent' = Unspent
    BY <1>1 DEF Unspent
  <1>5. SoundOutputs(Unspent)'
    BY <1>4 DEF SoundOutputs, LInv
  <1>6. SupplyMatchesUnspent'
    BY <1>1, <1>4 DEF SupplyMatchesUnspent, LInv
  <1>7. Connecting'
    <2>1. /\ \A i \in DOMAIN Block[cur].vtx : CheckTransaction(Block[cur].vtx[i])
          /\ \A i, j \in DOMAIN Block[cur].vtx : Block[cur].vtx[i] = Block[cur].vtx[j] => i = j
      BY <1>1 DEF LInv, Connecting
    <2> QED
      BY <1>1, <2>1, ConnectTxValue, ConnectTxJustified, ConnectTxQueue DEF Connecting
  <1>8. QED
    BY <1>2, <1>3, <1>5, <1>6, <1>7 DEF LInv

(* The commit makes the queued changes the ledger on disk. *)
LEMMA ConnectCommitsFacts ==
  ASSUME IInv, LInv, ConnectCommits
  PROVE  /\ pc = "connect" /\ pc' = "idle" /\ dbBest' = cur /\ dbPos' = viewPos /\ dbSpent' = viewSpent
         /\ UNCHANGED <<nHeight, dbIndex>>
         /\ dbSupply'[cur] = dbSupply[dbBest] + nValueOut - nValueIn
         /\ \A b \in Blocks : OnDiskChain(b)' <=> OnViewChain(b)
         /\ Unspent' = ViewUnspent
         /\ Unspent' = Abstract!ApplyAll(Unspent, Block[cur].vtx)
  <1> DEFINE prev == Prev(cur)
             supply == nMoneySupply[prev] + nValueOut - nValueIn
  <1>1. /\ pc = "connect" /\ k = Len(Block[cur].vtx)
        /\ CommitBatch(supply) /\ UpdateMemory(supply) /\ Idle
    BY DEF ConnectCommits, AtEnd
  <1>2. /\ cur \in Blocks /\ cur # Null /\ ~OnDiskChain(cur)
        /\ dbBest \in Blocks /\ prev = dbBest /\ OnDiskChain(dbBest)
        /\ Block[cur].vtx \in Seq(Txs) /\ nMoneySupply = dbSupply /\ pnext = dbNext
    BY <1>1, ConnectFacts
  <1>3. cur # prev /\ cur \in dbIndex /\ dbNext[cur] = Null
    BY <1>1, <1>2 DEF IInv, InProgress, OnDiskChain
  <1>4. /\ pc' = "idle" /\ dbBest' = cur /\ dbPos' = viewPos /\ dbSpent' = viewSpent
        /\ UNCHANGED <<nHeight, dbIndex>>
    BY <1>1 DEF CommitBatch, UpdateMemory, Idle
  <1>5. dbSupply'[cur] = supply
    BY <1>1, <1>2, <1>3 DEF CommitBatch, IInv, TypeOK
  <1>6. \A b \in Blocks : dbNext'[b] = IF b = prev THEN cur ELSE dbNext[b]
    BY <1>1, <1>2, <1>3 DEF CommitBatch, IInv, TypeOK
  <1>7. \A b \in Blocks : OnDiskChain(b)' <=> OnViewChain(b)
    <2>1. ASSUME NEW b \in Blocks PROVE OnDiskChain(b)' <=> OnViewChain(b)
      <3>1. CASE b = cur
        BY <1>3, <1>4, <3>1 DEF OnDiskChain, OnViewChain
      <3>2. CASE b = prev
        BY <1>2, <1>4, <1>6, <3>2 DEF OnDiskChain, OnViewChain
      <3>3. CASE b # cur /\ b # prev
        BY <1>2, <1>4, <1>6, <3>3 DEF OnDiskChain, OnViewChain
      <3> QED
        BY <3>1, <3>2, <3>3
    <2> QED
      BY <2>1
  <1>8. Unspent' = ViewUnspent
    BY <1>4 DEF Unspent, ViewUnspent
  <1>9. SubSeq(Block[cur].vtx, 1, k) = Block[cur].vtx
    BY <1>1, <1>2
  <1>10. Abstract!ApplyAll(Unspent, Block[cur].vtx) = ViewUnspent
    BY <1>1, <1>9 DEF LInv, Connecting, Applied
  <1>11. QED
    BY <1>1, <1>2, <1>4, <1>5, <1>7, <1>8, <1>10

(* The commit keeps LInv. *)
LEMMA ConnectCommitsLInv == IInv /\ LInv /\ ConnectCommits => LInv'
  <1> SUFFICES ASSUME IInv, LInv, ConnectCommits PROVE LInv'
    OBVIOUS
  <1>1. /\ pc = "connect" /\ pc' = "idle" /\ dbBest' = cur /\ dbPos' = viewPos /\ dbSpent' = viewSpent
        /\ UNCHANGED <<nHeight, dbIndex>>
        /\ dbSupply'[cur] = dbSupply[dbBest] + nValueOut - nValueIn
        /\ \A b \in Blocks : OnDiskChain(b)' <=> OnViewChain(b)
        /\ Unspent' = ViewUnspent
    BY ConnectCommitsFacts
  <1>2. /\ cur \in Blocks /\ cur # Null /\ dbBest \in Blocks /\ dbBest # Null
        /\ OnDiskChain(dbBest) /\ nHeight[cur] = nHeight[dbBest] + 1
    BY <1>1, ConnectFacts, BlockAssumption
  <1>3. \A b \in Blocks : nHeight[b] \in Nat
    BY DEF IInv, TypeOK
  <1>4. HeightsCount'
    <2>1. \A b \in Blocks : OnDiskChain(b) => nHeight[b] < nHeight[cur]
      BY <1>2, <1>3 DEF LInv, HeightsCount
    <2>2. \A b \in Blocks : OnViewChain(b) => nHeight[b] <= nHeight[cur]
      BY <1>2, <1>3, <2>1 DEF OnViewChain
    <2>3. \A b, c \in Blocks : OnViewChain(b) /\ OnViewChain(c) /\ nHeight[b] = nHeight[c] => b = c
      <3>1. ASSUME NEW b \in Blocks, NEW c \in Blocks, OnViewChain(b), OnViewChain(c), nHeight[b] = nHeight[c]
            PROVE  b = c
        <4>1. CASE b = cur \/ c = cur
          BY <1>2, <1>3, <2>1, <3>1, <4>1 DEF OnViewChain
        <4>2. CASE b # cur /\ c # cur
          BY <3>1, <4>2 DEF OnViewChain, LInv, HeightsCount
        <4> QED
          BY <4>1, <4>2
      <3> QED
        BY <3>1
    <2>4. dbIndex' # {} => nHeight'[Genesis] = 0
      BY <1>1 DEF LInv, HeightsCount
    <2> QED
      BY <1>1, <2>2, <2>3, <2>4 DEF HeightsCount
  <1>5. EmptyBeforeGenesis' /\ Connecting'
    BY <1>1, <1>2 DEF EmptyBeforeGenesis, Connecting
  <1>6. SpendsJustified'
    <2>1. ViewJustified
      BY <1>1 DEF LInv, Connecting
    <2>2. ASSUME NEW t \in Txs, viewPos[t] # Null
          PROVE  OnDiskChain(dbPos[t])' /\ t \in Range(Block[viewPos[t]].vtx)
      BY <1>1, <2>1, <2>2 DEF ViewJustified, IInv, TypeOK
    <2>3. ASSUME NEW op \in OutPoints, viewSpent[op] # Null
          PROVE  /\ OnDiskChain(dbSpent[op][1])'
                 /\ viewPos[op[1]] # Null
                 /\ nHeight[viewSpent[op][1]] - nHeight[viewPos[op[1]]] >=
                       IF IsCoinBase(op[1]) THEN nCoinbaseMaturity ELSE 0
                 /\ viewSpent[op][2] \in Range(Block[viewSpent[op][1]].vtx)
                 /\ op \in Inputs(viewSpent[op][2])
      <3>1. viewSpent[op] \in Blocks \X Txs
        BY <2>3 DEF IInv, TypeOK
      <3>2. viewSpent[op][1] \in Blocks
        BY <3>1
      <3> QED
        BY <1>1, <2>1, <2>3, <3>2 DEF ViewJustified
    <2> QED
      BY <1>1, <2>2, <2>3 DEF SpendsJustified
  <1>7. SoundOutputs(Unspent)'
    <2>1. SoundOutputs(ViewUnspent)
      BY <1>1 DEF LInv, Connecting
    <2> QED
      BY <1>1, <2>1 DEF SoundOutputs
  <1>8. SupplyMatchesUnspent'
    <2>1. dbSupply[dbBest] = Abstract!Value(Unspent)
      BY <1>2 DEF LInv, SupplyMatchesUnspent
    <2>2. nValueOut - nValueIn = Abstract!Value(ViewUnspent) - Abstract!Value(Unspent)
      BY <1>1 DEF LInv, Connecting, Applied
    <2>3. Abstract!Value(Unspent) \in Nat /\ Abstract!Value(ViewUnspent) \in Nat
      BY <1>1, ValueOfSound DEF LInv, Connecting, Unspent, ViewUnspent
    <2>4. nValueOut \in Int /\ nValueIn \in Int
      BY DEF IInv, TypeOK
    <2>5. dbSupply'[cur] = Abstract!Value(ViewUnspent)
      <3> DEFINE u == Abstract!Value(Unspent)
                 v == Abstract!Value(ViewUnspent)
      <3>1. u \in Int /\ v \in Int /\ nValueOut - nValueIn = v - u /\ dbSupply'[cur] = u + nValueOut - nValueIn
        BY <1>1, <2>1, <2>2, <2>3
      <3> HIDE DEF u, v
      <3>2. dbSupply'[cur] = v
        BY <2>4, <3>1
      <3> QED
        BY <3>2 DEF v
    <2> QED
      BY <1>1, <2>5 DEF SupplyMatchesUnspent
  <1>9. QED
    BY <1>4, <1>5, <1>6, <1>7, <1>8 DEF LInv

(* Every step of the node keeps LInv. *)
LEMMA NextLInv == IInv /\ LInv /\ [Next]_vars => LInv'
  <1> SUFFICES ASSUME IInv, LInv, [Next]_vars PROVE LInv'
    OBVIOUS
  <1> USE DEF memVars, dbVars, loopVars
  <1>1. CASE CreateGenesis
    BY <1>1, AddToBlockIndexLInv, BlockAssumption DEF CreateGenesis
  <1>2. CASE LoadBlockIndexFails
    BY <1>2, QuietLInv DEF LoadBlockIndexFails
  <1>3. CASE Stop
    BY <1>3, QuietLInv DEF Stop, MemoryLost
  <1>4. ASSUME NEW now \in Times, LoadBlockIndex(now) PROVE LInv'
    BY <1>4, QuietLInv DEF LoadBlockIndex, AfterLoad
  <1>5. ASSUME NEW now \in Times, ConnectBegin(now) PROVE LInv'
    BY <1>5, ConnectBeginLInv
  <1>6. ASSUME NEW b \in Blocks, NEW now \in Times, ProcessBlock(b, now) PROVE LInv'
    <2>1. mapBlockIndex = dbIndex
      BY <1>6 DEF ProcessBlock, IInv, DiskMemoryAgree
    <2>2. pc = "idle" /\ b \notin dbIndex /\ Prev(b) \in dbIndex /\ AddToBlockIndex(b)
      BY <1>6, <2>1 DEF ProcessBlock, Deliverable
    <2> QED
      BY <2>2, AddToBlockIndexLInv
  <1>7. ASSUME NEW b \in Blocks, NEW now \in Times, ProcessBlockFaults(b, now) PROVE LInv'
    BY <1>7, QuietLInv DEF ProcessBlockFaults, Stop, MemoryLost
  <1>8. CASE SetBestGenesis
    BY <1>8, SetBestGenesisLInv
  <1>9. CASE SetBestRefuses
    BY <1>9, QuietLInv DEF SetBestRefuses, Idle
  <1>10. CASE ConnectTx
    BY <1>10, ConnectTxLInv
  <1>11. CASE ConnectTxFails \/ ConnectTxThrows \/ ConnectReward
    BY <1>11, QuietLInv DEF ConnectTxFails, ConnectTxThrows, ConnectReward, Idle, InvalidChainFound
  <1>12. CASE ConnectCommits
    BY <1>12, ConnectCommitsLInv
  <1>13. CASE UNCHANGED vars
    <2>1. CASE pc # "connect"
      BY <1>13, <2>1, QuietLInv DEF vars
    <2>2. CASE pc = "connect"
      <3> USE <1>13 DEF vars
      <3>1. HeightsCount' /\ EmptyBeforeGenesis'
        BY DEF LInv, HeightsCount, EmptyBeforeGenesis, OnDiskChain
      <3>2. SpendsJustified'
        BY DEF LInv, SpendsJustified, OnDiskChain
      <3>3. Unspent' = Unspent /\ ViewUnspent' = ViewUnspent
        BY DEF Unspent, ViewUnspent
      <3>4. SoundOutputs(Unspent)' /\ SupplyMatchesUnspent'
        BY <3>3 DEF SoundOutputs, LInv, SupplyMatchesUnspent
      <3>5. ViewJustified' /\ QueuedOnlyBehind' /\ RespentOnlyIfRemined'
        BY <2>2 DEF LInv, Connecting, ViewJustified, QueuedOnlyBehind, RespentOnlyIfRemined,
                    OnViewChain, OnDiskChain, Ahead
      <3>6. Applied' /\ SoundOutputs(ViewUnspent)'
        BY <2>2, <3>3 DEF LInv, Connecting, Applied, SoundOutputs
      <3>7. Connecting'
        BY <2>2, <3>5, <3>6 DEF LInv, Connecting
      <3> QED
        BY <3>1, <3>2, <3>4, <3>7 DEF LInv
    <2> QED
      BY <2>1, <2>2
  <1>14. QED
    BY <1>1, <1>2, <1>3, <1>4, <1>5, <1>6, <1>7, <1>8, <1>9, <1>10, <1>11, <1>12, <1>13 DEF Next

-----------------------------------------------------------------------------
(* Theorems *)

(* IInv and LInv hold in every reachable state. *)
THEOREM LedgerInvariance == Spec => [](IInv /\ LInv)
  <1>1. Init => IInv /\ LInv
    BY InitIInv, InitLInv
  <1>2. IInv /\ LInv /\ [Next]_vars => IInv' /\ LInv'
    BY NextIInv, NextLInv
  <1>3. QED
    BY <1>1, <1>2, PTL DEF Spec

(* The money supply that ConnectBlock writes for the tip is the value of all *)
(* unspent outputs, for blocks with any number of transactions, inputs and   *)
(* outputs: no fee, refused block, crash or repeated transaction makes the   *)
(* two drift apart.                                                          *)
THEOREM SupplyIsUnspent == Spec => []SupplyMatchesUnspent
  <1>1. IInv /\ LInv => SupplyMatchesUnspent
    BY DEF LInv
  <1>2. QED
    BY <1>1, LedgerInvariance, PTL

(* Every position and every spent mark of the transaction index is justified *)
(* by a block of the best chain, and coinbase outputs are spent only at the  *)
(* depth ConnectInputs asks for.                                             *)
THEOREM SpendsAreJustified == Spec => []SpendsJustified
  <1>1. IInv /\ LInv => SpendsJustified
    BY DEF LInv
  <1>2. QED
    BY <1>1, LedgerInvariance, PTL

(* What a step can do to the ledger on disk. *)
LEMMA LedgerSteps ==
  ASSUME IInv, [Next]_vars
  PROVE  \/ UNCHANGED <<dbBest, dbPos, dbSpent>>
         \/ dbBest = Null /\ dbBest' = Genesis /\ UNCHANGED <<dbPos, dbSpent>>
         \/ ConnectCommits
  <1> USE DEF dbVars
  <1>1. CASE CreateGenesis \/ \E b \in Blocks, now \in Times : ProcessBlock(b, now)
    BY <1>1 DEF CreateGenesis, ProcessBlock, AddToBlockIndex
  <1>2. CASE LoadBlockIndexFails \/ Stop \/ SetBestRefuses \/ ConnectTx \/ ConnectTxThrows
    BY <1>2 DEF LoadBlockIndexFails, Stop, SetBestRefuses, ConnectTx, ConnectTxThrows
  <1>3. CASE \E now \in Times : LoadBlockIndex(now) \/ ConnectBegin(now)
    BY <1>3 DEF LoadBlockIndex, ConnectBegin, InvalidChainFound
  <1>4. CASE \E b \in Blocks, now \in Times : ProcessBlockFaults(b, now)
    BY <1>4 DEF ProcessBlockFaults, Stop
  <1>5. CASE SetBestGenesis
    BY <1>5 DEF SetBestGenesis, IInv, DiskMemoryAgree
  <1>6. CASE ConnectTxFails \/ ConnectReward
    BY <1>6 DEF ConnectTxFails, ConnectReward, InvalidChainFound
  <1>7. CASE UNCHANGED vars
    BY <1>7 DEF vars
  <1>8. QED
    BY <1>1, <1>2, <1>3, <1>4, <1>5, <1>6, <1>7 DEF Next

(* A spent mark on disk changes only when the block that becomes the tip     *)
(* contains the same transaction again and all its outputs had been spent.   *)
THEOREM SpentMarksFinal == Spec => SpentIsFinal
  <1>1. ASSUME IInv, LInv, [Next]_vars, NEW op \in OutPoints,
               dbSpent[op] # Null, dbSpent'[op] # dbSpent[op]
        PROVE  /\ dbPos'[op[1]] = dbBest'
               /\ \A n \in DOMAIN Tx[op[1]].vout : dbSpent[<<op[1], n>>] # Null
    <2>1. ConnectCommits
      BY <1>1, LedgerSteps
    <2>2. pc = "connect" /\ dbBest' = cur /\ dbPos' = viewPos /\ dbSpent' = viewSpent
      BY <1>1, <2>1, ConnectCommitsFacts
    <2>3. RespentOnlyIfRemined
      BY <1>1, <2>2 DEF LInv, Connecting
    <2> QED
      BY <1>1, <2>2, <2>3 DEF RespentOnlyIfRemined
  <1>2. IInv /\ LInv /\ [Next]_vars =>
          [\A op \in OutPoints :
              dbSpent[op] # Null /\ dbSpent'[op] # dbSpent[op] =>
                  /\ dbPos'[op[1]] = dbBest'
                  /\ \A n \in DOMAIN Tx[op[1]].vout : dbSpent[<<op[1], n>>] # Null]_vars
    BY <1>1
  <1>3. QED
    BY <1>2, LedgerInvariance, PTL DEF Spec, SpentIsFinal

(* Each step of the node is a step of the ledger, or none. *)
LEMMA LedgerStep ==
  ASSUME IInv, LInv, IInv', LInv', [Next]_vars
  PROVE  [Abstract!Next]_<<dbBest, Unspent>>
  <1>1. CASE UNCHANGED <<dbBest, dbPos, dbSpent>>
    BY <1>1 DEF Unspent
  <1>2. CASE dbBest = Null /\ dbBest' = Genesis /\ UNCHANGED <<dbPos, dbSpent>>
    <2>1. Unspent' = Unspent
      BY <1>2 DEF Unspent
    <2> QED
      BY <1>2, <2>1 DEF Abstract!Next, Abstract!Create
  <1>3. CASE ConnectCommits
    <2>1. /\ pc = "connect" /\ dbBest' = cur
          /\ Unspent' = Abstract!ApplyAll(Unspent, Block[cur].vtx)
      BY <1>3, ConnectCommitsFacts
    <2>2. cur \in Blocks /\ dbBest \in Blocks /\ Prev(cur) = dbBest
      BY <2>1, ConnectFacts
    <2>3. dbBest # Null /\ dbBest' # Null /\ Block[cur].hashPrevBlock = dbBest
      BY <2>1, <2>2, BlockAssumption DEF Prev
    <2>4. Unspent' # {Null}
      BY NullAssumption DEF Unspent
    <2>5. Abstract!Value(Unspent') \in 0..MAX_MONEY
      <3>1. Unspent' \in SUBSET OutPoints
        BY DEF Unspent
      <3>2. SoundOutputs(Unspent')
        BY DEF LInv, SoundOutputs
      <3>3. Abstract!Value(Unspent') \in Nat
        BY <3>1, <3>2, ValueOfSound
      <3>4. dbSupply'[dbBest'] = Abstract!Value(Unspent')
        BY <2>3 DEF LInv, SupplyMatchesUnspent
      <3>5. dbSupply'[dbBest'] <= MAX_MONEY
        BY <2>1, <2>2 DEF IInv, SupplyWithinLimit
      <3> QED
        BY <3>3, <3>4, <3>5, LimitAssumption
    <2>6. Abstract!Extend(cur)
      BY <2>1, <2>3, <2>4, <2>5 DEF Abstract!Extend
    <2> QED
      BY <2>2, <2>6 DEF Abstract!Next
  <1>4. QED
    BY <1>1, <1>2, <1>3, LedgerSteps

(* The node implements the ledger: read from disk, its tip and its unspent   *)
(* outputs change by whole blocks, each applied transaction by transaction   *)
(* and without overspending, wherever ConnectBlock stops or the process      *)
(* dies.                                                                     *)
THEOREM RefinesLedger == Spec => ImplementsLedger
  <1>1. Init => Abstract!Init
    <2> SUFFICES ASSUME Init PROVE Abstract!Init
      OBVIOUS
    <2>1. dbBest = Null /\ Unspent = {}
      BY OutPointFacts DEF Init, Unspent
    <2> QED
      BY <2>1 DEF Abstract!Init
  <1>2. (IInv /\ LInv) /\ (IInv /\ LInv)' /\ [Next]_vars => [Abstract!Next]_<<dbBest, Unspent>>
    BY LedgerStep
  <1>3. QED
    BY <1>1, <1>2, LedgerInvariance, PTL DEF Spec, ImplementsLedger, Abstract!Spec
=============================================================================
