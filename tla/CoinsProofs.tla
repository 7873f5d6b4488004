----------------------------- MODULE CoinsProofs -----------------------------
(***************************************************************************)
(* What the wallet knows of the chain and of its coins: every transaction  *)
(* of the chain that involves it, the spender of every coin it has         *)
(* flagged, the flag of every coin the chain has spent, and the credit it  *)
(* has cached, for every set of transactions and blocks.                   *)
(***************************************************************************)
EXTENDS Coins, FiniteSetTheorems, WellFoundedInduction, TLAPS

-----------------------------------------------------------------------------
(* The invariant *)

IsWtx(r) == r = [hashBlock |-> r.hashBlock, spent |-> r.spent, vtxPrev |-> r.vtxPrev]

IsWallet(w) ==
    /\ DOMAIN w \subseteq Tx
    /\ w = [t \in DOMAIN w |-> w[t]]
    /\ \A t \in DOMAIN w : IsWtx(w[t])

(* What comes before the transaction at position j of block i of the chain. *)
Earlier(i, j) ==
    {Block[chain[i]].vtx[m] : m \in 1..(j - 1)} \cup UNION {Range(Block[chain[k]].vtx) : k \in 1..(i - 1)}

(* A transaction of the chain is there once, after those whose outputs it    *)
(* spends.                                                                   *)
ChainOrdered ==
    \A i \in DOMAIN chain : \A j \in DOMAIN Block[chain[i]].vtx :
        LET t == Block[chain[i]].vtx[j]
        IN  t \notin Earlier(i, j) /\ \A o \in vin[t] : o[1] \in Earlier(i, j)

(* SpentHasSpender, for given contents. *)
Spender(w) ==
    \A t \in DOMAIN w : \A n \in w[t].spent : \E u \in DOMAIN w \cup ChainTxs : <<t, n>> \in vin[u]

(* Of the transactions in ts, the wallet has those that involve it, with     *)
(* their blocks.                                                             *)
Known(w, ks, ts) == \A t \in ts : Involves(w, ks, t) => t \in DOMAIN w /\ w[t].hashBlock = BlockOf(t, None)

(* The coins that the chain has spent are flagged, but for the coinbases     *)
(* that ReacceptWalletTransactions passes over.                              *)
Marked(w, ks) ==
    \A t \in DOMAIN w : \A n \in DOMAIN vout[t] :
        SpentInChain(<<t, n>>) /\ IsMine(ks, <<t, n>>) =>
            n \in w[t].spent \/ (t \in CoinBases /\ 1 \in w[t].spent)

(* The transactions of a block, after those in ts, come after those whose    *)
(* outputs they spend, and are new.                                          *)
InOrder(vtx, ts) ==
    \A i \in DOMAIN vtx :
        /\ vtx[i] \notin ts /\ \A j \in 1..(i - 1) : vtx[i] # vtx[j]
        /\ \A o \in vin[vtx[i]] : o[1] \in ts \/ \E j \in 1..(i - 1) : o[1] = vtx[j]

(* What the wallet has heard of the block that is being connected. *)
Heard ==
    LET vtx == Block[connecting.block].vtx
    IN  /\ connecting = [block |-> connecting.block, done |-> connecting.done]
        /\ connecting.block \in DOMAIN Block
        /\ connecting.done \in 0..Len(vtx)
        /\ InOrder(vtx, ChainTxs)
        /\ Range(vtx) \cap Payments \subseteq made
        /\ \A i \in 1..connecting.done :
             /\ Involves(mapWallet, keys, vtx[i]) =>
                  vtx[i] \in DOMAIN mapWallet /\ mapWallet[vtx[i]].hashBlock = connecting.block
             /\ \A o \in vin[vtx[i]] : o[1] \in DOMAIN mapWallet /\ IsMine(keys, o) =>
                  o[2] \in mapWallet[o[1]].spent

(* The inductive invariant.  The wallet of a process that has ended may lack *)
(* flags, which ReacceptWalletTransactions sets at the next start; a coin    *)
(* that is spent by a block in ConnectBlock is flagged before the block is   *)
(* in the chain.                                                             *)
CInv ==
    /\ alive \in BOOLEAN /\ restored \in BOOLEAN
    /\ chain \in Seq(DOMAIN Block)
    /\ ChainOrdered
    /\ ChainTxs \cap Payments \subseteq made
    /\ ~alive => DOMAIN cached = {} /\ connecting = NotConnecting
    /\ IsWallet(mapWallet) /\ Spender(mapWallet)
    /\ IsWallet(backup.mapWallet) /\ Spender(backup.mapWallet)
    /\ CreditCacheCoherent
    /\ restored \/ Known(mapWallet, keys, ChainTxs)
    /\ alive => Marked(mapWallet, keys)
    /\ connecting # NotConnecting => Heard

-----------------------------------------------------------------------------

(* Induction on the natural numbers, for a set. *)
LEMMA SetInduction ==
  ASSUME NEW S, 0 \in S, \A n \in Nat : n \in S => n + 1 \in S
  PROVE  Nat \subseteq S
  <1> DEFINE R == OpToRel(<, Nat)
             T == {n \in Nat : n \notin S}
  <1>1. SUFFICES ASSUME T # {} PROVE FALSE
    OBVIOUS
  <1>2. IsWellFoundedOn(R, Nat)
    BY NatLessThanWellFounded, Zenon
  <1>3. T \subseteq Nat
    OBVIOUS
  <1>4. \E x \in T : \A y \in T : ~(<<y, x>> \in R)
    <2> HIDE DEF R, T
    <2> QED
      BY <1>1, <1>2, <1>3, WFMin, Zenon
  <1>5. PICK x \in T : \A y \in T : ~(<<y, x>> \in R)
    BY <1>4, Zenon
  <1>6. \A y \in Nat : y < x => <<y, x>> \in R
    BY DEF OpToRel
  <1> HIDE DEF R
  <1>7. x \in Nat /\ x # 0 /\ x - 1 \in Nat /\ x - 1 < x /\ (x - 1) + 1 = x
    OBVIOUS
  <1>8. x - 1 \in S
    BY <1>5, <1>6, <1>7, Zenon
  <1>9. x \in S
    BY <1>7, <1>8
  <1>10. QED
    BY <1>9

-----------------------------------------------------------------------------
(* AddToWallet *)

(* What a transaction seen with block b does to the wallet: it is put there  *)
(* or not, and flags are set only for coins it spends.                       *)
Saw(w, v, ks, t, b, fUpdate) ==
    /\ IsWallet(v)
    /\ DOMAIN w \subseteq DOMAIN v /\ DOMAIN v \subseteq DOMAIN w \cup {t}
    /\ \A u \in DOMAIN w : w[u].spent \subseteq v[u].spent
    /\ \A u \in DOMAIN v : \A n \in v[u].spent :
         (u \in DOMAIN w /\ n \in w[u].spent) \/ (<<u, n>> \in vin[t] /\ t \in DOMAIN v)
    /\ \A u \in DOMAIN w \ {t} : v[u].hashBlock = w[u].hashBlock
    /\ Involves(w, ks, t) => t \in DOMAIN v
    /\ t \notin DOMAIN v => v = w
    /\ t \in DOMAIN w /\ ~fUpdate => v = w
    /\ t \in DOMAIN v /\ (fUpdate \/ t \notin DOMAIN w) /\ b # None => v[t].hashBlock = b
    /\ fUpdate \/ t \notin DOMAIN w =>
         \A o \in vin[t] : o[1] \in DOMAIN v /\ IsMine(ks, o) => o[2] \in v[o[1]].spent

(* An outpoint is a transaction and the number of one of its outputs. *)
LEMMA OutPoint ==
    ASSUME NEW t \in Tx, NEW o \in vin[t]
    PROVE  o = <<o[1], o[2]>> /\ o[1] \in Tx /\ o[2] \in DOMAIN vout[o[1]]
<1>1. PICK p \in Tx : \E n \in DOMAIN vout[p] : o = <<p, n>>
  BY TxAssumption
<1>2. PICK n \in DOMAIN vout[p] : o = <<p, n>>
  BY <1>1
<1>3. o[1] = p /\ o[2] = n
  BY <1>2
<1> QED
  BY <1>2, <1>3

(* WalletUpdateSpent *)
LEMMA UpdateSpent ==
    ASSUME NEW w, IsWallet(w), NEW ks, NEW t \in Tx, NEW v, v = WalletUpdateSpent(w, ks, t)
    PROVE  /\ IsWallet(v) /\ DOMAIN v = DOMAIN w
           /\ \A u \in DOMAIN w :
                /\ v[u].spent = w[u].spent \cup {n \in DOMAIN vout[u] : <<u, n>> \in GetDebit(w, ks, t)}
                /\ v[u].hashBlock = w[u].hashBlock
           /\ ~IsFromMe(w, ks, t) => v = w
           /\ \A o \in vin[t] : o[1] \in DOMAIN w /\ IsMine(ks, o) => o[2] \in v[o[1]].spent
<1> DEFINE flag(u) == {n \in DOMAIN vout[u] : <<u, n>> \in GetDebit(w, ks, t)}
<1>1. v = [u \in DOMAIN w |-> [w[u] EXCEPT !.spent = @ \cup flag(u)]]
  BY DEF WalletUpdateSpent
<1> HIDE DEF flag
<1>2. DOMAIN v = DOMAIN w /\ v = [u \in DOMAIN v |-> v[u]]
  BY <1>1
<1>3. ASSUME NEW u \in DOMAIN w
      PROVE  IsWtx(v[u]) /\ v[u].spent = w[u].spent \cup flag(u) /\ v[u].hashBlock = w[u].hashBlock
  <2>1. v[u] = [w[u] EXCEPT !.spent = @ \cup flag(u)]
    BY <1>1
  <2>2. w[u] = [hashBlock |-> w[u].hashBlock, spent |-> w[u].spent, vtxPrev |-> w[u].vtxPrev]
    BY DEF IsWallet, IsWtx
  <2>3. v[u] = [hashBlock |-> w[u].hashBlock, spent |-> w[u].spent \cup flag(u), vtxPrev |-> w[u].vtxPrev]
    BY <2>1, <2>2
  <2> QED
    BY <2>3 DEF IsWtx
<1>4. IsWallet(v)
  BY <1>2, <1>3 DEF IsWallet
<1>5. ASSUME ~IsFromMe(w, ks, t) PROVE v = w
  <2>1. \A u \in DOMAIN w : flag(u) = {}
    BY <1>5 DEF flag, IsFromMe
  <2>2. ASSUME NEW u \in DOMAIN w PROVE v[u] = w[u]
    <3>1. w[u] = [hashBlock |-> w[u].hashBlock, spent |-> w[u].spent, vtxPrev |-> w[u].vtxPrev]
      BY DEF IsWallet, IsWtx
    <3>2. v[u] = [w[u] EXCEPT !.spent = @ \cup flag(u)]
      BY <1>1
    <3>3. w[u].spent \cup flag(u) = w[u].spent
      BY <2>1
    <3> QED
      BY <3>1, <3>2, <3>3
  <2>3. w = [u \in DOMAIN w |-> w[u]]
    BY DEF IsWallet
  <2> QED
    BY <1>2, <2>2, <2>3
<1>6. ASSUME NEW o \in vin[t], o[1] \in DOMAIN w, IsMine(ks, o) PROVE o[2] \in v[o[1]].spent
  <2>1. o = <<o[1], o[2]>> /\ o[2] \in DOMAIN vout[o[1]]
    BY OutPoint
  <2>2. o \in GetDebit(w, ks, t)
    BY <1>6 DEF GetDebit
  <2>3. <<o[1], o[2]>> \in GetDebit(w, ks, t)
    BY <2>1, <2>2, Zenon
  <2>4. o[2] \in flag(o[1])
    BY <2>1, <2>3 DEF flag
  <2> QED
    BY <1>3, <1>6, <2>4
<1>7. \A u \in DOMAIN w : v[u].spent = w[u].spent \cup flag(u) /\ v[u].hashBlock = w[u].hashBlock
  BY <1>3
<1> QED
  BY <1>2, <1>4, <1>5, <1>6, <1>7 DEF flag

(* The record is inserted or merged. *)
Has(w, v, t, b) ==
    /\ IsWallet(v) /\ DOMAIN v = DOMAIN w \cup {t}
    /\ \A u \in DOMAIN w : v[u].spent = w[u].spent
    /\ t \notin DOMAIN w => v[t].spent = {}
    /\ \A u \in DOMAIN w \ {t} : v[u].hashBlock = w[u].hashBlock
    /\ b # None => v[t].hashBlock = b

(* What AddToWallet writes first. *)
LEMMA Merged ==
    ASSUME NEW w, IsWallet(w), NEW t \in Tx, NEW wtx, IsWtx(wtx), wtx.spent = {}
    PROVE  Has(w, Merge(w, t, wtx), t, wtx.hashBlock)
<1> DEFINE v == Merge(w, t, wtx)
<1>0. v = Merge(w, t, wtx)
  OBVIOUS
<1> HIDE DEF v
<1>1. DOMAIN v = DOMAIN w \cup {t} /\ v = [u \in DOMAIN v |-> v[u]]
  BY <1>0 DEF Merge
<1>2. \A u \in DOMAIN w \ {t} : v[u] = w[u]
  BY <1>0 DEF Merge
<1>3. ASSUME t \notin DOMAIN w PROVE Has(w, v, t, wtx.hashBlock)
  <2>1. v[t] = wtx
    BY <1>0, <1>3 DEF Merge
  <2>2. \A u \in DOMAIN v : IsWtx(v[u])
    BY <1>1, <1>2, <2>1 DEF IsWallet
  <2> QED
    BY <1>1, <1>2, <1>3, <2>1, <2>2 DEF IsWallet, Has
<1>4. ASSUME t \in DOMAIN w PROVE Has(w, v, t, wtx.hashBlock)
  <2> DEFINE b == IF wtx.hashBlock = None THEN w[t].hashBlock ELSE wtx.hashBlock
  <2>1. v[t] = [w[t] EXCEPT !.hashBlock = b]
    BY <1>0, <1>4 DEF Merge
  <2> HIDE DEF b
  <2>2. w[t] = [hashBlock |-> w[t].hashBlock, spent |-> w[t].spent, vtxPrev |-> w[t].vtxPrev]
    BY <1>4 DEF IsWallet, IsWtx
  <2>3. v[t] = [hashBlock |-> b, spent |-> w[t].spent, vtxPrev |-> w[t].vtxPrev]
    BY <2>1, <2>2
  <2>4. IsWtx(v[t]) /\ v[t].spent = w[t].spent /\ v[t].hashBlock = b
    BY <2>3 DEF IsWtx
  <2>5. \A u \in DOMAIN v : IsWtx(v[u])
    BY <1>1, <1>2, <2>4 DEF IsWallet
  <2>6. wtx.hashBlock # None => b = wtx.hashBlock
    BY DEF b
  <2>7. \A u \in DOMAIN w : v[u].spent = w[u].spent
    BY <1>2, <2>4
  <2>8. IsWallet(v)
    BY <1>1, <2>5 DEF IsWallet
  <2> QED
    BY <1>1, <1>2, <1>4, <2>4, <2>6, <2>7, <2>8 DEF Has
<1>5. Has(w, v, t, wtx.hashBlock)
  BY <1>3, <1>4
<1> QED
  BY <1>0, <1>5

(* A new record. *)
LEMMA NewTxIsWtx ==
    ASSUME NEW b, NEW prev
    PROVE  /\ IsWtx(NewTx(b)) /\ NewTx(b).spent = {} /\ NewTx(b).hashBlock = b
           /\ LET r == [NewTx(b) EXCEPT !.vtxPrev = prev]
              IN  IsWtx(r) /\ r.spent = {} /\ r.hashBlock = b
<1> DEFINE r == [NewTx(b) EXCEPT !.vtxPrev = prev]
<1>1. r = [hashBlock |-> b, spent |-> {}, vtxPrev |-> prev]
  BY DEF NewTx
<1>2. NewTx(b) = [hashBlock |-> b, spent |-> {}, vtxPrev |-> <<>>]
  BY DEF NewTx
<1> HIDE DEF r
<1>3. IsWtx(r) /\ r.spent = {} /\ r.hashBlock = b
  BY <1>1 DEF IsWtx
<1>4. IsWtx(NewTx(b)) /\ NewTx(b).spent = {} /\ NewTx(b).hashBlock = b
  BY <1>2 DEF IsWtx
<1> QED
  BY <1>3, <1>4 DEF r

(* AddToWallet *)
LEMMA Added ==
    ASSUME NEW w, IsWallet(w), NEW ks, NEW t \in Tx, NEW wtx, IsWtx(wtx), wtx.spent = {},
           NEW v, v = AddToWallet(w, ks, t, wtx), NEW fUpdate, t \notin DOMAIN w \/ fUpdate
    PROVE  t \in DOMAIN v /\ Saw(w, v, ks, t, wtx.hashBlock, fUpdate)
<1> DEFINE m == Merge(w, t, wtx)
<1>0. v = WalletUpdateSpent(m, ks, t) /\ Has(w, m, t, wtx.hashBlock)
  BY Merged DEF AddToWallet
<1> HIDE DEF m
<1>1. /\ IsWallet(m) /\ DOMAIN m = DOMAIN w \cup {t}
      /\ \A u \in DOMAIN w : m[u].spent = w[u].spent
      /\ t \notin DOMAIN w => m[t].spent = {}
      /\ \A u \in DOMAIN w \ {t} : m[u].hashBlock = w[u].hashBlock
      /\ wtx.hashBlock # None => m[t].hashBlock = wtx.hashBlock
  BY <1>0 DEF Has
<1>3. /\ IsWallet(v) /\ DOMAIN v = DOMAIN m
      /\ \A u \in DOMAIN m :
           /\ v[u].spent = m[u].spent \cup {n \in DOMAIN vout[u] : <<u, n>> \in GetDebit(m, ks, t)}
           /\ v[u].hashBlock = m[u].hashBlock
      /\ \A o \in vin[t] : o[1] \in DOMAIN m /\ IsMine(ks, o) => o[2] \in v[o[1]].spent
  BY <1>1, <1>0, UpdateSpent
<1>4. \A u \in DOMAIN w : w[u].spent \subseteq v[u].spent
  BY <1>1, <1>3, Zenon
<1>5. ASSUME NEW u \in DOMAIN v, NEW n \in v[u].spent
      PROVE  (u \in DOMAIN w /\ n \in w[u].spent) \/ (<<u, n>> \in vin[t] /\ t \in DOMAIN v)
  <2>1. n \in m[u].spent \/ <<u, n>> \in GetDebit(m, ks, t)
    BY <1>3, <1>5
  <2>2. CASE n \in m[u].spent
    BY <1>1, <1>3, <1>5, <2>2
  <2>3. CASE <<u, n>> \in GetDebit(m, ks, t)
    <3>1. <<u, n>> \in vin[t]
      BY <2>3 DEF GetDebit
    <3> QED
      BY <1>1, <1>3, <3>1
  <2> QED
    BY <2>1, <2>2, <2>3
<1>6. \A u \in DOMAIN w \ {t} : v[u].hashBlock = w[u].hashBlock
  BY <1>1, <1>3
<1>7. t \in DOMAIN v /\ DOMAIN v = DOMAIN w \cup {t}
  BY <1>1, <1>3
<1>8. wtx.hashBlock # None => v[t].hashBlock = wtx.hashBlock
  BY <1>1, <1>3
<1>9. \A o \in vin[t] : o[1] \in DOMAIN v /\ IsMine(ks, o) => o[2] \in v[o[1]].spent
  BY <1>3
<1> QED
  BY <1>3, <1>4, <1>5, <1>6, <1>7, <1>8, <1>9 DEF Saw

(* AddToWalletIfInvolvingMe *)
LEMMA AddedIfInvolved ==
    ASSUME NEW w, IsWallet(w), NEW ks, NEW t \in Tx, NEW b, NEW fUpdate \in BOOLEAN,
           NEW v, v = AddToWalletIfInvolvingMe(w, ks, t, b, fUpdate)
    PROVE  Saw(w, v, ks, t, b, fUpdate)
<1>1. CASE t \in DOMAIN w /\ ~fUpdate
  <2>1. v = w
    BY <1>1 DEF AddToWalletIfInvolvingMe
  <2> QED
    BY <1>1, <2>1 DEF Saw
<1>2. CASE ~(t \in DOMAIN w /\ ~fUpdate) /\ Involves(w, ks, t)
  <2>1. v = AddToWallet(w, ks, t, NewTx(b))
    BY <1>2 DEF AddToWalletIfInvolvingMe
  <2>2. IsWtx(NewTx(b)) /\ NewTx(b).spent = {} /\ NewTx(b).hashBlock = b
    BY NewTxIsWtx, Zenon
  <2>3. Saw(w, v, ks, t, NewTx(b).hashBlock, fUpdate)
    BY <1>2, <2>1, <2>2, Added
  <2> QED
    BY <2>2, <2>3
<1>3. CASE ~(t \in DOMAIN w /\ ~fUpdate) /\ ~Involves(w, ks, t)
  <2>1. v = WalletUpdateSpent(w, ks, t)
    BY <1>3 DEF AddToWalletIfInvolvingMe
  <2>2. t \notin DOMAIN w /\ ~IsFromMe(w, ks, t)
    BY <1>3 DEF Involves
  <2>3. v = w
    BY <2>1, <2>2, UpdateSpent
  <2>4. \A o \in vin[t] : ~(o[1] \in DOMAIN w /\ IsMine(ks, o))
    BY <2>2 DEF IsFromMe, GetDebit
  <2> QED
    BY <1>3, <2>2, <2>3, <2>4 DEF Saw
<1> QED
  BY <1>1, <1>2, <1>3

-----------------------------------------------------------------------------
(* The order of the chain *)

(* The transactions of the index, by their places. *)
LEMMA ChainPlaces ==
    ASSUME chain \in Seq(DOMAIN Block)
    PROVE  /\ \A i \in DOMAIN chain : /\ chain[i] \in DOMAIN Block
                                      /\ Block[chain[i]].vtx \in Seq(Tx)
           /\ \A t : t \in ChainTxs <=>
                       \E i \in DOMAIN chain : \E j \in DOMAIN Block[chain[i]].vtx : t = Block[chain[i]].vtx[j]
           /\ \A t : t \in ChainTxs <=> InChain(t)
           /\ ChainTxs \subseteq Tx
<1>1. \A i \in DOMAIN chain : chain[i] \in DOMAIN Block /\ Block[chain[i]].vtx \in Seq(Tx)
  BY BlockAssumption
<1>2. \A b : b \in Range(chain) <=> \E i \in DOMAIN chain : b = chain[i]
  BY DEF Range
<1>3. \A b, t : t \in Range(Block[b].vtx) <=> \E j \in DOMAIN Block[b].vtx : t = Block[b].vtx[j]
  BY DEF Range
<1>4. \A t : t \in ChainTxs <=> InChain(t)
  BY DEF ChainTxs, InChain
<1>5. \A t : InChain(t) <=>
               \E i \in DOMAIN chain : \E j \in DOMAIN Block[chain[i]].vtx : t = Block[chain[i]].vtx[j]
  <2> SUFFICES ASSUME NEW t
               PROVE  InChain(t) <=> \E i \in DOMAIN chain : \E j \in DOMAIN Block[chain[i]].vtx : t = Block[chain[i]].vtx[j]
    OBVIOUS
  <2>1. InChain(t) <=> \E b \in Range(chain) : t \in Range(Block[b].vtx)
    BY Zenon DEF InChain
  <2>2. (\E b \in Range(chain) : t \in Range(Block[b].vtx)) <=> \E i \in DOMAIN chain : t \in Range(Block[chain[i]].vtx)
    BY <1>2
  <2>3. \A i \in DOMAIN chain : t \in Range(Block[chain[i]].vtx) <=>
                               \E j \in DOMAIN Block[chain[i]].vtx : t = Block[chain[i]].vtx[j]
    BY <1>3, Zenon
  <2> QED
    BY <2>1, <2>2, <2>3, Zenon
<1>6. ChainTxs \subseteq Tx
  <2> SUFFICES ASSUME NEW t \in ChainTxs PROVE t \in Tx
    OBVIOUS
  <2>1. PICK i \in DOMAIN chain : \E j \in DOMAIN Block[chain[i]].vtx : t = Block[chain[i]].vtx[j]
    BY <1>4, <1>5
  <2>2. PICK j \in DOMAIN Block[chain[i]].vtx : t = Block[chain[i]].vtx[j]
    BY <2>1
  <2> DEFINE s == Block[chain[i]].vtx
  <2>3. s \in Seq(Tx) /\ j \in DOMAIN s /\ t = s[j]
    BY <1>1, <2>2
  <2> HIDE DEF s
  <2> QED
    BY <2>3
<1> QED
  BY <1>1, <1>4, <1>5, <1>6

(* What is earlier, by its places. *)
LEMMA EarlierPlaces ==
    ASSUME NEW i, NEW j, NEW t
    PROVE  t \in Earlier(i, j) <=>
             \/ \E k \in 1..(i - 1) : \E m \in DOMAIN Block[chain[k]].vtx : t = Block[chain[k]].vtx[m]
             \/ \E m \in 1..(j - 1) : t = Block[chain[i]].vtx[m]
<1>1. \A b : t \in Range(Block[b].vtx) <=> \E m \in DOMAIN Block[b].vtx : t = Block[b].vtx[m]
  BY DEF Range
<1>2. t \in UNION {Range(Block[chain[k]].vtx) : k \in 1..(i - 1)} <=>
        \E k \in 1..(i - 1) : t \in Range(Block[chain[k]].vtx)
  BY Zenon
<1>3. t \in {Block[chain[i]].vtx[m] : m \in 1..(j - 1)} <=> \E m \in 1..(j - 1) : t = Block[chain[i]].vtx[m]
  BY Zenon
<1>4. t \in Earlier(i, j) <=> \/ t \in UNION {Range(Block[chain[k]].vtx) : k \in 1..(i - 1)}
                             \/ t \in {Block[chain[i]].vtx[m] : m \in 1..(j - 1)}
  BY Zenon DEF Earlier
<1> QED
  BY <1>1, <1>2, <1>3, <1>4, Zenon

(* One transaction further. *)
LEMMA EarlierNext ==
    ASSUME chain \in Seq(DOMAIN Block), NEW i \in DOMAIN chain
    PROVE  /\ \A j \in DOMAIN Block[chain[i]].vtx :
                Earlier(i, j + 1) = Earlier(i, j) \cup {Block[chain[i]].vtx[j]}
           /\ Earlier(i + 1, 1) = Earlier(i, Len(Block[chain[i]].vtx) + 1)
<1> DEFINE s == Block[chain[i]].vtx
           past == UNION {Range(Block[chain[k]].vtx) : k \in 1..(i - 1)}
<1>1. s \in Seq(Tx) /\ i \in Nat
  BY ChainPlaces
<1>2. \A j : Earlier(i, j) = {s[m] : m \in 1..(j - 1)} \cup past
  BY Zenon DEF Earlier
<1>3. Earlier(i + 1, 1) = past \cup Range(s)
  <2>1. \A k : k \in 1..((i + 1) - 1) <=> k \in 1..(i - 1) \/ k = i
    BY <1>1
  <2>2. {Block[chain[i + 1]].vtx[m] : m \in 1..(1 - 1)} = {}
    OBVIOUS
  <2>3. UNION {Range(Block[chain[k]].vtx) : k \in 1..((i + 1) - 1)} = past \cup Range(s)
    <3> DEFINE R == [k \in 1..((i + 1) - 1) |-> Range(Block[chain[k]].vtx)]
    <3>1. past = UNION {R[k] : k \in 1..(i - 1)} /\ Range(s) = R[i]
      BY <2>1, Zenon
    <3>2. UNION {Range(Block[chain[k]].vtx) : k \in 1..((i + 1) - 1)} = UNION {R[k] : k \in 1..((i + 1) - 1)}
      OBVIOUS
    <3> HIDE DEF R, past, s
    <3> QED
      BY <2>1, <3>1, <3>2, Zenon
  <2> QED
    BY <2>2, <2>3 DEF Earlier
<1> HIDE DEF s, past
<1>4. Range(s) = {s[m] : m \in 1..((Len(s) + 1) - 1)}
  <2>1. DOMAIN s = 1..((Len(s) + 1) - 1)
    BY <1>1
  <2> QED
    BY <2>1 DEF Range
<1>5. ASSUME NEW j \in DOMAIN s
      PROVE  {s[m] : m \in 1..((j + 1) - 1)} = {s[m] : m \in 1..(j - 1)} \cup {s[j]}
  <2>1. \A m : m \in 1..((j + 1) - 1) <=> m \in 1..(j - 1) \/ m = j
    BY <1>1
  <2> QED
    BY <2>1
<1>6. \A j \in DOMAIN s : Earlier(i, j + 1) = Earlier(i, j) \cup {s[j]}
  <2> SUFFICES ASSUME NEW j \in DOMAIN s PROVE Earlier(i, j + 1) = Earlier(i, j) \cup {s[j]}
    OBVIOUS
  <2>1. /\ Earlier(i, j) = {s[m] : m \in 1..(j - 1)} \cup past
        /\ Earlier(i, j + 1) = {s[m] : m \in 1..((j + 1) - 1)} \cup past
    BY <1>2, Zenon
  <2>2. {s[m] : m \in 1..((j + 1) - 1)} = {s[m] : m \in 1..(j - 1)} \cup {s[j]}
    BY <1>5
  <2> QED
    BY <2>1, <2>2
<1>7. Earlier(i + 1, 1) = Earlier(i, Len(s) + 1)
  BY <1>2, <1>3, <1>4, Zenon
<1> QED
  BY <1>6, <1>7 DEF s

(* All of the chain is earlier than what comes next. *)
LEMMA AllEarlier ==
    ASSUME chain \in Seq(DOMAIN Block)
    PROVE  /\ Earlier(Len(chain) + 1, 1) = ChainTxs
           /\ Earlier(1, 1) = {}
<1>1. DOMAIN chain = 1..((Len(chain) + 1) - 1)
  OBVIOUS
<1>2. ASSUME NEW t PROVE t \in Earlier(Len(chain) + 1, 1) <=> t \in ChainTxs
  <2>1. t \in Earlier(Len(chain) + 1, 1) <=>
          \/ \E k \in 1..((Len(chain) + 1) - 1) : \E m \in DOMAIN Block[chain[k]].vtx : t = Block[chain[k]].vtx[m]
          \/ \E m \in 1..(1 - 1) : t = Block[chain[Len(chain) + 1]].vtx[m]
    BY EarlierPlaces
  <2>2. ~\E m \in 1..(1 - 1) : t = Block[chain[Len(chain) + 1]].vtx[m]
    OBVIOUS
  <2> QED
    BY <1>1, <2>1, <2>2, ChainPlaces, Zenon
<1>3. ASSUME NEW t PROVE t \notin Earlier(1, 1)
  BY EarlierPlaces
<1> QED
  BY <1>2, <1>3, Zenon

(* What is earlier spends what is earlier. *)
LEMMA EarlierClosed ==
    ASSUME chain \in Seq(DOMAIN Block), ChainOrdered,
           NEW i \in 1..(Len(chain) + 1), NEW j \in Nat \ {0},
           i = Len(chain) + 1 => j = 1,
           i \in DOMAIN chain => j <= Len(Block[chain[i]].vtx) + 1,
           NEW t \in Earlier(i, j), NEW o \in vin[t]
    PROVE  t \in ChainTxs /\ o[1] \in Earlier(i, j)
<1>1. \/ \E k \in 1..(i - 1) : \E m \in DOMAIN Block[chain[k]].vtx : t = Block[chain[k]].vtx[m]
      \/ \E m \in 1..(j - 1) : t = Block[chain[i]].vtx[m]
  BY EarlierPlaces
<1>2. CASE \E k \in 1..(i - 1) : \E m \in DOMAIN Block[chain[k]].vtx : t = Block[chain[k]].vtx[m]
  <2>1. PICK k \in 1..(i - 1) : \E m \in DOMAIN Block[chain[k]].vtx : t = Block[chain[k]].vtx[m]
    BY <1>2
  <2>2. PICK m \in DOMAIN Block[chain[k]].vtx : t = Block[chain[k]].vtx[m]
    BY <2>1
  <2>3. k \in DOMAIN chain /\ k \in Nat /\ k < i /\ i \in Nat
    OBVIOUS
  <2>4. t \in ChainTxs
    BY <2>2, <2>3, ChainPlaces
  <2>5. o[1] \in Earlier(k, m)
    BY <2>2, <2>3 DEF ChainOrdered
  <2>6. \/ \E k2 \in 1..(k - 1) : \E m2 \in DOMAIN Block[chain[k2]].vtx : o[1] = Block[chain[k2]].vtx[m2]
        \/ \E m2 \in 1..(m - 1) : o[1] = Block[chain[k]].vtx[m2]
    <3> DEFINE p == o[1]
    <3>1. p \in Earlier(k, m)
      BY <2>5
    <3> HIDE DEF p
    <3>2. \/ \E k2 \in 1..(k - 1) : \E m2 \in DOMAIN Block[chain[k2]].vtx : p = Block[chain[k2]].vtx[m2]
          \/ \E m2 \in 1..(m - 1) : p = Block[chain[k]].vtx[m2]
      BY <3>1, EarlierPlaces
    <3> QED
      BY <3>2 DEF p
  <2>7. \E k2 \in 1..(i - 1) : \E m2 \in DOMAIN Block[chain[k2]].vtx : o[1] = Block[chain[k2]].vtx[m2]
    <3>1. 1..(k - 1) \subseteq 1..(i - 1) /\ k \in 1..(i - 1)
      BY <2>3
    <3> DEFINE s == Block[chain[k]].vtx
    <3>2. s \in Seq(Tx) /\ m \in DOMAIN s
      BY <2>3, ChainPlaces
    <3>3. 1..(m - 1) \subseteq DOMAIN s
      <4> HIDE DEF s
      <4> QED
        BY <3>2
    <3> QED
      BY <2>6, <3>1, <3>3, Zenon
  <2> QED
    BY <2>4, <2>7, EarlierPlaces
<1>3. CASE \E m \in 1..(j - 1) : t = Block[chain[i]].vtx[m]
  <2>1. PICK m \in 1..(j - 1) : t = Block[chain[i]].vtx[m]
    BY <1>3
  <2>2. i \in DOMAIN chain
    BY <2>1
  <2> DEFINE s == Block[chain[i]].vtx
  <2>3. s \in Seq(Tx) /\ j <= Len(s) + 1
    BY <2>2, ChainPlaces
  <2>4. m \in DOMAIN s /\ m \in Nat /\ m < j
    <3> HIDE DEF s
    <3> QED
      BY <2>1, <2>3
  <2>5. t \in ChainTxs
    BY <2>1, <2>2, <2>4, ChainPlaces
  <2>6. o[1] \in Earlier(i, m)
    BY <2>1, <2>2, <2>4 DEF ChainOrdered
  <2>7. \/ \E k2 \in 1..(i - 1) : \E m2 \in DOMAIN Block[chain[k2]].vtx : o[1] = Block[chain[k2]].vtx[m2]
        \/ \E m2 \in 1..(m - 1) : o[1] = Block[chain[i]].vtx[m2]
    <3> DEFINE p == o[1]
    <3>1. p \in Earlier(i, m)
      BY <2>6
    <3> HIDE DEF p
    <3>2. \/ \E k2 \in 1..(i - 1) : \E m2 \in DOMAIN Block[chain[k2]].vtx : p = Block[chain[k2]].vtx[m2]
          \/ \E m2 \in 1..(m - 1) : p = Block[chain[i]].vtx[m2]
      BY <3>1, EarlierPlaces
    <3> QED
      BY <3>2 DEF p
  <2>8. 1..(m - 1) \subseteq 1..(j - 1)
    BY <2>4
  <2> QED
    BY <2>5, <2>7, <2>8, EarlierPlaces
<1> QED
  BY <1>1, <1>2, <1>3

(* The chain spends only outputs of its own. *)
LEMMA ChainClosed ==
    ASSUME chain \in Seq(DOMAIN Block), ChainOrdered, NEW t \in ChainTxs, NEW o \in vin[t]
    PROVE  o[1] \in ChainTxs
<1> DEFINE n == Len(chain) + 1
<1>1. n \in 1..(Len(chain) + 1) /\ 1 \in Nat \ {0} /\ n \notin DOMAIN chain
  OBVIOUS
<1>2. t \in Earlier(n, 1)
  BY AllEarlier
<1>3. o[1] \in Earlier(n, 1)
  <2> HIDE DEF n
  <2> QED
    BY <1>1, <1>2, EarlierClosed DEF n
<1> QED
  BY <1>3, AllEarlier

(* A transaction of the chain is in one block of it. *)
LEMMA BlockOfChain ==
    ASSUME chain \in Seq(DOMAIN Block), ChainOrdered, NEW i \in DOMAIN chain,
           NEW j \in DOMAIN Block[chain[i]].vtx, NEW noted
    PROVE  BlockOf(Block[chain[i]].vtx[j], noted) = chain[i] /\ chain[i] # None
<1> DEFINE t == Block[chain[i]].vtx[j]
<1>1. InChain(t) /\ chain[i] \in Range(chain) /\ t \in Range(Block[chain[i]].vtx)
  BY ChainPlaces DEF Range
<1>2. ASSUME NEW b \in Range(chain), t \in Range(Block[b].vtx) PROVE b = chain[i]
  <2>1. PICK k \in DOMAIN chain : b = chain[k]
    BY DEF Range
  <2>2. PICK m \in DOMAIN Block[chain[k]].vtx : t = Block[chain[k]].vtx[m]
    BY <1>2, <2>1 DEF Range
  <2>3. k \in Nat /\ i \in Nat /\ k \in 1..Len(chain) /\ i \in 1..Len(chain)
    OBVIOUS
  <2>4. CASE k < i
    <3>1. k \in 1..(i - 1)
      BY <2>3, <2>4
    <3>2. t \in Earlier(i, j)
      BY <2>2, <3>1, EarlierPlaces
    <3> QED
      BY <3>2 DEF ChainOrdered
  <2>5. CASE i < k
    <3>1. i \in 1..(k - 1)
      BY <2>3, <2>5
    <3>2. t \in Earlier(k, m)
      BY <3>1, EarlierPlaces
    <3> QED
      BY <2>2, <3>2 DEF ChainOrdered
  <2> QED
    BY <2>1, <2>3, <2>4, <2>5
<1>3. BlockOf(t, noted) = CHOOSE b \in Range(chain) : t \in Range(Block[b].vtx)
  BY <1>1 DEF BlockOf
<1>4. chain[i] # None
  BY ChainPlaces, BlockAssumption
<1> HIDE DEF t
<1>5. BlockOf(t, noted) = chain[i]
  BY <1>1, <1>2, <1>3
<1> QED
  BY <1>4, <1>5 DEF t

-----------------------------------------------------------------------------
(* Scans of the chain *)

(* A transaction that comes to the wallet does not make it hear of older     *)
(* ones, which cannot spend its outputs.                                     *)
LEMMA KnownOther ==
    ASSUME NEW ts, NEW ks, NEW w, NEW v, NEW t, t \notin ts,
           \A u \in ts : \A o \in vin[u] : o[1] \in ts,
           DOMAIN w \subseteq DOMAIN v, DOMAIN v \subseteq DOMAIN w \cup {t},
           \A u \in DOMAIN w \ {t} : v[u].hashBlock = w[u].hashBlock
    PROVE  /\ \A u \in ts : Involves(v, ks, u) => Involves(w, ks, u)
           /\ Known(w, ks, ts) => Known(v, ks, ts)
<1>1. ASSUME NEW u \in ts, Involves(v, ks, u) PROVE Involves(w, ks, u)
  <2>1. CASE u \in DOMAIN v
    BY <2>1 DEF Involves
  <2>2. CASE \E o \in Outputs(u) : IsMine(ks, o)
    BY <2>2 DEF Involves
  <2>3. CASE IsFromMe(v, ks, u)
    <3>1. PICK o \in vin[u] : o[1] \in DOMAIN v /\ IsMine(ks, o)
      BY <2>3 DEF IsFromMe, GetDebit
    <3>2. o[1] \in DOMAIN w
      BY <3>1
    <3>3. o \in GetDebit(w, ks, u)
      BY <3>1, <3>2 DEF GetDebit
    <3> QED
      BY <3>3 DEF Involves, IsFromMe
  <2> QED
    BY <1>1, <2>1, <2>2, <2>3 DEF Involves
<1> QED
  BY <1>1 DEF Known

(* What a scan does to a wallet. *)
Grew(w, v) ==
    /\ IsWallet(v)
    /\ DOMAIN w \subseteq DOMAIN v
    /\ \A u \in DOMAIN w : w[u].spent \subseteq v[u].spent
    /\ Spender(w) => Spender(v)

(* A wallet grows in steps. *)
LEMMA GrewTransitive ==
    ASSUME NEW u, NEW v, NEW w, Grew(u, v), Grew(v, w)
    PROVE  Grew(u, w)
<1>1. \A t \in DOMAIN u : u[t].spent \subseteq w[t].spent
  BY DEF Grew
<1> QED
  BY <1>1 DEF Grew

(* A transaction is there with the flags of the coins it spends. *)
LEMMA SawGrew ==
    ASSUME NEW w, NEW v, NEW ks, NEW t, NEW b, NEW fUpdate, Saw(w, v, ks, t, b, fUpdate)
    PROVE  Grew(w, v)
<1>1. ASSUME Spender(w) PROVE Spender(v)
  <2> SUFFICES ASSUME NEW u \in DOMAIN v, NEW n \in v[u].spent
               PROVE  \E x \in DOMAIN v \cup ChainTxs : <<u, n>> \in vin[x]
    BY DEF Spender
  <2>1. (u \in DOMAIN w /\ n \in w[u].spent) \/ (<<u, n>> \in vin[t] /\ t \in DOMAIN v)
    BY DEF Saw
  <2>2. CASE u \in DOMAIN w /\ n \in w[u].spent
    <3>1. PICK x \in DOMAIN w \cup ChainTxs : <<u, n>> \in vin[x]
      BY <1>1, <2>2 DEF Spender
    <3>2. x \in DOMAIN v \cup ChainTxs
      BY DEF Saw
    <3> QED
      BY <3>1, <3>2
  <2>3. CASE <<u, n>> \in vin[t] /\ t \in DOMAIN v
    BY <2>3
  <2> QED
    BY <2>1, <2>2, <2>3
<1> QED
  BY <1>1 DEF Grew, Saw

(* The wallets that ScanBlock goes through. *)
IsScanBlock(seen, w, ks, b, fUpdate, n) ==
    seen = [i \in 0..n |-> IF i = 0 THEN w
                           ELSE AddToWalletIfInvolvingMe(seen[i - 1], ks, Block[b].vtx[i], b, fUpdate)]

(* They exist. *)
LEMMA ScanBlockSteps ==
    ASSUME NEW w, NEW ks, NEW b \in DOMAIN Block, NEW fUpdate
    PROVE  \E seen : /\ IsScanBlock(seen, w, ks, b, fUpdate, Len(Block[b].vtx))
                     /\ ScanBlock(w, ks, b, fUpdate) = seen[Len(Block[b].vtx)]
<1> DEFINE N == Len(Block[b].vtx)
           P(n, f) == IsScanBlock(f, w, ks, b, fUpdate, n)
           S == {n \in Nat : \E f : P(n, f)}
<1>0. N \in Nat
  BY BlockAssumption
<1>1. 0 \in S
  <2> DEFINE f == [i \in 0..0 |-> w]
  <2>1. P(0, f)
    BY DEF IsScanBlock
  <2> QED
    BY <2>1
<1>2. ASSUME NEW n \in Nat, n \in S PROVE n + 1 \in S
  <2>1. PICK f : P(n, f)
    BY <1>2
  <2> DEFINE next(x, i) == AddToWalletIfInvolvingMe(x, ks, Block[b].vtx[i], b, fUpdate)
             g == [i \in 0..(n + 1) |-> IF i = n + 1 THEN next(f[n], n + 1) ELSE f[i]]
  <2>2. f = [i \in 0..n |-> IF i = 0 THEN w ELSE next(f[i - 1], i)]
    BY <2>1 DEF IsScanBlock
  <2> HIDE DEF next
  <2>3. ASSUME NEW i \in 0..(n + 1) PROVE g[i] = IF i = 0 THEN w ELSE next(g[i - 1], i)
    <3>1. CASE i = n + 1
      <4>1. g[i] = next(f[n], i) /\ g[i - 1] = f[n] /\ i # 0
        BY <3>1
      <4> QED
        BY <4>1
    <3>2. CASE i # n + 1
      <4>1. i \in 0..n
        BY <3>2
      <4>2. g[i] = f[i] /\ f[i] = IF i = 0 THEN w ELSE next(f[i - 1], i)
        BY <2>2, <3>2, <4>1
      <4>3. i # 0 => g[i - 1] = f[i - 1]
        BY <3>2
      <4> QED
        BY <4>2, <4>3
    <3> QED
      BY <3>1, <3>2
  <2>4. g = [i \in 0..(n + 1) |-> IF i = 0 THEN w ELSE next(g[i - 1], i)]
    BY <2>3
  <2>5. P(n + 1, g)
    <3> HIDE DEF g
    <3> QED
      BY <2>4 DEF IsScanBlock, next
  <2>6. \E f1 : P(n + 1, f1)
    <3> HIDE DEF g, P
    <3> QED
      BY <2>5
  <2> HIDE DEF P
  <2> QED
    BY <2>6
<1> HIDE DEF S, P
<1>3. Nat \subseteq S
  BY <1>1, <1>2, SetInduction, Zenon
<1>4. \E f : P(N, f)
  BY <1>0, <1>3 DEF S
<1>5. P(N, CHOOSE f : P(N, f))
  BY <1>4, Zenon
<1>6. ScanBlock(w, ks, b, fUpdate) = (CHOOSE f : P(N, f))[N]
  BY DEF ScanBlock, P, IsScanBlock
<1> QED
  BY <1>5, <1>6, Zenon DEF P

(* The scan of a block. *)
LEMMA ScanBlockGrew ==
    ASSUME NEW w, IsWallet(w), NEW ks, NEW b \in DOMAIN Block, NEW fUpdate \in BOOLEAN
    PROVE  Grew(w, ScanBlock(w, ks, b, fUpdate))
<1> DEFINE N == Len(Block[b].vtx)
<1>1. PICK seen : /\ IsScanBlock(seen, w, ks, b, fUpdate, N)
                  /\ ScanBlock(w, ks, b, fUpdate) = seen[N]
  BY ScanBlockSteps
<1>2. N \in Nat /\ Block[b].vtx \in Seq(Tx)
  BY BlockAssumption
<1>3. \A i \in 1..N : Block[b].vtx[i] \in Tx
  BY <1>2
<1> HIDE DEF N
<1>4. /\ seen[0] = w
      /\ \A i \in 1..N : seen[i] = AddToWalletIfInvolvingMe(seen[i - 1], ks, Block[b].vtx[i], b, fUpdate)
  BY <1>1, <1>2 DEF IsScanBlock
<1> DEFINE S == {i \in Nat : i <= N => Grew(w, seen[i])}
<1>5. 0 \in S
  BY <1>4 DEF Grew
<1>6. ASSUME NEW i \in Nat, i \in S PROVE i + 1 \in S
  <2> SUFFICES ASSUME i + 1 <= N PROVE Grew(w, seen[i + 1])
    OBVIOUS
  <2>1. Grew(w, seen[i])
    BY <1>2, <1>6
  <2>2. i + 1 \in 1..N /\ (i + 1) - 1 = i
    BY <1>2
  <2>3. seen[i + 1] = AddToWalletIfInvolvingMe(seen[i], ks, Block[b].vtx[i + 1], b, fUpdate)
    BY <1>4, <2>2
  <2>4. IsWallet(seen[i]) /\ Block[b].vtx[i + 1] \in Tx
    BY <1>3, <2>1, <2>2 DEF Grew
  <2>5. Saw(seen[i], seen[i + 1], ks, Block[b].vtx[i + 1], b, fUpdate)
    BY <2>3, <2>4, AddedIfInvolved
  <2> QED
    BY <2>1, <2>5, SawGrew, GrewTransitive
<1> HIDE DEF S
<1>7. Nat \subseteq S
  BY <1>5, <1>6, SetInduction, Zenon
<1> QED
  BY <1>1, <1>2, <1>7 DEF S

(* After it, the wallet has what involves it up to the end of the block. *)
LEMMA ScanBlockKnown ==
    ASSUME chain \in Seq(DOMAIN Block), ChainOrdered, NEW h \in DOMAIN chain,
           NEW w, IsWallet(w), NEW ks, Known(w, ks, Earlier(h, 1)),
           NEW fUpdate \in BOOLEAN
    PROVE  fUpdate => Known(ScanBlock(w, ks, chain[h], fUpdate), ks, Earlier(h + 1, 1))
<1> DEFINE b == chain[h]
           N == Len(Block[b].vtx)
<1>1. b \in DOMAIN Block /\ Block[b].vtx \in Seq(Tx) /\ N \in Nat
  BY ChainPlaces
<1> HIDE DEF b
<1>2. PICK seen : /\ IsScanBlock(seen, w, ks, b, fUpdate, N)
                  /\ ScanBlock(w, ks, b, fUpdate) = seen[N]
  BY <1>1, ScanBlockSteps
<1>3. DOMAIN Block[b].vtx = 1..N /\ \A i \in 1..N : Block[b].vtx[i] \in Tx
  BY <1>1
<1>4. /\ \A j \in DOMAIN Block[b].vtx : Earlier(h, j + 1) = Earlier(h, j) \cup {Block[b].vtx[j]}
      /\ Earlier(h + 1, 1) = Earlier(h, N + 1)
  BY EarlierNext DEF b
<1>5. ASSUME NEW j \in 1..N
      PROVE  /\ BlockOf(Block[b].vtx[j], None) = b /\ b # None
             /\ Block[b].vtx[j] \notin Earlier(h, j)
             /\ \A u \in Earlier(h, j) : \A o \in vin[u] : o[1] \in Earlier(h, j)
  <2>1. j \in DOMAIN Block[b].vtx
    BY <1>3
  <2>2. h \in 1..(Len(chain) + 1) /\ h # Len(chain) + 1
    OBVIOUS
  <2>3. j \in Nat \ {0} /\ j <= N + 1
    BY <1>1
  <2>4. \A u \in Earlier(h, j) : \A o \in vin[u] : o[1] \in Earlier(h, j)
    BY <2>2, <2>3, EarlierClosed DEF b
  <2>5. BlockOf(Block[b].vtx[j], None) = b /\ b # None
    BY <2>1, BlockOfChain, Zenon DEF b
  <2>6. Block[b].vtx[j] \notin Earlier(h, j)
    BY <2>1 DEF ChainOrdered, b
  <2> QED
    BY <2>4, <2>5, <2>6
<1> HIDE DEF N
<1>6. /\ seen[0] = w
      /\ \A i \in 1..N : seen[i] = AddToWalletIfInvolvingMe(seen[i - 1], ks, Block[b].vtx[i], b, fUpdate)
  BY <1>1, <1>2 DEF IsScanBlock
<1> SUFFICES ASSUME fUpdate PROVE Known(ScanBlock(w, ks, b, fUpdate), ks, Earlier(h + 1, 1))
  BY Zenon DEF b
<1> DEFINE S == {i \in Nat : i <= N => IsWallet(seen[i]) /\ Known(seen[i], ks, Earlier(h, i + 1))}
<1>7. 0 \in S
  BY <1>6
<1>8. ASSUME NEW i \in Nat, i \in S PROVE i + 1 \in S
  <2> SUFFICES ASSUME i + 1 <= N
               PROVE  IsWallet(seen[i + 1]) /\ Known(seen[i + 1], ks, Earlier(h, (i + 1) + 1))
    OBVIOUS
  <2> DEFINE j == i + 1
             t == Block[b].vtx[j]
             v == seen[j]
             u == seen[i]
             E == Earlier(h, j)
  <2>1. j \in 1..N /\ j - 1 = i
    BY <1>1
  <2>2. IsWallet(u) /\ Known(u, ks, E)
    BY <1>1, <1>8
  <2>3. v = AddToWalletIfInvolvingMe(u, ks, t, b, fUpdate) /\ t \in Tx
    BY <1>3, <1>6, <2>1, Zenon
  <2>4. /\ BlockOf(t, None) = b /\ b # None /\ t \notin E
        /\ \A x \in E : \A o \in vin[x] : o[1] \in E
    BY <1>5, <2>1
  <2>5. Earlier(h, j + 1) = E \cup {t}
    BY <1>3, <1>4, <2>1
  <2> HIDE DEF j, t, v, u, E
  <2>6. Saw(u, v, ks, t, b, fUpdate)
    BY <2>2, <2>3, AddedIfInvolved, Zenon
  <2>7. Known(v, ks, E)
    BY <2>2, <2>4, <2>6, KnownOther DEF Saw
  <2>8. Involves(v, ks, t) => t \in DOMAIN v
    BY <2>6, Zenon DEF Saw
  <2>9. t \in DOMAIN v => v[t].hashBlock = BlockOf(t, None)
    BY <2>4, <2>6 DEF Saw
  <2>10. Known(v, ks, E \cup {t})
    BY <2>7, <2>8, <2>9 DEF Known
  <2>11. IsWallet(v) /\ Known(v, ks, Earlier(h, j + 1))
    BY <2>5, <2>6, <2>10, Zenon DEF Saw
  <2> QED
    BY <2>11 DEF v, j
<1> HIDE DEF S
<1>9. Nat \subseteq S
  BY <1>7, <1>8, SetInduction, Zenon
<1>10. Known(seen[N], ks, Earlier(h, N + 1))
  BY <1>1, <1>9 DEF S
<1> QED
  BY <1>2, <1>4, <1>10, Zenon

(* A scan finds nothing when the wallet knows the chain. *)
LEMMA ScanBlockSame ==
    ASSUME chain \in Seq(DOMAIN Block), NEW h \in DOMAIN chain,
           NEW w, IsWallet(w), NEW ks, Known(w, ks, ChainTxs), NEW fUpdate \in BOOLEAN, ~fUpdate
    PROVE  ScanBlock(w, ks, chain[h], fUpdate) = w
<1> DEFINE b == chain[h]
           N == Len(Block[b].vtx)
<1>1. b \in DOMAIN Block /\ Block[b].vtx \in Seq(Tx) /\ N \in Nat
  BY ChainPlaces
<1> HIDE DEF b
<1>2. PICK seen : /\ IsScanBlock(seen, w, ks, b, fUpdate, N)
                  /\ ScanBlock(w, ks, b, fUpdate) = seen[N]
  BY <1>1, ScanBlockSteps
<1>3. DOMAIN Block[b].vtx = 1..N /\ \A i \in 1..N : Block[b].vtx[i] \in Tx
  BY <1>1
<1>4. \A i \in 1..N : Block[b].vtx[i] \in ChainTxs
  BY <1>3, ChainPlaces DEF b
<1> HIDE DEF N
<1>5. /\ seen[0] = w
      /\ \A i \in 1..N : seen[i] = AddToWalletIfInvolvingMe(seen[i - 1], ks, Block[b].vtx[i], b, fUpdate)
  BY <1>1, <1>2 DEF IsScanBlock
<1> DEFINE S == {i \in Nat : i <= N => seen[i] = w}
<1>6. 0 \in S
  BY <1>5
<1>7. ASSUME NEW i \in Nat, i \in S PROVE i + 1 \in S
  <2> SUFFICES ASSUME i + 1 <= N PROVE seen[i + 1] = w
    OBVIOUS
  <2> DEFINE t == Block[b].vtx[i + 1]
             v == seen[i + 1]
  <2>1. i + 1 \in 1..N /\ (i + 1) - 1 = i /\ seen[i] = w
    BY <1>1, <1>7
  <2>2. v = AddToWalletIfInvolvingMe(w, ks, t, b, fUpdate) /\ t \in Tx /\ t \in ChainTxs
    BY <1>3, <1>4, <1>5, <2>1
  <2> HIDE DEF t, v
  <2>3. Saw(w, v, ks, t, b, fUpdate)
    BY <2>2, AddedIfInvolved
  <2>4. CASE t \in DOMAIN w
    BY <2>3, <2>4 DEF Saw, v
  <2>5. CASE t \notin DOMAIN w
    <3>1. ~Involves(w, ks, t)
      BY <2>2, <2>5 DEF Known
    <3>2. v = WalletUpdateSpent(w, ks, t) /\ ~IsFromMe(w, ks, t)
      BY <2>2, <2>5, <3>1 DEF AddToWalletIfInvolvingMe, Involves
    <3>3. v = w
      BY <2>2, <3>2, UpdateSpent
    <3> QED
      BY <3>3 DEF v
  <2> QED
    BY <2>4, <2>5
<1> HIDE DEF S
<1>8. Nat \subseteq S
  BY <1>6, <1>7, SetInduction, Zenon
<1>9. seen[N] = w
  BY <1>1, <1>8 DEF S
<1> QED
  BY <1>2, <1>9 DEF b

(* The wallets that Scan goes through, block by block. *)
IsScan(scanned, w, ks, fUpdate, n) ==
    scanned = [i \in 0..n |-> IF i = 0 THEN w ELSE ScanBlock(scanned[i - 1], ks, chain[i], fUpdate)]

(* They exist. *)
LEMMA ScanSteps ==
    ASSUME chain \in Seq(DOMAIN Block), NEW w, NEW ks, NEW fUpdate
    PROVE  \E scanned : /\ IsScan(scanned, w, ks, fUpdate, Len(chain))
                        /\ Scan(w, ks, fUpdate) = scanned[Len(chain)]
<1> DEFINE N == Len(chain)
           P(n, f) == IsScan(f, w, ks, fUpdate, n)
           S == {n \in Nat : \E f : P(n, f)}
<1>0. N \in Nat
  OBVIOUS
<1>1. 0 \in S
  <2> DEFINE f == [i \in 0..0 |-> w]
  <2>1. P(0, f)
    BY DEF IsScan
  <2> QED
    BY <2>1
<1>2. ASSUME NEW n \in Nat, n \in S PROVE n + 1 \in S
  <2>1. PICK f : P(n, f)
    BY <1>2
  <2> DEFINE next(x, i) == ScanBlock(x, ks, chain[i], fUpdate)
             g == [i \in 0..(n + 1) |-> IF i = n + 1 THEN next(f[n], n + 1) ELSE f[i]]
  <2>2. f = [i \in 0..n |-> IF i = 0 THEN w ELSE next(f[i - 1], i)]
    BY <2>1 DEF IsScan
  <2> HIDE DEF next
  <2>3. ASSUME NEW i \in 0..(n + 1) PROVE g[i] = IF i = 0 THEN w ELSE next(g[i - 1], i)
    <3>1. CASE i = n + 1
      <4>1. g[i] = next(f[n], i) /\ g[i - 1] = f[n] /\ i # 0
        BY <3>1
      <4> QED
        BY <4>1
    <3>2. CASE i # n + 1
      <4>1. i \in 0..n
        BY <3>2
      <4>2. g[i] = f[i] /\ f[i] = IF i = 0 THEN w ELSE next(f[i - 1], i)
        BY <2>2, <3>2, <4>1
      <4>3. i # 0 => g[i - 1] = f[i - 1]
        BY <3>2
      <4> QED
        BY <4>2, <4>3
    <3> QED
      BY <3>1, <3>2
  <2>4. g = [i \in 0..(n + 1) |-> IF i = 0 THEN w ELSE next(g[i - 1], i)]
    BY <2>3
  <2>5. P(n + 1, g)
    <3> HIDE DEF g
    <3> QED
      BY <2>4 DEF IsScan, next
  <2>6. \E f1 : P(n + 1, f1)
    <3> HIDE DEF g, P
    <3> QED
      BY <2>5
  <2> HIDE DEF P
  <2> QED
    BY <2>6
<1> HIDE DEF S, P
<1>3. Nat \subseteq S
  BY <1>1, <1>2, SetInduction, Zenon
<1>4. \E f : P(N, f)
  BY <1>0, <1>3 DEF S
<1>5. P(N, CHOOSE f : P(N, f))
  BY <1>4, Zenon
<1>6. Scan(w, ks, fUpdate) = (CHOOSE f : P(N, f))[N]
  BY DEF Scan, P, IsScan
<1> QED
  BY <1>5, <1>6, Zenon DEF P

(* ScanForWalletTransactions adds transactions and flags. *)
LEMMA ScanGrew ==
    ASSUME chain \in Seq(DOMAIN Block), NEW w, IsWallet(w), NEW ks, NEW fUpdate \in BOOLEAN
    PROVE  Grew(w, Scan(w, ks, fUpdate))
<1> DEFINE N == Len(chain)
<1>1. N \in Nat /\ \A i \in 1..N : chain[i] \in DOMAIN Block
  OBVIOUS
<1>2. PICK scanned : IsScan(scanned, w, ks, fUpdate, N) /\ Scan(w, ks, fUpdate) = scanned[N]
  BY ScanSteps
<1> HIDE DEF N
<1>3. /\ scanned[0] = w
      /\ \A i \in 1..N : scanned[i] = ScanBlock(scanned[i - 1], ks, chain[i], fUpdate)
  BY <1>1, <1>2 DEF IsScan
<1> DEFINE S == {i \in Nat : i <= N => Grew(w, scanned[i])}
<1>4. 0 \in S
  BY <1>3 DEF Grew
<1>5. ASSUME NEW i \in Nat, i \in S PROVE i + 1 \in S
  <2> SUFFICES ASSUME i + 1 <= N PROVE Grew(w, scanned[i + 1])
    OBVIOUS
  <2>1. Grew(w, scanned[i])
    BY <1>1, <1>5
  <2>2. i + 1 \in 1..N /\ (i + 1) - 1 = i
    BY <1>1
  <2>3. scanned[i + 1] = ScanBlock(scanned[i], ks, chain[i + 1], fUpdate)
    BY <1>3, <2>2
  <2>4. IsWallet(scanned[i]) /\ chain[i + 1] \in DOMAIN Block
    BY <1>1, <2>1, <2>2 DEF Grew
  <2>5. Grew(scanned[i], scanned[i + 1])
    BY <2>3, <2>4, ScanBlockGrew
  <2> QED
    BY <2>1, <2>5, GrewTransitive
<1> HIDE DEF S
<1>6. Nat \subseteq S
  BY <1>4, <1>5, SetInduction, Zenon
<1> QED
  BY <1>1, <1>2, <1>6 DEF S

(* With fUpdate, whatever the wallet was, it knows the chain afterwards;     *)
(* without, a wallet that knows it stays as it is.                           *)
LEMMA ScanKnown ==
    ASSUME chain \in Seq(DOMAIN Block), ChainOrdered, NEW w, IsWallet(w), NEW ks,
           NEW fUpdate \in BOOLEAN
    PROVE  /\ fUpdate => Known(Scan(w, ks, fUpdate), ks, ChainTxs)
           /\ ~fUpdate /\ Known(w, ks, ChainTxs) => Scan(w, ks, fUpdate) = w
<1> DEFINE N == Len(chain)
<1>1. N \in Nat /\ DOMAIN chain = 1..N /\ \A i \in 1..N : chain[i] \in DOMAIN Block
  OBVIOUS
<1>2. PICK scanned : IsScan(scanned, w, ks, fUpdate, N) /\ Scan(w, ks, fUpdate) = scanned[N]
  BY ScanSteps
<1>3. Earlier(N + 1, 1) = ChainTxs /\ Earlier(1, 1) = {}
  BY AllEarlier
<1> HIDE DEF N
<1>4. /\ scanned[0] = w
      /\ \A i \in 1..N : scanned[i] = ScanBlock(scanned[i - 1], ks, chain[i], fUpdate)
  BY <1>1, <1>2 DEF IsScan
<1> DEFINE S == {i \in Nat : i <= N => /\ IsWallet(scanned[i])
                                       /\ fUpdate => Known(scanned[i], ks, Earlier(i + 1, 1))
                                       /\ ~fUpdate /\ Known(w, ks, ChainTxs) => scanned[i] = w}
<1>5. 0 \in S
  <2>1. Known(w, ks, Earlier(0 + 1, 1))
    <3>1. 0 + 1 = 1
      OBVIOUS
    <3> QED
      BY <1>3, <3>1 DEF Known
  <2> QED
    BY <1>4, <2>1
<1>6. ASSUME NEW i \in Nat, i \in S PROVE i + 1 \in S
  <2> DEFINE j == i + 1
             u == scanned[i]
             v == scanned[j]
  <2> SUFFICES ASSUME j <= N
               PROVE  /\ IsWallet(v)
                      /\ fUpdate => Known(v, ks, Earlier(j + 1, 1))
                      /\ ~fUpdate /\ Known(w, ks, ChainTxs) => v = w
    OBVIOUS
  <2>1. j \in 1..N /\ j - 1 = i /\ i <= N
    BY <1>1
  <2>2. /\ IsWallet(u)
        /\ fUpdate => Known(u, ks, Earlier(j, 1))
        /\ ~fUpdate /\ Known(w, ks, ChainTxs) => u = w
    BY <1>6, <2>1
  <2>3. v = ScanBlock(u, ks, chain[j], fUpdate) /\ j \in DOMAIN chain /\ chain[j] \in DOMAIN Block
    BY <1>1, <1>4, <2>1
  <2> HIDE DEF j, u, v
  <2>4. IsWallet(v)
    BY <2>2, <2>3, ScanBlockGrew, Zenon DEF Grew
  <2>5. fUpdate => Known(v, ks, Earlier(j + 1, 1))
    BY <2>2, <2>3, ScanBlockKnown, Zenon
  <2>6. ~fUpdate /\ Known(w, ks, ChainTxs) => v = w
    BY <2>2, <2>3, ScanBlockSame
  <2> QED
    BY <2>4, <2>5, <2>6
<1> HIDE DEF S
<1>7. Nat \subseteq S
  BY <1>5, <1>6, SetInduction, Zenon
<1>8. /\ fUpdate => Known(scanned[N], ks, Earlier(N + 1, 1))
      /\ ~fUpdate /\ Known(w, ks, ChainTxs) => scanned[N] = w
  BY <1>1, <1>7 DEF S
<1> QED
  BY <1>2, <1>3, <1>8

-----------------------------------------------------------------------------
(* ReacceptWalletTransactions *)

(* The coins of a transaction that the chain has spent. *)
Gone(ks, t) == {n \in DOMAIN vout[t] : SpentInChain(<<t, n>>) /\ IsMine(ks, <<t, n>>)}

(* A pass flags them. *)
LEMMA SpentByIndexMarks ==
    ASSUME chain \in Seq(DOMAIN Block), ChainOrdered, NEW w, IsWallet(w), NEW ks,
           NEW v, v = SpentByIndex(w, ks)
    PROVE  /\ Grew(w, v) /\ DOMAIN v = DOMAIN w /\ Marked(v, ks)
           /\ Known(w, ks, ChainTxs) => Known(v, ks, ChainTxs)
           /\ Marked(w, ks) => v = w
<1> DEFINE skip(t) == ~InChain(t) \/ (t \in CoinBases /\ 1 \in w[t].spent)
<1>1. v = [t \in DOMAIN w |-> IF skip(t) THEN w[t] ELSE [w[t] EXCEPT !.spent = @ \cup Gone(ks, t)]]
  BY DEF SpentByIndex, Gone
<1> HIDE DEF skip
<1>2. DOMAIN v = DOMAIN w /\ v = [t \in DOMAIN v |-> v[t]]
  BY <1>1
<1>3. \A t \in DOMAIN w : skip(t) => v[t] = w[t]
  BY <1>1
<1>4. ASSUME NEW t \in DOMAIN w, ~skip(t)
      PROVE  /\ IsWtx(v[t]) /\ v[t].spent = w[t].spent \cup Gone(ks, t) /\ v[t].hashBlock = w[t].hashBlock
             /\ Gone(ks, t) \subseteq w[t].spent => v[t] = w[t]
  <2>1. v[t] = [w[t] EXCEPT !.spent = @ \cup Gone(ks, t)]
    BY <1>1, <1>4
  <2>2. w[t] = [hashBlock |-> w[t].hashBlock, spent |-> w[t].spent, vtxPrev |-> w[t].vtxPrev]
    BY DEF IsWallet, IsWtx
  <2>3. v[t] = [hashBlock |-> w[t].hashBlock, spent |-> w[t].spent \cup Gone(ks, t), vtxPrev |-> w[t].vtxPrev]
    BY <2>1, <2>2, Zenon
  <2>4. IsWtx(v[t]) /\ v[t].spent = w[t].spent \cup Gone(ks, t) /\ v[t].hashBlock = w[t].hashBlock
    BY <2>3 DEF IsWtx
  <2>5. ASSUME Gone(ks, t) \subseteq w[t].spent PROVE v[t] = w[t]
    <3>1. w[t].spent \cup Gone(ks, t) = w[t].spent
      BY <2>5
    <3> QED
      BY <2>2, <2>3, <3>1
  <2> QED
    BY <2>4, <2>5
<1>5. IsWallet(v)
  BY <1>2, <1>3, <1>4 DEF IsWallet
<1>6. \A t \in DOMAIN w : w[t].spent \subseteq v[t].spent /\ v[t].hashBlock = w[t].hashBlock
  BY <1>3, <1>4
<1>7. ASSUME Spender(w) PROVE Spender(v)
  <2> SUFFICES ASSUME NEW t \in DOMAIN v, NEW n \in v[t].spent
               PROVE  \E x \in DOMAIN v \cup ChainTxs : <<t, n>> \in vin[x]
    BY DEF Spender
  <2>1. n \in w[t].spent \/ n \in Gone(ks, t)
    BY <1>2, <1>3, <1>4
  <2>2. CASE n \in w[t].spent
    BY <1>2, <1>7, <2>2 DEF Spender
  <2>3. CASE n \in Gone(ks, t)
    BY <2>3 DEF Gone, SpentInChain
  <2> QED
    BY <2>1, <2>2, <2>3
<1>8. Grew(w, v)
  BY <1>2, <1>5, <1>6, <1>7 DEF Grew
<1>9. Marked(v, ks)
  <2> SUFFICES ASSUME NEW t \in DOMAIN v, NEW n \in DOMAIN vout[t],
                      SpentInChain(<<t, n>>), IsMine(ks, <<t, n>>)
               PROVE  n \in v[t].spent \/ (t \in CoinBases /\ 1 \in v[t].spent)
    BY DEF Marked
  <2>1. PICK x \in ChainTxs : <<t, n>> \in vin[x]
    BY DEF SpentInChain
  <2>2. <<t, n>>[1] = t
    OBVIOUS
  <2>3. InChain(t)
    BY <2>1, <2>2, ChainClosed, ChainPlaces
  <2>4. CASE skip(t)
    BY <1>2, <1>3, <2>3, <2>4 DEF skip
  <2>5. CASE ~skip(t)
    BY <1>2, <1>4, <2>5 DEF Gone
  <2> QED
    BY <2>4, <2>5
<1>10. ASSUME Known(w, ks, ChainTxs) PROVE Known(v, ks, ChainTxs)
  <2>1. \A t : Involves(v, ks, t) <=> Involves(w, ks, t)
    BY <1>2 DEF Involves, IsFromMe, GetDebit
  <2> QED
    BY <1>2, <1>6, <1>10, <2>1 DEF Known
<1>11. ASSUME Marked(w, ks) PROVE v = w
  <2>1. ASSUME NEW t \in DOMAIN w PROVE v[t] = w[t]
    <3>1. CASE skip(t)
      BY <1>3, <3>1
    <3>2. CASE ~skip(t)
      <4>1. Gone(ks, t) \subseteq w[t].spent
        <5> SUFFICES ASSUME NEW n \in Gone(ks, t) PROVE n \in w[t].spent
          OBVIOUS
        <5>1. n \in DOMAIN vout[t] /\ SpentInChain(<<t, n>>) /\ IsMine(ks, <<t, n>>)
          BY DEF Gone
        <5>2. n \in w[t].spent \/ (t \in CoinBases /\ 1 \in w[t].spent)
          BY <1>11, <5>1 DEF Marked
        <5> QED
          BY <3>2, <5>2 DEF skip
      <4> QED
        BY <1>4, <3>2, <4>1
    <3> QED
      BY <3>1, <3>2
  <2>2. w = [t \in DOMAIN w |-> w[t]]
    BY DEF IsWallet
  <2> QED
    BY <1>2, <2>1, <2>2
<1> QED
  BY <1>2, <1>8, <1>9, <1>10, <1>11

(* The scan that follows a pass. *)
LEMMA ScanAgain ==
    ASSUME chain \in Seq(DOMAIN Block), ChainOrdered, NEW w, IsWallet(w), NEW ks
    PROVE  /\ Grew(w, Scan(w, ks, FALSE))
           /\ Known(w, ks, ChainTxs) => Scan(w, ks, FALSE) = w
<1> DEFINE f == FALSE
<1>1. f \in BOOLEAN /\ ~f
  OBVIOUS
<1> HIDE DEF f
<1>2. /\ Grew(w, Scan(w, ks, f))
      /\ Known(w, ks, ChainTxs) => Scan(w, ks, f) = w
  BY <1>1, ScanGrew, ScanKnown
<1> QED
  BY <1>2, Zenon DEF f

(* The scan of -rescan and importprivkey. *)
LEMMA Rescan ==
    ASSUME chain \in Seq(DOMAIN Block), ChainOrdered, NEW w, IsWallet(w), NEW ks
    PROVE  Grew(w, Scan(w, ks, TRUE)) /\ Known(Scan(w, ks, TRUE), ks, ChainTxs)
<1> DEFINE f == TRUE
<1>1. f \in BOOLEAN /\ f
  OBVIOUS
<1> HIDE DEF f
<1>2. Grew(w, Scan(w, ks, f)) /\ Known(Scan(w, ks, f), ks, ChainTxs)
  BY <1>1, ScanGrew, ScanKnown, Zenon
<1> QED
  BY <1>2, Zenon DEF f

(* A pass with the scan that follows it. *)
Again(x, ks) == IF SpentByIndex(x, ks) = x THEN x ELSE Scan(SpentByIndex(x, ks), ks, FALSE)

(* After it all coins that were spent elsewhere are flagged, or there are    *)
(* new transactions.                                                         *)
LEMMA AgainFinds ==
    ASSUME chain \in Seq(DOMAIN Block), ChainOrdered, NEW x, IsWallet(x), NEW ks,
           NEW y, y = Again(x, ks)
    PROVE  /\ Grew(x, y)
           /\ Known(x, ks, ChainTxs) => Known(y, ks, ChainTxs)
           /\ Marked(x, ks) => y = x
           /\ Marked(y, ks) \/ DOMAIN y # DOMAIN x
<1> DEFINE m == SpentByIndex(x, ks)
<1>1. m = SpentByIndex(x, ks)
  OBVIOUS
<1> HIDE DEF m
<1>2. /\ Grew(x, m) /\ DOMAIN m = DOMAIN x /\ Marked(m, ks)
      /\ Known(x, ks, ChainTxs) => Known(m, ks, ChainTxs)
      /\ Marked(x, ks) => m = x
  BY <1>1, SpentByIndexMarks
<1>3. CASE m = x
  <2>1. y = x
    BY <1>1, <1>3 DEF Again
  <2> QED
    BY <1>2, <1>3, <2>1
<1>4. CASE m # x
  <2>1. y = Scan(m, ks, FALSE)
    BY <1>1, <1>4 DEF Again
  <2>2. IsWallet(m)
    BY <1>2 DEF Grew
  <2>3. Grew(m, y) /\ (Known(m, ks, ChainTxs) => y = m)
    BY <2>1, <2>2, ScanAgain, Zenon
  <2>4. Grew(x, y)
    BY <1>2, <2>3, GrewTransitive
  <2>5. ASSUME DOMAIN y = DOMAIN x PROVE Marked(y, ks)
    <3>1. \A t \in DOMAIN y : m[t].spent \subseteq y[t].spent
      BY <1>2, <2>3, <2>5 DEF Grew
    <3> QED
      BY <1>2, <2>5, <3>1 DEF Marked
  <2> QED
    BY <1>2, <1>4, <2>3, <2>4, <2>5
<1> QED
  BY <1>3, <1>4

(* The wallets that Reaccept goes through. *)
IsReaccept(pass, w, ks, n) ==
    pass = [k \in 0..n |-> Again(IF k = 0 THEN w ELSE pass[k - 1], ks)]

(* They exist. *)
LEMMA ReacceptSteps ==
    ASSUME NEW w, NEW ks, Cardinality(Tx) \in Nat
    PROVE  \E pass : /\ IsReaccept(pass, w, ks, Cardinality(Tx))
                     /\ Reaccept(w, ks) = pass[Cardinality(Tx)]
<1> DEFINE N == Cardinality(Tx)
           P(n, f) == IsReaccept(f, w, ks, n)
           S == {n \in Nat : \E f : P(n, f)}
<1>1. 0 \in S
  <2> DEFINE f == [i \in 0..0 |-> Again(w, ks)]
  <2>1. P(0, f)
    BY DEF IsReaccept
  <2> QED
    BY <2>1
<1>2. ASSUME NEW n \in Nat, n \in S PROVE n + 1 \in S
  <2>1. PICK f : P(n, f)
    BY <1>2
  <2> DEFINE next(x) == Again(x, ks)
             g == [i \in 0..(n + 1) |-> IF i = n + 1 THEN next(f[n]) ELSE f[i]]
  <2>2. f = [i \in 0..n |-> next(IF i = 0 THEN w ELSE f[i - 1])]
    BY <2>1 DEF IsReaccept
  <2> HIDE DEF next
  <2>3. ASSUME NEW i \in 0..(n + 1) PROVE g[i] = next(IF i = 0 THEN w ELSE g[i - 1])
    <3>1. CASE i = n + 1
      <4>1. g[i] = next(f[n]) /\ g[i - 1] = f[n] /\ i # 0
        BY <3>1
      <4> QED
        BY <4>1
    <3>2. CASE i # n + 1
      <4>1. i \in 0..n
        BY <3>2
      <4>2. g[i] = f[i] /\ f[i] = next(IF i = 0 THEN w ELSE f[i - 1])
        BY <2>2, <3>2, <4>1
      <4>3. i # 0 => g[i - 1] = f[i - 1]
        BY <3>2
      <4> QED
        BY <4>2, <4>3
    <3> QED
      BY <3>1, <3>2
  <2>4. g = [i \in 0..(n + 1) |-> next(IF i = 0 THEN w ELSE g[i - 1])]
    BY <2>3
  <2>5. P(n + 1, g)
    <3> HIDE DEF g
    <3> QED
      BY <2>4 DEF IsReaccept, next
  <2>6. \E f1 : P(n + 1, f1)
    <3> HIDE DEF g, P
    <3> QED
      BY <2>5
  <2> HIDE DEF P
  <2> QED
    BY <2>6
<1> HIDE DEF S, P
<1>3. Nat \subseteq S
  BY <1>1, <1>2, SetInduction, Zenon
<1>4. \E f : P(N, f)
  BY <1>3 DEF S
<1>5. P(N, CHOOSE f : P(N, f))
  BY <1>4, Zenon
<1>6. Reaccept(w, ks) = (CHOOSE f : P(N, f))[N]
  BY DEF Reaccept, P, IsReaccept, Again
<1> QED
  BY <1>5, <1>6, Zenon DEF P

(* ReacceptWalletTransactions ends with all coins that were spent elsewhere  *)
(* flagged, because each pass that does not end it has found a transaction.  *)
LEMMA ReacceptMarks ==
    ASSUME chain \in Seq(DOMAIN Block), ChainOrdered, NEW w, IsWallet(w), NEW ks,
           NEW r, r = Reaccept(w, ks)
    PROVE  /\ Grew(w, r)
           /\ Known(w, ks, ChainTxs) => Known(r, ks, ChainTxs)
           /\ Marked(r, ks)
<1> DEFINE N == Cardinality(Tx)
<1>1. IsFiniteSet(Tx) /\ N \in Nat
  BY TxAssumption, FS_CardinalityType
<1>2. PICK pass : IsReaccept(pass, w, ks, N) /\ Reaccept(w, ks) = pass[N]
  BY <1>1, ReacceptSteps
<1> HIDE DEF N
<1>3. /\ pass[0] = Again(w, ks)
      /\ \A k \in 1..N : pass[k] = Again(pass[k - 1], ks)
  BY <1>1, <1>2 DEF IsReaccept
<1>4. ASSUME NEW v, IsWallet(v)
      PROVE  IsFiniteSet(DOMAIN v) /\ Cardinality(DOMAIN v) \in Nat /\ Cardinality(DOMAIN v) <= N
  BY <1>1, <1>4, FS_Subset, FS_CardinalityType DEF IsWallet, N
<1>5. ASSUME NEW x, IsWallet(x), NEW y, Grew(x, y), DOMAIN y # DOMAIN x
      PROVE  Cardinality(DOMAIN x) < Cardinality(DOMAIN y)
  <2>1. IsFiniteSet(DOMAIN y) /\ DOMAIN x \subseteq DOMAIN y /\ Cardinality(DOMAIN y) \in Nat
    BY <1>4, <1>5 DEF Grew
  <2>2. Cardinality(DOMAIN x) \in Nat
    BY <1>4, <1>5
  <2> QED
    BY <1>5, <2>1, <2>2, FS_Subset
<1> DEFINE Good(k) == /\ Grew(w, pass[k])
                      /\ Known(w, ks, ChainTxs) => Known(pass[k], ks, ChainTxs)
                      /\ Marked(pass[k], ks) \/ Cardinality(DOMAIN pass[k]) >= k + 1
           S == {k \in Nat : k <= N => Good(k)}
<1>6. 0 \in S
  <2>1. /\ Grew(w, pass[0])
        /\ Known(w, ks, ChainTxs) => Known(pass[0], ks, ChainTxs)
        /\ Marked(pass[0], ks) \/ DOMAIN pass[0] # DOMAIN w
    BY <1>3, AgainFinds
  <2>2. IsWallet(pass[0])
    BY <2>1 DEF Grew
  <2>3. Cardinality(DOMAIN pass[0]) \in Nat /\ Cardinality(DOMAIN w) \in Nat
    BY <1>4, <2>2
  <2>4. DOMAIN pass[0] # DOMAIN w => Cardinality(DOMAIN pass[0]) >= 0 + 1
    BY <1>5, <2>1, <2>3
  <2> QED
    BY <2>1, <2>4
<1>7. ASSUME NEW k \in Nat, k \in S PROVE k + 1 \in S
  <2> DEFINE j == k + 1
             x == pass[k]
             y == pass[j]
             cx == Cardinality(DOMAIN x)
             cy == Cardinality(DOMAIN y)
  <2> SUFFICES ASSUME j <= N PROVE Good(j)
    OBVIOUS
  <2>1. j \in 1..N /\ j - 1 = k /\ k <= N
    BY <1>1
  <2>2. Good(k)
    BY <1>7, <2>1
  <2>3. /\ Grew(w, x)
        /\ Known(w, ks, ChainTxs) => Known(x, ks, ChainTxs)
        /\ Marked(x, ks) \/ cx >= k + 1
    BY <2>2
  <2>4. y = Again(x, ks)
    BY <1>3, <2>1
  <2>5. IsWallet(x)
    BY <2>3 DEF Grew
  <2> HIDE DEF x, y
  <2>6. /\ Grew(x, y)
        /\ Known(x, ks, ChainTxs) => Known(y, ks, ChainTxs)
        /\ Marked(x, ks) => y = x
        /\ Marked(y, ks) \/ DOMAIN y # DOMAIN x
    BY <2>4, <2>5, AgainFinds
  <2>7. Grew(w, y) /\ IsWallet(y)
    BY <2>3, <2>6, GrewTransitive, Zenon DEF Grew
  <2>8. cx \in Nat /\ cy \in Nat /\ (DOMAIN y # DOMAIN x => cx < cy)
    BY <1>4, <1>5, <2>5, <2>6, <2>7
  <2> HIDE DEF cx, cy
  <2>9. Marked(y, ks) \/ cy >= j + 1
    <3>1. CASE Marked(x, ks)
      BY <2>6, <3>1
    <3>2. CASE ~Marked(x, ks) /\ DOMAIN y # DOMAIN x
      <4>1. cx >= k + 1 /\ cx < cy
        BY <2>3, <2>8, <3>2
      <4> QED
        BY <2>8, <4>1
    <3>3. CASE DOMAIN y = DOMAIN x
      BY <2>6, <3>3
    <3> QED
      BY <3>1, <3>2, <3>3
  <2> QED
    BY <2>3, <2>6, <2>7, <2>9 DEF y, cy
<1> HIDE DEF S, Good
<1>8. Nat \subseteq S
  BY <1>6, <1>7, SetInduction, Zenon
<1>9. Good(N)
  BY <1>1, <1>8 DEF S
<1>10. Grew(w, r) /\ (Known(w, ks, ChainTxs) => Known(r, ks, ChainTxs))
  BY <1>2, <1>9 DEF Good
<1>11. Marked(r, ks) \/ Cardinality(DOMAIN r) >= N + 1
  BY <1>2, <1>9 DEF Good
<1>12. ~(Cardinality(DOMAIN r) >= N + 1)
  <2>1. Cardinality(DOMAIN r) \in Nat /\ Cardinality(DOMAIN r) <= N
    BY <1>4, <1>10 DEF Grew
  <2> QED
    BY <1>1, <2>1
<1> QED
  BY <1>10, <1>11, <1>12

(* A wallet to which t was added, or in which coins were flagged. *)
Extended(w, v, t) ==
    /\ IsWallet(v)
    /\ DOMAIN w \subseteq DOMAIN v /\ DOMAIN v \subseteq DOMAIN w \cup {t}
    /\ \A u \in DOMAIN w : w[u].spent \subseteq v[u].spent
    /\ \A u \in DOMAIN w \ {t} : v[u].hashBlock = w[u].hashBlock
    /\ Spender(w) => Spender(v)

(* AddToWallet leaves such a wallet. *)
LEMMA SawExtended ==
    ASSUME NEW w, NEW v, NEW ks, NEW t, NEW b, NEW fUpdate, Saw(w, v, ks, t, b, fUpdate)
    PROVE  Extended(w, v, t)
<1>1. Grew(w, v)
  BY SawGrew
<1> QED
  BY <1>1, Zenon DEF Saw, Grew, Extended

(* So does what it writes first, when the process ends before the rest. *)
LEMMA HasExtended ==
    ASSUME NEW w, NEW v, NEW t, NEW b, Has(w, v, t, b)
    PROVE  Extended(w, v, t)
<1>1. Spender(w) => Spender(v)
  <2> SUFFICES ASSUME Spender(w), NEW u \in DOMAIN v, NEW n \in v[u].spent
               PROVE  \E x \in DOMAIN v \cup ChainTxs : <<u, n>> \in vin[x]
    BY DEF Spender
  <2>1. u \in DOMAIN w /\ n \in w[u].spent
    BY DEF Has
  <2>2. PICK x \in DOMAIN w \cup ChainTxs : <<u, n>> \in vin[x]
    BY <2>1 DEF Spender
  <2> QED
    BY <2>2 DEF Has
<1> QED
  BY <1>1 DEF Has, Extended

(* A transaction that is not in the chain does not change what the wallet    *)
(* knows of the chain.                                                       *)
LEMMA ExtendedKeeps ==
    ASSUME chain \in Seq(DOMAIN Block), ChainOrdered, NEW w, NEW v, NEW ks,
           NEW t, t \notin ChainTxs, Extended(w, v, t)
    PROVE  /\ Known(w, ks, ChainTxs) => Known(v, ks, ChainTxs)
           /\ Marked(w, ks) => Marked(v, ks)
<1>1. Known(w, ks, ChainTxs) => Known(v, ks, ChainTxs)
  <2>1. \A u \in ChainTxs : \A o \in vin[u] : o[1] \in ChainTxs
    BY ChainClosed
  <2>2. /\ DOMAIN w \subseteq DOMAIN v /\ DOMAIN v \subseteq DOMAIN w \cup {t}
        /\ \A u \in DOMAIN w \ {t} : v[u].hashBlock = w[u].hashBlock
    BY DEF Extended
  <2> QED
    BY <2>1, <2>2, KnownOther
<1>2. ASSUME Marked(w, ks) PROVE Marked(v, ks)
  <2> SUFFICES ASSUME NEW u \in DOMAIN v, NEW n \in DOMAIN vout[u],
                      SpentInChain(<<u, n>>), IsMine(ks, <<u, n>>)
               PROVE  n \in v[u].spent \/ (u \in CoinBases /\ 1 \in v[u].spent)
    BY DEF Marked
  <2>1. PICK x \in ChainTxs : <<u, n>> \in vin[x]
    BY DEF SpentInChain
  <2>2. <<u, n>>[1] \in ChainTxs
    BY <2>1, ChainClosed
  <2>3. u \in DOMAIN w /\ w[u].spent \subseteq v[u].spent
    BY <2>2 DEF Extended
  <2> QED
    BY <1>2, <2>3 DEF Marked
<1> QED
  BY <1>1, <1>2

(* What is still cached is right, whatever was flagged. *)
LEMMA StillCoherent ==
    ASSUME CreditCacheCoherent, NEW v, DOMAIN mapWallet \subseteq DOMAIN v, NEW bound
    PROVE  \A t \in DOMAIN StillCached(v, bound) :
             t \in DOMAIN v /\ StillCached(v, bound)[t] = GetAvailableCredit(v, keys, t)
<1> SUFFICES ASSUME NEW t \in DOMAIN StillCached(v, bound)
             PROVE  t \in DOMAIN v /\ StillCached(v, bound)[t] = GetAvailableCredit(v, keys, t)
  OBVIOUS
<1>1. t \in DOMAIN cached /\ v[t].spent = mapWallet[t].spent /\ StillCached(v, bound)[t] = cached[t]
  BY DEF StillCached
<1>2. t \in DOMAIN mapWallet /\ cached[t] = GetAvailableCredit(mapWallet, keys, t)
  BY <1>1 DEF CreditCacheCoherent
<1>3. GetAvailableCredit(mapWallet, keys, t) = GetAvailableCredit(v, keys, t)
  BY <1>1 DEF GetAvailableCredit
<1> QED
  BY <1>1, <1>2, <1>3

(* A step that leaves the chain alone keeps the invariant if it keeps these. *)
LEMMA SameChain ==
    ASSUME CInv, chain' = chain,
           alive' \in BOOLEAN, restored' \in BOOLEAN,
           made \subseteq made',
           ~alive' => DOMAIN cached' = {} /\ connecting' = NotConnecting,
           IsWallet(mapWallet'), Spender(mapWallet'),
           IsWallet(backup'.mapWallet), Spender(backup'.mapWallet),
           CreditCacheCoherent',
           restored' \/ Known(mapWallet', keys', ChainTxs),
           alive' => Marked(mapWallet', keys'),
           connecting' # NotConnecting => Heard'
    PROVE  CInv'
<1>1. ChainTxs' = ChainTxs
  BY DEF ChainTxs
<1>2. ChainOrdered'
  <2>1. \A i, j : Earlier(i, j)' = Earlier(i, j)
    BY Zenon DEF Earlier
  <2> QED
    BY <2>1, Zenon DEF ChainOrdered, CInv
<1>3. Spender(mapWallet)' /\ Spender(backup.mapWallet)'
  BY <1>1 DEF Spender
<1>4. \A t : BlockOf(t, None)' = BlockOf(t, None)
  BY DEF BlockOf, InChain
<1>5. restored' \/ Known(mapWallet, keys, ChainTxs)'
  BY <1>1, <1>4, Zenon DEF Known, Involves, IsFromMe, GetDebit
<1>6. alive' => Marked(mapWallet, keys)'
  BY <1>1, Zenon DEF Marked, SpentInChain
<1>7. IsWallet(mapWallet)' /\ IsWallet(backup.mapWallet)'
  BY DEF IsWallet
<1>8. (chain \in Seq(DOMAIN Block))' /\ (ChainTxs \cap Payments \subseteq made)'
  BY <1>1 DEF CInv
<1>9. (connecting # NotConnecting => Heard)' /\ (~alive => DOMAIN cached = {} /\ connecting = NotConnecting)'
  BY DEF NotConnecting
<1> QED
  BY <1>2, <1>3, <1>5, <1>6, <1>7, <1>8, <1>9, Zenon DEF CInv

-----------------------------------------------------------------------------
(* The actions *)

(* A transaction from outside the chain is added to the wallet, with its     *)
(* coins flagged or, when the process ends, without.                         *)
LEMMA Extends ==
    ASSUME CInv, NEW t, t \notin ChainTxs, Extended(mapWallet, mapWallet', t),
           UNCHANGED <<chain, keys, backup, restored>>,
           made \subseteq made',
           \/ /\ UNCHANGED alive
              /\ alive
              /\ \E bound : cached' = StillCached(mapWallet', bound)
              /\ connecting' # NotConnecting => Heard'
           \/ Dead
    PROVE  CInv'
<1>1. IsWallet(mapWallet') /\ Spender(mapWallet') /\ DOMAIN mapWallet \subseteq DOMAIN mapWallet'
  BY DEF CInv, Extended
<1>2. restored' \/ Known(mapWallet', keys', ChainTxs)
  BY ExtendedKeeps DEF CInv
<1>3. IsWallet(backup'.mapWallet) /\ Spender(backup'.mapWallet)
  BY DEF CInv
<1>4. CASE Dead
  <2>1. CreditCacheCoherent'
    BY <1>4 DEF Dead, CreditCacheCoherent
  <2>2. ~alive' /\ alive' \in BOOLEAN /\ restored' \in BOOLEAN /\ DOMAIN cached' = {} /\ connecting' = NotConnecting
    <3>1. ~alive' /\ DOMAIN cached' = {} /\ connecting' = NotConnecting
      BY <1>4 DEF Dead
    <3>2. alive' \in BOOLEAN /\ restored' \in BOOLEAN
      BY <1>4, Zenon DEF Dead, CInv
    <3> QED
      BY <3>1, <3>2
  <2> QED
    BY <1>1, <1>2, <1>3, <2>1, <2>2, SameChain, Zenon
<1>5. CASE /\ UNCHANGED alive
           /\ alive
           /\ \E bound : cached' = StillCached(mapWallet', bound)
           /\ connecting' # NotConnecting => Heard'
  <2>1. PICK bound : cached' = StillCached(mapWallet', bound)
    BY <1>5
  <2>2. CreditCacheCoherent'
    <3>1. \A u \in DOMAIN cached' : u \in DOMAIN mapWallet' /\ cached'[u] = GetAvailableCredit(mapWallet', keys, u)
      BY <1>1, <2>1, StillCoherent, Zenon DEF CInv
    <3> QED
      BY <3>1, Zenon DEF CreditCacheCoherent, GetAvailableCredit
  <2>3. alive' /\ alive' \in BOOLEAN /\ restored' \in BOOLEAN
    BY <1>5 DEF CInv
  <2>4. Marked(mapWallet', keys')
    BY <1>5, ExtendedKeeps DEF CInv
  <2> QED
    BY <1>1, <1>2, <1>3, <1>5, <2>2, <2>3, <2>4, SameChain, Zenon
<1> QED
  BY <1>4, <1>5

(* A block that is connected is not the mark for none. *)
LEMMA Connecting ==
    ASSUME NEW b \in DOMAIN Block, NEW n
    PROVE  [block |-> b, done |-> n] # NotConnecting /\ b # None
BY BlockAssumption DEF NotConnecting

(* ConnectBlock begins. *)
LEMMA ConnectBeginKeeps ==
    ASSUME CInv, NEW b \in DOMAIN Block, ConnectBegin(b)
    PROVE  CInv'
<1> DEFINE vtx == Block[b].vtx
<1>1. vtx \in Seq(Tx)
  BY BlockAssumption
<1>2. /\ UNCHANGED <<alive, chain, mapWallet, keys, cached, backup, restored, made>>
      /\ alive
      /\ connecting' \in {[block |-> b, done |-> 0], NotConnecting}
  BY DEF ConnectBegin, Free, history
<1>3. ASSUME connecting' # NotConnecting PROVE Heard'
  <2>1. connecting' = [block |-> b, done |-> 0] /\ ConnectsAll(vtx)
    BY <1>3 DEF ConnectBegin
  <2>2. connecting'.block = b /\ connecting'.done = 0
    BY <2>1
  <2>3. InOrder(vtx, ChainTxs)'
    <3>1. ChainTxs' = ChainTxs
      BY <1>2 DEF ChainTxs
    <3>2. InOrder(vtx, ChainTxs)
      <4> SUFFICES ASSUME NEW i \in DOMAIN vtx
                   PROVE  /\ vtx[i] \notin ChainTxs /\ \A j \in 1..(i - 1) : vtx[i] # vtx[j]
                          /\ \A o \in vin[vtx[i]] : o[1] \in ChainTxs \/ \E j \in 1..(i - 1) : o[1] = vtx[j]
        BY DEF InOrder
      <4> DEFINE known == ChainTxs \cup {vtx[j] : j \in 1..(i - 1)}
      <4>1. vtx[i] \notin known /\ \A o \in vin[vtx[i]] : o[1] \in known
        BY <2>1, Zenon DEF ConnectsAll, Connects
      <4> QED
        BY <4>1
    <3> QED
      BY <3>1, <3>2 DEF InOrder
  <2>4. Range(vtx) \cap Payments \subseteq made'
    BY <1>2 DEF ConnectBegin, Exists
  <2>5. 0 \in 0..Len(vtx) /\ 1..0 = {}
    BY <1>1
  <2> HIDE DEF vtx
  <2> QED
    BY <2>1, <2>2, <2>3, <2>4, <2>5, Zenon DEF Heard, vtx
<1>4. CreditCacheCoherent'
  BY <1>2, Zenon DEF CInv, CreditCacheCoherent, GetAvailableCredit
<1>5. /\ IsWallet(mapWallet') /\ Spender(mapWallet')
      /\ IsWallet(backup'.mapWallet) /\ Spender(backup'.mapWallet)
      /\ restored' \/ Known(mapWallet', keys', ChainTxs)
      /\ alive' => Marked(mapWallet', keys')
      /\ alive' \in BOOLEAN /\ restored' \in BOOLEAN
  BY <1>2 DEF CInv
<1> QED
  BY <1>2, <1>3, <1>4, <1>5, SameChain

(* The wallet hears of the next transaction of the block. *)
LEMMA SyncWithWalletsKeeps ==
    ASSUME CInv, SyncWithWallets
    PROVE  CInv'
<1> DEFINE b == connecting.block
           n == connecting.done
           vtx == Block[b].vtx
           t == vtx[n + 1]
<1>1. /\ connecting = [block |-> b, done |-> n] /\ b \in DOMAIN Block /\ n \in 0..Len(vtx)
      /\ InOrder(vtx, ChainTxs) /\ Range(vtx) \cap Payments \subseteq made
      /\ \A i \in 1..n :
           /\ Involves(mapWallet, keys, vtx[i]) => vtx[i] \in DOMAIN mapWallet /\ mapWallet[vtx[i]].hashBlock = b
           /\ \A o \in vin[vtx[i]] : o[1] \in DOMAIN mapWallet /\ IsMine(keys, o) => o[2] \in mapWallet[o[1]].spent
  BY DEF SyncWithWallets, CInv, Heard
<1>2. /\ n < Len(vtx)
      /\ \/ /\ mapWallet' = AddToWalletIfInvolvingMe(mapWallet, keys, t, b, TRUE)
            /\ cached' = StillCached(mapWallet', {t})
            /\ connecting' = [connecting EXCEPT !.done = @ + 1]
            /\ UNCHANGED <<alive, pool>>
         \/ /\ mapWallet' = Recorded(mapWallet, keys, t, NewTx(b))
            /\ Dead
      /\ UNCHANGED <<chain, keys, backup, restored, made>>
  BY Zenon DEF SyncWithWallets, history
<1>3. vtx \in Seq(Tx) /\ b # None /\ n + 1 \in 1..Len(vtx) /\ t \in Tx /\ n \in Nat
  BY <1>1, <1>2, BlockAssumption
<1>4. chain \in Seq(DOMAIN Block) /\ ChainOrdered /\ IsWallet(mapWallet) /\ made \subseteq made'
  BY <1>2 DEF CInv
<1>5. connecting # NotConnecting /\ alive
  BY DEF SyncWithWallets, CInv
<1> HIDE DEF b, n, vtx
<1>6. t \notin ChainTxs
  <2>1. n + 1 \in DOMAIN vtx
    BY <1>3
  <2> QED
    BY <1>1, <2>1 DEF InOrder
<1> HIDE DEF t
<1>7. CASE /\ mapWallet' = AddToWalletIfInvolvingMe(mapWallet, keys, t, b, TRUE)
           /\ cached' = StillCached(mapWallet', {t})
           /\ connecting' = [connecting EXCEPT !.done = @ + 1]
           /\ UNCHANGED <<alive, pool>>
  <2> DEFINE f == TRUE
             v == mapWallet'
  <2>1. f \in BOOLEAN /\ (f = TRUE) /\ mapWallet' = AddToWalletIfInvolvingMe(mapWallet, keys, t, b, f)
    BY <1>7
  <2> HIDE DEF f, v
  <2>2. Saw(mapWallet, mapWallet', keys, t, b, f)
    BY <1>3, <1>4, <2>1, AddedIfInvolved, Zenon
  <2>3. Extended(mapWallet, mapWallet', t)
    BY <2>2, SawExtended
  <2>4. /\ DOMAIN mapWallet \subseteq DOMAIN v /\ DOMAIN v \subseteq DOMAIN mapWallet \cup {t}
        /\ \A u \in DOMAIN mapWallet : mapWallet[u].spent \subseteq v[u].spent
        /\ \A u \in DOMAIN mapWallet \ {t} : v[u].hashBlock = mapWallet[u].hashBlock
        /\ Involves(mapWallet, keys, t) => t \in DOMAIN v
        /\ t \notin DOMAIN v => v = mapWallet
        /\ t \in DOMAIN v => v[t].hashBlock = b
        /\ \A o \in vin[t] : o[1] \in DOMAIN v /\ IsMine(keys, o) => o[2] \in v[o[1]].spent
    BY <1>3, <2>1, <2>2, Zenon DEF Saw, v
  <2> DEFINE past == ChainTxs \cup {vtx[i] : i \in 1..n}
  <2>5. t \notin past /\ \A i \in 1..n : vtx[i] \in past
    <3>1. n + 1 \in DOMAIN vtx /\ (n + 1) - 1 = n
      BY <1>3
    <3>2. \A j \in 1..n : vtx[n + 1] # vtx[j]
      BY <1>1, <3>1, Zenon DEF InOrder
    <3> QED
      BY <1>6, <3>2 DEF t
  <2>6. \A u \in past : \A o \in vin[u] : o[1] \in past
    <3> SUFFICES ASSUME NEW u \in past, NEW o \in vin[u] PROVE o[1] \in past
      OBVIOUS
    <3>1. CASE u \in ChainTxs
      BY <1>4, <3>1, ChainClosed
    <3>2. CASE u \notin ChainTxs
      <4>1. PICK i \in 1..n : u = vtx[i]
        BY <3>2
      <4>2. i \in DOMAIN vtx /\ 1..(i - 1) \subseteq 1..n
        BY <1>3, <4>1
      <4>3. o[1] \in ChainTxs \/ \E j \in 1..(i - 1) : o[1] = vtx[j]
        BY <1>1, <4>1, <4>2, Zenon DEF InOrder
      <4> QED
        BY <4>2, <4>3
    <3> QED
      BY <3>1, <3>2
  <2> HIDE DEF past
  <2>7. \A u \in past : Involves(v, keys, u) => Involves(mapWallet, keys, u)
    BY <2>4, <2>5, <2>6, KnownOther, Zenon
  <2>8. ASSUME NEW i \in 1..(n + 1)
        PROVE  /\ Involves(v, keys, vtx[i]) => vtx[i] \in DOMAIN v /\ v[vtx[i]].hashBlock = b
               /\ \A o \in vin[vtx[i]] : o[1] \in DOMAIN v /\ IsMine(keys, o) => o[2] \in v[o[1]].spent
    <3>1. CASE i = n + 1
      <4>1. vtx[i] = t
        BY <3>1 DEF t
      <4>2. Involves(v, keys, t) => t \in DOMAIN v
        BY <2>4, Zenon
      <4> QED
        BY <2>4, <4>1, <4>2
    <3>2. CASE i # n + 1
      <4>1. i \in 1..n
        BY <1>3, <3>2
      <4>2. vtx[i] \in past /\ vtx[i] # t
        BY <2>5, <4>1
      <4>3. Involves(v, keys, vtx[i]) => vtx[i] \in DOMAIN v /\ v[vtx[i]].hashBlock = b
        BY <1>1, <2>4, <2>7, <4>1, <4>2, Zenon
      <4>4. ASSUME NEW o \in vin[vtx[i]], o[1] \in DOMAIN v, IsMine(keys, o) PROVE o[2] \in v[o[1]].spent
        <5>1. o[1] \in past /\ o[1] # t
          BY <2>5, <2>6, <4>2
        <5>2. o[1] \in DOMAIN mapWallet
          BY <2>4, <4>4, <5>1
        <5>3. o[2] \in mapWallet[o[1]].spent
          BY <1>1, <4>1, <4>4, <5>2, Zenon
        <5> QED
          BY <2>4, <5>2, <5>3, Zenon
      <4> QED
        BY <4>3, <4>4
    <3> QED
      BY <3>1, <3>2, Zenon
  <2>9. Heard'
    <3>1. connecting' = [block |-> b, done |-> n + 1]
      BY <1>1, <1>7
    <3>2. connecting'.block = b /\ connecting'.done = n + 1
      BY <3>1
    <3>3. ChainTxs' = ChainTxs
      BY <1>2 DEF ChainTxs
    <3>4. Block[connecting'.block].vtx = vtx
      BY <3>2 DEF vtx
    <3>5. InOrder(Block[connecting.block].vtx, ChainTxs)'
      BY <1>1, <3>3, <3>4
    <3>6. keys' = keys /\ made' = made /\ n + 1 \in 0..Len(vtx)
      BY <1>2, <1>3
    <3>7. \A i \in 1..(connecting'.done) :
            /\ Involves(mapWallet, keys, Block[connecting.block].vtx[i])' =>
                 vtx[i] \in DOMAIN mapWallet' /\ mapWallet'[vtx[i]].hashBlock = b
            /\ \A o \in vin[vtx[i]] : o[1] \in DOMAIN mapWallet' /\ IsMine(keys, o)' => o[2] \in mapWallet'[o[1]].spent
      BY <2>8, <3>2, <3>4, <3>6 DEF v, Involves, IsFromMe, GetDebit, IsMine
    <3> QED
      BY <1>1, <3>1, <3>2, <3>4, <3>5, <3>6, <3>7, Zenon DEF Heard
  <2> QED
    BY <1>2, <1>4, <1>5, <1>6, <1>7, <2>3, <2>9, Extends, Zenon
<1>8. CASE mapWallet' = Recorded(mapWallet, keys, t, NewTx(b)) /\ Dead
  <2> DEFINE r == NewTx(b)
  <2>1. IsWtx(r) /\ r.spent = {}
    BY NewTxIsWtx, Zenon
  <2>2. mapWallet' = Merge(mapWallet, t, r)
    BY <1>8 DEF Recorded
  <2> HIDE DEF r
  <2>3. Has(mapWallet, mapWallet', t, r.hashBlock)
    BY <1>3, <1>4, <2>1, <2>2, Merged, Zenon
  <2>4. Extended(mapWallet, mapWallet', t)
    BY <2>3, HasExtended
  <2> QED
    BY <1>2, <1>4, <1>6, <1>8, <2>4, Extends
<1> QED
  BY <1>2, <1>7, <1>8, Zenon

(* The block is in the chain: what the wallet has heard of it is now what it *)
(* knows of the chain.                                                       *)
LEMMA ConnectCommitsKeeps ==
    ASSUME CInv, ConnectCommits
    PROVE  CInv'
<1> DEFINE b == connecting.block
           vtx == Block[b].vtx
           N == Len(chain)
<1>1. /\ b \in DOMAIN Block
      /\ InOrder(vtx, ChainTxs) /\ Range(vtx) \cap Payments \subseteq made
      /\ \A i \in 1..connecting.done :
           /\ Involves(mapWallet, keys, vtx[i]) => vtx[i] \in DOMAIN mapWallet /\ mapWallet[vtx[i]].hashBlock = b
           /\ \A o \in vin[vtx[i]] : o[1] \in DOMAIN mapWallet /\ IsMine(keys, o) => o[2] \in mapWallet[o[1]].spent
  BY Zenon DEF ConnectCommits, CInv, Heard
<1>2. /\ connecting.done = Len(vtx)
      /\ chain' = Append(chain, b)
      /\ connecting' = NotConnecting
      /\ UNCHANGED <<alive, mapWallet, keys, cached, backup, restored, made>>
  BY DEF ConnectCommits, history
<1>3. vtx \in Seq(Tx) /\ chain \in Seq(DOMAIN Block) /\ N \in Nat /\ DOMAIN vtx = 1..Len(vtx)
  <2>1. chain \in Seq(DOMAIN Block)
    BY DEF CInv
  <2>2. vtx \in Seq(Tx)
    BY <1>1, BlockAssumption, Zenon
  <2> HIDE DEF vtx
  <2> QED
    BY <2>1, <2>2
<1>4. alive /\ ChainOrdered /\ Marked(mapWallet, keys)
  BY Zenon DEF ConnectCommits, CInv
<1> HIDE DEF b, vtx, N
<1>5. /\ chain' \in Seq(DOMAIN Block) /\ Len(chain') = N + 1
      /\ \A i \in 1..N : chain'[i] = chain[i] /\ chain[i] \in DOMAIN Block
      /\ chain'[N + 1] = b
      /\ DOMAIN chain' = 1..(N + 1) /\ DOMAIN chain = 1..N
  <2> DEFINE c == chain'
  <2>1. c = Append(chain, b) /\ N = Len(chain)
    BY <1>2 DEF N
  <2> HIDE DEF c
  <2>2. c \in Seq(DOMAIN Block) /\ Len(c) = N + 1 /\ c[N + 1] = b
    BY <1>1, <1>3, <2>1
  <2>3. ASSUME NEW i \in 1..N PROVE c[i] = chain[i] /\ chain[i] \in DOMAIN Block
    <3>1. i \in 1..Len(chain) /\ chain[i] \in DOMAIN Block
      BY <1>3, <2>1
    <3> QED
      BY <2>1, <3>1
  <2>4. DOMAIN c = 1..(N + 1) /\ DOMAIN chain = 1..N
    BY <1>3, <2>1, <2>2
  <2> QED
    BY <2>2, <2>3, <2>4 DEF c
<1>6. Range(chain') = Range(chain) \cup {b}
  <2>1. \A x : x \in Range(chain') <=> \E i \in 1..(N + 1) : chain'[i] = x
    BY <1>5 DEF Range
  <2>2. \A x : x \in Range(chain) <=> \E i \in 1..N : chain[i] = x
    BY <1>5 DEF Range
  <2>3. ASSUME NEW x PROVE x \in Range(chain') <=> x \in Range(chain) \cup {b}
    <3>1. ASSUME x \in Range(chain') PROVE x \in Range(chain) \cup {b}
      <4>1. PICK i \in 1..(N + 1) : chain'[i] = x
        BY <2>1, <3>1
      <4>2. CASE i = N + 1
        BY <1>5, <4>1, <4>2
      <4>3. CASE i # N + 1
        BY <1>3, <1>5, <2>2, <4>1, <4>3
      <4> QED
        BY <4>2, <4>3
    <3>2. ASSUME x \in Range(chain) PROVE x \in Range(chain')
      <4>1. PICK i \in 1..N : chain[i] = x
        BY <2>2, <3>2
      <4>2. i \in 1..(N + 1) /\ chain'[i] = x
        BY <1>3, <1>5, <4>1
      <4> QED
        BY <2>1, <4>2
    <3>3. b \in Range(chain')
      <4>1. N + 1 \in 1..(N + 1)
        BY <1>3
      <4> QED
        BY <1>5, <2>1, <4>1
    <3> QED
      BY <3>1, <3>2, <3>3
  <2> QED
    BY <2>3
<1>7. ChainTxs' = ChainTxs \cup Range(vtx)
  BY <1>6, Zenon DEF ChainTxs, vtx
<1>8. /\ \A t : t \in Range(vtx) <=> \E i \in 1..Len(vtx) : t = vtx[i]
      /\ \A t \in Range(vtx) : t \notin ChainTxs
  <2>1. \A t : t \in Range(vtx) <=> \E i \in 1..Len(vtx) : t = vtx[i]
    BY <1>3 DEF Range
  <2>2. \A i \in 1..Len(vtx) : vtx[i] \notin ChainTxs
    BY <1>1, <1>3, Zenon DEF InOrder
  <2> QED
    BY <2>1, <2>2
<1>9. ChainOrdered'
  <2> DEFINE E(i, j) == {Block[chain'[i]].vtx[m] : m \in 1..(j - 1)} \cup UNION {Range(Block[chain'[k]].vtx) : k \in 1..(i - 1)}
  <2>1. \A i \in 1..N : \A j : E(i, j) = Earlier(i, j)
    <3> SUFFICES ASSUME NEW i \in 1..N, NEW j PROVE E(i, j) = Earlier(i, j)
      OBVIOUS
    <3>1. chain'[i] = chain[i] /\ \A k \in 1..(i - 1) : chain'[k] = chain[k]
      BY <1>3, <1>5
    <3> QED
      BY <3>1 DEF Earlier
  <2>2. \A j : E(N + 1, j) = ChainTxs \cup {vtx[m] : m \in 1..(j - 1)}
    <3> SUFFICES ASSUME NEW j PROVE E(N + 1, j) = ChainTxs \cup {vtx[m] : m \in 1..(j - 1)}
      OBVIOUS
    <3>1. (N + 1) - 1 = N
      BY <1>3
    <3>2. UNION {Range(Block[chain'[k]].vtx) : k \in 1..N} = ChainTxs
      <4>1. Range(chain) = {chain[k] : k \in 1..N}
        BY <1>5 DEF Range
      <4>2. \A k \in 1..N : chain'[k] = chain[k]
        BY <1>5
      <4> HIDE DEF E
      <4> QED
        BY <4>1, <4>2 DEF ChainTxs
    <3>3. Block[chain'[N + 1]].vtx = vtx
      BY <1>5 DEF vtx
    <3> QED
      BY <3>1, <3>2, <3>3
  <2> HIDE DEF E
  <2>3. ASSUME NEW i \in 1..(N + 1), NEW j \in DOMAIN Block[chain'[i]].vtx
        PROVE  /\ Block[chain'[i]].vtx[j] \notin E(i, j)
               /\ \A o \in vin[Block[chain'[i]].vtx[j]] : o[1] \in E(i, j)
    <3>1. CASE i = N + 1
      <4>1. Block[chain'[i]].vtx = vtx
        BY <1>5, <3>1 DEF vtx
      <4> QED
        <5>1. j \in DOMAIN vtx /\ E(i, j) = ChainTxs \cup {vtx[m] : m \in 1..(j - 1)}
          BY <2>2, <2>3, <3>1, <4>1
        <5>2. /\ vtx[j] \notin ChainTxs /\ \A m \in 1..(j - 1) : vtx[j] # vtx[m]
              /\ \A o \in vin[vtx[j]] : o[1] \in ChainTxs \/ \E m \in 1..(j - 1) : o[1] = vtx[m]
          BY <1>1, <5>1, Zenon DEF InOrder
        <5> QED
          BY <4>1, <5>1, <5>2
    <3>2. CASE i # N + 1
      <4>1. i \in 1..N /\ chain'[i] = chain[i]
        BY <1>3, <1>5, <3>2
      <4> QED
        BY <1>4, <1>5, <2>1, <2>3, <4>1 DEF ChainOrdered
    <3> QED
      BY <3>1, <3>2
  <2>4. \A i, j : Earlier(i, j)' = E(i, j)
    BY DEF Earlier, E
  <2> QED
    BY <1>5, <2>3, <2>4 DEF ChainOrdered
<1>10. \A t : InChain(t)' <=> t \in ChainTxs \cup Range(vtx)
  <2>1. \A t : InChain(t)' <=> t \in ChainTxs'
    BY Zenon DEF InChain, ChainTxs
  <2> QED
    BY <1>7, <2>1
<1>11. ASSUME NEW t \in ChainTxs PROVE BlockOf(t, None)' = BlockOf(t, None)
  <2>1. PICK i \in DOMAIN chain : \E j \in DOMAIN Block[chain[i]].vtx : t = Block[chain[i]].vtx[j]
    BY <1>3, ChainPlaces
  <2>2. PICK j \in DOMAIN Block[chain[i]].vtx : t = Block[chain[i]].vtx[j]
    BY <2>1
  <2>3. BlockOf(t, None) = chain[i]
    BY <1>3, <1>4, <2>2, BlockOfChain, Zenon
  <2>4. chain[i] \in Range(chain) /\ t \in Range(Block[chain[i]].vtx)
    BY <1>3, <2>2, ChainPlaces DEF Range
  <2>5. ASSUME NEW x \in Range(chain'), t \in Range(Block[x].vtx) PROVE x = chain[i]
    <3>1. x # b
      BY <1>8, <2>5 DEF vtx
    <3>2. x \in Range(chain)
      BY <1>6, <2>5, <3>1
    <3>3. PICK k \in DOMAIN chain : x = chain[k]
      BY <3>2 DEF Range
    <3>4. PICK m \in DOMAIN Block[chain[k]].vtx : t = Block[chain[k]].vtx[m]
      BY <2>5, <3>3 DEF Range
    <3>5. BlockOf(t, None) = chain[k]
      BY <1>3, <1>4, <3>4, BlockOfChain, Zenon
    <3> QED
      BY <2>3, <3>3, <3>5
  <2>6. (CHOOSE x \in Range(chain') : t \in Range(Block[x].vtx)) = chain[i]
    BY <1>6, <2>4, <2>5
  <2>7. InChain(t)'
    BY <1>10
  <2> QED
    BY <2>3, <2>6, <2>7, Zenon DEF BlockOf
<1>12. ASSUME NEW t \in Range(vtx) PROVE BlockOf(t, None)' = b
  <2>1. ASSUME NEW x \in Range(chain'), t \in Range(Block[x].vtx) PROVE x = b
    <3>1. x \notin Range(chain)
      BY <1>8, <2>1, Zenon DEF ChainTxs
    <3> QED
      BY <1>6, <3>1
  <2>2. b \in Range(chain') /\ t \in Range(Block[b].vtx)
    BY <1>6 DEF vtx
  <2>3. (CHOOSE x \in Range(chain') : t \in Range(Block[x].vtx)) = b
    BY <2>1, <2>2
  <2>4. InChain(t)'
    BY <1>10
  <2> QED
    BY <2>3, <2>4 DEF BlockOf
<1>13. restored' \/ Known(mapWallet, keys, ChainTxs)'
  <2> SUFFICES ASSUME ~restored, NEW t \in ChainTxs \cup Range(vtx), Involves(mapWallet, keys, t)
               PROVE  t \in DOMAIN mapWallet /\ mapWallet[t].hashBlock = BlockOf(t, None)'
    BY <1>2, <1>7, Zenon DEF Known, Involves, IsFromMe, GetDebit
  <2>1. CASE t \in ChainTxs
    BY <1>11, <2>1 DEF CInv, Known
  <2>2. CASE t \in Range(vtx)
    <3>1. PICK i \in 1..connecting.done : t = vtx[i]
      BY <1>2, <1>8, <2>2
    <3> QED
      BY <1>1, <1>12, <2>2, <3>1, Zenon
  <2> QED
    BY <2>1, <2>2
<1>14. Marked(mapWallet, keys)'
  <2> SUFFICES ASSUME NEW t \in DOMAIN mapWallet, NEW n \in DOMAIN vout[t],
                      NEW x \in ChainTxs \cup Range(vtx), <<t, n>> \in vin[x], IsMine(keys, <<t, n>>)
               PROVE  n \in mapWallet[t].spent \/ (t \in CoinBases /\ 1 \in mapWallet[t].spent)
    BY <1>2, <1>7 DEF Marked, SpentInChain
  <2>1. CASE x \in ChainTxs
    BY <1>4, <2>1 DEF Marked, SpentInChain
  <2>2. CASE x \in Range(vtx)
    <3>1. PICK i \in 1..connecting.done : x = vtx[i]
      BY <1>2, <1>8, <2>2, Zenon
    <3>2. <<t, n>>[1] = t /\ <<t, n>>[2] = n
      OBVIOUS
    <3> QED
      BY <1>1, <3>1, <3>2, Zenon
  <2> QED
    BY <2>1, <2>2
<1>15. Spender(mapWallet)' /\ Spender(backup.mapWallet)'
  BY <1>2, <1>7, Zenon DEF CInv, Spender
<1>16. IsWallet(mapWallet)' /\ IsWallet(backup.mapWallet)' /\ CreditCacheCoherent'
  BY <1>2 DEF CInv, IsWallet, CreditCacheCoherent, GetAvailableCredit
<1>17. (ChainTxs \cap Payments \subseteq made)'
  BY <1>1, <1>2, <1>7, Zenon DEF CInv
<1>18. alive' /\ alive' \in BOOLEAN /\ restored' \in BOOLEAN
  BY <1>2, <1>4 DEF CInv
<1> QED
  BY <1>2, <1>5, <1>9, <1>13, <1>14, <1>15, <1>16, <1>17, <1>18, Zenon DEF CInv, NotConnecting

(* A peer sends a transaction. *)
LEMMA ReceiveTxKeeps ==
    ASSUME CInv, NEW t \in Tx, ReceiveTx(t)
    PROVE  CInv'
<1>1. /\ chain \in Seq(DOMAIN Block) /\ ChainOrdered /\ IsWallet(mapWallet)
      /\ alive /\ connecting = NotConnecting
      /\ UNCHANGED <<chain, keys, backup, restored, made>> /\ made \subseteq made'
  BY DEF CInv, ReceiveTx, Free, history
<1>2. t \notin ChainTxs
  <2>1. ~InChain(t)
    BY DEF ReceiveTx, Acceptable
  <2> QED
    BY <1>1, <2>1, ChainPlaces, Zenon
<1>3. CASE /\ mapWallet' = AddToWalletIfInvolvingMe(mapWallet, keys, t, None, TRUE)
           /\ cached' = StillCached(mapWallet', {t})
           /\ UNCHANGED <<alive, connecting>>
  <2> DEFINE f == TRUE
  <2>1. f \in BOOLEAN /\ mapWallet' = AddToWalletIfInvolvingMe(mapWallet, keys, t, None, f)
    BY <1>3
  <2> HIDE DEF f
  <2>2. Saw(mapWallet, mapWallet', keys, t, None, f)
    BY <1>1, <2>1, AddedIfInvolved
  <2>3. Extended(mapWallet, mapWallet', t)
    BY <2>2, SawExtended
  <2>4. connecting' = NotConnecting
    BY <1>1, <1>3
  <2> QED
    BY <1>1, <1>2, <1>3, <2>3, <2>4, Extends, Zenon
<1>4. CASE mapWallet' = Recorded(mapWallet, keys, t, NewTx(None)) /\ Dead
  <2> DEFINE r == NewTx(None)
  <2>1. IsWtx(r) /\ r.spent = {}
    BY NewTxIsWtx, Zenon
  <2>2. mapWallet' = Merge(mapWallet, t, r)
    BY <1>4 DEF Recorded
  <2> HIDE DEF r
  <2>3. Has(mapWallet, mapWallet', t, r.hashBlock)
    BY <1>1, <2>1, <2>2, Merged, Zenon
  <2>4. Extended(mapWallet, mapWallet', t)
    BY <2>3, HasExtended
  <2> QED
    BY <1>1, <1>2, <1>4, <2>4, Extends
<1> QED
  BY <1>3, <1>4, Zenon DEF ReceiveTx

(* The wallet makes a payment. *)
LEMMA SendMoneyKeeps ==
    ASSUME CInv, NEW t \in Tx, SendMoney(t)
    PROVE  CInv'
<1> DEFINE r == [NewTx(None) EXCEPT !.vtxPrev = Supporting(mapWallet, t)]
<1>1. /\ chain \in Seq(DOMAIN Block) /\ ChainOrdered /\ IsWallet(mapWallet)
      /\ alive /\ connecting = NotConnecting
      /\ UNCHANGED <<chain, keys, backup, restored>> /\ made \subseteq made'
  BY DEF CInv, SendMoney, Free
<1>2. t \notin ChainTxs
  BY DEF CInv, SendMoney
<1>3. IsWtx(r) /\ r.spent = {}
  BY NewTxIsWtx
<1>4. \/ /\ mapWallet' = AddToWallet(mapWallet, keys, t, r)
         /\ cached' = StillCached(mapWallet', {t} \cup Parents({t}))
         /\ UNCHANGED <<alive, connecting>>
      \/ mapWallet' = Recorded(mapWallet, keys, t, r) /\ Dead
  BY DEF SendMoney
<1> HIDE DEF r
<1>5. CASE /\ mapWallet' = AddToWallet(mapWallet, keys, t, r)
           /\ cached' = StillCached(mapWallet', {t} \cup Parents({t}))
           /\ UNCHANGED <<alive, connecting>>
  <2> DEFINE f == TRUE
  <2>1. t \notin DOMAIN mapWallet \/ f
    OBVIOUS
  <2> HIDE DEF f
  <2>2. Saw(mapWallet, mapWallet', keys, t, r.hashBlock, f)
    BY <1>1, <1>3, <1>5, <2>1, Added, Zenon
  <2>3. Extended(mapWallet, mapWallet', t)
    BY <2>2, SawExtended
  <2>4. connecting' = NotConnecting
    BY <1>1, <1>5
  <2> QED
    BY <1>1, <1>2, <1>5, <2>3, <2>4, Extends
<1>6. CASE mapWallet' = Recorded(mapWallet, keys, t, r) /\ Dead
  <2>1. mapWallet' = Merge(mapWallet, t, r)
    BY <1>6 DEF Recorded
  <2>2. Has(mapWallet, mapWallet', t, r.hashBlock)
    BY <1>1, <1>3, <2>1, Merged, Zenon
  <2>3. Extended(mapWallet, mapWallet', t)
    BY <2>2, HasExtended
  <2> QED
    BY <1>1, <1>2, <1>6, <2>3, Extends
<1> QED
  BY <1>4, <1>5, <1>6

(* ReacceptWalletTransactions ends an import and a start, with the chain     *)
(* scanned before it or not.                                                 *)
LEMMA ReacceptKeeps ==
    ASSUME CInv, NEW w, w = mapWallet \/ w = Scan(mapWallet, keys', TRUE),
           mapWallet' = Reaccept(w, keys'),
           UNCHANGED <<chain, backup, made>>, alive', connecting' = NotConnecting, DOMAIN cached' = {},
           alive' \in BOOLEAN, restored' \in BOOLEAN,
           restored' \/ w = Scan(mapWallet, keys', TRUE) \/ (~restored /\ keys' = keys)
    PROVE  CInv'
<1>1. /\ chain \in Seq(DOMAIN Block) /\ ChainOrdered /\ IsWallet(mapWallet) /\ Spender(mapWallet)
      /\ IsWallet(backup'.mapWallet) /\ Spender(backup'.mapWallet) /\ made \subseteq made'
  BY DEF CInv
<1>2. IsWallet(w) /\ Spender(w) /\ (w = Scan(mapWallet, keys', TRUE) => Known(w, keys', ChainTxs))
  BY <1>1, Rescan, Zenon DEF Grew
<1>3. /\ Grew(w, mapWallet') /\ Marked(mapWallet', keys')
      /\ Known(w, keys', ChainTxs) => Known(mapWallet', keys', ChainTxs)
  BY <1>1, <1>2, ReacceptMarks
<1>4. IsWallet(mapWallet') /\ Spender(mapWallet')
  BY <1>2, <1>3, Zenon DEF Grew
<1>5. restored' \/ Known(mapWallet', keys', ChainTxs)
  <2>1. CASE w = Scan(mapWallet, keys', TRUE)
    BY <1>2, <1>3, <2>1, Zenon
  <2>2. CASE ~restored /\ keys' = keys /\ w = mapWallet
    <3>1. Known(mapWallet, keys, ChainTxs)
      BY <2>2 DEF CInv
    <3> QED
      BY <1>3, <2>2, <3>1
  <2> QED
    BY <2>1, <2>2, Zenon
<1>6. CreditCacheCoherent'
  BY Zenon DEF CreditCacheCoherent
<1> QED
  BY <1>1, <1>3, <1>4, <1>5, <1>6, SameChain

(* repairwallet. *)
LEMMA RepairWalletKeeps ==
    ASSUME CInv, RepairWallet
    PROVE  CInv'
<1> DEFINE v == mapWallet'
           fixed(t) == {n \in DOMAIN vout[t] :
                          IF IsMine(keys, <<t, n>>) THEN SpentInChain(<<t, n>>) ELSE n \in mapWallet[t].spent}
<1>1. /\ chain \in Seq(DOMAIN Block) /\ ChainOrdered /\ IsWallet(mapWallet) /\ Spender(mapWallet)
      /\ IsWallet(backup'.mapWallet) /\ Spender(backup'.mapWallet) /\ made \subseteq made'
      /\ alive /\ connecting' = NotConnecting
      /\ UNCHANGED <<chain, backup, restored, made, alive, keys>>
  BY DEF CInv, RepairWallet, Free, history
<1>2. v = [t \in DOMAIN mapWallet |-> IF ~InChain(t) THEN mapWallet[t] ELSE [mapWallet[t] EXCEPT !.spent = fixed(t)]]
  BY DEF RepairWallet, FixSpentCoins
<1> HIDE DEF v, fixed
<1>3. /\ DOMAIN v = DOMAIN mapWallet /\ v = [t \in DOMAIN v |-> v[t]]
      /\ \A t \in DOMAIN v : /\ IsWtx(v[t]) /\ v[t].hashBlock = mapWallet[t].hashBlock
                             /\ v[t].spent = IF ~InChain(t) THEN mapWallet[t].spent ELSE fixed(t)
  <2>1. DOMAIN v = DOMAIN mapWallet /\ v = [t \in DOMAIN v |-> v[t]]
    BY <1>2
  <2>2. ASSUME NEW t \in DOMAIN v
        PROVE  /\ IsWtx(v[t]) /\ v[t].hashBlock = mapWallet[t].hashBlock
               /\ v[t].spent = IF ~InChain(t) THEN mapWallet[t].spent ELSE fixed(t)
    <3>1. IsWtx(mapWallet[t])
      BY <1>1, <2>1 DEF IsWallet
    <3> QED
      BY <1>2, <2>1, <3>1 DEF IsWtx
  <2> QED
    BY <2>1, <2>2
<1>4. IsWallet(v)
  BY <1>1, <1>3 DEF IsWallet
<1>5. Spender(v)
  <2> SUFFICES ASSUME NEW t \in DOMAIN v, NEW n \in v[t].spent
               PROVE  \E u \in DOMAIN v \cup ChainTxs : <<t, n>> \in vin[u]
    BY DEF Spender
  <2>1. CASE n \in mapWallet[t].spent
    BY <1>1, <1>3, <2>1 DEF Spender
  <2>2. CASE SpentInChain(<<t, n>>)
    BY <2>2 DEF SpentInChain
  <2> QED
    BY <1>3, <2>1, <2>2, Zenon DEF fixed
<1>6. Known(mapWallet, keys, ChainTxs) => Known(v, keys, ChainTxs)
  BY <1>3 DEF Known, Involves, IsFromMe, GetDebit
<1>7. Marked(v, keys)
  <2> SUFFICES ASSUME NEW t \in DOMAIN v, NEW n \in DOMAIN vout[t], SpentInChain(<<t, n>>), IsMine(keys, <<t, n>>)
               PROVE  n \in v[t].spent
    BY Zenon DEF Marked
  <2>1. PICK x \in ChainTxs : <<t, n>> \in vin[x]
    BY DEF SpentInChain
  <2>2. <<t, n>>[1] \in ChainTxs
    BY <1>1, <2>1, ChainClosed, Zenon
  <2>3. InChain(t)
    BY <1>1, <2>2, ChainPlaces, Zenon
  <2> QED
    BY <1>3, <2>3, Zenon DEF fixed
<1>8. CreditCacheCoherent'
  <2>1. cached' = StillCached(mapWallet', {})
    BY DEF RepairWallet
  <2>2. \A u \in DOMAIN cached' : u \in DOMAIN mapWallet' /\ cached'[u] = GetAvailableCredit(mapWallet', keys, u)
    BY <1>3, <2>1, StillCoherent DEF CInv, v
  <2> QED
    BY <1>1, <2>2, Zenon DEF CreditCacheCoherent, GetAvailableCredit
<1>9. /\ IsWallet(mapWallet') /\ Spender(mapWallet') /\ Marked(mapWallet', keys')
      /\ restored' \/ Known(mapWallet', keys', ChainTxs)
      /\ alive' /\ alive' \in BOOLEAN /\ restored' \in BOOLEAN
  BY <1>1, <1>4, <1>5, <1>6, <1>7 DEF v, CInv
<1> QED
  BY <1>1, <1>8, <1>9, SameChain

(* The steps that leave the wallet alone: a balance is asked for, wallet.dat *)
(* is copied, the process ends.                                              *)
LEMMA WalletAlone ==
    ASSUME CInv, UNCHANGED <<chain, mapWallet, keys, restored, made>>,
           IsWallet(backup'.mapWallet), Spender(backup'.mapWallet),
           alive' \in BOOLEAN, alive' => alive,
           ~alive' => DOMAIN cached' = {} /\ connecting' = NotConnecting,
           CreditCacheCoherent', connecting' # NotConnecting => Heard'
    PROVE  CInv'
<1>1. /\ IsWallet(mapWallet') /\ Spender(mapWallet')
      /\ restored' \/ Known(mapWallet', keys', ChainTxs)
      /\ alive' => Marked(mapWallet', keys')
      /\ restored' \in BOOLEAN /\ made \subseteq made'
  BY Zenon DEF CInv
<1> QED
  BY <1>1, SameChain

(* An empty wallet. *)
LEMMA EmptyWallet ==
    IsWallet(<<>>) /\ Spender(<<>>)
<1>1. DOMAIN <<>> = {}
  OBVIOUS
<1>2. <<>> = [t \in DOMAIN <<>> |-> <<>>[t]]
  BY <1>1
<1> QED
  BY <1>1, <1>2 DEF IsWallet, Spender

(* The invariant holds at first. *)
LEMMA CInvInit ==
    Init => CInv
<1> SUFFICES ASSUME Init PROVE CInv
  OBVIOUS
<1>1. chain = <<>> /\ DOMAIN chain = {} /\ chain \in Seq(DOMAIN Block)
  BY DEF Init
<1>2. ChainTxs = {} /\ ChainOrdered
  BY <1>1 DEF ChainTxs, Range, ChainOrdered
<1>3. IsWallet(mapWallet) /\ Spender(mapWallet) /\ IsWallet(backup.mapWallet) /\ Spender(backup.mapWallet)
  BY EmptyWallet DEF Init, NoBackup
<1>4. DOMAIN cached = {} /\ CreditCacheCoherent
  BY DEF Init, CreditCacheCoherent
<1>5. Known(mapWallet, keys, ChainTxs)
  BY <1>2 DEF Known
<1> QED
  BY <1>1, <1>2, <1>3, <1>4, <1>5, Zenon DEF Init, CInv

(* Every step keeps it. *)
LEMMA CInvNext ==
    CInv /\ [Next]_vars => CInv'
<1> SUFFICES ASSUME CInv, [Next]_vars PROVE CInv'
  OBVIOUS
<1>1. ASSUME NEW b \in DOMAIN Block, ConnectBegin(b) PROVE CInv'
  BY <1>1, ConnectBeginKeeps
<1>2. CASE SyncWithWallets
  BY <1>2, SyncWithWalletsKeeps
<1>3. CASE ConnectCommits
  BY <1>3, ConnectCommitsKeeps
<1>4. ASSUME NEW t \in Tx, ReceiveTx(t) PROVE CInv'
  BY <1>4, ReceiveTxKeeps
<1>5. ASSUME NEW t \in Tx, SendMoney(t) PROVE CInv'
  BY <1>5, SendMoneyKeeps
<1>6. ASSUME NEW k \in ImportKeys, ImportPrivKey(k) PROVE CInv'
  <2> DEFINE w == Scan(mapWallet, keys', TRUE)
  <2>1. mapWallet' = Reaccept(w, keys')
    BY <1>6 DEF ImportPrivKey
  <2>2. UNCHANGED <<chain, backup, made>> /\ alive' /\ connecting' = NotConnecting /\ DOMAIN cached' = {}
    BY <1>6 DEF ImportPrivKey, Free
  <2>3. alive' \in BOOLEAN /\ restored' \in BOOLEAN
    BY <1>6, Zenon DEF ImportPrivKey, CInv
  <2>4. w = Scan(mapWallet, keys', TRUE)
    OBVIOUS
  <2> HIDE DEF w
  <2> QED
    BY <2>1, <2>2, <2>3, <2>4, ReacceptKeeps, Zenon
<1>7. CASE RepairWallet
  BY <1>7, RepairWalletKeeps
<1>8. CASE GetBalance
  <2> DEFINE ts == {t \in DOMAIN mapWallet : Mature(mapWallet, t)}
  <2>1. /\ UNCHANGED <<alive, chain, connecting, mapWallet, keys, backup, restored, made>>
        /\ alive /\ connecting = NotConnecting
    BY <1>8 DEF GetBalance, Free, history
  <2>2. /\ cached' = [t \in DOMAIN cached \cup ts |->
                        IF t \in DOMAIN cached THEN cached[t] ELSE GetAvailableCredit(mapWallet, keys, t)]
        /\ ts \subseteq DOMAIN mapWallet
    BY <1>8 DEF GetBalance
  <2> HIDE DEF ts
  <2>3. \A t \in DOMAIN cached' : t \in DOMAIN mapWallet /\ cached'[t] = GetAvailableCredit(mapWallet, keys, t)
    BY <2>2, Zenon DEF CInv, CreditCacheCoherent
  <2>4. CreditCacheCoherent'
    BY <2>1, <2>3 DEF CreditCacheCoherent, GetAvailableCredit
  <2>5. IsWallet(backup'.mapWallet) /\ Spender(backup'.mapWallet) /\ alive' \in BOOLEAN
    BY <2>1 DEF CInv
  <2> QED
    BY <2>1, <2>4, <2>5, WalletAlone
<1>9. CASE BackupWallet
  <2>1. /\ UNCHANGED <<alive, chain, connecting, mapWallet, keys, cached, restored, made>>
        /\ alive /\ connecting = NotConnecting
        /\ backup'.mapWallet = mapWallet
    BY <1>9 DEF BackupWallet, Free, history
  <2>2. CreditCacheCoherent'
    BY <2>1, Zenon DEF CInv, CreditCacheCoherent, GetAvailableCredit
  <2>3. IsWallet(backup'.mapWallet) /\ Spender(backup'.mapWallet) /\ alive' \in BOOLEAN
    BY <2>1 DEF CInv
  <2> QED
    BY <2>1, <2>2, <2>3, WalletAlone
<1>10. CASE Die
  <2>1. UNCHANGED <<chain, mapWallet, keys, backup, restored, made>> /\ DOMAIN cached' = {} /\ connecting' = NotConnecting
    BY <1>10 DEF Die, Dead, history
  <2>2. ~alive' /\ alive' \in BOOLEAN
    BY <1>10, Zenon DEF Die, Dead
  <2>3. CreditCacheCoherent'
    BY <2>1 DEF CreditCacheCoherent
  <2>4. IsWallet(backup'.mapWallet) /\ Spender(backup'.mapWallet)
    BY <2>1 DEF CInv
  <2> QED
    BY <2>1, <2>2, <2>3, <2>4, WalletAlone
<1>11. CASE Restore
  <2>1. /\ UNCHANGED <<alive, chain, connecting, cached, made>>
        /\ ~alive /\ mapWallet' = backup.mapWallet /\ backup'.mapWallet = <<>>
    BY <1>11 DEF Restore, NoBackup
  <2>2. restored' /\ restored' \in BOOLEAN /\ alive' \in BOOLEAN
    BY <1>11, Zenon DEF Restore, CInv
  <2>3. DOMAIN cached' = {} /\ connecting' = NotConnecting /\ ~alive'
    BY <2>1, Zenon DEF CInv
  <2>4. IsWallet(mapWallet') /\ Spender(mapWallet') /\ IsWallet(backup'.mapWallet) /\ Spender(backup'.mapWallet)
    BY <2>1, EmptyWallet, Zenon DEF CInv
  <2>5. CreditCacheCoherent'
    BY <2>3 DEF CreditCacheCoherent
  <2> QED
    BY <2>1, <2>2, <2>3, <2>4, <2>5, SameChain, Zenon
<1>12. ASSUME NEW fRescan \in BOOLEAN, Start(fRescan) PROVE CInv'
  <2> DEFINE w == IF fRescan THEN Scan(mapWallet, keys, TRUE) ELSE mapWallet
  <2>1. /\ UNCHANGED <<chain, connecting, cached, keys, backup, made>> /\ ~alive
        /\ mapWallet' = Reaccept(w, keys')
        /\ restored' = (restored /\ ~fRescan)
    BY <1>12 DEF Start
  <2>2. alive' /\ alive' \in BOOLEAN /\ restored' \in BOOLEAN
    BY <1>12, Zenon DEF Start, CInv
  <2>3. DOMAIN cached' = {} /\ connecting' = NotConnecting
    BY <2>1 DEF CInv
  <2>4. w = mapWallet \/ w = Scan(mapWallet, keys', TRUE)
    BY <2>1, Zenon
  <2>5. restored' \/ w = Scan(mapWallet, keys', TRUE) \/ (~restored /\ keys' = keys)
    BY <2>1, Zenon
  <2> HIDE DEF w
  <2> QED
    BY <2>1, <2>2, <2>3, <2>4, <2>5, ReacceptKeeps, Zenon
<1>13. CASE UNCHANGED vars
  <2>1. UNCHANGED <<alive, chain, connecting, mapWallet, keys, cached, backup, restored, made>>
    BY <1>13 DEF vars, history
  <2>2. CreditCacheCoherent'
    BY <2>1, Zenon DEF CInv, CreditCacheCoherent, GetAvailableCredit
  <2>3. connecting' # NotConnecting => Heard'
    <3> SUFFICES ASSUME connecting # NotConnecting PROVE Heard'
      BY <2>1 DEF NotConnecting
    <3>1. Heard
      BY DEF CInv
    <3>2. ChainTxs' = ChainTxs
      BY <2>1 DEF ChainTxs
    <3>3. InOrder(Block[connecting.block].vtx, ChainTxs)'
      <4>1. InOrder(Block[connecting.block].vtx, ChainTxs)
        BY <3>1, Zenon DEF Heard
      <4> QED
        BY <2>1, <3>2, <4>1
    <3>4. \A t : Involves(mapWallet, keys, t)' <=> Involves(mapWallet, keys, t)
      BY <2>1, Zenon DEF Involves, IsFromMe, GetDebit
    <3> QED
      BY <2>1, <3>1, <3>3, <3>4, Zenon DEF Heard, IsMine
  <2>4. /\ IsWallet(backup'.mapWallet) /\ Spender(backup'.mapWallet) /\ alive' \in BOOLEAN
        /\ ~alive' => DOMAIN cached' = {} /\ connecting' = NotConnecting
    BY <2>1 DEF CInv
  <2> QED
    BY <2>1, <2>2, <2>3, <2>4, WalletAlone
<1> QED
  BY <1>1, <1>2, <1>3, <1>4, <1>5, <1>6, <1>7, <1>8, <1>9, <1>10, <1>11, <1>12, <1>13 DEF Next

(* The invariant, in every state of every behaviour. *)
THEOREM WalletInvariance == Spec => []CInv
BY CInvInit, CInvNext, PTL DEF Spec

(* No payment is offered a coin that the chain has spent: the flags of a     *)
(* running wallet have every such coin, since ReacceptWalletTransactions     *)
(* sets them at the start and SyncWithWallets before a block is committed.   *)
THEOREM SpentCoinsStayHome == Spec => []NoSpentCoinOffered
<1>1. CInv => NoSpentCoinOffered
  <2> SUFFICES ASSUME CInv, alive, NEW o \in AvailableCoins, SpentInChain(o)
               PROVE  o[1] \in CoinBases /\ 1 \in mapWallet[o[1]].spent
    BY Zenon DEF NoSpentCoinOffered
  <2>1. PICK t \in DOMAIN mapWallet : o \in GetAvailableCredit(mapWallet, keys, t)
    BY DEF AvailableCoins
  <2>2. PICK n \in DOMAIN vout[t] : o = <<t, n>>
    BY <2>1 DEF GetAvailableCredit, Outputs
  <2>3. n \notin mapWallet[t].spent /\ IsMine(keys, <<t, n>>) /\ o[1] = t
    BY <2>1, <2>2 DEF GetAvailableCredit
  <2> QED
    BY <2>2, <2>3, Zenon DEF CInv, Marked
<1> QED
  BY <1>1, WalletInvariance, PTL

(* A crash leaves no block in the chain that the wallet has not seen,        *)
(* because ConnectBlock tells the wallet before it commits.                  *)
THEOREM NoCoinIsMissed == Spec => []ChainCoinsKnown
<1>1. CInv => ChainCoinsKnown
  BY DEF CInv, Known, ChainCoinsKnown
<1> QED
  BY <1>1, WalletInvariance, PTL

(* A coin is flagged only if something spends it, also in wallet.dat after a *)
(* crash and in a copy that is put back.                                     *)
THEOREM FlagsAreJustified == Spec => []SpentHasSpender
<1>1. CInv => SpentHasSpender
  BY DEF CInv, Spender, SpentHasSpender
<1> QED
  BY <1>1, WalletInvariance, PTL

(* The balance adds up what it would compute. *)
THEOREM BalanceIsFresh == Spec => []CreditCacheCoherent
<1>1. CInv => CreditCacheCoherent
  BY DEF CInv
<1> QED
  BY <1>1, WalletInvariance, PTL
=============================================================================
