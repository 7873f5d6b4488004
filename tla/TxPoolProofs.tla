---------------------------- MODULE TxPoolProofs ----------------------------
(***************************************************************************)
(* Proofs about TxPool, for every set of transactions.                     *)
(***************************************************************************)
EXTENDS TxPool, FiniteSetTheorems, TLAPS

(* What the handler has still to look at: nothing between messages. *)
HandlerShape == Idle => i = 0 /\ todo = {}

(* OrphansProcessed inside the handler: an orphan that the pool would take   *)
(* is still to be looked at, as a child of the current parent or of a later  *)
(* one, unless a parent came otherwise.                                      *)
Pending ==
    \A o \in mapOrphanTransactions :
        accept(o) = "accepted" =>
            \/ o \in todo
            \/ \E j \in (i + 1)..Len(vWorkQueue) : vWorkQueue[j] \in Parents(o)
            \/ Parents(o) \cap quiet # {}

IInv ==
    /\ TypeOK
    /\ PoolIndexExact
    /\ PoolClosed
    /\ OrphanIndexExact
    /\ HandlerShape
    /\ Pending

(* Every input of a transaction is an outpoint, and so are its parents' hashes. *)
LEMMA VinType ==
    ASSUME NEW t \in Txs
    PROVE  /\ Tx[t].vin \subseteq OutPoints
           /\ Parents(t) \subseteq Txs
           /\ \A op \in Tx[t].vin : op[1] \in Parents(t)
  BY TxAssumption DEF TxData, OutPoints, Parents

(* The three answers of accept, by the conditions they stand for. *)
LEMMA AcceptAnswers ==
    ASSUME NEW t \in Txs
    PROVE  /\ accept(t) = "accepted" <=>
                ~Refused(t) /\ ~Missing(t) /\ Tx[t].valid /\ Spendable(t)
           /\ accept(t) = "missing" <=> ~Refused(t) /\ Missing(t)
  BY DEF accept

(* The same after a step. *)
LEMMA AcceptAnswersNext ==
    ASSUME NEW t \in Txs
    PROVE  (accept(t) = "accepted")' <=>
                ~Refused(t)' /\ ~Missing(t)' /\ Tx[t].valid /\ Spendable(t)'
  BY DEF accept, Refused, Missing, Spendable, Known, Conflict

(* addUnchecked keeps mapNextTx exact when its transaction has no conflict. *)
LEMMA AddIndexExact ==
    ASSUME NEW t \in Txs, TypeOK, PoolIndexExact, ~Refused(t), addUnchecked(t)
    PROVE  PoolIndexExact' /\ mapTx' \subseteq Txs /\ mapNextTx' \in [OutPoints -> Txs \cup {Null}]
  <1>1. \A op \in Tx[t].vin : op \in OutPoints /\ mapNextTx[op] = Null
    BY VinType DEF TypeOK, Refused, Conflict
  <1> QED BY <1>1, NullAssumption DEF TypeOK, PoolIndexExact, addUnchecked

(* addUnchecked, in a state where accept answers "accepted", keeps PoolClosed. *)
LEMMA AddClosed ==
    ASSUME NEW t \in Txs, TypeOK, PoolClosed, ~Refused(t), addUnchecked(t),
           UNCHANGED chain, unchecked \subseteq unchecked',
           t \in unchecked' \/ ~Missing(t)
    PROVE  PoolClosed'
  BY DEF TypeOK, PoolClosed, addUnchecked, Refused, Known, Missing, chain, Parents

(* An orphan that addUnchecked(t) makes acceptable was acceptable before, or *)
(* waited for t.                                                             *)
LEMMA AddWakes ==
    ASSUME NEW t \in Txs, NEW o \in Txs, TypeOK, PoolIndexExact, addUnchecked(t), ~Refused(t),
           UNCHANGED chain, accept(o)' = "accepted"
    PROVE  o # t /\ (accept(o) = "accepted" \/ t \in Parents(o))
  <1>1. ~Refused(o)' /\ ~Missing(o)' /\ Tx[o].valid /\ Spendable(o)'
    BY AcceptAnswersNext
  <1>2. Spendable(o)
    BY <1>1 DEF Spendable, chain
  <1>3. ~Refused(o) /\ o # t
    <2>1. mapTx \subseteq mapTx' /\ t \in mapTx' /\ txindex' = txindex
      BY DEF addUnchecked, chain
    <2>2. \A op \in Tx[o].vin : mapNextTx[op] # Null => mapNextTx'[op] # Null
      BY VinType, NullAssumption DEF addUnchecked
    <2> QED BY <1>1, <2>1, <2>2 DEF Refused, Known, Conflict
  <1>4. Missing(o) => t \in Parents(o)
    BY <1>1 DEF Missing, addUnchecked, chain
  <1> QED BY <1>1, <1>2, <1>3, <1>4, AcceptAnswers

-----------------------------------------------------------------------------
LEMMA InitIInv == Init => IInv
  <1> SUFFICES ASSUME Init PROVE IInv OBVIOUS
  <1>1. TypeOK
    BY TxAssumption DEF Init, TypeOK
  <1>2. PoolIndexExact /\ OrphanIndexExact /\ HandlerShape /\ PoolClosed /\ Pending
    BY NullAssumption DEF Init, PoolIndexExact, OrphanIndexExact, HandlerShape, PoolClosed, Pending
  <1> QED BY <1>1, <1>2 DEF IInv

LEMMA TxAcceptedIInv ==
    ASSUME NEW t \in Txs, IInv, TxAccepted(t)
    PROVE  IInv'
  <1>1. ~Refused(t) /\ ~Missing(t)
    BY AcceptAnswers DEF TxAccepted
  <1>2. /\ addUnchecked(t)
        /\ UNCHANGED chain
        /\ UNCHANGED history
        /\ UNCHANGED orphans
        /\ vWorkQueue' = <<t>> /\ i' = 1 /\ vEraseQueue' = {t}
        /\ todo' = mapOrphanTransactionsByPrev[t]
        /\ vWorkQueue = <<>>
    BY DEF TxAccepted, Idle
  <1>3. PoolIndexExact' /\ mapTx' \subseteq Txs /\ mapNextTx' \in [OutPoints -> Txs \cup {Null}]
    BY <1>1, <1>2, AddIndexExact DEF IInv
  <1>4. PoolClosed'
    BY <1>1, <1>2, AddClosed DEF IInv, history
  <1>5. TypeOK'
    BY <1>2, <1>3 DEF IInv, TypeOK, chain, history, orphans
  <1>6. OrphanIndexExact'
    BY <1>2 DEF IInv, TypeOK, OrphanIndexExact, orphans
  <1>7. HandlerShape'
    BY <1>2 DEF HandlerShape, Idle
  <1>8. Pending'
    <2> SUFFICES ASSUME NEW o \in mapOrphanTransactions', accept(o)' = "accepted"
                 PROVE  o \in todo' \/ Parents(o) \cap quiet' # {}
      BY DEF Pending, Parents
    <2>1. o \in Txs /\ o \in mapOrphanTransactions
      BY <1>2 DEF IInv, TypeOK, orphans
    <2>2. CASE t \in Parents(o)
      BY <2>1, <2>2, <1>2 DEF IInv, OrphanIndexExact
    <2>3. CASE accept(o) = "accepted"
      BY <2>1, <2>3, <1>2 DEF IInv, Pending, HandlerShape, Idle, history
    <2> QED BY <2>1, <2>2, <2>3, <1>1, <1>2, AddWakes DEF IInv
  <1> QED BY <1>3, <1>4, <1>5, <1>6, <1>7, <1>8 DEF IInv

LEMMA TxMissingIInv ==
    ASSUME NEW t \in Txs, IInv, TxMissing(t)
    PROVE  IInv'
  <1>1. accept(t) = "missing" /\ UNCHANGED <<pool, chain, handler, history>>
    BY DEF TxMissing
  <1>2. \A o \in Txs : accept(o)' = accept(o)
    BY <1>1 DEF accept, Refused, Known, Conflict, Missing, Spendable, pool, chain
  <1>3. PICK add, evicted :
          /\ add \subseteq {t}
          /\ mapOrphanTransactions' = (mapOrphanTransactions \cup add) \ evicted
          /\ mapOrphanTransactionsByPrev' =
               [p \in Txs |-> (mapOrphanTransactionsByPrev[p] \cup
                                {o \in add : p \in Parents(o)}) \ evicted]
    <2> DEFINE added == t \notin mapOrphanTransactions /\ Tx[t].small
               os == IF added THEN mapOrphanTransactions \cup {t} ELSE mapOrphanTransactions
               byPrev == IF added THEN ByPrevWith(t) ELSE mapOrphanTransactionsByPrev
               add == IF added THEN {t} ELSE {}
    <2>1. PICK evicted : /\ mapOrphanTransactions' = os \ evicted
                         /\ mapOrphanTransactionsByPrev' = EraseOrphans(byPrev, evicted)
      BY DEF TxMissing, AddOrphan
    <2>2. os = mapOrphanTransactions \cup add
      OBVIOUS
    <2>3. \A p \in Txs : byPrev[p] = mapOrphanTransactionsByPrev[p] \cup {o \in add : p \in Parents(o)}
      BY DEF ByPrevWith
    <2> HIDE DEF os, byPrev, add
    <2>4. mapOrphanTransactionsByPrev' =
               [p \in Txs |-> (mapOrphanTransactionsByPrev[p] \cup
                                {o \in add : p \in Parents(o)}) \ evicted]
      BY <2>1, <2>3 DEF EraseOrphans
    <2>5. add \subseteq {t}
      BY DEF add
    <2> QED BY <2>1, <2>2, <2>4, <2>5
  <1>4. TypeOK'
    BY <1>1, <1>3 DEF IInv, TypeOK, pool, chain, handler, history
  <1>5. PoolIndexExact' /\ PoolClosed' /\ HandlerShape'
    BY <1>1 DEF IInv, PoolIndexExact, PoolClosed, HandlerShape, Idle, Parents,
                pool, chain, handler, history
  <1>6. OrphanIndexExact'
    BY <1>1, <1>3 DEF IInv, TypeOK, OrphanIndexExact, HandlerShape, Idle, Parents, handler, TxMissing
  <1>7. Pending'
    BY <1>1, <1>2, <1>3 DEF IInv, TypeOK, Pending, Parents, handler, history
  <1> QED BY <1>4, <1>5, <1>6, <1>7 DEF IInv

(* An orphan that is refused, or that still misses an input, in the loop. *)
LEMMA TryOrphanSkipsIInv ==
    ASSUME NEW t \in Txs, IInv, TryOrphan(t), UNCHANGED pool, UNCHANGED vWorkQueue,
           accept(t) # "accepted", vEraseQueue' \subseteq Txs
    PROVE  IInv'
  <1>1. /\ todo' = todo \ {t} /\ t \in todo
        /\ UNCHANGED <<orphans, chain, i, history>>
    BY DEF TryOrphan
  <1>2. \A o \in Txs : accept(o)' = accept(o)
    BY <1>1 DEF accept, Refused, Known, Conflict, Missing, Spendable, pool, chain
  <1>3. TypeOK'
    BY <1>1 DEF IInv, TypeOK, pool, chain, orphans, history
  <1>4. PoolIndexExact' /\ PoolClosed' /\ HandlerShape' /\ OrphanIndexExact'
    BY <1>1 DEF IInv, PoolIndexExact, PoolClosed, HandlerShape, Idle, Parents,
                OrphanIndexExact, orphans, pool, chain, history
  <1>5. Pending'
    BY <1>1, <1>2 DEF IInv, TypeOK, Pending, Parents, orphans, history
  <1> QED BY <1>3, <1>4, <1>5 DEF IInv

(* An orphan that the pool takes: those that wait for it get their turn when *)
(* the queue reaches it.                                                     *)
LEMMA TryOrphanAcceptsIInv ==
    ASSUME NEW t \in Txs, IInv, TryOrphan(t), accept(t) = "accepted"
    PROVE  IInv'
  <1>1. ~Refused(t) /\ ~Missing(t)
    BY AcceptAnswers
  <1>2. /\ addUnchecked(t)
        /\ UNCHANGED chain
        /\ UNCHANGED history
        /\ UNCHANGED orphans
        /\ vWorkQueue' = Append(vWorkQueue, t) /\ i' = i /\ vEraseQueue' = vEraseQueue \cup {t}
        /\ todo' = todo \ {t} /\ t \in todo
    BY DEF TryOrphan, PushWork
  <1>3. PoolIndexExact' /\ mapTx' \subseteq Txs /\ mapNextTx' \in [OutPoints -> Txs \cup {Null}]
    BY <1>1, <1>2, AddIndexExact DEF IInv
  <1>4. PoolClosed'
    BY <1>1, <1>2, AddClosed DEF IInv, history
  <1>5. /\ vWorkQueue' \in Seq(Txs) /\ Len(vWorkQueue') = Len(vWorkQueue) + 1
        /\ Len(vWorkQueue) \in Nat /\ i \in 0..Len(vWorkQueue)
        /\ vWorkQueue'[Len(vWorkQueue) + 1] = t
        /\ \A j \in 1..Len(vWorkQueue) : vWorkQueue'[j] = vWorkQueue[j]
    BY <1>2 DEF IInv, TypeOK
  <1>6. TypeOK'
    BY <1>2, <1>3, <1>5 DEF IInv, TypeOK, chain, history, orphans
  <1>7. OrphanIndexExact'
    BY <1>2 DEF IInv, OrphanIndexExact, orphans, Parents
  <1>8. HandlerShape'
    BY <1>5 DEF HandlerShape, Idle
  <1>9. Pending'
    <2> SUFFICES ASSUME NEW o \in mapOrphanTransactions', accept(o)' = "accepted"
                 PROVE  \/ o \in todo'
                        \/ \E j \in (i + 1)..(Len(vWorkQueue) + 1) : vWorkQueue'[j] \in Parents(o)
                        \/ Parents(o) \cap quiet' # {}
      BY <1>2, <1>5 DEF Pending, Parents
    <2>1. o \in Txs /\ o \in mapOrphanTransactions
      BY <1>2 DEF IInv, TypeOK, orphans
    <2>2. o # t /\ (accept(o) = "accepted" \/ t \in Parents(o))
      BY <2>1, <1>1, <1>2, AddWakes DEF IInv
    <2>3. CASE t \in Parents(o)
      BY <2>3, <1>5
    <2>4. CASE accept(o) = "accepted"
      BY <2>1, <2>2, <2>4, <1>2, <1>5 DEF IInv, Pending, history
    <2> QED BY <2>2, <2>3, <2>4
  <1> QED BY <1>3, <1>4, <1>6, <1>7, <1>8, <1>9 DEF IInv

LEMMA TryOrphanIInv ==
    ASSUME NEW t \in Txs, IInv, TryOrphan(t)
    PROVE  IInv'
  <1>1. CASE accept(t) = "accepted"
    BY <1>1, TryOrphanAcceptsIInv
  <1>2. CASE accept(t) # "accepted"
    <2>1. UNCHANGED pool /\ UNCHANGED vWorkQueue /\ vEraseQueue' \subseteq Txs
      BY <1>2 DEF TryOrphan, IInv, TypeOK
    <2> QED BY <1>2, <2>1, TryOrphanSkipsIInv
  <1> QED BY <1>1, <1>2

LEMMA NextParentIInv ==
    ASSUME IInv, NextParent
    PROVE  IInv'
  <1>1. /\ todo = {} /\ i < Len(vWorkQueue) /\ i' = i + 1
        /\ todo' = mapOrphanTransactionsByPrev[vWorkQueue[i + 1]]
        /\ UNCHANGED <<pool, orphans, chain, vWorkQueue, vEraseQueue, history>>
    BY DEF NextParent
  <1>2. \A o \in Txs : accept(o)' = accept(o)
    BY <1>1 DEF accept, Refused, Known, Conflict, Missing, Spendable, pool, chain
  <1>3. i \in Nat /\ Len(vWorkQueue) \in Nat /\ vWorkQueue[i + 1] \in Txs /\ i + 1 \in 0..Len(vWorkQueue)
    BY <1>1 DEF IInv, TypeOK
  <1>4. TypeOK'
    BY <1>1, <1>3 DEF IInv, TypeOK, pool, chain, orphans, history
  <1>5. PoolIndexExact' /\ PoolClosed'
    BY <1>1 DEF IInv, PoolIndexExact, PoolClosed, Parents, pool, chain, history
  <1>6. OrphanIndexExact' /\ HandlerShape'
    BY <1>1, <1>3 DEF IInv, TypeOK, OrphanIndexExact, HandlerShape, Idle, Parents, orphans
  <1>7. Pending'
    <2> SUFFICES ASSUME NEW o \in mapOrphanTransactions, accept(o) = "accepted"
                 PROVE  \/ o \in todo'
                        \/ \E j \in (i + 2)..Len(vWorkQueue) : vWorkQueue[j] \in Parents(o)
                        \/ Parents(o) \cap quiet # {}
      BY <1>1, <1>2, <1>3 DEF Pending, Parents, orphans, history, IInv, TypeOK
    <2>1. CASE vWorkQueue[i + 1] \in Parents(o)
      BY <2>1, <1>1, <1>3 DEF IInv, OrphanIndexExact
    <2>2. CASE vWorkQueue[i + 1] \notin Parents(o)
      BY <2>2, <1>1, <1>3 DEF IInv, Pending
    <2> QED BY <2>1, <2>2
  <1> QED BY <1>4, <1>5, <1>6, <1>7 DEF IInv

LEMMA EraseQueueIInv ==
    ASSUME IInv, EraseQueue
    PROVE  IInv'
  <1>1. /\ todo = {} /\ i = Len(vWorkQueue)
        /\ mapOrphanTransactions' = mapOrphanTransactions \ vEraseQueue
        /\ mapOrphanTransactionsByPrev' = [p \in Txs |-> mapOrphanTransactionsByPrev[p] \ vEraseQueue]
        /\ vWorkQueue' = <<>> /\ i' = 0 /\ todo' = {} /\ vEraseQueue' = {}
        /\ UNCHANGED <<pool, chain, history>>
    BY DEF EraseQueue, EraseOrphans, HandlerDone
  <1>2. \A o \in Txs : accept(o)' = accept(o)
    BY <1>1 DEF accept, Refused, Known, Conflict, Missing, Spendable, pool, chain
  <1>3. TypeOK'
    BY <1>1 DEF IInv, TypeOK, pool, chain, history
  <1>4. PoolIndexExact' /\ PoolClosed'
    BY <1>1 DEF IInv, PoolIndexExact, PoolClosed, Parents, pool, chain, history
  <1>5. OrphanIndexExact' /\ HandlerShape'
    BY <1>1 DEF IInv, TypeOK, OrphanIndexExact, HandlerShape, Parents
  <1>6. Pending'
    <2> SUFFICES ASSUME NEW o \in mapOrphanTransactions, accept(o) = "accepted"
                 PROVE  Parents(o) \cap quiet # {}
      BY <1>1, <1>2 DEF Pending, Parents, history, IInv, TypeOK
    <2> QED BY <1>1 DEF IInv, TypeOK, Pending
  <1> QED BY <1>3, <1>4, <1>5, <1>6 DEF IInv

(* A transaction that reaches the pool without a "tx" message. *)
LEMMA LocalIInv ==
    ASSUME NEW t \in Txs, IInv, Idle, ~Refused(t), addUnchecked(t),
           UNCHANGED <<orphans, chain, handler>>, quiet' = quiet \cup {t},
           \/ unchecked' = unchecked /\ ~Missing(t)
           \/ unchecked' = unchecked \cup {t}
    PROVE  IInv'
  <1>1. PoolIndexExact' /\ mapTx' \subseteq Txs /\ mapNextTx' \in [OutPoints -> Txs \cup {Null}]
    BY AddIndexExact DEF IInv
  <1>2. PoolClosed'
    <2>1. unchecked \subseteq unchecked' /\ (t \in unchecked' \/ ~Missing(t)) /\ UNCHANGED chain
      OBVIOUS
    <2> QED BY <2>1, AddClosed DEF IInv
  <1>3. TypeOK'
    BY <1>1 DEF IInv, TypeOK, chain, handler, orphans
  <1>4. OrphanIndexExact' /\ HandlerShape'
    BY DEF IInv, OrphanIndexExact, HandlerShape, Idle, Parents, orphans, handler
  <1>5. Pending'
    <2> SUFFICES ASSUME NEW o \in mapOrphanTransactions, accept(o)' = "accepted"
                 PROVE  Parents(o) \cap quiet' # {}
      BY DEF Pending, Parents, orphans
    <2>1. o \in Txs
      BY DEF IInv, TypeOK
    <2>2. accept(o) = "accepted" \/ t \in Parents(o)
      BY <2>1, AddWakes DEF IInv
    <2>3. CASE accept(o) = "accepted"
      BY <2>3 DEF IInv, Pending, HandlerShape, Idle
    <2> QED BY <2>2, <2>3
  <1> QED BY <1>1, <1>2, <1>3, <1>4, <1>5 DEF IInv

LEMMA ConnectBlockIInv ==
    ASSUME NEW ts \in SUBSET Txs, IInv, ConnectBlock(ts)
    PROVE  IInv'
  <1>1. /\ vWorkQueue = <<>>
        /\ txindex' = txindex \cup ts
        /\ vSpent' = vSpent \cup UNION {Tx[t].vin : t \in ts}
        /\ mapTx' = mapTx \ ts
        /\ mapNextTx' = [op \in OutPoints |->
                           IF \E t \in ts \cap mapTx : op \in Tx[t].vin THEN Null ELSE mapNextTx[op]]
        /\ quiet' = quiet \cup (ts \ mapTx)
        /\ UNCHANGED <<orphans, handler, unchecked>>
    BY DEF ConnectBlock, remove, Idle
  <1>2. TypeOK'
    <2>1. vSpent' \subseteq OutPoints
      BY <1>1, VinType DEF IInv, TypeOK
    <2> QED BY <1>1, <2>1 DEF IInv, TypeOK, orphans, handler
  <1>3. PoolIndexExact'
    <2> SUFFICES ASSUME NEW op \in OutPoints, NEW t \in Txs
                 PROVE  mapNextTx'[op] = t <=> t \in mapTx' /\ op \in Tx[t].vin
      BY DEF PoolIndexExact
    <2>1. mapNextTx[op] = t <=> t \in mapTx /\ op \in Tx[t].vin
      BY DEF IInv, PoolIndexExact
    <2>2. \A u \in Txs : mapNextTx[op] = u <=> u \in mapTx /\ op \in Tx[u].vin
      BY DEF IInv, PoolIndexExact
    <2> QED BY <1>1, <2>1, <2>2, NullAssumption
  <1>4. PoolClosed'
    BY <1>1 DEF IInv, TypeOK, PoolClosed, Parents
  <1>5. OrphanIndexExact' /\ HandlerShape'
    BY <1>1 DEF IInv, OrphanIndexExact, HandlerShape, Idle, Parents, orphans, handler
  <1>6. Pending'
    <2> SUFFICES ASSUME NEW o \in mapOrphanTransactions, accept(o)' = "accepted"
                 PROVE  Parents(o) \cap quiet' # {}
      BY <1>1 DEF Pending, Parents, orphans
    <2>1. o \in Txs
      BY DEF IInv, TypeOK
    <2>2. ~Refused(o)' /\ ~Missing(o)' /\ Tx[o].valid /\ Spendable(o)'
      BY <2>1, AcceptAnswersNext
    <2>3. Spendable(o)
      BY <1>1, <2>2 DEF Spendable
    <2>4. ~Refused(o)
      <3>1. Tx[o].standard /\ ~Known(o)
        BY <1>1, <2>2 DEF Refused, Known
      <3>2. ASSUME NEW op \in Tx[o].vin, mapNextTx[op] # Null
            PROVE  FALSE
        <4>1. op \in OutPoints /\ mapNextTx'[op] = Null /\ op \notin vSpent'
          BY <2>1, <2>2, VinType DEF Refused, Conflict, Spendable
        <4>2. \E t \in ts \cap mapTx : op \in Tx[t].vin
          BY <1>1, <3>2, <4>1
        <4> QED BY <1>1, <4>1, <4>2
      <3> QED BY <3>1, <3>2 DEF Refused, Conflict
    <2>5. CASE Missing(o)
      BY <1>1, <2>2, <2>5 DEF Missing
    <2>6. CASE ~Missing(o)
      <3>1. accept(o) = "accepted"
        BY <2>1, <2>2, <2>3, <2>4, <2>6, AcceptAnswers
      <3> QED BY <1>1, <3>1 DEF IInv, Pending, HandlerShape, Idle
    <2> QED BY <2>5, <2>6
  <1> QED BY <1>2, <1>3, <1>4, <1>5, <1>6 DEF IInv

-----------------------------------------------------------------------------
LEMMA NextIInv == IInv /\ [Next]_vars => IInv'
  <1> SUFFICES ASSUME IInv, [Next]_vars PROVE IInv' OBVIOUS
  <1>1. ASSUME NEW t \in Txs, TxAccepted(t) PROVE IInv'
    BY <1>1, TxAcceptedIInv
  <1>2. ASSUME NEW t \in Txs, TxMissing(t) PROVE IInv'
    BY <1>2, TxMissingIInv
  <1>3. CASE UNCHANGED vars
    BY <1>3 DEF IInv, TypeOK, PoolIndexExact, PoolClosed, OrphanIndexExact, HandlerShape, Pending,
                Idle, Parents, accept, Refused, Known, Conflict, Missing, Spendable,
                vars, pool, orphans, chain, handler, history
  <1>4. ASSUME NEW t \in Txs, TryOrphan(t) PROVE IInv'
    BY <1>4, TryOrphanIInv
  <1>5. ASSUME NEW t \in Txs, AcceptLocal(t) PROVE IInv'
    <2>1. ~Refused(t) /\ ~Missing(t)
      BY <1>5, AcceptAnswers DEF AcceptLocal
    <2> QED BY <1>5, <2>1, LocalIInv DEF AcceptLocal
  <1>6. ASSUME NEW t \in Txs, AcceptUnchecked(t) PROVE IInv'
    BY <1>6, LocalIInv DEF AcceptUnchecked
  <1>7. CASE NextParent
    BY <1>7, NextParentIInv
  <1>8. CASE EraseQueue
    BY <1>8, EraseQueueIInv
  <1>9. ASSUME NEW ts \in SUBSET Txs, ConnectBlock(ts) PROVE IInv'
    BY <1>9, ConnectBlockIInv
  <1> QED BY <1>1, <1>2, <1>3, <1>4, <1>5, <1>6, <1>7, <1>8, <1>9 DEF Next, TxRejected

(* The inductive invariant holds in every reachable state. *)
THEOREM Invariance == Spec => []IInv
  BY InitIInv, NextIInv, PTL DEF Spec

(* The pool, the orphans and the handler's locals are of their types. *)
THEOREM TypeCorrect == Spec => []TypeOK
  BY Invariance, PTL DEF IInv

(* CTxMemPool: mapNextTx is exactly the inputs of mapTx, so no two pool        *)
(* transactions spend the same output.                                         *)
THEOREM NoConflictInPool == Spec => []PoolIndexExact
  BY Invariance, PTL DEF IInv

(* CTxMemPool: what was accepted with its inputs checked keeps them, and       *)
(* nothing is both in the pool and in the chain.                               *)
THEOREM PoolKeepsParents == Spec => []PoolClosed
  BY Invariance, PTL DEF IInv

(* AddOrphanTx, EraseOrphanTx and the handler's loop keep the two orphan maps  *)
(* in step, and the loop stands on no erased orphan.                           *)
THEOREM OrphanMapsAgree == Spec => []OrphanIndexExact
  BY Invariance, PTL DEF IInv

(* The work queue of the "tx" handler leaves behind no orphan that the pool    *)
(* would take, except one with a parent that came in a block or from the user. *)
THEOREM NoOrphanForgotten == Spec => []OrphansProcessed
  <1>1. IInv => OrphansProcessed
    BY DEF IInv, HandlerShape, Pending, OrphansProcessed, Idle
  <1> QED BY <1>1, Invariance, PTL

-----------------------------------------------------------------------------
(* OrphansBounded speaks of a cardinality: the set must be finite. *)
FewOrphans == IsFiniteSet(mapOrphanTransactions) /\ OrphansBounded

(* AddOrphanTx adds one orphan at most, and LimitOrphanTxSize takes one away   *)
(* when that is one too many.                                                  *)
LEMMA AddOrphanFew ==
    ASSUME NEW t \in Txs, FewOrphans, AddOrphan(t)
    PROVE  FewOrphans'
  <1> DEFINE os == IF t \notin mapOrphanTransactions /\ Tx[t].small
                   THEN mapOrphanTransactions \cup {t} ELSE mapOrphanTransactions
  <1>1. PICK evicted \in LimitOrphanTxSize(os) : mapOrphanTransactions' = os \ evicted
    BY DEF AddOrphan
  <1>2. IsFiniteSet(os) /\ Cardinality(os) \in Nat /\ Cardinality(os) <= MAX_ORPHAN_TRANSACTIONS + 1
    BY FS_AddElement, FS_CardinalityType, OrphanAssumption DEF FewOrphans, OrphansBounded
  <1> HIDE DEF os
  <1>3. CASE Cardinality(os) > MAX_ORPHAN_TRANSACTIONS
    <2>1. PICK o \in os : mapOrphanTransactions' = os \ {o}
      BY <1>1, <1>3 DEF LimitOrphanTxSize
    <2>2. IsFiniteSet(os \ {o}) /\ Cardinality(os \ {o}) = Cardinality(os) - 1
      BY <1>2, FS_RemoveElement
    <2> QED BY <1>2, <2>1, <2>2, OrphanAssumption DEF FewOrphans, OrphansBounded
  <1>4. CASE ~(Cardinality(os) > MAX_ORPHAN_TRANSACTIONS)
    <2>1. mapOrphanTransactions' = os
      BY <1>1, <1>4 DEF LimitOrphanTxSize
    <2> QED BY <1>2, <1>4, <2>1, OrphanAssumption DEF FewOrphans, OrphansBounded
  <1> QED BY <1>3, <1>4

(* LimitOrphanTxSize: the orphans never exceed MAX_ORPHAN_TRANSACTIONS.        *)
THEOREM OrphanLimitHolds == Spec => []OrphansBounded
  <1>1. Init => FewOrphans
    BY FS_EmptySet, OrphanAssumption DEF Init, FewOrphans, OrphansBounded
  <1>2. FewOrphans /\ [Next]_vars => FewOrphans'
    <2> SUFFICES ASSUME FewOrphans, [Next]_vars PROVE FewOrphans' OBVIOUS
    <2>1. ASSUME NEW t \in Txs, TxMissing(t) PROVE FewOrphans'
      BY <2>1, AddOrphanFew DEF TxMissing
    <2>2. CASE EraseQueue
      <3>1. mapOrphanTransactions' \subseteq mapOrphanTransactions
        BY <2>2 DEF EraseQueue
      <3>2. IsFiniteSet(mapOrphanTransactions') /\ Cardinality(mapOrphanTransactions') \in Nat
            /\ Cardinality(mapOrphanTransactions') <= Cardinality(mapOrphanTransactions)
        BY <3>1, FS_Subset, FS_CardinalityType DEF FewOrphans
      <3> QED BY <3>2, FS_CardinalityType, OrphanAssumption DEF FewOrphans, OrphansBounded
    <2>3. CASE UNCHANGED mapOrphanTransactions
      BY <2>3 DEF FewOrphans, OrphansBounded
    <2>4. \/ \E t \in Txs : TxMissing(t)
          \/ EraseQueue
          \/ UNCHANGED mapOrphanTransactions
      BY DEF Next, TxAccepted, TxRejected, TryOrphan, AcceptLocal, AcceptUnchecked, NextParent,
             ConnectBlock, vars, orphans
    <2> QED BY <2>1, <2>2, <2>3, <2>4
  <1>3. FewOrphans => OrphansBounded
    BY DEF FewOrphans
  <1> QED BY <1>1, <1>2, <1>3, PTL DEF Spec
============================================================================
