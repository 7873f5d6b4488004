------------------------------ MODULE KeyPool ------------------------------
(***************************************************************************)
(* The wallet's pool of keys made in advance: setKeyPool in memory, the    *)
(* "pool" records of wallet.dat, and the reservation (CReserveKey) that a  *)
(* payment holds from CreateTransaction to CommitTransaction.              *)
(*                                                                         *)
(* Payments of the RPC server, and its getinfo, hold cs_main, so there is  *)
(* one reservation at a time; they give cs_wallet up between reserving a   *)
(* key and keeping or returning it.  The window and the thread started by  *)
(* walletpassphrase take cs_wallet only, so what they do may fall in       *)
(* between.  Keys are numbered in the order they are made.                 *)
(***************************************************************************)
EXTENDS Integers, FiniteSets, FiniteSetsExt

CONSTANTS
    KeyPoolSize,        \* the -keypool option
    MaxKey              \* bound on the keys made

ASSUME KeyPoolAssumption == KeyPoolSize \in Nat /\ MaxKey \in Nat

VARIABLES
    setKeyPool,         \* indices in the pool
    pool,               \* records of wallet.dat: [index -> key]
    nKeys,              \* keys made so far
    fCrypted, fLocked,
    nIndex, vchPubKey,  \* the reservation, -1 if none
    fSigned,            \* the reservation is that of a signed payment
    used,               \* history: keys in an address or a transaction
    nOldKeys,           \* history: keys made before EncryptWallet's NewKeyPool
    renumbered          \* history: keys were numbered from 1 while one was reserved

wallet == <<setKeyPool, pool, nKeys>>
lock == <<fCrypted, fLocked>>
reservation == <<nIndex, vchPubKey, fSigned>>
history == <<used, nOldKeys, renumbered>>
vars == <<wallet, lock, reservation, history>>

None == -1

-----------------------------------------------------------------------------
(* The pool as a record p, so that operations compose. *)

Pool == [set |-> setKeyPool, pool |-> pool, nKeys |-> nKeys]

(* Records first..last hold freshly made keys. *)
WriteFresh(p, first, last) ==
    [set |-> p.set \cup (first..last),
     pool |-> [n \in DOMAIN p.pool \cup (first..last) |->
                 IF n \in first..last THEN p.nKeys + (n - first) + 1 ELSE p.pool[n]],
     nKeys |-> p.nKeys + Cardinality(first..last)]

(* A fault: the record of a used key stays. *)
LeaveRecord(p, n) == p

ErasePool(p, n) == [p EXCEPT !.pool = [k \in DOMAIN @ \ {n} |-> @[k]]]

NextIndex(p) == IF p.set = {} THEN 1 ELSE Max(p.set) + 1

TopUpKeyPool(p) ==
    IF fLocked \/ Cardinality(p.set) >= KeyPoolSize + 1
    THEN p
    ELSE WriteFresh(p, NextIndex(p), NextIndex(p) + KeyPoolSize - Cardinality(p.set))

(* A fault: the oldest index stays in the set. *)
LeaveIndex(p) == p

TakeIndex(p) == [p EXCEPT !.set = @ \ {Min(@)}]

Enough(p) == p.nKeys <= MaxKey

(* Puts p in place of the wallet's pool. *)
Becomes(p) ==
    /\ Enough(p)
    /\ setKeyPool' = p.set
    /\ pool' = p.pool
    /\ nKeys' = p.nKeys

(* TopUpKeyPool finds the set empty because its last index is on reservation,*)
(* and numbers from 1.                                                       *)
TopUpRenumbers == nIndex # None /\ ~fLocked /\ setKeyPool = {}

-----------------------------------------------------------------------------
(* ReserveKeyFromKeyPool for a CReserveKey or for GetOldestKeyPoolTime.  A   *)
(* pool that stays empty (the wallet is locked) gives no reservation.  Only  *)
(* an unlocked wallet signs, so only its payment goes on to KeepKey.         *)
ReserveKey ==
    LET p == TopUpKeyPool(Pool)
    IN  /\ nIndex = None
        /\ p.set # {}
        /\ Min(p.set) \in DOMAIN p.pool
        /\ Becomes(TakeIndex(p))
        /\ nIndex' = Min(p.set)
        /\ vchPubKey' = p.pool[Min(p.set)]
        /\ fSigned' = ~fLocked
        /\ UNCHANGED <<lock, history>>

(* ReadPool finds no record: "ReserveKeyFromKeyPool() : read failed" is      *)
(* thrown, the index is out of the set.                                      *)
ReserveKeyThrows ==
    LET p == TopUpKeyPool(Pool)
    IN  /\ fLocked => nIndex = None
        /\ p.set # {}
        /\ Min(p.set) \notin DOMAIN p.pool
        /\ Becomes(TakeIndex(p))
        /\ renumbered' = (renumbered \/ TopUpRenumbers)
        /\ UNCHANGED <<lock, reservation, used, nOldKeys>>

EndReservation ==
    /\ nIndex' = None
    /\ vchPubKey' = None
    /\ fSigned' = FALSE

(* KeepKey in CommitTransaction. *)
KeepKey ==
    /\ nIndex # None
    /\ fSigned
    /\ Becomes(ErasePool(Pool, nIndex))
    /\ used' = used \cup {vchPubKey}
    /\ EndReservation
    /\ UNCHANGED <<lock, nOldKeys, renumbered>>

(* ReturnKey when the payment needs no change or is given up, and at the end *)
(* of GetOldestKeyPoolTime.                                                  *)
ReturnKey ==
    /\ nIndex # None
    /\ setKeyPool' = setKeyPool \cup {nIndex}
    /\ EndReservation
    /\ UNCHANGED <<pool, nKeys, lock, history>>

(* GetKeyFromPool: a new address.  The window unlocks the wallet for it; the *)
(* callers that do not, hold cs_main.                                        *)
GetKeyFromPool ==
    LET p == TopUpKeyPool(Pool)
        n == Min(p.set)
    IN  /\ fLocked => nIndex = None
        /\ p.set # {}
        /\ n \in DOMAIN p.pool
        /\ Becomes(ErasePool(TakeIndex(p), n))
        /\ used' = used \cup {p.pool[n]}
        /\ renumbered' = (renumbered \/ TopUpRenumbers)
        /\ UNCHANGED <<lock, reservation, nOldKeys>>

(* keypoolrefill, and ThreadTopUpKeyPool, started by walletpassphrase. *)
TopUp ==
    /\ Becomes(TopUpKeyPool(Pool))
    /\ renumbered' = (renumbered \/ TopUpRenumbers)
    /\ UNCHANGED <<lock, reservation, used, nOldKeys>>

(* Lock takes cs_KeyStore and not cs_wallet, so it may fall within a top-up: *)
(* k keys are in the pool when GenerateNewKey throws.                        *)
TopUpCut(k) ==
    LET p == WriteFresh(Pool, NextIndex(Pool), NextIndex(Pool) + k - 1)
    IN  /\ fCrypted
        /\ ~fLocked
        /\ Cardinality(setKeyPool) + k < KeyPoolSize + 1
        /\ fLocked' = TRUE
        /\ renumbered' = (renumbered \/ (k > 0 /\ TopUpRenumbers))
        /\ pool' = p.pool
        /\ nKeys' = p.nKeys
        /\ Enough(p)
        /\ UNCHANGED <<fCrypted, used, nOldKeys>>

(* An RPC call reports the exception.                                        *)
TopUpThrows(k) ==
    /\ TopUpCut(k)
    /\ setKeyPool' = WriteFresh(Pool, NextIndex(Pool), NextIndex(Pool) + k - 1).set
    /\ UNCHANGED reservation

(* In ThreadTopUpKeyPool nothing catches it: the program ends, and starts    *)
(* again.                                                                    *)
TopUpThreadDies(k) ==
    /\ TopUpCut(k)
    /\ setKeyPool' = DOMAIN pool'
    /\ EndReservation

(* A fault: the old records stay. *)
ErasedNone(done) == Pool

(* The first steps of NewKeyPool: the records of the indices in done are     *)
(* erased.                                                                   *)
Erased(done) ==
    [set |-> setKeyPool \ done,
     pool |-> [n \in DOMAIN pool \ done |-> pool[n]],
     nKeys |-> nKeys]

(* EncryptWallet: the keys are encrypted in one database transaction, then   *)
(* NewKeyPool runs on the unlocked wallet, and the wallet is locked.         *)
EncryptWallet ==
    /\ ~fCrypted
    /\ Becomes(WriteFresh(Erased(setKeyPool), 1, KeyPoolSize))
    /\ fCrypted' = TRUE
    /\ fLocked' = TRUE
    /\ nOldKeys' = nKeys
    /\ renumbered' = (renumbered \/ nIndex # None)
    /\ UNCHANGED <<reservation, used>>

(* The program ends within EncryptWallet, after the transaction: some of the *)
(* old records are erased, or all of them and some of the new are written.   *)
EncryptInterrupted ==
    /\ ~fCrypted
    /\ \E k \in 0..KeyPoolSize : \E done \in SUBSET setKeyPool :
         /\ k > 0 => done = setKeyPool
         /\ \A n \in setKeyPool \ done : \A d \in done : d < n
         /\ LET p == WriteFresh(Erased(done), 1, k)
            IN  Becomes([p EXCEPT !.set = DOMAIN p.pool])
    /\ fCrypted' = TRUE
    /\ fLocked' = TRUE
    /\ EndReservation
    /\ UNCHANGED history

Unlock ==
    /\ fLocked
    /\ fLocked' = FALSE
    /\ UNCHANGED <<wallet, fCrypted, reservation, history>>

Lock ==
    /\ fCrypted
    /\ ~fLocked
    /\ fLocked' = TRUE
    /\ UNCHANGED <<wallet, fCrypted, reservation, history>>

(* The program stops, at any time, and comes back: LoadWallet fills the set  *)
(* from the records.                                                         *)
Restart ==
    /\ setKeyPool' = DOMAIN pool
    /\ fLocked' = fCrypted
    /\ EndReservation
    /\ UNCHANGED <<pool, nKeys, fCrypted, history>>

Init ==
    /\ setKeyPool = {}
    /\ pool = [n \in {} |-> 0]
    /\ nKeys = 0
    /\ fCrypted = FALSE
    /\ fLocked = FALSE
    /\ nIndex = None
    /\ vchPubKey = None
    /\ fSigned = FALSE
    /\ used = {}
    /\ nOldKeys = 0
    /\ renumbered = FALSE

Next ==
    \/ ReserveKey
    \/ ReserveKeyThrows
    \/ KeepKey
    \/ ReturnKey
    \/ GetKeyFromPool
    \/ TopUp
    \/ \E k \in 0..KeyPoolSize : TopUpThrows(k)
    \/ \E k \in 0..KeyPoolSize : TopUpThreadDies(k)
    \/ EncryptWallet
    \/ EncryptInterrupted
    \/ Unlock
    \/ Lock
    \/ Restart

Spec == Init /\ [][Next]_vars

-----------------------------------------------------------------------------
(* Indices and keys are in their ranges, and keys in records were made. *)
TypeOK ==
    /\ setKeyPool \subseteq Nat \ {0}
    /\ DOMAIN pool \subseteq Nat \ {0}
    /\ \A n \in DOMAIN pool : pool[n] \in 1..nKeys
    /\ nKeys \in 0..MaxKey
    /\ fLocked \in BOOLEAN
    /\ fCrypted \in BOOLEAN
    /\ nIndex \in Nat \cup {None}
    /\ vchPubKey \in 1..nKeys \cup {None}
    /\ fSigned \in BOOLEAN
    /\ used \subseteq 1..nKeys
    /\ nOldKeys \in 0..nKeys
    /\ renumbered \in BOOLEAN

(* "Take key pair from key pool so it won't be used again": no record of     *)
(* wallet.dat holds a key that is in use, so neither the pool nor the one a  *)
(* restart loads gives it out again; no two records hold one key; and the    *)
(* key of a reservation is in no address or transaction yet.                 *)
KeysUsedOnce ==
    /\ \A n \in DOMAIN pool : pool[n] \notin used
    /\ \A m, n \in DOMAIN pool : pool[m] = pool[n] => m = n
    /\ vchPubKey \notin used

(* The set in memory and the records of wallet.dat differ by the reserved    *)
(* key and nothing else: ReadPool never fails, no record is stranded, and    *)
(* what ReturnKey or a restart puts back is the key that was reserved.  It   *)
(* holds until keys are numbered from 1 while an index is on reservation:    *)
(* by NewKeyPool in EncryptWallet, or by TopUpKeyPool when the wallet was    *)
(* locked, the reserved key was the last one, and it is unlocked.            *)
PoolExact ==
    ~renumbered =>
        /\ nIndex \notin setKeyPool
        /\ DOMAIN pool = setKeyPool \cup ({nIndex} \ {None})
        /\ nIndex # None => pool[nIndex] = vchPubKey

(* After EncryptWallet every key of the pool was made after it, as long as   *)
(* no keys were numbered from 1 while one was reserved.                      *)
PoolRenewed ==
    ~renumbered => \A n \in setKeyPool \cap DOMAIN pool : pool[n] > nOldKeys

============================================================================
