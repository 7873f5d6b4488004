--------------------------- MODULE KeyPoolProofs ---------------------------
(***************************************************************************)
(* For any size of the pool and any number of keys: the fields keep their  *)
(* types, no key is used twice, the set and the records agree, and a pool  *)
(* made by EncryptWallet holds no key that is older.                       *)
(***************************************************************************)
EXTENDS KeyPool, FiniteSetTheorems, WellFoundedInduction, TLAPS

(* A pool: every index is below the number of keys made, and a record holds  *)
(* a key that was made.                                                      *)
IsPool(p) ==
    /\ p = [set |-> p.set, pool |-> p.pool, nKeys |-> p.nKeys]
    /\ p.nKeys \in Nat
    /\ p.set \subseteq 1..p.nKeys
    /\ DOMAIN p.pool \subseteq 1..p.nKeys
    /\ \A n \in DOMAIN p.pool : p.pool[n] \in 1..p.nKeys

(* Records hold different keys, none of them in use; the key v of the        *)
(* reservation of index i may have a record, that of i, while i is not in    *)
(* the set.                                                                  *)
Distinct(p, i, v, u) ==
    /\ \A n \in DOMAIN p.pool : p.pool[n] \notin u
    /\ \A m, n \in DOMAIN p.pool : p.pool[m] = p.pool[n] => m = n
    /\ \A n \in DOMAIN p.pool : p.pool[n] = v => n = i /\ n \notin p.set

(* The records are those of the set and of the reserved index, which is the  *)
(* lowest.                                                                   *)
Exact(p, i, v) ==
    /\ i \notin p.set
    /\ DOMAIN p.pool = p.set \cup ({i} \ {None})
    /\ i # None => p.pool[i] = v
    /\ i # None => \A s \in p.set : i < s

Newer(p, old) == \A n \in DOMAIN p.pool : p.pool[n] > old

(* The inductive invariant. *)
KeyInv ==
    /\ IsPool(Pool)
    /\ nKeys <= MaxKey
    /\ fLocked \in BOOLEAN
    /\ fCrypted \in BOOLEAN
    /\ fSigned \in BOOLEAN
    /\ renumbered \in BOOLEAN
    /\ nIndex \in 1..nKeys \cup {None}
    /\ vchPubKey \in 1..nKeys \cup {None}
    /\ nIndex # None => vchPubKey # None
    /\ used \subseteq 1..nKeys
    /\ nOldKeys \in 0..nKeys
    /\ vchPubKey \notin used
    /\ Distinct(Pool, nIndex, vchPubKey, used)
    /\ ~renumbered => Exact(Pool, nIndex, vchPubKey) /\ Newer(Pool, nOldKeys)

-----------------------------------------------------------------------------
(* The least and the greatest index *)

(* A set of naturals that is not empty has a least element. *)
LEMMA LeastIndex ==
    ASSUME NEW S \in SUBSET Nat, S # {}
    PROVE  \E x \in S : \A y \in S : x <= y
<1> DEFINE R == OpToRel(<, Nat)
<1>1. IsWellFoundedOn(R, Nat)
  BY NatLessThanWellFounded, Zenon
<1>2. \E x \in S : \A y \in S : ~(<<y, x>> \in R)
  <2> HIDE DEF R
  <2> QED BY <1>1, WFMin, Zenon
<1>3. \A x, y \in Nat : x < y => <<x, y>> \in R
  BY DEF OpToRel
<1> HIDE DEF R
<1>4. PICK x \in S : \A y \in S : ~(<<y, x>> \in R)
  BY <1>2
<1>5. ASSUME NEW y \in S PROVE x <= y
  <2>1. ~(y < x)
    BY <1>3, <1>4, Zenon
  <2> QED BY <2>1
<1> QED BY <1>5

(* Min, which ReserveKeyFromKeyPool takes as *setKeyPool.begin(). *)
LEMMA MinIndex ==
    ASSUME NEW S \in SUBSET Nat, S # {}
    PROVE  Min(S) \in S /\ \A y \in S : Min(S) <= y
BY LeastIndex DEF Min

(* Max, which TopUpKeyPool takes as *(--setKeyPool.end()). *)
LEMMA MaxIndex ==
    ASSUME NEW S \in SUBSET Nat, NEW b \in Nat, \A s \in S : s <= b, S # {}
    PROVE  Max(S) \in S /\ \A y \in S : Max(S) >= y
<1> DEFINE T == {n \in Nat : \E s \in S : n = b - s}
<1>1. T # {} /\ T \in SUBSET Nat
  <2>1. PICK s \in S : TRUE
    OBVIOUS
  <2>2. b - s \in T
    BY <2>1
  <2> QED BY <2>2
<1>2. PICK x \in T : \A y \in T : x <= y
  <2> HIDE DEF T
  <2> QED BY <1>1, LeastIndex
<1>3. PICK m \in S : x = b - m
  BY <1>2
<1>4. ASSUME NEW y \in S PROVE m >= y
  <2>1. b - y \in T
    OBVIOUS
  <2>2. x <= b - y
    BY <1>2, <2>1
  <2> QED BY <2>2, <1>3
<1> QED BY <1>3, <1>4 DEF Max

-----------------------------------------------------------------------------
(* The operations on a pool *)

(* Freshly made keys, numbered from first, extend a pool: no key is given    *)
(* twice, whatever records are written over.                                 *)
LEMMA FreshPool ==
    ASSUME NEW p, IsPool(p), NEW first \in 1..(p.nKeys + 1), NEW last \in Int,
           last >= first - 1,
           NEW i \in Int, NEW v \in Int, v <= p.nKeys, NEW u \in SUBSET (1..p.nKeys)
    PROVE  LET q == WriteFresh(p, first, last)
           IN  /\ IsPool(q)
               /\ q.nKeys = p.nKeys + (last - first + 1)
               /\ q.set = p.set \cup (first..last)
               /\ Distinct(p, i, v, u) => Distinct(q, i, v, u)
               /\ Exact(p, i, v) /\ (i # None => i < first) => Exact(q, i, v)
               /\ \A old \in 0..p.nKeys : Newer(p, old) => Newer(q, old)
<1> DEFINE q == WriteFresh(p, first, last)
<1>1. Cardinality(first..last) = last - first + 1
  <2>1. /\ IsFiniteSet(first..last)
        /\ Cardinality(first..last) = IF first > last THEN 0 ELSE last - first + 1
    BY FS_Interval
  <2> QED BY <2>1
<1>2. /\ q = [set |-> q.set, pool |-> q.pool, nKeys |-> q.nKeys]
      /\ q.set = p.set \cup (first..last)
      /\ DOMAIN q.pool = DOMAIN p.pool \cup (first..last)
      /\ \A n \in first..last : q.pool[n] = p.nKeys + (n - first) + 1
      /\ \A n \in DOMAIN p.pool \ (first..last) : q.pool[n] = p.pool[n]
      /\ q.nKeys = p.nKeys + (last - first + 1)
  BY <1>1 DEF WriteFresh
<1> HIDE DEF q
<1>3. p.nKeys \in Nat /\ q.nKeys \in Nat
  BY <1>2 DEF IsPool
<1>4. ASSUME NEW n \in first..last
      PROVE  q.pool[n] \in (p.nKeys + 1)..q.nKeys
  BY <1>2, <1>3
<1>5. ASSUME NEW n \in DOMAIN q.pool, n \notin first..last
      PROVE  /\ n \in DOMAIN p.pool
             /\ q.pool[n] = p.pool[n]
             /\ q.pool[n] \in 1..p.nKeys
  BY <1>2, <1>5 DEF IsPool
<1>6. IsPool(q)
  <2>1. \A n \in first..last : n \in 1..q.nKeys
    BY <1>2, <1>3
  <2>2. \A n \in 1..p.nKeys : n \in 1..q.nKeys
    BY <1>2, <1>3
  <2>3. q.set \subseteq 1..q.nKeys /\ DOMAIN q.pool \subseteq 1..q.nKeys
    BY <2>1, <2>2, <1>2 DEF IsPool
  <2>4. \A n \in DOMAIN q.pool : q.pool[n] \in 1..q.nKeys
    BY <1>3, <1>4, <1>5, <2>2
  <2> QED BY <1>2, <1>3, <2>3, <2>4 DEF IsPool
<1>7. ASSUME Distinct(p, i, v, u) PROVE Distinct(q, i, v, u)
  <2>1. ASSUME NEW n \in DOMAIN q.pool PROVE q.pool[n] \notin u
    BY <1>3, <1>4, <1>5, <1>7, <2>1 DEF Distinct
  <2>2. ASSUME NEW m \in DOMAIN q.pool, NEW n \in DOMAIN q.pool, q.pool[m] = q.pool[n]
        PROVE  m = n
    <3>1. CASE m \in first..last /\ n \in first..last
      BY <1>2, <1>3, <2>2, <3>1
    <3>2. CASE m \notin first..last /\ n \notin first..last
      BY <1>5, <1>7, <2>2, <3>2 DEF Distinct
    <3>3. CASE ~(m \in first..last <=> n \in first..last)
      BY <1>3, <1>4, <1>5, <2>2, <3>3
    <3> QED BY <3>1, <3>2, <3>3
  <2>3. ASSUME NEW n \in DOMAIN q.pool, q.pool[n] = v
        PROVE  n = i /\ n \notin q.set
    <3>1. n \notin first..last
      BY <1>3, <1>4, <2>3
    <3>2. n \in DOMAIN p.pool /\ p.pool[n] = v
      BY <1>5, <2>3, <3>1
    <3> QED BY <1>2, <1>7, <3>1, <3>2 DEF Distinct
  <2> QED BY <2>1, <2>2, <2>3 DEF Distinct
<1>8. ASSUME Exact(p, i, v), i # None => i < first PROVE Exact(q, i, v)
  <2>1. CASE i = None
    BY <1>2, <1>8, <2>1 DEF Exact, None
  <2>2. CASE i # None
    <3>1. i \notin first..last
      BY <1>8, <2>2
    <3>2. i \in DOMAIN p.pool /\ p.pool[i] = v
      BY <1>8, <2>2 DEF Exact
    <3>3. q.pool[i] = v
      BY <1>2, <3>1, <3>2
    <3>4. \A s \in q.set : i < s
      BY <1>2, <1>8, <2>2 DEF Exact
    <3>5. i \notin q.set /\ DOMAIN q.pool = q.set \cup ({i} \ {None})
      BY <1>2, <1>8, <3>1 DEF Exact
    <3> QED BY <3>3, <3>4, <3>5 DEF Exact
  <2> QED BY <2>1, <2>2
<1>9. ASSUME NEW old \in 0..p.nKeys, Newer(p, old) PROVE Newer(q, old)
  BY <1>3, <1>4, <1>5, <1>9 DEF Newer
<1> QED BY <1>2, <1>6, <1>7, <1>8, <1>9 DEF q

(* Where TopUpKeyPool starts numbering. *)
LEMMA NextIndexRange ==
    ASSUME NEW p, IsPool(p)
    PROVE  /\ NextIndex(p) \in 1..(p.nKeys + 1)
           /\ \A s \in p.set : s < NextIndex(p)
           /\ IsFiniteSet(p.set)
           /\ Cardinality(p.set) \in Nat
<1>1. p.nKeys \in Nat /\ p.set \in SUBSET Nat /\ \A s \in p.set : s \in 1..p.nKeys
  BY DEF IsPool
<1>2. \A s \in p.set : s <= p.nKeys
  BY <1>1
<1>3. IsFiniteSet(p.set)
  BY <1>1, <1>2, FS_BoundedSetOfNaturals
<1>4. Cardinality(p.set) \in Nat
  BY <1>3, FS_CardinalityType
<1>5. CASE p.set = {}
  BY <1>1, <1>3, <1>4, <1>5 DEF NextIndex
<1>6. CASE p.set # {}
  <2>1. Max(p.set) \in p.set /\ \A y \in p.set : Max(p.set) >= y
    BY <1>1, <1>2, <1>6, MaxIndex
  <2>2. Max(p.set) \in 1..p.nKeys /\ NextIndex(p) = Max(p.set) + 1
    BY <1>1, <1>6, <2>1 DEF NextIndex
  <2>3. \A s \in p.set : s \in Nat /\ s < Max(p.set) + 1
    BY <1>1, <2>1, <2>2
  <2> QED BY <1>1, <1>3, <1>4, <2>2, <2>3
<1> QED BY <1>5, <1>6

(* TopUpKeyPool.  The set and the records keep agreeing unless it numbers    *)
(* from 1 while an index is on reservation.                                  *)
LEMMA ToppedUp ==
    ASSUME NEW p, IsPool(p), fLocked \in BOOLEAN,
           NEW i \in Int, NEW v \in Int, v <= p.nKeys, NEW u \in SUBSET (1..p.nKeys)
    PROVE  LET q == TopUpKeyPool(p)
           IN  /\ IsPool(q)
               /\ q.nKeys >= p.nKeys
               /\ Distinct(p, i, v, u) => Distinct(q, i, v, u)
               /\ Exact(p, i, v) /\ ~(i # None /\ ~fLocked /\ p.set = {}) => Exact(q, i, v)
               /\ \A old \in 0..p.nKeys : Newer(p, old) => Newer(q, old)
<1> DEFINE first == NextIndex(p)
           last == NextIndex(p) + KeyPoolSize - Cardinality(p.set)
<1>1. p.nKeys \in Nat
  BY DEF IsPool
<1>2. CASE fLocked \/ Cardinality(p.set) >= KeyPoolSize + 1
  <2>1. TopUpKeyPool(p) = p
    BY <1>2 DEF TopUpKeyPool
  <2> QED BY <1>1, <2>1
<1>3. CASE ~(fLocked \/ Cardinality(p.set) >= KeyPoolSize + 1)
  <2>1. TopUpKeyPool(p) = WriteFresh(p, first, last)
    BY <1>3 DEF TopUpKeyPool
  <2>2. /\ first \in 1..(p.nKeys + 1)
        /\ \A s \in p.set : s < first
        /\ Cardinality(p.set) \in Nat
    BY NextIndexRange
  <2>3. last \in Int /\ last >= first - 1
    BY <1>1, <1>3, <2>2, KeyPoolAssumption
  <2>4. ASSUME Exact(p, i, v), ~(i # None /\ ~fLocked /\ p.set = {}), i # None
        PROVE  i < first
    <3>1. PICK s \in p.set : TRUE
      BY <1>3, <2>4
    <3>2. i < s /\ s < first /\ s \in Int
      BY <2>2, <2>4, <3>1 DEF Exact, IsPool
    <3> QED BY <3>2, <2>2
  <2> HIDE DEF first, last
  <2>5. LET q == WriteFresh(p, first, last)
        IN  /\ IsPool(q)
            /\ q.nKeys = p.nKeys + (last - first + 1)
            /\ Distinct(p, i, v, u) => Distinct(q, i, v, u)
            /\ Exact(p, i, v) /\ (i # None => i < first) => Exact(q, i, v)
            /\ \A old \in 0..p.nKeys : Newer(p, old) => Newer(q, old)
    BY <2>2, <2>3, FreshPool
  <2>6. WriteFresh(p, first, last).nKeys >= p.nKeys
    BY <1>1, <2>2, <2>3, <2>5
  <2> QED BY <2>1, <2>4, <2>5, <2>6
<1> QED BY <1>2, <1>3

(* The oldest index is taken from the set. *)
LEMMA IndexTaken ==
    ASSUME NEW p, IsPool(p), p.set # {}
    PROVE  LET q == TakeIndex(p)
               n == Min(p.set)
           IN  /\ n \in p.set
               /\ \A s \in p.set : n <= s
               /\ n \in 1..p.nKeys
               /\ IsPool(q)
               /\ q.set = p.set \ {n}
               /\ q.pool = p.pool
               /\ q.nKeys = p.nKeys
<1>1. p.set \in SUBSET Nat
  BY DEF IsPool
<1>2. Min(p.set) \in p.set /\ \A s \in p.set : Min(p.set) <= s
  BY <1>1, MinIndex
<1> DEFINE q == TakeIndex(p)
<1>3. /\ q = [set |-> q.set, pool |-> q.pool, nKeys |-> q.nKeys]
      /\ q.set = p.set \ {Min(p.set)}
      /\ q.pool = p.pool
      /\ q.nKeys = p.nKeys
  BY DEF TakeIndex, IsPool
<1> HIDE DEF q
<1>4. IsPool(q)
  BY <1>3 DEF IsPool
<1> QED BY <1>2, <1>3, <1>4 DEF q, IsPool

(* A record is erased. *)
LEMMA RecordErased ==
    ASSUME NEW p, IsPool(p), NEW n
    PROVE  LET q == ErasePool(p, n)
           IN  /\ IsPool(q)
               /\ q.set = p.set
               /\ DOMAIN q.pool = DOMAIN p.pool \ {n}
               /\ \A k \in DOMAIN q.pool : q.pool[k] = p.pool[k]
               /\ q.nKeys = p.nKeys
<1> DEFINE q == ErasePool(p, n)
<1>1. /\ q = [set |-> q.set, pool |-> q.pool, nKeys |-> q.nKeys]
      /\ q.set = p.set
      /\ q.pool = [k \in DOMAIN p.pool \ {n} |-> p.pool[k]]
      /\ q.nKeys = p.nKeys
  BY DEF ErasePool, IsPool
<1> HIDE DEF q
<1>2. /\ DOMAIN q.pool = DOMAIN p.pool \ {n}
      /\ \A k \in DOMAIN q.pool : q.pool[k] = p.pool[k]
  BY <1>1
<1>3. IsPool(q)
  BY <1>1, <1>2 DEF IsPool
<1> QED BY <1>1, <1>2, <1>3 DEF q

(* Records of indices of the set are erased by NewKeyPool. *)
LEMMA PoolErased ==
    ASSUME IsPool(Pool), NEW done
    PROVE  LET q == Erased(done)
           IN  /\ IsPool(q)
               /\ q.set = setKeyPool \ done
               /\ DOMAIN q.pool = DOMAIN pool \ done
               /\ \A k \in DOMAIN q.pool : q.pool[k] = pool[k]
               /\ q.nKeys = nKeys
<1> DEFINE q == Erased(done)
<1>1. /\ q = [set |-> q.set, pool |-> q.pool, nKeys |-> q.nKeys]
      /\ q.set = setKeyPool \ done
      /\ q.pool = [k \in DOMAIN pool \ done |-> pool[k]]
      /\ q.nKeys = nKeys
  BY DEF Erased
<1>0. Pool.set = setKeyPool /\ Pool.pool = pool /\ Pool.nKeys = nKeys
  BY DEF Pool
<1> HIDE DEF q
<1>2. /\ DOMAIN q.pool = DOMAIN pool \ done
      /\ \A k \in DOMAIN q.pool : q.pool[k] = pool[k]
  BY <1>1
<1>3. IsPool(q)
  BY <1>0, <1>1, <1>2 DEF IsPool
<1> QED BY <1>1, <1>2, <1>3 DEF q

-----------------------------------------------------------------------------
(* The steps *)

(* What Becomes assigns. *)
LEMMA BecomesPool ==
    ASSUME NEW p, IsPool(p), Becomes(p)
    PROVE  Pool' = p /\ nKeys' = p.nKeys /\ nKeys' <= MaxKey
BY DEF Becomes, Enough, IsPool, Pool

(* The wallet's pool after a top-up, in a state of the invariant. *)
LEMMA ToppedUpInv ==
    ASSUME KeyInv
    PROVE  LET q == TopUpKeyPool(Pool)
           IN  /\ IsPool(q)
               /\ nKeys \in Nat
               /\ q.nKeys \in Nat
               /\ q.nKeys >= nKeys
               /\ Distinct(q, nIndex, vchPubKey, used)
               /\ ~renumbered /\ ~TopUpRenumbers => Exact(q, nIndex, vchPubKey)
               /\ ~renumbered => Newer(q, nOldKeys)
<1>1. Pool.set = setKeyPool /\ Pool.nKeys = nKeys
  BY DEF Pool
<1>2. /\ IsPool(Pool) /\ nKeys \in Nat /\ fLocked \in BOOLEAN
      /\ nIndex \in Int /\ vchPubKey \in Int /\ vchPubKey <= Pool.nKeys
      /\ used \in SUBSET (1..Pool.nKeys) /\ nOldKeys \in 0..Pool.nKeys
  BY <1>1 DEF KeyInv, IsPool, None
<1>3. LET q == TopUpKeyPool(Pool)
      IN  /\ IsPool(q)
          /\ q.nKeys >= Pool.nKeys
          /\ Distinct(Pool, nIndex, vchPubKey, used) => Distinct(q, nIndex, vchPubKey, used)
          /\ Exact(Pool, nIndex, vchPubKey) /\ ~(nIndex # None /\ ~fLocked /\ Pool.set = {})
               => Exact(q, nIndex, vchPubKey)
          /\ \A old \in 0..Pool.nKeys : Newer(Pool, old) => Newer(q, old)
  BY <1>2, ToppedUp
<1>4. TopUpKeyPool(Pool).nKeys \in Nat
  BY <1>3 DEF IsPool
<1> QED BY <1>1, <1>2, <1>3, <1>4 DEF KeyInv, TopUpRenumbers

(* ReserveKey: the reserved index is the lowest, and its key is in no other  *)
(* record.                                                                   *)
LEMMA ReserveKeyInv == KeyInv /\ ReserveKey => KeyInv'
<1> SUFFICES ASSUME KeyInv, ReserveKey PROVE KeyInv'
  OBVIOUS
<1> DEFINE p == TopUpKeyPool(Pool)
           q == TakeIndex(p)
           n == Min(p.set)
<1>1. /\ nIndex = None /\ p.set # {} /\ n \in DOMAIN p.pool /\ Becomes(q)
      /\ nIndex' = n /\ vchPubKey' = p.pool[n] /\ fSigned' = ~fLocked
      /\ UNCHANGED <<fCrypted, fLocked, used, nOldKeys, renumbered>>
  BY DEF ReserveKey, lock, history
<1>2. /\ IsPool(p) /\ nKeys \in Nat /\ p.nKeys \in Nat /\ p.nKeys >= nKeys
      /\ Distinct(p, nIndex, vchPubKey, used)
      /\ ~renumbered => Exact(p, nIndex, vchPubKey)
      /\ ~renumbered => Newer(p, nOldKeys)
  BY <1>1, ToppedUpInv DEF TopUpRenumbers
<1> HIDE DEF p
<1>3. /\ n \in p.set /\ (\A s \in p.set : n <= s) /\ n \in 1..p.nKeys
      /\ IsPool(q) /\ q.set = p.set \ {n} /\ q.pool = p.pool /\ q.nKeys = p.nKeys
  BY <1>1, <1>2, IndexTaken
<1> HIDE DEF q, n
<1>4. Pool' = q /\ nKeys' = p.nKeys /\ nKeys' <= MaxKey
  BY <1>1, <1>3, BecomesPool
<1>5. p.pool[n] \in 1..p.nKeys /\ p.pool[n] \notin used
  BY <1>1, <1>2 DEF IsPool, Distinct
<1>6. Distinct(q, n, p.pool[n], used)
  BY <1>1, <1>2, <1>3 DEF Distinct
<1>7. ASSUME ~renumbered PROVE Exact(q, n, p.pool[n]) /\ Newer(q, nOldKeys)
  <2>1. DOMAIN p.pool = p.set
    BY <1>1, <1>2, <1>7 DEF Exact
  <2>2. \A s \in q.set : n < s
    <3>1. \A s \in p.set : s \in Int
      BY <1>2 DEF IsPool
    <3> QED BY <1>3, <3>1
  <2>3. n # None
    BY <1>2, <1>3 DEF None
  <2> QED BY <1>2, <1>3, <1>7, <2>1, <2>2, <2>3 DEF Exact, Newer
<1>8. /\ nKeys' \in Nat /\ used \subseteq 1..nKeys' /\ nOldKeys \in 0..nKeys'
      /\ nIndex' \in 1..nKeys' /\ vchPubKey' \in 1..nKeys' /\ vchPubKey' # None
  BY <1>1, <1>2, <1>3, <1>4, <1>5 DEF KeyInv, None
<1>9. fLocked' \in BOOLEAN /\ fCrypted' \in BOOLEAN /\ fSigned' \in BOOLEAN /\ renumbered' \in BOOLEAN
  BY <1>1 DEF KeyInv
<1> QED BY <1>1, <1>3, <1>4, <1>5, <1>6, <1>7, <1>8, <1>9 DEF KeyInv

(* ReserveKeyThrows: only keys numbered from 1 while one was reserved leave  *)
(* an index of the set without a record.                                     *)
LEMMA ReserveKeyThrowsInv == KeyInv /\ ReserveKeyThrows => KeyInv'
<1> SUFFICES ASSUME KeyInv, ReserveKeyThrows PROVE KeyInv'
  OBVIOUS
<1> DEFINE p == TopUpKeyPool(Pool)
           q == TakeIndex(p)
           n == Min(p.set)
<1>1. /\ p.set # {} /\ n \notin DOMAIN p.pool /\ Becomes(q)
      /\ renumbered' = (renumbered \/ TopUpRenumbers)
      /\ UNCHANGED <<fCrypted, fLocked, nIndex, vchPubKey, fSigned, used, nOldKeys>>
  BY DEF ReserveKeyThrows, lock, reservation
<1>2. /\ IsPool(p) /\ nKeys \in Nat /\ p.nKeys \in Nat /\ p.nKeys >= nKeys
      /\ Distinct(p, nIndex, vchPubKey, used)
      /\ ~renumbered /\ ~TopUpRenumbers => Exact(p, nIndex, vchPubKey)
  BY ToppedUpInv
<1> HIDE DEF p
<1>3. /\ n \in p.set /\ IsPool(q)
      /\ q.set = p.set \ {n} /\ q.pool = p.pool /\ q.nKeys = p.nKeys
  BY <1>1, <1>2, IndexTaken
<1> HIDE DEF q, n
<1>4. Pool' = q /\ nKeys' = p.nKeys /\ nKeys' <= MaxKey
  BY <1>1, <1>3, BecomesPool
<1>5. Distinct(q, nIndex, vchPubKey, used)
  BY <1>2, <1>3 DEF Distinct
<1>6. renumbered' = TRUE
  <2>1. ~(~renumbered /\ ~TopUpRenumbers)
    BY <1>1, <1>2, <1>3 DEF Exact
  <2> QED BY <1>1, <2>1 DEF KeyInv
<1>7. /\ nKeys' \in Nat /\ used \subseteq 1..nKeys' /\ nOldKeys \in 0..nKeys'
      /\ nIndex \in 1..nKeys' \cup {None} /\ vchPubKey \in 1..nKeys' \cup {None}
  BY <1>2, <1>4 DEF KeyInv
<1> QED BY <1>1, <1>3, <1>4, <1>5, <1>6, <1>7 DEF KeyInv

(* GetKeyFromPool: the key of the new address is not the reserved one, and   *)
(* its record is gone.                                                       *)
LEMMA GetKeyFromPoolInv == KeyInv /\ GetKeyFromPool => KeyInv'
<1> SUFFICES ASSUME KeyInv, GetKeyFromPool PROVE KeyInv'
  OBVIOUS
<1> DEFINE p == TopUpKeyPool(Pool)
           n == Min(p.set)
           r == TakeIndex(p)
           q == ErasePool(r, n)
<1>1. /\ p.set # {} /\ n \in DOMAIN p.pool /\ Becomes(q)
      /\ used' = used \cup {p.pool[n]}
      /\ renumbered' = (renumbered \/ TopUpRenumbers)
      /\ UNCHANGED <<fCrypted, fLocked, nIndex, vchPubKey, fSigned, nOldKeys>>
  BY DEF GetKeyFromPool, lock, reservation
<1>2. /\ IsPool(p) /\ nKeys \in Nat /\ p.nKeys \in Nat /\ p.nKeys >= nKeys
      /\ Distinct(p, nIndex, vchPubKey, used)
      /\ ~renumbered /\ ~TopUpRenumbers => Exact(p, nIndex, vchPubKey)
      /\ ~renumbered => Newer(p, nOldKeys)
  BY ToppedUpInv
<1> HIDE DEF p
<1>3. /\ n \in p.set /\ IsPool(r)
      /\ r.set = p.set \ {n} /\ r.pool = p.pool /\ r.nKeys = p.nKeys
  BY <1>1, <1>2, IndexTaken
<1> HIDE DEF r, n
<1>4. /\ IsPool(q) /\ q.set = p.set \ {n} /\ DOMAIN q.pool = DOMAIN p.pool \ {n}
      /\ (\A k \in DOMAIN q.pool : q.pool[k] = p.pool[k]) /\ q.nKeys = p.nKeys
  BY <1>3, RecordErased
<1> HIDE DEF q
<1>5. Pool' = q /\ nKeys' = p.nKeys /\ nKeys' <= MaxKey
  BY <1>1, <1>4, BecomesPool
<1>6. p.pool[n] \in 1..p.nKeys /\ p.pool[n] # vchPubKey
  BY <1>1, <1>2, <1>3 DEF IsPool, Distinct
<1>7. Distinct(q, nIndex, vchPubKey, used')
  <2>1. \A k \in DOMAIN q.pool : k \in DOMAIN p.pool /\ q.pool[k] = p.pool[k] /\ k # n
    BY <1>4
  <2>2. \A k \in DOMAIN q.pool : q.pool[k] \notin used'
    BY <1>1, <1>2, <2>1 DEF Distinct
  <2> QED BY <1>2, <1>4, <2>1, <2>2 DEF Distinct
<1>8. ASSUME ~renumbered' PROVE Exact(q, nIndex, vchPubKey) /\ Newer(q, nOldKeys)
  <2>1. Exact(p, nIndex, vchPubKey) /\ Newer(p, nOldKeys)
    BY <1>1, <1>2, <1>8
  <2>2. n # nIndex /\ n \in p.set
    BY <1>3, <2>1 DEF Exact
  <2> QED BY <1>4, <2>1, <2>2 DEF Exact, Newer
<1>9. /\ nKeys' \in Nat /\ used' \subseteq 1..nKeys' /\ nOldKeys \in 0..nKeys'
      /\ nIndex \in 1..nKeys' \cup {None} /\ vchPubKey \in 1..nKeys' \cup {None}
      /\ vchPubKey \notin used'
  <2>1. /\ used \subseteq 1..nKeys /\ nOldKeys \in 0..nKeys /\ vchPubKey \notin used
        /\ nIndex \in 1..nKeys \cup {None} /\ vchPubKey \in 1..nKeys \cup {None}
    BY DEF KeyInv
  <2>2. used' = used \cup {p.pool[n]}
    BY <1>1
  <2>3. \A k \in Int : k \in 1..nKeys => k \in 1..nKeys'
    BY <1>2, <1>5
  <2>4. nOldKeys \in 0..nKeys'
    BY <1>2, <1>5, <2>1
  <2>5. used' \subseteq 1..nKeys'
    <3>1. p.pool[n] \in 1..nKeys'
      BY <1>5, <1>6
    <3>2. \A k \in used : k \in 1..nKeys'
      BY <2>1, <2>3
    <3> QED BY <2>2, <3>1, <3>2, Zenon
  <2>6. vchPubKey \notin used'
    BY <1>6, <2>1, <2>2
  <2> QED BY <1>2, <1>5, <2>1, <2>3, <2>4, <2>5, <2>6
<1>10. renumbered' \in BOOLEAN
  <2>1. renumbered \in BOOLEAN
    BY DEF KeyInv
  <2>2. TopUpRenumbers \in BOOLEAN
    BY Zenon DEF TopUpRenumbers
  <2> QED BY <1>1, <2>1, <2>2, Zenon
<1> QED BY <1>1, <1>4, <1>5, <1>7, <1>8, <1>9, <1>10 DEF KeyInv

(* KeepKey: the one record that may hold the reserved key is erased. *)
LEMMA KeepKeyInv == KeyInv /\ KeepKey => KeyInv'
<1> SUFFICES ASSUME KeyInv, KeepKey PROVE KeyInv'
  OBVIOUS
<1> DEFINE q == ErasePool(Pool, nIndex)
<1>1. /\ nIndex # None /\ Becomes(q) /\ used' = used \cup {vchPubKey}
      /\ nIndex' = None /\ vchPubKey' = None /\ fSigned' = FALSE
      /\ UNCHANGED <<fCrypted, fLocked, nOldKeys, renumbered>>
  BY DEF KeepKey, EndReservation, lock
<1>2. Pool.set = setKeyPool /\ Pool.pool = pool /\ Pool.nKeys = nKeys /\ nKeys \in Nat
  BY DEF Pool, KeyInv, IsPool
<1>3. /\ IsPool(q) /\ q.set = Pool.set /\ DOMAIN q.pool = DOMAIN Pool.pool \ {nIndex}
      /\ (\A k \in DOMAIN q.pool : q.pool[k] = Pool.pool[k]) /\ q.nKeys = nKeys
  BY <1>2, RecordErased DEF KeyInv
<1> HIDE DEF q
<1>4. Pool' = q /\ nKeys' = nKeys /\ nKeys' <= MaxKey
  BY <1>1, <1>3, BecomesPool
<1>5. Distinct(q, None, None, used')
  <2>1. \A k \in DOMAIN q.pool :
          /\ k \in DOMAIN Pool.pool /\ q.pool[k] = Pool.pool[k] /\ k # nIndex
          /\ q.pool[k] \in 1..nKeys
    BY <1>2, <1>3 DEF KeyInv, IsPool
  <2>2. \A k \in DOMAIN q.pool : q.pool[k] \notin used'
    BY <1>1, <2>1 DEF KeyInv, Distinct
  <2>3. \A k \in DOMAIN q.pool : q.pool[k] # None
    BY <1>2, <2>1 DEF None
  <2> QED BY <2>1, <2>2, <2>3 DEF KeyInv, Distinct
<1>6. ASSUME ~renumbered PROVE Exact(q, None, None) /\ Newer(q, nOldKeys)
  <2>1. Exact(Pool, nIndex, vchPubKey) /\ Newer(Pool, nOldKeys)
    BY <1>6 DEF KeyInv
  <2>2. DOMAIN q.pool = q.set
    BY <1>1, <1>3, <2>1 DEF Exact
  <2>3. None \notin q.set
    BY <1>3 DEF IsPool, None
  <2>4. Newer(q, nOldKeys)
    BY <1>3, <2>1 DEF Newer
  <2> QED BY <2>2, <2>3, <2>4 DEF Exact
<1>7. used' \subseteq 1..nKeys /\ None \notin used'
  BY <1>1, <1>2 DEF KeyInv, None
<1> QED BY <1>1, <1>3, <1>4, <1>5, <1>6, <1>7 DEF KeyInv

(* TopUp: TopUpKeyPool on its own. *)
LEMMA TopUpInv == KeyInv /\ TopUp => KeyInv'
<1> SUFFICES ASSUME KeyInv, TopUp PROVE KeyInv'
  OBVIOUS
<1> DEFINE p == TopUpKeyPool(Pool)
<1>1. /\ Becomes(p) /\ renumbered' = (renumbered \/ TopUpRenumbers)
      /\ UNCHANGED <<fCrypted, fLocked, nIndex, vchPubKey, fSigned, used, nOldKeys>>
  BY DEF TopUp, lock, reservation
<1>2. /\ IsPool(p) /\ nKeys \in Nat /\ p.nKeys \in Nat /\ p.nKeys >= nKeys
      /\ Distinct(p, nIndex, vchPubKey, used)
      /\ ~renumbered /\ ~TopUpRenumbers => Exact(p, nIndex, vchPubKey)
      /\ ~renumbered => Newer(p, nOldKeys)
  BY ToppedUpInv
<1> HIDE DEF p
<1>3. Pool' = p /\ nKeys' = p.nKeys /\ nKeys' <= MaxKey
  BY <1>1, <1>2, BecomesPool
<1>4. renumbered' \in BOOLEAN
  <2>1. renumbered \in BOOLEAN
    BY DEF KeyInv
  <2>2. TopUpRenumbers \in BOOLEAN
    BY Zenon DEF TopUpRenumbers
  <2> QED BY <1>1, <2>1, <2>2, Zenon
<1>5. ASSUME ~renumbered' PROVE Exact(p, nIndex, vchPubKey) /\ Newer(p, nOldKeys)
  BY <1>1, <1>2, <1>5
<1>6. /\ nKeys' \in Nat /\ used \subseteq 1..nKeys' /\ nOldKeys \in 0..nKeys'
      /\ nIndex \in 1..nKeys' \cup {None} /\ vchPubKey \in 1..nKeys' \cup {None}
  BY <1>2, <1>3 DEF KeyInv
<1> QED BY <1>1, <1>2, <1>3, <1>4, <1>5, <1>6 DEF KeyInv

(* A program that starts finds the indices of the records in its set and no  *)
(* reservation.                                                              *)
LEMMA Restarted ==
    ASSUME NEW p, IsPool(p), NEW i, NEW v, NEW u, Distinct(p, i, v, u)
    PROVE  LET q == [set |-> DOMAIN p.pool, pool |-> p.pool, nKeys |-> p.nKeys]
           IN  /\ IsPool(q)
               /\ Distinct(q, None, None, u)
               /\ Exact(q, None, None)
               /\ \A old : Newer(p, old) => Newer(q, old)
<1> DEFINE q == [set |-> DOMAIN p.pool, pool |-> p.pool, nKeys |-> p.nKeys]
<1>1. /\ q = [set |-> q.set, pool |-> q.pool, nKeys |-> q.nKeys]
      /\ q.set = DOMAIN p.pool /\ q.pool = p.pool /\ q.nKeys = p.nKeys
  OBVIOUS
<1> HIDE DEF q
<1>2. IsPool(q)
  BY <1>1 DEF IsPool
<1>3. None \notin DOMAIN p.pool /\ \A n \in DOMAIN p.pool : p.pool[n] # None
  BY DEF IsPool, None
<1>4. Distinct(q, None, None, u) /\ Exact(q, None, None)
  BY <1>1, <1>3 DEF Distinct, Exact
<1>5. \A old : Newer(p, old) => Newer(q, old)
  BY <1>1 DEF Newer
<1> QED BY <1>2, <1>4, <1>5 DEF q

(* A top-up cut short leaves k fresh keys. *)
LEMMA CutPool ==
    ASSUME KeyInv, NEW k \in 0..KeyPoolSize
    PROVE  LET p == WriteFresh(Pool, NextIndex(Pool), NextIndex(Pool) + k - 1)
           IN  /\ IsPool(p)
               /\ nKeys \in Nat
               /\ p.nKeys = nKeys + k
               /\ Distinct(p, nIndex, vchPubKey, used)
               /\ ~renumbered /\ ~(k > 0 /\ nIndex # None /\ setKeyPool = {})
                    => Exact(p, nIndex, vchPubKey)
               /\ ~renumbered => Newer(p, nOldKeys)
<1> DEFINE first == NextIndex(Pool)
           last == NextIndex(Pool) + k - 1
           p == WriteFresh(Pool, first, last)
<1>1. Pool.set = setKeyPool /\ Pool.pool = pool /\ Pool.nKeys = nKeys
  BY DEF Pool
<1>2. /\ IsPool(Pool) /\ nKeys \in Nat
      /\ nIndex \in Int /\ vchPubKey \in Int /\ vchPubKey <= Pool.nKeys
      /\ used \in SUBSET (1..Pool.nKeys) /\ nOldKeys \in 0..Pool.nKeys
  BY <1>1 DEF KeyInv, IsPool, None
<1>3. first \in 1..(Pool.nKeys + 1) /\ \A s \in Pool.set : s < first
  BY <1>2, NextIndexRange
<1>4. k \in Nat /\ last \in Int /\ last >= first - 1 /\ last - first + 1 = k
  BY <1>1, <1>2, <1>3, KeyPoolAssumption
<1> HIDE DEF first, last
<1>5. /\ IsPool(p) /\ p.nKeys = Pool.nKeys + (last - first + 1)
      /\ p.set = Pool.set \cup (first..last)
      /\ Distinct(Pool, nIndex, vchPubKey, used) => Distinct(p, nIndex, vchPubKey, used)
      /\ Exact(Pool, nIndex, vchPubKey) /\ (nIndex # None => nIndex < first)
           => Exact(p, nIndex, vchPubKey)
      /\ \A old \in 0..Pool.nKeys : Newer(Pool, old) => Newer(p, old)
  BY <1>2, <1>3, <1>4, FreshPool
<1>6. ASSUME ~renumbered, ~(k > 0 /\ nIndex # None /\ setKeyPool = {})
      PROVE  Exact(p, nIndex, vchPubKey)
  <2>1. Exact(Pool, nIndex, vchPubKey)
    BY <1>6 DEF KeyInv
  <2>2. CASE nIndex = None
    BY <1>5, <2>1, <2>2
  <2>3. CASE nIndex # None /\ setKeyPool # {}
    <3>1. PICK s \in Pool.set : TRUE
      BY <1>1, <2>3
    <3>2. nIndex < s /\ s < first /\ s \in Int
      BY <1>2, <1>3, <2>1, <2>3, <3>1 DEF Exact, IsPool
    <3>3. nIndex < first
      BY <1>2, <1>3, <3>2
    <3> QED BY <1>5, <2>1, <3>3
  <2>4. CASE nIndex # None /\ setKeyPool = {}
    <3>1. k = 0 /\ first..last = {}
      BY <1>3, <1>4, <1>6, <2>4
    <3>2. /\ p.set = Pool.set
          /\ p.pool = [n \in DOMAIN Pool.pool |-> Pool.pool[n]]
      BY <3>1 DEF WriteFresh
    <3>3. DOMAIN p.pool = DOMAIN Pool.pool /\ \A n \in DOMAIN Pool.pool : p.pool[n] = Pool.pool[n]
      BY <3>2
    <3> HIDE DEF p
    <3> QED BY <2>1, <3>2, <3>3 DEF Exact
  <2> QED BY <2>2, <2>3, <2>4
<1>7. IsPool(p) /\ p.nKeys = nKeys + k
  BY <1>1, <1>4, <1>5
<1>8. Distinct(p, nIndex, vchPubKey, used) /\ (~renumbered => Newer(p, nOldKeys))
  BY <1>2, <1>5 DEF KeyInv
<1> HIDE DEF p
<1>9. /\ IsPool(p) /\ nKeys \in Nat /\ p.nKeys = nKeys + k
      /\ Distinct(p, nIndex, vchPubKey, used)
      /\ ~renumbered /\ ~(k > 0 /\ nIndex # None /\ setKeyPool = {})
           => Exact(p, nIndex, vchPubKey)
      /\ ~renumbered => Newer(p, nOldKeys)
  BY <1>2, <1>6, <1>7, <1>8
<1> QED BY <1>9 DEF p, first, last

(* TopUpThrows: the keys made before Lock stay in the set. *)
LEMMA TopUpThrowsInv ==
    ASSUME NEW k \in 0..KeyPoolSize, KeyInv, TopUpThrows(k)
    PROVE  KeyInv'
<1> DEFINE p == WriteFresh(Pool, NextIndex(Pool), NextIndex(Pool) + k - 1)
<1>1. /\ ~fLocked /\ fLocked' = TRUE /\ setKeyPool' = p.set /\ pool' = p.pool
      /\ nKeys' = p.nKeys /\ p.nKeys <= MaxKey
      /\ renumbered' = (renumbered \/ (k > 0 /\ TopUpRenumbers))
      /\ UNCHANGED <<fCrypted, used, nOldKeys, nIndex, vchPubKey, fSigned>>
  BY DEF TopUpThrows, TopUpCut, Enough, reservation
<1>2. /\ IsPool(p) /\ nKeys \in Nat /\ p.nKeys = nKeys + k
      /\ Distinct(p, nIndex, vchPubKey, used)
      /\ ~renumbered /\ ~(k > 0 /\ nIndex # None /\ setKeyPool = {})
           => Exact(p, nIndex, vchPubKey)
      /\ ~renumbered => Newer(p, nOldKeys)
  BY CutPool
<1> HIDE DEF p
<1>3. Pool' = p
  BY <1>1, <1>2 DEF Pool, IsPool
<1>4. renumbered' \in BOOLEAN
  <2>1. renumbered \in BOOLEAN
    BY DEF KeyInv
  <2> QED BY <1>1, <2>1, Zenon
<1>5. ASSUME ~renumbered' PROVE Exact(p, nIndex, vchPubKey) /\ Newer(p, nOldKeys)
  <2>1. ~renumbered /\ ~(k > 0 /\ nIndex # None /\ setKeyPool = {})
    BY <1>1, <1>5 DEF TopUpRenumbers
  <2> QED BY <1>2, <2>1
<1>6. /\ nKeys' \in Nat /\ used \subseteq 1..nKeys' /\ nOldKeys \in 0..nKeys'
      /\ nIndex \in 1..nKeys' \cup {None} /\ vchPubKey \in 1..nKeys' \cup {None}
  BY <1>1, <1>2, KeyPoolAssumption DEF KeyInv
<1> QED BY <1>1, <1>2, <1>3, <1>4, <1>5, <1>6 DEF KeyInv

(* TopUpThreadDies: the restart finds the keys made before Lock. *)
LEMMA TopUpThreadDiesInv ==
    ASSUME NEW k \in 0..KeyPoolSize, KeyInv, TopUpThreadDies(k)
    PROVE  KeyInv'
<1> DEFINE p == WriteFresh(Pool, NextIndex(Pool), NextIndex(Pool) + k - 1)
           q == [set |-> DOMAIN p.pool, pool |-> p.pool, nKeys |-> p.nKeys]
<1>1. /\ fLocked' = TRUE /\ setKeyPool' = DOMAIN p.pool /\ pool' = p.pool
      /\ nKeys' = p.nKeys /\ p.nKeys <= MaxKey
      /\ nIndex' = None /\ vchPubKey' = None /\ fSigned' = FALSE
      /\ renumbered' = (renumbered \/ (k > 0 /\ TopUpRenumbers))
      /\ UNCHANGED <<fCrypted, used, nOldKeys>>
  BY DEF TopUpThreadDies, TopUpCut, Enough, EndReservation
<1>2. /\ IsPool(p) /\ nKeys \in Nat /\ p.nKeys = nKeys + k
      /\ Distinct(p, nIndex, vchPubKey, used)
      /\ ~renumbered => Newer(p, nOldKeys)
  BY CutPool
<1> HIDE DEF p
<1>3. Pool' = q
  BY <1>1 DEF Pool
<1>4. /\ IsPool(q) /\ Distinct(q, None, None, used) /\ Exact(q, None, None)
      /\ \A old : Newer(p, old) => Newer(q, old)
  BY <1>2, Restarted
<1> HIDE DEF q
<1>5. renumbered' \in BOOLEAN
  <2>1. renumbered \in BOOLEAN
    BY DEF KeyInv
  <2> QED BY <1>1, <2>1, Zenon
<1>6. ASSUME ~renumbered' PROVE Newer(q, nOldKeys)
  BY <1>1, <1>2, <1>4, <1>6
<1>7. /\ nKeys' \in Nat /\ used \subseteq 1..nKeys' /\ nOldKeys \in 0..nKeys' /\ None \notin used
  BY <1>1, <1>2, KeyPoolAssumption DEF KeyInv, None
<1> QED BY <1>1, <1>3, <1>4, <1>5, <1>6, <1>7 DEF KeyInv

(* What NewKeyPool erases leaves a pool. *)
LEMMA ErasedInv ==
    ASSUME KeyInv, NEW done
    PROVE  LET p == Erased(done)
           IN  /\ IsPool(p)
               /\ nKeys \in Nat
               /\ p.nKeys = nKeys
               /\ Distinct(p, nIndex, vchPubKey, used)
               /\ ~renumbered => Newer(p, nOldKeys)
<1> DEFINE p == Erased(done)
<1>1. Pool.set = setKeyPool /\ Pool.pool = pool /\ Pool.nKeys = nKeys /\ nKeys \in Nat
  BY DEF Pool, KeyInv, IsPool
<1>2. /\ IsPool(p) /\ p.set = setKeyPool \ done /\ DOMAIN p.pool = DOMAIN pool \ done
      /\ (\A n \in DOMAIN p.pool : p.pool[n] = pool[n]) /\ p.nKeys = nKeys
  BY PoolErased DEF KeyInv
<1> HIDE DEF p
<1>3. Distinct(p, nIndex, vchPubKey, used)
  BY <1>1, <1>2 DEF KeyInv, Distinct
<1>4. ~renumbered => Newer(p, nOldKeys)
  BY <1>1, <1>2 DEF KeyInv, Newer
<1> QED BY <1>1, <1>2, <1>3, <1>4 DEF p

(* EncryptWallet: with no index on reservation every old record is erased. *)
LEMMA EncryptWalletInv == KeyInv /\ EncryptWallet => KeyInv'
<1> SUFFICES ASSUME KeyInv, EncryptWallet PROVE KeyInv'
  OBVIOUS
<1> DEFINE e == Erased(setKeyPool)
           p == WriteFresh(e, 1, KeyPoolSize)
<1>1. /\ Becomes(p) /\ fCrypted' = TRUE /\ fLocked' = TRUE /\ nOldKeys' = nKeys
      /\ renumbered' = (renumbered \/ nIndex # None)
      /\ UNCHANGED <<nIndex, vchPubKey, fSigned, used>>
  BY DEF EncryptWallet, reservation
<1>2. /\ IsPool(e) /\ nKeys \in Nat /\ e.nKeys = nKeys
      /\ Distinct(e, nIndex, vchPubKey, used)
  BY ErasedInv
<1>3. e.set = setKeyPool \ setKeyPool /\ DOMAIN e.pool = DOMAIN pool \ setKeyPool
  BY PoolErased DEF KeyInv
<1> HIDE DEF e
<1>4. /\ nIndex \in Int /\ vchPubKey \in Int /\ vchPubKey <= e.nKeys
      /\ used \in SUBSET (1..e.nKeys) /\ 1 \in 1..(e.nKeys + 1)
      /\ KeyPoolSize \in Int /\ KeyPoolSize >= 1 - 1
  BY <1>2, KeyPoolAssumption DEF KeyInv, None
<1>5. /\ IsPool(p) /\ p.nKeys = e.nKeys + (KeyPoolSize - 1 + 1)
      /\ Distinct(e, nIndex, vchPubKey, used) => Distinct(p, nIndex, vchPubKey, used)
      /\ Exact(e, nIndex, vchPubKey) /\ (nIndex # None => nIndex < 1)
           => Exact(p, nIndex, vchPubKey)
      /\ \A old \in 0..e.nKeys : Newer(e, old) => Newer(p, old)
  <2> DEFINE one == 1
  <2>1. /\ one \in 1..(e.nKeys + 1) /\ KeyPoolSize >= one - 1
    BY <1>4
  <2> HIDE DEF one
  <2>2. LET q == WriteFresh(e, one, KeyPoolSize)
        IN  /\ IsPool(q) /\ q.nKeys = e.nKeys + (KeyPoolSize - one + 1)
            /\ Distinct(e, nIndex, vchPubKey, used) => Distinct(q, nIndex, vchPubKey, used)
            /\ Exact(e, nIndex, vchPubKey) /\ (nIndex # None => nIndex < one)
                 => Exact(q, nIndex, vchPubKey)
            /\ \A old \in 0..e.nKeys : Newer(e, old) => Newer(q, old)
    BY <1>2, <1>4, <2>1, FreshPool
  <2> QED BY <2>2 DEF one
<1> HIDE DEF p
<1>6. Pool' = p /\ nKeys' = p.nKeys /\ nKeys' <= MaxKey
  BY <1>1, <1>5, BecomesPool
<1>7. ASSUME ~renumbered' PROVE Exact(p, nIndex, vchPubKey) /\ Newer(p, nKeys)
  <2>1. nIndex = None /\ ~renumbered
    BY <1>1, <1>7
  <2>2. DOMAIN pool = setKeyPool
    BY <2>1 DEF KeyInv, Exact, Pool
  <2>3. e.set = {} /\ DOMAIN e.pool = {}
    BY <1>3, <2>2
  <2>4. Exact(e, nIndex, vchPubKey) /\ Newer(e, nKeys)
    BY <2>1, <2>3 DEF Exact, Newer
  <2>5. nKeys \in 0..e.nKeys
    BY <1>2
  <2> QED BY <1>5, <2>1, <2>4, <2>5
<1>8. /\ nKeys' \in Nat /\ used \subseteq 1..nKeys' /\ nKeys \in 0..nKeys'
      /\ nIndex \in 1..nKeys' \cup {None} /\ vchPubKey \in 1..nKeys' \cup {None}
  BY <1>2, <1>5, <1>6, KeyPoolAssumption DEF KeyInv
<1>9. renumbered' \in BOOLEAN
  <2>1. renumbered \in BOOLEAN
    BY DEF KeyInv
  <2> QED BY <1>1, <2>1, Zenon
<1> QED BY <1>1, <1>2, <1>5, <1>6, <1>7, <1>8, <1>9 DEF KeyInv

(* EncryptInterrupted: the restart finds the records that were left. *)
LEMMA EncryptInterruptedInv == KeyInv /\ EncryptInterrupted => KeyInv'
<1> SUFFICES ASSUME KeyInv, EncryptInterrupted PROVE KeyInv'
  OBVIOUS
<1>1. PICK k \in 0..KeyPoolSize, done \in SUBSET setKeyPool :
        LET p == WriteFresh(Erased(done), 1, k)
        IN  Becomes([p EXCEPT !.set = DOMAIN p.pool])
  BY DEF EncryptInterrupted
<1> DEFINE e == Erased(done)
           p == WriteFresh(e, 1, k)
           q == [set |-> DOMAIN p.pool, pool |-> p.pool, nKeys |-> p.nKeys]
<1>2. /\ fCrypted' = TRUE /\ fLocked' = TRUE
      /\ nIndex' = None /\ vchPubKey' = None /\ fSigned' = FALSE
      /\ UNCHANGED <<used, nOldKeys, renumbered>>
  BY DEF EncryptInterrupted, EndReservation, history
<1>3. /\ IsPool(e) /\ nKeys \in Nat /\ e.nKeys = nKeys
      /\ Distinct(e, nIndex, vchPubKey, used)
      /\ ~renumbered => Newer(e, nOldKeys)
  BY ErasedInv
<1> HIDE DEF e
<1>4. /\ nIndex \in Int /\ vchPubKey \in Int /\ vchPubKey <= e.nKeys
      /\ used \in SUBSET (1..e.nKeys) /\ nOldKeys \in 0..e.nKeys
      /\ k \in Nat
  BY <1>3, KeyPoolAssumption DEF KeyInv, None
<1>5. /\ IsPool(p) /\ p.nKeys = nKeys + k
      /\ Distinct(p, nIndex, vchPubKey, used)
      /\ ~renumbered => Newer(p, nOldKeys)
  <2> DEFINE one == 1
  <2>1. one \in 1..(e.nKeys + 1) /\ k >= one - 1 /\ k \in Int /\ k - one + 1 = k
    BY <1>3, <1>4
  <2> HIDE DEF one
  <2>2. LET r == WriteFresh(e, one, k)
        IN  /\ IsPool(r) /\ r.nKeys = e.nKeys + (k - one + 1)
            /\ r.set = e.set \cup (one..k)
            /\ Distinct(e, nIndex, vchPubKey, used) => Distinct(r, nIndex, vchPubKey, used)
            /\ Exact(e, nIndex, vchPubKey) /\ (nIndex # None => nIndex < one)
                 => Exact(r, nIndex, vchPubKey)
            /\ \A old \in 0..e.nKeys : Newer(e, old) => Newer(r, old)
    <3>1. /\ IsPool(e) /\ one \in 1..(e.nKeys + 1) /\ k \in Int /\ k >= one - 1
          /\ nIndex \in Int /\ vchPubKey \in Int /\ vchPubKey <= e.nKeys
          /\ used \in SUBSET (1..e.nKeys)
      BY <1>3, <1>4, <2>1
    <3> QED BY <3>1, FreshPool, Zenon
  <2>3. LET r == WriteFresh(e, one, k)
        IN  /\ IsPool(r) /\ r.nKeys = nKeys + k
            /\ Distinct(r, nIndex, vchPubKey, used)
            /\ ~renumbered => Newer(r, nOldKeys)
    BY <1>3, <1>4, <2>1, <2>2
  <2> QED BY <2>3 DEF one
<1>6. Becomes(q)
  <2>1. [p EXCEPT !.set = DOMAIN p.pool] = q
    <3>1. p = [set |-> p.set, pool |-> p.pool, nKeys |-> p.nKeys]
      BY <1>5 DEF IsPool
    <3> HIDE DEF p
    <3> QED BY <3>1
  <2> QED BY <1>1, <2>1 DEF e
<1> HIDE DEF p
<1>7. /\ IsPool(q) /\ Distinct(q, None, None, used) /\ Exact(q, None, None)
      /\ \A old : Newer(p, old) => Newer(q, old)
  BY <1>5, Restarted
<1>8. q.nKeys = p.nKeys
  OBVIOUS
<1> HIDE DEF q
<1>9. Pool' = q /\ nKeys' = nKeys + k /\ nKeys' <= MaxKey
  BY <1>5, <1>6, <1>7, <1>8, BecomesPool
<1>10. /\ nKeys' \in Nat /\ used \subseteq 1..nKeys' /\ nOldKeys \in 0..nKeys' /\ None \notin used
  BY <1>3, <1>4, <1>9 DEF KeyInv, None
<1>11. renumbered \in BOOLEAN
  BY DEF KeyInv
<1> QED BY <1>2, <1>5, <1>7, <1>9, <1>10, <1>11 DEF KeyInv

(* ReturnKey: the index goes back below all others. *)
LEMMA ReturnKeyInv == KeyInv /\ ReturnKey => KeyInv'
<1> SUFFICES ASSUME KeyInv, ReturnKey PROVE KeyInv'
  OBVIOUS
<1> DEFINE q == Pool'
<1>1. /\ nIndex # None /\ nIndex' = None /\ vchPubKey' = None /\ fSigned' = FALSE
      /\ UNCHANGED <<fCrypted, fLocked, used, nOldKeys, renumbered, nKeys>>
  BY DEF ReturnKey, EndReservation, lock, history
<1>2. /\ q = [set |-> q.set, pool |-> q.pool, nKeys |-> q.nKeys]
      /\ q.set = Pool.set \cup {nIndex} /\ q.pool = Pool.pool /\ q.nKeys = Pool.nKeys
      /\ Pool.nKeys = nKeys
  BY DEF ReturnKey, Pool
<1> HIDE DEF q
<1>3. IsPool(q) /\ nKeys \in Nat
  BY <1>1, <1>2 DEF KeyInv, IsPool
<1>4. None \notin q.set /\ \A n \in DOMAIN q.pool : q.pool[n] # None
  BY <1>3 DEF IsPool, None
<1>5. Distinct(q, None, None, used)
  BY <1>2, <1>4 DEF KeyInv, Distinct
<1>6. ASSUME ~renumbered PROVE Exact(q, None, None) /\ Newer(q, nOldKeys)
  <2>1. Exact(Pool, nIndex, vchPubKey) /\ Newer(Pool, nOldKeys)
    BY <1>6 DEF KeyInv
  <2> QED BY <1>1, <1>2, <1>4, <2>1 DEF Exact, Newer
<1>7. None \notin used
  BY <1>3 DEF KeyInv, None
<1>8. Pool' = q
  BY DEF q
<1> QED BY <1>1, <1>3, <1>5, <1>6, <1>7, <1>8 DEF KeyInv

(* Restart: the set is loaded from the records. *)
LEMMA RestartInv == KeyInv /\ Restart => KeyInv'
<1> SUFFICES ASSUME KeyInv, Restart PROVE KeyInv'
  OBVIOUS
<1> DEFINE q == [set |-> DOMAIN Pool.pool, pool |-> Pool.pool, nKeys |-> Pool.nKeys]
<1>1. /\ fLocked' = fCrypted /\ nIndex' = None /\ vchPubKey' = None /\ fSigned' = FALSE
      /\ UNCHANGED <<fCrypted, used, nOldKeys, renumbered, nKeys>>
  BY DEF Restart, EndReservation, history
<1>2. Pool' = q
  BY DEF Restart, Pool
<1>3. /\ IsPool(q) /\ Distinct(q, None, None, used) /\ Exact(q, None, None)
      /\ \A old : Newer(Pool, old) => Newer(q, old)
  BY Restarted DEF KeyInv
<1> HIDE DEF q
<1>4. None \notin used
  BY DEF KeyInv, None
<1> QED BY <1>1, <1>2, <1>3, <1>4 DEF KeyInv

-----------------------------------------------------------------------------
(* The theorems *)

(* The first pool is empty. *)
LEMMA InitInv == Init => KeyInv
<1> SUFFICES ASSUME Init PROVE KeyInv
  OBVIOUS
<1>1. /\ Pool = [set |-> Pool.set, pool |-> Pool.pool, nKeys |-> Pool.nKeys]
      /\ Pool.set = {} /\ Pool.nKeys = 0 /\ DOMAIN Pool.pool = {}
  BY DEF Init, Pool
<1>2. IsPool(Pool) /\ Distinct(Pool, None, None, {})
  BY <1>1 DEF IsPool, Distinct
<1>3. Exact(Pool, None, None) /\ Newer(Pool, 0)
  BY <1>1 DEF Exact, Newer
<1>4. /\ nKeys = 0 /\ nIndex = None /\ vchPubKey = None /\ used = {} /\ nOldKeys = 0
      /\ fLocked = FALSE /\ fCrypted = FALSE /\ fSigned = FALSE /\ renumbered = FALSE
  BY DEF Init
<1>5. nKeys <= MaxKey /\ nOldKeys \in 0..nKeys
  BY <1>4, KeyPoolAssumption
<1> QED BY <1>2, <1>3, <1>4, <1>5 DEF KeyInv

(* Every step keeps the invariant. *)
LEMMA NextInv == KeyInv /\ [Next]_vars => KeyInv'
<1> SUFFICES ASSUME KeyInv, [Next]_vars PROVE KeyInv'
  OBVIOUS
<1>1. CASE Unlock
  <2>1. Pool' = Pool
    BY <1>1 DEF Unlock, wallet, Pool
  <2> QED BY <1>1, <2>1 DEF Unlock, wallet, reservation, history, KeyInv
<1>2. CASE Lock
  <2>1. Pool' = Pool
    BY <1>2 DEF Lock, wallet, Pool
  <2> QED BY <1>2, <2>1 DEF Lock, wallet, reservation, history, KeyInv
<1>3. CASE UNCHANGED vars
  <2>1. Pool' = Pool
    BY <1>3 DEF vars, wallet, Pool
  <2> QED BY <1>3, <2>1 DEF vars, wallet, lock, reservation, history, KeyInv
<1>4. CASE \E k \in 0..KeyPoolSize : TopUpThrows(k) \/ TopUpThreadDies(k)
  BY <1>4, TopUpThrowsInv, TopUpThreadDiesInv
<1> QED
  BY <1>1, <1>2, <1>3, <1>4, ReserveKeyInv, ReserveKeyThrowsInv, KeepKeyInv, ReturnKeyInv,
     GetKeyFromPoolInv, TopUpInv, EncryptWalletInv, EncryptInterruptedInv, RestartInv
     DEF Next

(* The invariant holds in every behaviour. *)
LEMMA InvHolds == Spec => []KeyInv
BY InitInv, NextInv, PTL DEF Spec

(* Indices and keys stay in their ranges: every record holds a key that was  *)
(* made, whatever order payments, top-ups, encryption and restarts come in.  *)
THEOREM FieldsTyped == Spec => []TypeOK
<1>1. KeyInv => TypeOK
  BY DEF KeyInv, IsPool, Pool, TypeOK
<1> QED BY <1>1, InvHolds, PTL

(* "Take key pair from key pool so it won't be used again" (wallet.h): no    *)
(* record holds a key that is in use, no two records one key, and a reserved *)
(* key is in no address, for a pool of any size.                             *)
THEOREM NoKeyTwice == Spec => []KeysUsedOnce
<1>1. KeyInv => KeysUsedOnce
  BY DEF KeyInv, Distinct, Pool, KeysUsedOnce
<1> QED BY <1>1, InvHolds, PTL

(* The set and the records of wallet.dat differ by the reserved key only,    *)
(* until keys are numbered from 1 while an index is on reservation.          *)
THEOREM SetMatchesRecords == Spec => []PoolExact
<1>1. KeyInv => PoolExact
  BY DEF KeyInv, Exact, Pool, PoolExact
<1> QED BY <1>1, InvHolds, PTL

(* After EncryptWallet the pool holds no key made before it, until keys are  *)
(* numbered from 1 while an index is on reservation.                         *)
THEOREM OldKeysGone == Spec => []PoolRenewed
<1>1. KeyInv => PoolRenewed
  BY DEF KeyInv, Newer, Pool, PoolRenewed
<1> QED BY <1>1, InvHolds, PTL

============================================================================
