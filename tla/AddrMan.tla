------------------------------ MODULE AddrMan ------------------------------
(***************************************************************************)
(* CAddrMan, the table of known peer addresses, and peers.dat.             *)
(*                                                                         *)
(* An address is in one or more "new" buckets, or in one "tried" bucket.   *)
(* Several indexes are kept over the same entries; this module follows all *)
(* of them.  The buckets an address hashes to are constants.  The clock is *)
(* left out: whether a step that depends on an entry's age or on a random  *)
(* draw is taken is left open, and so is the entry that is chosen.         *)
(*                                                                         *)
(* Every operation runs under cs, so it is one step.  Positions in vectors *)
(* count from 1.                                                           *)
(***************************************************************************)
EXTENDS Integers, Sequences, FiniteSets, SequencesExt, Functions

CONSTANTS
    Addrs,                              \* network addresses, also as sources of addresses
    GetTriedBucket,                     \* [Addrs -> TriedBuckets]
    GetNewBucket,                       \* [Addrs \X Addrs -> NewBuckets], by address and source
    TriedBuckets, NewBuckets,
    ADDRMAN_TRIED_BUCKET_SIZE,
    ADDRMAN_NEW_BUCKET_SIZE,
    ADDRMAN_NEW_BUCKETS_PER_ADDRESS,
    ADDRMAN_GETADDR_MAX_PCT,
    ADDRMAN_GETADDR_MAX,
    MaxId                               \* bound on nIdCount

ASSUME BucketAssumption ==
    /\ TriedBuckets \subseteq Nat /\ NewBuckets \subseteq Nat
    /\ GetTriedBucket \in [Addrs -> TriedBuckets]
    /\ GetNewBucket \in [Addrs \X Addrs -> NewBuckets]

VARIABLE am         \* the CAddrMan object

Empty ==
    [nIdCount |-> 0, mapInfo |-> <<>>, mapAddr |-> <<>>, vRandom |-> <<>>,
     nTried |-> 0, vvTried |-> [b \in TriedBuckets |-> <<>>],
     nNew |-> 0, vvNew |-> [b \in NewBuckets |-> {}]]

(* CAddrInfo.  success: nLastSuccess is set. *)
Info == [addr : Addrs, source : Addrs, nRefCount : Int, fInTried : BOOLEAN,
         nRandomPos : Nat, success : BOOLEAN]

With(f, k, v) == [x \in DOMAIN f \cup {k} |-> IF x = k THEN v ELSE f[x]]

Without(f, k) == [x \in DOMAIN f \ {k} |-> f[x]]

-----------------------------------------------------------------------------
(* The steps of which the operations are made, on a table m. *)

Create(m, a, source) ==
    LET nId == m.nIdCount
    IN  [m EXCEPT
            !.nIdCount = @ + 1,
            !.mapInfo = With(@, nId, [addr |-> a, source |-> source, nRefCount |-> 0, fInTried |-> FALSE,
                                      nRandomPos |-> Len(m.vRandom) + 1, success |-> FALSE]),
            !.mapAddr = With(@, a, nId),
            !.vRandom = Append(@, nId)]

SwapRandom(m, pos1, pos2) ==
    [m EXCEPT
        !.mapInfo[m.vRandom[pos1]].nRandomPos = pos2,
        !.mapInfo[m.vRandom[pos2]].nRandomPos = pos1,
        !.vRandom[pos1] = m.vRandom[pos2],
        !.vRandom[pos2] = m.vRandom[pos1]]

Delete(m, nId) ==
    LET s == SwapRandom(m, m.mapInfo[nId].nRandomPos, Len(m.vRandom))
    IN  [s EXCEPT
            !.vRandom = Front(@),
            !.mapAddr = Without(@, m.mapInfo[nId].addr),
            !.mapInfo = Without(@, nId),
            !.nNew = @ - 1]

(* ShrinkNew: a terrible entry, or else the oldest of four drawn at random,  *)
(* leaves the bucket; whoever is in no other bucket is deleted.              *)
ShrinkNew(m, nUBucket) ==
    {LET s == [m EXCEPT !.mapInfo[nId].nRefCount = @ - 1, !.vvNew[nUBucket] = @ \ {nId}]
     IN  IF s.mapInfo[nId].nRefCount = 0 THEN Delete(s, nId) ELSE s
       : nId \in m.vvNew[nUBucket]}

(* SelectTried shuffles the bucket and gives a position in it. *)
SelectTried(v) == {<<w, nPos>> : w \in SetToSeqs(ToSet(v)), nPos \in 1..Len(v)}

(* A fault: the displaced entry goes to its own new bucket even if full. *)
EvictTo(m, nUBucket, nOrigin) == nUBucket

(* "there is certainly place there": nId has just left nOrigin. *)
EvictBucket(m, nUBucket, nOrigin) ==
    IF Cardinality(m.vvNew[nUBucket]) < ADDRMAN_NEW_BUCKET_SIZE THEN nUBucket ELSE nOrigin

(* A fault: the other buckets keep the entry. *)
StillIn(m, nId, nOrigin) == {nOrigin}

(* The new buckets an entry leaves when it becomes tried: all of them. *)
Leaves(m, nId, nOrigin) == {b \in NewBuckets : nId \in m.vvNew[b]}

(* MakeTried: the tables that may result. *)
MakeTried(m, nId, nOrigin) ==
    LET leaves == Leaves(m, nId, nOrigin)
        s == [m EXCEPT
                !.vvNew = [b \in NewBuckets |-> IF b \in leaves THEN @[b] \ {nId} ELSE @[b]],
                !.mapInfo[nId].nRefCount = @ - Cardinality(leaves),
                !.mapInfo[nId].fInTried = TRUE,
                !.nNew = @ - 1]
        nKBucket == GetTriedBucket[m.mapInfo[nId].addr]
        vTried == m.vvTried[nKBucket]
        Evict(w, nPos) ==
            LET old == s.mapInfo[w[nPos]]
                to == EvictBucket(s, GetNewBucket[<<old.addr, old.source>>], nOrigin)
            IN  [s EXCEPT
                    !.mapInfo[w[nPos]].fInTried = FALSE,
                    !.mapInfo[w[nPos]].nRefCount = 1,
                    !.vvNew[to] = @ \cup {w[nPos]},
                    !.nNew = @ + 1,
                    !.vvTried[nKBucket] = [w EXCEPT ![nPos] = nId]]
    IN  IF Len(vTried) < ADDRMAN_TRIED_BUCKET_SIZE
        THEN {[s EXCEPT !.vvTried[nKBucket] = Append(@, nId), !.nTried = @ + 1]}
        ELSE {Evict(sel[1], sel[2]) : sel \in SelectTried(vTried)}

(* Add_, once it has an entry: into the bucket of this source. *)
InsertNew(m, nId, source) ==
    LET nUBucket == GetNewBucket[<<m.mapInfo[nId].addr, source>>]
        s == [m EXCEPT !.mapInfo[nId].nRefCount = @ + 1]
        room == IF Cardinality(m.vvNew[nUBucket]) = ADDRMAN_NEW_BUCKET_SIZE
                THEN ShrinkNew(s, nUBucket) ELSE {s}
    IN  IF nId \in m.vvNew[nUBucket]
        THEN {m}
        ELSE {[r EXCEPT !.vvNew[nUBucket] = @ \cup {nId}] : r \in room}

-----------------------------------------------------------------------------
(* The operations.  Attempt_, Connected_ and Select_ change at most times    *)
(* and counters that only the clock's conditions read.                       *)

AddUnknown(a, source) ==
    /\ a \notin DOMAIN am.mapAddr
    /\ am.nIdCount < MaxId
    /\ am' \in InsertNew([Create(am, a, source) EXCEPT !.nNew = @ + 1], am.nIdCount, source)

(* A fault: an address may be in any number of buckets. *)
MoreBuckets(info) == ~info.fInTried

MayReferMore(info) == ~info.fInTried /\ info.nRefCount # ADDRMAN_NEW_BUCKETS_PER_ADDRESS

(* Heard of again, with news, and the stochastic test is passed. *)
AddKnown(a, source) ==
    /\ a \in DOMAIN am.mapAddr
    /\ MayReferMore(am.mapInfo[am.mapAddr[a]])
    /\ am' \in InsertNew(am, am.mapAddr[a], source)

Good_(a) ==
    /\ a \in DOMAIN am.mapAddr
    /\ LET nId == am.mapAddr[a]
           m == [am EXCEPT !.mapInfo[nId].success = TRUE]
           at == {b \in NewBuckets : nId \in am.vvNew[b]}
       IN  IF am.mapInfo[nId].fInTried \/ at = {}
           THEN am' = m
           ELSE \E nUBucket \in at : am' \in MakeTried(m, nId, nUBucket)

(* The shuffle of GetAddr_: place n gets whoever stands at pick[n]. *)
GetAddr_ ==
    LET nNodes == Min({(ADDRMAN_GETADDR_MAX_PCT * Len(am.vRandom)) \div 100, ADDRMAN_GETADDR_MAX})
        Places == {n \in 1..Len(am.vRandom) : n <= nNodes}
    IN  /\ Places # {}
        /\ \E pick \in [Places -> 1..Len(am.vRandom)] :
              /\ \A n \in Places : pick[n] >= n
              /\ am' = FoldLeft(LAMBDA m, n : SwapRandom(m, n, pick[n]), am, [n \in Places |-> n])
    
-----------------------------------------------------------------------------
(* peers.dat *)

(* What matters of a table: who is tried, and who is in which new buckets. *)
View(m) ==
    [a \in DOMAIN m.mapAddr |->
        LET nId == m.mapAddr[a]
            info == m.mapInfo[nId]
        IN  [source |-> info.source, success |-> info.success, fInTried |-> info.fInTried,
             new |-> {b \in NewBuckets : nId \in m.vvNew[b]}]]

Saved(info) == [addr |-> info.addr, source |-> info.source, success |-> info.success]

(* A fault: entries that are not written are counted. *)
IndexAll(m, ids, nId) == Cardinality({n \in DOMAIN m.mapInfo : n < nId})

(* mapUnkIds: the place of a new entry among those written. *)
UnkId(m, ids, nId) == Cardinality({n \in ids : n < nId})

(* Serialization: the entries in the order of mapInfo, and per bucket the    *)
(* places of its entries.                                                    *)
Serialize(m) ==
    LET ids == {nId \in DOMAIN m.mapInfo : m.mapInfo[nId].nRefCount # 0}
        tried == {nId \in DOMAIN m.mapInfo : m.mapInfo[nId].fInTried}
        Write(set) == [n \in 1..Cardinality(set) |-> Saved(m.mapInfo[SetToSortSeq(set, <)[n]])]
    IN  [new |-> Write(ids), tried |-> Write(tried),
         vvNew |-> [b \in NewBuckets |-> {UnkId(m, ids, nId) : nId \in m.vvNew[b]}]]

(* Deserialization: new entries are numbered first, then the tried ones that *)
(* have place in their bucket.                                               *)
Deserialize(f) ==
    LET nNew == Len(f.new)
        Bucket(n) == GetTriedBucket[f.tried[n].addr]
        Fits(n) == Cardinality({k \in 1..(n - 1) : Bucket(k) = Bucket(n)}) < ADDRMAN_TRIED_BUCKET_SIZE
        kept == SelectSeq([n \in 1..Len(f.tried) |-> n], Fits)
        count == nNew + Len(kept)
        At(nId) == IF nId < nNew THEN f.new[nId + 1] ELSE f.tried[kept[nId - nNew + 1]]
        Holds(nId) == {b \in NewBuckets : nId \in f.vvNew[b]}
        Inserted(nId) == {b \in Holds(nId) :
                            Cardinality({c \in Holds(nId) : c < b}) < ADDRMAN_NEW_BUCKETS_PER_ADDRESS}
        tried == [n \in 1..Len(kept) |-> nNew + n - 1]
    IN  [nIdCount |-> count,
         mapInfo |-> [nId \in 0..(count - 1) |->
            [addr |-> At(nId).addr, source |-> At(nId).source, success |-> At(nId).success,
             nRefCount |-> Cardinality(Inserted(nId)), fInTried |-> nId >= nNew,
             nRandomPos |-> nId + 1]],
         mapAddr |-> [a \in {At(nId).addr : nId \in 0..(count - 1)} |->
            CHOOSE nId \in 0..(count - 1) : At(nId).addr = a],
         vRandom |-> [n \in 1..count |-> n - 1],
         nTried |-> Len(kept),
         vvTried |-> [b \in TriedBuckets |->
            SelectSeq(tried, LAMBDA nId : GetTriedBucket[At(nId).addr] = b)],
         nNew |-> nNew,
         vvNew |-> [b \in NewBuckets |-> {nId \in 0..(nNew - 1) : b \in Inserted(nId)}]]

(* The program stops, DumpAddresses writes peers.dat, and the program comes   *)
(* back with what the file has.  After a crash the file has the table of an   *)
(* earlier dump; that table was reachable then, so coming back from it is     *)
(* this step taken at that moment.                                            *)
Restart == am' = Deserialize(Serialize(am))

(* peers.dat cannot be read: start afresh. *)
RestartEmpty == am' = Empty

Init == am = Empty

Next ==
    \/ \E a, source \in Addrs : AddUnknown(a, source) \/ AddKnown(a, source)
    \/ \E a \in Addrs : Good_(a)
    \/ GetAddr_
    \/ Restart
    \/ RestartEmpty

Spec == Init /\ [][Next]_am

-----------------------------------------------------------------------------
(* The table has its shape: "Only keep a limited number of addresses", no      *)
(* bucket outgrows its size, also when MakeTried displaces an entry to the     *)
(* bucket nId came from, because "there is certainly place there".             *)
TypeOK ==
    /\ am.nIdCount \in 0..MaxId
    /\ \A nId \in DOMAIN am.mapInfo : nId \in 0..(am.nIdCount - 1) /\ am.mapInfo[nId] \in Info
    /\ am.mapAddr \in [DOMAIN am.mapAddr -> 0..(am.nIdCount - 1)]
    /\ am.vRandom \in Seq(0..(am.nIdCount - 1))
    /\ am.nTried \in Nat /\ am.nNew \in Nat
    /\ \A b \in TriedBuckets : /\ am.vvTried[b] \in Seq(DOMAIN am.mapInfo)
                               /\ Len(am.vvTried[b]) <= ADDRMAN_TRIED_BUCKET_SIZE
    /\ \A b \in NewBuckets : /\ am.vvNew[b] \subseteq DOMAIN am.mapInfo
                             /\ Cardinality(am.vvNew[b]) <= ADDRMAN_NEW_BUCKET_SIZE

InNew(nId) == {b \in NewBuckets : nId \in am.vvNew[b]}

InTried(nId) == {<<b, n>> \in TriedBuckets \X (1..ADDRMAN_TRIED_BUCKET_SIZE) :
                    n <= Len(am.vvTried[b]) /\ am.vvTried[b][n] = nId}

(* CAddrMan::Check_() returns 0 after every operation, and after a restart:    *)
(* an entry is tried, once and with no references, or in as many new buckets   *)
(* as it has references; the indexes by address and by random position, and    *)
(* the two counters, agree with that.                                          *)
CheckReturnsZero ==
    /\ Len(am.vRandom) = am.nTried + am.nNew
    /\ \A nId \in DOMAIN am.mapInfo :
          LET info == am.mapInfo[nId]
          IN  /\ info.nRefCount = Cardinality(InNew(nId))
              /\ info.fInTried => info.success /\ info.nRefCount = 0 /\ Cardinality(InTried(nId)) = 1
              /\ ~info.fInTried => /\ info.nRefCount \in 1..ADDRMAN_NEW_BUCKETS_PER_ADDRESS
                                   /\ InTried(nId) = {}
              /\ info.addr \in DOMAIN am.mapAddr /\ am.mapAddr[info.addr] = nId
              /\ info.nRandomPos \in 1..Len(am.vRandom) /\ am.vRandom[info.nRandomPos] = nId
    /\ am.nTried = Cardinality({nId \in DOMAIN am.mapInfo : am.mapInfo[nId].fInTried})
    /\ am.nNew = Cardinality({nId \in DOMAIN am.mapInfo : ~am.mapInfo[nId].fInTried})
    /\ Cardinality(DOMAIN am.mapAddr) = Cardinality(DOMAIN am.mapInfo)

(* ShrinkNew: entries "are never deleted while in the "tried" table, only      *)
(* possibly evicted back to the "new" table".                                  *)
TriedNeverDeleted ==
    [][~(Restart \/ RestartEmpty) =>
        \A a \in DOMAIN am.mapAddr :
            am.mapInfo[am.mapAddr[a]].fInTried => a \in DOMAIN am'.mapAddr]_am

(* What is read from peers.dat is what was written: the same addresses, tried  *)
(* or in the same new buckets, although entries are renumbered.                *)
RoundTrip == [][Restart => View(am') = View(am)]_am
============================================================================
