----------------------------- MODULE SelectTried -----------------------------
(***************************************************************************)
(* CAddrMan::SelectTried, the choice of the entry that leaves a full tried *)
(* bucket, one iteration of its loop per step.  Positions count from 1.    *)
(***************************************************************************)
EXTENDS Integers, Sequences, FiniteSets, SequencesExt

CONSTANTS
    Ids,                                        \* the entries of the bucket
    Times,                                      \* values of nLastSuccess
    ADDRMAN_TRIED_ENTRIES_INSPECT_ON_EVICT

ASSUME InspectAssumption == ADDRMAN_TRIED_ENTRIES_INSPECT_ON_EVICT \in Nat \ {0}

VARIABLES
    nLastSuccess,       \* [Ids -> Times], from mapInfo
    vTried,
    i,                  \* entries inspected so far
    nOldest,
    nOldestPos

vars == <<nLastSuccess, vTried, i, nOldest, nOldestPos>>

None == -1

Init ==
    /\ nLastSuccess \in [Ids -> Times]
    /\ vTried \in SetToSeqs(Ids)
    /\ i = 0
    /\ nOldest = None
    /\ nOldestPos = None

More == i < ADDRMAN_TRIED_ENTRIES_INSPECT_ON_EVICT /\ i < Len(vTried)

(* A fault: the entry that made place is not put back. *)
Overwrite(v, nPos, n) == [v EXCEPT ![n] = v[nPos]]

Swap(v, nPos, n) == [v EXCEPT ![nPos] = v[n], ![n] = v[nPos]]

(* A fault: compares with the first entry of the bucket. *)
OlderThanFirst(nTemp) == nLastSuccess[nTemp] < nLastSuccess[vTried[1]]

Older(nTemp) == nLastSuccess[nTemp] < nLastSuccess[nOldest]

Inspect ==
    /\ More
    /\ \E nPos \in (i + 1)..Len(vTried) :
          LET nTemp == vTried[nPos]
          IN  /\ vTried' = Swap(vTried, nPos, i + 1)
              /\ IF nOldest = None \/ Older(nTemp)
                 THEN nOldest' = nTemp /\ nOldestPos' = nPos
                 ELSE UNCHANGED <<nOldest, nOldestPos>>
    /\ i' = i + 1
    /\ UNCHANGED nLastSuccess

Return == ~More /\ UNCHANGED vars

Next == Inspect \/ Return

Spec == Init /\ [][Next]_vars

-----------------------------------------------------------------------------
(* "random shuffle the first few elements (using the entire list)": however    *)
(* the draws fall, the bucket keeps exactly its entries.                       *)
BucketKept == DOMAIN vTried = 1..Cardinality(Ids) /\ ToSet(vTried) = Ids

(* nOldest is an entry that was inspected, and none of those inspected was     *)
(* tried less recently; at the end there is one, with a position in the bucket.  *)
OldestFound ==
    /\ ~More => nOldest # None /\ nOldestPos \in DOMAIN vTried
    /\ nOldest # None =>
        \E k \in 1..i : vTried[k] = nOldest /\
            \A j \in 1..i : nLastSuccess[vTried[k]] <= nLastSuccess[vTried[j]]

============================================================================
