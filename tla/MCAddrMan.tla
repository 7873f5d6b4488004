----------------------------- MODULE MCAddrMan -----------------------------
(***************************************************************************)
(* AddrMan for TLC.  Three addresses share one tried bucket with one place,*)
(* so that becoming tried displaces; the new buckets have one place        *)
(* each, so that adding shrinks.                                           *)
(***************************************************************************)
EXTENDS AddrMan

CONSTANTS ip1, ip2, ip3

AddrsDef == {ip1, ip2, ip3}

TriedBucketsDef == {0}

NewBucketsDef == {0, 1, 2}

GetTriedBucketDef == [x \in AddrsDef |-> 0]

(* The group of the source decides; ip3 has one bucket whatever the source. *)
GetNewBucketDef ==
    [x \in AddrsDef \X AddrsDef |->
        CASE x[1] = ip3 \/ x[2] = ip1 -> 0
          [] x[1] # ip3 /\ x[2] = ip2 -> 1
          [] x[1] # ip3 /\ x[2] = ip3 -> 2]
============================================================================
