----------------------------- MODULE MCTxPool -----------------------------
(***************************************************************************)
(* TxPool for TLC.  c is mined with two outputs.  p, q and r form a chain  *)
(* of spends, r also needing p; x takes p's input, y spends x; k is valid  *)
(* but too large for an orphan, z spends an output that does not exist; y *)
(* has a bad signature.                                                    *)
(***************************************************************************)
EXTENDS TxPool

CONSTANTS c, p, q, r, x, y, k, z

TxsDef == {c, p, q, r, x, y, k, z}

MinedDef == {c}

Data(vin, nOut, valid, small) ==
    [vin |-> vin, nOut |-> nOut, standard |-> TRUE, valid |-> valid, small |-> small]

TxDef ==
    [t \in TxsDef |->
        CASE t = c -> Data({}, 2, TRUE, TRUE)
          [] t = p -> Data({<<c, 1>>}, 2, TRUE, TRUE)
          [] t = q -> Data({<<p, 1>>}, 1, TRUE, TRUE)
          [] t = r -> Data({<<q, 1>>, <<p, 2>>}, 1, TRUE, TRUE)
          [] t = x -> Data({<<c, 1>>, <<c, 2>>}, 1, TRUE, TRUE)
          [] t = y -> Data({<<x, 1>>}, 1, FALSE, TRUE)
          [] t = k -> Data({<<p, 2>>}, 1, TRUE, FALSE)
          [] t = z -> Data({<<p, 3>>}, 1, TRUE, TRUE)]
============================================================================
