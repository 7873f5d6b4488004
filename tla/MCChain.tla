------------------------------ MODULE MCChain ------------------------------
(***************************************************************************)
(* A small universe of blocks for Chain.  Below, the tree of blocks with   *)
(* the height of each row on the left:                                     *)
(*                                                                         *)
(*   0   g                                                                 *)
(*   1   a         f     a: pays cbA; f: competes with a                   *)
(*   2   b  m  q         m: spends cbA too early; q: contains cbA again    *)
(*   3   c  n  e         c: spends cbA in a chain of two; n: an output is  *)
(*                       negative; e: mints more than is left              *)
(*   4   d  r  w         d: spends cbA a second time; r: contains cbA again *)
(*                       when it is fully spent; w: has the wrong nBits    *)
(*                                                                         *)
(* h has a parent, u, that no node accepts.                                *)
(***************************************************************************)
EXTENDS Chain

CONSTANTS g, a, f, b, m, q, c, n, e, d, r, w, h, u, null

MCBlocks == {g, a, f, b, m, q, c, n, e, d, r, w, h, u}

CoinBase(values, time) == [vin |-> <<>>, vout |-> values, nTime |-> time, sigOK |-> TRUE]
Spend(ops, values, time) == [vin |-> ops, vout |-> values, nTime |-> time, sigOK |-> TRUE]

MCTx ==
    [cbG |-> CoinBase(<<0>>, 0),
     cbA |-> CoinBase(<<4>>, 1),
     cbF |-> CoinBase(<<10>>, 1),
     cbE |-> CoinBase(<<9>>, 3),
     cb0 |-> CoinBase(<<0>>, 2),
     cb1 |-> CoinBase(<<0, 1>>, 3),
     cb2 |-> CoinBase(<<2>>, 4),
     pay |-> Spend(<<<<"cbA", 1>>>>, <<2, 1>>, 3),
     fwd |-> Spend(<<<<"pay", 1>>>>, <<1>>, 3),
     dbl |-> Spend(<<<<"cbA", 1>>>>, <<3>>, 4),
     neg |-> Spend(<<<<"cb0", 1>>>>, <<3, -1>>, 3)]

MCTxs == DOMAIN MCTx

Good(prev, time, txs) ==
    [hashPrevBlock |-> prev, nTime |-> time, vtx |-> txs, wellFormed |-> TRUE,
     authentic |-> TRUE, rightBits |-> TRUE, final |-> TRUE]

MCBlock ==
    [x \in MCBlocks |->
        CASE x = g -> Good(null, 0, <<"cbG">>)
          [] x = a -> [Good(g, 1, <<"cbA">>) EXCEPT !.authentic = FALSE]
          [] x = f -> Good(g, 1, <<"cbF">>)
          [] x = b -> Good(a, 2, <<"cb0">>)
          [] x = m -> Good(a, 2, <<"cb1", "pay">>)
          [] x = q -> Good(a, 2, <<"cbA">>)
          [] x = c -> Good(b, 3, <<"cb1", "pay", "fwd">>)
          [] x = n -> Good(b, 3, <<"cb1", "neg">>)
          [] x = e -> Good(b, 3, <<"cbE">>)
          [] x = d -> Good(c, 4, <<"cb2", "dbl">>)
          [] x = r -> Good(c, 4, <<"cbA">>)
          [] x = w -> [Good(c, 4, <<"cb2">>) EXCEPT !.rightBits = FALSE]
          [] x = h -> Good(u, 2, <<"cb2">>)
          [] x = u -> [Good(g, 1, <<"cb2">>) EXCEPT !.wellFormed = FALSE]]

(* A clock that lags behind the blocks at height 3 and one that does not. *)
MCTimes == {2, 9}
============================================================================
