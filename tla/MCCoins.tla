------------------------------ MODULE MCCoins ------------------------------
(***************************************************************************)
(* reward is a coinbase with two outputs of the wallet.  fund pays its key *)
(* and one to be imported.  pay and copy spend the same coin of fund, copy *)
(* from a copy of wallet.dat and with the second coin of reward; next      *)
(* spends the change of pay.  other spends the coin of the imported key    *)
(* together with the first of reward.                                      *)
(***************************************************************************)
EXTENDS Coins

MCTx == {"reward", "fund", "pay", "copy", "next", "other"}
MCvin == [reward |-> {}, fund |-> {},
          pay |-> {<<"fund", 1>>}, copy |-> {<<"fund", 1>>, <<"reward", 2>>},
          next |-> {<<"pay", 1>>},
          other |-> {<<"fund", 2>>, <<"reward", 1>>}]
MCvout == [reward |-> <<"own", "own">>, fund |-> <<"own", "imported">>,
           pay |-> <<"own", "foreign">>, copy |-> <<"foreign">>,
           next |-> <<"foreign">>,
           other |-> <<"own">>]
MCBlock == [b1 |-> [prev |-> "genesis", vtx |-> <<"reward", "fund">>],
            b2 |-> [prev |-> "b1", vtx |-> <<"pay">>],
            b3 |-> [prev |-> "b1", vtx |-> <<"copy", "other">>],
            b4 |-> [prev |-> "b2", vtx |-> <<"next">>]]
=============================================================================
