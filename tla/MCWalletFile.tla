---------------------------- MODULE MCWalletFile ----------------------------
(* Both threads may encrypt; only the RPC server opens the file before it    *)
(* takes cs_wallet.                                                          *)
EXTENDS WalletFile

MCJobs == [rpc |-> {"getaccountaddress", "encrypt"},
           gui |-> {"setname", "encrypt", "backup"}]
=============================================================================
