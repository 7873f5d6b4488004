---------------------------- MODULE MCWalletLock ----------------------------
(* Three cleaning threads and timeouts of 0 to 3 seconds. *)
EXTENDS WalletLock

CONSTANTS t1, t2, t3

MCThread == {t1, t2, t3}
MCTimeout == {0, 1, 3}
=============================================================================
