---------------------------- MODULE MCSelectTried ----------------------------
(***************************************************************************)
(* SelectTried for TLC: every order of four entries, every assignment of   *)
(* three times, three of the four inspected.                               *)
(***************************************************************************)
EXTENDS SelectTried
============================================================================
