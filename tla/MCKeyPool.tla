----------------------------- MODULE MCKeyPool -----------------------------
(* The key pool on small instances: see MCKeyPool.cfg. *)
EXTENDS KeyPool
============================================================================
