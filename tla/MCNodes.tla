------------------------------ MODULE MCNodes ------------------------------
(* Two threads after one address, and memory for two nodes. *)
EXTENDS Nodes
=============================================================================
