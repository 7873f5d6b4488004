------------------------------- MODULE Ledger -------------------------------
(***************************************************************************)
(* What the chain of a node promises: a tip that moves from a block to one *)
(* of its children, and the set of unspent outputs, which changes by the   *)
(* transactions of that child, all of them or none.  Every input is an     *)
(* unspent output at the moment it is spent, and the value created stays   *)
(* within MAX_MONEY.                                                       *)
(***************************************************************************)
EXTENDS Integers, Sequences, Functions

CONSTANTS Blocks, Null, Genesis, Block, Tx, MAX_MONEY

VARIABLES tip, utxo

Created(t) == {<<t, n>> : n \in DOMAIN Tx[t].vout}

Consumed(t) == {Tx[t].vin[i] : i \in DOMAIN Tx[t].vin}

Value(ops) == SumFunction([op \in ops |-> Tx[op[1]].vout[op[2]]])

(* Applying a transaction that overspends or shadows an unspent output       *)
(* gives the impossible set {Null}, from which nothing can be applied.       *)
Apply(ops, t) ==
    IF Consumed(t) \subseteq ops /\ Created(t) \cap ops = {} /\ Null \notin ops
    THEN (ops \ Consumed(t)) \cup Created(t)
    ELSE {Null}

ApplyAll(ops, txs) ==
    LET after[i \in 0..Len(txs)] == IF i = 0 THEN ops ELSE Apply(after[i - 1], txs[i])
    IN  after[Len(txs)]

Init == tip = Null /\ utxo = {}

(* The outputs of the genesis block are not part of the ledger. *)
Create ==
    /\ tip = Null
    /\ tip' = Genesis
    /\ UNCHANGED utxo

Extend(b) ==
    /\ tip # Null
    /\ Block[b].hashPrevBlock = tip
    /\ tip' = b
    /\ utxo' = ApplyAll(utxo, Block[b].vtx)
    /\ utxo' # {Null}
    /\ Value(utxo') \in 0..MAX_MONEY

Next == Create \/ \E b \in Blocks : Extend(b)

Spec == Init /\ [][Next]_<<tip, utxo>>
============================================================================
