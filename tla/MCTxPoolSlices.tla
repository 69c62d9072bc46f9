--------------------------- MODULE MCTxPoolSlices ---------------------------
(* Instances of TxPoolSlices for TLC. *)
EXTENDS TxPoolSlices

CONSTANTS t1, t2, t3

MCSender == [t \in Txs |-> IF t = t2 THEN "A" ELSE "B"]
=============================================================================
