------------------------------- MODULE MCPage -------------------------------
(***************************************************************************)
(* Instances of Page for TLC: a shard on which node 0 runs, with a file    *)
(* that node 1 left or without, and blocks with as many transactions as an *)
(* answer has and with more.                                               *)
(***************************************************************************)
EXTENDS Page

CONSTANTS t1, t2, r1, r2

Tx(t) == [Sender |-> t, Recipient |-> t, Value |-> 1, Nonce |-> 0]

MCBodies == {<<Tx(t1)>>, <<Tx(t2), Tx(t1)>>}

MCNodeFiles == {<<0, 0>>}

OfNode1 ==
    LET genesis == NewGenisisBlock(None)
        b == BlockOn(genesis, <<Tx(t1), Tx(t2)>>)
    IN  [block |-> Stored(Stored(EmptyBucket, genesis), b), newest |-> NewestIs(b.Hash)]

MCOldFiles == [f \in {<<0, 1>>} |-> OfNode1]
=============================================================================
