---------------------------- MODULE MCBlockChain ----------------------------
(* Instances of BlockChain for TLC: three accounts, ann and bob placed on shard *)
(* 0, which is the shard of this node, and cid on shard 1.                      *)
EXTENDS BlockChainProps, TLC

CONSTANTS ann, bob, cid

MCAddrNum == ann :> 0 @@ bob :> 3 @@ cid :> 1
MCShardData == bob :> 0

Tx(s, r, v, relayed, broker) ==
    [Sender |-> s, Recipient |-> r, Value |-> v, Nonce |-> 0,
     Relayed |-> relayed, HasBroker |-> broker]

\* With Init_Balance 3, whichever of the two is executed second is refused; one
\* stays within the shard, the other goes to a virtual account.
ChainTxs == {Tx(ann, bob, 2, FALSE, FALSE), Tx(ann, cid, 2, FALSE, FALSE)}

\* To itself, refused when the next one emptied the account; to another shard; and
\* from another shard to a broker's recipient, credited here although it lives
\* elsewhere, without a debit.
ReplayTxs == {Tx(ann, ann, 2, FALSE, FALSE), Tx(ann, cid, 3, FALSE, FALSE),
              Tx(cid, cid, 1, FALSE, TRUE)}

OneTx == {Tx(ann, cid, 2, FALSE, FALSE)}

OneInjection == {ann :> [Nonce |-> 0, Balance |-> 5]}
NoInjections == {}

MoveHere == {<<cid, 0>>}
NoUpdates == {}
=============================================================================
