------------------------------- MODULE Blocks -------------------------------
(***************************************************************************)
(* Blocks and headers (core/block.go), the transaction root and the        *)
(* validity check of chain/blockchain.go.  SHA-256 over the gob encoding   *)
(* of a header is taken to be injective: a hash is the header, wrapped so  *)
(* that it is never mistaken for one.  AllStateRoot is never set and is    *)
(* left out; TxNum is the length of the body in GenerateBlock and 0 in the *)
(* blocks the other functions build.                                       *)
(***************************************************************************)
EXTENDS Naturals, Sequences, FiniteSets, FiniteSetsExt

CONSTANTS None  \* a nil pointer, hash or root

Hash(bh) == [sha256 |-> bh]

\* What NewTransaction hashes: the fields set before it computes TxHash.
TxHash(tx) == <<tx.Sender, tx.Recipient, tx.Value, tx.Nonce>>

\* A trie keyed by TxHash: order does not matter and of two transactions with
\* one hash the last stays.
GetTxTreeRoot(txs) ==
    LET hashes == {TxHash(txs[i]) : i \in DOMAIN txs}
    IN  [h \in hashes |-> txs[Max({i \in DOMAIN txs : TxHash(txs[i]) = h})]]

\* The header GenerateBlock, AddAccounts and AddAccount start from; the zero
\* Time is 0 and Miner is always set to 0 before the header is hashed.
NewHeader(parent, number, time, txNum, stateRoot, txs) ==
    [ParentBlockHash |-> parent, Number |-> number, Time |-> time,
     Miner |-> 0, TxNum |-> txNum, StateRoot |-> stateRoot,
     TxRoot |-> GetTxTreeRoot(txs)]

NewBlock(bh, txs) == [Header |-> bh, Body |-> txs, Hash |-> None]

\* Mutant of Sealed: the hash is never set.
Unsealed(b) == b

\* b.Hash = b.Header.Hash()
Sealed(b) == [b EXCEPT !.Hash = Hash(b.Header)]

NewGenisisBlock(emptyRoot) ==
    Sealed(NewBlock(NewHeader(None, 0, 0, 0, emptyRoot, << >>), << >>))

IsValidBlock(b, current) ==
    /\ b.Header.ParentBlockHash = current.Hash
    /\ GetTxTreeRoot(b.Body) = b.Header.TxRoot
=============================================================================
