-------------------------------- MODULE Query --------------------------------
(***************************************************************************)
(* The query package (query/query_block.go): it opens the bolt file of a   *)
(* stopped node and searches its block bucket.  Every search by number     *)
(* visits the blocks in the order of their hashes, which has nothing to do *)
(* with the order of the chain, and keeps the last match: with several     *)
(* matches any of them may be the answer, so a search is the set of its    *)
(* possible answers.  No match leaves new(core.Block), the set is empty.   *)
(***************************************************************************)
EXTENDS Blocks, Functions

QueryBlocks(bucket) == Range(bucket)

QueryBlock(bucket, number) == {b \in QueryBlocks(bucket) : b.Header.Number = number}

QueryNewestBlock(bucket, newest) == bucket[newest]

QueryBlockTxs(bucket, number) == {b.Body : b \in QueryBlock(bucket, number)}

\* Returns the state root and not the hash, its name notwithstanding.
QueryBlockHash(bucket, number) == {b.Header.StateRoot : b \in QueryBlock(bucket, number)}
=============================================================================
