----------------------------- MODULE BlockBucket -----------------------------
(* The buckets of a node's bolt file (storage/storage.go) as values. *)
EXTENDS Blocks

EmptyBucket == [k \in {} |-> None]

\* The block bucket with a block put under its hash.
Stored(block, b) ==
    [h \in DOMAIN block \cup {b.Hash} |-> IF h = b.Hash THEN b ELSE block[h]]

\* The bucket with the newest hash, under its only key.
NewestIs(h) == [k \in {"OnlyNewestBlock"} |-> h]

\* The block is one that a node may put next: the first one, or one on top of the
\* newest.
Follows(block, newest, b) ==
    IF DOMAIN newest = {}
    THEN b.Header.Number = 0
    ELSE LET tip == block[newest["OnlyNewestBlock"]]
         IN  /\ b.Header.ParentBlockHash = newest["OnlyNewestBlock"]
             /\ b.Header.Number = tip.Header.Number + 1
=============================================================================
