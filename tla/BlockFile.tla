------------------------------ MODULE BlockFile ------------------------------
(***************************************************************************)
(* What a node's block store promises to those who read its bolt file      *)
(* (storage/storage.go, as chain/blockchain.go uses it): blocks are only   *)
(* added, each on top of the newest one, and the newest hash only moves to *)
(* a block on top of the one it names.  BlockChain is shown to implement   *)
(* this; DashboardStore reads files that behave like this.                 *)
(***************************************************************************)
EXTENDS BlockBucket

VARIABLES
    block,  \* hash -> block
    newest  \* "OnlyNewestBlock" -> hash, or empty

FileInit == block = EmptyBucket /\ newest = EmptyBucket

Put ==
    /\ \E h \in DOMAIN block' \ DOMAIN block :
           /\ block'[h].Hash = h
           /\ Follows(block, newest, block'[h])
           /\ block' = Stored(block, block'[h])
    /\ UNCHANGED newest

MoveNewest ==
    /\ \E h \in DOMAIN block :
           /\ Follows(block, newest, block[h])
           /\ newest' = NewestIs(h)
    /\ UNCHANGED block

FileSpec == FileInit /\ [][Put \/ MoveNewest]_<<block, newest>>
=============================================================================
