--------------------------- MODULE BlockChainProps ---------------------------
(***************************************************************************)
(* What the blockchain object of a node must keep true, whatever the       *)
(* callers do and wherever the process dies.                               *)
(***************************************************************************)
EXTENDS BlockChain, Query

Stages == {"down", "panic", "idle", "execute", "debit", "credit", "recheck",
           "return", "putBlock", "putHeader", "putNewest"}

IsBlock(b) ==
    /\ b = [Header |-> b.Header, Body |-> b.Body, Hash |-> b.Hash]
    /\ b.Header.Number \in Nat
    /\ b.Body \in Seq(Txs)
    /\ b.Hash = Hash(b.Header)

HasRoot(b) == IsTrie(b.Header.StateRoot)

\* Every piece of state has its type: balances never go below zero, stored and
\* offered blocks carry the hash of their header and a well-formed state.
TypeOK ==
    /\ \A h \in DOMAIN blockBucket : IsBlock(blockBucket[h]) /\ HasRoot(blockBucket[h])
    /\ DOMAIN newestBlockHash \subseteq {"OnlyNewestBlock"}
    /\ \A st \in trieDisk \cup trieMem : IsTrie(st)
    /\ pc \in Stages
    /\ pc \notin {"down", "panic"} /\ CurrentBlock # None
            => IsBlock(CurrentBlock) /\ HasRoot(CurrentBlock)
    /\ \A k \in DOMAIN PartitionMap : k \in Accounts /\ PartitionMap[k] \in Nat
    /\ TxQueue \in Seq(Txs)
    /\ IsTrie(AllStateMapTx)
    /\ Flag \in BOOLEAN
    /\ pc \in Stages \ {"down", "panic", "idle"} =>
            /\ job.call \in {"genisis", "generate", "add"}
            /\ job.i \in Nat /\ job.cnt \in Nat /\ IsTrie(job.st)
    /\ \A b \in offered : IsBlock(b) /\ HasRoot(b)
    /\ sent \subseteq Txs
    /\ clock \in Nat

-----------------------------------------------------------------------------
(* The stored chain.  Storage.AddBlock is three transactions, so the file  *)
(* may be left after any of them.                                          *)

\* Wherever the process dies, the newest hash names a block that is in both
\* buckets: the order block, header, newest of Storage.AddBlock.
NewestComplete ==
    DOMAIN newestBlockHash # {} =>
        /\ Newest \in DOMAIN blockBucket
        /\ Newest \in DOMAIN blockHeaderBucket
        /\ blockHeaderBucket[Newest] = blockBucket[Newest].Header

Parent(b) == blockBucket[b.Header.ParentBlockHash]

\* Every stored block, also one that never became the newest, is stored under
\* its own hash and is either the genisis block or the child, one higher, of a
\* stored block: no gap can be reached although AddBlock checks the height only.
ChainIntact ==
    \A h \in DOMAIN blockBucket :
        LET b == blockBucket[h]
        IN  /\ b.Hash = h
            /\ \/ b.Header.Number = 0
               \/ /\ b.Header.ParentBlockHash \in DOMAIN blockBucket
                  /\ b.Header.Number = Parent(b).Header.Number + 1

\* The newest hash only ever moves to a child of the block it named: never
\* back, never to a sibling, also across restarts and repeated deliveries.
TipExtends ==
    [][ /\ newestBlockHash' # newestBlockHash
        /\ DOMAIN newestBlockHash # {}
        => /\ DOMAIN newestBlockHash' # {}
           /\ blockBucket'[newestBlockHash'["OnlyNewestBlock"]].Header.ParentBlockHash = Newest
      ]_vars

File == INSTANCE BlockFile WITH block <- blockBucket, newest <- newestBlockHash

\* To a reader of the file the node is a BlockFile: through crashes between the
\* three transactions, restarts, late and repeated deliveries, blocks are never
\* removed or replaced and every one that is put is on top of the newest.
IsBlockFile == File!FileSpec

\* AddBlock accepts by height alone.  Any block that was ever generated here and
\* has the next height is also valid for IsValidBlock on the current block.
HeightImpliesValid ==
    pc = "idle" =>
        \A b \in offered : HeightCorrect(b) => IsValidBlock(b, CurrentBlock)

-----------------------------------------------------------------------------
(* The states the blocks point to. *)

\* The trie of the current block can be opened, so no call panics at trie.New.
CurrentReadable ==
    pc \notin {"down", "panic"} /\ CurrentBlock # None => Readable(StateRoot)

\* A stored block that executed transactions to a new state has that state on
\* disk, whatever happened since: GetUpdateStatusTrie commits before it returns.
ExecutedRootsDurable ==
    \A h \in DOMAIN blockBucket :
        LET b == blockBucket[h]
        IN  b.Body # << >> /\ b.Header.StateRoot # Parent(b).Header.StateRoot
            => b.Header.StateRoot \in trieDisk

\* Durability runs one block behind for injections: when a stored block changed
\* the state without executing transactions, the state of its parent is on disk,
\* so a restart that panics has lost the state of the newest block alone.
ParentOfInjectionDurable ==
    \A h \in DOMAIN blockBucket :
        LET b == blockBucket[h]
        IN  /\ b.Body = << >> /\ b.Header.Number > 0
            /\ b.Header.StateRoot # Parent(b).Header.StateRoot
            => Parent(b).Header.StateRoot \in trieDisk \cup {EmptyTrie}

\* A transaction enters at most one stored block, and that one once: PackTxs
\* takes it off the queue and no block is generated from a packed list twice.
AtMostOnce ==
    \A g, h \in DOMAIN blockBucket :
        \A i \in DOMAIN blockBucket[g].Body, k \in DOMAIN blockBucket[h].Body :
            blockBucket[g].Body[i] = blockBucket[h].Body[k] => g = h /\ i = k

\* The value that reaches this shard without being debited here: relayed
\* transactions and those whose sender is placed on another shard.
Inflow(txs) ==
    SumFunction([i \in DOMAIN txs |->
        IF txs[i].Relayed \/ Get_PartitionMap(MapInfo, txs[i].Sender) # ShardID
        THEN txs[i].Value ELSE 0])

\* Executing a block neither creates nor destroys money: the supply of its
\* state is that of its parent's plus what flowed in.  A refused transaction
\* and one to another shard leave it as it is.
SupplyPreserved ==
    \A h \in DOMAIN blockBucket :
        LET b == blockBucket[h]
        IN  b.Body # << >> =>
              Supply(b.Header.StateRoot)
                = Supply(Parent(b).Header.StateRoot) + Inflow(b.Body)

\* A node that executes a block again before it stores it reaches the state the
\* block announces, although AddBlock only prints the root and never compares;
\* the block of an injection has no transactions to execute.
ReplayAgrees ==
    pc = "return" /\ job.call = "add" /\ job.blk.Body # << >>
        => ReturnedRoot = job.blk.Header.StateRoot

InCall == pc \notin {"idle", "down", "panic"}

\* How many steps a call may still take.
Remaining ==
    LET left == Len(job.blk.Body) - job.i
    IN  CASE pc = "execute"   -> 3 * left + 5
          [] pc = "debit"     -> 3 * left + 4
          [] pc = "credit"    -> 3 * left + 3
          [] pc = "recheck"   -> 3 * left + 2
          [] pc = "return"    -> 4
          [] pc = "putBlock"  -> 3
          [] pc = "putHeader" -> 2
          [] OTHER            -> 1

\* Every call comes to its end: a step that it makes leaves fewer to make, also one
\* that skips a transaction or finds that an account was moved; steps of other
\* threads leave it where it is.
CallsAdvance ==
    [][ InCall /\ InCall' /\ ~UNCHANGED <<pc, job>> => Remaining' < Remaining ]_vars

-----------------------------------------------------------------------------
(* What comments and tests of the repository say and the code does not do. *)

\* What AddAccount writes is in the database: once closed, the newest block's
\* trie can be opened again.
ClosedIsReopenable ==
    pc = "down" /\ DOMAIN newestBlockHash # {} => Readable(blockBucket[Newest].Header.StateRoot)

\* The chain from the newest block down to the genisis block, by height.
ChainHeight == QueryNewestBlock(blockBucket, Newest).Header.Number
ChainBlock[n \in Nat] ==
    IF n >= ChainHeight THEN QueryNewestBlock(blockBucket, Newest)
                        ELSE Parent(ChainBlock[n + 1])

\* On the file of a stopped node, asking for the transactions of the block at a
\* height gives those of the chain's block at that height.
QueryFindsChain ==
    pc = "down" /\ DOMAIN newestBlockHash # {} =>
        \A n \in 0 .. ChainHeight :
            QueryBlockTxs(blockBucket, n) = {ChainBlock[n].Body}

-----------------------------------------------------------------------------
(* Under concurrent calls of Update_PartitionMap. *)

\* Moving accounts to this shard while a block is executed may lose money but
\* never makes any: no credit is given twice or without its debit.
SupplyNeverGrows ==
    \A h \in DOMAIN blockBucket :
        LET b == blockBucket[h]
        IN  b.Body # << >> =>
              Supply(b.Header.StateRoot)
                <= Supply(Parent(b).Header.StateRoot) + Inflow(b.Body)
=============================================================================
