----------------------------- MODULE BlockChain -----------------------------
(***************************************************************************)
(* The blockchain object of one node (chain/blockchain.go) on top of its   *)
(* two databases: the bolt file with the blocks (storage/storage.go) and   *)
(* the LevelDB store of the status trie.                                   *)
(*                                                                         *)
(* One thread calls the functions that build, add and store blocks; they   *)
(* take no lock and the steps below follow it through one call.  Other     *)
(* threads may send transactions to the pool and update the partition map  *)
(* at any moment, and the process may die between any two steps.           *)
(***************************************************************************)
EXTENDS StatusTrie, Blocks, TxQueueOps

CONSTANTS
    NodeID,      \* ChainConfig.NodeID
    BlockSize,   \* ChainConfig.BlockSize
    Txs,         \* the transactions that clients may send, each of them once
    Injections,  \* the batches that AddAccounts and AddAccount may be given
    Updates,     \* the pairs <<key, val>> that Update_PartitionMap may be given
    MaxHeight,   \* bound on the height of the chain
    MaxTime      \* bound on the number of calls of GenerateBlock

ASSUME NodeIDAssumption == NodeID \in Nat
ASSUME BlockSizeAssumption == BlockSize \in Nat
ASSUME BoundAssumption == MaxHeight \in Nat /\ MaxTime \in Nat
ASSUME TxsAssumption ==
    \A tx \in Txs : /\ tx.Sender \in Accounts /\ tx.Recipient \in Accounts
                    /\ tx.Value \in Nat /\ tx.Nonce \in Nat
                    /\ tx.Relayed \in BOOLEAN /\ tx.HasBroker \in BOOLEAN
ASSUME InjectionsAssumption ==
    \A batch \in Injections : IsTrie(batch) /\ DOMAIN batch \subseteq Accounts
ASSUME UpdatesAssumption == Updates \subseteq Accounts \X Nat

VARIABLES
    blockBucket,        \* bolt: hash -> block
    blockHeaderBucket,  \* bolt: hash -> header
    newestBlockHash,    \* bolt: "OnlyNewestBlock" -> hash, or empty
    trieDisk,           \* LevelDB: the roots whose trie is written
    trieMem,            \* triedb: the roots whose trie is only in memory
    CurrentBlock,       \* memory: the top block, or None
    PartitionMap,       \* memory: account -> shard
    TxQueue,            \* memory: Txpool.TxQueue
    AllStateMapTx,      \* memory: virtual account -> its last state
    Flag,               \* memory: set by the first committed execution
    pc,                 \* where the calling thread is
    job,                \* the locals of the call it is in, or None
    offered,            \* the blocks GenerateBlock has returned to its callers
    sent,               \* the transactions sent so far
    clock               \* time.Now(), counted in calls of GenerateBlock

disk == <<blockBucket, blockHeaderBucket, newestBlockHash, trieDisk>>
memory == <<CurrentBlock, trieMem, PartitionMap, TxQueue, AllStateMapTx, Flag>>
world == <<offered, sent, clock>>
vars == <<disk, memory, pc, job, world>>

-----------------------------------------------------------------------------

\* A trie with the root can be opened; the empty root needs no node at all.
Readable(root) == root = EmptyTrie \/ root \in trieMem \cup trieDisk

StateRoot == CurrentBlock.Header.StateRoot

\* GetNewestBlockHash, when the bucket has the key.
Newest == newestBlockHash["OnlyNewestBlock"]

\* NewBlockChain has returned the object to its callers.
Running ==
    pc \notin {"down", "panic"} /\ (job # None => job.call # "genisis")

\* A call under way: GetUpdateStatusTrie has done i transactions on the trie
\* st and changed it cnt times.
Job(call, b) == [call |-> call, blk |-> b, i |-> 0, st |-> EmptyTrie, cnt |-> 0]

EmptyMap == [k \in {} |-> 0]

\* The process ends: what is not in a database is gone.
Dies(where) ==
    /\ pc' = where
    /\ job' = None
    /\ CurrentBlock' = None
    /\ trieMem' = {}
    /\ PartitionMap' = EmptyMap
    /\ TxQueue' = << >>
    /\ AllStateMapTx' = EmptyTrie
    /\ Flag' = FALSE
    /\ UNCHANGED <<disk, world>>

Init ==
    /\ blockBucket = EmptyMap
    /\ blockHeaderBucket = EmptyMap
    /\ newestBlockHash = EmptyMap
    /\ trieDisk = {}
    /\ trieMem = {}
    /\ CurrentBlock = None
    /\ PartitionMap = EmptyMap
    /\ TxQueue = << >>
    /\ AllStateMapTx = EmptyTrie
    /\ Flag = FALSE
    /\ pc = "down"
    /\ job = None
    /\ offered = {}
    /\ sent = {}
    /\ clock = 0

-----------------------------------------------------------------------------
(* Opening and closing. *)

\* No newest hash: store the genisis block first, CurrentBlock is read back later.
OpenFresh ==
    /\ DOMAIN newestBlockHash = {}
    /\ pc' = "putBlock"
    /\ job' = Job("genisis", NewGenisisBlock(EmptyTrie))
    /\ UNCHANGED <<disk, memory, world>>

\* Mutant of OpenExisting: the status trie is not tried.
OpenUnchecked ==
    /\ DOMAIN newestBlockHash # {}
    /\ CurrentBlock' = blockBucket[Newest]
    /\ pc' = "idle"
    /\ UNCHANGED <<disk, trieMem, PartitionMap, TxQueue, AllStateMapTx, Flag, job, world>>

\* The newest block must be stored and its status trie must open, or log.Panic.
OpenExisting ==
    /\ DOMAIN newestBlockHash # {}
    /\ IF /\ Newest \in DOMAIN blockBucket
          /\ Readable(blockBucket[Newest].Header.StateRoot)
       THEN /\ CurrentBlock' = blockBucket[Newest]
            /\ pc' = "idle"
       ELSE /\ pc' = "panic"
            /\ UNCHANGED CurrentBlock
    /\ UNCHANGED <<disk, trieMem, PartitionMap, TxQueue, AllStateMapTx, Flag, job, world>>

NewBlockChain ==
    /\ pc \in {"down", "panic"}
    /\ OpenFresh \/ OpenExisting

\* Closes the bolt file; nothing that is only in triedb is written.
CloseBlockChain ==
    /\ pc = "idle"
    /\ Dies("down")

Crash ==
    /\ pc \notin {"down", "panic"}
    /\ Dies("down")

-----------------------------------------------------------------------------
(* Other threads. *)

SendTx2Pool(tx) ==
    /\ Running
    /\ tx \notin sent
    /\ TxQueue' = Append(TxQueue, tx)
    /\ sent' = sent \cup {tx}
    /\ UNCHANGED <<disk, CurrentBlock, trieMem, PartitionMap, AllStateMapTx, Flag,
                   pc, job, offered, clock>>

Update_PartitionMap(key, val) ==
    /\ Running
    /\ PartitionMap' = [k \in DOMAIN PartitionMap \cup {key} |->
                            IF k = key THEN val ELSE PartitionMap[k]]
    /\ UNCHANGED <<disk, CurrentBlock, trieMem, TxQueue, AllStateMapTx, Flag,
                   pc, job, world>>

-----------------------------------------------------------------------------
(* GenerateBlock and AddBlock: how the calls begin. *)

PackedTxs == Packed(TxQueue, BlockSize)

GenerateBlock ==
    /\ pc = "idle"
    /\ clock < MaxTime
    /\ clock' = clock + 1
    /\ TxQueue' = Rest(TxQueue, BlockSize)
    /\ job' = Job("generate",
                  NewBlock(NewHeader(CurrentBlock.Hash, CurrentBlock.Header.Number + 1,
                                     clock + 1, Len(PackedTxs), None, PackedTxs),
                           PackedTxs))
    /\ pc' = "execute"
    /\ UNCHANGED <<disk, CurrentBlock, trieMem, PartitionMap, AllStateMapTx, Flag,
                   offered, sent>>

\* Mutant of HeightCorrect: an old height is accepted too.
HeightNotAbove(b) == b.Header.Number <= CurrentBlock.Header.Number + 1

HeightCorrect(b) == b.Header.Number = CurrentBlock.Header.Number + 1

\* AddBlock once the height is accepted: a block of another miner is executed
\* again, then the block becomes the current one and is stored.
Accept(b) ==
    /\ job' = Job("add", b)
    /\ IF b.Header.Miner # NodeID
       THEN pc' = "execute" /\ UNCHANGED CurrentBlock
       ELSE pc' = "putBlock" /\ CurrentBlock' = b

\* A block of another height is refused: nothing changes.  Callers may give
\* a block that was generated before a restart, or the same block again.
AddBlock(b) ==
    /\ pc = "idle"
    /\ HeightCorrect(b)
    /\ b.Header.Number <= MaxHeight
    /\ Accept(b)
    /\ UNCHANGED <<disk, trieMem, PartitionMap, TxQueue, AllStateMapTx, Flag, world>>

-----------------------------------------------------------------------------
(* GetUpdateStatusTrie. *)

\* Mutant of GetUpdateStatusTrie: the map is kept as it is, assignments included.
MapKept ==
    /\ pc = "execute"
    /\ IF job.blk.Body # << >> /\ ~Readable(StateRoot)
       THEN Dies("panic")
       ELSE /\ pc' = IF job.blk.Body = << >> THEN "return" ELSE "debit"
            /\ job' = [job EXCEPT !.st = StateRoot]
            /\ UNCHANGED <<disk, CurrentBlock, trieMem, PartitionMap, TxQueue, AllStateMapTx,
                           Flag, world>>

\* The map is replaced before anything else, without pmlock.
GetUpdateStatusTrie ==
    /\ pc = "execute"
    /\ IF job.blk.Body # << >> /\ ~Readable(StateRoot)
       THEN Dies("panic")
       ELSE /\ PartitionMap' = MapInfo
            /\ pc' = IF job.blk.Body = << >> THEN "return" ELSE "debit"
            /\ job' = [job EXCEPT !.st = StateRoot]
            /\ UNCHANGED <<disk, CurrentBlock, trieMem, TxQueue, AllStateMapTx, Flag, world>>

CurrentTx == job.blk.Body[job.i + 1]

AtShard(key) == Get_PartitionMap(PartitionMap, key) = ShardID

\* Mutant of Advance: the same transaction is taken again.
AdvanceAgain(j) ==
    /\ job' = j
    /\ pc' = IF j.i + 1 = Len(j.blk.Body) THEN "return" ELSE "debit"

\* The loop goes on with the next transaction, or ends.
Advance(j) ==
    /\ job' = [j EXCEPT !.i = @ + 1]
    /\ pc' = IF j.i + 1 = Len(j.blk.Body) THEN "return" ELSE "debit"

Wrote(st) ==
    [call |-> job.call, blk |-> job.blk, i |-> job.i, st |-> st, cnt |-> job.cnt + 1]

\* Mutant of Enough: the balance is not compared.
EnoughAlways(tx) == TRUE

Enough(tx) == SenderState(job.st, job.i, tx).Balance >= tx.Value

\* The sender's side: debit, pass over a sender that is not debited here, or
\* skip the whole transaction when the balance is too small.
Debit ==
    /\ pc = "debit"
    /\ LET tx == CurrentTx
           here == ~tx.Relayed /\ AtShard(tx.Sender)
       IN  \/ /\ here /\ Enough(tx)
              /\ job' = Wrote(DebitSender(job.st, job.i, tx))
              /\ pc' = "credit"
           \/ /\ here /\ ~Enough(tx)
              /\ Advance(job)
           \/ /\ ~here
              /\ pc' = "credit"
              /\ UNCHANGED job
    /\ UNCHANGED <<disk, memory, world>>

\* The recipient's side, first reading of the map.
Credit ==
    /\ pc = "credit"
    /\ LET tx == CurrentTx
           here == AtShard(tx.Recipient) \/ tx.HasBroker
       IN  \/ /\ here
              /\ Advance(Wrote(CreditRecipient(job.st, job.i, tx)))
           \/ /\ ~here
              /\ pc' = "recheck"
              /\ UNCHANGED job
    /\ UNCHANGED <<disk, memory, world>>

\* The else-if reads the map again; if the recipient has moved here in between,
\* neither branch is taken.
CreditElsewhere ==
    /\ pc = "recheck"
    /\ LET tx == CurrentTx
           st == CreditVirtual(job.st, job.i, tx)
           v == VirtualRecipient(tx)
       IN  \/ /\ ~AtShard(tx.Recipient) \/ tx.HasBroker
              /\ Advance(Wrote(st))
              /\ AllStateMapTx' = Update(AllStateMapTx, v, st[v])
           \/ /\ AtShard(tx.Recipient) /\ ~tx.HasBroker
              /\ Advance(job)
              /\ UNCHANGED AllStateMapTx
    /\ UNCHANGED <<disk, CurrentBlock, trieMem, PartitionMap, TxQueue, Flag, world>>

\* The root that GetUpdateStatusTrie returns, and what it commits.
ReturnedRoot == IF job.cnt = 0 THEN StateRoot ELSE job.st

\* Mutant of CommitExecuted: the new trie stays in memory.
CommitNotWritten ==
    IF job.cnt = 0
    THEN UNCHANGED <<trieDisk, trieMem, Flag>>
    ELSE /\ trieMem' = trieMem \cup {job.st}
         /\ Flag' = TRUE
         /\ UNCHANGED trieDisk

CommitExecuted ==
    IF job.cnt = 0
    THEN UNCHANGED <<trieDisk, trieMem, Flag>>
    ELSE /\ trieDisk' = trieDisk \cup {job.st}
         /\ trieMem' = trieMem \ {job.st}
         /\ Flag' = TRUE

\* GenerateBlock fills in the root, seals the block and hands it to its caller.
ReturnGenerate ==
    /\ pc = "return" /\ job.call = "generate"
    /\ CommitExecuted
    /\ offered' = offered \cup
                    {Sealed([job.blk EXCEPT !.Header.StateRoot = ReturnedRoot])}
    /\ pc' = "idle"
    /\ job' = None
    /\ UNCHANGED <<blockBucket, blockHeaderBucket, newestBlockHash, CurrentBlock,
                   PartitionMap, TxQueue, AllStateMapTx, sent, clock>>

\* AddBlock only prints the root of its own execution and goes on to store.
ReturnAdd ==
    /\ pc = "return" /\ job.call = "add"
    /\ CommitExecuted
    /\ CurrentBlock' = job.blk
    /\ pc' = "putBlock"
    /\ UNCHANGED <<blockBucket, blockHeaderBucket, newestBlockHash,
                   PartitionMap, TxQueue, AllStateMapTx, job, world>>

-----------------------------------------------------------------------------
(* AddAccounts and AddAccount. *)

\* Mutant of CommitInjected: nothing is written at all.
CommitNothing(root) ==
    /\ trieMem' = trieMem \cup {root}
    /\ UNCHANGED trieDisk

\* st.Commit and triedb.Update put the new trie into memory; triedb.Commit is
\* given the root from before, so it writes that one if it was not yet written.
CommitInjected(root) ==
    LET dirty == trieMem \cup ({root} \ (trieDisk \cup {EmptyTrie}))
    IN  /\ trieDisk' = trieDisk \cup ({StateRoot} \cap dirty)
        /\ trieMem' = dirty \ {StateRoot}

\* Mutant of InjectionBlock: the height is not increased.
InjectionBlockSameHeight(root) ==
    Sealed(NewBlock(NewHeader(CurrentBlock.Hash, CurrentBlock.Header.Number,
                              0, 0, root, << >>), << >>))

InjectionBlock(root) ==
    Sealed(NewBlock(NewHeader(CurrentBlock.Hash, CurrentBlock.Header.Number + 1,
                              0, 0, root, << >>), << >>))

\* Both open the trie of the current block first, unless the batch is empty.
Inject(batch, root) ==
    /\ IF DOMAIN batch = {} THEN UNCHANGED <<trieDisk, trieMem>> ELSE CommitInjected(root)
    /\ UNCHANGED <<blockBucket, blockHeaderBucket, newestBlockHash,
                   PartitionMap, TxQueue, AllStateMapTx, Flag, world>>

MayInject ==
    pc = "idle" /\ CurrentBlock.Header.Number < MaxHeight

Opens(batch) == DOMAIN batch = {} \/ Readable(StateRoot)

\* Stores its block itself.
AddAccounts(batch) ==
    LET root == InjectedLocal(StateRoot, PartitionMap, batch)
    IN  /\ MayInject
        /\ IF Opens(batch)
           THEN /\ Inject(batch, root)
                /\ job' = Job("add", InjectionBlock(root))
                /\ CurrentBlock' = InjectionBlock(root)
                /\ pc' = "putBlock"
           ELSE Dies("panic")

\* Goes through AddBlock.
AddAccount(batch) ==
    LET root == InjectedAny(StateRoot, batch)
    IN  /\ MayInject
        /\ IF Opens(batch)
           THEN Inject(batch, root) /\ Accept(InjectionBlock(root))
           ELSE Dies("panic")

-----------------------------------------------------------------------------
(* Storage.AddBlock: three bolt transactions, one after the other. *)

\* Mutant of PutBlock: Storage.AddBlock does not call AddBlockHeader.
PutBlockOnly ==
    /\ pc = "putBlock"
    /\ blockBucket' = [h \in DOMAIN blockBucket \cup {job.blk.Hash} |->
                          IF h = job.blk.Hash THEN job.blk ELSE blockBucket[h]]
    /\ pc' = "putNewest"
    /\ UNCHANGED <<blockHeaderBucket, newestBlockHash, trieDisk, memory, job, world>>

PutBlock ==
    /\ pc = "putBlock"
    /\ blockBucket' = [h \in DOMAIN blockBucket \cup {job.blk.Hash} |->
                          IF h = job.blk.Hash THEN job.blk ELSE blockBucket[h]]
    /\ pc' = "putHeader"
    /\ UNCHANGED <<blockHeaderBucket, newestBlockHash, trieDisk, memory, job, world>>

PutHeader ==
    /\ pc = "putHeader"
    /\ blockHeaderBucket' = [h \in DOMAIN blockHeaderBucket \cup {job.blk.Hash} |->
                                IF h = job.blk.Hash THEN job.blk.Header
                                                    ELSE blockHeaderBucket[h]]
    /\ pc' = "putNewest"
    /\ UNCHANGED <<blockBucket, newestBlockHash, trieDisk, memory, job, world>>

\* Ends the call; AddGenisisBlock then reads the block back as CurrentBlock.
PutNewest ==
    /\ pc = "putNewest"
    /\ newestBlockHash' = [k \in {"OnlyNewestBlock"} |-> job.blk.Hash]
    /\ CurrentBlock' = IF job.call = "genisis" THEN blockBucket[job.blk.Hash] ELSE CurrentBlock
    /\ pc' = "idle"
    /\ job' = None
    /\ UNCHANGED <<blockBucket, blockHeaderBucket, trieDisk, trieMem, PartitionMap,
                   TxQueue, AllStateMapTx, Flag, world>>

-----------------------------------------------------------------------------

Execution == GetUpdateStatusTrie \/ Debit \/ Credit \/ CreditElsewhere
                \/ ReturnGenerate \/ ReturnAdd

Storing == PutBlock \/ PutHeader \/ PutNewest

Next ==
    \/ NewBlockChain
    \/ CloseBlockChain
    \/ Crash
    \/ \E tx \in Txs : SendTx2Pool(tx)
    \/ \E u \in Updates : Update_PartitionMap(u[1], u[2])
    \/ GenerateBlock
    \/ \E b \in offered : AddBlock(b)
    \/ \E batch \in Injections : AddAccounts(batch) \/ AddAccount(batch)
    \/ Execution
    \/ Storing

Spec == Init /\ [][Next]_vars
=============================================================================
