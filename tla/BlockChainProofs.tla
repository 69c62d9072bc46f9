-------------------------- MODULE BlockChainProofs --------------------------
(***************************************************************************)
(* Proofs that IInv is an inductive invariant of BlockChain and that the   *)
(* safety properties of BlockChainProps follow from it, for every set of   *)
(* accounts, transactions, injections and updates and for every bound.     *)
(***************************************************************************)
EXTENDS BlockChainInv, FiniteSetTheorems, TLAPS

-----------------------------------------------------------------------------
(* Every write to a status trie gives a status trie: keys are addresses or *)
(* virtual addresses and no balance is ever negative.                      *)

\* The default placement of an account is a natural number.
LEMMA Addr2ShardType ==
    ASSUME NEW a \in Accounts
    PROVE  Addr2Shard(a) \in Nat
BY ShardNumAssumption, AddrNumAssumption DEF Addr2Shard

\* The empty trie is a trie.
LEMMA EmptyTrieType == IsTrie(EmptyTrie)
BY FS_EmptySet DEF IsTrie, EmptyTrie

\* Reading a key of a trie, or making the missing account up, gives a state.
LEMMA GetType ==
    ASSUME NEW st, IsTrie(st), NEW key, NEW nonce \in Nat, NEW balance \in Nat
    PROVE  Get(st, key, nonce, balance) \in AccountState
BY DEF Get, IsTrie, AccountState

\* Writing an account state under a key of the right kind keeps a trie a trie.
LEMMA UpdateType ==
    ASSUME NEW st, IsTrie(st), NEW key \in Keys, NEW acc \in AccountState
    PROVE  IsTrie(Update(st, key, acc))
<1>1. IsFiniteSet(DOMAIN st \cup {key})
  BY FS_AddElement DEF IsTrie
<1> QED BY <1>1 DEF Update, IsTrie

\* Deduct refuses rather than go below zero.
LEMMA DeductType ==
    ASSUME NEW acc \in AccountState, NEW value \in Nat
    PROVE  Deduct(acc, value) \in AccountState
<1>1. acc.Balance \in Nat /\ acc.Nonce \in Nat
  BY DEF AccountState
<1>2. CASE acc.Balance < value
  BY <1>2 DEF Deduct
<1>3. CASE ~(acc.Balance < value)
  <2>1. acc.Balance - value \in Nat
    BY <1>1, <1>3
  <2>2. [acc EXCEPT !.Balance = @ - value] \in AccountState
    BY <2>1 DEF AccountState
  <2> QED BY <1>3, <2>2 DEF Deduct
<1> QED BY <1>2, <1>3

\* A deposit gives an account state.
LEMMA DepositType ==
    ASSUME NEW acc \in AccountState, NEW value \in Nat
    PROVE  Deposit(acc, value) \in AccountState
<1>1. acc.Balance + value \in Nat
  BY DEF AccountState
<1> QED BY <1>1 DEF Deposit, AccountState

\* The three writes of GetUpdateStatusTrie keep a trie a trie.
LEMMA ExecutionType ==
    ASSUME NEW st, IsTrie(st), NEW i \in Nat, NEW tx,
           tx.Sender \in Accounts, tx.Recipient \in Accounts, tx.Value \in Nat
    PROVE  /\ IsTrie(DebitSender(st, i, tx))
           /\ IsTrie(CreditRecipient(st, i, tx))
           /\ IsTrie(CreditVirtual(st, i, tx))
           /\ VirtualRecipient(tx) \in Keys
           /\ CreditVirtual(st, i, tx)[VirtualRecipient(tx)] \in AccountState
<1>1. tx.Sender \in Keys /\ tx.Recipient \in Keys
  BY DEF Keys
<1>2. VirtualRecipient(tx) \in Keys
  BY Addr2ShardType DEF VirtualRecipient, AddrVirtualAccount, Keys
<1>3. SenderState(st, i, tx) \in AccountState
  BY GetType, BalanceAssumption DEF SenderState
<1>4. IsTrie(DebitSender(st, i, tx))
  BY <1>1, <1>3, DeductType, UpdateType DEF DebitSender
<1>5. Deposit(Get(st, tx.Recipient, i, Init_Balance), tx.Value) \in AccountState
  BY GetType, DepositType, BalanceAssumption
<1>6. IsTrie(CreditRecipient(st, i, tx))
  BY <1>1, <1>5, UpdateType DEF CreditRecipient
<1>7. Deposit(Get(st, VirtualRecipient(tx), i, VirtualInit_Balance), tx.Value) \in AccountState
  BY GetType, DepositType, BalanceAssumption
<1>8. IsTrie(CreditVirtual(st, i, tx))
  BY <1>2, <1>7, UpdateType DEF CreditVirtual
<1>9. CreditVirtual(st, i, tx)[VirtualRecipient(tx)] \in AccountState
  BY <1>7 DEF CreditVirtual, Update
<1> QED BY <1>2, <1>4, <1>6, <1>8, <1>9

\* Injecting a batch of accounts keeps a trie a trie, for both functions.
LEMMA InjectionType ==
    ASSUME NEW st, IsTrie(st), NEW pm, NEW batch, IsTrie(batch)
    PROVE  /\ IsTrie(InjectedLocal(st, pm, batch))
           /\ IsTrie(InjectedAny(st, batch))
<1>1. IsTrie(InjectedLocal(st, pm, batch))
  <2> DEFINE local == {a \in DOMAIN batch : Get_PartitionMap(pm, a) = ShardID}
  <2>1. local \in SUBSET DOMAIN batch /\ IsFiniteSet(DOMAIN batch) /\ IsFiniteSet(DOMAIN st)
    BY DEF IsTrie
  <2>2. IsFiniteSet(DOMAIN st \cup local)
    BY <2>1, FS_Subset, FS_Union
  <2> QED BY <2>2 DEF InjectedLocal, IsTrie
<1>2. ASSUME NEW k \in DOMAIN st \cup DOMAIN batch
      PROVE  InjectedAny(st, batch)[k] \in AccountState
  <2>1. CASE k \notin DOMAIN batch
    BY <2>1 DEF InjectedAny, IsTrie
  <2>2. CASE k \in DOMAIN batch /\ k \in DOMAIN st
    <3>1. st[k] \in AccountState /\ batch[k].Balance \in Nat
      BY <2>2 DEF IsTrie, AccountState
    <3> QED BY <2>2, <3>1, DepositType DEF InjectedAny
  <2>3. CASE k \in DOMAIN batch /\ k \notin DOMAIN st
    <3>1. batch[k] \in AccountState
      BY <2>3 DEF IsTrie
    <3> QED BY <2>3, <3>1, DepositType, BalanceAssumption DEF InjectedAny
  <2> QED BY <2>1, <2>2, <2>3
<1>3. DOMAIN InjectedAny(st, batch) = DOMAIN st \cup DOMAIN batch
  BY DEF InjectedAny
<1>4. InjectedAny(st, batch) = [k \in DOMAIN st \cup DOMAIN batch |-> InjectedAny(st, batch)[k]]
  BY DEF InjectedAny
<1>5. IsFiniteSet(DOMAIN st \cup DOMAIN batch)
  BY FS_Union DEF IsTrie
<1> QED BY <1>1, <1>2, <1>3, <1>4, <1>5 DEF IsTrie

-----------------------------------------------------------------------------
(* Frames: what a step keeps that leaves the block buckets alone and only  *)
(* adds to the tries.                                                      *)

\* The stored and the offered blocks stay as they should be.
LEMMA DiskFrame ==
    ASSUME BucketsOK, OfferedOK, trieDisk \subseteq trieDisk',
           UNCHANGED <<blockBucket, blockHeaderBucket, newestBlockHash, offered>>
    PROVE  BucketsOK' /\ OfferedOK'
<1>1. BucketsOK'
  BY DEF BucketsOK, StoredOK, GoodBlock, ExecutedDurable, HasNewest, Newest, Tip, Parent
<1>2. OfferedOK'
  BY DEF OfferedOK, GoodBlock, HasNewest, Newest, Tip, Parent
<1> QED BY <1>1, <1>2

\* A root that can be opened can still be opened.
LEMMA ReadableFrame ==
    ASSUME NEW root, Readable(root),
           trieMem \cup trieDisk \subseteq trieMem' \cup trieDisk'
    PROVE  Readable(root)'
BY DEF Readable

\* A block that may become the current one still may.
LEMMA StorableFrame ==
    ASSUME NEW b, Storable(b), trieDisk \subseteq trieDisk',
           trieMem \cup trieDisk \subseteq trieMem' \cup trieDisk',
           UNCHANGED <<blockBucket, newestBlockHash>>
    PROVE  Storable(b)'
<1>1. Readable(b.Header.StateRoot)'
  BY ReadableFrame DEF Storable
<1> QED BY <1>1 DEF Storable, ChildOfTip, ExecutedDurable, Newest, Tip, Parent

\* The end of the process keeps the invariant: it only forgets.
LEMMA DiesInv ==
    ASSUME IInv, NEW where \in {"down", "panic"}, Dies(where)
    PROVE  IInv'
<1>1. BucketsOK' /\ OfferedOK'
  BY DiskFrame DEF IInv, Dies, disk, world
<1>2. StoppedOK' /\ CurrentOK' /\ ExecutingOK' /\ PuttingOK'
  BY DEF Dies, StoppedOK, CurrentOK, ExecutingOK, PuttingOK, Executing, Putting
<1>3. RestOK'
  <2>1. Flag' \in BOOLEAN
    BY DEF Dies
  <2>2. TxQueue' \in Seq(Txs)
    BY DEF Dies
  <2> QED BY <2>1, <2>2, EmptyTrieType DEF IInv, RestOK, Dies, disk, world, Stages, EmptyMap
<1> QED BY <1>1, <1>2, <1>3 DEF IInv

-----------------------------------------------------------------------------
(* Init. *)

\* Every initial state satisfies the invariant.
LEMMA InitInv == Init => IInv
<1> SUFFICES ASSUME Init PROVE IInv
  OBVIOUS
<1> USE DEF Init, EmptyMap
<1>1. BucketsOK
  BY DEF BucketsOK, HasNewest
<1>2. OfferedOK /\ StoppedOK /\ CurrentOK /\ ExecutingOK /\ PuttingOK
  BY DEF OfferedOK, StoppedOK, CurrentOK, ExecutingOK, PuttingOK, Executing, Putting
<1>3. RestOK
  <2>1. Flag \in BOOLEAN
    OBVIOUS
  <2>2. TxQueue \in Seq(Txs)
    OBVIOUS
  <2> QED BY <2>1, <2>2, EmptyTrieType DEF RestOK, Stages
<1> QED BY <1>1, <1>2, <1>3 DEF IInv

-----------------------------------------------------------------------------
(* One lemma per action. *)

\* Opening: a fresh file begins with the genisis block, an existing one with
\* its newest block.
LEMMA NewBlockChainInv ==
    ASSUME IInv, NewBlockChain
    PROVE  IInv'
<1>1. CASE OpenFresh
  <2> USE <1>1 DEF OpenFresh
  <2>1. BucketsOK' /\ OfferedOK'
    BY DiskFrame DEF IInv, disk, world
  <2>2. StoppedOK' /\ CurrentOK' /\ ExecutingOK'
    BY DEF StoppedOK, CurrentOK, ExecutingOK, Executing
  <2>3. PuttingOK'
    <3>1. job' = Job("genisis", NewGenisisBlock(EmptyTrie)) /\ pc' = "putBlock"
      OBVIOUS
    <3>2. CurrentBlock' = None /\ ~HasNewest'
      BY DEF IInv, StoppedOK, NewBlockChain, memory, disk, HasNewest
    <3>3. IsJob(job')
      <4>1. NewGenisisBlock(EmptyTrie).Body = << >>
        BY DEF NewGenisisBlock, Sealed, NewBlock
      <4>2. NewGenisisBlock(EmptyTrie).Body \in Seq(Txs)
        BY <4>1
      <4> QED BY <3>1, <4>2, EmptyTrieType DEF IsJob, Job
    <3> QED BY <3>1, <3>2, <3>3 DEF PuttingOK, Job
  <2>4. RestOK'
    BY DEF IInv, RestOK, Stages, disk, memory, world
  <2> QED BY <2>1, <2>2, <2>3, <2>4 DEF IInv
<1>2. CASE OpenExisting
  <2> USE <1>2 DEF OpenExisting
  <2>1. BucketsOK' /\ OfferedOK'
    BY DiskFrame DEF IInv, disk, world
  <2>2. HasNewest
    BY DEF IInv, BucketsOK, HasNewest
  <2>3. StoppedOK'
    BY DEF IInv, StoppedOK, NewBlockChain
  <2>4. CurrentOK'
    BY <2>2 DEF CurrentOK, HasNewest, Newest, Tip, Readable, StateRoot, Executing, disk
  <2>5. ExecutingOK' /\ PuttingOK'
    BY DEF ExecutingOK, PuttingOK, Executing, Putting
  <2>6. RestOK'
    BY DEF IInv, RestOK, Stages, disk, world
  <2> QED BY <2>1, <2>3, <2>4, <2>5, <2>6 DEF IInv
<1> QED BY <1>1, <1>2 DEF NewBlockChain

\* Sending a transaction only lengthens the queue.
LEMMA SendTx2PoolInv ==
    ASSUME IInv, NEW tx \in Txs, SendTx2Pool(tx)
    PROVE  IInv'
<1> USE DEF SendTx2Pool
<1>1. BucketsOK' /\ OfferedOK'
  BY DiskFrame DEF IInv, disk
<1>2. StoppedOK' /\ CurrentOK'
  BY DEF IInv, StoppedOK, CurrentOK, HasNewest, Newest, Tip, Readable, StateRoot, disk
<1>3. ExecutingOK'
  BY StorableFrame DEF IInv, ExecutingOK, Draft, disk
<1>4. PuttingOK'
  BY StorableFrame DEF IInv, PuttingOK, HasNewest, disk
<1>5. RestOK'
  BY DEF IInv, RestOK, disk
<1> QED BY <1>1, <1>2, <1>3, <1>4, <1>5 DEF IInv

\* So does an update with the partition map.
LEMMA Update_PartitionMapInv ==
    ASSUME IInv, NEW u \in Updates, Update_PartitionMap(u[1], u[2])
    PROVE  IInv'
<1> USE DEF Update_PartitionMap
<1>1. BucketsOK' /\ OfferedOK'
  BY DiskFrame DEF IInv, disk, world
<1>2. StoppedOK' /\ CurrentOK'
  BY DEF IInv, StoppedOK, CurrentOK, HasNewest, Newest, Tip, Readable, StateRoot, disk
<1>3. ExecutingOK'
  BY StorableFrame DEF IInv, ExecutingOK, Draft, disk, world
<1>4. PuttingOK'
  BY StorableFrame DEF IInv, PuttingOK, HasNewest, disk
<1>5. RestOK'
  <2>1. u[1] \in Accounts /\ u[2] \in Nat
    BY UpdatesAssumption
  <2> QED BY <2>1 DEF IInv, RestOK, disk, world
<1> QED BY <1>1, <1>2, <1>3, <1>4, <1>5 DEF IInv

-----------------------------------------------------------------------------
(* How calls begin. *)

\* The locals of a call that begins are well formed.
LEMMA JobType ==
    ASSUME NEW call, NEW b, b.Body \in Seq(Txs)
    PROVE  /\ IsJob(Job(call, b))
           /\ Job(call, b).call = call
           /\ Job(call, b).blk = b
           /\ Job(call, b).i = 0
BY EmptyTrieType DEF IsJob, Job

\* AddBlock past its height check, for a block that may become the current one.
LEMMA AcceptOK ==
    ASSUME IInv, pc = "idle", NEW b, Accept(b), Storable(b)',
           trieMem \cup trieDisk \subseteq trieMem' \cup trieDisk',
           UNCHANGED <<blockBucket, newestBlockHash>>
    PROVE  StoppedOK' /\ CurrentOK' /\ ExecutingOK' /\ PuttingOK'
<1>1. b.Body \in Seq(Txs)
  BY DEF Storable, GoodBlock, IsBlock
<1>2. job' = Job("add", b) /\ IsJob(job') /\ job'.call = "add" /\ job'.blk = b /\ job'.i = 0
  BY <1>1, JobType DEF Accept
<1>3. HasNewest /\ CurrentBlock = Tip /\ Readable(StateRoot)
  BY DEF IInv, CurrentOK
<1>4. CASE pc' = "execute" /\ UNCHANGED CurrentBlock
  <2>1. CurrentOK'
    <3>1. Readable(StateRoot)'
      BY <1>3, <1>4 DEF Readable, StateRoot
    <3> QED BY <1>3, <1>4, <3>1 DEF CurrentOK, HasNewest, Tip, Newest
  <2>2. ExecutingOK'
    BY <1>2, <1>4 DEF ExecutingOK, Executing
  <2> QED BY <1>4, <2>1, <2>2 DEF StoppedOK, PuttingOK, Putting
<1>5. CASE pc' = "putBlock" /\ CurrentBlock' = b
  <2>1. PuttingOK'
    BY <1>2, <1>3, <1>5 DEF PuttingOK, HasNewest
  <2> QED BY <1>5, <2>1 DEF StoppedOK, CurrentOK, ExecutingOK, Executing
<1> QED BY <1>4, <1>5 DEF Accept

\* GenerateBlock begins with a draft on top of the current block.
LEMMA GenerateBlockInv ==
    ASSUME IInv, GenerateBlock
    PROVE  IInv'
<1> USE DEF GenerateBlock
<1>1. BucketsOK' /\ OfferedOK'
  BY DiskFrame DEF IInv, disk
<1>2. TxQueue \in Seq(Txs) /\ clock \in Nat
  BY DEF IInv, RestOK
<1>3. PackedTxs \in Seq(Txs)
  BY <1>2, BlockSizeAssumption DEF PackedTxs, Packed
<1>4. Rest(TxQueue, BlockSize) \in Seq(Txs)
  BY <1>2, <1>3 DEF Rest, PackedTxs
<1>5. ExecutingOK'
  <2> DEFINE d == NewBlock(NewHeader(CurrentBlock.Hash, CurrentBlock.Header.Number + 1,
                                     clock + 1, Len(PackedTxs), None, PackedTxs), PackedTxs)
  <2>1. d.Body = PackedTxs
    BY DEF NewBlock
  <2>2. job' = Job("generate", d) /\ IsJob(job') /\ job'.call = "generate" /\ job'.blk = d
    BY <1>3, <2>1, JobType
  <2>3. Draft(d, clock + 1)
    BY <2>1 DEF Draft
  <2>4. Draft(job.blk, clock)'
    BY <2>2, <2>3 DEF Draft
  <2>5. job'.i = 0
    BY <1>3, <2>1, JobType
  <2> QED BY <2>2, <2>4, <2>5 DEF ExecutingOK
<1>6. StoppedOK' /\ CurrentOK' /\ PuttingOK'
  BY DEF IInv, StoppedOK, CurrentOK, PuttingOK, Putting, HasNewest, Newest, Tip,
         Readable, StateRoot, disk
<1>7. RestOK'
  BY <1>2, <1>4 DEF IInv, RestOK, Stages, disk
<1> QED BY <1>1, <1>5, <1>6, <1>7 DEF IInv

\* A block that was offered and has the next height may become the current one.
LEMMA AddBlockInv ==
    ASSUME IInv, NEW b \in offered, AddBlock(b)
    PROVE  IInv'
<1> USE DEF AddBlock
<1>1. BucketsOK' /\ OfferedOK'
  BY DiskFrame DEF IInv, disk, world
<1>2. HasNewest /\ CurrentBlock = Tip /\ Readable(StateRoot)
  BY DEF IInv, CurrentOK
<1>3. Storable(b)
  <2>1. GoodBlock(b) /\ ChildOfTip(b)
    BY <1>2 DEF IInv, OfferedOK, ChildOfTip, HeightCorrect
  <2>2. Parent(b) = Tip
    BY <2>1 DEF ChildOfTip, Parent, Tip
  <2>3. b.Header.StateRoot \in trieDisk \/ b.Header.StateRoot = Tip.Header.StateRoot
    BY <2>2 DEF IInv, OfferedOK
  <2>4. Readable(b.Header.StateRoot)
    BY <1>2, <2>3 DEF Readable, StateRoot
  <2> QED BY <2>1, <2>2, <2>3, <2>4 DEF Storable, ExecutedDurable
<1>4. Storable(b)'
  BY <1>3, StorableFrame DEF disk
<1>5. StoppedOK' /\ CurrentOK' /\ ExecutingOK' /\ PuttingOK'
  BY <1>4, AcceptOK DEF disk
<1>6. RestOK'
  <2>1. pc' \in Stages
    BY DEF Accept, Stages
  <2> QED BY <2>1 DEF IInv, RestOK, disk, world
<1> QED BY <1>1, <1>5, <1>6 DEF IInv

-----------------------------------------------------------------------------
(* Executing the transactions of a block. *)

\* GetUpdateStatusTrie never panics: the current trie can be opened.
LEMMA GetUpdateStatusTrieInv ==
    ASSUME IInv, GetUpdateStatusTrie
    PROVE  IInv'
<1> USE DEF GetUpdateStatusTrie
<1>1. CASE job.blk.Body # << >> /\ ~Readable(StateRoot)
  BY <1>1, DiesInv
<1>2. CASE ~(job.blk.Body # << >> /\ ~Readable(StateRoot))
  <2> USE <1>2
  <2>1. BucketsOK' /\ OfferedOK'
    BY DiskFrame DEF IInv, disk, world
  <2>2. StoppedOK' /\ CurrentOK' /\ PuttingOK'
    BY DEF IInv, StoppedOK, CurrentOK, PuttingOK, Executing, Putting, HasNewest, Newest,
           Tip, Readable, StateRoot, disk
  <2>3. IsJob(job) /\ job.call \in {"generate", "add"}
    BY DEF IInv, ExecutingOK, Executing
  <2>4. IsTrie(StateRoot)
    BY DEF IInv, CurrentOK, BucketsOK, StoredOK, GoodBlock, HasRoot, StateRoot, Tip, Executing
  <2>5. job'.call = job.call /\ job'.blk = job.blk /\ job'.i = job.i /\ IsJob(job')
    BY <2>3, <2>4 DEF IsJob
  <2>6. ExecutingOK'
    <3>1. pc' \in {"debit", "credit", "recheck"} => job'.i < Len(job'.blk.Body)
      <4>1. job.i = 0 /\ job.blk.Body \in Seq(Txs)
        BY <2>3 DEF IInv, ExecutingOK, Executing, IsJob
      <4>2. job.blk.Body # << >> => 0 < Len(job.blk.Body)
        BY <4>1
      <4> QED BY <2>5, <4>1, <4>2
    <3> QED BY <2>3, <2>5, <3>1, StorableFrame DEF IInv, ExecutingOK, Draft, disk, world, Executing
  <2>7. RestOK'
    BY ShardDataAssumption DEF IInv, RestOK, Stages, disk, world, MapInfo
  <2> QED BY <2>1, <2>2, <2>6, <2>7 DEF IInv
<1> QED BY <1>1, <1>2

\* The transaction a step of the loop is at.
LEMMA CurrentTxType ==
    ASSUME IInv, pc \in {"debit", "credit", "recheck"}
    PROVE  /\ IsJob(job) /\ job.i < Len(job.blk.Body)
           /\ CurrentTx.Sender \in Accounts /\ CurrentTx.Recipient \in Accounts
           /\ CurrentTx.Value \in Nat
<1>1. IsJob(job) /\ job.i < Len(job.blk.Body)
  BY DEF IInv, ExecutingOK, Executing
<1>2. CurrentTx \in Txs
  BY <1>1 DEF CurrentTx, IsJob
<1> QED BY <1>1, <1>2, TxsAssumption

\* A write changes the trie and the count of the locals only.
LEMMA WroteType ==
    ASSUME IsJob(job), NEW st, IsTrie(st)
    PROVE  /\ IsJob(Wrote(st)) /\ Wrote(st).call = job.call
           /\ Wrote(st).blk = job.blk /\ Wrote(st).i = job.i
<1>1. job.cnt + 1 \in Nat
  BY DEF IsJob
<1> QED BY <1>1 DEF IsJob, Wrote

\* The loop goes on inside the body, or ends.
LEMMA AdvanceType ==
    ASSUME NEW j, IsJob(j), j.i < Len(j.blk.Body), Advance(j)
    PROVE  /\ IsJob(job') /\ job'.call = j.call /\ job'.blk = j.blk
           /\ pc' \in {"debit", "return"}
           /\ pc' = "debit" => job'.i < Len(job'.blk.Body)
BY DEF IsJob, Advance

\* A step of the loop that keeps the locals well formed keeps the invariant.
LEMMA LoopStep ==
    ASSUME IInv, pc \in {"debit", "credit", "recheck"}, pc' \in Executing \ {"execute"},
           IsJob(job'), job'.call = job.call, job'.blk = job.blk,
           pc' # "return" => job'.i < Len(job'.blk.Body),
           IsTrie(AllStateMapTx'),
           UNCHANGED <<disk, CurrentBlock, trieMem, PartitionMap, TxQueue, Flag, world>>
    PROVE  IInv'
<1>1. BucketsOK' /\ OfferedOK'
  BY DiskFrame DEF IInv, disk, world
<1>2. StoppedOK' /\ CurrentOK' /\ PuttingOK'
  BY DEF IInv, StoppedOK, CurrentOK, PuttingOK, Executing, Putting, HasNewest, Newest,
         Tip, Readable, StateRoot, disk
<1>3. ExecutingOK'
  BY StorableFrame DEF IInv, ExecutingOK, Draft, disk, world, Executing
<1>4. RestOK'
  BY DEF IInv, RestOK, Stages, Executing, disk, world
<1> QED BY <1>1, <1>2, <1>3, <1>4 DEF IInv

\* The sender's side of a transaction.
LEMMA DebitInv ==
    ASSUME IInv, Debit
    PROVE  IInv'
<1> DEFINE tx == CurrentTx
           here == ~tx.Relayed /\ AtShard(tx.Sender)
<1>1. IsJob(job) /\ job.i < Len(job.blk.Body)
  BY CurrentTxType DEF Debit
<1>2. UNCHANGED <<disk, memory, world>> /\ pc = "debit" /\ IsTrie(AllStateMapTx')
  BY DEF Debit, memory, IInv, RestOK
<1>3. CASE job' = Wrote(DebitSender(job.st, job.i, tx)) /\ pc' = "credit"
  <2>1. IsTrie(DebitSender(job.st, job.i, tx))
    BY <1>1, <1>2, CurrentTxType, ExecutionType DEF IsJob
  <2>2. IsJob(job') /\ job'.call = job.call /\ job'.blk = job.blk /\ job'.i = job.i
    BY <1>1, <1>3, <2>1, WroteType
  <2> QED BY <1>1, <1>2, <1>3, <2>2, LoopStep DEF Executing, memory
<1>4. CASE Advance(job)
  <2>1. /\ IsJob(job') /\ job'.call = job.call /\ job'.blk = job.blk
        /\ pc' \in {"debit", "return"}
        /\ pc' = "debit" => job'.i < Len(job'.blk.Body)
    BY <1>1, <1>4, AdvanceType
  <2> QED BY <1>2, <2>1, LoopStep DEF Executing, memory
<1>5. CASE pc' = "credit" /\ UNCHANGED job
  BY <1>1, <1>2, <1>5, LoopStep DEF Executing, memory
<1> QED BY <1>3, <1>4, <1>5 DEF Debit

\* The recipient's side, on this shard.
LEMMA CreditInv ==
    ASSUME IInv, Credit
    PROVE  IInv'
<1> DEFINE tx == CurrentTx
           st == CreditRecipient(job.st, job.i, tx)
<1>1. IsJob(job) /\ job.i < Len(job.blk.Body)
  BY CurrentTxType DEF Credit
<1>2. UNCHANGED <<disk, memory, world>> /\ pc = "credit" /\ IsTrie(AllStateMapTx')
  BY DEF Credit, memory, IInv, RestOK
<1>3. CASE Advance(Wrote(st))
  <2>1. IsTrie(st)
    BY <1>1, <1>2, CurrentTxType, ExecutionType DEF IsJob
  <2>2. /\ IsJob(Wrote(st)) /\ Wrote(st).call = job.call
        /\ Wrote(st).blk = job.blk /\ Wrote(st).i = job.i
    BY <1>1, <2>1, WroteType
  <2> HIDE DEF st
  <2>3. /\ IsJob(job') /\ job'.call = job.call /\ job'.blk = job.blk
        /\ pc' \in {"debit", "return"}
        /\ pc' = "debit" => job'.i < Len(job'.blk.Body)
    BY <1>1, <1>3, <2>2, AdvanceType
  <2> QED BY <1>2, <2>3, LoopStep DEF Executing, memory
<1>4. CASE pc' = "recheck" /\ UNCHANGED job
  BY <1>1, <1>2, <1>4, LoopStep DEF Executing, memory
<1> QED BY <1>3, <1>4 DEF Credit

\* The recipient's side, elsewhere or nowhere.
LEMMA CreditElsewhereInv ==
    ASSUME IInv, CreditElsewhere
    PROVE  IInv'
<1> DEFINE tx == CurrentTx
           st == CreditVirtual(job.st, job.i, tx)
           v == VirtualRecipient(tx)
<1>1. IsJob(job) /\ job.i < Len(job.blk.Body)
  BY CurrentTxType DEF CreditElsewhere
<1>2. UNCHANGED <<disk, CurrentBlock, trieMem, PartitionMap, TxQueue, Flag, world>>
        /\ pc = "recheck" /\ IsTrie(AllStateMapTx)
  BY DEF CreditElsewhere, IInv, RestOK
<1>3. CASE Advance(Wrote(st)) /\ AllStateMapTx' = Update(AllStateMapTx, v, st[v])
  <2>1. IsTrie(st) /\ v \in Keys /\ st[v] \in AccountState
    BY <1>1, <1>2, CurrentTxType, ExecutionType DEF IsJob
  <2>2. /\ IsJob(Wrote(st)) /\ Wrote(st).call = job.call
        /\ Wrote(st).blk = job.blk /\ Wrote(st).i = job.i
    BY <1>1, <2>1, WroteType
  <2> HIDE DEF st, v
  <2>3. IsTrie(AllStateMapTx')
    BY <1>2, <1>3, <2>1, UpdateType
  <2>4. /\ IsJob(job') /\ job'.call = job.call /\ job'.blk = job.blk
        /\ pc' \in {"debit", "return"}
        /\ pc' = "debit" => job'.i < Len(job'.blk.Body)
    BY <1>1, <1>3, <2>2, AdvanceType
  <2> QED BY <1>2, <2>3, <2>4, LoopStep DEF Executing
<1>4. CASE Advance(job) /\ UNCHANGED AllStateMapTx
  <2>1. /\ IsJob(job') /\ job'.call = job.call /\ job'.blk = job.blk
        /\ pc' \in {"debit", "return"}
        /\ pc' = "debit" => job'.i < Len(job'.blk.Body)
    BY <1>1, <1>4, AdvanceType
  <2> QED BY <1>2, <1>4, <2>1, LoopStep DEF Executing
<1> QED BY <1>3, <1>4 DEF CreditElsewhere

\* Committing an executed trie only adds to the disk.
LEMMA CommitExecutedOK ==
    ASSUME RestOK, IsJob(job), CommitExecuted
    PROVE  /\ trieDisk \subseteq trieDisk'
           /\ trieMem \cup trieDisk \subseteq trieMem' \cup trieDisk'
           /\ \A st \in trieDisk' \cup trieMem' : IsTrie(st)
           /\ Flag' \in BOOLEAN
<1>1. /\ trieDisk \subseteq trieDisk'
      /\ trieMem \cup trieDisk \subseteq trieMem' \cup trieDisk'
      /\ \A st \in trieDisk' \cup trieMem' : IsTrie(st)
  BY DEF CommitExecuted, RestOK, IsJob
<1>2. Flag' \in BOOLEAN
  BY DEF CommitExecuted, RestOK
<1> QED BY <1>1, <1>2

\* The block GenerateBlock returns is a child of the current block whose state
\* is on disk or is the current one.
LEMMA ReturnGenerateInv ==
    ASSUME IInv, ReturnGenerate
    PROVE  IInv'
<1> USE DEF ReturnGenerate
<1>1. IsJob(job) /\ Draft(job.blk, clock) /\ job.blk.Body \in Seq(Txs)
  BY DEF IInv, ExecutingOK, Executing, IsJob
<1>2. HasNewest /\ CurrentBlock = Tip /\ Readable(StateRoot)
  BY DEF IInv, CurrentOK, Executing
<1>3. /\ trieDisk \subseteq trieDisk'
      /\ trieMem \cup trieDisk \subseteq trieMem' \cup trieDisk'
      /\ \A st \in trieDisk' \cup trieMem' : IsTrie(st)
      /\ Flag' \in BOOLEAN
  BY <1>1, CommitExecutedOK DEF IInv
<1>4. Newest \in DOMAIN blockBucket /\ GoodBlock(Tip) /\ Tip.Hash = Newest
  BY <1>2 DEF IInv, BucketsOK, StoredOK, Tip
<1> DEFINE H == NewHeader(Tip.Hash, Tip.Header.Number + 1, clock, Len(job.blk.Body),
                          None, job.blk.Body)
<1> PICK b : b = Sealed([job.blk EXCEPT !.Header.StateRoot = ReturnedRoot])
  OBVIOUS
<1>5. BucketsOK' /\ \A o \in offered :
        /\ GoodBlock(o)
        /\ o.Header.TxRoot = GetTxTreeRoot(o.Body)
        /\ HasNewest'
        /\ o.Header.ParentBlockHash \in DOMAIN blockBucket'
        /\ o.Header.Number <= Tip'.Header.Number + 1
        /\ o.Header.Number = Tip'.Header.Number + 1 => o.Header.ParentBlockHash = Newest'
        /\ \/ o.Header.StateRoot \in trieDisk'
           \/ o.Header.StateRoot = Parent(o)'.Header.StateRoot
  <2>1. BucketsOK'
    BY <1>3 DEF IInv, BucketsOK, StoredOK, GoodBlock, ExecutedDurable, HasNewest, Newest,
                Tip, Parent
  <2>2. QED BY <1>3, <2>1 DEF IInv, OfferedOK, HasNewest, Newest, Tip, Parent
<1>6. /\ b.Header = [H EXCEPT !.StateRoot = ReturnedRoot]
      /\ b.Body = job.blk.Body
      /\ b.Hash = Hash(b.Header)
      /\ b = [Header |-> b.Header, Body |-> b.Body, Hash |-> b.Hash]
  <2>1. job.blk = [Header |-> H, Body |-> job.blk.Body, Hash |-> None]
    BY <1>1, <1>2 DEF Draft, NewBlock
  <2> HIDE DEF H
  <2>2. [job.blk EXCEPT !.Header.StateRoot = ReturnedRoot]
          = [Header |-> [H EXCEPT !.StateRoot = ReturnedRoot],
             Body |-> job.blk.Body, Hash |-> None]
    BY <2>1
  <2> QED BY <2>2 DEF Sealed
<1>7. /\ b.Header.ParentBlockHash = Newest
      /\ b.Header.Number = Tip.Header.Number + 1
      /\ b.Header.StateRoot = ReturnedRoot
      /\ b.Header.TxRoot = GetTxTreeRoot(b.Body)
  BY <1>4, <1>6 DEF NewHeader
<1>8. IsTrie(ReturnedRoot) /\ (ReturnedRoot \in trieDisk' \/ ReturnedRoot = Tip.Header.StateRoot)
  BY <1>1, <1>2, <1>4 DEF ReturnedRoot, CommitExecuted, StateRoot, IsJob, GoodBlock, HasRoot
<1>9. GoodBlock(b)
  <2>1. Tip.Header.Number + 1 \in Nat
    BY <1>4 DEF GoodBlock, IsBlock
  <2> QED BY <1>1, <1>6, <1>7, <1>8, <2>1 DEF GoodBlock, IsBlock, HasRoot
<1>10. OfferedOK'
  <2>1. Tip' = Tip /\ Newest' = Newest /\ HasNewest'
    BY <1>2 DEF Tip, Newest, HasNewest
  <2>2. Parent(b)' = Tip
    BY <1>7 DEF Parent, Tip
  <2>3. offered' = offered \cup {b}
    OBVIOUS
  <2>4. Tip.Header.Number \in Nat
    BY <1>4 DEF GoodBlock, IsBlock
  <2> QED BY <1>4, <1>5, <1>7, <1>8, <1>9, <2>1, <2>2, <2>3, <2>4 DEF OfferedOK
<1>11. StoppedOK' /\ ExecutingOK' /\ PuttingOK'
  BY DEF StoppedOK, ExecutingOK, PuttingOK, Executing, Putting
<1>12. CurrentOK'
  <2>1. Readable(StateRoot)'
    BY <1>2, <1>3 DEF Readable, StateRoot
  <2> QED BY <1>2, <2>1 DEF CurrentOK, HasNewest, Tip, Newest
<1>13. RestOK'
  BY <1>3 DEF IInv, RestOK, Stages
<1> QED BY <1>5, <1>10, <1>11, <1>12, <1>13 DEF IInv

\* AddBlock stores the block it was given, whatever its own execution gave.
LEMMA ReturnAddInv ==
    ASSUME IInv, ReturnAdd
    PROVE  IInv'
<1> USE DEF ReturnAdd
<1>1. IsJob(job) /\ Storable(job.blk)
  BY DEF IInv, ExecutingOK, Executing
<1>2. HasNewest
  BY DEF IInv, CurrentOK, Executing
<1>3. /\ trieDisk \subseteq trieDisk'
      /\ trieMem \cup trieDisk \subseteq trieMem' \cup trieDisk'
      /\ \A st \in trieDisk' \cup trieMem' : IsTrie(st)
      /\ Flag' \in BOOLEAN
  BY <1>1, CommitExecutedOK DEF IInv
<1>4. BucketsOK' /\ OfferedOK'
  BY <1>3, DiskFrame DEF IInv, world
<1>5. PuttingOK'
  <2>1. Storable(job.blk)'
    BY <1>1, <1>3, StorableFrame
  <2> QED BY <1>1, <1>2, <2>1 DEF PuttingOK, HasNewest
<1>6. StoppedOK' /\ CurrentOK' /\ ExecutingOK'
  BY DEF StoppedOK, CurrentOK, ExecutingOK, Executing
<1>7. RestOK'
  BY <1>3 DEF IInv, RestOK, Stages, world
<1> QED BY <1>4, <1>5, <1>6, <1>7 DEF IInv

-----------------------------------------------------------------------------
(* Injecting accounts. *)

\* Committing the root from before the injection loses no trie, and the new
\* one can be opened from memory.
LEMMA InjectOK ==
    ASSUME NEW batch, NEW root, Inject(batch, root), Opens(batch),
           DOMAIN batch = {} => root = StateRoot,
           Readable(StateRoot), RestOK, IsTrie(root)
    PROVE  /\ trieDisk \subseteq trieDisk'
           /\ trieMem \cup trieDisk \subseteq trieMem' \cup trieDisk'
           /\ \A st \in trieDisk' \cup trieMem' : IsTrie(st)
           /\ Readable(root)'
<1>1. CASE DOMAIN batch = {}
  BY <1>1 DEF Inject, RestOK, Readable
<1>2. CASE DOMAIN batch # {}
  <2>1. CommitInjected(root)
    BY <1>2 DEF Inject
  <2>2. /\ trieDisk \subseteq trieDisk'
        /\ trieMem \cup trieDisk \subseteq trieMem' \cup trieDisk'
        /\ Readable(root)'
    BY <2>1 DEF CommitInjected, Readable
  <2>3. \A st \in trieDisk' \cup trieMem' : IsTrie(st)
    BY <2>1 DEF CommitInjected, RestOK
  <2> QED BY <2>2, <2>3
<1> QED BY <1>1, <1>2

\* The block of an injection is a child of the newest block.
LEMMA InjectionBlockOK ==
    ASSUME IInv, pc = "idle", NEW root, IsTrie(root), NEW b, b = InjectionBlock(root)
    PROVE  /\ GoodBlock(b) /\ ChildOfTip(b) /\ b.Body = << >>
           /\ b.Header.StateRoot = root
<1>1. HasNewest /\ CurrentBlock = Tip
  BY DEF IInv, CurrentOK
<1>2. Tip.Hash = Newest /\ Tip.Header.Number \in Nat
  BY <1>1 DEF IInv, BucketsOK, StoredOK, GoodBlock, IsBlock, Tip
<1> DEFINE H == NewHeader(CurrentBlock.Hash, CurrentBlock.Header.Number + 1, 0, 0, root, << >>)
<1>3. b = [Header |-> H, Body |-> << >>, Hash |-> Hash(H)]
  BY DEF InjectionBlock, Sealed, NewBlock
<1>4. /\ H.ParentBlockHash = Newest
      /\ H.Number = Tip.Header.Number + 1
      /\ H.StateRoot = root
  BY <1>1, <1>2 DEF NewHeader
<1> HIDE DEF H
<1>5. /\ b.Header = H /\ b.Body = << >> /\ b.Hash = Hash(H)
      /\ b = [Header |-> b.Header, Body |-> b.Body, Hash |-> b.Hash]
  BY <1>3
<1>6. b.Body \in Seq(Txs)
  BY <1>5
<1>7. b.Header.Number \in Nat
  BY <1>2, <1>4, <1>5
<1>8. IsBlock(b)
  BY <1>5, <1>6, <1>7 DEF IsBlock
<1> QED BY <1>4, <1>5, <1>8 DEF GoodBlock, HasRoot, ChildOfTip

\* What both functions do up to storing their block.
LEMMA InjectionStep ==
    ASSUME IInv, pc = "idle", NEW batch, NEW root, NEW b, Opens(batch),
           Inject(batch, root), DOMAIN batch = {} => root = StateRoot,
           IsTrie(root), b = InjectionBlock(root), pc' \in Stages
    PROVE  /\ BucketsOK' /\ OfferedOK' /\ RestOK' /\ Storable(b)'
           /\ trieMem \cup trieDisk \subseteq trieMem' \cup trieDisk'
           /\ UNCHANGED <<blockBucket, newestBlockHash>>
<1>1. HasNewest /\ CurrentBlock = Tip /\ Readable(StateRoot)
  BY DEF IInv, CurrentOK
<1>2. /\ trieDisk \subseteq trieDisk'
      /\ trieMem \cup trieDisk \subseteq trieMem' \cup trieDisk'
      /\ \A st \in trieDisk' \cup trieMem' : IsTrie(st)
      /\ Readable(root)'
  BY <1>1, InjectOK DEF IInv
<1>3. UNCHANGED <<blockBucket, blockHeaderBucket, newestBlockHash, PartitionMap, TxQueue,
                  AllStateMapTx, Flag, world>>
  BY DEF Inject
<1>4. BucketsOK' /\ OfferedOK'
  BY <1>2, <1>3, DiskFrame DEF IInv, world
<1>5. RestOK'
  BY <1>2, <1>3 DEF IInv, RestOK, world
<1>6. /\ GoodBlock(b) /\ ChildOfTip(b) /\ b.Body = << >>
      /\ b.Header.StateRoot = root
  BY InjectionBlockOK
<1>7. Storable(b)'
  BY <1>2, <1>3, <1>6 DEF Storable, ChildOfTip, ExecutedDurable, Newest, Tip
<1> QED BY <1>2, <1>3, <1>4, <1>5, <1>7

\* The roots the two functions compute.
LEMMA InjectedRoots ==
    ASSUME IInv, pc = "idle", NEW batch \in Injections
    PROVE  /\ IsTrie(InjectedLocal(StateRoot, PartitionMap, batch))
           /\ IsTrie(InjectedAny(StateRoot, batch))
           /\ DOMAIN batch = {} =>
                 /\ InjectedLocal(StateRoot, PartitionMap, batch) = StateRoot
                 /\ InjectedAny(StateRoot, batch) = StateRoot
<1>1. IsTrie(StateRoot)
  BY DEF IInv, CurrentOK, BucketsOK, StoredOK, GoodBlock, HasRoot, StateRoot, Tip
<1>2. IsTrie(batch)
  BY InjectionsAssumption
<1>3. ASSUME DOMAIN batch = {}
      PROVE  /\ InjectedLocal(StateRoot, PartitionMap, batch) = StateRoot
             /\ InjectedAny(StateRoot, batch) = StateRoot
  BY <1>1, <1>3 DEF InjectedLocal, InjectedAny, IsTrie
<1> QED BY <1>1, <1>2, <1>3, InjectionType

\* AddAccounts stores its own block.
LEMMA AddAccountsInv ==
    ASSUME IInv, NEW batch \in Injections, AddAccounts(batch)
    PROVE  IInv'
<1> USE DEF AddAccounts, MayInject
<1>1. CASE ~Opens(batch)
  BY <1>1, DiesInv
<1>2. CASE Opens(batch)
  <2> PICK root : root = InjectedLocal(StateRoot, PartitionMap, batch)
    OBVIOUS
  <2> PICK b : b = InjectionBlock(root)
    OBVIOUS
  <2>1. /\ Inject(batch, root) /\ job' = Job("add", b)
        /\ CurrentBlock' = b /\ pc' = "putBlock"
    BY <1>2
  <2>2. /\ BucketsOK' /\ OfferedOK' /\ RestOK' /\ Storable(b)'
        /\ UNCHANGED <<blockBucket, newestBlockHash>>
    BY <1>2, <2>1, InjectedRoots, InjectionStep DEF Stages
  <2>3. IsJob(job') /\ job'.call = "add" /\ job'.blk = b
    BY <2>1, <2>2, JobType DEF Storable, GoodBlock, IsBlock
  <2>4. HasNewest'
    BY <2>2 DEF IInv, CurrentOK, HasNewest
  <2>5. PuttingOK'
    BY <2>1, <2>2, <2>3, <2>4 DEF PuttingOK
  <2>6. StoppedOK' /\ CurrentOK' /\ ExecutingOK'
    BY <2>1 DEF StoppedOK, CurrentOK, ExecutingOK, Executing
  <2> QED BY <2>2, <2>5, <2>6 DEF IInv
<1> QED BY <1>1, <1>2

\* AddAccount hands its block to AddBlock.
LEMMA AddAccountInv ==
    ASSUME IInv, NEW batch \in Injections, AddAccount(batch)
    PROVE  IInv'
<1> USE DEF AddAccount, MayInject
<1>1. CASE ~Opens(batch)
  BY <1>1, DiesInv
<1>2. CASE Opens(batch)
  <2> PICK root : root = InjectedAny(StateRoot, batch)
    OBVIOUS
  <2> PICK b : b = InjectionBlock(root)
    OBVIOUS
  <2>1. Inject(batch, root) /\ Accept(b)
    BY <1>2
  <2>2. pc' \in Stages
    BY <2>1 DEF Accept, Stages
  <2>3. /\ BucketsOK' /\ OfferedOK' /\ RestOK' /\ Storable(b)'
        /\ trieMem \cup trieDisk \subseteq trieMem' \cup trieDisk'
        /\ UNCHANGED <<blockBucket, newestBlockHash>>
    BY <1>2, <2>1, <2>2, InjectedRoots, InjectionStep
  <2>4. StoppedOK' /\ CurrentOK' /\ ExecutingOK' /\ PuttingOK'
    BY <2>1, <2>3, AcceptOK
  <2> QED BY <2>3, <2>4 DEF IInv
<1> QED BY <1>1, <1>2

-----------------------------------------------------------------------------
(* Storing a block. *)

\* Storing the block adds it to the bucket; if its hash was there already, the
\* header under it is the same, so no stored block loses its parent.
LEMMA PutBlockInv ==
    ASSUME IInv, PutBlock
    PROVE  IInv'
<1> USE DEF PutBlock
<1> PICK b : b = job.blk
  OBVIOUS
<1>1. /\ job.call \in {"genisis", "add"} /\ IsJob(job)
      /\ job.call = "genisis" => /\ ~HasNewest /\ b = NewGenisisBlock(EmptyTrie)
                                 /\ CurrentBlock = None
      /\ job.call = "add" => HasNewest /\ CurrentBlock = b /\ Storable(b)
  BY DEF IInv, PuttingOK, Putting
<1>2. GoodBlock(b) /\ ((b.Header.Number = 0 /\ b.Body = << >>) \/ job.call = "add")
  <2>1. CASE job.call = "add"
    BY <1>1, <2>1 DEF Storable
  <2>2. CASE job.call = "genisis"
    <3> DEFINE H == NewHeader(None, 0, 0, 0, EmptyTrie, << >>)
    <3>1. b = [Header |-> H, Body |-> << >>, Hash |-> Hash(H)]
      BY <1>1, <2>2 DEF NewGenisisBlock, Sealed, NewBlock
    <3>2. H.Number = 0 /\ H.StateRoot = EmptyTrie
      BY DEF NewHeader
    <3> HIDE DEF H
    <3>3. /\ b.Header = H /\ b.Body = << >> /\ b.Hash = Hash(H)
          /\ b = [Header |-> b.Header, Body |-> b.Body, Hash |-> b.Hash]
      BY <3>1
    <3>4. b.Body \in Seq(Txs)
      BY <3>3
    <3> QED BY <3>2, <3>3, <3>4, EmptyTrieType DEF GoodBlock, IsBlock, HasRoot
  <2> QED BY <1>1, <2>1, <2>2
<1>3. DOMAIN blockBucket' = DOMAIN blockBucket \cup {b.Hash} /\ blockBucket'[b.Hash] = b
  OBVIOUS
<1>4. \A h \in DOMAIN blockBucket : blockBucket'[h].Header = blockBucket[h].Header
  <2> SUFFICES ASSUME NEW h \in DOMAIN blockBucket
               PROVE  blockBucket'[h].Header = blockBucket[h].Header
    OBVIOUS
  <2>1. CASE h # b.Hash
    BY <2>1
  <2>2. CASE h = b.Hash
    <3>1. Hash(blockBucket[h].Header) = Hash(b.Header)
      BY <1>2, <2>2 DEF IInv, BucketsOK, StoredOK, GoodBlock, IsBlock
    <3>2. blockBucket[h].Header = b.Header
      BY <3>1 DEF Hash
    <3> QED BY <1>3, <2>2, <3>2
  <2> QED BY <2>1, <2>2
<1>5. HasNewest => Newest \in DOMAIN blockBucket /\ Tip'.Header = Tip.Header
  BY <1>4 DEF IInv, BucketsOK, Tip, Newest
<1>6. BucketsOK'
  <2>1. ASSUME NEW h \in DOMAIN blockBucket' PROVE StoredOK(h)'
    <3>1. CASE h = b.Hash
      <4>1. CASE job.call = "add"
        <5>1. b.Header.ParentBlockHash = Newest /\ b.Header.Number = Tip.Header.Number + 1
          BY <1>1, <4>1 DEF Storable, ChildOfTip
        <5>2. Parent(b)'.Header = Tip.Header /\ Parent(b).Header = Tip.Header
          BY <1>1, <1>5, <4>1, <5>1 DEF Parent, Tip, Newest
        <5>3. ExecutedDurable(b)'
          BY <1>1, <4>1, <5>2 DEF Storable, ExecutedDurable
        <5> QED BY <1>1, <1>2, <1>3, <1>5, <3>1, <4>1, <5>1, <5>2, <5>3 DEF StoredOK
      <4>2. CASE b.Header.Number = 0 /\ b.Body = << >>
        BY <1>2, <1>3, <3>1, <4>2 DEF StoredOK, ExecutedDurable
      <4> QED BY <1>2, <4>1, <4>2
    <3>2. CASE h # b.Hash
      <4>1. h \in DOMAIN blockBucket /\ blockBucket'[h] = blockBucket[h] /\ StoredOK(h)
        BY <3>2, <1>3 DEF IInv, BucketsOK
      <4>2. CASE blockBucket[h].Header.Number = 0 /\ blockBucket[h].Body = << >>
        BY <4>1, <4>2 DEF StoredOK, ExecutedDurable
      <4>3. CASE blockBucket[h].Header.ParentBlockHash \in DOMAIN blockBucket
        <5> PICK c : c = blockBucket[h]
          OBVIOUS
        <5>1. Parent(c)'.Header = Parent(c).Header
          BY <1>4, <4>3 DEF Parent
        <5> QED BY <1>3, <4>1, <4>3, <5>1 DEF StoredOK, ExecutedDurable
      <4> QED BY <4>1, <4>2, <4>3 DEF StoredOK
    <3> QED BY <3>1, <3>2
  <2> QED BY <1>3, <1>5, <2>1 DEF IInv, BucketsOK, HasNewest, Newest
<1>7. OfferedOK'
  <2> SUFFICES ASSUME NEW o \in offered
               PROVE  /\ GoodBlock(o)
                      /\ o.Header.TxRoot = GetTxTreeRoot(o.Body)
                      /\ HasNewest'
                      /\ o.Header.ParentBlockHash \in DOMAIN blockBucket'
                      /\ o.Header.Number <= Tip'.Header.Number + 1
                      /\ o.Header.Number = Tip'.Header.Number + 1
                            => o.Header.ParentBlockHash = Newest'
                      /\ \/ o.Header.StateRoot \in trieDisk'
                         \/ o.Header.StateRoot = Parent(o)'.Header.StateRoot
    BY DEF OfferedOK, world
  <2>1. /\ HasNewest /\ o.Header.ParentBlockHash \in DOMAIN blockBucket
        /\ GoodBlock(o) /\ o.Header.TxRoot = GetTxTreeRoot(o.Body)
        /\ o.Header.Number <= Tip.Header.Number + 1
        /\ o.Header.Number = Tip.Header.Number + 1 => o.Header.ParentBlockHash = Newest
        /\ \/ o.Header.StateRoot \in trieDisk
           \/ o.Header.StateRoot = Parent(o).Header.StateRoot
    BY DEF IInv, OfferedOK
  <2>2. Parent(o)'.Header = Parent(o).Header
    BY <1>4, <2>1 DEF Parent
  <2> QED BY <1>3, <1>5, <2>1, <2>2 DEF HasNewest, Newest
<1>8. PuttingOK'
  <2>1. ASSUME job.call = "add" PROVE HasNewest' /\ CurrentBlock' = b /\ Storable(b)'
    <3>1. b.Header.ParentBlockHash = Newest /\ b.Header.Number = Tip.Header.Number + 1
      BY <1>1, <2>1 DEF Storable, ChildOfTip
    <3>2. Parent(b)'.Header = Tip.Header /\ Parent(b).Header = Tip.Header
      BY <1>1, <1>5, <2>1, <3>1 DEF Parent, Tip, Newest
    <3>3. Readable(b.Header.StateRoot)'
      BY <1>1, <2>1 DEF Storable, Readable, memory
    <3> QED BY <1>1, <1>5, <2>1, <3>1, <3>2, <3>3
            DEF Storable, ChildOfTip, ExecutedDurable, HasNewest, Newest, memory
  <2> QED BY <1>1, <1>3, <2>1 DEF PuttingOK, HasNewest, memory
<1>9. StoppedOK' /\ CurrentOK' /\ ExecutingOK'
  BY DEF StoppedOK, CurrentOK, ExecutingOK, Executing
<1>10. RestOK'
  BY DEF IInv, RestOK, Stages, memory, world
<1> QED BY <1>6, <1>7, <1>8, <1>9, <1>10 DEF IInv

\* Storing the header touches the header bucket only.
LEMMA PutHeaderInv ==
    ASSUME IInv, PutHeader
    PROVE  IInv'
<1> USE DEF PutHeader
<1> PICK b : b = job.blk
  OBVIOUS
<1>1. b.Hash \in DOMAIN blockBucket /\ blockBucket[b.Hash] = b
  BY DEF IInv, PuttingOK, Putting
<1>2. BucketsOK'
  <2>1. \A h \in DOMAIN blockBucket : StoredOK(h)'
    BY DEF IInv, BucketsOK, StoredOK, GoodBlock, ExecutedDurable, Parent
  <2>2. HasNewest' => /\ Newest' \in DOMAIN blockHeaderBucket'
                      /\ blockHeaderBucket'[Newest'] = Tip'.Header
    BY <1>1 DEF IInv, BucketsOK, HasNewest, Newest, Tip
  <2> QED BY <2>1, <2>2 DEF IInv, BucketsOK, HasNewest, Newest
<1>3. OfferedOK'
  BY DEF IInv, OfferedOK, GoodBlock, HasNewest, Newest, Tip, Parent, world
<1>4. PuttingOK'
  <2>1. job.call = "add" => Storable(b)'
    BY StorableFrame DEF IInv, PuttingOK, Putting, memory
  <2> QED BY <1>1, <2>1 DEF IInv, PuttingOK, Putting, HasNewest, memory
<1>5. StoppedOK' /\ CurrentOK' /\ ExecutingOK'
  BY DEF StoppedOK, CurrentOK, ExecutingOK, Executing
<1>6. RestOK'
  BY DEF IInv, RestOK, Stages, memory, world
<1> QED BY <1>2, <1>3, <1>4, <1>5, <1>6 DEF IInv

\* The newest hash moves to the stored block, which was one above it.
LEMMA PutNewestInv ==
    ASSUME IInv, PutNewest
    PROVE  IInv'
<1> USE DEF PutNewest
<1> PICK b : b = job.blk
  OBVIOUS
<1>1. /\ b.Hash \in DOMAIN blockBucket /\ blockBucket[b.Hash] = b
      /\ b.Hash \in DOMAIN blockHeaderBucket /\ blockHeaderBucket[b.Hash] = b.Header
      /\ job.call \in {"genisis", "add"}
      /\ job.call = "genisis" => ~HasNewest /\ b = NewGenisisBlock(EmptyTrie)
      /\ job.call = "add" => HasNewest /\ CurrentBlock = b /\ Storable(b)
  BY DEF IInv, PuttingOK, Putting
<1>2. HasNewest' /\ Newest' = b.Hash /\ Tip' = b /\ DOMAIN newestBlockHash' = {"OnlyNewestBlock"}
  BY <1>1 DEF HasNewest, Newest, Tip
<1>3. BucketsOK'
  <2>1. \A h \in DOMAIN blockBucket : StoredOK(h)'
    BY DEF IInv, BucketsOK, StoredOK, GoodBlock, ExecutedDurable, Parent
  <2> QED BY <1>1, <1>2, <2>1 DEF BucketsOK
<1>4. OfferedOK'
  <2> SUFFICES ASSUME NEW o \in offered
               PROVE  /\ GoodBlock(o)
                      /\ o.Header.TxRoot = GetTxTreeRoot(o.Body)
                      /\ o.Header.ParentBlockHash \in DOMAIN blockBucket
                      /\ o.Header.Number <= b.Header.Number + 1
                      /\ o.Header.Number = b.Header.Number + 1
                            => o.Header.ParentBlockHash = b.Hash
                      /\ \/ o.Header.StateRoot \in trieDisk
                         \/ o.Header.StateRoot = Parent(o).Header.StateRoot
    BY <1>2 DEF OfferedOK, world, Parent
  <2>1. /\ HasNewest /\ o.Header.ParentBlockHash \in DOMAIN blockBucket
        /\ GoodBlock(o) /\ o.Header.TxRoot = GetTxTreeRoot(o.Body)
        /\ o.Header.Number <= Tip.Header.Number + 1
        /\ \/ o.Header.StateRoot \in trieDisk
           \/ o.Header.StateRoot = Parent(o).Header.StateRoot
    BY DEF IInv, OfferedOK
  <2>2. b.Header.Number = Tip.Header.Number + 1
    BY <1>1, <2>1 DEF Storable, ChildOfTip
  <2>3. Tip.Header.Number \in Nat /\ o.Header.Number \in Nat
    BY <2>1 DEF IInv, BucketsOK, StoredOK, GoodBlock, IsBlock, Tip
  <2> QED BY <2>1, <2>2, <2>3
<1>5. CurrentOK'
  <2>1. CurrentBlock' = b
    BY <1>1
  <2>2. Readable(b.Header.StateRoot)
    <3>1. CASE job.call = "add"
      BY <1>1, <3>1 DEF Storable
    <3>2. CASE job.call = "genisis"
      <4> DEFINE H == NewHeader(None, 0, 0, 0, EmptyTrie, << >>)
      <4>1. b = [Header |-> H, Body |-> << >>, Hash |-> Hash(H)]
        BY <1>1, <3>2 DEF NewGenisisBlock, Sealed, NewBlock
      <4>2. H.StateRoot = EmptyTrie
        BY DEF NewHeader
      <4> HIDE DEF H
      <4> QED BY <4>1, <4>2 DEF Readable
    <3> QED BY <1>1, <3>1, <3>2
  <2>3. Readable(StateRoot)'
    BY <2>1, <2>2 DEF Readable, StateRoot
  <2> QED BY <1>2, <2>1, <2>3 DEF CurrentOK
<1>6. StoppedOK' /\ ExecutingOK' /\ PuttingOK'
  BY DEF StoppedOK, ExecutingOK, PuttingOK, Executing, Putting
<1>7. RestOK'
  BY DEF IInv, RestOK, Stages, world
<1> QED BY <1>3, <1>4, <1>5, <1>6, <1>7 DEF IInv

-----------------------------------------------------------------------------
(* The invariant holds throughout. *)

\* Every step keeps the invariant.
LEMMA NextInv == IInv /\ [Next]_vars => IInv'
<1> SUFFICES ASSUME IInv, [Next]_vars PROVE IInv'
  OBVIOUS
<1>1. CASE NewBlockChain
  BY <1>1, NewBlockChainInv
<1>2. CASE CloseBlockChain
  BY <1>2, DiesInv DEF CloseBlockChain
<1>3. CASE Crash
  BY <1>3, DiesInv DEF Crash
<1>4. CASE \E tx \in Txs : SendTx2Pool(tx)
  BY <1>4, SendTx2PoolInv
<1>5. CASE \E u \in Updates : Update_PartitionMap(u[1], u[2])
  BY <1>5, Update_PartitionMapInv
<1>6. CASE GenerateBlock
  BY <1>6, GenerateBlockInv
<1>7. CASE \E b \in offered : AddBlock(b)
  BY <1>7, AddBlockInv
<1>8. CASE \E batch \in Injections : AddAccounts(batch) \/ AddAccount(batch)
  BY <1>8, AddAccountsInv, AddAccountInv
<1>9. CASE Execution
  BY <1>9, GetUpdateStatusTrieInv, DebitInv, CreditInv, CreditElsewhereInv,
     ReturnGenerateInv, ReturnAddInv DEF Execution
<1>10. CASE Storing
  BY <1>10, PutBlockInv, PutHeaderInv, PutNewestInv DEF Storing
<1>11. CASE UNCHANGED vars
  <2> USE <1>11 DEF vars, disk, memory, world
  <2>1. BucketsOK' /\ OfferedOK'
    BY DiskFrame DEF IInv
  <2>2. StoppedOK' /\ CurrentOK'
    BY DEF IInv, StoppedOK, CurrentOK, HasNewest, Newest, Tip, Readable, StateRoot
  <2>3. ExecutingOK' /\ PuttingOK'
    BY StorableFrame DEF IInv, ExecutingOK, PuttingOK, Draft, HasNewest
  <2>4. RestOK'
    BY DEF IInv, RestOK
  <2> QED BY <2>1, <2>2, <2>3, <2>4 DEF IInv
<1> QED BY <1>1, <1>2, <1>3, <1>4, <1>5, <1>6, <1>7, <1>8, <1>9, <1>10, <1>11 DEF Next

\* IInv is an invariant of the specification.
THEOREM Invariance == Spec => []IInv
BY InitInv, NextInv, PTL DEF Spec

\* Type correctness: no balance in any stored, offered or unfinished state is
\* ever negative, and blocks carry the hash of their header.
THEOREM TypeCorrect == Spec => []TypeOK
<1>1. IInv => TypeOK
  <2> SUFFICES ASSUME IInv PROVE TypeOK
    OBVIOUS
  <2>1. \A h \in DOMAIN blockBucket : IsBlock(blockBucket[h]) /\ HasRoot(blockBucket[h])
    BY DEF IInv, BucketsOK, StoredOK, GoodBlock
  <2>2. pc \notin {"down", "panic"} /\ CurrentBlock # None
            => IsBlock(CurrentBlock) /\ HasRoot(CurrentBlock)
    <3>1. CASE pc \in {"idle"} \cup Executing
      BY <2>1, <3>1 DEF IInv, CurrentOK, BucketsOK, Tip
    <3>2. CASE pc \in Putting
      BY <3>2 DEF IInv, PuttingOK, Storable, GoodBlock
    <3> QED BY <3>1, <3>2 DEF IInv, RestOK, Stages, Executing, Putting
  <2>3. pc \in Stages \ {"down", "panic", "idle"} =>
            /\ job.call \in {"genisis", "generate", "add"}
            /\ job.i \in Nat /\ job.cnt \in Nat /\ IsTrie(job.st)
    BY DEF IInv, ExecutingOK, PuttingOK, IsJob, Stages, Executing, Putting
  <2>4. \A b \in offered : IsBlock(b) /\ HasRoot(b)
    BY DEF IInv, OfferedOK, GoodBlock
  <2> QED BY <2>1, <2>2, <2>3, <2>4 DEF IInv, RestOK, BucketsOK, TypeOK
<1> QED BY <1>1, Invariance, PTL

\* Wherever the process dies, the newest hash names a block that is in both
\* buckets: the order in which Storage.AddBlock writes.
THEOREM NewestAlwaysComplete == Spec => []NewestComplete
<1>1. IInv => NewestComplete
  BY DEF IInv, BucketsOK, NewestComplete, HasNewest, Tip
<1> QED BY <1>1, Invariance, PTL

\* Every stored block hangs on the genisis block through stored parents, one
\* height at a time.
THEOREM ChainAlwaysIntact == Spec => []ChainIntact
<1>1. IInv => ChainIntact
  BY DEF IInv, BucketsOK, StoredOK, ChainIntact
<1> QED BY <1>1, Invariance, PTL

\* The height check of AddBlock is enough for the blocks this node generated.
THEOREM HeightIsEnough == Spec => []HeightImpliesValid
<1>1. IInv => HeightImpliesValid
  <2> SUFFICES ASSUME IInv, pc = "idle", NEW b \in offered, HeightCorrect(b)
               PROVE  IsValidBlock(b, CurrentBlock)
    BY DEF HeightImpliesValid
  <2>1. CurrentBlock = Tip /\ HasNewest
    BY DEF IInv, CurrentOK
  <2>2. Tip.Hash = Newest
    BY <2>1 DEF IInv, BucketsOK, StoredOK, Tip
  <2> QED BY <2>1, <2>2 DEF IInv, OfferedOK, HeightCorrect, IsValidBlock
<1> QED BY <1>1, Invariance, PTL

\* The trie of the current block can always be opened: no call panics.
THEOREM CurrentAlwaysReadable == Spec => []CurrentReadable
<1>1. IInv => CurrentReadable
  BY DEF IInv, CurrentOK, PuttingOK, Storable, RestOK, Stages, Executing, Putting,
         CurrentReadable, StateRoot
<1> QED BY <1>1, Invariance, PTL

\* The state of every stored block that executed transactions is on disk.
THEOREM ExecutedAlwaysDurable == Spec => []ExecutedRootsDurable
<1>1. IInv => ExecutedRootsDurable
  BY DEF IInv, BucketsOK, StoredOK, ExecutedDurable, ExecutedRootsDurable
<1> QED BY <1>1, Invariance, PTL

\* The newest hash only moves from a block to a child of it.
THEOREM TipOnlyExtends == Spec => TipExtends
<1> DEFINE Step == /\ newestBlockHash' # newestBlockHash
                   /\ DOMAIN newestBlockHash # {}
                   => /\ DOMAIN newestBlockHash' # {}
                      /\ blockBucket'[newestBlockHash'["OnlyNewestBlock"]].Header.ParentBlockHash
                            = Newest
<1>1. IInv /\ [Next]_vars => [Step]_vars
  <2> SUFFICES ASSUME IInv, Next PROVE Step
    OBVIOUS
  <2>1. CASE PutNewest
    <3> SUFFICES ASSUME DOMAIN newestBlockHash # {} PROVE Step
      OBVIOUS
    <3>1. HasNewest
      BY DEF IInv, BucketsOK, HasNewest
    <3>2. /\ job.call = "add" /\ Storable(job.blk)
          /\ blockBucket[job.blk.Hash] = job.blk
      BY <2>1, <3>1 DEF PutNewest, IInv, PuttingOK, Putting
    <3> QED BY <2>1, <3>2 DEF PutNewest, Storable, ChildOfTip
  <2>2. CASE ~PutNewest
    <3>1. UNCHANGED newestBlockHash
      BY <2>2 DEF Next, NewBlockChain, OpenFresh, OpenExisting, CloseBlockChain, Crash, Dies,
         SendTx2Pool, Update_PartitionMap, GenerateBlock, AddBlock, AddAccounts, AddAccount,
         Inject, Execution, GetUpdateStatusTrie, Debit, Credit, CreditElsewhere,
         ReturnGenerate, ReturnAdd, Storing, PutBlock, PutHeader, disk
    <3> QED BY <3>1
  <2> QED BY <2>1, <2>2
<1> QED BY <1>1, Invariance, PTL DEF Spec, TipExtends

\* A step of a call leaves fewer steps to make; the steps of other threads leave
\* pc and job alone.  So no call goes on for ever, whatever it is given.
THEOREM CallsAlwaysAdvance == Spec => CallsAdvance
<1> DEFINE Step == InCall /\ InCall' /\ ~UNCHANGED <<pc, job>> => Remaining' < Remaining
<1>1. IInv /\ [Next]_vars => [Step]_vars
  <2> SUFFICES ASSUME IInv, Next, InCall, InCall', ~UNCHANGED <<pc, job>>
               PROVE  Remaining' < Remaining
    OBVIOUS
  <2>1. pc \in Executing \cup Putting
    BY DEF InCall, IInv, RestOK, Stages, Executing, Putting
  <2>2. CASE Storing
    BY <2>2 DEF Storing, PutBlock, PutHeader, PutNewest, InCall, Remaining
  <2>3. CASE Execution
    <3>1. /\ pc \in Executing
          /\ IsJob(job) /\ Len(job.blk.Body) \in Nat
          /\ pc = "execute" => job.i = 0
          /\ pc \in {"debit", "credit", "recheck"} => job.i < Len(job.blk.Body)
      BY <2>3 DEF Execution, GetUpdateStatusTrie, Debit, Credit, CreditElsewhere, ReturnGenerate,
         ReturnAdd, IInv, ExecutingOK, Executing, IsJob
    <3>2. CASE GetUpdateStatusTrie
      <4>1. /\ pc = "execute"
            /\ pc' \in {"return", "debit"}
            /\ job'.i = job.i /\ job'.blk = job.blk
        BY <3>1, <3>2 DEF GetUpdateStatusTrie, Dies, InCall, IsJob
      <4> QED BY <3>1, <4>1 DEF Remaining, IsJob
    <3>3. ASSUME NEW j, Advance(j), j.i = job.i, j.blk = job.blk,
                 j = [call |-> j.call, blk |-> j.blk, i |-> j.i, st |-> j.st, cnt |-> j.cnt],
                 pc \in {"debit", "credit", "recheck"}
          PROVE  Remaining' < Remaining
      <4>1. job'.i = job.i + 1 /\ job'.blk = job.blk /\ pc' \in {"return", "debit"}
        BY <3>3 DEF Advance
      <4>2. job.i \in Nat /\ Len(job.blk.Body) \in Nat /\ job.i < Len(job.blk.Body)
        BY <3>1, <3>3 DEF IsJob
      <4> DEFINE left == Len(job.blk.Body) - job.i
      <4>3. left \in Nat /\ left >= 1 /\ Len(job.blk.Body) - (job.i + 1) = left - 1
        BY <4>2
      <4>4. Remaining \in {3 * left + 4, 3 * left + 3, 3 * left + 2}
        BY <3>3 DEF Remaining
      <4>5. Remaining' \in {3 * (left - 1) + 4, 4}
        <5>1. Len(job'.blk.Body) - job'.i = left - 1
          BY <4>1, <4>3
        <5> HIDE DEF left
        <5> QED BY <4>1, <5>1 DEF Remaining
      <4> HIDE DEF left
      <4> QED BY <4>3, <4>4, <4>5
    <3>4. ASSUME NEW st
          PROVE  LET w == Wrote(st)
                 IN  /\ w.i = job.i /\ w.blk = job.blk
                     /\ w = [call |-> w.call, blk |-> w.blk, i |-> w.i, st |-> w.st, cnt |-> w.cnt]
      BY DEF Wrote
    <3>5. CASE Debit
      <4>1. CASE /\ pc = "debit" /\ pc' = "credit"
                 /\ \/ job' = Wrote(DebitSender(job.st, job.i, CurrentTx))
                    \/ job' = job
        <5>1. job'.i = job.i /\ job'.blk = job.blk
          BY <3>4, <4>1
        <5> QED BY <3>1, <4>1, <5>1 DEF Remaining, IsJob
      <4>2. CASE pc = "debit" /\ Advance(job)
        BY <3>1, <3>3, <4>2 DEF IsJob
      <4> QED BY <3>5, <4>1, <4>2 DEF Debit
    <3>6. CASE Credit
      <4>1. CASE pc = "credit" /\ pc' = "recheck" /\ job' = job
        BY <3>1, <4>1 DEF Remaining, IsJob
      <4>2. CASE pc = "credit" /\ Advance(Wrote(CreditRecipient(job.st, job.i, CurrentTx)))
        BY <3>3, <3>4, <4>2
      <4> QED BY <3>6, <4>1, <4>2 DEF Credit
    <3>7. CASE CreditElsewhere
      <4>1. CASE pc = "recheck" /\ Advance(job)
        BY <3>1, <3>3, <4>1 DEF IsJob
      <4>2. CASE pc = "recheck" /\ Advance(Wrote(CreditVirtual(job.st, job.i, CurrentTx)))
        BY <3>3, <3>4, <4>2
      <4> QED BY <3>7, <4>1, <4>2 DEF CreditElsewhere
    <3>8. CASE ReturnGenerate \/ ReturnAdd
      BY <3>8 DEF ReturnGenerate, ReturnAdd, InCall, Remaining
    <3> QED BY <2>3, <3>2, <3>5, <3>6, <3>7, <3>8 DEF Execution
  <2>4. CASE ~Storing /\ ~Execution
    BY <2>1, <2>4 DEF Executing, Putting, Next, NewBlockChain, CloseBlockChain, Crash, Dies,
       SendTx2Pool, Update_PartitionMap, GenerateBlock, AddBlock, AddAccounts, AddAccount,
       MayInject, InCall
  <2> QED BY <2>2, <2>3, <2>4
<1> QED BY <1>1, Invariance, PTL DEF Spec, CallsAdvance
=============================================================================
