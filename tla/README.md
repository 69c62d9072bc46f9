# A verification project for the sharded blockchain and its dashboard

The repository holds the blockchain object of a node of a sharded chain (`chain/`,
`core/`, `storage/`, `utils/`), a package that reads the stored chain (`query/`), and a
web dashboard on top of it (`main.go`, `script.js`). This project models their logic in
TLA+, checks it with TLC and proves theorems with TLAPS about the blockchain object, its
block file, the execution of blocks, the transaction pool, the dashboard, the
transaction form and the parser of LevelDB's log.

(`go.mod` requires bolt only; `chain/` and `test/` import go-ethereum and do not build
with it as it stands. They are modelled as written, against the trie API of go-ethereum
1.11.)

## The system

| part | state | operations | talks to |
|---|---|---|---|
| blockchain object, `chain/blockchain.go` | current block, partition map (with its lock), pool, `AllStateMapTx`, flag | `NewBlockChain`, `CloseBlockChain`, `GenerateBlock`, `AddBlock`, `GetUpdateStatusTrie`, `AddAccounts`, `AddAccount`, `SendTx2Pool`, `Update_PartitionMap`, `FetchAccounts` | block store, trie database, pool |
| block store, `storage/storage.go` | a bolt file with three buckets: block, header, newest hash | `AddBlock` (three transactions), the getters | bolt |
| status trie, `core/account.go`, go-ethereum | tries in memory, tries in LevelDB | get, update, commit | LevelDB |
| blocks and transactions, `core/block.go`, `core/transaction.go` | none | hash, transaction root, validity | |
| placement, `utils/utils_partition.go` | none | `Addr2Shard`, `AddrVirtualAccount` | |
| transaction pool, `core/txpool.go` | queue, relay lists, a mutex that callers may also take | add, add at head, pack, relay, transfer, clear, lock, unlock | its callers, who hold packed batches |
| queries, `query/` | none | blocks, block, transactions, state root by height; newest block | the bolt file |
| form endpoint, `main.go` | `Transactions.csv` | `POST /api/transactions` | the file system, other requests |
| dashboard store, `main.go` | the listing, as read at the start | load, `Snapshot`, `QueryBlockTransactions` | queries, the bolt file lock, the page |
| LevelDB log parser, `main.go` | none | `parseLevelDBLog`, `parseBatch`, `readVarString` | the log a node's LevelDB writes |
| page, `script.js` | what is shown, the dialog of a block, the form, requests under way, a timer | `refresh`, `showModal`, `submitTransaction` | the endpoints |

What is hard in it:

- *Two databases and no transaction over both.* A block is three bolt transactions, its
  state a LevelDB commit. The process may die between any two of them.
- *A commit that is one root late.* `AddAccounts` and `AddAccount` pass the old root to
  `triedb.Commit`.
- *Acceptance by height alone.* `AddBlock` never calls `IsValidBlock`; blocks may come
  twice, late, or from before a restart.
- *A map read twice.* `GetUpdateStatusTrie` reads the recipient's shard twice under
  separate locks, and replaces the map at the start without a lock.
- *Aliased slices.* `PackTxs` returns a window on the queue's own array.
- *Handlers without a lock.* Requests race for the creation of `Transactions.csv`, and a
  request may write its row and never be answered.
- *A reader beside writers.* The dashboard opens the bolt file of a node that may be
  running (and waits for its lock), may have died in the middle of storing a block, or
  may never have run on this shard; it finds a block by its hash and its transactions by
  its height; it reads LevelDB's log as it is being written.
- *A page that outlives its server.* Answers come late, in any order, or from a server
  that was started again on a longer chain.

`PROJECT.json` lists these hazards at their lines, with the properties that cover them.

## The modules

**StatusTrie** (constants only). A trie is its contents, a partial function from keys to
account states; a root is the contents, as Merkle roots are taken to be injective. A
virtual address (an address with shard digits appended) is the pair of the two: real
addresses have one length, so no account's address looks like a virtual one
(`VirtualAssumption`). Placement, the three writes of an executed transaction, the loops
of the two injections, `FetchAccounts`, and `Supply`, the money of a trie.
Gob encodings are inverse to their decodings on the values the code stores and are left
out; balances are big integers and have no width.

**Blocks**. Headers, hashes (injective), the transaction root (keyed by transaction
hash, so the last of two equal hashes stays), validity.

**TxQueueOps**. The cut `PackTxs` and `PackRelayTxs` make, and the loop of `TransferTxs`
over a list (`Selected`).

**BlockChain** (extends the three). One thread calls the functions that build, add and
store blocks; `pc` and `job` follow it through one call, step by step: the start of
`GetUpdateStatusTrie` with its replacement of the map, debit, first reading of the map
for the recipient, second reading, commit, and the three bolt transactions. Between any
two steps other threads may send transactions or update the map (they take their own
locks), and the process may die. `trieDisk` and `trieMem` say which tries LevelDB has
and which only the trie database in memory. The genisis block takes the same storing
steps. A `log.Panic` ends the process (`Dies`). `offered` holds every block
`GenerateBlock` ever returned: callers may give any of them to `AddBlock`, at any later
time, repeatedly, and after a restart. Blocks from elsewhere are not given to it: a node
with `NodeID` 1 treats the blocks of miner 0 as another miner's and executes them again,
which is how replicas are covered.

A crash is a crash of the process: what was handed to the operating system stays. The
step that is refused (wrong height) changes nothing and is left out.

**Query**. A search by height is the set of its possible answers, because bolt visits
the blocks in the order of their hashes.

**BlockBucket**, **BlockFile**. The buckets as values, and the abstract specification of
a node's bolt file: blocks are only added, each on top of the newest, and the newest hash
only moves to a child of the block it names. BlockChain implements it (`IsBlockFile`,
with the block bucket and the newest hash as the refinement mapping).

**DashboardStore** (on Query and BlockBucket). The server: it starts, chooses a file per
shard, opens, reads and closes node 0's file shard by shard, serves, dies and is started
again; a request for a block's transactions looks the hash up in the listing, waits for
the file, searches it by height and closes it. Beside it nodes start, add blocks as
BlockFile allows, stop, and die between the block and the newest hash. Storing a block
and moving the newest hash are one step here unless the node dies in between: it holds the
lock on the file, so no reader sees the middle. `OldFiles` are left by nodes that do not
run any more. Listings are sets of views; of a view, height, hash, parent and number of
transactions are kept.

**Page** (on DashboardStore). `refresh` with its two fetches and the mock data; the dialog
of a block, its request and whatever answer arrives. `dialog.alone` is a history variable.
A mock block has a hash that no server knows, `None`.

**LevelDBLog**. The parser of the dashboard on bytes, and, as an external writer,
LevelDB's log growing chunk by chunk, torn at any byte. Lengths are varints of any number
of bytes (`Uvarint`, `PutUvarint`): the row of an account state is longer than 127 bytes,
so its length has two. A loop of the parser is the function of its states, turn by turn
(`Loop`, `RowLoop`), with as many turns as there can be. What is made of the rows,
`loadUserCount`, is left out: nothing is promised of that number (see the hazard at
`main.go:863`). The run has blocks of 50 bytes instead of 32 KiB; the theorems have blocks
of any length.

**BlockExecution** (on BlockChain). What the loop of `GetUpdateStatusTrie` computes when
nobody changes the map it starts with, as a function of the state and the transactions
(`States`, `Result`), against which the loop of BlockChain is proved step by step; a
history variable, `moved`, that remembers whether the map was changed in the middle of an
execution; and the invariants about executions.

**BlockChainProps**, **BlockChainInv**: the properties of BlockChain and its inductive
invariants. **SumProofs**: induction over numbers and finite sets, and lemmas about sums.
**BlockChainProofs** (which begins with lemmas about tries), **BlockOriginProofs**,
**BlockExecutionProofs**, **TxPoolProofs**, **DashboardProofs**, **ComposeFormProofs**,
**LevelDBLogProofs**: the theorems.

**TxPool**. The pool on values. Every method but `GetLocked` and `GetUnlocked` holds the
lock throughout, so it is one step. A batch is outstanding from `PackTxs` until its
caller is done with it or puts it back.

**TxPoolSlices**. The same methods on Go slices: windows on arrays in a heap, append in
place when the capacity allows it and into a new array otherwise. It is shown to implement
TxPool with every slice replaced by what it reads, as a run and as a theorem. What
`PackRelayTxs` returns counts as gone and is not put back.

**TransactionCSV**. The handlers of `POST /api/transactions`, a step per system call and
one for the answer, with failing calls, and crashes between any two steps: a request whose
handler died after its row is unanswered with the row in the file. A line is a run of
cells, so that a write over part of a line shows. Rows are shorter than the CSV writer's
buffer, so a row is one write; a failing call has no effect.

**ComposeForm** (on TransactionCSV). The form of one page among other clients: opened,
filled in, submitted, closed and opened again at any moment, with the fetch that comes
back and the timer that closes the form. A fetch may fail at any moment (`Lost`): before
the server has the request, while it works on it, and after it has answered; what the
server does with the request goes on.

**MC...** give the constants their values; MCReplay does so for BlockExecution.

## The runs

| run | question | result |
|---|---|---|
| Chain | a node that generates blocks and executes delivered ones, with crashes, late and repeated deliveries and an injection | stored chain intact, tip only extends, the file is a BlockFile, executed states on disk, at most the newest injected state missing there, no transaction stored twice |
| Replay | a node that executes delivered blocks again, with assignments at any moment | unless one falls into an execution, it reaches the announced root and money is preserved; money is never made; every step of a call brings it nearer to its end |
| Slices | the pool on slices | implements the pool on values if the newest outstanding batch is put back first; nothing lost or duplicated, order kept, nobody starves unless a batch is put back for ever |
| Csv | requests in any interleaving once the file has its header, one at a time before, some from a form that is closed and opened at will | every accepted row is there once, and none twice; the file only grows; every request is answered unless the process dies; the form sends one at a time, tells the truth of a submit that was answered, and can be used again |
| Log | the parser against every place where a log may be cut | whole records are read exactly, in order; reading fails only within a chunk |
| Dashboard | server, page and node, each stopping and starting | listings are chains but for siblings that crashes leave; what is shown stays known to later servers; the head never counts more than the blocks below it; a dialog opened alone shows its block, or such a sibling of it; only running nodes make anyone wait |

Six runs expect a violation; each shows that the code does not do what a comment, a test
or the page says of it (`findings` in `PROJECT.json`):

| run | what TLC finds |
|---|---|
| Reopen | after an account injection and a clean close, the newest state is not on disk and the next start panics |
| LostCredit | a recipient moved here between the two readings of the map is credited nowhere |
| ByHeight | after a crash between the bolt transactions two stored blocks have one height, and a query by height may answer with the wrong one; the dashboard's dialog, which finds a block by its hash, gets its transactions from this query (`main.go:717`) and may show the other block's |
| Overwrite | putting back an older batch writes over a younger one that is outstanding |
| CsvRace | two first requests: the second creation empties the file after the first was answered ok |
| Mock | a shard with a file and no block is sent as `null`; the page fails to render it and shows made-up blocks, although the server answered |

**Bounds.** Three accounts on two shards: a sender and a recipient here, one of them
placed by the table and one by its digits, and an account elsewhere. Two or three
transactions, such that one empties an account and the other is refused after it, one goes
to another shard, one comes from there, one has a broker's recipient, one is to itself.
`MaxHeight` 2 allows a block, a sibling of it left by a crash, and a successor; `MaxTime`
2 two generated blocks, in particular two on the same parent. Every block names miner 0,
so `NodeID` 1 executes every delivered block and `NodeID` 0 none: Chain and Replay take 1,
which adds the execution before the block becomes current; three of the violations are on
0, and the proofs hold for either. Every loop of the code ranges over a body of up to two
transactions, so it is left by its end and by its `continue`. Account injections are of
one batch; empty ones are left to the proofs. In the pool, three transactions, two
outstanding batches and blocks of one are the least with which a batch can lie between a
batch and the queue; `MaxRound` 0 gives a slice that grows the doubled capacity, which is
what Go's size classes make of it for up to four pointers (from 256 elements on Go grows
by less, which `Grown` allows). In Dashboard, one shard, a file that node 1 left or none,
node 0 with a genesis block and two possible successors (so that a crash leaves two blocks
of one height), answers of at most one transaction for blocks of one and two, two starts
of the server and two clicks: a restart and two outstanding answers. In Log, records of 16
to 152 bytes in blocks of 50 are one chunk to five, values of 128 and 130 bytes give
lengths of two bytes, a chunk ends a block exactly or leaves too little for a header, a
record is begun while the log with it has at most 240 bytes, and the log may end anywhere.
In the CSV runs, rows are shorter and longer than the header, three valid requests overlap
and one is invalid. Crashes of the blockchain node are not bounded.

**Deadlock** is checked for the blockchain, the dashboard and the form. It is not checked
for the pool, where a write to the nil relay map ends the process, nor for the log, where
the batches come to an end.

**Fairness.** In Slices, a proposer keeps packing and gets done with its batches, whoever
locked unlocks, and packing is strongly fair as a Go mutex does not starve a waiting
caller; `QueueDrains` assumes in addition that batches are put back finitely often, which
it needs. In Csv each goroutine runs, a request reaches the server or fails, and the fetch
of a request that was answered, or whose handler died, comes back or fails (weak fairness;
a fetch need not fail while a handler is at work, nor has the timer to fire); nobody has
to click or to submit. In Dashboard the server's goroutines and the page's callbacks run
(weak fairness); no node or server has to start or stop. `WaitsForNodesOnly` assumes that
from some time on no node has a file open, which it needs: bolt.Open has no timeout. The
end of a call of the blockchain object is not stated as liveness but as a measure that
every step of the call lowers (`CallsAdvance`), which needs no fairness and is proved.

## What is proved

For every value of the constants that satisfies the named assumptions (any accounts,
placement, table, balances, block size, transactions, injections, updates, node; any
bounds), TLAPS proves of `Spec`:

- `TypeCorrect`: `TypeOK`, among others that no balance falls below zero;
- `NewestAlwaysComplete`, `ChainAlwaysIntact`, `TipOnlyExtends`: the stored chain;
- `HeightIsEnough`: a generated block of the next height is a valid child of the current
  block, so `AddBlock` loses nothing by checking the height alone;
- `CurrentAlwaysReadable`, `ExecutedAlwaysDurable`: the states blocks point to.

All of them follow from `Invariance`, that `IInv` (BlockChainInv) is inductive. None of
the properties is inductive by itself. What is missing, and what `IInv` adds, is the
relation between the parts: the current block is the newest stored block except while its
own storing is under way (`CurrentOK`, `PuttingOK`); a block under way is a child of the
newest one, its state readable and, if executed, on disk (`Storable`); a draft of
`GenerateBlock` extends the current block (`Draft`); and, the heart of it, an offered
block never lies above the newest block by more than one, and extends exactly the newest
block when it lies above it by one (`OfferedOK`). The last holds because the newest hash
moves only to its children: once it moves to height n, every offered block of height n + 1
was generated from it. The proof goes action by action; the steps that leave the
databases alone share lemmas on what the invariant reads. That the offered blocks are the
only ones given to `AddBlock` is an assumption of the model and of these theorems.

`CallsAlwaysAdvance` says of the same `Spec` that every step of a call lowers a measure.
BlockOriginProofs adds a second invariant on top of `IInv`, `OriginInv`: blocks of
`GenerateBlock` are told apart by their time, a stored block was generated or has no
transactions, and a transaction is in the queue, in the block under way or in one generated
block, never in two. It gives `StoredAtMostOnce`, and with `IInv` `NodeIsBlockFile`: every
step of the node is a step of BlockFile or leaves the file alone.

A third invariant, `DurableInv`, gives `ParentOfInjectionAlwaysDurable`: although
`AddAccounts` commits the root before the one it made, what can be missing on disk is the
state of the newest block only. It needs that a loop that changed nothing still has the
state it started with (`CountOK`), which is why the early return without a commit is safe.

### Executions and money (BlockExecutionProofs)

- `SupplyPreservedUnlessMoved`, `ReplayAgreesUnlessMoved`: a block changes the money of the
  shard by what flows in, and a node that executes it again reaches its root, for any list
  of transactions and any assignments before the execution;
- `MovesHereMakeNoMoney`: with assignments in the middle of an execution too, money may be
  lost but is never made, when accounts are only moved to this shard (`MovesHere`).

The first two rest on `ExecutionInv`: at every step of the loop the trie is the state that
`States` gives for the transactions done so far, or that state after the debit (`LoopOK`),
and every offered block announces the `Result` of its transactions on its parent's state
(`ResultsOK`). That the map is the table while the loop runs is part of it: an earlier
assignment does not matter because it has been replaced. What is proved of `States` is
that each transaction changes `Supply` by its inflow. The third needs another invariant,
`SupplyInv`, because after a move the loop computes none of these states: a bound on the
supply at every step, which between debit and credit leaves room for the value under way.
`MovesHere` is needed: an account that is moved away in the middle is no longer debited
for what its recipients are still credited. Assumed: finitely many accounts, and that a
virtual account starts with nothing (`params/static_config.go`).

### The transaction pool (TxPoolProofs)

For any transactions, shards, sizes, number of outstanding batches, and any capacities
that append chooses, if the newest outstanding batch is the one that is put back
(`NewestOnly`; the run Overwrite shows that none of it holds otherwise):

- `SlicesArePool`: TxPoolSlices implements TxPool;
- `TransactionsConserved`: every transaction is in exactly one place;
- `QueueKeepsOrder`: nothing overtakes in the queue;
- `PoolTypeCorrect`: every slice lies within its array.

`SliceInv` is the reason: in an array the outstanding batches lie in their order and the
queue behind them, so what append writes behind the newest batch, or behind the queue, no
other slice shows. The refinement is proved action by action: reading the slices after it
gives what the method of TxPool does to the lists. `PoolInv` is about the lists: no
transaction is twice in one, in two of a family, or in two of the five places
(`Injective`, `Single`, `Partition`); `Conserved`, which counts, follows from it.
`NoneAssumption` says that nil is not a map.

### The dashboard (DashboardProofs)

It is about any number of shards, nodes and requests, any `Limit`, any chains:

- `AlwaysChainWithSiblings`, `ShownAlwaysListed`, `SoleAnswerAlwaysShown`, `StatAlwaysBehind`,
  `PageTypeCorrect`.

The argument: `FilesInv`, a file is closed under parents, has one block for a hash, every
block in it is below the newest one or follows on it, so that two blocks of one height
have one parent, and no step takes a block out of a file or changes it (`Grows`);
`ListInv`, a listing is what a file held at some time; `PageInv`, what is shown is still
in the files and in every listing that was loaded since (`Lasting`); `StatInv`, the total
that the page fetched first is that of some such listing, so a listing fetched later, of
this server or of the next, counts at least as much; `DialogInv`, as long as a dialog that
was opened alone is the last one opened, the requests under way are its own, they look for
the height in its title because one hash has one view in a listing, and the answer is the
beginning of a block of that height, which is the dialog's own or a sibling of it. More does not hold: a crash of a node leaves
siblings, and the search by height may find the other one (ByHeight). None of these properties is inductive: each needs that the files
only grow. The old files are assumed to be what a node leaves: finite, a chain and
siblings that crashes left (`FilesAssumption`, `IsFile`).

### The form and Transactions.csv (ComposeFormProofs)

For any requests, lengths of rows, handlers and crashes:

- `AnswersAreTrue`, `FileOnlyGrows`, `CsvType`, `FormSaysWhatIs`, if requests come one at a
  time until the file has its header (`OneFirst`; the run CsvRace shows what happens
  otherwise);
- `FormWaitsForOne`, without it.

`CsvInv` relates the file to where each handler is: no cell was written twice, a request
has a row when it is accepted or about to be, none before, and at most one when its
handler died (`RowsOK`), and only one handler is at work on a file without a header
(`StagesOK`). An appended row then cannot complete another's, and a row is found in one
place because its first cell is. `WaitsForOne` and `SaysSo` do the same for the form: its
button is disabled exactly while a submit is under way, and the feedback is that of the
last fetch that came back; of a fetch that failed nothing is said but that its row is
there at most once. `CellAssumption` says that the header is no request and an absent file
is no content.

### The parser of LevelDB's log (LevelDBLogProofs)

For any batches whose keys, values and numbers of rows are up to `MaxLength`, 2^31 - 1, any
length of the blocks from 8 to 65542 bytes, and a log that ends anywhere:

- `BatchRead`: `parseBatch` gives of the bytes of any batch that is written exactly its
  rows;
- `WholeRecordsRead`: a reading that succeeds gives the rows of the records that are wholly
  in the log, in their order;
- `AlwaysReadable`: between two writes of chunks it succeeds, also in the middle of a record.

A file that grows is read from its beginning each time, so what holds of one reading says
nothing of the next by itself. The invariant, `LogInv`, is therefore about every
continuation: *whatever bytes come after* `data`, after some turns the loop stands at the
end of `data`, with the written rows and with a fragment which, followed by the bytes
still to come (`fragment \o pending`), is the record under way (`Reaches`, `InStep`,
`WholeRead`). A chunk that is appended is then one or two turns more: one for the zeros
that fill the block (`BlockEnds`), one for the chunk (`ChunkRead`), with the same
arithmetic of blocks in the writer and in the reader (`ChunkAppended`). A torn write is
treated by the place of the cut (`TornChunk`): within the zeros or the header the reading
ends well and adds nothing; within the payload the length points behind the end of the
file and it fails. `BatchRead` goes over the rows in the same way, each for whatever
follows it, and over the bytes of a length: what `PutUvarint` wrote `Uvarint` reads,
whatever precedes and follows. TLC cannot enumerate continuations, so `LogInv` itself is
not checked by the run; its consequences are.

Assumed: `BlockAssumption`, a block has room for a header and a byte, and no chunk is
longer than the two bytes of its length can say; `BatchesAssumption`, the rows are encoded
in bytes, no batch is empty, and no string or batch is longer than `MaxLength`, well above
what fits in a batch and below where `int(length)` or the count of four bytes would wrap.

### What is not proved

Induction over a list or a finite set (the sums of money and of transactions, the loop
over a block, the loop of `TransferTxs`, the loops of the parser) is done by taking a
minimal counterexample: `WFMin` of the library and the well-founded orders of the numbers
and of the subsets of a finite set (`SubsetInduction`, `NatSetInduction` in SumProofs), so
no induction theorem with an operator parameter is needed. That a function which a loop
defines by its own values exists is proved first (`LoopExists`, `RowLoopExists`,
`FlattenExists`).

Every invariant and every action property of the passing runs, and each of their two
refinements, is stated by a theorem. Checked by TLC only: liveness (`QueueDrains`,
`Answered`, `ButtonEnabledAgain`, `WaitsForNodesOnly`), which is out of the prover's reach.
The six violations are counterexamples and need no proof.

## What is not modelled, and the plan

Not modelled: printing, wording and layout; the probe command, which only prints; the
heuristics that guess timestamps and transactions from raw bytes in `main.go`
(`parseShardDatabase` is called nowhere, and `buildTransactionViews` and
`extractTimestamp` only by it or not at all); `query_accountstate.go`, two stubs;
LevelDB's change of log files; the count of users; sizes and times in the listing; a page
that is loaded again, which begins as a new one; power failure, as opposed to process
failure, of a blockchain node; a short write on a full disk; negative values, which the
CSV endpoint and the execution both accept.

Left:

1. Two BlockChain objects of one shard exchanging blocks, and virtual accounts over the
   shards against one ledger, as `test/test_result.go` compares them.
2. The change of LevelDB's log files, and what the user count makes of the rows.
