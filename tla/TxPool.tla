------------------------------- MODULE TxPool -------------------------------
(***************************************************************************)
(* The transaction pool (core/txpool.go) as its callers may think of it:   *)
(* lists of transactions as values.  Every method but GetLocked and        *)
(* GetUnlocked holds the lock from its first line to its last, so it is    *)
(* one step that waits while somebody holds the lock through GetLocked.    *)
(* A batch stays outstanding from the moment PackTxs returns it until its  *)
(* caller is done with it or puts it back at the head.  TxPoolSlices has   *)
(* the same methods on Go slices.                                          *)
(***************************************************************************)
EXTENDS TxQueueOps, FiniteSets, SequencesExt

CONSTANTS
    Txs,           \* transactions, each put into the pool by a client once
    Sender,        \* tx.Sender
    Shards,        \* shard numbers, the keys of RelayPool
    BlockSize,     \* what PackTxs is called with
    MinRelaySize,  \* what PackRelayTxs is called with
    MaxRelaySize,
    Clients,       \* those who call GetLocked and GetUnlocked
    None,          \* nil
    MaxOut,        \* bound on the number of outstanding batches
    NewestOnly     \* callers put back the newest outstanding batch only

VARIABLES
    TxQueue,    \* the queue
    RelayPool,  \* shard -> list, for some shards; None once cleared
    lock,       \* who holds the lock through GetLocked, or None
    out,        \* the outstanding batches, oldest first
    fresh,      \* the transactions no client has put into the pool yet
    gone,       \* the transactions that left for good
    panicked    \* a write to the nil map

vars == <<TxQueue, RelayPool, lock, out, fresh, gone, panicked>>

-----------------------------------------------------------------------------
(* What the methods compute. *)

WithRelay(pool, tx, shardID) ==
    [s \in DOMAIN pool \cup {shardID} |->
        IF s # shardID THEN pool[s]
        ELSE Append(IF s \in DOMAIN pool THEN pool[s] ELSE << >>, tx)]

PoolShards(pool) == IF pool = None THEN {} ELSE DOMAIN pool

PoolTxs(pool) == UNION {ToSet(pool[s]) : s \in PoolShards(pool)}

Of(addr) == {tx \in Txs : Sender[tx] = addr}

From(addr, queue) == Selected(queue, Of(addr))

\* Mutant of NotFrom: the queue is rebuilt from its end.
NotFromReversed(addr, queue) == Reverse(Selected(queue, Txs \ Of(addr)))

NotFrom(addr, queue) == Selected(queue, Txs \ Of(addr))

\* TransferTxs rebuilds the map: a shard without a remaining transaction has no
\* entry, and a nil map becomes an empty one.
RelayNotFrom(addr, pool) ==
    LET kept == {s \in PoolShards(pool) : NotFrom(addr, pool[s]) # << >>}
    IN  [s \in kept |-> NotFrom(addr, pool[s])]

\* The batches that may be put back.
Returnable == {k \in DOMAIN out : NewestOnly => k = Len(out)}

-----------------------------------------------------------------------------

Init ==
    /\ TxQueue = << >>
    /\ RelayPool = [s \in {} |-> << >>]
    /\ lock = None
    /\ out = << >>
    /\ fresh = Txs
    /\ gone = {}
    /\ panicked = FALSE

Free == lock = None /\ ~panicked

\* AddTx2Pool; AddTxs2Pool is the same for every transaction of its list.
AddTx2Pool(tx) ==
    /\ Free
    /\ tx \in fresh
    /\ TxQueue' = Append(TxQueue, tx)
    /\ fresh' = fresh \ {tx}
    /\ UNCHANGED <<RelayPool, lock, out, gone, panicked>>

AddTxs2Pool_Head(k) ==
    /\ Free
    /\ TxQueue' = out[k] \o TxQueue
    /\ out' = RemoveAt(out, k)
    /\ UNCHANGED <<RelayPool, lock, fresh, gone, panicked>>

PackTxs ==
    /\ Free
    /\ Len(out) < MaxOut
    /\ TxQueue' = Rest(TxQueue, BlockSize)
    /\ out' = Append(out, Packed(TxQueue, BlockSize))
    /\ UNCHANGED <<RelayPool, lock, fresh, gone, panicked>>

\* The caller is done with a batch: its block is stored.
Done(k) ==
    /\ ~panicked
    /\ gone' = gone \cup ToSet(out[k])
    /\ out' = RemoveAt(out, k)
    /\ UNCHANGED <<TxQueue, RelayPool, lock, fresh, panicked>>

AddRelayTx(tx, shardID) ==
    /\ Free
    /\ tx \in fresh
    /\ fresh' = fresh \ {tx}
    /\ IF RelayPool = None
       THEN panicked' = TRUE /\ gone' = gone \cup {tx} /\ UNCHANGED RelayPool
       ELSE /\ RelayPool' = WithRelay(RelayPool, tx, shardID)
            /\ UNCHANGED <<gone, panicked>>
    /\ UNCHANGED <<TxQueue, lock, out>>

ClearRelayPool ==
    /\ Free
    /\ gone' = gone \cup PoolTxs(RelayPool)
    /\ RelayPool' = None
    /\ UNCHANGED <<TxQueue, lock, out, fresh, panicked>>

\* Refused for a shard without an entry or with too few transactions.
PackRelayTxs(shardID) ==
    /\ Free
    /\ shardID \in PoolShards(RelayPool)
    /\ Len(RelayPool[shardID]) >= MinRelaySize
    /\ gone' = gone \cup ToSet(Packed(RelayPool[shardID], MaxRelaySize))
    /\ RelayPool' = [RelayPool EXCEPT ![shardID] = Rest(@, MaxRelaySize)]
    /\ UNCHANGED <<TxQueue, lock, out, fresh, panicked>>

TransferTxs(addr) ==
    /\ Free
    /\ TxQueue' = NotFrom(addr, TxQueue)
    /\ RelayPool' = RelayNotFrom(addr, RelayPool)
    /\ gone' = gone \cup ToSet(From(addr, TxQueue))
                    \cup {tx \in PoolTxs(RelayPool) : Sender[tx] = addr}
    /\ UNCHANGED <<lock, out, fresh, panicked>>

GetLocked(c) ==
    /\ Free
    /\ lock' = c
    /\ UNCHANGED <<TxQueue, RelayPool, out, fresh, gone, panicked>>

GetUnlocked(c) ==
    /\ lock = c
    /\ lock' = None
    /\ UNCHANGED <<TxQueue, RelayPool, out, fresh, gone, panicked>>

Next ==
    \/ \E tx \in Txs : AddTx2Pool(tx)
    \/ \E k \in Returnable : AddTxs2Pool_Head(k)
    \/ PackTxs
    \/ \E k \in DOMAIN out : Done(k)
    \/ \E tx \in Txs, s \in Shards : AddRelayTx(tx, s)
    \/ ClearRelayPool
    \/ \E s \in Shards : PackRelayTxs(s)
    \/ \E addr \in {Sender[tx] : tx \in Txs} : TransferTxs(addr)
    \/ \E c \in Clients : GetLocked(c) \/ GetUnlocked(c)

Spec == Init /\ [][Next]_vars

-----------------------------------------------------------------------------
(* What the pool promises. *)

\* The state has its type.
TypeOK ==
    /\ TxQueue \in Seq(Txs)
    /\ PoolShards(RelayPool) \subseteq Shards
    /\ \A s \in PoolShards(RelayPool) : RelayPool[s] \in Seq(Txs)
    /\ lock \in Clients \cup {None}
    /\ out \in Seq(Seq(Txs)) /\ Len(out) <= MaxOut
    /\ fresh \subseteq Txs /\ gone \subseteq Txs
    /\ panicked \in BOOLEAN

Times(tx, queue) == Cardinality({i \in DOMAIN queue : queue[i] = tx})

In(P) == IF P THEN 1 ELSE 0

\* The indexes into a family of lists at which tx stands.
Spots(tx, lists) ==
    UNION {{s} \X {i \in DOMAIN lists[s] : lists[s][i] = tx} : s \in DOMAIN lists}

Places(tx) ==
    In(tx \in fresh) + In(tx \in gone) + Times(tx, TxQueue) + Cardinality(Spots(tx, out))
      + (IF RelayPool = None THEN 0 ELSE Cardinality(Spots(tx, RelayPool)))

\* Packing, putting back, relaying, transferring and clearing lose no
\* transaction and duplicate none: each is in exactly one place.
Conserved == \A tx \in Txs : Places(tx) = 1

\* The transactions that stay in the queue keep their order, in particular when
\* TransferTxs takes some out of the middle or a batch is put back.
OrderKept ==
    [][ \A i, k \in DOMAIN TxQueue, m, n \in DOMAIN TxQueue' :
            i < k /\ TxQueue'[m] = TxQueue[i] /\ TxQueue'[n] = TxQueue[k] => m < n ]_vars
=============================================================================
