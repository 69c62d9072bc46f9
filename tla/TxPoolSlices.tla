---------------------------- MODULE TxPoolSlices ----------------------------
(***************************************************************************)
(* The transaction pool (core/txpool.go) with its queue as a Go slice: a   *)
(* window on an array that other slices may share.  PackTxs returns a      *)
(* window on the queue's own array, its capacity reaching over the rest of *)
(* the queue, so an append to the batch writes where the queue, or a later *)
(* batch, lies.  The relay lists share no array with the queue and stay    *)
(* values.                                                                 *)
(***************************************************************************)
EXTENDS TxQueueOps, FiniteSets, SequencesExt

CONSTANTS Txs, Sender, Shards, BlockSize, MinRelaySize, MaxRelaySize, Clients,
          None, MaxOut, NewestOnly,
          MaxRound  \* bound on the cells that append adds when it rounds a capacity up

ASSUME SenderAssumption == DOMAIN Sender = Txs
ASSUME SizeAssumption == BlockSize \in Nat /\ MinRelaySize \in Nat /\ MaxRelaySize \in Nat
ASSUME PoolBoundAssumption == MaxOut \in Nat /\ NewestOnly \in BOOLEAN
ASSUME RoundAssumption == MaxRound \in Nat
\* nil is none of the maps that RelayPool may be.
ASSUME NoneAssumption == \A S \in SUBSET Shards : None \notin [S -> Seq(Txs)]

VARIABLES
    heap,     \* array -> its cells, for the arrays that a slice refers to
    queue,    \* the slice txpool.TxQueue
    batches,  \* the slices PackTxs returned that are outstanding, oldest first
    RelayPool, lock, fresh, gone, panicked

vars == <<heap, queue, batches, RelayPool, lock, fresh, gone, panicked>>

-----------------------------------------------------------------------------
(* Go slices. *)

Arrays == 1 .. MaxOut + 2

Slice(array, off, len) == [array |-> array, off |-> off, len |-> len]

ReadIn(h, s) == SubSeq(h[s.array], s.off + 1, s.off + s.len)

Read(s) == ReadIn(heap, s)

Capacity(s) == Len(heap[s.array]) - s.off

\* s[from:to] shares the array and keeps its whole capacity.
Window(s, from, to) == Slice(s.array, s.off + from, to - from)

\* The heap after vals is copied into an array from cell off + 1 on.
Written(array, off, vals) ==
    [heap EXCEPT ![array] = [i \in DOMAIN @ |->
        IF i \in off + 1 .. off + Len(vals) THEN vals[i - off] ELSE @[i]]]

Unused == CHOOSE a \in Arrays : a \notin DOMAIN heap

\* The heap with a new array that holds vals and has room for n.
Allocated(vals, n) ==
    [a \in DOMAIN heap \cup {Unused} |->
        IF a # Unused THEN heap[a]
        ELSE [i \in 1 .. n |-> IF i <= Len(vals) THEN vals[i] ELSE None]]

\* The capacities append may choose: what is needed or twice the old one, rounded up
\* to what the allocator has; from 256 elements on it grows by less than the double.
Grown(s, needed) ==
    LET twice == 2 * Capacity(s)
    IN  IF needed > twice THEN needed .. needed + MaxRound
        ELSE IF Capacity(s) < 256 THEN twice .. twice + MaxRound
        ELSE needed .. twice + MaxRound

\* The pairs of heap and slice that append(s, vals...) may yield.  vals is read
\* before anything is written.
Appended(s, vals) ==
    LET needed == s.len + Len(vals)
    IN  IF needed <= Capacity(s)
        THEN {<<Written(s.array, s.off + s.len, vals), Slice(s.array, s.off, needed)>>}
        ELSE {<<Allocated(Read(s) \o vals, n), Slice(Unused, 0, needed)>> : n \in Grown(s, needed)}

\* An array that no slice refers to is garbage, and a cell that no slice shows is
\* written before it is read.
Live(h, slices) ==
    [a \in {s.array : s \in slices} |-> [i \in DOMAIN h[a] |->
        IF \E s \in slices : s.array = a /\ i \in s.off + 1 .. s.off + s.len
        THEN h[a][i] ELSE None]]

-----------------------------------------------------------------------------

\* The pool as a value: what TxPool says of it, with every slice read.
P == INSTANCE TxPool WITH TxQueue <- Read(queue),
                          out <- [k \in DOMAIN batches |-> Read(batches[k])]

Init ==
    /\ heap = [a \in {1} |-> << >>]
    /\ queue = Slice(1, 0, 0)
    /\ batches = << >>
    /\ RelayPool = [s \in {} |-> << >>]
    /\ lock = None
    /\ fresh = Txs
    /\ gone = {}
    /\ panicked = FALSE

Free == lock = None /\ ~panicked

AddTx2Pool(tx) ==
    /\ Free
    /\ tx \in fresh
    /\ \E r \in Appended(queue, <<tx>>) :
           /\ queue' = r[2]
           /\ heap' = Live(r[1], ToSet(batches) \cup {r[2]})
    /\ fresh' = fresh \ {tx}
    /\ UNCHANGED <<batches, RelayPool, lock, gone, panicked>>

\* Mutant of AddTxs2Pool_Head: the batch goes to the tail.
AddTxs2Pool_Tail(k) ==
    /\ Free
    /\ batches' = RemoveAt(batches, k)
    /\ \E r \in Appended(queue, Read(batches[k])) :
           /\ queue' = r[2]
           /\ heap' = Live(r[1], ToSet(batches') \cup {r[2]})
    /\ UNCHANGED <<RelayPool, lock, fresh, gone, panicked>>

\* append(tx, txpool.TxQueue...): the batch is what grows.
AddTxs2Pool_Head(k) ==
    /\ Free
    /\ batches' = RemoveAt(batches, k)
    /\ \E r \in Appended(batches[k], Read(queue)) :
           /\ queue' = r[2]
           /\ heap' = Live(r[1], ToSet(batches') \cup {r[2]})
    /\ UNCHANGED <<RelayPool, lock, fresh, gone, panicked>>

\* Mutant of PackTxs: a queue shorter than BlockSize is not checked for.
PackUnchecked ==
    /\ Free
    /\ Len(batches) < MaxOut
    /\ batches' = Append(batches, Window(queue, 0, BlockSize))
    /\ queue' = Window(queue, BlockSize, queue.len)
    /\ UNCHANGED <<heap, RelayPool, lock, fresh, gone, panicked>>

PackTxs ==
    LET txNum == Len(Packed(Read(queue), BlockSize))
    IN  /\ Free
        /\ Len(batches) < MaxOut
        /\ batches' = Append(batches, Window(queue, 0, txNum))
        /\ queue' = Window(queue, txNum, queue.len)
        /\ UNCHANGED <<heap, RelayPool, lock, fresh, gone, panicked>>

Done(k) ==
    /\ ~panicked
    /\ gone' = gone \cup ToSet(Read(batches[k]))
    /\ batches' = RemoveAt(batches, k)
    /\ heap' = Live(heap, ToSet(batches') \cup {queue})
    /\ UNCHANGED <<queue, RelayPool, lock, fresh, panicked>>

\* The queue that stays is built in an array of its own.
TransferTxs(addr) ==
    LET kept == P!NotFrom(addr, Read(queue))
    IN  /\ Free
        /\ \E n \in Len(kept) .. Len(kept) + MaxRound :
               /\ queue' = Slice(Unused, 0, Len(kept))
               /\ heap' = Live(Allocated(kept, n), ToSet(batches) \cup {queue'})
        /\ RelayPool' = P!RelayNotFrom(addr, RelayPool)
        /\ gone' = gone \cup ToSet(P!From(addr, Read(queue)))
                        \cup {tx \in P!PoolTxs(RelayPool) : Sender[tx] = addr}
        /\ UNCHANGED <<batches, lock, fresh, panicked>>

\* The methods that leave queue and batches alone.
Elsewhere ==
    /\ UNCHANGED <<heap, queue, batches>>
    /\ \/ \E tx \in Txs, s \in Shards : P!AddRelayTx(tx, s)
       \/ P!ClearRelayPool
       \/ \E s \in Shards : P!PackRelayTxs(s)
       \/ \E c \in Clients : P!GetLocked(c) \/ P!GetUnlocked(c)

Next ==
    \/ \E tx \in Txs : AddTx2Pool(tx)
    \/ \E k \in P!Returnable : AddTxs2Pool_Head(k)
    \/ PackTxs
    \/ \E k \in DOMAIN batches : Done(k)
    \/ \E addr \in {Sender[tx] : tx \in Txs} : TransferTxs(addr)
    \/ Elsewhere

Spec == Init /\ [][Next]_vars

\* A proposer packs blocks again and again and gets done with them, and whoever
\* took the lock gives it back.  A Go mutex does not starve a waiting caller, so
\* a packer that finds the lock free again and again gets it: strong fairness.
FairSpec ==
    /\ Spec
    /\ SF_vars(PackTxs)
    /\ WF_vars(\E k \in DOMAIN batches : Done(k))
    /\ \A c \in Clients : WF_vars(UNCHANGED <<heap, queue, batches>> /\ P!GetUnlocked(c))

-----------------------------------------------------------------------------

\* Every slice lies within its array, and every array is in use.
TypeOK ==
    /\ \A s \in ToSet(batches) \cup {queue} :
           s.array \in DOMAIN heap /\ s.off + s.len <= Len(heap[s.array])
    /\ \A a \in DOMAIN heap : heap[a] \in Seq(Txs \cup {None})
    /\ P!TypeOK

\* The pool on slices is the pool on values: no append ever writes over a
\* transaction that the queue or an outstanding batch still shows.  It needs
\* NewestOnly, that of the outstanding batches the newest is put back first.
IsPool == P!Spec

\* Each transaction is in exactly one place, the cells that the outstanding
\* batches show included.
Conserved == P!Conserved

\* The transactions that stay in the queue keep their order, in particular when
\* TransferTxs takes some out of the middle or a batch is put back.
OrderKept == P!OrderKept

\* As long as batches do not keep being put back, no transaction waits in the
\* queue for ever, wherever it stands: PackTxs gets to it, though others come and
\* go in front of it and hold the lock.  (Putting the same batch back for ever
\* does starve the transactions behind it.)
QueueDrains ==
    <>[][\A k \in DOMAIN batches : ~AddTxs2Pool_Head(k)]_vars =>
        \A tx \in Txs : tx \in ToSet(Read(queue)) ~> tx \notin ToSet(Read(queue)) \/ panicked
=============================================================================
