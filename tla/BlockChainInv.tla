---------------------------- MODULE BlockChainInv ----------------------------
(***************************************************************************)
(* The inductive invariant of BlockChain: what ties the two databases, the *)
(* current block, the call under way and the blocks handed to callers.     *)
(***************************************************************************)
EXTENDS BlockChainProps

Executing == {"execute", "debit", "credit", "recheck", "return"}
Putting == {"putBlock", "putHeader", "putNewest"}

Tip == blockBucket[Newest]
HasNewest == "OnlyNewestBlock" \in DOMAIN newestBlockHash

GoodBlock(b) == IsBlock(b) /\ HasRoot(b)

ChildOfTip(b) ==
    /\ b.Header.ParentBlockHash = Newest
    /\ b.Header.Number = Tip.Header.Number + 1

\* A block that executed transactions changed to a state that is on disk.
ExecutedDurable(b) ==
    b.Body # << >> /\ b.Header.StateRoot # Parent(b).Header.StateRoot
        => b.Header.StateRoot \in trieDisk

\* What holds of a stored block.
StoredOK(h) ==
    LET b == blockBucket[h]
    IN  /\ GoodBlock(b)
        /\ b.Hash = h
        /\ \/ b.Header.Number = 0 /\ b.Body = << >>
           \/ /\ b.Header.ParentBlockHash \in DOMAIN blockBucket
              /\ b.Header.Number = Parent(b).Header.Number + 1
        /\ ExecutedDurable(b)

BucketsOK ==
    /\ DOMAIN newestBlockHash \subseteq {"OnlyNewestBlock"}
    /\ \A h \in DOMAIN blockBucket : StoredOK(h)
    /\ HasNewest => /\ Newest \in DOMAIN blockBucket
                    /\ Newest \in DOMAIN blockHeaderBucket
                    /\ blockHeaderBucket[Newest] = Tip.Header

\* A block that GenerateBlock returned extends a stored block, never one above
\* the newest, and points to a state that is on disk or is its parent's.
OfferedOK ==
    \A b \in offered :
        /\ GoodBlock(b)
        /\ b.Header.TxRoot = GetTxTreeRoot(b.Body)
        /\ HasNewest
        /\ b.Header.ParentBlockHash \in DOMAIN blockBucket
        /\ b.Header.Number <= Tip.Header.Number + 1
        /\ b.Header.Number = Tip.Header.Number + 1 => b.Header.ParentBlockHash = Newest
        /\ \/ b.Header.StateRoot \in trieDisk
           \/ b.Header.StateRoot = Parent(b).Header.StateRoot

\* A block that may become the current one.
Storable(b) ==
    /\ GoodBlock(b)
    /\ ChildOfTip(b)
    /\ Readable(b.Header.StateRoot)
    /\ ExecutedDurable(b)

StoppedOK == pc \in {"down", "panic"} => CurrentBlock = None /\ job = None

CurrentOK ==
    pc \in {"idle"} \cup Executing =>
        HasNewest /\ CurrentBlock = Tip /\ Readable(StateRoot)

IsJob(j) ==
    /\ j = [call |-> j.call, blk |-> j.blk, i |-> j.i, st |-> j.st, cnt |-> j.cnt]
    /\ j.i \in Nat /\ j.cnt \in Nat /\ IsTrie(j.st)
    /\ j.blk.Body \in Seq(Txs)

Draft(b, time) ==
    b = NewBlock(NewHeader(CurrentBlock.Hash, CurrentBlock.Header.Number + 1,
                           time, Len(b.Body), None, b.Body), b.Body)

ExecutingOK ==
    pc \in Executing =>
        /\ IsJob(job)
        /\ job.call \in {"generate", "add"}
        /\ pc = "execute" => job.i = 0
        /\ pc \in {"debit", "credit", "recheck"} => job.i < Len(job.blk.Body)
        /\ job.call = "generate" => Draft(job.blk, clock)
        /\ job.call = "add" => Storable(job.blk)

PuttingOK ==
    pc \in Putting =>
        /\ IsJob(job)
        /\ job.call \in {"genisis", "add"}
        /\ job.call = "genisis" => /\ ~HasNewest
                                   /\ job.blk = NewGenisisBlock(EmptyTrie)
                                   /\ CurrentBlock = None
        /\ job.call = "add" => /\ HasNewest
                               /\ CurrentBlock = job.blk
                               /\ Storable(job.blk)
        /\ pc # "putBlock" => /\ job.blk.Hash \in DOMAIN blockBucket
                              /\ blockBucket[job.blk.Hash] = job.blk
        /\ pc = "putNewest" => /\ job.blk.Hash \in DOMAIN blockHeaderBucket
                               /\ blockHeaderBucket[job.blk.Hash] = job.blk.Header

RestOK ==
    /\ pc \in Stages
    /\ \A st \in trieDisk \cup trieMem : IsTrie(st)
    /\ \A k \in DOMAIN PartitionMap : k \in Accounts /\ PartitionMap[k] \in Nat
    /\ TxQueue \in Seq(Txs)
    /\ IsTrie(AllStateMapTx)
    /\ Flag \in BOOLEAN
    /\ sent \subseteq Txs
    /\ clock \in Nat

\* The whole inductive invariant.
IInv ==
    /\ BucketsOK
    /\ OfferedOK
    /\ StoppedOK
    /\ CurrentOK
    /\ ExecutingOK
    /\ PuttingOK
    /\ RestOK

-----------------------------------------------------------------------------
(* A second inductive invariant, relative to IInv: where blocks and their  *)
(* transactions come from.                                                 *)

\* A block that may be stored was returned by GenerateBlock or has neither a time
\* nor transactions.
Authored(b) == b \in offered \/ (b.Header.Time = 0 /\ b.Body = << >>)

Drafting == pc \in Executing /\ job.call = "generate"

\* The time tells the blocks of GenerateBlock apart.
TimesOK ==
    /\ \A b \in offered : b.Header.Time \in Nat /\ 0 < b.Header.Time /\ b.Header.Time <= clock
    /\ \A b, c \in offered : b.Header.Time = c.Header.Time => b = c
    /\ Drafting => 0 < clock /\ \A b \in offered : b.Header.Time < clock

AuthoredOK ==
    /\ blockBucket = [h \in DOMAIN blockBucket |-> blockBucket[h]]
    /\ \A h \in DOMAIN blockBucket : Authored(blockBucket[h])
    /\ pc \in Executing \cup Putting /\ job.call # "generate" => Authored(job.blk)

Elems(s) == {s[i] : i \in DOMAIN s}
Disjoint(s, t) == \A i \in DOMAIN s, k \in DOMAIN t : s[i] # t[k]
Distinct(s) == \A i, k \in DOMAIN s : s[i] = s[k] => i = k

\* A transaction that was sent is in the queue, in the block under way or in one
\* block of GenerateBlock, or was lost; it is never in two of them.
OnceOK ==
    /\ Distinct(TxQueue) /\ Elems(TxQueue) \subseteq sent
    /\ \A b \in offered : /\ Distinct(b.Body) /\ Elems(b.Body) \subseteq sent
                           /\ Disjoint(b.Body, TxQueue)
    /\ \A b, c \in offered : b = c \/ Disjoint(b.Body, c.Body)
    /\ Drafting => /\ Distinct(job.blk.Body) /\ Elems(job.blk.Body) \subseteq sent
                   /\ Disjoint(job.blk.Body, TxQueue)
                   /\ \A b \in offered : Disjoint(job.blk.Body, b.Body)

OriginInv == TimesOK /\ AuthoredOK /\ OnceOK

-----------------------------------------------------------------------------
(* A third one, relative to both: what the roots on disk are worth.        *)

\* Nothing was written yet, and the trie is still the one that was opened.
CountOK ==
    pc \in Executing =>
        /\ pc = "execute" \/ job.blk.Body = << >> => job.cnt = 0
        /\ pc # "execute" /\ job.cnt = 0 => job.st = StateRoot

\* A block that changed the state without transactions has the state of its parent
\* on disk.
ParentDurable(b) ==
    /\ b.Body = << >> /\ b.Header.Number > 0
    /\ b.Header.StateRoot # Parent(b).Header.StateRoot
    => Parent(b).Header.StateRoot \in trieDisk \cup {EmptyTrie}

DurableInv ==
    /\ CountOK
    /\ \A h \in DOMAIN blockBucket : ParentDurable(blockBucket[h])
    /\ \A b \in offered : b.Body = << >> => b.Header.StateRoot = Parent(b).Header.StateRoot
    /\ pc \in Executing \cup Putting /\ job.call = "add" => ParentDurable(job.blk)
=============================================================================
