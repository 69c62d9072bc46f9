------------------------- MODULE BlockOriginProofs -------------------------
(***************************************************************************)
(* Proofs about where stored blocks and their transactions come from: no   *)
(* transaction is stored twice, the bolt file of a node is a BlockFile to  *)
(* its readers, and a restart can lose the state of the newest block only. *)
(* They rest on OriginInv and DurableInv, inductive given IInv.            *)
(***************************************************************************)
EXTENDS BlockChainProofs

-----------------------------------------------------------------------------
(* The queue. *)

\* PackTxs cuts the queue: the packed transactions are its first ones, in place,
\* and the rest are the others.
LEMMA CutType ==
    ASSUME NEW s \in Seq(Txs), NEW n \in Nat
    PROVE  /\ \A i \in DOMAIN Packed(s, n) :
                  i \in DOMAIN s /\ i <= Len(Packed(s, n)) /\ Packed(s, n)[i] = s[i]
           /\ \A k \in DOMAIN Rest(s, n) :
                  /\ k \in Nat \ {0}
                  /\ Len(Packed(s, n)) + k \in DOMAIN s
                  /\ Rest(s, n)[k] = s[Len(Packed(s, n)) + k]
           /\ Len(Packed(s, n)) \in Nat
<1>1. /\ Packed(s, n) = SubSeq(s, 1, IF Len(s) < n THEN Len(s) ELSE n)
      /\ (IF Len(s) < n THEN Len(s) ELSE n) \in 0 .. Len(s)
  BY DEF Packed
<1> DEFINE m == IF Len(s) < n THEN Len(s) ELSE n
<1> HIDE DEF m
<1>2. m \in 0 .. Len(s) /\ Len(s) \in Nat /\ Packed(s, n) = SubSeq(s, 1, m)
  BY <1>1 DEF m
<1>3. /\ Len(Packed(s, n)) = m
      /\ \A i \in DOMAIN Packed(s, n) :
             i \in DOMAIN s /\ i <= Len(Packed(s, n)) /\ Packed(s, n)[i] = s[i]
  BY <1>2
<1>4. Rest(s, n) = SubSeq(s, m + 1, Len(s))
  BY <1>3 DEF Rest
<1>5. \A k \in DOMAIN Rest(s, n) :
          k \in Nat \ {0} /\ m + k \in DOMAIN s /\ Rest(s, n)[k] = s[m + k]
  BY <1>2, <1>4
<1> QED BY <1>2, <1>3, <1>5

\* So a queue without repetitions is cut into two without a common transaction.
LEMMA CutOnce ==
    ASSUME NEW s \in Seq(Txs), NEW n \in Nat, Distinct(s)
    PROVE  /\ Distinct(Packed(s, n)) /\ Distinct(Rest(s, n))
           /\ Disjoint(Packed(s, n), Rest(s, n))
           /\ Elems(Packed(s, n)) \subseteq Elems(s) /\ Elems(Rest(s, n)) \subseteq Elems(s)
<1> DEFINE p == Packed(s, n)
           r == Rest(s, n)
<1>1. /\ \A i \in DOMAIN p : i \in DOMAIN s /\ i <= Len(p) /\ p[i] = s[i]
      /\ \A k \in DOMAIN r : k \in Nat \ {0} /\ Len(p) + k \in DOMAIN s /\ r[k] = s[Len(p) + k]
      /\ Len(p) \in Nat
  BY CutType
<1>2. \A i \in DOMAIN s : i \in Nat
  OBVIOUS
<1> HIDE DEF p, r
<1>3. Distinct(p)
  BY <1>1 DEF Distinct
<1>4. Distinct(r)
  <2> SUFFICES ASSUME NEW i \in DOMAIN r, NEW k \in DOMAIN r, r[i] = r[k] PROVE i = k
    BY DEF Distinct
  <2>1. Len(p) + i = Len(p) + k
    BY <1>1 DEF Distinct
  <2> QED BY <1>1, <2>1
<1>5. Disjoint(p, r)
  <2> SUFFICES ASSUME NEW i \in DOMAIN p, NEW k \in DOMAIN r, p[i] = r[k] PROVE FALSE
    BY DEF Disjoint
  <2>1. i = Len(p) + k
    BY <1>1 DEF Distinct
  <2> QED BY <1>1, <1>2, <2>1
<1>6. Elems(p) \subseteq Elems(s) /\ Elems(r) \subseteq Elems(s)
  BY <1>1 DEF Elems
<1> QED BY <1>3, <1>4, <1>5, <1>6 DEF p, r

\* What is disjoint from a list is disjoint from what has only its elements.
LEMMA DisjointSub ==
    ASSUME NEW s, NEW t, NEW u, Disjoint(s, t), Elems(u) \subseteq Elems(t)
    PROVE  Disjoint(s, u) /\ Disjoint(u, s)
<1> SUFFICES ASSUME NEW i \in DOMAIN s, NEW k \in DOMAIN u, s[i] = u[k] PROVE FALSE
  BY DEF Disjoint
<1>1. u[k] \in Elems(t)
  BY DEF Elems
<1>2. PICK j \in DOMAIN t : t[j] = u[k]
  BY <1>1 DEF Elems
<1> QED BY <1>2 DEF Disjoint

\* Sending a transaction that was not sent before keeps lists apart.
LEMMA AppendOnce ==
    ASSUME NEW s \in Seq(Txs), NEW tx \in Txs, NEW S, tx \notin S,
           Elems(s) \subseteq S, Distinct(s)
    PROVE  /\ Distinct(Append(s, tx))
           /\ Elems(Append(s, tx)) \subseteq S \cup {tx}
           /\ \A t : Elems(t) \subseteq S /\ Disjoint(t, s) => Disjoint(t, Append(s, tx))
<1> DEFINE a == Append(s, tx)
<1>1. /\ DOMAIN a = DOMAIN s \cup {Len(s) + 1}
      /\ \A i \in DOMAIN s : a[i] = s[i]
      /\ a[Len(s) + 1] = tx
      /\ Len(s) + 1 \notin DOMAIN s
  OBVIOUS
<1>2. \A i \in DOMAIN s : s[i] # tx
  BY DEF Elems
<1> HIDE DEF a
<1>3. Distinct(a)
  BY <1>1, <1>2 DEF Distinct
<1>4. Elems(a) \subseteq S \cup {tx}
  BY <1>1 DEF Elems
<1>5. ASSUME NEW t, Elems(t) \subseteq S, Disjoint(t, s) PROVE Disjoint(t, a)
  <2>1. \A i \in DOMAIN t : t[i] # tx
    BY <1>5 DEF Elems
  <2> QED BY <1>1, <1>5, <2>1 DEF Disjoint
<1> QED BY <1>3, <1>4, <1>5 DEF a

-----------------------------------------------------------------------------
(* The steps. *)

\* A step that leaves the file, the pool and the offered blocks alone, and that
\* goes on with the same call, or is in none.
LEMMA SameCall ==
    ASSUME OriginInv,
           UNCHANGED <<blockBucket, TxQueue, offered, sent, clock>>,
           \/ pc' \notin Executing \cup Putting
           \/ /\ pc \in Executing \cup Putting
              /\ pc' \in Executing => pc \in Executing
              /\ job'.call = job.call /\ job'.blk = job.blk
              /\ job.call = "generate" => pc' \in Executing
    PROVE  OriginInv'
<1>1. Drafting' => Drafting /\ job'.blk = job.blk
  BY DEF Drafting
<1>2. TimesOK'
  BY <1>1 DEF OriginInv, TimesOK
<1>3. AuthoredOK'
  BY DEF OriginInv, AuthoredOK, Authored
<1>4. OnceOK'
  BY <1>1 DEF OriginInv, OnceOK
<1> QED BY <1>2, <1>3, <1>4 DEF OriginInv

\* The process ends.
LEMMA DiesOrigin ==
    ASSUME OriginInv, NEW where \in {"down", "panic"}, Dies(where)
    PROVE  OriginInv'
<1>1. ~Drafting' /\ pc' \notin Executing \cup Putting
  BY DEF Dies, Drafting, Executing, Putting
<1>2. TimesOK'
  BY <1>1 DEF OriginInv, TimesOK, Dies, world
<1>3. AuthoredOK'
  BY <1>1 DEF OriginInv, AuthoredOK, Authored, Dies, world, disk
<1>4. OnceOK'
  BY <1>1 DEF OriginInv, OnceOK, Dies, world, Distinct, Disjoint, Elems
<1> QED BY <1>2, <1>3, <1>4 DEF OriginInv

\* A call that begins with a block that may be stored.
LEMMA BeginOrigin ==
    ASSUME OriginInv, NEW call \in {"add", "genisis"}, NEW b, Authored(b), job' = Job(call, b),
           UNCHANGED <<blockBucket, TxQueue, offered, sent, clock>>
    PROVE  OriginInv'
<1>1. job'.call # "generate" /\ job'.blk = b
  BY DEF Job
<1>2. ~Drafting'
  BY <1>1 DEF Drafting
<1>3. TimesOK'
  BY <1>2 DEF OriginInv, TimesOK
<1>4. AuthoredOK'
  BY <1>1 DEF OriginInv, AuthoredOK, Authored
<1>5. OnceOK'
  BY <1>2 DEF OriginInv, OnceOK
<1> QED BY <1>3, <1>4, <1>5 DEF OriginInv

\* The block of an injection has no time and no transactions, nor has the first.
LEMMA NoTime ==
    ASSUME NEW root
    PROVE  Authored(InjectionBlock(root)) /\ Authored(NewGenisisBlock(root))
<1>1. ASSUME NEW p, NEW n
      PROVE  Authored(Sealed(NewBlock(NewHeader(p, n, 0, 0, root, << >>), << >>)))
  <2> DEFINE H == NewHeader(p, n, 0, 0, root, << >>)
  <2>1. H.Time = 0
    BY DEF NewHeader
  <2> HIDE DEF H
  <2>2. Sealed(NewBlock(H, << >>)) = [Header |-> H, Body |-> << >>, Hash |-> Hash(H)]
    BY DEF Sealed, NewBlock
  <2> QED BY <2>1, <2>2 DEF Authored, H
<1> QED BY <1>1 DEF InjectionBlock, NewGenisisBlock

\* GenerateBlock takes its transactions off the queue, at a new time.
LEMMA GenerateOrigin ==
    ASSUME IInv, OriginInv, GenerateBlock
    PROVE  OriginInv'
<1> USE DEF GenerateBlock
<1>1. TxQueue \in Seq(Txs) /\ clock \in Nat
  BY DEF IInv, RestOK
<1>2. /\ job'.call = "generate" /\ job'.blk.Body = PackedTxs
      /\ pc' = "execute" /\ pc' \in Executing
  <2> DEFINE H == NewHeader(CurrentBlock.Hash, CurrentBlock.Header.Number + 1,
                            clock + 1, Len(PackedTxs), None, PackedTxs)
  <2>1. job' = Job("generate", NewBlock(H, PackedTxs)) /\ pc' = "execute"
    OBVIOUS
  <2> HIDE DEF H, GenerateBlock
  <2> QED BY <2>1 DEF Job, NewBlock, Executing
<1>3. TimesOK'
  <2>1. clock' = clock + 1 /\ offered' = offered
    OBVIOUS
  <2> HIDE DEF GenerateBlock
  <2>2. \A b \in offered : /\ b.Header.Time \in Nat /\ 0 < b.Header.Time
                            /\ b.Header.Time < clock + 1 /\ b.Header.Time <= clock + 1
    BY <1>1 DEF OriginInv, TimesOK
  <2>3. 0 < clock + 1
    BY <1>1
  <2> QED BY <2>1, <2>2, <2>3 DEF OriginInv, TimesOK
<1>4. AuthoredOK'
  BY <1>2 DEF OriginInv, AuthoredOK, Authored, disk
<1>5. OnceOK'
  <2>1. /\ Distinct(PackedTxs) /\ Distinct(TxQueue') /\ Disjoint(PackedTxs, TxQueue')
        /\ Elems(PackedTxs) \subseteq Elems(TxQueue) /\ Elems(TxQueue') \subseteq Elems(TxQueue)
    BY <1>1, CutOnce, BlockSizeAssumption DEF OriginInv, OnceOK, PackedTxs
  <2>2. \A b \in offered : Disjoint(b.Body, TxQueue') /\ Disjoint(PackedTxs, b.Body)
    BY <2>1, DisjointSub DEF OriginInv, OnceOK
  <2> QED BY <1>2, <2>1, <2>2 DEF OriginInv, OnceOK
<1> QED BY <1>3, <1>4, <1>5 DEF OriginInv

\* GenerateBlock returns a block of its own time and of the transactions it took.
LEMMA ReturnOrigin ==
    ASSUME IInv, OriginInv, ReturnGenerate
    PROVE  OriginInv'
<1> USE DEF ReturnGenerate
<1>1. Drafting /\ Draft(job.blk, clock) /\ clock \in Nat
  BY DEF IInv, ExecutingOK, Executing, RestOK, Drafting
<1> PICK b : b = Sealed([job.blk EXCEPT !.Header.StateRoot = ReturnedRoot])
  OBVIOUS
<1> DEFINE H == NewHeader(CurrentBlock.Hash, CurrentBlock.Header.Number + 1, clock,
                          Len(job.blk.Body), None, job.blk.Body)
<1>2. b.Header.Time = clock /\ b.Body = job.blk.Body
  <2>1. job.blk = [Header |-> H, Body |-> job.blk.Body, Hash |-> None]
    BY <1>1 DEF Draft, NewBlock
  <2>2. [H EXCEPT !.StateRoot = ReturnedRoot].Time = clock
    BY DEF NewHeader
  <2> HIDE DEF H
  <2>3. [job.blk EXCEPT !.Header.StateRoot = ReturnedRoot]
          = [Header |-> [H EXCEPT !.StateRoot = ReturnedRoot],
             Body |-> job.blk.Body, Hash |-> None]
    BY <2>1
  <2>4. b.Header = [H EXCEPT !.StateRoot = ReturnedRoot] /\ b.Body = job.blk.Body
    BY <2>3 DEF Sealed
  <2> QED BY <2>2, <2>4
<1>3. offered' = offered \cup {b} /\ ~Drafting' /\ pc' \notin Executing \cup Putting
  BY DEF Drafting, Executing, Putting
<1>4. 0 < clock
  BY <1>1 DEF IInv, ExecutingOK, Drafting, Executing, OriginInv, TimesOK
<1>5. TimesOK'
  BY <1>1, <1>2, <1>3, <1>4 DEF OriginInv, TimesOK
<1>6. AuthoredOK'
  BY <1>3 DEF OriginInv, AuthoredOK, Authored
<1>7. OnceOK'
  <2>1. \A c \in offered : Disjoint(b.Body, c.Body) /\ Disjoint(c.Body, b.Body)
    BY <1>1, <1>2 DEF OriginInv, OnceOK, Disjoint
  <2> QED BY <1>1, <1>2, <1>3, <2>1 DEF OriginInv, OnceOK
<1> QED BY <1>5, <1>6, <1>7 DEF OriginInv

\* A stored block stays what it was: its hash names no other block.
LEMMA SameHash ==
    ASSUME IInv, OriginInv, NEW b, NEW c, Authored(b), Authored(c), IsBlock(b), IsBlock(c),
           b.Hash = c.Hash
    PROVE  b = c
<1>1. b.Header = c.Header
  BY DEF IsBlock, Hash
<1>2. CASE b \in offered \/ c \in offered
  BY <1>1, <1>2 DEF OriginInv, TimesOK, Authored
<1>3. CASE b.Body = << >> /\ c.Body = << >>
  BY <1>1, <1>3 DEF IsBlock
<1> QED BY <1>2, <1>3 DEF Authored

\* Every step keeps OriginInv.
LEMMA NextOrigin == IInv /\ OriginInv /\ [Next]_vars => OriginInv'
<1> SUFFICES ASSUME IInv, OriginInv, [Next]_vars PROVE OriginInv'
  OBVIOUS
<1>0. /\ pc \in Executing => job.call \in {"generate", "add"}
      /\ pc \in Putting => job.call \in {"genisis", "add"}
  BY DEF IInv, ExecutingOK, PuttingOK
<1>1. CASE NewBlockChain
  <2>1. CASE OpenFresh
    BY <2>1, BeginOrigin, NoTime DEF OpenFresh, memory, disk, world
  <2>2. CASE OpenExisting
    <3>1. pc' \notin Executing \cup Putting
      BY <2>2 DEF OpenExisting, Executing, Putting
    <3> QED BY <2>2, <3>1, SameCall DEF OpenExisting, disk, world
  <2> QED BY <1>1, <2>1, <2>2 DEF NewBlockChain
<1>2. CASE CloseBlockChain \/ Crash
  BY <1>2, DiesOrigin DEF CloseBlockChain, Crash
<1>3. ASSUME NEW tx \in Txs, SendTx2Pool(tx) PROVE OriginInv'
  <2> USE <1>3 DEF SendTx2Pool
  <2>1. TxQueue \in Seq(Txs)
    BY DEF IInv, RestOK
  <2>2. /\ Distinct(TxQueue') /\ Elems(TxQueue') \subseteq sent'
        /\ \A t : Elems(t) \subseteq sent /\ Disjoint(t, TxQueue) => Disjoint(t, TxQueue')
    BY <2>1, AppendOnce DEF OriginInv, OnceOK
  <2>3. Drafting' = Drafting
    BY DEF Drafting
  <2>4. OnceOK'
    BY <2>2, <2>3 DEF OriginInv, OnceOK
  <2>5. TimesOK' /\ AuthoredOK'
    BY <2>3 DEF OriginInv, TimesOK, AuthoredOK, Authored, disk
  <2> QED BY <2>4, <2>5 DEF OriginInv
<1>4. CASE \E u \in Updates : Update_PartitionMap(u[1], u[2])
  <2>1. UNCHANGED <<blockBucket, TxQueue, offered, sent, clock, pc, job>>
    BY <1>4 DEF Update_PartitionMap, disk, world
  <2> QED BY <1>0, <2>1, SameCall DEF Executing, Putting
<1>5. CASE GenerateBlock
  BY <1>5, GenerateOrigin
<1>6. ASSUME NEW b \in offered, AddBlock(b) PROVE OriginInv'
  BY <1>6, BeginOrigin DEF AddBlock, Accept, Authored, disk, world
<1>7. ASSUME NEW batch \in Injections, AddAccounts(batch) PROVE OriginInv'
  BY <1>7, BeginOrigin, DiesOrigin, NoTime DEF AddAccounts, Inject, world
<1>8. ASSUME NEW batch \in Injections, AddAccount(batch) PROVE OriginInv'
  BY <1>8, BeginOrigin, DiesOrigin, NoTime DEF AddAccount, Inject, Accept, world
<1>9. CASE GetUpdateStatusTrie
  <2>1. CASE Dies("panic")
    BY <2>1, DiesOrigin
  <2>2. CASE ~Dies("panic")
    <3>1. /\ pc \in Executing /\ pc' \in Executing
          /\ UNCHANGED <<blockBucket, TxQueue, offered, sent, clock>>
          /\ job' = [job EXCEPT !.st = StateRoot]
      BY <1>9, <2>2 DEF GetUpdateStatusTrie, Executing, disk, world
    <3>2. IsJob(job)
      BY <3>1 DEF IInv, ExecutingOK
    <3>3. job'.call = job.call /\ job'.blk = job.blk
      BY <3>1, <3>2 DEF IsJob
    <3> QED BY <3>1, <3>3, SameCall
  <2> QED BY <2>1, <2>2
<1>10. CASE Debit \/ Credit \/ CreditElsewhere
  <2>1. /\ pc \in Executing /\ pc' \in Executing
        /\ UNCHANGED <<blockBucket, TxQueue, offered, sent, clock>>
    BY <1>10 DEF Debit, Credit, CreditElsewhere, Advance, Executing, disk, memory, world
  <2>2. IsJob(job)
    BY <2>1 DEF IInv, ExecutingOK
  <2>3. ASSUME NEW j, j.call = job.call, j.blk = job.blk, Advance(j),
               j = [call |-> j.call, blk |-> j.blk, i |-> j.i, st |-> j.st, cnt |-> j.cnt]
        PROVE  job'.call = job.call /\ job'.blk = job.blk
    BY <2>3 DEF Advance
  <2>4. ASSUME NEW st
        PROVE  LET w == Wrote(st)
               IN  /\ w.call = job.call /\ w.blk = job.blk
                   /\ w = [call |-> w.call, blk |-> w.blk, i |-> w.i, st |-> w.st, cnt |-> w.cnt]
    BY DEF Wrote
  <2>5. \/ job' = job \/ Advance(job)
        \/ \E st : job' = Wrote(st) \/ Advance(Wrote(st))
    BY <1>10 DEF Debit, Credit, CreditElsewhere
  <2>6. job'.call = job.call /\ job'.blk = job.blk
    <3>1. CASE Advance(job)
      BY <2>2, <2>3, <3>1 DEF IsJob
    <3>2. ASSUME NEW st, job' = Wrote(st) \/ Advance(Wrote(st))
          PROVE  job'.call = job.call /\ job'.blk = job.blk
      BY <2>3, <2>4, <3>2
    <3> QED BY <2>5, <3>1, <3>2
  <2> QED BY <2>1, <2>6, SameCall
<1>11. CASE ReturnGenerate
  BY <1>11, ReturnOrigin
<1>12. CASE ReturnAdd
  <2>1. /\ pc \in Executing /\ pc' \notin Executing /\ job.call # "generate" /\ job' = job
        /\ UNCHANGED <<blockBucket, TxQueue, offered, sent, clock>>
    BY <1>12 DEF ReturnAdd, Executing, world
  <2> QED BY <2>1, SameCall
<1>13. CASE PutBlock
  <2> USE <1>13 DEF PutBlock
  <2>1. Authored(job.blk) /\ job.call # "generate"
    BY <1>0 DEF OriginInv, AuthoredOK, Putting
  <2>2. ~Drafting /\ ~Drafting'
    BY DEF Drafting, Executing
  <2>3. TimesOK' /\ OnceOK'
    BY <2>2 DEF OriginInv, TimesOK, OnceOK, memory, world
  <2>4. AuthoredOK'
    BY <2>1 DEF OriginInv, AuthoredOK, Authored, world
  <2> QED BY <2>3, <2>4 DEF OriginInv
<1>14. CASE PutHeader
  <2>1. /\ pc \in Putting /\ pc' \in Putting /\ pc' \notin Executing /\ job' = job
        /\ UNCHANGED <<blockBucket, TxQueue, offered, sent, clock>>
    BY <1>14 DEF PutHeader, Putting, Executing, memory, world
  <2>2. job.call # "generate"
    BY <1>0, <2>1
  <2> QED BY <2>1, <2>2, SameCall
<1>15. CASE PutNewest
  <2>1. /\ pc' \notin Executing \cup Putting
        /\ UNCHANGED <<blockBucket, TxQueue, offered, sent, clock>>
    BY <1>15 DEF PutNewest, Putting, Executing, world
  <2> QED BY <2>1, SameCall
<1>16. CASE UNCHANGED vars
  <2>1. UNCHANGED <<blockBucket, TxQueue, offered, sent, clock, pc, job>>
    BY <1>16 DEF vars, disk, memory, world
  <2> QED BY <1>0, <2>1, SameCall DEF Executing, Putting
<1> QED BY <1>1, <1>2, <1>3, <1>4, <1>5, <1>6, <1>7, <1>8, <1>9, <1>10, <1>11, <1>12, <1>13,
           <1>14, <1>15, <1>16 DEF Next, Execution, Storing

\* There is nothing yet.
LEMMA InitOrigin == Init => OriginInv
BY DEF Init, OriginInv, TimesOK, AuthoredOK, OnceOK, Drafting, Executing, Putting, Distinct,
       Disjoint, Elems, EmptyMap

\* OriginInv is an invariant of the specification.
THEOREM Origins == Spec => []OriginInv
BY InitOrigin, NextOrigin, Invariance, PTL DEF Spec

-----------------------------------------------------------------------------

\* No transaction is stored twice, whatever blocks are delivered again, late or
\* after a crash, and whatever is generated between.
THEOREM StoredAtMostOnce == Spec => []AtMostOnce
<1>1. IInv /\ OriginInv => AtMostOnce
  <2> SUFFICES ASSUME IInv, OriginInv, NEW g \in DOMAIN blockBucket, NEW h \in DOMAIN blockBucket,
                      NEW i \in DOMAIN blockBucket[g].Body, NEW k \in DOMAIN blockBucket[h].Body,
                      blockBucket[g].Body[i] = blockBucket[h].Body[k]
               PROVE  g = h /\ i = k
    BY DEF AtMostOnce
  <2>1. blockBucket[g].Body # << >> /\ blockBucket[h].Body # << >>
    OBVIOUS
  <2>2. blockBucket[g] \in offered /\ blockBucket[h] \in offered
    BY <2>1 DEF OriginInv, AuthoredOK, Authored
  <2>3. blockBucket[g] = blockBucket[h]
    BY <2>2 DEF OriginInv, OnceOK, Disjoint
  <2>4. blockBucket[g].Hash = g /\ blockBucket[h].Hash = h
    BY DEF IInv, BucketsOK, StoredOK
  <2> QED BY <2>2, <2>3, <2>4 DEF OriginInv, OnceOK, Distinct
<1> QED BY <1>1, Invariance, Origins, PTL

\* The genisis block is well formed.
LEMMA GenisisBlockOK ==
    GoodBlock(NewGenisisBlock(EmptyTrie)) /\ NewGenisisBlock(EmptyTrie).Header.Number = 0
<1> DEFINE H == NewHeader(None, 0, 0, 0, EmptyTrie, << >>)
<1> PICK b : b = NewGenisisBlock(EmptyTrie)
  OBVIOUS
<1>1. b = [Header |-> H, Body |-> << >>, Hash |-> Hash(H)]
  BY DEF NewGenisisBlock, Sealed, NewBlock
<1>2. H.Number = 0 /\ H.StateRoot = EmptyTrie
  BY DEF NewHeader
<1> HIDE DEF H
<1>3. /\ b.Header = H /\ b.Body = << >> /\ b.Hash = Hash(H)
      /\ b = [Header |-> b.Header, Body |-> b.Body, Hash |-> b.Hash]
  BY <1>1
<1>4. b.Body \in Seq(Txs)
  BY <1>3
<1> QED BY <1>2, <1>3, <1>4, EmptyTrieType DEF GoodBlock, IsBlock, HasRoot

\* To its readers, the file of a node is a BlockFile: a step of the node puts one
\* block that follows the newest, moves the newest hash to such a block, or leaves
\* the file as it is.
THEOREM NodeIsBlockFile == Spec => IsBlockFile
<1>1. Init => File!FileInit
  BY DEF Init, File!FileInit, File!EmptyBucket, EmptyMap
<1>2. IInv /\ OriginInv /\ [Next]_vars
        => [File!Put \/ File!MoveNewest]_<<blockBucket, newestBlockHash>>
  <2> SUFFICES ASSUME IInv, OriginInv, [Next]_vars
               PROVE  \/ File!Put \/ File!MoveNewest
                      \/ UNCHANGED <<blockBucket, newestBlockHash>>
    OBVIOUS
  <2>1. CASE PutBlock \/ PutNewest
    <3>1. /\ job.call \in {"genisis", "add"}
          /\ job.call = "genisis" => ~HasNewest /\ job.blk = NewGenisisBlock(EmptyTrie)
          /\ job.call = "add" => HasNewest /\ Storable(job.blk)
          /\ Authored(job.blk)
          /\ DOMAIN newestBlockHash \subseteq {"OnlyNewestBlock"}
      BY <2>1 DEF PutBlock, PutNewest, IInv, PuttingOK, Putting, BucketsOK, OriginInv, AuthoredOK
    <3>2. IsBlock(job.blk) /\ File!Follows(blockBucket, newestBlockHash, job.blk)
      <4>1. CASE job.call = "genisis"
        <5>1. GoodBlock(job.blk) /\ job.blk.Header.Number = 0
          BY <3>1, <4>1, GenisisBlockOK
        <5> QED BY <3>1, <4>1, <5>1 DEF File!Follows, HasNewest, GoodBlock
      <4>2. CASE job.call = "add"
        BY <3>1, <4>2 DEF File!Follows, HasNewest, Storable, GoodBlock, ChildOfTip, Tip, Newest
      <4> QED BY <3>1, <4>1, <4>2
    <3>3. CASE PutBlock /\ job.blk.Hash \in DOMAIN blockBucket
      <4>1. blockBucket[job.blk.Hash] = job.blk
        BY <3>1, <3>2, <3>3, SameHash
           DEF IInv, BucketsOK, StoredOK, GoodBlock, OriginInv, AuthoredOK
      <4>2. blockBucket' = blockBucket
        BY <3>3, <4>1 DEF PutBlock, OriginInv, AuthoredOK
      <4> QED BY <3>3, <4>2 DEF PutBlock
    <3>4. CASE PutBlock /\ job.blk.Hash \notin DOMAIN blockBucket
      <4> DEFINE h == job.blk.Hash
      <4>1. h \in DOMAIN blockBucket' \ DOMAIN blockBucket /\ blockBucket'[h] = job.blk
        BY <3>4 DEF PutBlock
      <4>2. blockBucket' = File!Stored(blockBucket, job.blk)
        BY <3>4 DEF PutBlock, File!Stored
      <4> QED BY <3>2, <3>4, <4>1, <4>2 DEF File!Put, PutBlock
    <3>5. CASE PutNewest
      <4>1. job.blk.Hash \in DOMAIN blockBucket /\ blockBucket[job.blk.Hash] = job.blk
        BY <3>5 DEF PutNewest, IInv, PuttingOK, Putting
      <4> QED BY <3>2, <3>5, <4>1 DEF File!MoveNewest, File!NewestIs, PutNewest
    <3> QED BY <2>1, <3>3, <3>4, <3>5
  <2>2. CASE ~PutBlock /\ ~PutNewest
    BY <2>2 DEF Next, NewBlockChain, OpenFresh, OpenExisting, CloseBlockChain, Crash, Dies,
       SendTx2Pool, Update_PartitionMap, GenerateBlock, AddBlock, AddAccounts, AddAccount,
       Inject, Execution, GetUpdateStatusTrie, Debit, Credit, CreditElsewhere,
       ReturnGenerate, ReturnAdd, Storing, PutHeader, disk, vars
  <2> QED BY <2>1, <2>2
<1> QED BY <1>1, <1>2, Invariance, Origins, PTL DEF Spec, IsBlockFile, File!FileSpec

-----------------------------------------------------------------------------
(* What a step does to the file, the tries and the call under way.         *)

\* A stored block stays, as it is.
LEMMA BucketKept ==
    ASSUME IInv, OriginInv, [Next]_vars, NEW h \in DOMAIN blockBucket
    PROVE  h \in DOMAIN blockBucket' /\ blockBucket'[h] = blockBucket[h]
<1>1. CASE PutBlock
  <2>1. /\ Authored(job.blk) /\ IsBlock(job.blk)
        /\ Authored(blockBucket[h]) /\ IsBlock(blockBucket[h]) /\ blockBucket[h].Hash = h
    <3>1. job.call \in {"genisis", "add"} /\ Authored(job.blk)
      BY <1>1 DEF PutBlock, IInv, PuttingOK, Putting, OriginInv, AuthoredOK
    <3>2. IsBlock(job.blk)
      <4>1. CASE job.call = "genisis"
        BY <1>1, <4>1, GenisisBlockOK DEF PutBlock, IInv, PuttingOK, Putting, GoodBlock
      <4>2. CASE job.call = "add"
        BY <1>1, <4>2 DEF PutBlock, IInv, PuttingOK, Putting, Storable, GoodBlock
      <4> QED BY <3>1, <4>1, <4>2
    <3> QED BY <3>1, <3>2 DEF IInv, BucketsOK, StoredOK, GoodBlock, OriginInv, AuthoredOK
  <2>2. h = job.blk.Hash => job.blk = blockBucket[h]
    BY <2>1, SameHash
  <2> QED BY <1>1, <2>2 DEF PutBlock
<1>2. CASE ~PutBlock
  <2>1. blockBucket' = blockBucket
    BY <1>2 DEF Next, NewBlockChain, OpenFresh, OpenExisting, CloseBlockChain, Crash, Dies,
       SendTx2Pool, Update_PartitionMap, GenerateBlock, AddBlock, AddAccounts, AddAccount,
       Inject, Execution, GetUpdateStatusTrie, Debit, Credit, CreditElsewhere,
       ReturnGenerate, ReturnAdd, Storing, PutHeader, PutNewest, disk, vars
  <2> QED BY <2>1
<1> QED BY <1>1, <1>2

\* What is on disk stays there.
LEMMA DiskGrows ==
    ASSUME [Next]_vars
    PROVE  trieDisk \subseteq trieDisk'
BY DEF Next, NewBlockChain, OpenFresh, OpenExisting, CloseBlockChain, Crash, Dies,
   SendTx2Pool, Update_PartitionMap, GenerateBlock, AddBlock, AddAccounts, AddAccount,
   Inject, CommitInjected, Execution, GetUpdateStatusTrie, Debit, Credit, CreditElsewhere,
   ReturnGenerate, ReturnAdd, CommitExecuted, Storing, PutBlock, PutHeader, PutNewest,
   disk, memory, vars

\* The loop writes the trie and its count together, and stays with its block.
LEMMA LoopCall ==
    ASSUME IInv, Debit \/ Credit \/ CreditElsewhere
    PROVE  /\ pc \in {"debit", "credit", "recheck"}
           /\ pc' \in {"debit", "credit", "recheck", "return"}
           /\ job'.call = job.call /\ job'.blk = job.blk
           /\ \/ job'.st = job.st /\ job'.cnt = job.cnt
              \/ job'.cnt = job.cnt + 1
<1>1. pc \in {"debit", "credit", "recheck"} /\ pc' \in {"debit", "credit", "recheck", "return"}
  BY DEF Debit, Credit, CreditElsewhere, Advance
<1>2. job = [call |-> job.call, blk |-> job.blk, i |-> job.i, st |-> job.st, cnt |-> job.cnt]
  BY <1>1 DEF IInv, ExecutingOK, IsJob, Executing
<1>3. CASE job' = job
  BY <1>1, <1>3
<1>4. CASE Advance(job)
  BY <1>1, <1>2, <1>4 DEF Advance
<1>5. ASSUME NEW st, job' = Wrote(st) \/ Advance(Wrote(st))
      PROVE  job'.call = job.call /\ job'.blk = job.blk /\ job'.cnt = job.cnt + 1
  <2>1. CASE job' = Wrote(st)
    BY <2>1 DEF Wrote
  <2>2. CASE Advance(Wrote(st))
    <3> DEFINE w == Wrote(st)
    <3>1. /\ w = [call |-> w.call, blk |-> w.blk, i |-> w.i, st |-> w.st, cnt |-> w.cnt]
          /\ w.call = job.call /\ w.blk = job.blk /\ w.cnt = job.cnt + 1
      BY DEF Wrote
    <3> HIDE DEF w
    <3>2. Advance(w)
      BY <2>2 DEF w
    <3> QED BY <3>1, <3>2 DEF Advance
  <2> QED BY <1>5, <2>1, <2>2
<1>6. job' = job \/ Advance(job) \/ \E st : job' = Wrote(st) \/ Advance(Wrote(st))
  BY DEF Debit, Credit, CreditElsewhere
<1> QED BY <1>1, <1>3, <1>4, <1>5, <1>6

\* The block that GenerateBlock returns.
LEMMA GeneratedBlock ==
    ASSUME IInv, ReturnGenerate
    PROVE  \E b : /\ offered' = offered \cup {b}
                  /\ b.Header.ParentBlockHash = Newest /\ HasNewest
                  /\ CurrentBlock = Tip
                  /\ b.Header.StateRoot = ReturnedRoot
                  /\ b.Body = job.blk.Body
<1> USE DEF ReturnGenerate
<1>1. Draft(job.blk, clock) /\ HasNewest /\ CurrentBlock = Tip /\ Tip.Hash = Newest
  BY DEF IInv, ExecutingOK, CurrentOK, Executing, BucketsOK, StoredOK, Tip
<1> DEFINE H == NewHeader(Tip.Hash, Tip.Header.Number + 1, clock, Len(job.blk.Body),
                          None, job.blk.Body)
           b == Sealed([job.blk EXCEPT !.Header.StateRoot = ReturnedRoot])
<1>2. job.blk = [Header |-> H, Body |-> job.blk.Body, Hash |-> None]
  BY <1>1 DEF Draft, NewBlock
<1>3. H.ParentBlockHash = Newest
      /\ [H EXCEPT !.StateRoot = ReturnedRoot].ParentBlockHash = Newest
      /\ [H EXCEPT !.StateRoot = ReturnedRoot].StateRoot = ReturnedRoot
  BY <1>1 DEF NewHeader
<1> HIDE DEF H
<1>4. [job.blk EXCEPT !.Header.StateRoot = ReturnedRoot]
        = [Header |-> [H EXCEPT !.StateRoot = ReturnedRoot],
           Body |-> job.blk.Body, Hash |-> None]
  BY <1>2
<1>5. b.Header = [H EXCEPT !.StateRoot = ReturnedRoot] /\ b.Body = job.blk.Body
  BY <1>4 DEF Sealed
<1>6. offered' = offered \cup {b}
  OBVIOUS
<1> HIDE DEF b
<1> QED BY <1>1, <1>3, <1>5, <1>6

-----------------------------------------------------------------------------
(* The state that the parent of an injection points to. *)

\* What is said of a block whose parent is stored stays true.
LEMMA ParentDurableFrame ==
    ASSUME IInv, OriginInv, [Next]_vars, NEW b, ParentDurable(b),
           b.Header.Number > 0 => b.Header.ParentBlockHash \in DOMAIN blockBucket
    PROVE  ParentDurable(b)'
<1>1. trieDisk \subseteq trieDisk'
  BY DiskGrows
<1>2. b.Header.Number > 0 => Parent(b)' = Parent(b)
  BY BucketKept DEF Parent
<1> QED BY <1>1, <1>2 DEF ParentDurable

\* A stored block and a block that may be stored have a stored parent, or none.
LEMMA ParentStored ==
    ASSUME IInv
    PROVE  /\ \A h \in DOMAIN blockBucket :
                blockBucket[h].Header.Number > 0
                  => blockBucket[h].Header.ParentBlockHash \in DOMAIN blockBucket
           /\ \A b \in offered : b.Header.ParentBlockHash \in DOMAIN blockBucket
           /\ \A b : HasNewest /\ Storable(b)
                  => b.Header.ParentBlockHash \in DOMAIN blockBucket /\ Parent(b) = Tip
<1>1. ASSUME NEW h \in DOMAIN blockBucket, blockBucket[h].Header.Number > 0
      PROVE  blockBucket[h].Header.ParentBlockHash \in DOMAIN blockBucket
  BY <1>1 DEF IInv, BucketsOK, StoredOK
<1>2. \A b \in offered : b.Header.ParentBlockHash \in DOMAIN blockBucket
  BY DEF IInv, OfferedOK
<1>3. ASSUME NEW b, HasNewest, Storable(b)
      PROVE  b.Header.ParentBlockHash \in DOMAIN blockBucket /\ Parent(b) = Tip
  BY <1>3 DEF IInv, BucketsOK, Storable, ChildOfTip, Parent, Tip
<1> QED BY <1>1, <1>2, <1>3

\* The block of an injection: its parent is the current block, whose state the
\* injection has written unless it left it as it was.
LEMMA InjectionDurable ==
    ASSUME IInv, pc = "idle", NEW batch \in Injections, NEW root, IsTrie(root),
           DOMAIN batch = {} => root = StateRoot, Inject(batch, root),
           NEW b, b = InjectionBlock(root)
    PROVE  ParentDurable(b)'
<1>1. ChildOfTip(b) /\ b.Header.StateRoot = root
  BY InjectionBlockOK
<1>2. HasNewest /\ CurrentBlock = Tip /\ Readable(StateRoot)
  BY DEF IInv, CurrentOK
<1>3. Parent(b)' = Tip
  BY <1>1, <1>2 DEF Inject, ChildOfTip, Parent, Tip
<1>4. CASE DOMAIN batch = {}
  BY <1>1, <1>2, <1>3, <1>4 DEF ParentDurable, StateRoot
<1>5. CASE DOMAIN batch # {}
  <2>1. StateRoot \in trieDisk' \cup {EmptyTrie}
    BY <1>2, <1>5 DEF Inject, CommitInjected, Readable
  <2> QED BY <1>2, <1>3, <2>1 DEF ParentDurable, StateRoot
<1> QED BY <1>4, <1>5

\* Where the call under way is after a step: at its beginning, gone, or still at the
\* same block.
LEMMA CallKept ==
    ASSUME IInv, [Next]_vars, pc' \in Executing \cup Putting
    PROVE  \/ OpenFresh /\ job' = Job("genisis", NewGenisisBlock(EmptyTrie))
           \/ GenerateBlock /\ job'.call = "generate" /\ job'.cnt = 0 /\ pc' = "execute"
           \/ \E b \in offered : AddBlock(b) /\ job' = Job("add", b)
           \/ \E batch \in Injections :
                 /\ AddAccounts(batch) /\ Opens(batch) /\ pc' = "putBlock"
                 /\ job' = Job("add", InjectionBlock(
                                        InjectedLocal(StateRoot, PartitionMap, batch)))
           \/ \E batch \in Injections :
                 /\ AddAccount(batch) /\ Opens(batch)
                 /\ job' = Job("add", InjectionBlock(InjectedAny(StateRoot, batch)))
           \/ /\ pc \in Executing \cup Putting
              /\ pc' \in Executing => pc \in Executing
              /\ job'.call = job.call /\ job'.blk = job.blk
<1>0. ASSUME NEW where \in {"down", "panic"}, Dies(where) PROVE FALSE
  BY <1>0 DEF Dies, Executing, Putting
<1>1. CASE NewBlockChain
  BY <1>1 DEF NewBlockChain, OpenFresh, OpenExisting, Executing, Putting
<1>2. CASE CloseBlockChain \/ Crash
  BY <1>0, <1>2 DEF CloseBlockChain, Crash
<1>3. CASE \/ \E tx \in Txs : SendTx2Pool(tx)
           \/ \E u \in Updates : Update_PartitionMap(u[1], u[2])
           \/ UNCHANGED vars
  <2>1. UNCHANGED <<pc, job>>
    BY <1>3 DEF SendTx2Pool, Update_PartitionMap, vars
  <2> QED BY <2>1
<1>4. CASE GenerateBlock
  BY <1>4 DEF GenerateBlock, Job
<1>5. ASSUME NEW b \in offered, AddBlock(b) PROVE job' = Job("add", b)
  BY <1>5 DEF AddBlock, Accept
<1>6. ASSUME NEW batch \in Injections, AddAccounts(batch)
      PROVE  /\ Opens(batch) /\ pc' = "putBlock"
             /\ job' = Job("add", InjectionBlock(InjectedLocal(StateRoot, PartitionMap, batch)))
  BY <1>0, <1>6 DEF AddAccounts
<1>7. ASSUME NEW batch \in Injections, AddAccount(batch)
      PROVE  /\ Opens(batch)
             /\ job' = Job("add", InjectionBlock(InjectedAny(StateRoot, batch)))
  BY <1>0, <1>7 DEF AddAccount, Accept
<1>8. CASE GetUpdateStatusTrie
  <2>1. pc \in Executing /\ IsJob(job) /\ job' = [job EXCEPT !.st = StateRoot]
    BY <1>0, <1>8 DEF GetUpdateStatusTrie, Executing, IInv, ExecutingOK
  <2>2. job'.call = job.call /\ job'.blk = job.blk
    BY <2>1 DEF IsJob
  <2> QED BY <2>1, <2>2
<1>9. CASE Debit \/ Credit \/ CreditElsewhere
  BY <1>9, LoopCall DEF Executing
<1>10. CASE ReturnGenerate \/ PutNewest
  BY <1>10 DEF ReturnGenerate, PutNewest, Executing, Putting
<1>11. CASE ReturnAdd \/ PutBlock \/ PutHeader
  BY <1>11 DEF ReturnAdd, PutBlock, PutHeader, Executing, Putting
<1> QED BY <1>1, <1>2, <1>3, <1>4, <1>5, <1>6, <1>7, <1>8, <1>9, <1>10, <1>11
        DEF Next, Execution, Storing

\* The blocks that a step offers or stores.
LEMMA BlocksKept ==
    ASSUME [Next]_vars
    PROVE  /\ ReturnGenerate \/ offered' = offered
           /\ PutBlock \/ blockBucket' = blockBucket
BY DEF Next, NewBlockChain, OpenFresh, OpenExisting, CloseBlockChain, Crash, Dies,
   SendTx2Pool, Update_PartitionMap, GenerateBlock, AddBlock, AddAccounts, AddAccount,
   Inject, Execution, GetUpdateStatusTrie, Debit, Credit, CreditElsewhere,
   ReturnGenerate, ReturnAdd, Storing, PutBlock, PutHeader, PutNewest, disk, memory, world, vars

\* The trie of an execution is the one it started from until it is written.
LEMMA NextCount ==
    ASSUME IInv, CountOK, [Next]_vars
    PROVE  CountOK'
<1> SUFFICES ASSUME pc' \in Executing PROVE CountOK'
  BY DEF CountOK
<1>1. CASE UNCHANGED <<pc, job, CurrentBlock>>
  BY <1>1 DEF CountOK, StateRoot
<1>2. CASE pc' = "execute" /\ job'.cnt = 0
  BY <1>2 DEF CountOK
<1>3. CASE GetUpdateStatusTrie
  <2>1. /\ pc = "execute" /\ pc \in Executing /\ IsJob(job) /\ job.cnt = 0
        /\ job' = [job EXCEPT !.st = StateRoot] /\ CurrentBlock' = CurrentBlock
    BY <1>3 DEF GetUpdateStatusTrie, Dies, Executing, IInv, ExecutingOK, CountOK
  <2>2. job'.cnt = 0 /\ job'.st = StateRoot /\ StateRoot' = StateRoot
    BY <2>1 DEF IsJob, StateRoot
  <2> QED BY <2>2 DEF CountOK
<1>4. CASE Debit \/ Credit \/ CreditElsewhere
  <2>1. /\ pc \in {"debit", "credit", "recheck"} /\ pc \in Executing /\ pc' # "execute"
        /\ job'.blk = job.blk
        /\ (job'.st = job.st /\ job'.cnt = job.cnt) \/ job'.cnt = job.cnt + 1
    BY <1>4, LoopCall DEF Executing
  <2>2. job.cnt \in Nat /\ job.blk.Body # << >>
    BY <2>1 DEF IInv, ExecutingOK, IsJob
  <2>3. StateRoot' = StateRoot
    BY <1>4 DEF Debit, Credit, CreditElsewhere, memory, StateRoot
  <2> QED BY <2>1, <2>2, <2>3 DEF CountOK
<1>5. pc' \notin {"down", "panic", "idle", "putBlock", "putHeader", "putNewest"}
  BY DEF Executing
<1>6. CASE \E tx \in Txs : SendTx2Pool(tx)
  BY <1>1, <1>6 DEF SendTx2Pool
<1>7. CASE \E u \in Updates : Update_PartitionMap(u[1], u[2])
  BY <1>1, <1>7 DEF Update_PartitionMap
<1>8. CASE GenerateBlock
  BY <1>2, <1>8 DEF GenerateBlock, Job
<1>9. CASE \/ \E b \in offered : AddBlock(b)
           \/ \E batch \in Injections : AddAccounts(batch) \/ AddAccount(batch)
  <2>1. (\E b : Accept(b)) \/ pc' \in {"panic", "putBlock"}
    BY <1>9 DEF AddBlock, AddAccounts, AddAccount, Dies
  <2> QED BY <1>2, <1>5, <2>1 DEF Accept, Job
<1>10. CASE NewBlockChain \/ CloseBlockChain \/ Crash \/ ReturnGenerate \/ ReturnAdd \/ Storing
  BY <1>5, <1>10 DEF NewBlockChain, OpenFresh, OpenExisting, CloseBlockChain, Crash, Dies,
     ReturnGenerate, ReturnAdd, Storing, PutBlock, PutHeader, PutNewest
<1>11. CASE UNCHANGED vars
  BY <1>1, <1>11 DEF vars, memory
<1> QED BY <1>3, <1>4, <1>6, <1>7, <1>8, <1>9, <1>10, <1>11 DEF Next, Execution

\* Every step keeps DurableInv.
LEMMA NextDurable == IInv /\ OriginInv /\ DurableInv /\ [Next]_vars => DurableInv'
<1> SUFFICES ASSUME IInv, OriginInv, DurableInv, [Next]_vars PROVE DurableInv'
  OBVIOUS
<1>1. CountOK'
  BY NextCount DEF DurableInv
<1>2. ASSUME NEW h \in DOMAIN blockBucket'
      PROVE  ParentDurable(blockBucket[h])'
  <2> PICK b : b = blockBucket'[h]
    OBVIOUS
  <2>1. CASE h \in DOMAIN blockBucket
    <3>1. b = blockBucket[h]
      BY <2>1, BucketKept
    <3>2. ParentDurable(b)'
      BY <2>1, <3>1, ParentDurableFrame, ParentStored DEF DurableInv
    <3> QED BY <3>2
  <2>2. CASE h \notin DOMAIN blockBucket
    <3>1. PutBlock /\ b = job.blk
      BY <2>2, BlocksKept DEF PutBlock
    <3>2. /\ job.call \in {"genisis", "add"}
          /\ job.call = "genisis" => b = NewGenisisBlock(EmptyTrie)
          /\ job.call = "add" => HasNewest /\ Storable(b) /\ ParentDurable(b)
      BY <3>1 DEF PutBlock, IInv, PuttingOK, DurableInv, Putting
    <3>3. CASE job.call = "genisis"
      BY <3>2, <3>3, GenisisBlockOK DEF ParentDurable
    <3>4. CASE job.call = "add"
      <4>1. ParentDurable(b)'
        BY <3>2, <3>4, ParentDurableFrame, ParentStored
      <4> QED BY <4>1
    <3> QED BY <3>2, <3>3, <3>4
  <2> QED BY <2>1, <2>2
<1>3. ASSUME NEW b \in offered', b.Body = << >>
      PROVE  b.Header.StateRoot = Parent(b)'.Header.StateRoot
  <2>1. CASE b \in offered
    <3>1. Parent(b)' = Parent(b)
      BY <2>1, ParentStored, BucketKept DEF Parent
    <3> QED BY <1>3, <2>1, <3>1 DEF DurableInv
  <2>2. CASE b \notin offered
    <3>1. ReturnGenerate
      BY <2>2, BlocksKept
    <3>2. /\ b.Header.ParentBlockHash = Newest /\ CurrentBlock = Tip
          /\ b.Header.StateRoot = ReturnedRoot /\ job.blk.Body = << >>
      BY <1>3, <2>2, <3>1, GeneratedBlock
    <3>3. Parent(b)' = Tip
      BY <3>1, <3>2 DEF ReturnGenerate, Parent, Tip
    <3>4. job.cnt = 0
      BY <3>1, <3>2 DEF ReturnGenerate, DurableInv, CountOK, Executing
    <3> QED BY <3>2, <3>3, <3>4 DEF ReturnedRoot, StateRoot
  <2> QED BY <2>1, <2>2
<1>4. ASSUME pc' \in Executing \cup Putting, job'.call = "add"
      PROVE  ParentDurable(job.blk)'
  <2>1. \A call, b : Job(call, b).call = call /\ Job(call, b).blk = b
    BY DEF Job
  <2>2. ASSUME NEW b \in offered, AddBlock(b), job' = Job("add", b)
        PROVE  ParentDurable(job.blk)'
    <3>1. ParentDurable(b)
      BY DEF DurableInv, ParentDurable
    <3>2. ParentDurable(b)'
      BY <3>1, ParentDurableFrame, ParentStored
    <3> QED BY <2>1, <2>2, <3>2
  <2>3. ASSUME NEW batch \in Injections, AddAccounts(batch), Opens(batch),
               job' = Job("add", InjectionBlock(InjectedLocal(StateRoot, PartitionMap, batch)))
        PROVE  ParentDurable(job.blk)'
    <3> PICK root : root = InjectedLocal(StateRoot, PartitionMap, batch)
      OBVIOUS
    <3> PICK b : b = InjectionBlock(root)
      OBVIOUS
    <3>1. Inject(batch, root) /\ pc = "idle"
      BY <2>3 DEF AddAccounts, MayInject
    <3>2. ParentDurable(b)'
      BY <3>1, InjectionDurable, InjectedRoots
    <3> QED BY <2>1, <2>3, <3>2
  <2>4. ASSUME NEW batch \in Injections, AddAccount(batch), Opens(batch),
               job' = Job("add", InjectionBlock(InjectedAny(StateRoot, batch)))
        PROVE  ParentDurable(job.blk)'
    <3> PICK root : root = InjectedAny(StateRoot, batch)
      OBVIOUS
    <3> PICK b : b = InjectionBlock(root)
      OBVIOUS
    <3>1. Inject(batch, root) /\ pc = "idle"
      BY <2>4 DEF AddAccount, MayInject
    <3>2. ParentDurable(b)'
      BY <3>1, InjectionDurable, InjectedRoots
    <3> QED BY <2>1, <2>4, <3>2
  <2>5. ASSUME pc \in Executing \cup Putting, job'.call = job.call, job'.blk = job.blk
        PROVE  ParentDurable(job.blk)'
    <3> PICK b : b = job.blk
      OBVIOUS
    <3>1. HasNewest /\ Storable(b) /\ ParentDurable(b)
      BY <1>4, <2>5 DEF IInv, CurrentOK, ExecutingOK, PuttingOK, DurableInv
    <3>2. ParentDurable(b)'
      BY <3>1, ParentDurableFrame, ParentStored
    <3> QED BY <2>5, <3>2
  <2>6. ~(job' = Job("genisis", NewGenisisBlock(EmptyTrie)))
    BY <1>4, <2>1
  <2> QED BY <1>4, <2>2, <2>3, <2>4, <2>5, <2>6, CallKept
<1> QED BY <1>1, <1>2, <1>3, <1>4 DEF DurableInv

\* DurableInv is an invariant of the specification.
THEOREM Durables == Spec => []DurableInv
<1>1. Init => DurableInv
  BY DEF Init, DurableInv, CountOK, Executing, Putting, EmptyMap
<1> QED BY <1>1, NextDurable, Invariance, Origins, PTL DEF Spec

\* When a stored block changed the state without transactions, the state of its
\* parent is on disk: a restart can lose the state of the newest block alone.
THEOREM ParentOfInjectionAlwaysDurable == Spec => []ParentOfInjectionDurable
<1>1. DurableInv => ParentOfInjectionDurable
  BY DEF DurableInv, ParentDurable, ParentOfInjectionDurable
<1> QED BY <1>1, Durables, PTL
=============================================================================
