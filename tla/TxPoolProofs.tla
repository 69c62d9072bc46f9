---------------------------- MODULE TxPoolProofs ----------------------------
(***************************************************************************)
(* Proofs about the transaction pool: on Go slices that share arrays it    *)
(* does what it does on values, for any capacities append may choose, as   *)
(* long as the newest outstanding batch is the one that is put back.  In   *)
(* an array the outstanding batches lie in their order and the queue       *)
(* behind them, so what append writes behind the queue, or behind the      *)
(* newest batch, no older batch shows.                                     *)
(***************************************************************************)
EXTENDS TxPoolSlices, SumProofs, SequenceTheorems

-----------------------------------------------------------------------------
(* The inductive invariant. *)

Cells == Txs \cup {None}

Slices == [array : Arrays, off : Nat, len : Nat]

End(s) == s.off + s.len

\* A slice lies within its array and shows transactions.
Fits(h, s) ==
    /\ s \in Slices /\ s.array \in DOMAIN h
    /\ h[s.array] \in Seq(Cells)
    /\ End(s) <= Len(h[s.array])
    /\ \A i \in 1 .. s.len : h[s.array][s.off + i] \in Txs

Before(s, t) == s.array = t.array => End(s) <= t.off

SliceInv ==
    /\ heap = [a \in DOMAIN heap |-> heap[a]]
    /\ DOMAIN heap = {s.array : s \in ToSet(batches) \cup {queue}}
    /\ batches \in Seq(Slices) /\ Len(batches) <= MaxOut
    /\ \A s \in ToSet(batches) \cup {queue} : Fits(heap, s)
    /\ \A i, k \in DOMAIN batches : i < k => Before(batches[i], batches[k])
    /\ \A i \in DOMAIN batches : Before(batches[i], queue)

-----------------------------------------------------------------------------
(* Reading. *)

LEMMA SeqIsFunction ==
    ASSUME NEW S, NEW s \in Seq(S)
    PROVE  DOMAIN s = 1 .. Len(s) /\ s = [i \in DOMAIN s |-> s[i]]
OBVIOUS

LEMMA ReadIs ==
    ASSUME NEW h, NEW s, Fits(h, s)
    PROVE  /\ ReadIn(h, s) \in Seq(Txs) /\ Len(ReadIn(h, s)) = s.len
           /\ s.len \in Nat /\ s.off \in Nat
           /\ \A i \in 1 .. s.len : ReadIn(h, s)[i] = h[s.array][s.off + i]
<1> DEFINE cells == h[s.array]
           m == s.off + 1
           n == s.off + s.len
<1>1. s.off \in Nat /\ s.len \in Nat /\ m \in Int /\ n \in Int
  BY DEF Fits, Slices
<1>2. ASSUME NEW i \in m .. n PROVE cells[i] \in Txs
  <2>1. i - s.off \in 1 .. s.len /\ s.off + (i - s.off) = i
    BY <1>1
  <2>2. \A k \in 1 .. s.len : cells[s.off + k] \in Txs
    BY DEF Fits
  <2> HIDE DEF cells
  <2> QED BY <2>1, <2>2
<1>3. ReadIn(h, s) = SubSeq(cells, m, n)
  BY DEF ReadIn
<1>4. /\ n - m + 1 = s.len /\ (m <= n <=> s.len > 0)
      /\ \A i \in 1 .. s.len : m + i - 1 = s.off + i
  BY <1>1
<1>5. /\ SubSeq(cells, m, n) \in Seq(Txs)
      /\ Len(SubSeq(cells, m, n)) = IF m <= n THEN n - m + 1 ELSE 0
      /\ \A i \in 1 .. n - m + 1 : SubSeq(cells, m, n)[i] = cells[m + i - 1]
  <2> HIDE DEF cells, m, n
  <2> QED BY <1>1, <1>2, SubSeqProperties
<1>6. Len(SubSeq(cells, m, n)) = s.len
  <2> HIDE DEF cells, m, n
  <2> QED BY <1>1, <1>4, <1>5
<1>7. \A i \in 1 .. s.len : SubSeq(cells, m, n)[i] = cells[s.off + i]
  <2> HIDE DEF cells, m, n
  <2> QED BY <1>1, <1>4, <1>5
<1> QED BY <1>1, <1>3, <1>5, <1>6, <1>7

\* Two slices that show the same transactions.
LEMMA SameRead ==
    ASSUME NEW h, NEW s, Fits(h, s), NEW q \in Seq(Txs), Len(q) = s.len,
           \A i \in 1 .. s.len : h[s.array][s.off + i] = q[i]
    PROVE  ReadIn(h, s) = q
<1>1. /\ ReadIn(h, s) \in Seq(Txs) /\ Len(ReadIn(h, s)) = s.len
      /\ \A i \in 1 .. s.len : ReadIn(h, s)[i] = h[s.array][s.off + i]
  BY ReadIs
<1> QED BY <1>1, SeqEqual

\* A heap in which the slice shows what it showed.
LEMMA KeptRead ==
    ASSUME NEW h, NEW g, NEW s, Fits(h, s), s.array \in DOMAIN g, g[s.array] \in Seq(Cells),
           Len(g[s.array]) = Len(h[s.array]),
           \A i \in 1 .. s.len : g[s.array][s.off + i] = h[s.array][s.off + i]
    PROVE  Fits(g, s) /\ ReadIn(g, s) = ReadIn(h, s)
<1>1. Fits(g, s)
  BY DEF Fits
<1>2. /\ ReadIn(h, s) \in Seq(Txs) /\ Len(ReadIn(h, s)) = s.len
      /\ \A i \in 1 .. s.len : ReadIn(h, s)[i] = h[s.array][s.off + i]
  BY ReadIs
<1> QED BY <1>1, <1>2, SameRead

\* Forgetting what no slice shows.
LEMMA LiveKeeps ==
    ASSUME NEW h, NEW slices, \A s \in slices : Fits(h, s)
    PROVE  /\ Live(h, slices) = [a \in DOMAIN Live(h, slices) |-> Live(h, slices)[a]]
           /\ DOMAIN Live(h, slices) = {s.array : s \in slices}
           /\ \A s \in slices : /\ Fits(Live(h, slices), s)
                                /\ ReadIn(Live(h, slices), s) = ReadIn(h, s)
<1> DEFINE Shown(a, i) == \E s \in slices : s.array = a /\ i \in s.off + 1 .. s.off + s.len
           g == [a \in {s.array : s \in slices} |->
                   [i \in DOMAIN h[a] |-> IF Shown(a, i) THEN h[a][i] ELSE None]]
<1>1. Live(h, slices) = g
  BY DEF Live
<1>2. DOMAIN g = {s.array : s \in slices} /\ g = [a \in DOMAIN g |-> g[a]]
  OBVIOUS
<1>3. ASSUME NEW s \in slices
      PROVE  Fits(g, s) /\ ReadIn(g, s) = ReadIn(h, s)
  <2>1. /\ h[s.array] \in Seq(Cells) /\ s.off \in Nat /\ s.len \in Nat
        /\ s.off + s.len <= Len(h[s.array]) /\ Fits(h, s)
    BY DEF Fits, Slices, End
  <2>2. g[s.array] = [i \in DOMAIN h[s.array] |-> IF Shown(s.array, i) THEN h[s.array][i] ELSE None]
    OBVIOUS
  <2> HIDE DEF g
  <2>3. Len(h[s.array]) \in Nat /\ DOMAIN h[s.array] = 1 .. Len(h[s.array])
    BY <2>1
  <2>4. \A i \in 1 .. Len(h[s.array]) : h[s.array][i] \in Cells
    BY <2>1
  <2>5. g[s.array] \in Seq(Cells) /\ Len(g[s.array]) = Len(h[s.array])
    <3> HIDE DEF Shown
    <3> DEFINE n == Len(h[s.array])
    <3>1. g[s.array] \in [1 .. n -> Cells]
      BY <2>2, <2>3, <2>4 DEF Cells
    <3>2. n \in Nat
      BY <2>3
    <3> HIDE DEF n
    <3> QED BY <3>1, <3>2 DEF n
  <2>6. ASSUME NEW i \in 1 .. s.len
        PROVE  g[s.array][s.off + i] = h[s.array][s.off + i]
    <3>1. s.off + i \in 1 .. Len(h[s.array]) /\ s.off + i \in s.off + 1 .. s.off + s.len
      BY <2>1, <2>3
    <3>2. Shown(s.array, s.off + i)
      BY <3>1
    <3> HIDE DEF Shown
    <3> QED BY <2>2, <2>3, <3>1, <3>2
  <2>7. s.array \in DOMAIN g
    BY <1>2
  <2> QED BY <2>1, <2>5, <2>6, <2>7, KeptRead
<1> QED BY <1>1, <1>2, <1>3

-----------------------------------------------------------------------------
(* Writing. *)

\* There is always an array that no slice refers to.
LEMMA UnusedIs ==
    ASSUME SliceInv
    PROVE  Unused \in Arrays /\ Unused \notin DOMAIN heap
<1> DEFINE n == Len(batches)
           g == [i \in 0 .. n |-> IF i = 0 THEN queue.array ELSE batches[i].array]
<1>1. n \in Nat /\ n <= MaxOut /\ MaxOut \in Nat /\ DOMAIN batches = 1 .. n
  BY PoolBoundAssumption DEF SliceInv
<1>2. DOMAIN heap = {g[i] : i \in 0 .. n}
  <2>1. \A i \in 1 .. n : i \in 0 .. n /\ i # 0
    BY <1>1
  <2>2. ToSet(batches) = {batches[i] : i \in 1 .. n}
    BY <1>1 DEF ToSet
  <2>3. DOMAIN heap = {batches[i].array : i \in 1 .. n} \cup {queue.array}
    BY <2>2 DEF SliceInv
  <2> HIDE DEF n
  <2> QED BY <1>1, <2>1, <2>3
<1> HIDE DEF g
<1>3. IsFiniteSet(0 .. n) /\ Cardinality(0 .. n) = n + 1
  BY <1>1, FS_Interval
<1>4. IsFiniteSet(DOMAIN heap) /\ Cardinality(DOMAIN heap) <= n + 1
  BY <1>2, <1>3, ValuesFinite
<1>5. IsFiniteSet(Arrays) /\ Cardinality(Arrays) = MaxOut + 2
  BY <1>1, FS_Interval DEF Arrays
<1>6. ~(Arrays \subseteq DOMAIN heap)
  <2>1. SUFFICES ASSUME Arrays \subseteq DOMAIN heap PROVE FALSE
    OBVIOUS
  <2>2. Cardinality(Arrays) <= Cardinality(DOMAIN heap)
    BY <1>4, <2>1, FS_Subset
  <2>3. Cardinality(DOMAIN heap) \in Nat
    BY <1>4, FS_CardinalityType
  <2> QED BY <1>1, <1>4, <1>5, <2>2, <2>3
<1> QED BY <1>6 DEF Unused

\* vals written right behind a slice, in its array, are not seen by slices that
\* end no later.
LEMMA WrittenKeeps ==
    ASSUME SliceInv, NEW s, Fits(heap, s), NEW vals \in Seq(Txs),
           s.len + Len(vals) <= Capacity(s)
    PROVE  LET h == Written(s.array, s.off + s.len, vals)
               new == Slice(s.array, s.off, s.len + Len(vals))
           IN  /\ Fits(h, new) /\ ReadIn(h, new) = Read(s) \o vals
               /\ \A t : Fits(heap, t) /\ (t.array = s.array => End(t) <= End(s)) =>
                      Fits(h, t) /\ ReadIn(h, t) = Read(t)
<1> DEFINE a == s.array
           off == s.off + s.len
           n == Len(vals)
           cells == [i \in DOMAIN heap[a] |->
                       IF i \in off + 1 .. off + n THEN vals[i - off] ELSE heap[a][i]]
           h == Written(a, off, vals)
           new == Slice(a, s.off, s.len + n)
<1>1. /\ s.off \in Nat /\ s.len \in Nat /\ n \in Nat /\ off \in Nat /\ a \in Arrays
      /\ a \in DOMAIN heap /\ heap[a] \in Seq(Cells) /\ off + n <= Len(heap[a])
      /\ Len(heap[a]) \in Nat /\ DOMAIN heap[a] = 1 .. Len(heap[a])
      /\ \A i \in 1 .. s.len : heap[a][s.off + i] \in Txs
      /\ \A i \in 1 .. n : vals[i] \in Txs
  <2>1. /\ s.off \in Nat /\ s.len \in Nat /\ n \in Nat /\ a \in Arrays
        /\ a \in DOMAIN heap /\ heap[a] \in Seq(Cells)
        /\ \A i \in 1 .. s.len : heap[a][s.off + i] \in Txs
    BY DEF Fits, Slices
  <2>2. Len(heap[a]) \in Nat /\ DOMAIN heap[a] = 1 .. Len(heap[a])
    BY <2>1
  <2>3. s.len + n <= Len(heap[a]) - s.off
    BY DEF Capacity
  <2>4. \A i \in 1 .. n : vals[i] \in Txs
    OBVIOUS
  <2> DEFINE size == Len(heap[a])
  <2>5. s.off \in Nat /\ s.len \in Nat /\ n \in Nat /\ size \in Nat /\ s.len + n <= size - s.off
    BY <2>1, <2>2, <2>3
  <2>6. off \in Nat /\ off + n <= size
    <3> HIDE DEF n, size
    <3> QED BY <2>5
  <2> HIDE DEF n, off
  <2> QED BY <2>1, <2>2, <2>4, <2>6
<1>2. h = [heap EXCEPT ![a] = cells]
  BY DEF Written
<1>3. cells \in Seq(Cells) /\ Len(cells) = Len(heap[a])
  <2>1. \A i \in 1 .. Len(heap[a]) : heap[a][i] \in Cells
    BY <1>1
  <2>2. \A i \in off + 1 .. off + n : i - off \in 1 .. n
    BY <1>1
  <2> DEFINE m == Len(heap[a])
  <2>3. \A i \in 1 .. m : (IF i \in off + 1 .. off + n THEN vals[i - off] ELSE heap[a][i]) \in Cells
    <3> HIDE DEF off, n, a
    <3> QED BY <1>1, <2>1, <2>2 DEF Cells
  <2>4. cells \in [1 .. m -> Cells]
    <3>1. DOMAIN heap[a] = 1 .. m
      BY <1>1
    <3> HIDE DEF off, n, a, m
    <3> QED BY <2>3, <3>1
  <2>5. m \in Nat
    BY <1>1
  <2> HIDE DEF cells, m
  <2> QED BY <2>4, <2>5 DEF m
<1>4. \A i \in 1 .. Len(heap[a]) :
          cells[i] = IF i \in off + 1 .. off + n THEN vals[i - off] ELSE heap[a][i]
  BY <1>1
<1> HIDE DEF cells
<1>5. /\ DOMAIN h = DOMAIN heap /\ h[a] = cells
      /\ \A b \in DOMAIN heap : b # a => h[b] = heap[b]
  <2> HIDE DEF a
  <2> QED BY <1>1, <1>2 DEF SliceInv
<1>6. /\ new.array = a /\ new.off = s.off /\ new.len = s.len + n
      /\ new \in Slices
  BY <1>1 DEF Slice, Slices
<1> HIDE DEF h, new
<1>7. \A i \in 1 .. s.len : cells[s.off + i] = heap[a][s.off + i]
  <2> SUFFICES ASSUME NEW i \in 1 .. s.len PROVE cells[s.off + i] = heap[a][s.off + i]
    OBVIOUS
  <2> DEFINE size == Len(heap[a])
  <2>1. /\ s.off \in Nat /\ s.len \in Nat /\ n \in Nat /\ size \in Nat
        /\ off = s.off + s.len /\ off + n <= size
    BY <1>1
  <2> HIDE DEF off, n, size
  <2>2. s.off + i \in 1 .. size /\ s.off + i \notin off + 1 .. off + n
    BY <2>1
  <2> QED BY <1>4, <2>2 DEF size
<1>8. \A i \in 1 .. n : cells[off + i] = vals[i]
  <2> SUFFICES ASSUME NEW i \in 1 .. n PROVE cells[off + i] = vals[i]
    OBVIOUS
  <2> DEFINE size == Len(heap[a])
  <2>1. size \in Nat /\ off \in Nat /\ n \in Nat /\ off + n <= size
    BY <1>1
  <2> HIDE DEF off, n, size
  <2>2. off + i \in 1 .. size /\ off + i \in off + 1 .. off + n /\ (off + i) - off = i
    BY <2>1
  <2> QED BY <1>4, <2>2 DEF size
<1>9. \A i \in 1 .. s.len + n :
          cells[s.off + i] = IF i <= s.len THEN heap[a][s.off + i] ELSE vals[i - s.len]
  <2> SUFFICES ASSUME NEW i \in 1 .. s.len + n
               PROVE  cells[s.off + i] = IF i <= s.len THEN heap[a][s.off + i]
                                         ELSE vals[i - s.len]
    OBVIOUS
  <2>1. CASE i <= s.len
    BY <1>1, <1>7, <2>1
  <2>2. CASE ~(i <= s.len)
    <3>1. s.off \in Nat /\ s.len \in Nat /\ n \in Nat /\ off = s.off + s.len
      BY <1>1
    <3> HIDE DEF off, n
    <3>2. i - s.len \in 1 .. n /\ off + (i - s.len) = s.off + i
      BY <2>2, <3>1, SMTT(20)
    <3> QED BY <1>8, <2>2, <3>2
  <2> QED BY <2>1, <2>2
<1>10. Fits(h, new)
  <2>1. ASSUME NEW i \in 1 .. new.len PROVE h[new.array][new.off + i] \in Txs
    <3>1. i \in 1 .. s.len + n /\ (~(i <= s.len) => i - s.len \in 1 .. n)
          /\ (i <= s.len => i \in 1 .. s.len)
      BY <1>1, <1>6
    <3> QED BY <1>1, <1>5, <1>6, <1>9, <3>1
  <2>2. End(new) <= Len(h[new.array])
    BY <1>1, <1>3, <1>5, <1>6 DEF End
  <2> QED BY <1>1, <1>3, <1>5, <1>6, <2>1, <2>2 DEF Fits
<1>11. ReadIn(h, new) = Read(s) \o vals
  <2> DEFINE old == Read(s)
             q == old \o vals
  <2>1. /\ old \in Seq(Txs) /\ Len(old) = s.len
        /\ \A i \in 1 .. s.len : old[i] = heap[a][s.off + i]
    BY ReadIs DEF Read
  <2> HIDE DEF old
  <2>2. /\ q \in Seq(Txs) /\ Len(q) = s.len + n
        /\ \A i \in 1 .. s.len + n : q[i] = IF i <= s.len THEN old[i] ELSE vals[i - s.len]
    <3>1. /\ old \o vals \in Seq(Txs) /\ Len(old \o vals) = Len(old) + Len(vals)
          /\ \A i \in 1 .. Len(old) + Len(vals) :
                (old \o vals)[i] = IF i <= Len(old) THEN old[i] ELSE vals[i - Len(old)]
      BY <2>1, ConcatProperties
    <3> QED BY <2>1, <3>1
  <2> HIDE DEF q
  <2>3. \A i \in 1 .. new.len : h[new.array][new.off + i] = q[i]
    <3> SUFFICES ASSUME NEW i \in 1 .. new.len
                 PROVE  h[new.array][new.off + i] = q[i]
      OBVIOUS
    <3>1. i \in 1 .. s.len + n /\ (i <= s.len => i \in 1 .. s.len)
      BY <1>1, <1>6
    <3> QED BY <1>5, <1>6, <1>9, <2>1, <2>2, <3>1
  <2>4. ReadIn(h, new) = q
    BY <1>6, <1>10, <2>2, <2>3, SameRead
  <2> QED BY <2>4 DEF q, old
<1>12. ASSUME NEW t, Fits(heap, t), t.array = a => End(t) <= End(s)
       PROVE  Fits(h, t) /\ ReadIn(h, t) = Read(t)
  <2>1. CASE t.array # a
    <3>1. t.array \in DOMAIN h /\ h[t.array] = heap[t.array] /\ heap[t.array] \in Seq(Cells)
      BY <1>5, <1>12, <2>1 DEF Fits
    <3> QED BY <1>12, <3>1, KeptRead DEF Read
  <2>2. CASE t.array = a
    <3>1. t.off \in Nat /\ t.len \in Nat /\ t.off + t.len <= off
      BY <1>12, <2>2 DEF Fits, Slices, End
    <3>2. \A i \in 1 .. t.len : cells[t.off + i] = heap[a][t.off + i]
      <4> SUFFICES ASSUME NEW i \in 1 .. t.len PROVE cells[t.off + i] = heap[a][t.off + i]
        OBVIOUS
      <4> DEFINE size == Len(heap[a])
      <4>1. n \in Nat /\ size \in Nat /\ off \in Nat /\ off + n <= size
        BY <1>1
      <4> HIDE DEF off, n, size
      <4>2. t.off + i \in 1 .. size /\ t.off + i \notin off + 1 .. off + n
        BY <3>1, <4>1
      <4> QED BY <1>4, <4>2 DEF size
    <3>3. /\ t.array \in DOMAIN h /\ h[t.array] = cells /\ h[t.array] \in Seq(Cells)
          /\ Len(h[t.array]) = Len(heap[t.array])
      BY <1>1, <1>3, <1>5, <2>2
    <3>4. \A i \in 1 .. t.len : h[t.array][t.off + i] = heap[t.array][t.off + i]
      BY <2>2, <3>2, <3>3
    <3> QED BY <1>12, <3>3, <3>4, KeptRead DEF Read
  <2> QED BY <2>1, <2>2
<1> QED BY <1>10, <1>11, <1>12 DEF h, new

\* A new array leaves the others alone.
LEMMA AllocatedKeeps ==
    ASSUME SliceInv, NEW vals \in Seq(Txs), NEW n \in Nat, Len(vals) <= n
    PROVE  LET h == Allocated(vals, n)
               new == Slice(Unused, 0, Len(vals))
           IN  /\ Fits(h, new) /\ ReadIn(h, new) = vals
               /\ \A t : Fits(heap, t) => Fits(h, t) /\ ReadIn(h, t) = Read(t)
<1> DEFINE h == Allocated(vals, n)
           new == Slice(Unused, 0, Len(vals))
           cells == [i \in 1 .. n |-> IF i <= Len(vals) THEN vals[i] ELSE None]
<1>1. Unused \in Arrays /\ Unused \notin DOMAIN heap
  BY UnusedIs
<1>2. Len(vals) \in Nat /\ \A i \in 1 .. Len(vals) : vals[i] \in Txs
  OBVIOUS
<1>3. cells \in Seq(Cells) /\ Len(cells) = n /\ \A i \in 1 .. Len(vals) : cells[i] = vals[i]
  <2>1. \A i \in 1 .. n : (IF i <= Len(vals) THEN vals[i] ELSE None) \in Cells
    <3> SUFFICES ASSUME NEW i \in 1 .. n PROVE (IF i <= Len(vals) THEN vals[i] ELSE None) \in Cells
      OBVIOUS
    <3>1. i <= Len(vals) => i \in 1 .. Len(vals)
      BY <1>2
    <3> QED BY <1>2, <3>1 DEF Cells
  <2>2. cells \in [1 .. n -> Cells]
    BY <2>1
  <2>3. \A i \in 1 .. Len(vals) : i \in 1 .. n /\ i <= Len(vals)
    BY <1>2
  <2>4. \A i \in 1 .. Len(vals) : cells[i] = vals[i]
    BY <2>3
  <2> HIDE DEF cells
  <2> QED BY <2>2, <2>4
<1>4. h = [a \in (DOMAIN heap) \cup {Unused} |-> IF a # Unused THEN heap[a] ELSE cells]
  BY DEF Allocated
<1> HIDE DEF cells
<1>5. /\ DOMAIN h = (DOMAIN heap) \cup {Unused} /\ h[Unused] = cells
      /\ \A a \in DOMAIN heap : h[a] = heap[a]
  BY <1>1, <1>4
<1>6. new.array = Unused /\ new.off = 0 /\ new.len = Len(vals) /\ new \in Slices
  BY <1>1, <1>2 DEF Slice, Slices
<1> HIDE DEF h, new
<1>7. \A i \in 1 .. new.len : h[new.array][new.off + i] = vals[i]
  <2> SUFFICES ASSUME NEW i \in 1 .. new.len PROVE h[new.array][new.off + i] = vals[i]
    OBVIOUS
  <2>1. i \in 1 .. Len(vals) /\ 0 + i = i
    BY <1>2, <1>6
  <2> QED BY <1>3, <1>5, <1>6, <2>1
<1>8. Fits(h, new)
  <2>1. \A i \in 1 .. new.len : vals[i] \in Txs
    BY <1>2, <1>6
  <2>2. End(new) <= Len(h[new.array])
    BY <1>2, <1>3, <1>5, <1>6 DEF End
  <2> QED BY <1>3, <1>5, <1>6, <1>7, <2>1, <2>2 DEF Fits
<1>9. ReadIn(h, new) = vals
  BY <1>6, <1>7, <1>8, SameRead
<1>10. ASSUME NEW t, Fits(heap, t)
       PROVE  Fits(h, t) /\ ReadIn(h, t) = Read(t)
  <2>1. t.array \in DOMAIN h /\ h[t.array] = heap[t.array] /\ heap[t.array] \in Seq(Cells)
    BY <1>5, <1>10 DEF Fits
  <2> QED BY <1>10, <2>1, KeptRead DEF Read
<1> QED BY <1>8, <1>9, <1>10 DEF h, new

\* What append yields shows the old transactions and the new ones, and leaves alone
\* every slice that ends no later than the one appended to.
LEMMA AppendedIs ==
    ASSUME SliceInv, NEW s, Fits(heap, s), NEW vals \in Seq(Txs), NEW r \in Appended(s, vals)
    PROVE  /\ Fits(r[1], r[2]) /\ ReadIn(r[1], r[2]) = Read(s) \o vals
           /\ \A t : Fits(heap, t) /\ (t.array = s.array => End(t) <= End(s)) =>
                  Fits(r[1], t) /\ ReadIn(r[1], t) = Read(t)
           /\ \A t : Fits(heap, t) /\ Before(t, s) => Before(t, r[2])
<1> DEFINE needed == s.len + Len(vals)
<1>1. s.off \in Nat /\ s.len \in Nat /\ Len(vals) \in Nat /\ needed \in Nat /\ Capacity(s) \in Int
  BY DEF Fits, Slices, Capacity
<1>2. CASE needed <= Capacity(s)
  <2>1. r = <<Written(s.array, s.off + s.len, vals), Slice(s.array, s.off, needed)>>
    BY <1>2 DEF Appended
  <2>2. r[2].array = s.array /\ r[2].off = s.off
    BY <2>1 DEF Slice
  <2>3. \A t : Before(t, s) => Before(t, r[2])
    BY <2>2 DEF Before
  <2> QED BY <1>2, <2>1, <2>3, WrittenKeeps
<1>3. CASE ~(needed <= Capacity(s))
  <2> DEFINE q == Read(s) \o vals
  <2>1. r \in {<<Allocated(q, n), Slice(Unused, 0, needed)>> : n \in Grown(s, needed)}
    BY <1>3 DEF Appended
  <2> HIDE DEF q
  <2>2. PICK n \in Grown(s, needed) : r = <<Allocated(q, n), Slice(Unused, 0, needed)>>
    BY <2>1
  <2>3. n \in Nat /\ needed <= n
    <3> HIDE DEF needed
    <3> QED BY <1>1, RoundAssumption DEF Grown
  <2>4. q \in Seq(Txs) /\ Len(q) = needed
    <3>1. Read(s) \in Seq(Txs) /\ Len(Read(s)) = s.len
      BY ReadIs DEF Read
    <3>2. Read(s) \o vals \in Seq(Txs) /\ Len(Read(s) \o vals) = Len(Read(s)) + Len(vals)
      BY <3>1, ConcatProperties
    <3> QED BY <3>1, <3>2 DEF q
  <2> HIDE DEF needed
  <2>5. /\ Fits(r[1], r[2]) /\ ReadIn(r[1], r[2]) = q
        /\ \A t : Fits(heap, t) => Fits(r[1], t) /\ ReadIn(r[1], t) = Read(t)
    BY <2>2, <2>3, <2>4, AllocatedKeeps
  <2>6. r[2].array = Unused
    BY <2>2 DEF Slice
  <2>7. \A t : Fits(heap, t) => t.array # Unused
    BY UnusedIs DEF Fits
  <2>8. \A t : Fits(heap, t) => Before(t, r[2])
    <3>1. \A t : Fits(heap, t) => t.array # r[2].array
      BY <2>6, <2>7
    <3> QED BY <3>1, Zenon DEF Before
  <2> QED BY <2>5, <2>8 DEF q
<1> QED BY <1>2, <1>3

-----------------------------------------------------------------------------
(* The list of the outstanding batches. *)

\* Where an element stood before the one at k was removed.
Skip(j, k) == IF j < k THEN j ELSE j + 1

LEMMA RemoveAtIs ==
    ASSUME NEW S, NEW s \in Seq(S), NEW k \in DOMAIN s
    PROVE  /\ RemoveAt(s, k) \in Seq(S) /\ Len(RemoveAt(s, k)) = Len(s) - 1
           /\ DOMAIN RemoveAt(s, k) = 1 .. Len(s) - 1
           /\ \A j \in 1 .. Len(s) - 1 : /\ RemoveAt(s, k)[j] = s[Skip(j, k)]
                                         /\ Skip(j, k) \in DOMAIN s
<1> DEFINE n == Len(s)
           left == SubSeq(s, 1, k - 1)
           right == SubSeq(s, k + 1, n)
           q == left \o right
<1>1. n \in Nat /\ k \in 1 .. n /\ DOMAIN s = 1 .. n /\ \A i \in 1 .. n : s[i] \in S
  OBVIOUS
<1>2. RemoveAt(s, k) = q
  BY DEF RemoveAt
<1>3. left \in Seq(S) /\ Len(left) = k - 1 /\ \A i \in 1 .. k - 1 : left[i] = s[i]
  <2>1. \A i \in 1 .. k - 1 : s[i] \in S
    BY <1>1
  <2>2. /\ left \in Seq(S)
        /\ Len(left) = IF 1 <= k - 1 THEN k - 1 - 1 + 1 ELSE 0
        /\ \A i \in 1 .. k - 1 - 1 + 1 : left[i] = s[1 + i - 1]
    <3> HIDE DEF n
    <3> QED BY <1>1, <2>1, SubSeqProperties
  <2>3. \A i \in 1 .. k - 1 : i \in 1 .. k - 1 - 1 + 1 /\ 1 + i - 1 = i
    BY <1>1
  <2>4. (IF 1 <= k - 1 THEN k - 1 - 1 + 1 ELSE 0) = k - 1
    BY <1>1
  <2> HIDE DEF left
  <2> QED BY <2>2, <2>3, <2>4
<1>4. right \in Seq(S) /\ Len(right) = n - k /\ \A i \in 1 .. n - k : right[i] = s[k + i]
  <2>1. \A i \in k + 1 .. n : s[i] \in S
    BY <1>1
  <2>2. /\ right \in Seq(S)
        /\ Len(right) = IF k + 1 <= n THEN n - (k + 1) + 1 ELSE 0
        /\ \A i \in 1 .. n - (k + 1) + 1 : right[i] = s[k + 1 + i - 1]
    <3> HIDE DEF n
    <3> QED BY <1>1, <2>1, SubSeqProperties
  <2>3. \A i \in 1 .. n - k : i \in 1 .. n - (k + 1) + 1 /\ k + 1 + i - 1 = k + i
    BY <1>1
  <2>4. (IF k + 1 <= n THEN n - (k + 1) + 1 ELSE 0) = n - k
    BY <1>1
  <2> HIDE DEF right, n
  <2> QED BY <2>2, <2>3, <2>4
<1> HIDE DEF left, right
<1>5. /\ q \in Seq(S) /\ Len(q) = Len(left) + Len(right)
      /\ \A i \in 1 .. Len(left) + Len(right) :
            q[i] = IF i <= Len(left) THEN left[i] ELSE right[i - Len(left)]
  BY <1>3, <1>4, ConcatProperties
<1> HIDE DEF q, n
<1>6. Len(q) = n - 1 /\ DOMAIN q = 1 .. n - 1
  <2>1. Len(q) = n - 1
    BY <1>1, <1>3, <1>4, <1>5
  <2> QED BY <1>5, <2>1
<1>7. ASSUME NEW j \in 1 .. n - 1
      PROVE  q[j] = s[IF j < k THEN j ELSE j + 1] /\ (IF j < k THEN j ELSE j + 1) \in 1 .. n
  <2>1. j \in 1 .. Len(left) + Len(right)
    BY <1>1, <1>3, <1>4
  <2>2. CASE j < k
    <3>1. j \in 1 .. k - 1 /\ j <= Len(left) /\ j \in 1 .. n
      BY <1>1, <1>3, <2>2
    <3> QED BY <1>3, <1>5, <2>1, <2>2, <3>1
  <2>3. CASE ~(j < k)
    <3>1. /\ ~(j <= Len(left)) /\ j - Len(left) \in 1 .. n - k
          /\ k + (j - Len(left)) = j + 1 /\ j + 1 \in 1 .. n
      BY <1>1, <1>3, <2>3
    <3> QED BY <1>4, <1>5, <2>1, <2>3, <3>1
  <2> QED BY <2>2, <2>3
<1> QED BY <1>1, <1>2, <1>5, <1>6, <1>7 DEF n, Skip

LEMMA RemoveAtEqual ==
    ASSUME NEW S, NEW s \in Seq(S), NEW k \in DOMAIN s, NEW g, g = [j \in DOMAIN g |-> g[j]],
           DOMAIN g = 1 .. Len(s) - 1,
           \A j \in 1 .. Len(s) - 1 : g[j] = s[Skip(j, k)]
    PROVE  g = RemoveAt(s, k)
<1> PICK r : r = RemoveAt(s, k)
  OBVIOUS
<1>1. /\ r \in Seq(S) /\ DOMAIN r = 1 .. Len(s) - 1
      /\ \A j \in 1 .. Len(s) - 1 : r[j] = s[Skip(j, k)]
  BY RemoveAtIs
<1>2. r = [j \in DOMAIN r |-> r[j]]
  BY <1>1
<1> QED BY <1>1, <1>2

-----------------------------------------------------------------------------
(* What the loop of TransferTxs selects. *)

\* The equation of the recursive function in Selected.
SelectedDef(list, S, m, g) ==
    g = [n \in 0 .. m |->
            IF n = 0 THEN << >>
            ELSE IF list[n] \in S THEN Append(g[n - 1], list[n])
            ELSE g[n - 1]]

LEMMA SelectedExists ==
    ASSUME NEW list, NEW S
    PROVE  \A m \in Nat : \E g : SelectedDef(list, S, m, g)
<1> DEFINE C == {m \in Nat : \E g : SelectedDef(list, S, m, g)}
<1>1. 0 \in C
  <2>1. SelectedDef(list, S, 0, [n \in 0 .. 0 |-> << >>])
    BY DEF SelectedDef
  <2> QED BY <2>1
<1>2. ASSUME NEW m \in Nat, m \in C PROVE m + 1 \in C
  <2>1. PICK g : SelectedDef(list, S, m, g)
    BY <1>2
  <2>2. \A n \in 0 .. m :
            g[n] = IF n = 0 THEN << >>
                   ELSE IF list[n] \in S THEN Append(g[n - 1], list[n])
                   ELSE g[n - 1]
    BY <2>1 DEF SelectedDef
  <2> DEFINE last == IF list[m + 1] \in S THEN Append(g[m], list[m + 1]) ELSE g[m]
             h == [n \in 0 .. (m + 1) |-> IF n = m + 1 THEN last ELSE g[n]]
  <2>3. ASSUME NEW n \in 0 .. (m + 1)
        PROVE  h[n] = IF n = 0 THEN << >>
                      ELSE IF list[n] \in S THEN Append(h[n - 1], list[n])
                      ELSE h[n - 1]
    <3>1. CASE n = m + 1
      <4>1. h[n - 1] = g[m] /\ n - 1 = m /\ n # 0 /\ h[n] = last
        BY <3>1
      <4> QED BY <3>1, <4>1
    <3>2. CASE n # m + 1
      <4>1. n \in 0 .. m /\ (n # 0 => n - 1 \in 0 .. (m + 1) /\ n - 1 # m + 1)
        BY <3>2
      <4>2. h[n] = g[n] /\ (n # 0 => h[n - 1] = g[n - 1])
        BY <3>2, <4>1
      <4> QED BY <2>2, <4>1, <4>2
    <3> QED BY <3>1, <3>2
  <2>4. h = [n \in 0 .. (m + 1) |-> h[n]]
    OBVIOUS
  <2> HIDE DEF h
  <2>5. SelectedDef(list, S, m + 1, h)
    BY <2>3, <2>4 DEF SelectedDef
  <2> QED BY <2>5
<1> HIDE DEF C
<1>3. \A m \in Nat : m \in C
  BY <1>1, <1>2, NatSetInduction
<1> QED BY <1>3 DEF C

\* q has the members of S among the first n of a list, p their positions.
Selects(q, list, S, n, p) ==
    /\ q \in Seq(Txs) /\ p \in [1 .. Len(q) -> 1 .. n]
    /\ \A j \in 1 .. Len(q) : q[j] = list[p[j]] /\ q[j] \in S
    /\ \A j, k \in 1 .. Len(q) : j < k => p[j] < p[k]
    /\ \A i \in 1 .. n : list[i] \in S => \E j \in 1 .. Len(q) : p[j] = i

LEMMA SelectsNone ==
    ASSUME NEW list, NEW S
    PROVE  Selects(<< >>, list, S, 0, [j \in 1 .. 0 |-> j])
<1>1. << >> \in Seq(Txs) /\ Len(<< >>) = 0
  OBVIOUS
<1> QED BY <1>1 DEF Selects

LEMMA SelectsSame ==
    ASSUME NEW list, NEW S, NEW n \in Nat, list[n + 1] \notin S,
           NEW q, NEW p, Selects(q, list, S, n, p)
    PROVE  Selects(q, list, S, n + 1, p)
<1>1. /\ q \in Seq(Txs) /\ p \in [1 .. Len(q) -> 1 .. n]
      /\ \A j \in 1 .. Len(q) : q[j] = list[p[j]] /\ q[j] \in S
      /\ \A j, k \in 1 .. Len(q) : j < k => p[j] < p[k]
      /\ \A i \in 1 .. n : list[i] \in S => \E j \in 1 .. Len(q) : p[j] = i
  BY DEF Selects
<1>2. 1 .. n \subseteq 1 .. (n + 1) /\ \A i \in 1 .. (n + 1) : i \in 1 .. n \/ i = n + 1
  OBVIOUS
<1>3. p \in [1 .. Len(q) -> 1 .. (n + 1)]
  BY <1>1, <1>2
<1> QED BY <1>1, <1>2, <1>3 DEF Selects

LEMMA SelectsMore ==
    ASSUME NEW list, NEW S, NEW n \in Nat, list[n + 1] \in S, list[n + 1] \in Txs,
           NEW q, NEW p, Selects(q, list, S, n, p)
    PROVE  Selects(Append(q, list[n + 1]), list, S, n + 1,
                   [j \in 1 .. (Len(q) + 1) |-> IF j = Len(q) + 1 THEN n + 1 ELSE p[j]])
<1> DEFINE m == Len(q)
           r == Append(q, list[n + 1])
           o == [j \in 1 .. (m + 1) |-> IF j = m + 1 THEN n + 1 ELSE p[j]]
<1>1. /\ q \in Seq(Txs) /\ p \in [1 .. m -> 1 .. n] /\ m \in Nat
      /\ \A j \in 1 .. m : q[j] = list[p[j]] /\ q[j] \in S
      /\ \A j, k \in 1 .. m : j < k => p[j] < p[k]
      /\ \A i \in 1 .. n : list[i] \in S => \E j \in 1 .. m : p[j] = i
  BY DEF Selects
<1>2. /\ r \in Seq(Txs) /\ Len(r) = m + 1 /\ r[m + 1] = list[n + 1]
      /\ \A j \in 1 .. m : r[j] = q[j]
  BY <1>1, AppendProperties
<1>3. /\ m + 1 \in 1 .. (m + 1) /\ n + 1 \in 1 .. (n + 1)
      /\ \A j \in 1 .. m : j # m + 1 /\ j \in 1 .. (m + 1) /\ j < m + 1
      /\ \A j \in 1 .. (m + 1) : j \in 1 .. m \/ j = m + 1
      /\ \A i \in 1 .. n : i \in 1 .. (n + 1) /\ i < n + 1
      /\ \A i \in 1 .. (n + 1) : i \in 1 .. n \/ i = n + 1
      /\ \A j \in 1 .. m : ~(m + 1 < j)
      /\ ~(m + 1 < m + 1)
  BY <1>1
<1>4. o[m + 1] = n + 1 /\ \A j \in 1 .. m : o[j] = p[j]
  BY <1>3
<1>5. o \in [1 .. (m + 1) -> 1 .. (n + 1)]
  BY <1>1, <1>3
<1> HIDE DEF m, r, o
<1>6. \A j \in 1 .. (m + 1) : r[j] = list[o[j]] /\ r[j] \in S
  BY <1>1, <1>2, <1>3, <1>4
<1>7. \A j, k \in 1 .. (m + 1) : j < k => o[j] < o[k]
  <2> SUFFICES ASSUME NEW j \in 1 .. (m + 1), NEW k \in 1 .. (m + 1), j < k
               PROVE  o[j] < o[k]
    OBVIOUS
  <2>1. j \in 1 .. m
    BY <1>1, <1>3
  <2>2. CASE k = m + 1
    <3>1. p[j] \in 1 .. n
      BY <1>1, <2>1
    <3> QED BY <1>3, <1>4, <2>1, <2>2, <3>1
  <2>3. CASE k \in 1 .. m
    BY <1>1, <1>4, <2>1, <2>3
  <2> QED BY <1>3, <2>2, <2>3
<1>8. \A i \in 1 .. (n + 1) : list[i] \in S => \E j \in 1 .. (m + 1) : o[j] = i
  <2> SUFFICES ASSUME NEW i \in 1 .. (n + 1), list[i] \in S
               PROVE  \E j \in 1 .. (m + 1) : o[j] = i
    OBVIOUS
  <2>1. CASE i = n + 1
    BY <1>3, <1>4, <2>1
  <2>2. CASE i \in 1 .. n
    <3>1. PICK j \in 1 .. m : p[j] = i
      BY <1>1, <2>2
    <3> QED BY <1>3, <1>4, <3>1
  <2> QED BY <1>3, <2>1, <2>2
<1>9. Selects(r, list, S, n + 1, o)
  BY <1>2, <1>5, <1>6, <1>7, <1>8 DEF Selects
<1> QED BY <1>9 DEF m, r, o

\* Selected yields the members of S, in their order.
LEMMA SelectedIs ==
    ASSUME NEW list \in Seq(Txs), NEW S
    PROVE  \E p : Selects(Selected(list, S), list, S, Len(list), p)
<1>1. Len(list) \in Nat /\ \A i \in 1 .. Len(list) : list[i] \in Txs
  OBVIOUS
<1> DEFINE kept == CHOOSE g : SelectedDef(list, S, Len(list), g)
<1>2. Selected(list, S) = kept[Len(list)]
  BY DEF Selected, SelectedDef
<1>3. SelectedDef(list, S, Len(list), kept)
  BY <1>1, SelectedExists
<1> HIDE DEF kept
<1>4. \A n \in 0 .. Len(list) :
          kept[n] = IF n = 0 THEN << >>
                    ELSE IF list[n] \in S THEN Append(kept[n - 1], list[n])
                    ELSE kept[n - 1]
  BY <1>3 DEF SelectedDef
<1> DEFINE C == {n \in Nat : n <= Len(list) => \E p : Selects(kept[n], list, S, n, p)}
<1>5. 0 \in C
  <2>1. kept[0] = << >>
    BY <1>1, <1>4
  <2> QED BY <2>1, SelectsNone
<1>6. ASSUME NEW n \in Nat, n \in C PROVE n + 1 \in C
  <2> SUFFICES ASSUME n + 1 <= Len(list)
               PROVE  \E p : Selects(kept[n + 1], list, S, n + 1, p)
    OBVIOUS
  <2>1. PICK p : Selects(kept[n], list, S, n, p)
    BY <1>1, <1>6
  <2>2. /\ n + 1 \in 0 .. Len(list) /\ n + 1 \in 1 .. Len(list) /\ n + 1 # 0
        /\ (n + 1) - 1 = n
    BY <1>1
  <2>3. kept[n + 1] = IF list[n + 1] \in S THEN Append(kept[n], list[n + 1]) ELSE kept[n]
    BY <1>4, <2>2
  <2>4. CASE list[n + 1] \in S
    BY <1>1, <2>1, <2>2, <2>3, <2>4, SelectsMore
  <2>5. CASE list[n + 1] \notin S
    BY <2>1, <2>3, <2>5, SelectsSame
  <2> QED BY <2>4, <2>5
<1> HIDE DEF C
<1>7. \A n \in Nat : n \in C
  BY <1>5, <1>6, NatSetInduction
<1> QED BY <1>1, <1>2, <1>7 DEF C

LEMMA SelectedType ==
    ASSUME NEW list \in Seq(Txs), NEW S
    PROVE  /\ Selected(list, S) \in Seq(Txs) /\ Len(Selected(list, S)) \in Nat
<1>1. PICK p : Selects(Selected(list, S), list, S, Len(list), p)
  BY SelectedIs
<1>2. Selected(list, S) \in Seq(Txs)
  BY <1>1 DEF Selects
<1> PICK q : q = Selected(list, S)
  OBVIOUS
<1> QED BY <1>2

-----------------------------------------------------------------------------
(* The steps on slices are steps on values. *)

\* What LiveKeeps says, of a heap that is one.
KeptIn(g, h, slices) ==
    /\ g = [a \in DOMAIN g |-> g[a]] /\ DOMAIN g = {s.array : s \in slices}
    /\ \A s \in slices : Fits(g, s) /\ ReadIn(g, s) = ReadIn(h, s)

LEMMA LiveHeap ==
    ASSUME NEW h, NEW slices, NEW g, g = Live(h, slices), \A s \in slices : Fits(h, s)
    PROVE  KeptIn(g, h, slices)
BY LiveKeeps DEF KeptIn

\* Slices that are shown and in their order, after what they do not show is
\* forgotten.
LEMMA NewSlices ==
    ASSUME NEW h, batches' \in Seq(Slices), Len(batches') <= MaxOut,
           \A t \in ToSet(batches') \cup {queue'} : Fits(h, t),
           \A i, k \in DOMAIN batches' : i < k => Before(batches'[i], batches'[k]),
           \A i \in DOMAIN batches' : Before(batches'[i], queue'),
           heap' = Live(h, ToSet(batches') \cup {queue'})
    PROVE  /\ SliceInv' /\ ReadIn(heap', queue') = ReadIn(h, queue')
           /\ \A k \in DOMAIN batches' : ReadIn(heap', batches'[k]) = ReadIn(h, batches'[k])
<1> PICK slices : slices = ToSet(batches') \cup {queue'}
  OBVIOUS
<1>1. /\ heap' = [a \in DOMAIN heap' |-> heap'[a]]
      /\ DOMAIN heap' = {s.array : s \in slices}
      /\ \A s \in slices : Fits(heap', s) /\ ReadIn(heap', s) = ReadIn(h, s)
  <2>1. heap' = Live(h, slices) /\ \A s \in slices : Fits(h, s)
    OBVIOUS
  <2>2. KeptIn(heap', h, slices)
    BY <2>1, LiveHeap
  <2> QED BY <2>2 DEF KeptIn
<1>2. queue' \in slices /\ \A k \in DOMAIN batches' : batches'[k] \in slices
  BY DEF ToSet
<1>3. SliceInv'
  BY <1>1 DEF SliceInv
<1> QED BY <1>1, <1>2, <1>3

\* The outstanding slices are shown, a batch that is older ends no later than one
\* that is newer or the queue.
LEMMA Outstanding ==
    ASSUME SliceInv
    PROVE  /\ Fits(heap, queue) /\ Len(batches) \in Nat /\ DOMAIN batches = 1 .. Len(batches)
           /\ \A i \in DOMAIN batches :
                 /\ Fits(heap, batches[i]) /\ batches[i] \in Slices /\ Before(batches[i], queue)
                 /\ batches[i].array = queue.array => End(batches[i]) <= End(queue)
           /\ \A i, k \in DOMAIN batches : i < k =>
                 (batches[i].array = batches[k].array => End(batches[i]) <= End(batches[k]))
<1>1. /\ Fits(heap, queue) /\ Len(batches) \in Nat /\ DOMAIN batches = 1 .. Len(batches)
      /\ \A i \in DOMAIN batches : Fits(heap, batches[i]) /\ Before(batches[i], queue)
  BY DEF SliceInv, ToSet
<1>2. /\ queue.off \in Nat /\ queue.len \in Nat
      /\ \A i \in DOMAIN batches : /\ batches[i] \in Slices
                                   /\ batches[i].off \in Nat /\ batches[i].len \in Nat
  BY <1>1 DEF Fits, Slices
<1>3. ASSUME NEW i \in DOMAIN batches, batches[i].array = queue.array
      PROVE  End(batches[i]) <= End(queue)
  <2>1. batches[i].off + batches[i].len <= queue.off
    BY <1>1, <1>3 DEF Before, End
  <2>2. queue.off <= queue.off + queue.len
    BY <1>2
  <2> QED BY <1>2, <2>1, <2>2 DEF End
<1>4. ASSUME NEW i \in DOMAIN batches, NEW k \in DOMAIN batches, i < k,
             batches[i].array = batches[k].array
      PROVE  End(batches[i]) <= End(batches[k])
  <2>1. batches[i].off + batches[i].len <= batches[k].off
    BY <1>4 DEF Before, End, SliceInv
  <2>2. batches[k].off <= batches[k].off + batches[k].len
    BY <1>2
  <2> QED BY <1>2, <2>1, <2>2 DEF End
<1> QED BY <1>1, <1>2, <1>3, <1>4

\* The outstanding batches, read.
Shown == [k \in DOMAIN batches |-> Read(batches[k])]

LEMMA ShownType ==
    ASSUME SliceInv
    PROVE  /\ Shown \in Seq(Seq(Txs)) /\ Len(Shown) = Len(batches)
           /\ DOMAIN Shown = DOMAIN batches
           /\ \A k \in DOMAIN batches : Shown[k] = Read(batches[k])
<1>1. \A k \in DOMAIN batches : Read(batches[k]) \in Seq(Txs)
  BY Outstanding, ReadIs DEF Read
<1> DEFINE n == Len(batches)
<1>2. n \in Nat /\ DOMAIN batches = 1 .. n
  BY Outstanding
<1>3. Shown \in [1 .. n -> Seq(Txs)] /\ \A k \in DOMAIN batches : Shown[k] = Read(batches[k])
  BY <1>1, <1>2 DEF Shown
<1> HIDE DEF n
<1>4. Shown \in Seq(Seq(Txs)) /\ Len(Shown) = n /\ DOMAIN Shown = 1 .. n
  BY <1>2, <1>3
<1> QED BY <1>2, <1>3, <1>4 DEF n

LEMMA AddIsAdd ==
    ASSUME SliceInv, NEW tx \in Txs, AddTx2Pool(tx)
    PROVE  SliceInv' /\ P!AddTx2Pool(tx)
<1>1. PICK r \in Appended(queue, <<tx>>) :
          queue' = r[2] /\ heap' = Live(r[1], ToSet(batches) \cup {r[2]})
  BY DEF AddTx2Pool
<1>2. batches' = batches
  BY DEF AddTx2Pool
<1>3. <<tx>> \in Seq(Txs)
  OBVIOUS
<1>4. Fits(heap, queue)
  BY Outstanding
<1>5. /\ Fits(r[1], r[2]) /\ ReadIn(r[1], r[2]) = Read(queue) \o <<tx>>
      /\ \A t : Fits(heap, t) /\ (t.array = queue.array => End(t) <= End(queue)) =>
             Fits(r[1], t) /\ ReadIn(r[1], t) = Read(t)
      /\ \A t : Fits(heap, t) /\ Before(t, queue) => Before(t, r[2])
  BY <1>3, <1>4, AppendedIs
<1> PICK h : h = r[1]
  OBVIOUS
<1>6. \A k \in DOMAIN batches :
          Fits(h, batches[k]) /\ ReadIn(h, batches[k]) = Read(batches[k])
  BY <1>5, Outstanding
<1>7. \A i \in DOMAIN batches : Before(batches[i], queue')
  BY <1>1, <1>5, Outstanding
<1>8. /\ batches \in Seq(Slices) /\ Len(batches) <= MaxOut
      /\ \A i, k \in DOMAIN batches : i < k => Before(batches[i], batches[k])
  BY DEF SliceInv
<1>9. \A t \in ToSet(batches) \cup {queue'} : Fits(h, t)
  BY <1>1, <1>5, <1>6 DEF ToSet
<1>10. /\ SliceInv' /\ ReadIn(heap', queue') = ReadIn(h, queue')
       /\ \A k \in DOMAIN batches : ReadIn(heap', batches[k]) = ReadIn(h, batches[k])
  <2>1. heap' = Live(h, ToSet(batches') \cup {queue'})
    BY <1>1, <1>2
  <2> QED BY <1>2, <1>7, <1>8, <1>9, <2>1, NewSlices
<1>11. ReadIn(heap', queue') = Append(Read(queue), tx)
  <2>1. Read(queue) \in Seq(Txs)
    BY Outstanding, ReadIs DEF Read
  <2> PICK old : old = Read(queue)
    OBVIOUS
  <2>2. old \o <<tx>> = Append(old, tx)
    BY <2>1, AppendIsConcat
  <2> QED BY <1>1, <1>5, <1>10, <2>2
<1>12. Shown' = Shown
  BY <1>2, <1>6, <1>10 DEF Shown, Read
<1> QED BY <1>10, <1>11, <1>12 DEF AddTx2Pool, P!AddTx2Pool, Free, P!Free, Shown, Read

\* The outstanding batches without one of them.
LEMMA Removed ==
    ASSUME SliceInv, NEW k \in DOMAIN batches, NEW bs, bs = RemoveAt(batches, k)
    PROVE  /\ bs \in Seq(Slices) /\ Len(bs) <= MaxOut
           /\ \A j \in DOMAIN bs : \E i \in DOMAIN batches :
                 bs[j] = batches[i] /\ (k = Len(batches) => i < k)
           /\ \A i, j \in DOMAIN bs : i < j => Before(bs[i], bs[j])
           /\ \A g : /\ g = [j \in DOMAIN g |-> g[j]] /\ DOMAIN g = DOMAIN bs
                     /\ \A j \in DOMAIN bs : g[j] = Read(bs[j])
                     => g = RemoveAt(Shown, k)
<1> DEFINE n == Len(batches)
<1>1. batches \in Seq(Slices) /\ n \in Nat /\ n <= MaxOut /\ DOMAIN batches = 1 .. n
      /\ MaxOut \in Nat /\ k \in 1 .. n
  <2>1. batches \in Seq(Slices) /\ n <= MaxOut
    BY DEF SliceInv
  <2>2. n \in Nat /\ DOMAIN batches = 1 .. n
    BY <2>1
  <2> QED BY <2>1, <2>2, PoolBoundAssumption
<1>2. /\ bs \in Seq(Slices) /\ Len(bs) = n - 1 /\ DOMAIN bs = 1 .. n - 1
      /\ \A j \in 1 .. n - 1 : bs[j] = batches[Skip(j, k)] /\ Skip(j, k) \in 1 .. n
  BY <1>1, RemoveAtIs
<1>3. \A j \in 1 .. n - 1 : k = n => Skip(j, k) < k
  BY <1>1 DEF Skip
<1>4. \A i, j \in 1 .. n - 1 : i < j => Skip(i, k) < Skip(j, k)
  BY <1>1 DEF Skip
<1> HIDE DEF n
<1>5. \A i, j \in DOMAIN batches : i < j => Before(batches[i], batches[j])
  BY DEF SliceInv
<1>6. Len(bs) <= MaxOut
  BY <1>1, <1>2
<1>7. ASSUME NEW g, g = [j \in DOMAIN g |-> g[j]], DOMAIN g = DOMAIN bs,
             \A j \in DOMAIN bs : g[j] = Read(bs[j])
      PROVE  g = RemoveAt(Shown, k)
  <2> PICK s : s = Shown
    OBVIOUS
  <2>1. /\ s \in Seq(Seq(Txs)) /\ Len(s) = n /\ DOMAIN s = 1 .. n
        /\ \A i \in 1 .. n : s[i] = Read(batches[i])
    BY <1>1, ShownType
  <2>2. \A j \in 1 .. Len(s) - 1 : g[j] = s[Skip(j, k)]
    BY <1>1, <1>2, <1>7, <2>1
  <2>3. k \in DOMAIN s /\ DOMAIN g = 1 .. Len(s) - 1
    BY <1>1, <1>2, <1>7, <2>1
  <2>4. g = RemoveAt(s, k)
    <3>1. s \in Seq(Seq(Txs)) /\ g = [j \in DOMAIN g |-> g[j]]
      BY <1>7, <2>1
    <3> QED BY <2>2, <2>3, <3>1, RemoveAtEqual
  <2> QED BY <2>4
<1>8. \A i, j \in DOMAIN bs : i < j => Before(bs[i], bs[j])
  BY <1>1, <1>2, <1>4, <1>5
<1>9. \A j \in DOMAIN bs : \E i \in DOMAIN batches :
         bs[j] = batches[i] /\ (k = Len(batches) => i < k)
  <2> SUFFICES ASSUME NEW j \in DOMAIN bs
               PROVE  \E i \in DOMAIN batches :
                          bs[j] = batches[i] /\ (k = Len(batches) => i < k)
    OBVIOUS
  <2> QED BY <1>1, <1>2, <1>3
<1> QED BY <1>2, <1>6, <1>7, <1>8, <1>9

LEMMA HeadIsHead ==
    ASSUME SliceInv, NewestOnly, NEW k \in P!Returnable, AddTxs2Pool_Head(k)
    PROVE  SliceInv' /\ P!AddTxs2Pool_Head(k)
<1>1. k \in DOMAIN batches /\ k = Len(batches)
  BY ShownType DEF P!Returnable, Shown
<1>2. batches' = RemoveAt(batches, k)
  BY DEF AddTxs2Pool_Head
<1>3. PICK r \in Appended(batches[k], Read(queue)) :
          queue' = r[2] /\ heap' = Live(r[1], ToSet(batches') \cup {r[2]})
  BY DEF AddTxs2Pool_Head
<1>4. Read(queue) \in Seq(Txs) /\ Fits(heap, batches[k])
  BY <1>1, Outstanding, ReadIs DEF Read
<1>5. /\ Fits(r[1], r[2]) /\ ReadIn(r[1], r[2]) = Read(batches[k]) \o Read(queue)
      /\ \A t : Fits(heap, t) /\ (t.array = batches[k].array => End(t) <= End(batches[k])) =>
             Fits(r[1], t) /\ ReadIn(r[1], t) = Read(t)
      /\ \A t : Fits(heap, t) /\ Before(t, batches[k]) => Before(t, r[2])
  BY <1>4, AppendedIs
<1> PICK h : h = r[1]
  OBVIOUS
<1>6. /\ batches' \in Seq(Slices) /\ Len(batches') <= MaxOut
      /\ \A j \in DOMAIN batches' : \E i \in DOMAIN batches : batches'[j] = batches[i] /\ i < k
      /\ \A i, j \in DOMAIN batches' : i < j => Before(batches'[i], batches'[j])
      /\ \A g : /\ g = [j \in DOMAIN g |-> g[j]] /\ DOMAIN g = DOMAIN batches'
                /\ \A j \in DOMAIN batches' : g[j] = Read(batches'[j])
                => g = RemoveAt(Shown, k)
  BY <1>1, <1>2, Removed
<1>7. ASSUME NEW j \in DOMAIN batches'
      PROVE  /\ Fits(h, batches'[j]) /\ ReadIn(h, batches'[j]) = Read(batches'[j])
             /\ Before(batches'[j], queue')
  <2>1. PICK i \in DOMAIN batches : batches'[j] = batches[i] /\ i < k
    BY <1>6
  <2>2. /\ Fits(heap, batches[i]) /\ Before(batches[i], batches[k])
        /\ batches[i].array = batches[k].array => End(batches[i]) <= End(batches[k])
    BY <1>1, <2>1, Outstanding DEF SliceInv
  <2> QED BY <1>3, <1>5, <2>1, <2>2
<1>8. \A t \in ToSet(batches') \cup {queue'} : Fits(h, t)
  BY <1>3, <1>5, <1>7 DEF ToSet
<1>9. /\ SliceInv' /\ ReadIn(heap', queue') = ReadIn(h, queue')
      /\ \A j \in DOMAIN batches' : ReadIn(heap', batches'[j]) = ReadIn(h, batches'[j])
  <2>1. heap' = Live(h, ToSet(batches') \cup {queue'})
    BY <1>3
  <2> QED BY <1>6, <1>7, <1>8, <2>1, NewSlices
<1>10. ReadIn(heap', queue') = Shown[k] \o Read(queue)
  BY <1>1, <1>3, <1>5, <1>9, ShownType
<1>11. Shown' = RemoveAt(Shown, k)
  <2> DEFINE g == [j \in DOMAIN batches' |-> ReadIn(heap', batches'[j])]
  <2>1. \A j \in DOMAIN batches' : g[j] = Read(batches'[j])
    BY <1>7, <1>9
  <2>2. Shown' = g /\ g = [j \in DOMAIN g |-> g[j]] /\ DOMAIN g = DOMAIN batches'
    BY DEF Shown, Read
  <2> HIDE DEF g
  <2>3. \A f : /\ f = [j \in DOMAIN f |-> f[j]] /\ DOMAIN f = DOMAIN batches'
               /\ \A j \in DOMAIN batches' : f[j] = Read(batches'[j])
               => f = RemoveAt(Shown, k)
    BY <1>6
  <2>4. g = RemoveAt(Shown, k)
    BY <2>1, <2>2, <2>3
  <2> QED BY <2>2, <2>4
<1> QED BY <1>9, <1>10, <1>11 
       DEF AddTxs2Pool_Head, P!AddTxs2Pool_Head, Free, P!Free, Shown, Read, RemoveAt, P!RemoveAt

LEMMA DoneIsDone ==
    ASSUME SliceInv, NEW k \in DOMAIN batches, Done(k)
    PROVE  SliceInv' /\ P!Done(k)
<1>1. /\ batches' = RemoveAt(batches, k) /\ queue' = queue
      /\ heap' = Live(heap, ToSet(batches') \cup {queue})
  BY DEF Done
<1>2. /\ batches' \in Seq(Slices) /\ Len(batches') <= MaxOut
      /\ \A j \in DOMAIN batches' : \E i \in DOMAIN batches : batches'[j] = batches[i]
      /\ \A i, j \in DOMAIN batches' : i < j => Before(batches'[i], batches'[j])
      /\ \A g : /\ g = [j \in DOMAIN g |-> g[j]] /\ DOMAIN g = DOMAIN batches'
                /\ \A j \in DOMAIN batches' : g[j] = Read(batches'[j])
                => g = RemoveAt(Shown, k)
  BY <1>1, Removed
<1>3. \A j \in DOMAIN batches' : Fits(heap, batches'[j]) /\ Before(batches'[j], queue')
  BY <1>1, <1>2, Outstanding
<1>4. \A t \in ToSet(batches') \cup {queue'} : Fits(heap, t)
  BY <1>1, <1>3, Outstanding DEF ToSet
<1> PICK h : h = heap
  OBVIOUS
<1>5. /\ SliceInv' /\ ReadIn(heap', queue') = ReadIn(h, queue')
      /\ \A j \in DOMAIN batches' : ReadIn(heap', batches'[j]) = ReadIn(h, batches'[j])
  <2>1. heap' = Live(h, ToSet(batches') \cup {queue'})
    BY <1>1
  <2> QED BY <1>2, <1>3, <1>4, <2>1, NewSlices
<1>6. ReadIn(heap', queue') = Read(queue)
  BY <1>1, <1>5 DEF Read
<1>7. Shown' = RemoveAt(Shown, k)
  <2> DEFINE g == [j \in DOMAIN batches' |-> ReadIn(heap', batches'[j])]
  <2>1. \A j \in DOMAIN batches' : g[j] = Read(batches'[j])
    BY <1>5 DEF Read
  <2>2. Shown' = g /\ g = [j \in DOMAIN g |-> g[j]] /\ DOMAIN g = DOMAIN batches'
    BY DEF Shown, Read
  <2> HIDE DEF g
  <2>3. g = RemoveAt(Shown, k)
    BY <1>2, <2>1, <2>2
  <2> QED BY <2>2, <2>3
<1>8. Shown[k] = Read(batches[k])
  BY ShownType
<1> QED BY <1>5, <1>6, <1>7, <1>8 
       DEF Done, P!Done, Shown, Read, RemoveAt, P!RemoveAt, ToSet, P!ToSet

\* The cut in a list.
LEMMA SuffixIs ==
    ASSUME NEW q \in Seq(Txs), NEW m \in 0 .. Len(q)
    PROVE  /\ SubSeq(q, m + 1, Len(q)) \in Seq(Txs)
           /\ Len(SubSeq(q, m + 1, Len(q))) = Len(q) - m
           /\ \A i \in 1 .. Len(q) - m : SubSeq(q, m + 1, Len(q))[i] = q[m + i]
<1> PICK l, first : l = Len(q) /\ first = m + 1
  OBVIOUS
<1>1. l \in Nat /\ m \in Nat /\ m <= l /\ first = m + 1 /\ first \in Int /\ l \in Int
  OBVIOUS
<1>2. \A i \in first .. l : q[i] \in Txs
  OBVIOUS
<1>3. /\ SubSeq(q, first, l) \in Seq(Txs)
      /\ Len(SubSeq(q, first, l)) = IF first <= l THEN l - first + 1 ELSE 0
      /\ \A i \in 1 .. l - first + 1 : SubSeq(q, first, l)[i] = q[first + i - 1]
  BY <1>1, <1>2, SubSeqProperties
<1>4. (IF first <= l THEN l - first + 1 ELSE 0) = l - m
  BY <1>1
<1>5. \A i \in 1 .. l - m : i \in 1 .. l - first + 1 /\ first + i - 1 = m + i
  <2> SUFFICES ASSUME NEW i \in 1 .. l - m
               PROVE  i \in 1 .. l - first + 1 /\ first + i - 1 = m + i
    OBVIOUS
  <2>1. l - first + 1 = l - m
    BY <1>1
  <2> QED BY <1>1, <2>1
<1> QED BY <1>3, <1>4, <1>5

LEMMA CutIs ==
    ASSUME NEW q \in Seq(Txs), NEW n \in Nat
    PROVE  /\ Packed(q, n) \in Seq(Txs) /\ Len(Packed(q, n)) \in 0 .. Len(q)
           /\ Len(q) \in Nat /\ Len(Packed(q, n)) = IF Len(q) < n THEN Len(q) ELSE n
           /\ \A i \in 1 .. Len(Packed(q, n)) : Packed(q, n)[i] = q[i]
           /\ Rest(q, n) \in Seq(Txs) /\ Len(Rest(q, n)) = Len(q) - Len(Packed(q, n))
           /\ \A i \in 1 .. Len(Rest(q, n)) : Rest(q, n)[i] = q[Len(Packed(q, n)) + i]
<1> PICK m : m = IF Len(q) < n THEN Len(q) ELSE n
  OBVIOUS
<1>1. Len(q) \in Nat /\ m \in 0 .. Len(q) /\ \A i \in 1 .. Len(q) : q[i] \in Txs
  OBVIOUS
<1>2. Packed(q, n) = SubSeq(q, 1, m)
  BY DEF Packed
<1>3. /\ SubSeq(q, 1, m) \in Seq(Txs) /\ Len(SubSeq(q, 1, m)) = m
      /\ \A i \in 1 .. m : SubSeq(q, 1, m)[i] = q[i]
  <2>1. \A i \in 1 .. m : q[i] \in Txs
    BY <1>1
  <2>2. /\ SubSeq(q, 1, m) \in Seq(Txs)
        /\ Len(SubSeq(q, 1, m)) = IF 1 <= m THEN m - 1 + 1 ELSE 0
        /\ \A i \in 1 .. m - 1 + 1 : SubSeq(q, 1, m)[i] = q[1 + i - 1]
    BY <1>1, <2>1, SubSeqProperties
  <2>3. /\ (IF 1 <= m THEN m - 1 + 1 ELSE 0) = m
        /\ \A i \in 1 .. m : i \in 1 .. m - 1 + 1 /\ 1 + i - 1 = i
    BY <1>1
  <2> QED BY <2>2, <2>3
<1>4. Rest(q, n) = SubSeq(q, m + 1, Len(q))
  BY <1>2, <1>3 DEF Rest
<1>5. /\ SubSeq(q, m + 1, Len(q)) \in Seq(Txs) /\ Len(SubSeq(q, m + 1, Len(q))) = Len(q) - m
      /\ \A i \in 1 .. Len(q) - m : SubSeq(q, m + 1, Len(q))[i] = q[m + i]
  BY <1>1, SuffixIs
<1>6. Len(Packed(q, n)) = m
  BY <1>2, <1>3
<1>7. /\ Packed(q, n) \in Seq(Txs) /\ \A i \in 1 .. m : Packed(q, n)[i] = q[i]
  BY <1>2, <1>3
<1>8. /\ Rest(q, n) \in Seq(Txs) /\ Len(Rest(q, n)) = Len(q) - m
      /\ \A i \in 1 .. Len(q) - m : Rest(q, n)[i] = q[m + i]
  BY <1>4, <1>5
<1> QED BY <1>1, <1>6, <1>7, <1>8

LEMMA PackIsPack ==
    ASSUME SliceInv, PackTxs
    PROVE  SliceInv' /\ P!PackTxs
<1> PICK q, m, n : q = Read(queue) /\ m = Len(Packed(q, BlockSize)) /\ n = Len(batches)
  OBVIOUS
<1> PICK first, last : first = Window(queue, 0, m) /\ last = Window(queue, m, queue.len)
  OBVIOUS
<1>1. /\ Len(batches) < MaxOut /\ heap' = heap
      /\ batches' = Append(batches, first) /\ queue' = last
  BY DEF PackTxs
<1>2. /\ Fits(heap, queue) /\ q \in Seq(Txs) /\ Len(q) = queue.len
      /\ queue.off \in Nat /\ queue.len \in Nat /\ queue.array \in Arrays
      /\ queue.array \in DOMAIN heap /\ heap[queue.array] \in Seq(Cells)
      /\ queue.off + queue.len <= Len(heap[queue.array])
      /\ Len(heap[queue.array]) \in Nat
      /\ \A i \in 1 .. queue.len : heap[queue.array][queue.off + i] = q[i] /\ q[i] \in Txs
  BY Outstanding, ReadIs DEF Read, Fits, Slices, End
<1> PICK cut, rest : cut = Packed(q, BlockSize) /\ rest = Rest(q, BlockSize)
  OBVIOUS
<1>3. /\ m \in 0 .. queue.len
      /\ cut \in Seq(Txs) /\ Len(cut) = m /\ \A i \in 1 .. m : cut[i] = q[i]
      /\ rest \in Seq(Txs) /\ Len(rest) = queue.len - m
      /\ \A i \in 1 .. queue.len - m : rest[i] = q[m + i]
  <2>1. /\ m \in 0 .. Len(q) /\ cut \in Seq(Txs) /\ Len(cut) = m
        /\ \A i \in 1 .. m : cut[i] = q[i]
    BY <1>2, CutIs, SizeAssumption
  <2>2. /\ rest \in Seq(Txs) /\ Len(rest) = Len(q) - m
        /\ \A i \in 1 .. Len(rest) : rest[i] = q[m + i]
    BY <1>2, CutIs, SizeAssumption
  <2> QED BY <1>2, <2>1, <2>2
<1>4. /\ first.array = queue.array /\ first.off = queue.off /\ first.len = m /\ first \in Slices
      /\ last.array = queue.array /\ last.off = queue.off + m /\ last.len = queue.len - m
      /\ last \in Slices
  <2>1. first = [array |-> queue.array, off |-> queue.off + 0, len |-> m - 0]
    BY DEF Window, Slice
  <2>2. last = [array |-> queue.array, off |-> queue.off + m, len |-> queue.len - m]
    BY DEF Window, Slice
  <2>3. queue.off + 0 = queue.off /\ m - 0 = m /\ m \in Nat
        /\ queue.off + m \in Nat /\ queue.len - m \in Nat
    BY <1>2, <1>3
  <2> QED BY <1>2, <2>1, <2>2, <2>3 DEF Slices
<1>5. Fits(heap, first) /\ ReadIn(heap, first) = cut
  <2>1. \A i \in 1 .. m : i \in 1 .. queue.len
    BY <1>2, <1>3
  <2>2. End(first) <= Len(heap[first.array])
    BY <1>2, <1>3, <1>4 DEF End
  <2>3. Fits(heap, first)
    BY <1>2, <1>4, <2>1, <2>2 DEF Fits
  <2>4. \A i \in 1 .. first.len : heap[first.array][first.off + i] = cut[i]
    BY <1>2, <1>3, <1>4, <2>1
  <2>5. Len(cut) = first.len
    BY <1>3, <1>4
  <2> QED BY <1>3, <1>4, <2>3, <2>4, <2>5, SameRead
<1>6. Fits(heap, last) /\ ReadIn(heap, last) = rest
  <2>1. \A i \in 1 .. queue.len - m :
            m + i \in 1 .. queue.len /\ (queue.off + m) + i = queue.off + (m + i)
    BY <1>2, <1>3
  <2>2. End(last) <= Len(heap[last.array])
    BY <1>2, <1>3, <1>4 DEF End
  <2>3. \A i \in 1 .. queue.len - m :
            heap[queue.array][(queue.off + m) + i] = q[m + i] /\ q[m + i] \in Txs
    BY <1>2, <2>1
  <2>4. \A i \in 1 .. last.len : heap[last.array][last.off + i] = q[m + i] /\ q[m + i] \in Txs
    BY <1>4, <2>3
  <2>5. Fits(heap, last)
    BY <1>2, <1>4, <2>2, <2>4 DEF Fits
  <2>6. Len(rest) = last.len /\ \A i \in 1 .. last.len : rest[i] = q[m + i]
    BY <1>3, <1>4
  <2> QED BY <1>3, <2>4, <2>5, <2>6, SameRead
<1>7. /\ n \in Nat /\ DOMAIN batches = 1 .. n /\ batches \in Seq(Slices)
      /\ batches' \in Seq(Slices) /\ Len(batches') = n + 1 /\ DOMAIN batches' = 1 .. n + 1
      /\ batches'[n + 1] = first /\ \A i \in 1 .. n : batches'[i] = batches[i]
  <2> PICK bs, new : bs = batches /\ new = Append(bs, first)
    OBVIOUS
  <2>1. bs \in Seq(Slices) /\ n \in Nat /\ DOMAIN bs = 1 .. n /\ n = Len(bs)
    BY Outstanding DEF SliceInv
  <2>2. new \in Seq(Slices) /\ Len(new) = n + 1 /\ new[n + 1] = first
        /\ \A i \in 1 .. n : new[i] = bs[i]
    BY <1>4, <2>1, AppendProperties
  <2>3. DOMAIN new = 1 .. n + 1
    BY <2>2
  <2> QED BY <1>1, <2>1, <2>2, <2>3
<1>8. \A i \in 1 .. n + 1 : i \in 1 .. n \/ (i = n + 1 /\ i \notin 1 .. n)
  BY <1>7
<1>9. ToSet(batches') \cup {queue'} = ToSet(batches) \cup {first, last}
  <2>1. n + 1 \in 1 .. n + 1 /\ \A i \in 1 .. n : i \in 1 .. n + 1
    BY <1>7
  <2>2. ToSet(batches') = ToSet(batches) \cup {first}
    BY <1>7, <1>8, <2>1 DEF ToSet
  <2> QED BY <1>1, <2>2
<1>10. \A i \in 1 .. n : /\ Fits(heap, batches[i])
                         /\ Before(batches[i], first) /\ Before(batches[i], last)
  <2> SUFFICES ASSUME NEW i \in 1 .. n
               PROVE  /\ Fits(heap, batches[i])
                      /\ Before(batches[i], first) /\ Before(batches[i], last)
    OBVIOUS
  <2>1. Fits(heap, batches[i]) /\ Before(batches[i], queue) /\ End(batches[i]) \in Nat
    <3>1. Fits(heap, batches[i]) /\ Before(batches[i], queue) /\ batches[i] \in Slices
      BY <1>7, Outstanding
    <3>2. batches[i].off \in Nat /\ batches[i].len \in Nat
      BY <3>1 DEF Slices
    <3> QED BY <3>1, <3>2 DEF End
  <2>2. \A e \in Nat : e <= queue.off => e <= queue.off + m
    BY <1>2, <1>3
  <2> QED BY <1>4, <2>1, <2>2 DEF Before
<1>11. Before(first, last)
  BY <1>2, <1>3, <1>4 DEF Before, End
<1>12. SliceInv'
  <2>1. /\ heap' = [a \in DOMAIN heap' |-> heap'[a]]
        /\ DOMAIN heap' = {s.array : s \in ToSet(batches') \cup {queue'}}
    <3>1. /\ heap = [a \in DOMAIN heap |-> heap[a]]
          /\ DOMAIN heap = {s.array : s \in ToSet(batches) \cup {queue}}
      BY DEF SliceInv
    <3>2. {s.array : s \in ToSet(batches) \cup {queue}}
            = {s.array : s \in ToSet(batches) \cup {first, last}}
      BY <1>4
    <3> QED BY <1>1, <1>9, <3>1, <3>2
  <2>2. batches' \in Seq(Slices) /\ Len(batches') <= MaxOut
    BY <1>1, <1>7, PoolBoundAssumption
  <2>3. \A s \in ToSet(batches') \cup {queue'} : Fits(heap', s)
    BY <1>1, <1>5, <1>6, <1>9 DEF SliceInv
  <2>4. \A i, k \in DOMAIN batches' : i < k => Before(batches'[i], batches'[k])
    <3> SUFFICES ASSUME NEW i \in 1 .. n + 1, NEW k \in 1 .. n + 1, i < k
                 PROVE  Before(batches'[i], batches'[k])
      BY <1>7
    <3>1. i \in 1 .. n
      BY <1>7
    <3>2. CASE k \in 1 .. n
      BY <1>7, <3>1, <3>2 DEF SliceInv
    <3>3. CASE k = n + 1
      BY <1>7, <1>10, <3>1, <3>3
    <3> QED BY <1>8, <3>2, <3>3
  <2>5. \A i \in DOMAIN batches' : Before(batches'[i], queue')
    BY <1>1, <1>7, <1>8, <1>10, <1>11
  <2> QED BY <2>1, <2>2, <2>3, <2>4, <2>5 DEF SliceInv
<1>13. Shown' = Append(Shown, cut)
  <2> PICK shown : shown = Shown
    OBVIOUS
  <2>1. shown \in Seq(Seq(Txs)) /\ Len(shown) = n /\ cut \in Seq(Txs)
        /\ \A i \in 1 .. n : shown[i] = Read(batches[i])
    BY <1>3, <1>7, ShownType
  <2> PICK longer : longer = Append(shown, cut)
    OBVIOUS
  <2>2. longer \in Seq(Seq(Txs)) /\ Len(longer) = n + 1 /\ longer[n + 1] = cut
        /\ \A i \in 1 .. n : longer[i] = shown[i]
    BY <2>1, AppendProperties
  <2>3. DOMAIN longer = 1 .. n + 1 /\ longer = [i \in DOMAIN longer |-> longer[i]]
    <3>1. longer \in Seq(Seq(Txs)) /\ Len(longer) = n + 1
      BY <2>2
    <3>2. \A s \in Seq(Seq(Txs)) : DOMAIN s = 1 .. Len(s) /\ s = [i \in DOMAIN s |-> s[i]]
      BY SeqIsFunction
    <3>3. DOMAIN longer = 1 .. Len(longer) /\ longer = [i \in DOMAIN longer |-> longer[i]]
      BY <3>1, <3>2
    <3> QED BY <3>1, <3>3
  <2>4. \A i \in 1 .. n + 1 : ReadIn(heap, batches'[i]) = longer[i]
    BY <1>5, <1>7, <1>8, <2>1, <2>2 DEF Read
  <2>5. Shown' = [i \in 1 .. n + 1 |-> ReadIn(heap, batches'[i])]
    BY <1>1, <1>7 DEF Shown, Read
  <2> QED BY <2>3, <2>4, <2>5
<1>14. Read(queue)' = rest
  BY <1>1, <1>6 DEF Read
<1>15. Len(Shown) < MaxOut
  BY <1>1, ShownType
<1> QED BY <1>12, <1>13, <1>14, <1>15
       DEF PackTxs, P!PackTxs, Free, P!Free, Shown, Packed, P!Packed, Rest, P!Rest

LEMMA TransferIsTransfer ==
    ASSUME SliceInv, NEW addr, TransferTxs(addr)
    PROVE  SliceInv' /\ P!TransferTxs(addr)
<1> PICK q, kept : q = Read(queue) /\ kept = P!NotFrom(addr, q)
  OBVIOUS
<1>1. q \in Seq(Txs)
  BY Outstanding, ReadIs DEF Read
<1>2. kept \in Seq(Txs) /\ Len(kept) \in Nat
  <2>1. kept = Selected(q, Txs \ P!Of(addr))
    BY DEF P!NotFrom, P!Selected, Selected
  <2> QED BY <1>1, <2>1, SelectedType
<1>3. PICK size \in Len(kept) .. Len(kept) + MaxRound :
          /\ queue' = Slice(Unused, 0, Len(kept))
          /\ heap' = Live(Allocated(kept, size), ToSet(batches) \cup {queue'})
  BY DEF TransferTxs
<1>4. size \in Nat /\ Len(kept) <= size
  BY <1>2, RoundAssumption
<1> PICK h : h = Allocated(kept, size)
  OBVIOUS
<1>5. /\ Fits(h, queue') /\ ReadIn(h, queue') = kept
      /\ \A t : Fits(heap, t) => Fits(h, t) /\ ReadIn(h, t) = Read(t)
  BY <1>2, <1>3, <1>4, AllocatedKeeps
<1>6. batches' = batches /\ batches \in Seq(Slices) /\ Len(batches) <= MaxOut
      /\ \A i, k \in DOMAIN batches : i < k => Before(batches[i], batches[k])
  BY DEF TransferTxs, SliceInv
<1>7. \A k \in DOMAIN batches :
          Fits(h, batches[k]) /\ ReadIn(h, batches[k]) = Read(batches[k])
  BY <1>5, Outstanding
<1>8. \A k \in DOMAIN batches : Before(batches[k], queue')
  <2>1. queue'.array = Unused
    BY <1>3 DEF Slice
  <2>2. \A k \in DOMAIN batches : batches[k].array # Unused
    BY Outstanding, UnusedIs DEF Fits
  <2> QED BY <2>1, <2>2 DEF Before
<1>9. \A t \in ToSet(batches) \cup {queue'} : Fits(h, t)
  BY <1>5, <1>7 DEF ToSet
<1>10. /\ SliceInv' /\ ReadIn(heap', queue') = ReadIn(h, queue')
       /\ \A k \in DOMAIN batches : ReadIn(heap', batches[k]) = ReadIn(h, batches[k])
  <2>1. heap' = Live(h, ToSet(batches') \cup {queue'})
    BY <1>3, <1>6
  <2> QED BY <1>6, <1>8, <1>9, <2>1, NewSlices
<1>11. Shown' = Shown
  BY <1>6, <1>7, <1>10 DEF Shown, Read
<1>12. Read(queue)' = P!NotFrom(addr, Read(queue))
  BY <1>5, <1>10 DEF Read
<1> QED BY <1>10, <1>11, <1>12
       DEF TransferTxs, P!TransferTxs, Free, P!Free, Shown, Read, ToSet, P!ToSet

LEMMA ElsewhereIsElsewhere ==
    ASSUME SliceInv, Elsewhere
    PROVE  SliceInv' /\ P!Next
<1>1. heap' = heap /\ queue' = queue /\ batches' = batches
  BY DEF Elsewhere
<1>2. SliceInv'
  BY <1>1 DEF SliceInv
<1>3. P!Next
  BY DEF Elsewhere, P!Next
<1> QED BY <1>2, <1>3

LEMMA InitIsInit ==
    ASSUME Init
    PROVE  SliceInv /\ P!Init
<1>1. /\ heap = [a \in {1} |-> << >>] /\ batches = << >>
      /\ queue.array = 1 /\ queue.off = 0 /\ queue.len = 0 /\ queue \in Slices
  <2>1. 1 \in Arrays
    BY PoolBoundAssumption DEF Arrays
  <2> QED BY <2>1 DEF Init, Slice, Slices
<1>2. ToSet(batches) = {} /\ DOMAIN batches = {} /\ Len(batches) = 0
      /\ batches \in Seq(Slices)
  BY <1>1 DEF ToSet
<1>3. << >> \in Seq(Cells) /\ << >> \in Seq(Txs) /\ Len(<< >>) = 0
  OBVIOUS
<1>4. Fits(heap, queue)
  <2>1. \A i \in 1 .. queue.len : FALSE
    BY <1>1
  <2>2. heap[queue.array] = << >> /\ queue.array \in DOMAIN heap
    BY <1>1
  <2>3. End(queue) = 0
    BY <1>1 DEF End
  <2> QED BY <1>1, <1>3, <2>1, <2>2, <2>3 DEF Fits
<1>5. SliceInv
  <2>1. heap = [a \in DOMAIN heap |-> heap[a]]
    BY <1>1
  <2>2. DOMAIN heap = {s.array : s \in ToSet(batches) \cup {queue}}
    BY <1>1, <1>2
  <2> QED BY <1>2, <1>4, <2>1, <2>2, PoolBoundAssumption DEF SliceInv
<1>6. Read(queue) = << >>
  <2> PICK q : q = << >>
    OBVIOUS
  <2>1. q \in Seq(Txs) /\ Len(q) = queue.len
    BY <1>1, <1>3
  <2>2. \A i \in 1 .. queue.len : heap[queue.array][queue.off + i] = q[i]
    BY <1>1
  <2> QED BY <1>4, <2>1, <2>2, SameRead DEF Read
<1>7. [k \in DOMAIN batches |-> Read(batches[k])] = << >>
  BY <1>2
<1> QED BY <1>5, <1>6, <1>7 DEF Init, P!Init

-----------------------------------------------------------------------------

\* Whatever a method does on slices it does on values, and the slices stay in their
\* order.
LEMMA StepIsStep ==
    ASSUME SliceInv, NewestOnly, [Next]_vars
    PROVE  SliceInv' /\ [P!Next]_(P!vars)
<1>1. ASSUME NEW tx \in Txs, AddTx2Pool(tx)
      PROVE  SliceInv' /\ P!Next
  BY <1>1, AddIsAdd DEF P!Next
<1>2. ASSUME NEW k \in P!Returnable, AddTxs2Pool_Head(k)
      PROVE  SliceInv' /\ P!Next
  BY <1>2, HeadIsHead DEF P!Next
<1>3. ASSUME PackTxs
      PROVE  SliceInv' /\ P!Next
  BY <1>3, PackIsPack DEF P!Next
<1>4. ASSUME NEW k \in DOMAIN batches, Done(k)
      PROVE  SliceInv' /\ P!Next
  <2>1. SliceInv' /\ P!Done(k)
    BY <1>4, DoneIsDone
  <2>2. k \in DOMAIN [j \in DOMAIN batches |-> Read(batches[j])]
    OBVIOUS
  <2> QED BY <2>1, <2>2 DEF P!Next
<1>5. ASSUME NEW addr \in {Sender[tx] : tx \in Txs}, TransferTxs(addr)
      PROVE  SliceInv' /\ P!Next
  BY <1>5, TransferIsTransfer DEF P!Next
<1>6. ASSUME Elsewhere
      PROVE  SliceInv' /\ P!Next
  BY <1>6, ElsewhereIsElsewhere
<1>7. ASSUME UNCHANGED vars
      PROVE  SliceInv' /\ UNCHANGED P!vars
  BY <1>7 DEF vars, P!vars, SliceInv, Read
<1> QED BY <1>1, <1>2, <1>3, <1>4, <1>5, <1>6, <1>7 DEF Next

\* The pool on Go slices is the pool on values, for any capacities that append
\* chooses and any number of batches outstanding, as long as the batch that is put
\* back is the newest one: no append of AddTx2Pool or AddTxs2Pool_Head writes over
\* a transaction that the queue or an outstanding batch shows.
THEOREM SlicesArePool ==
    ASSUME NewestOnly
    PROVE  Spec => IsPool
<1>1. Init => SliceInv /\ P!Init
  BY InitIsInit
<1>2. SliceInv /\ [Next]_vars => SliceInv' /\ [P!Next]_(P!vars)
  BY StepIsStep
<1> QED BY <1>1, <1>2, PTL DEF Spec, IsPool, P!Spec

-----------------------------------------------------------------------------
(* Every transaction is in one place: what the lists hold.                 *)

Injective(q) == \A i, k \in DOMAIN q : q[i] = q[k] => i = k

\* No member of a family of lists is at two places in it.
Single(lists) ==
    /\ \A k \in DOMAIN lists : Injective(lists[k])
    /\ \A j, k \in DOMAIN lists : j # k => ToSet(lists[j]) \cap ToSet(lists[k]) = {}

Contents(lists) == UNION {ToSet(lists[k]) : k \in DOMAIN lists}

LEMMA AppendSet ==
    ASSUME NEW S, NEW q \in Seq(S), NEW x \in S
    PROVE  /\ ToSet(Append(q, x)) = ToSet(q) \cup {x}
           /\ Injective(q) /\ x \notin ToSet(q) => Injective(Append(q, x))
<1> PICK r, n : r = Append(q, x) /\ n = Len(q)
  OBVIOUS
<1>1. /\ n \in Nat /\ DOMAIN q = 1 .. n
      /\ Len(r) = n + 1 /\ r[n + 1] = x /\ \A i \in 1 .. n : r[i] = q[i]
  BY AppendProperties
<1>2. DOMAIN r = 1 .. n + 1
  <2>1. r \in Seq(S)
    BY AppendProperties
  <2> QED BY <1>1, <2>1, SeqIsFunction
<1>3. /\ \A i \in 1 .. n + 1 : i \in 1 .. n \/ i = n + 1
      /\ \A i \in 1 .. n : i \in 1 .. n + 1 /\ i # n + 1
      /\ n + 1 \in 1 .. n + 1
  BY <1>1
<1>4. ToSet(r) = ToSet(q) \cup {x}
  BY <1>1, <1>2, <1>3 DEF ToSet
<1>5. ASSUME Injective(q), x \notin ToSet(q) PROVE Injective(r)
  <2>1. \A i \in 1 .. n : q[i] # x
    BY <1>1, <1>5 DEF ToSet
  <2>2. \A i, k \in 1 .. n : q[i] = q[k] => i = k
    BY <1>1, <1>5 DEF Injective
  <2> QED BY <1>1, <1>2, <1>3, <2>1, <2>2 DEF Injective
<1> QED BY <1>4, <1>5

LEMMA ConcatSet ==
    ASSUME NEW S, NEW p \in Seq(S), NEW q \in Seq(S)
    PROVE  /\ ToSet(p \o q) = ToSet(p) \cup ToSet(q)
           /\ Injective(p) /\ Injective(q) /\ ToSet(p) \cap ToSet(q) = {} => Injective(p \o q)
<1> PICK r, n, m : r = p \o q /\ n = Len(p) /\ m = Len(q)
  OBVIOUS
<1>1. /\ n \in Nat /\ m \in Nat /\ DOMAIN p = 1 .. n /\ DOMAIN q = 1 .. m
      /\ r \in Seq(S) /\ Len(r) = n + m
      /\ \A i \in 1 .. n + m : r[i] = IF i <= n THEN p[i] ELSE q[i - n]
  BY ConcatProperties
<1>2. DOMAIN r = 1 .. n + m
  BY <1>1, SeqIsFunction
<1>3. /\ \A i \in 1 .. n + m : \/ i \in 1 .. n /\ i <= n
                               \/ i - n \in 1 .. m /\ ~(i <= n)
      /\ \A i \in 1 .. n : i \in 1 .. n + m /\ i <= n
      /\ \A i \in 1 .. m : n + i \in 1 .. n + m /\ ~(n + i <= n) /\ (n + i) - n = i
  BY <1>1
<1>4. \A i \in 1 .. n : p[i] = r[i] /\ p[i] \in ToSet(p)
  BY <1>1, <1>3 DEF ToSet
<1>5. \A i \in 1 .. m : q[i] = r[n + i] /\ q[i] \in ToSet(q)
  BY <1>1, <1>3 DEF ToSet
<1>6. ASSUME NEW i \in 1 .. n + m
      PROVE  (i <= n => r[i] \in ToSet(p)) /\ (~(i <= n) => r[i] \in ToSet(q))
  <2>1. CASE i <= n
    <3>1. i \in 1 .. n /\ r[i] = p[i]
      BY <1>1, <1>3, <2>1
    <3> QED BY <1>4, <2>1, <3>1
  <2>2. CASE ~(i <= n)
    <3>1. i - n \in 1 .. m /\ r[i] = q[i - n]
      BY <1>1, <1>3, <2>2
    <3> QED BY <1>5, <2>2, <3>1
  <2> QED BY <2>1, <2>2
<1>7. ToSet(r) = ToSet(p) \cup ToSet(q)
  <2>1. \A i \in 1 .. n + m : r[i] \in ToSet(p) \cup ToSet(q)
    BY <1>6
  <2>2. \A i \in 1 .. n : p[i] \in ToSet(r)
    <3>1. \A i \in 1 .. n : i \in 1 .. n + m
      BY <1>3
    <3> QED BY <1>2, <1>4, <3>1 DEF ToSet
  <2>3. \A i \in 1 .. m : q[i] \in ToSet(r)
    <3>1. \A i \in 1 .. m : n + i \in 1 .. n + m
      BY <1>3
    <3> QED BY <1>2, <1>5, <3>1 DEF ToSet
  <2>4. /\ \A x \in ToSet(r) : \E i \in 1 .. n + m : x = r[i]
        /\ \A x \in ToSet(p) : \E i \in 1 .. n : x = p[i]
        /\ \A x \in ToSet(q) : \E i \in 1 .. m : x = q[i]
    BY <1>1, <1>2 DEF ToSet
  <2>5. \A x \in ToSet(r) : x \in ToSet(p) \cup ToSet(q)
    BY <2>1, <2>4
  <2>6. \A x \in ToSet(p) \cup ToSet(q) : x \in ToSet(r)
    BY <2>2, <2>3, <2>4
  <2> QED BY <2>5, <2>6
<1>8. ASSUME Injective(p), Injective(q), ToSet(p) \cap ToSet(q) = {} PROVE Injective(r)
  <2> SUFFICES ASSUME NEW i \in 1 .. n + m, NEW k \in 1 .. n + m, r[i] = r[k] PROVE i = k
    BY <1>2 DEF Injective
  <2>1. CASE i <= n /\ k <= n
    <3>1. i \in 1 .. n /\ k \in 1 .. n /\ p[i] = p[k]
      BY <1>1, <1>3, <2>1
    <3> QED BY <1>1, <1>8, <3>1 DEF Injective
  <2>2. CASE ~(i <= n) /\ ~(k <= n)
    <3>1. i - n \in 1 .. m /\ k - n \in 1 .. m /\ q[i - n] = q[k - n]
      BY <1>1, <1>3, <2>2
    <3>2. i - n = k - n
      BY <1>1, <1>8, <3>1 DEF Injective
    <3> QED BY <1>1, <3>2
  <2>3. CASE i <= n /\ ~(k <= n)
    <3>1. r[i] \in ToSet(p) /\ r[k] \in ToSet(q)
      BY <1>6, <2>3
    <3> QED BY <1>8, <3>1
  <2>4. CASE ~(i <= n) /\ k <= n
    <3>1. r[k] \in ToSet(p) /\ r[i] \in ToSet(q)
      BY <1>6, <2>4
    <3> QED BY <1>8, <3>1
  <2> QED BY <2>1, <2>2, <2>3, <2>4
<1> QED BY <1>7, <1>8

\* What is cut off and what stays share nothing, and are all there was.
LEMMA CutSet ==
    ASSUME NEW q \in Seq(Txs), NEW n \in Nat, Injective(q)
    PROVE  /\ Injective(Packed(q, n)) /\ Injective(Rest(q, n))
           /\ ToSet(q) = ToSet(Packed(q, n)) \cup ToSet(Rest(q, n))
           /\ ToSet(Packed(q, n)) \cap ToSet(Rest(q, n)) = {}
<1> PICK p, r, m, l : p = Packed(q, n) /\ r = Rest(q, n) /\ m = Len(p) /\ l = Len(q)
  OBVIOUS
<1>1. /\ p \in Seq(Txs) /\ m \in 0 .. l /\ l \in Nat
      /\ \A i \in 1 .. m : p[i] = q[i]
      /\ r \in Seq(Txs) /\ Len(r) = l - m /\ \A i \in 1 .. Len(r) : r[i] = q[m + i]
  BY CutIs
<1>2. DOMAIN p = 1 .. m /\ DOMAIN r = 1 .. l - m /\ DOMAIN q = 1 .. l
      /\ \A i \in 1 .. l - m : r[i] = q[m + i]
  BY <1>1, SeqIsFunction
<1>3. /\ \A i \in 1 .. m : i \in 1 .. l
      /\ \A i \in 1 .. l - m : m + i \in 1 .. l /\ m + i \notin 1 .. m
      /\ \A i \in 1 .. l : i \in 1 .. m \/ (i - m \in 1 .. l - m /\ m + (i - m) = i)
      /\ \A i, k \in 1 .. l - m : m + i = m + k => i = k
  BY <1>1
<1>4. \A i, k \in 1 .. l : q[i] = q[k] => i = k
  BY <1>2 DEF Injective
<1>5. Injective(p)
  BY <1>1, <1>2, <1>3, <1>4 DEF Injective
<1>6. Injective(r)
  <2> SUFFICES ASSUME NEW i \in 1 .. l - m, NEW k \in 1 .. l - m, r[i] = r[k] PROVE i = k
    BY <1>2 DEF Injective
  <2>1. m + i \in 1 .. l /\ m + k \in 1 .. l /\ q[m + i] = q[m + k]
    BY <1>2, <1>3
  <2>2. m + i = m + k
    BY <1>4, <2>1
  <2> QED BY <1>3, <2>2
<1>7. ToSet(p) \cap ToSet(r) = {}
  <2>1. \A i \in 1 .. m, k \in 1 .. l - m : p[i] # r[k]
    BY <1>1, <1>2, <1>3, <1>4
  <2> QED BY <1>2, <2>1 DEF ToSet
<1>8. ToSet(q) = ToSet(p) \cup ToSet(r)
  <2>1. \A i \in 1 .. l : q[i] \in ToSet(p) \cup ToSet(r)
    <3> SUFFICES ASSUME NEW i \in 1 .. l PROVE q[i] \in ToSet(p) \cup ToSet(r)
      OBVIOUS
    <3>1. CASE i \in 1 .. m
      BY <1>1, <1>2, <3>1 DEF ToSet
    <3>2. CASE i - m \in 1 .. l - m /\ m + (i - m) = i
      <4>1. q[i] = r[i - m]
        BY <1>2, <3>2
      <4> QED BY <1>2, <3>2, <4>1 DEF ToSet
    <3> QED BY <1>3, <3>1, <3>2
  <2>2. \A i \in 1 .. m : p[i] \in ToSet(q)
    <3>1. \A i \in 1 .. m : p[i] = q[i] /\ i \in DOMAIN q
      BY <1>1, <1>2, <1>3
    <3> QED BY <3>1 DEF ToSet
  <2>3. \A i \in 1 .. l - m : r[i] \in ToSet(q)
    BY <1>2, <1>3 DEF ToSet
  <2>4. /\ \A x \in ToSet(q) : \E i \in 1 .. l : x = q[i]
        /\ \A x \in ToSet(p) : \E i \in 1 .. m : x = p[i]
        /\ \A x \in ToSet(r) : \E i \in 1 .. l - m : x = r[i]
    BY <1>2 DEF ToSet
  <2> QED BY <2>1, <2>2, <2>3, <2>4
<1> QED BY <1>5, <1>6, <1>7, <1>8

LEMMA SelectedSet ==
    ASSUME NEW q \in Seq(Txs), NEW S, Injective(q)
    PROVE  /\ Injective(Selected(q, S)) /\ ToSet(Selected(q, S)) = ToSet(q) \cap S
<1> PICK r, l : r = Selected(q, S) /\ l = Len(q)
  OBVIOUS
<1>1. PICK p : Selects(r, q, S, l, p)
  BY SelectedIs
<1>2. /\ r \in Seq(Txs) /\ p \in [1 .. Len(r) -> 1 .. l] /\ Len(r) \in Nat
      /\ \A j \in 1 .. Len(r) : r[j] = q[p[j]] /\ r[j] \in S
      /\ \A j, k \in 1 .. Len(r) : j < k => p[j] < p[k]
      /\ \A i \in 1 .. l : q[i] \in S => \E j \in 1 .. Len(r) : p[j] = i
  <2>1. r \in Seq(Txs)
    BY <1>1 DEF Selects
  <2>2. Len(r) \in Nat
    BY <2>1
  <2> QED BY <1>1, <2>2 DEF Selects
<1>3. DOMAIN r = 1 .. Len(r) /\ DOMAIN q = 1 .. l
  BY <1>2, SeqIsFunction
<1>4. \A j \in 1 .. Len(r) : p[j] \in 1 .. l
  BY <1>2
<1>5. Injective(r)
  <2> SUFFICES ASSUME NEW j \in 1 .. Len(r), NEW k \in 1 .. Len(r), r[j] = r[k] PROVE j = k
    BY <1>3 DEF Injective
  <2>1. p[j] = p[k]
    BY <1>2, <1>3, <1>4 DEF Injective
  <2>2. ~(j < k) /\ ~(k < j)
    <3>1. p[j] \in Int
      BY <1>4
    <3> QED BY <1>2, <2>1, <3>1
  <2> QED BY <1>2, <2>2
<1>6. ToSet(r) = ToSet(q) \cap S
  <2>1. \A j \in 1 .. Len(r) : r[j] \in ToSet(q) \cap S
    BY <1>2, <1>3, <1>4 DEF ToSet
  <2>2. ASSUME NEW i \in 1 .. l, q[i] \in S PROVE q[i] \in ToSet(r)
    <3>1. PICK j \in 1 .. Len(r) : p[j] = i
      BY <1>2, <2>2
    <3> QED BY <1>2, <1>3, <3>1 DEF ToSet
  <2> QED BY <1>3, <2>1, <2>2 DEF ToSet
<1> QED BY <1>5, <1>6

\* g is the family r with one list changed or added.
OneChanged(r, s, g) ==
    /\ DOMAIN g = (DOMAIN r) \cup {s}
    /\ \A x \in DOMAIN r : x # s => g[x] = r[x]

Others(r, s) == UNION {ToSet(r[x]) : x \in (DOMAIN r) \ {s}}

LEMMA OthersAre ==
    ASSUME NEW r, Single(r), NEW s
    PROVE  /\ s \in DOMAIN r => /\ Others(r, s) = Contents(r) \ ToSet(r[s])
                                /\ ToSet(r[s]) \subseteq Contents(r)
           /\ s \notin DOMAIN r => Others(r, s) = Contents(r)
  BY DEF Others, Contents, Single

LEMMA FamilyOne ==
    ASSUME NEW r, Single(r), NEW s, NEW g, OneChanged(r, s, g), Injective(g[s]),
           ToSet(g[s]) \cap Others(r, s) = {}
    PROVE  Single(g) /\ Contents(g) = Others(r, s) \cup ToSet(g[s])
<1>1. DOMAIN g = (DOMAIN r) \cup {s} /\ \A x \in DOMAIN r : x # s => g[x] = r[x]
  BY DEF OneChanged
<1>2. \A x \in DOMAIN r : x # s => ToSet(r[x]) \subseteq Others(r, s)
  BY DEF Others
<1>3. \A x \in Others(r, s) : \E y \in DOMAIN r : y # s /\ x \in ToSet(r[y])
  BY DEF Others
<1>4. Contents(g) = Others(r, s) \cup ToSet(g[s])
  <2>1. \A x \in Contents(g) : x \in Others(r, s) \cup ToSet(g[s])
    <3> SUFFICES ASSUME NEW x \in Contents(g) PROVE x \in Others(r, s) \cup ToSet(g[s])
      OBVIOUS
    <3>1. PICK y \in DOMAIN g : x \in ToSet(g[y])
      BY DEF Contents
    <3>2. y # s => y \in DOMAIN r /\ g[y] = r[y]
      BY <1>1
    <3> QED BY <1>2, <3>1, <3>2
  <2>2. \A x \in Others(r, s) : x \in Contents(g)
    BY <1>1, <1>3 DEF Contents
  <2>3. ToSet(g[s]) \subseteq Contents(g)
    BY <1>1 DEF Contents
  <2> QED BY <2>1, <2>2, <2>3
<1>5. \A k \in DOMAIN g : Injective(g[k])
  BY <1>1 DEF Single
<1>6. \A j, k \in DOMAIN g : j # k => ToSet(g[j]) \cap ToSet(g[k]) = {}
  <2> SUFFICES ASSUME NEW j \in DOMAIN g, NEW k \in DOMAIN g, j # k
               PROVE  ToSet(g[j]) \cap ToSet(g[k]) = {}
    OBVIOUS
  <2>1. CASE j # s /\ k # s
    BY <1>1, <2>1 DEF Single
  <2>2. CASE j = s
    <3>1. ToSet(g[k]) \subseteq Others(r, s)
      BY <1>1, <1>2, <2>2
    <3> QED BY <2>2, <3>1
  <2>3. CASE k = s
    <3>1. ToSet(g[j]) \subseteq Others(r, s)
      BY <1>1, <1>2, <2>3
    <3> QED BY <2>3, <3>1
  <2> QED BY <2>1, <2>2, <2>3
<1> QED BY <1>4, <1>5, <1>6 DEF Single

LEMMA FamilyAppend ==
    ASSUME NEW o \in Seq(Seq(Txs)), Single(o), NEW l \in Seq(Txs), Injective(l),
           ToSet(l) \cap Contents(o) = {}
    PROVE  Single(Append(o, l)) /\ Contents(Append(o, l)) = Contents(o) \cup ToSet(l)
<1>1. PICK g : g = Append(o, l)
  OBVIOUS
<1>2. PICK m : m = Len(o) + 1
  OBVIOUS
<1>3. /\ Len(o) \in Nat /\ g \in Seq(Seq(Txs)) /\ Len(g) = m /\ g[m] = l
      /\ \A i \in 1 .. Len(o) : g[i] = o[i]
  BY <1>1, <1>2, AppendProperties
<1>4. DOMAIN g = 1 .. m /\ DOMAIN o = 1 .. Len(o)
  BY <1>3, SeqIsFunction
<1>5. DOMAIN g = (DOMAIN o) \cup {m} /\ m \notin DOMAIN o
  BY <1>2, <1>3, <1>4
<1>6. OneChanged(o, m, g)
  BY <1>3, <1>4, <1>5 DEF OneChanged
<1>7. Others(o, m) = Contents(o)
  BY <1>5, OthersAre
<1>8. Single(g) /\ Contents(g) = Others(o, m) \cup ToSet(g[m])
  BY <1>3, <1>6, <1>7, FamilyOne
<1> QED BY <1>1, <1>3, <1>7, <1>8

LEMMA FamilyRemove ==
    ASSUME NEW o \in Seq(Seq(Txs)), Single(o), NEW k \in DOMAIN o
    PROVE  /\ Single(RemoveAt(o, k))
           /\ Contents(RemoveAt(o, k)) = Contents(o) \ ToSet(o[k])
<1>0. PICK g, n : g = RemoveAt(o, k) /\ n = Len(o)
  OBVIOUS
<1>1. /\ n \in Nat /\ k \in 1 .. n /\ DOMAIN o = 1 .. n /\ DOMAIN g = 1 .. n - 1
      /\ \A j \in 1 .. n - 1 : g[j] = o[Skip(j, k)] /\ Skip(j, k) \in 1 .. n
  <2>1. Len(o) \in Nat /\ DOMAIN o = 1 .. Len(o)
    OBVIOUS
  <2>2. /\ DOMAIN RemoveAt(o, k) = 1 .. Len(o) - 1
        /\ \A j \in 1 .. Len(o) - 1 : RemoveAt(o, k)[j] = o[Skip(j, k)] /\ Skip(j, k) \in DOMAIN o
    BY RemoveAtIs
  <2> QED BY <1>0, <2>1, <2>2
<1>2. /\ \A j \in 1 .. n - 1 : Skip(j, k) # k
      /\ \A i, j \in 1 .. n - 1 : Skip(i, k) = Skip(j, k) => i = j
      /\ \A i \in 1 .. n : i # k => \E j \in 1 .. n - 1 : Skip(j, k) = i
  <2>1. \A i \in 1 .. n : i < k => i \in 1 .. n - 1
    BY <1>1
  <2>2. \A i \in 1 .. n : ~(i < k) /\ i # k => i - 1 \in 1 .. n - 1 /\ ~(i - 1 < k) /\ (i - 1) + 1 = i
    BY <1>1
  <2>3. \A i \in 1 .. n : i # k => \E j \in 1 .. n - 1 : Skip(j, k) = i
    BY <2>1, <2>2 DEF Skip
  <2>4. \A j \in 1 .. n - 1 : Skip(j, k) # k
    BY <1>1 DEF Skip
  <2>5. \A i, j \in 1 .. n - 1 : Skip(i, k) = Skip(j, k) => i = j
    BY <1>1 DEF Skip
  <2> QED BY <2>3, <2>4, <2>5
<1>3. Contents(g) = Contents(o) \ ToSet(o[k])
  <2>1. ASSUME NEW x \in Contents(g) PROVE x \in Contents(o) \ ToSet(o[k])
    <3>1. PICK j \in 1 .. n - 1 : x \in ToSet(g[j])
      BY <1>1, <2>1 DEF Contents
    <3>2. x \in ToSet(o[Skip(j, k)]) /\ Skip(j, k) \in 1 .. n /\ Skip(j, k) # k
      BY <1>1, <1>2, <3>1
    <3> QED BY <1>1, <3>2 DEF Contents, Single
  <2>2. ASSUME NEW x \in Contents(o) \ ToSet(o[k]) PROVE x \in Contents(g)
    <3>1. PICK i \in 1 .. n : x \in ToSet(o[i]) /\ i # k
      BY <1>1, <2>2 DEF Contents
    <3>2. PICK j \in 1 .. n - 1 : Skip(j, k) = i
      BY <1>2, <3>1
    <3>3. x \in ToSet(g[j])
      BY <1>1, <3>1, <3>2
    <3> QED BY <1>1, <3>3 DEF Contents
  <2> QED BY <2>1, <2>2
<1>4. \A j \in DOMAIN g : Injective(g[j])
  BY <1>1 DEF Single
<1>5. ASSUME NEW i \in 1 .. n - 1, NEW j \in 1 .. n - 1, i # j
      PROVE  ToSet(g[i]) \cap ToSet(g[j]) = {}
  <2>1. Skip(i, k) # Skip(j, k) /\ Skip(i, k) \in DOMAIN o /\ Skip(j, k) \in DOMAIN o
    BY <1>1, <1>2, <1>5
  <2> QED BY <1>1, <2>1 DEF Single
<1>6. Single(g)
  BY <1>1, <1>4, <1>5 DEF Single
<1> QED BY <1>0, <1>3, <1>6

\* The relay pool is nil or a map from shards to lists.
IsRelay(r) == r = None \/ (DOMAIN r \in SUBSET Shards /\ r \in [DOMAIN r -> Seq(Txs)])

SingleRelay(r) == r # None => Single(r)

LEMMA RelayTxs ==
    ASSUME NEW r
    PROVE  /\ r = None => P!PoolTxs(r) = {} /\ P!PoolShards(r) = {}
           /\ r # None => P!PoolTxs(r) = Contents(r) /\ P!PoolShards(r) = DOMAIN r
  BY DEF P!PoolTxs, P!PoolShards, P!ToSet, Contents, ToSet

LEMMA MapIsRelay ==
    ASSUME NEW S \in SUBSET Shards, NEW g \in [S -> Seq(Txs)]
    PROVE  g # None /\ IsRelay(g) /\ DOMAIN g = S
  BY NoneAssumption DEF IsRelay

LEMMA RelayMore ==
    ASSUME NEW r, IsRelay(r), r # None, Single(r), NEW tx \in Txs, tx \notin Contents(r),
           NEW s \in Shards, NEW g, g = P!WithRelay(r, tx, s)
    PROVE  g # None /\ IsRelay(g) /\ Single(g) /\ Contents(g) = Contents(r) \cup {tx}
<1>1. DOMAIN r \in SUBSET Shards /\ r \in [DOMAIN r -> Seq(Txs)]
  BY DEF IsRelay
<1>2. << >> \in Seq(Txs) /\ ToSet(<< >>) = {} /\ Injective(<< >>)
  BY DEF ToSet, Injective
<1>3. PICK before : before = IF s \in DOMAIN r THEN r[s] ELSE << >>
  OBVIOUS
<1>4. /\ before \in Seq(Txs) /\ Injective(before)
      /\ s \in DOMAIN r => ToSet(before) = ToSet(r[s])
      /\ s \notin DOMAIN r => ToSet(before) = {}
  BY <1>1, <1>2, <1>3 DEF Single
<1>5. ToSet(before) \subseteq Contents(r) /\ Others(r, s) = Contents(r) \ ToSet(before)
  BY <1>4, OthersAre
<1>6. PICK after : after = Append(before, tx)
  OBVIOUS
<1>7. after \in Seq(Txs) /\ Injective(after) /\ ToSet(after) = ToSet(before) \cup {tx}
  <2>1. tx \notin ToSet(before)
    BY <1>5
  <2>2. Append(before, tx) \in Seq(Txs)
    BY <1>4, AppendProperties
  <2>3. /\ ToSet(Append(before, tx)) = ToSet(before) \cup {tx}
        /\ Injective(Append(before, tx))
    BY <1>4, <2>1, AppendSet
  <2> QED BY <1>6, <2>2, <2>3
<1>8. g = [x \in (DOMAIN r) \cup {s} |-> IF x # s THEN r[x] ELSE after]
  BY <1>3, <1>6 DEF P!WithRelay
<1>9. g[s] = after /\ OneChanged(r, s, g)
  BY <1>8 DEF OneChanged
<1>10. g # None /\ IsRelay(g)
  <2>1. g \in [(DOMAIN r) \cup {s} -> Seq(Txs)]
    BY <1>1, <1>7, <1>8
  <2>2. (DOMAIN r) \cup {s} \in SUBSET Shards
    BY <1>1
  <2> QED BY <2>1, <2>2, MapIsRelay
<1>11. Single(g) /\ Contents(g) = Others(r, s) \cup ToSet(g[s])
  BY <1>5, <1>7, <1>9, FamilyOne
<1> QED BY <1>5, <1>7, <1>9, <1>10, <1>11

LEMMA RelayCut ==
    ASSUME NEW r, IsRelay(r), r # None, Single(r), NEW s \in DOMAIN r, NEW n \in Nat,
           NEW g, OneChanged(r, s, g), g = [x \in DOMAIN g |-> g[x]], g[s] = Rest(r[s], n)
    PROVE  /\ g # None /\ IsRelay(g) /\ Single(g)
           /\ Contents(g) = Contents(r) \ ToSet(Packed(r[s], n))
           /\ ToSet(Packed(r[s], n)) \subseteq Contents(r)
<1>1. DOMAIN r \in SUBSET Shards /\ r \in [DOMAIN r -> Seq(Txs)]
  BY DEF IsRelay
<1>2. PICK p, q : p = Packed(r[s], n) /\ q = Rest(r[s], n)
  OBVIOUS
<1>3. /\ q \in Seq(Txs) /\ Injective(q)
      /\ ToSet(r[s]) = ToSet(p) \cup ToSet(q) /\ ToSet(p) \cap ToSet(q) = {}
  <2>1. r[s] \in Seq(Txs) /\ Injective(r[s])
    BY <1>1 DEF Single
  <2> QED BY <1>2, <2>1, CutIs, CutSet
<1>4. /\ DOMAIN g = DOMAIN r /\ g[s] = q
      /\ g \in [DOMAIN r -> Seq(Txs)] /\ \A x \in DOMAIN r : x # s => g[x] = r[x]
  BY <1>1, <1>2, <1>3 DEF OneChanged
<1>5. g # None /\ IsRelay(g)
  BY <1>1, <1>4, MapIsRelay
<1>6. Others(r, s) = Contents(r) \ ToSet(r[s]) /\ ToSet(r[s]) \subseteq Contents(r)
  BY OthersAre
<1>7. ToSet(g[s]) \cap Others(r, s) = {} /\ Injective(g[s])
  BY <1>3, <1>4, <1>6
<1>8. Single(g) /\ Contents(g) = Others(r, s) \cup ToSet(g[s])
  BY <1>7, FamilyOne
<1> QED BY <1>2, <1>3, <1>4, <1>5, <1>6, <1>8

LEMMA RelayKept ==
    ASSUME NEW r, IsRelay(r), SingleRelay(r), NEW addr, NEW g, g = P!RelayNotFrom(addr, r)
    PROVE  /\ g # None /\ IsRelay(g) /\ Single(g)
           /\ Contents(g) = P!PoolTxs(r) \ P!Of(addr)
<1> PICK D : D = P!PoolShards(r)
  OBVIOUS
<1>1. /\ D \in SUBSET Shards /\ \A s \in D : r[s] \in Seq(Txs) /\ Injective(r[s])
      /\ \A j, k \in D : j # k => ToSet(r[j]) \cap ToSet(r[k]) = {}
      /\ \A x : x \in P!PoolTxs(r) <=> \E s \in D : x \in ToSet(r[s])
  BY RelayTxs DEF IsRelay, SingleRelay, Single, Contents
<1> PICK S : S = Txs \ P!Of(addr)
  OBVIOUS
<1>2. \A s : P!NotFrom(addr, r[s]) = Selected(r[s], S)
  BY DEF P!NotFrom, P!Selected, Selected
<1> PICK kept : kept = {s \in D : Selected(r[s], S) # << >>}
  OBVIOUS
<1>3. g = [s \in kept |-> Selected(r[s], S)]
  BY <1>2 DEF P!RelayNotFrom
<1>4. \A s \in D : /\ Selected(r[s], S) \in Seq(Txs) /\ Injective(Selected(r[s], S))
                   /\ ToSet(Selected(r[s], S)) = ToSet(r[s]) \cap S
  BY <1>1, SelectedType, SelectedSet
<1>5. kept \in SUBSET Shards /\ kept \subseteq D /\ DOMAIN g = kept /\ g \in [kept -> Seq(Txs)]
  <2>1. kept \in SUBSET Shards /\ kept \subseteq D
    BY <1>1
  <2>2. \A s \in kept : Selected(r[s], S) \in Seq(Txs)
    BY <1>4, <2>1
  <2> QED BY <1>3, <2>1, <2>2
<1>6. g # None /\ IsRelay(g)
  BY <1>5, MapIsRelay
<1>7. \A s \in kept : ToSet(g[s]) = ToSet(r[s]) \cap S /\ Injective(g[s])
  BY <1>3, <1>4, <1>5
<1>8. Single(g)
  <2>1. \A j, k \in kept : j # k => ToSet(g[j]) \cap ToSet(g[k]) = {}
    <3> SUFFICES ASSUME NEW j \in kept, NEW k \in kept, j # k
                 PROVE  ToSet(g[j]) \cap ToSet(g[k]) = {}
      OBVIOUS
    <3>1. ToSet(r[j]) \cap ToSet(r[k]) = {}
      BY <1>1, <1>5
    <3>2. ToSet(g[j]) \subseteq ToSet(r[j]) /\ ToSet(g[k]) \subseteq ToSet(r[k])
      BY <1>7
    <3> QED BY <3>1, <3>2
  <2> QED BY <1>5, <1>7, <2>1 DEF Single
<1>9. \A s \in D : s \notin kept => ToSet(r[s]) \cap S = {}
  <2>1. ToSet(<< >>) = {}
    BY DEF ToSet
  <2> QED BY <1>4, <2>1
<1>10. Contents(g) = P!PoolTxs(r) \cap S
  <2>1. \A x : x \in Contents(g) <=> \E s \in kept : x \in ToSet(r[s]) \cap S
    BY <1>5, <1>7 DEF Contents
  <2>2. \A x : (\E s \in kept : x \in ToSet(r[s]) \cap S) <=> (\E s \in D : x \in ToSet(r[s])) /\ x \in S
    BY <1>5, <1>9
  <2> QED BY <1>1, <2>1, <2>2
<1>11. P!PoolTxs(r) \subseteq Txs
  BY <1>1 DEF ToSet
<1> QED BY <1>6, <1>8, <1>10, <1>11

-----------------------------------------------------------------------------
(* Every transaction is in one place: what the methods do.                 *)

Partition(f, g, q, o, r) ==
    /\ f \cup g \cup q \cup o \cup r = Txs
    /\ f \cap (g \cup q \cup o \cup r) = {}
    /\ g \cap (q \cup o \cup r) = {}
    /\ q \cap (o \cup r) = {}
    /\ o \cap r = {}

\* The queue q, the outstanding batches o, the relay pool r, the transactions f that
\* nobody has put in yet and those that are gone, g: nothing is at two places.
PoolIs(q, o, r, f, g) ==
    /\ IsRelay(r) /\ SingleRelay(r) /\ Injective(q) /\ Single(o)
    /\ Partition(f, g, ToSet(q), Contents(o), P!PoolTxs(r))

LEMMA PoolAdd ==
    ASSUME NEW q \in Seq(Txs), NEW o, NEW r, NEW f, NEW g, PoolIs(q, o, r, f, g), NEW tx \in f
    PROVE  PoolIs(Append(q, tx), o, r, f \ {tx}, g)
<1>1. /\ IsRelay(r) /\ SingleRelay(r) /\ Injective(q) /\ Single(o)
      /\ Partition(f, g, ToSet(q), Contents(o), P!PoolTxs(r))
  BY DEF PoolIs
<1>2. tx \in Txs /\ tx \notin ToSet(q)
  BY <1>1 DEF Partition
<1>3. ToSet(Append(q, tx)) = ToSet(q) \cup {tx} /\ Injective(Append(q, tx))
  BY <1>1, <1>2, AppendSet
<1>4. Partition(f \ {tx}, g, ToSet(q) \cup {tx}, Contents(o), P!PoolTxs(r))
  BY <1>1 DEF Partition
<1> QED BY <1>1, <1>3, <1>4 DEF PoolIs

LEMMA PoolHead ==
    ASSUME NEW q \in Seq(Txs), NEW o \in Seq(Seq(Txs)), NEW r, NEW f, NEW g,
           PoolIs(q, o, r, f, g), NEW k \in DOMAIN o
    PROVE  PoolIs(o[k] \o q, RemoveAt(o, k), r, f, g)
<1>1. /\ IsRelay(r) /\ SingleRelay(r) /\ Injective(q) /\ Single(o)
      /\ Partition(f, g, ToSet(q), Contents(o), P!PoolTxs(r))
  BY DEF PoolIs
<1>2. /\ Injective(o[k]) /\ o[k] \in Seq(Txs) /\ ToSet(o[k]) \subseteq Contents(o)
      /\ Single(RemoveAt(o, k)) /\ Contents(RemoveAt(o, k)) = Contents(o) \ ToSet(o[k])
  <2>1. Injective(o[k]) /\ ToSet(o[k]) \subseteq Contents(o)
    BY <1>1 DEF Single, Contents
  <2>2. o[k] \in Seq(Txs)
    OBVIOUS
  <2>3. Single(RemoveAt(o, k)) /\ Contents(RemoveAt(o, k)) = Contents(o) \ ToSet(o[k])
    BY <1>1, FamilyRemove
  <2> QED BY <2>1, <2>2, <2>3
<1>3. ToSet(o[k]) \cap ToSet(q) = {}
  BY <1>1, <1>2 DEF Partition
<1>4. ToSet(o[k] \o q) = ToSet(o[k]) \cup ToSet(q) /\ Injective(o[k] \o q)
  BY <1>1, <1>2, <1>3, ConcatSet
<1>5. Partition(f, g, ToSet(o[k]) \cup ToSet(q), Contents(o) \ ToSet(o[k]), P!PoolTxs(r))
  BY <1>1, <1>2 DEF Partition
<1> QED BY <1>1, <1>2, <1>4, <1>5 DEF PoolIs

LEMMA PoolPack ==
    ASSUME NEW q \in Seq(Txs), NEW o \in Seq(Seq(Txs)), NEW r, NEW f, NEW g,
           PoolIs(q, o, r, f, g), NEW n \in Nat
    PROVE  PoolIs(Rest(q, n), Append(o, Packed(q, n)), r, f, g)
<1>1. /\ IsRelay(r) /\ SingleRelay(r) /\ Injective(q) /\ Single(o)
      /\ Partition(f, g, ToSet(q), Contents(o), P!PoolTxs(r))
  BY DEF PoolIs
<1>2. /\ Injective(Packed(q, n)) /\ Injective(Rest(q, n))
      /\ ToSet(q) = ToSet(Packed(q, n)) \cup ToSet(Rest(q, n))
      /\ ToSet(Packed(q, n)) \cap ToSet(Rest(q, n)) = {}
  BY <1>1, CutSet
<1>3. Packed(q, n) \in Seq(Txs) /\ ToSet(Packed(q, n)) \cap Contents(o) = {}
  BY <1>1, <1>2, CutIs DEF Partition
<1>4. /\ Single(Append(o, Packed(q, n)))
      /\ Contents(Append(o, Packed(q, n))) = Contents(o) \cup ToSet(Packed(q, n))
  BY <1>1, <1>2, <1>3, FamilyAppend
<1>5. Partition(f, g, ToSet(Rest(q, n)), Contents(o) \cup ToSet(Packed(q, n)), P!PoolTxs(r))
  BY <1>1, <1>2 DEF Partition
<1> QED BY <1>1, <1>2, <1>4, <1>5 DEF PoolIs

LEMMA PoolDone ==
    ASSUME NEW q, NEW o \in Seq(Seq(Txs)), NEW r, NEW f, NEW g,
           PoolIs(q, o, r, f, g), NEW k \in DOMAIN o
    PROVE  PoolIs(q, RemoveAt(o, k), r, f, g \cup ToSet(o[k]))
<1>1. /\ IsRelay(r) /\ SingleRelay(r) /\ Injective(q) /\ Single(o)
      /\ Partition(f, g, ToSet(q), Contents(o), P!PoolTxs(r))
  BY DEF PoolIs
<1>2. /\ ToSet(o[k]) \subseteq Contents(o)
      /\ Single(RemoveAt(o, k)) /\ Contents(RemoveAt(o, k)) = Contents(o) \ ToSet(o[k])
  BY <1>1, FamilyRemove DEF Contents
<1>3. Partition(f, g \cup ToSet(o[k]), ToSet(q), Contents(o) \ ToSet(o[k]), P!PoolTxs(r))
  BY <1>1, <1>2 DEF Partition
<1> QED BY <1>1, <1>2, <1>3 DEF PoolIs

\* A transaction for another shard is put into the pool, or lost in the panic.
LEMMA PoolRelay ==
    ASSUME NEW q, NEW o, NEW r, NEW f, NEW g, PoolIs(q, o, r, f, g), NEW tx \in f,
           NEW s \in Shards
    PROVE  /\ r # None => PoolIs(q, o, P!WithRelay(r, tx, s), f \ {tx}, g)
           /\ PoolIs(q, o, r, f \ {tx}, g \cup {tx})
<1>1. /\ IsRelay(r) /\ SingleRelay(r) /\ Injective(q) /\ Single(o)
      /\ Partition(f, g, ToSet(q), Contents(o), P!PoolTxs(r))
  BY DEF PoolIs
<1>2. ASSUME r # None PROVE PoolIs(q, o, P!WithRelay(r, tx, s), f \ {tx}, g)
  <2>1. P!PoolTxs(r) = Contents(r) /\ Single(r)
    BY <1>1, <1>2, RelayTxs DEF SingleRelay
  <2>2. tx \in Txs /\ tx \notin Contents(r)
    BY <1>1, <2>1 DEF Partition
  <2>3. PICK h : h = P!WithRelay(r, tx, s)
    OBVIOUS
  <2>4. h # None /\ IsRelay(h) /\ Single(h) /\ Contents(h) = Contents(r) \cup {tx}
    BY <1>1, <1>2, <2>1, <2>2, <2>3, RelayMore
  <2>5. P!PoolTxs(h) = P!PoolTxs(r) \cup {tx}
    BY <2>1, <2>4, RelayTxs
  <2>6. Partition(f \ {tx}, g, ToSet(q), Contents(o), P!PoolTxs(r) \cup {tx})
    BY <1>1 DEF Partition
  <2> QED BY <1>1, <2>3, <2>4, <2>5, <2>6 DEF PoolIs, SingleRelay
<1>3. Partition(f \ {tx}, g \cup {tx}, ToSet(q), Contents(o), P!PoolTxs(r))
  BY <1>1 DEF Partition
<1> QED BY <1>1, <1>2, <1>3 DEF PoolIs

LEMMA PoolClear ==
    ASSUME NEW q, NEW o, NEW r, NEW f, NEW g, PoolIs(q, o, r, f, g)
    PROVE  PoolIs(q, o, None, f, g \cup P!PoolTxs(r))
<1>1. /\ Injective(q) /\ Single(o)
      /\ Partition(f, g, ToSet(q), Contents(o), P!PoolTxs(r))
  BY DEF PoolIs
<1>2. P!PoolTxs(None) = {} /\ IsRelay(None) /\ SingleRelay(None)
  BY RelayTxs DEF IsRelay, SingleRelay
<1>3. Partition(f, g \cup P!PoolTxs(r), ToSet(q), Contents(o), {})
  BY <1>1 DEF Partition
<1> QED BY <1>1, <1>2, <1>3 DEF PoolIs

LEMMA PoolPackRelay ==
    ASSUME NEW q, NEW o, NEW r, NEW f, NEW g, PoolIs(q, o, r, f, g),
           NEW s \in P!PoolShards(r), NEW n \in Nat
    PROVE  PoolIs(q, o, [r EXCEPT ![s] = Rest(r[s], n)], f, g \cup ToSet(Packed(r[s], n)))
<1>1. /\ IsRelay(r) /\ SingleRelay(r) /\ Injective(q) /\ Single(o)
      /\ Partition(f, g, ToSet(q), Contents(o), P!PoolTxs(r))
  BY DEF PoolIs
<1>2. r # None /\ s \in DOMAIN r /\ Single(r) /\ P!PoolTxs(r) = Contents(r)
  BY <1>1, RelayTxs DEF SingleRelay
<1>3. PICK h, p : h = [r EXCEPT ![s] = Rest(r[s], n)] /\ p = ToSet(Packed(r[s], n))
  OBVIOUS
<1>4. /\ h # None /\ IsRelay(h) /\ Single(h) /\ Contents(h) = Contents(r) \ p
      /\ p \subseteq Contents(r)
  <2>1. /\ h # None /\ IsRelay(h) /\ Single(h)
        /\ Contents(h) = Contents(r) \ ToSet(Packed(r[s], n))
        /\ ToSet(Packed(r[s], n)) \subseteq Contents(r)
    <3>1. h = [r EXCEPT ![s] = Rest(r[s], n)] /\ r = [x \in DOMAIN r |-> r[x]]
      BY <1>1, <1>2, <1>3 DEF IsRelay
    <3>2. OneChanged(r, s, h) /\ h = [x \in DOMAIN h |-> h[x]] /\ h[s] = Rest(r[s], n)
      BY <1>2, <3>1 DEF OneChanged
    <3> QED BY <1>1, <1>2, <3>2, RelayCut
  <2> QED BY <1>3, <2>1
<1>5. P!PoolTxs(h) = P!PoolTxs(r) \ p
  BY <1>2, <1>4, RelayTxs
<1>6. Partition(f, g \cup p, ToSet(q), Contents(o), P!PoolTxs(r) \ p)
  BY <1>1, <1>2, <1>4 DEF Partition
<1> QED BY <1>1, <1>3, <1>4, <1>5, <1>6 DEF PoolIs, SingleRelay

LEMMA PoolTransfer ==
    ASSUME NEW q \in Seq(Txs), NEW o, NEW r, NEW f, NEW g, PoolIs(q, o, r, f, g), NEW addr,
           NEW left, left = g \cup ToSet(P!From(addr, q))
                              \cup {tx \in P!PoolTxs(r) : Sender[tx] = addr}
    PROVE  PoolIs(P!NotFrom(addr, q), o, P!RelayNotFrom(addr, r), f, left)
<1>1. /\ IsRelay(r) /\ SingleRelay(r) /\ Injective(q) /\ Single(o)
      /\ Partition(f, g, ToSet(q), Contents(o), P!PoolTxs(r))
  BY DEF PoolIs
<1>2. PICK A : A = P!Of(addr)
  OBVIOUS
<1>3. /\ P!From(addr, q) = Selected(q, A) /\ P!NotFrom(addr, q) = Selected(q, Txs \ A)
      /\ \A tx \in Txs : tx \in A <=> Sender[tx] = addr
  BY <1>2 DEF P!From, P!NotFrom, P!Selected, Selected, P!Of
<1>4. PICK h : h = P!RelayNotFrom(addr, r)
  OBVIOUS
<1>5. h # None /\ IsRelay(h) /\ Single(h) /\ Contents(h) = P!PoolTxs(r) \ A
  BY <1>1, <1>2, <1>4, RelayKept
<1>6. P!PoolTxs(h) = P!PoolTxs(r) \ A
  BY <1>5, RelayTxs
<1>7. PICK q1 : q1 = Selected(q, Txs \ A)
  OBVIOUS
<1>8. Injective(q1) /\ ToSet(q1) = ToSet(q) \cap (Txs \ A)
      /\ ToSet(Selected(q, A)) = ToSet(q) \cap A
  BY <1>1, <1>7, SelectedSet
<1>9. ToSet(q) \subseteq Txs /\ P!PoolTxs(r) \subseteq Txs
  BY <1>1 DEF Partition
<1>10. left = g \cup (ToSet(q) \cap A) \cup (P!PoolTxs(r) \cap A)
  <2>1. {tx \in P!PoolTxs(r) : Sender[tx] = addr} = P!PoolTxs(r) \cap A
    BY <1>3, <1>9
  <2> QED BY <1>3, <1>8, <2>1
<1>11. ToSet(q1) = ToSet(q) \ A
  BY <1>8, <1>9
<1>12. Partition(f, left, ToSet(q) \ A, Contents(o), P!PoolTxs(r) \ A)
  BY <1>1, <1>10 DEF Partition
<1> QED BY <1>1, <1>3, <1>4, <1>5, <1>6, <1>7, <1>8, <1>11, <1>12 DEF PoolIs, SingleRelay

-----------------------------------------------------------------------------
(* The order of the queue. *)

\* Those of q that are in p are there in the same order.
Ordered(q, p) ==
    \A i, k \in DOMAIN q, m, n \in DOMAIN p :
        i < k /\ p[m] = q[i] /\ p[n] = q[k] => m < n

LEMMA OrderedSame ==
    ASSUME NEW q, Injective(q)
    PROVE  Ordered(q, q)
BY DEF Ordered, Injective

LEMMA OrderedConcat ==
    ASSUME NEW S, NEW p \in Seq(S), NEW q \in Seq(S), Injective(p \o q)
    PROVE  Ordered(q, p \o q)
<1>1. PICK r, n, l : r = p \o q /\ n = Len(p) /\ l = Len(q)
  OBVIOUS
<1>2. /\ n \in Nat /\ l \in Nat /\ DOMAIN q = 1 .. l
      /\ r \in Seq(S) /\ Len(r) = n + l
      /\ \A i \in 1 .. n + l : r[i] = IF i <= n THEN p[i] ELSE q[i - n]
  BY <1>1, ConcatProperties
<1>3. DOMAIN r = 1 .. n + l
  BY <1>2, SeqIsFunction
<1>4. \A i \in 1 .. l : n + i \in 1 .. n + l /\ r[n + i] = q[i]
  <2>1. \A i \in 1 .. l : n + i \in 1 .. n + l /\ ~(n + i <= n) /\ (n + i) - n = i
    BY <1>2
  <2> QED BY <1>2, <2>1
<1>5. Injective(r)
  BY <1>1
<1>6. \A i \in 1 .. l, m \in 1 .. n + l : r[m] = q[i] => m = n + i
  BY <1>3, <1>4, <1>5 DEF Injective
<1>7. \A i, k \in 1 .. l : i < k => n + i < n + k
  BY <1>2
<1>8. Ordered(q, r)
  BY <1>2, <1>3, <1>6, <1>7 DEF Ordered
<1> QED BY <1>1, <1>8

LEMMA OrderedAppend ==
    ASSUME NEW S, NEW q \in Seq(S), NEW x \in S, Injective(Append(q, x))
    PROVE  Ordered(q, Append(q, x))
<1>1. PICK r, l : r = Append(q, x) /\ l = Len(q)
  OBVIOUS
<1>2. /\ l \in Nat /\ DOMAIN q = 1 .. l /\ r \in Seq(S) /\ Len(r) = l + 1
      /\ \A i \in 1 .. l : r[i] = q[i]
  BY <1>1, AppendProperties
<1>3. DOMAIN r = 1 .. l + 1 /\ \A i \in 1 .. l : i \in 1 .. l + 1
  BY <1>2, SeqIsFunction
<1>4. Injective(r)
  BY <1>1
<1>5. \A i \in 1 .. l, m \in 1 .. l + 1 : r[m] = q[i] => m = i
  BY <1>2, <1>3, <1>4 DEF Injective
<1>6. Ordered(q, r)
  BY <1>2, <1>3, <1>5 DEF Ordered
<1> QED BY <1>1, <1>6

\* A list that takes the elements of q at increasing positions.
LEMMA OrderedChosen ==
    ASSUME NEW q, Injective(q), NEW n \in Nat, NEW r, DOMAIN r = 1 .. n,
           NEW p \in [1 .. n -> DOMAIN q], \A j \in 1 .. n : p[j] \in Int /\ r[j] = q[p[j]],
           \A j, k \in 1 .. n : j < k => p[j] < p[k]
    PROVE  Ordered(q, r)
<1>1. ASSUME NEW i \in DOMAIN q, NEW k \in DOMAIN q, NEW m \in 1 .. n, NEW l \in 1 .. n,
             i < k, r[m] = q[i], r[l] = q[k]
      PROVE  m < l
  <2>1. p[m] = i /\ p[l] = k
    BY <1>1 DEF Injective
  <2>2. p[m] < p[l] /\ p[m] \in Int /\ p[l] \in Int
    BY <1>1, <2>1
  <2>3. ~(l < m) /\ ~(l = m)
    <3>1. l < m => p[l] < p[m]
      OBVIOUS
    <3> QED BY <2>2, <3>1
  <2> QED BY <2>3
<1> QED BY <1>1 DEF Ordered

LEMMA OrderedRest ==
    ASSUME NEW q \in Seq(Txs), NEW n \in Nat, Injective(q)
    PROVE  Ordered(q, Rest(q, n))
<1>1. PICK r, m, l : r = Rest(q, n) /\ m = Len(Packed(q, n)) /\ l = Len(q) - m
  OBVIOUS
<1>2. /\ m \in 0 .. Len(q) /\ Len(q) \in Nat /\ r \in Seq(Txs) /\ Len(r) = l
      /\ \A i \in 1 .. Len(r) : r[i] = q[m + i]
  BY <1>1, CutIs
<1>3. l \in Nat /\ DOMAIN r = 1 .. l /\ DOMAIN q = 1 .. Len(q)
      /\ \A i \in 1 .. l : r[i] = q[m + i]
  BY <1>1, <1>2, SeqIsFunction
<1>4. PICK p : p = [j \in 1 .. l |-> m + j]
  OBVIOUS
<1>5. \A j \in 1 .. l : m + j \in 1 .. Len(q)
  BY <1>1, <1>2
<1>6. p \in [1 .. l -> DOMAIN q] /\ \A j \in 1 .. l : p[j] = m + j
  BY <1>3, <1>4, <1>5
<1>7. \A j \in 1 .. l : p[j] \in Int /\ r[j] = q[p[j]]
  BY <1>2, <1>3, <1>6
<1>8. \A j, k \in 1 .. l : j < k => p[j] < p[k]
  BY <1>2, <1>6
<1>9. Ordered(q, r)
  BY <1>3, <1>6, <1>7, <1>8, OrderedChosen
<1> QED BY <1>1, <1>9

LEMMA OrderedSelected ==
    ASSUME NEW q \in Seq(Txs), NEW S, Injective(q)
    PROVE  Ordered(q, Selected(q, S))
<1>1. PICK r : r = Selected(q, S)
  OBVIOUS
<1>2. PICK p : Selects(r, q, S, Len(q), p)
  BY <1>1, SelectedIs
<1>3. /\ r \in Seq(Txs) /\ p \in [1 .. Len(r) -> 1 .. Len(q)]
      /\ \A j \in 1 .. Len(r) : r[j] = q[p[j]]
      /\ \A j, k \in 1 .. Len(r) : j < k => p[j] < p[k]
  BY <1>2 DEF Selects
<1>4. Len(r) \in Nat /\ DOMAIN r = 1 .. Len(r) /\ DOMAIN q = 1 .. Len(q)
  <2>1. r \in Seq(Txs)
    BY <1>3
  <2> QED BY <2>1
<1>5. \A j \in 1 .. Len(r) : p[j] \in Int
  <2>1. \A j \in 1 .. Len(r) : p[j] \in 1 .. Len(q)
    BY <1>3
  <2> QED BY <2>1
<1>6. p \in [1 .. Len(r) -> DOMAIN q]
  BY <1>3, <1>4
<1>7. PICK n \in Nat : n = Len(r)
  BY <1>4
<1>8. /\ DOMAIN r = 1 .. n /\ p \in [1 .. n -> DOMAIN q]
      /\ \A j \in 1 .. n : p[j] \in Int /\ r[j] = q[p[j]]
      /\ \A j, k \in 1 .. n : j < k => p[j] < p[k]
  BY <1>3, <1>4, <1>5, <1>6, <1>7
<1>9. Ordered(q, r)
  BY <1>8, OrderedChosen
<1> QED BY <1>1, <1>9

-----------------------------------------------------------------------------
(* The inductive invariant of the pool on values, and what follows. *)

PoolInv ==
    /\ PoolIs(Read(queue), Shown, RelayPool, fresh, gone)
    /\ lock \in Clients \cup {None} /\ panicked \in BOOLEAN

LEMMA PoolStep ==
    ASSUME SliceInv, PoolInv, [P!Next]_(P!vars)
    PROVE  PoolInv' /\ Ordered(Read(queue), Read(queue)')
<1>1. PICK q, o, r, f, g : /\ q = Read(queue) /\ o = Shown /\ r = RelayPool
                           /\ f = fresh /\ g = gone
  OBVIOUS
<1>2. /\ q \in Seq(Txs) /\ o \in Seq(Seq(Txs)) /\ PoolIs(q, o, r, f, g) /\ Injective(q)
  BY <1>1, Outstanding, ReadIs, ShownType DEF Read, PoolInv, PoolIs
<1>3. f \subseteq Txs
  BY <1>2 DEF PoolIs, Partition
<1>4. lock \in Clients \cup {None} /\ panicked \in BOOLEAN
  BY DEF PoolInv
<1>5. Ordered(q, q)
  BY <1>2, OrderedSame
<1>6. ASSUME NEW tx \in Txs, P!AddTx2Pool(tx)
      PROVE  PoolInv' /\ Ordered(Read(queue), Read(queue)')
  <2>1. /\ Read(queue)' = Append(q, tx) /\ Shown' = o /\ RelayPool' = r
        /\ fresh' = f \ {tx} /\ gone' = g /\ lock' = lock /\ panicked' = panicked /\ tx \in f
    BY <1>1, <1>6 DEF P!AddTx2Pool, Shown, Read
  <2>2. PoolIs(Append(q, tx), o, r, f \ {tx}, g)
    BY <1>2, <2>1, PoolAdd
  <2>3. Ordered(q, Append(q, tx))
    <3>1. Injective(Append(q, tx))
      BY <2>2 DEF PoolIs
    <3> QED BY <1>2, <3>1, OrderedAppend
  <2> QED BY <1>1, <1>4, <2>1, <2>2, <2>3 DEF PoolInv
<1>7. ASSUME NEW k \in P!Returnable, P!AddTxs2Pool_Head(k)
      PROVE  PoolInv' /\ Ordered(Read(queue), Read(queue)')
  <2>1. /\ Read(queue)' = o[k] \o q /\ Shown' = RemoveAt(o, k) /\ RelayPool' = r
        /\ fresh' = f /\ gone' = g /\ lock' = lock /\ panicked' = panicked
    BY <1>1, <1>7 DEF P!AddTxs2Pool_Head, P!RemoveAt, RemoveAt, Shown, Read
  <2>2. k \in DOMAIN o
    BY <1>1 DEF P!Returnable, Shown, Read
  <2>3. PoolIs(o[k] \o q, RemoveAt(o, k), r, f, g)
    BY <1>2, <2>2, PoolHead
  <2>4. Ordered(q, o[k] \o q)
    <3>1. Injective(o[k] \o q)
      BY <2>3 DEF PoolIs
    <3>2. o[k] \in Seq(Txs)
      BY <1>2, <2>2
    <3> QED BY <1>2, <3>1, <3>2, OrderedConcat
  <2> QED BY <1>1, <1>4, <2>1, <2>3, <2>4 DEF PoolInv
<1>8. ASSUME P!PackTxs
      PROVE  PoolInv' /\ Ordered(Read(queue), Read(queue)')
  <2>1. /\ Read(queue)' = Rest(q, BlockSize) /\ Shown' = Append(o, Packed(q, BlockSize))
        /\ RelayPool' = r
        /\ fresh' = f /\ gone' = g /\ lock' = lock /\ panicked' = panicked
    BY <1>1, <1>8 DEF P!PackTxs, P!Packed, P!Rest, Packed, Rest, Shown, Read
  <2>2. PoolIs(Rest(q, BlockSize), Append(o, Packed(q, BlockSize)), r, f, g)
    BY <1>2, PoolPack, SizeAssumption
  <2>3. Ordered(q, Rest(q, BlockSize))
    BY <1>2, OrderedRest, SizeAssumption
  <2> QED BY <1>1, <1>4, <2>1, <2>2, <2>3 DEF PoolInv
<1>9. ASSUME NEW k \in DOMAIN Shown, P!Done(k)
      PROVE  PoolInv' /\ Ordered(Read(queue), Read(queue)')
  <2>1. /\ Read(queue)' = q /\ Shown' = RemoveAt(o, k) /\ RelayPool' = r
        /\ fresh' = f /\ gone' = g \cup ToSet(o[k]) /\ lock' = lock /\ panicked' = panicked
    BY <1>1, <1>9 DEF P!Done, P!RemoveAt, RemoveAt, P!ToSet, ToSet, Shown, Read
  <2>2. PoolIs(q, RemoveAt(o, k), r, f, g \cup ToSet(o[k]))
    BY <1>1, <1>2, <1>9, PoolDone
  <2> QED BY <1>1, <1>4, <1>5, <2>1, <2>2 DEF PoolInv
<1>10. ASSUME NEW tx \in Txs, NEW s \in Shards, P!AddRelayTx(tx, s)
       PROVE  PoolInv' /\ Ordered(Read(queue), Read(queue)')
  <2>1. /\ Read(queue)' = q /\ Shown' = o /\ fresh' = f \ {tx} /\ lock' = lock /\ tx \in f
        /\ \/ /\ RelayPool' = r /\ gone' = g \cup {tx} /\ panicked' = TRUE
           \/ /\ r # None /\ RelayPool' = P!WithRelay(r, tx, s) /\ gone' = g
              /\ panicked' = panicked
    BY <1>1, <1>10 DEF P!AddRelayTx, Shown, Read
  <2>2. /\ r # None => PoolIs(q, o, P!WithRelay(r, tx, s), f \ {tx}, g)
        /\ PoolIs(q, o, r, f \ {tx}, g \cup {tx})
    BY <1>2, <2>1, PoolRelay
  <2> QED BY <1>1, <1>4, <1>5, <2>1, <2>2 DEF PoolInv
<1>11. ASSUME P!ClearRelayPool
       PROVE  PoolInv' /\ Ordered(Read(queue), Read(queue)')
  <2>1. /\ Read(queue)' = q /\ Shown' = o /\ RelayPool' = None
        /\ fresh' = f /\ gone' = g \cup P!PoolTxs(r) /\ lock' = lock /\ panicked' = panicked
    BY <1>1, <1>11 DEF P!ClearRelayPool, Shown, Read
  <2>2. PoolIs(q, o, None, f, g \cup P!PoolTxs(r))
    BY <1>2, PoolClear
  <2> QED BY <1>1, <1>4, <1>5, <2>1, <2>2 DEF PoolInv
<1>12. ASSUME NEW s \in Shards, P!PackRelayTxs(s)
       PROVE  PoolInv' /\ Ordered(Read(queue), Read(queue)')
  <2>1. /\ Read(queue)' = q /\ Shown' = o /\ s \in P!PoolShards(r)
        /\ RelayPool' = [r EXCEPT ![s] = Rest(r[s], MaxRelaySize)]
        /\ fresh' = f /\ gone' = g \cup ToSet(Packed(r[s], MaxRelaySize))
        /\ lock' = lock /\ panicked' = panicked
    BY <1>1, <1>12
       DEF P!PackRelayTxs, P!Packed, P!Rest, Packed, Rest, P!ToSet, ToSet, Shown, Read
  <2>2. PoolIs(q, o, [r EXCEPT ![s] = Rest(r[s], MaxRelaySize)], f,
               g \cup ToSet(Packed(r[s], MaxRelaySize)))
    BY <1>2, <2>1, PoolPackRelay, SizeAssumption
  <2> QED BY <1>1, <1>4, <1>5, <2>1, <2>2 DEF PoolInv
<1>13. ASSUME NEW addr, P!TransferTxs(addr)
       PROVE  PoolInv' /\ Ordered(Read(queue), Read(queue)')
  <2>1. PICK left : left = g \cup ToSet(P!From(addr, q))
                             \cup {tx \in P!PoolTxs(r) : Sender[tx] = addr}
    OBVIOUS
  <2>2. /\ Read(queue)' = P!NotFrom(addr, q) /\ Shown' = o
        /\ RelayPool' = P!RelayNotFrom(addr, r)
        /\ fresh' = f /\ gone' = left /\ lock' = lock /\ panicked' = panicked
    BY <1>1, <1>13, <2>1 DEF P!TransferTxs, P!ToSet, ToSet, Shown, Read
  <2>3. PoolIs(P!NotFrom(addr, q), o, P!RelayNotFrom(addr, r), f, left)
    BY <1>2, <2>1, PoolTransfer
  <2>4. Ordered(q, P!NotFrom(addr, q))
    <3>1. P!NotFrom(addr, q) = Selected(q, Txs \ P!Of(addr))
      BY DEF P!NotFrom, P!Selected, Selected
    <3> QED BY <1>2, <3>1, OrderedSelected
  <2> QED BY <1>1, <1>4, <2>2, <2>3, <2>4 DEF PoolInv
<1>14. ASSUME NEW c \in Clients, P!GetLocked(c) \/ P!GetUnlocked(c)
       PROVE  PoolInv' /\ Ordered(Read(queue), Read(queue)')
  <2>1. /\ Read(queue)' = q /\ Shown' = o /\ RelayPool' = r
        /\ fresh' = f /\ gone' = g /\ lock' \in {c, None} /\ panicked' = panicked
    BY <1>1, <1>14 DEF P!GetLocked, P!GetUnlocked, Shown, Read
  <2> QED BY <1>1, <1>2, <1>4, <1>5, <2>1 DEF PoolInv
<1>15. ASSUME UNCHANGED P!vars
       PROVE  PoolInv' /\ Ordered(Read(queue), Read(queue)')
  <2>1. /\ Read(queue)' = q /\ Shown' = o /\ RelayPool' = r
        /\ fresh' = f /\ gone' = g /\ lock' = lock /\ panicked' = panicked
    BY <1>1, <1>15 DEF P!vars, Shown, Read
  <2> QED BY <1>1, <1>2, <1>4, <1>5, <2>1 DEF PoolInv
<1>16. DOMAIN [k \in DOMAIN batches |-> Read(batches[k])] = DOMAIN Shown
  BY DEF Shown
<1> QED BY <1>6, <1>7, <1>8, <1>9, <1>10, <1>11, <1>12, <1>13, <1>14, <1>15, <1>16 DEF P!Next

LEMMA PoolInit ==
    ASSUME Init
    PROVE  PoolInv
<1>1. SliceInv /\ P!Init
  BY InitIsInit
<1>2. /\ Read(queue) = << >> /\ Shown = << >> /\ RelayPool = [s \in {} |-> << >>]
      /\ lock = None /\ fresh = Txs /\ gone = {} /\ panicked = FALSE
  BY <1>1 DEF P!Init, Shown, Read
<1>3. PICK r : r = [s \in {} |-> << >>]
  OBVIOUS
<1>4. r \in [{} -> Seq(Txs)] /\ {} \in SUBSET Shards /\ DOMAIN r = {}
  BY <1>3
<1>5. r # None /\ IsRelay(r)
  BY <1>4, MapIsRelay
<1>6. Single(r) /\ P!PoolTxs(r) = {}
  BY <1>4, <1>5, RelayTxs DEF Single, Contents
<1>7. Injective(<< >>) /\ Single(<< >>) /\ ToSet(<< >>) = {} /\ Contents(<< >>) = {}
  BY DEF Injective, Single, ToSet, Contents
<1>8. Partition(Txs, {}, {}, {}, {})
  BY DEF Partition
<1>9. PoolIs(<< >>, << >>, r, Txs, {})
  BY <1>5, <1>6, <1>7, <1>8 DEF PoolIs, SingleRelay
<1> QED BY <1>2, <1>3, <1>9 DEF PoolInv

LEMMA PoolAlways ==
    ASSUME NewestOnly
    PROVE  Spec => [](SliceInv /\ PoolInv)
<1>1. Init => SliceInv /\ PoolInv
  BY InitIsInit, PoolInit
<1>2. SliceInv /\ PoolInv /\ [Next]_vars => SliceInv' /\ PoolInv'
  BY StepIsStep, PoolStep
<1> QED BY <1>1, <1>2, PTL DEF Spec

\* The state has its type, and every slice lies within its array.
THEOREM PoolTypeCorrect ==
    ASSUME NewestOnly
    PROVE  Spec => []TypeOK
<1>1. SliceInv /\ PoolInv => TypeOK
  <2> SUFFICES ASSUME SliceInv, PoolInv PROVE TypeOK
    OBVIOUS
  <2>1. \A s \in ToSet(batches) \cup {queue} :
            s.array \in DOMAIN heap /\ s.off + s.len <= Len(heap[s.array])
    BY DEF SliceInv, Fits, End
  <2>2. \A a \in DOMAIN heap : heap[a] \in Seq(Txs \cup {None})
    <3> SUFFICES ASSUME NEW a \in DOMAIN heap PROVE heap[a] \in Seq(Txs \cup {None})
      OBVIOUS
    <3>1. PICK s \in ToSet(batches) \cup {queue} : a = s.array
      BY DEF SliceInv
    <3> QED BY <3>1 DEF SliceInv, Fits, Cells
  <2>3. Read(queue) \in Seq(Txs)
    BY Outstanding, ReadIs DEF Read
  <2>4. Shown \in Seq(Seq(Txs)) /\ Len(Shown) <= MaxOut
    BY ShownType DEF SliceInv
  <2>5. /\ P!PoolShards(RelayPool) \subseteq Shards
        /\ \A s \in P!PoolShards(RelayPool) : RelayPool[s] \in Seq(Txs)
    BY RelayTxs DEF PoolInv, PoolIs, IsRelay
  <2>6. /\ fresh \subseteq Txs /\ gone \subseteq Txs
        /\ lock \in Clients \cup {None} /\ panicked \in BOOLEAN
    BY DEF PoolInv, PoolIs, Partition
  <2>7. P!TypeOK
    BY <2>3, <2>4, <2>5, <2>6 DEF P!TypeOK, Shown
  <2> QED BY <2>1, <2>2, <2>7 DEF TypeOK
<1> QED BY <1>1, PoolAlways, PTL

\* The transactions that stay in the queue keep their order, whatever is packed,
\* put back or transferred.
THEOREM QueueKeepsOrder ==
    ASSUME NewestOnly
    PROVE  Spec => OrderKept
<1>1. ASSUME SliceInv, PoolInv, [Next]_vars
      PROVE  \A i, k \in DOMAIN Read(queue), m, n \in DOMAIN Read(queue)' :
                 i < k /\ Read(queue)'[m] = Read(queue)[i] /\ Read(queue)'[n] = Read(queue)[k]
                     => m < n
  <2>1. Ordered(Read(queue), Read(queue)')
    BY <1>1, StepIsStep, PoolStep
  <2> QED BY <2>1 DEF Ordered
<1> QED BY <1>1, PoolAlways, PTL DEF Spec, OrderKept, P!OrderKept

-----------------------------------------------------------------------------
(* Counting the places. *)

LEMMA SameCardinality ==
    ASSUME NEW S
    PROVE  P!Cardinality(S) = Cardinality(S)
BY DEF P!Cardinality, Cardinality

LEMMA TimesIs ==
    ASSUME NEW q, Injective(q), NEW tx
    PROVE  P!Times(tx, q) = IF tx \in ToSet(q) THEN 1 ELSE 0
<1>1. PICK S : S = {i \in DOMAIN q : q[i] = tx}
  OBVIOUS
<1>2. P!Times(tx, q) = Cardinality(S)
  BY <1>1, SameCardinality DEF P!Times
<1>3. CASE tx \in ToSet(q)
  <2>1. PICK i \in DOMAIN q : q[i] = tx
    BY <1>3 DEF ToSet
  <2>2. S = {i}
    BY <1>1, <2>1 DEF Injective
  <2>3. Cardinality({i}) = 1
    BY FS_Singleton
  <2> QED BY <1>2, <1>3, <2>2, <2>3
<1>4. CASE tx \notin ToSet(q)
  <2>1. S = {}
    BY <1>1, <1>4 DEF ToSet
  <2> QED BY <1>2, <1>4, <2>1, FS_EmptySet
<1> QED BY <1>3, <1>4

LEMMA SpotsAre ==
    ASSUME NEW lists, Single(lists), NEW tx
    PROVE  Cardinality(P!Spots(tx, lists)) = IF tx \in Contents(lists) THEN 1 ELSE 0
<1>1. PICK S : S = P!Spots(tx, lists)
  OBVIOUS
<1>2. \A p : p \in S <=> \E s \in DOMAIN lists : \E i \in DOMAIN lists[s] :
                             lists[s][i] = tx /\ p = <<s, i>>
  BY <1>1 DEF P!Spots
<1>3. CASE tx \in Contents(lists)
  <2>1. PICK s \in DOMAIN lists : tx \in ToSet(lists[s])
    BY <1>3 DEF Contents
  <2>2. PICK i \in DOMAIN lists[s] : lists[s][i] = tx
    BY <2>1 DEF ToSet
  <2>3. ASSUME NEW k \in DOMAIN lists, NEW m \in DOMAIN lists[k], lists[k][m] = tx
        PROVE  k = s /\ m = i
    <3>1. tx \in ToSet(lists[k])
      BY <2>3 DEF ToSet
    <3>2. k = s
      BY <2>1, <3>1 DEF Single
    <3>3. m = i
      BY <2>2, <2>3, <3>2 DEF Single, Injective
    <3> QED BY <3>2, <3>3
  <2>4. S = {<<s, i>>}
    BY <1>2, <2>2, <2>3
  <2>5. Cardinality({<<s, i>>}) = 1
    BY FS_Singleton
  <2> QED BY <1>1, <1>3, <2>4, <2>5
<1>4. CASE tx \notin Contents(lists)
  <2>1. S = {}
    BY <1>2, <1>4 DEF Contents, ToSet
  <2> QED BY <1>1, <1>4, <2>1, FS_EmptySet
<1> QED BY <1>3, <1>4

\* Packing, putting back, relaying, transferring and clearing lose no transaction
\* and duplicate none, the cells that the outstanding batches show included.
THEOREM TransactionsConserved ==
    ASSUME NewestOnly
    PROVE  Spec => []Conserved
<1>1. SliceInv /\ PoolInv => Conserved
  <2> SUFFICES ASSUME PoolInv, NEW tx \in Txs PROVE P!Places(tx) = 1
    BY DEF Conserved, P!Conserved
  <2>1. PICK q, o, r : q = Read(queue) /\ o = Shown /\ r = RelayPool
    OBVIOUS
  <2>2. /\ SingleRelay(r) /\ Injective(q) /\ Single(o)
        /\ Partition(fresh, gone, ToSet(q), Contents(o), P!PoolTxs(r))
    BY <2>1 DEF PoolInv, PoolIs
  <2>3. P!Times(tx, q) = IF tx \in ToSet(q) THEN 1 ELSE 0
    BY <2>2, TimesIs
  <2>4. Cardinality(P!Spots(tx, o)) = IF tx \in Contents(o) THEN 1 ELSE 0
    BY <2>2, SpotsAre
  <2>5. PICK n : n = IF r = None THEN 0 ELSE Cardinality(P!Spots(tx, r))
    OBVIOUS
  <2>6. n = IF tx \in P!PoolTxs(r) THEN 1 ELSE 0
    <3>1. CASE r = None
      BY <2>5, <3>1, RelayTxs
    <3>2. CASE r # None
      <4>1. Single(r) /\ P!PoolTxs(r) = Contents(r)
        BY <2>2, <3>2, RelayTxs DEF SingleRelay
      <4> QED BY <2>5, <3>2, <4>1, SpotsAre
    <3> QED BY <3>1, <3>2
  <2>7. P!Places(tx) = P!In(tx \in fresh) + P!In(tx \in gone) + P!Times(tx, q)
                         + Cardinality(P!Spots(tx, o)) + n
    BY <2>1, <2>5, SameCardinality DEF P!Places, Shown
  <2>8. /\ P!In(tx \in fresh) = IF tx \in fresh THEN 1 ELSE 0
        /\ P!In(tx \in gone) = IF tx \in gone THEN 1 ELSE 0
    BY DEF P!In
  <2>9. \/ /\ tx \in fresh /\ tx \notin gone /\ tx \notin ToSet(q)
           /\ tx \notin Contents(o) /\ tx \notin P!PoolTxs(r)
        \/ /\ tx \notin fresh /\ tx \in gone /\ tx \notin ToSet(q)
           /\ tx \notin Contents(o) /\ tx \notin P!PoolTxs(r)
        \/ /\ tx \notin fresh /\ tx \notin gone /\ tx \in ToSet(q)
           /\ tx \notin Contents(o) /\ tx \notin P!PoolTxs(r)
        \/ /\ tx \notin fresh /\ tx \notin gone /\ tx \notin ToSet(q)
           /\ tx \in Contents(o) /\ tx \notin P!PoolTxs(r)
        \/ /\ tx \notin fresh /\ tx \notin gone /\ tx \notin ToSet(q)
           /\ tx \notin Contents(o) /\ tx \in P!PoolTxs(r)
    BY <2>2 DEF Partition
  <2> QED BY <2>3, <2>4, <2>6, <2>7, <2>8, <2>9
<1> QED BY <1>1, PoolAlways, PTL
=============================================================================
