----------------------------- MODULE TxQueueOps -----------------------------
(* The cut that PackTxs makes in the queue and PackRelayTxs in a relay list *)
(* (core/txpool.go), a prefix of at most n transactions and the rest, and   *)
(* the loop of TransferTxs over a list.                                     *)
EXTENDS Integers, Sequences

\* Mutant of Packed: one transaction too few.
PackedShort(queue, n) == SubSeq(queue, 1, IF Len(queue) < n THEN Len(queue) ELSE n - 1)

Packed(queue, n) == SubSeq(queue, 1, IF Len(queue) < n THEN Len(queue) ELSE n)

\* Mutant of Rest: packed transactions stay in the queue.
RestKept(queue, n) == queue

Rest(queue, n) == SubSeq(queue, Len(Packed(queue, n)) + 1, Len(queue))

\* What a loop over a list appends to a new one: the members that are in S.
Selected(list, S) ==
    LET kept[n \in 0 .. Len(list)] ==
            IF n = 0 THEN << >>
            ELSE IF list[n] \in S THEN Append(kept[n - 1], list[n])
            ELSE kept[n - 1]
    IN  kept[Len(list)]
=============================================================================
