--------------------------- MODULE BlockExecution ---------------------------
(***************************************************************************)
(* What the loop of GetUpdateStatusTrie computes when nobody changes the   *)
(* map that it starts with, as a function of the state and the             *)
(* transactions; and BlockChain with a history variable that remembers     *)
(* whether somebody did.                                                   *)
(***************************************************************************)
EXTENDS BlockChainInv

ASSUME AccountsAssumption == IsFiniteSet(Accounts)
\* params/static_config.go: a virtual account starts with nothing.
ASSUME VirtualInitAssumption == VirtualInit_Balance = 0

-----------------------------------------------------------------------------

PlacedHere(a) == Get_PartitionMap(MapInfo, a) = ShardID

Debited(tx) == ~tx.Relayed /\ PlacedHere(tx.Sender)

Refused(st, i, tx) == Debited(tx) /\ SenderState(st, i, tx).Balance < tx.Value

AfterSender(st, i, tx) == IF Debited(tx) THEN DebitSender(st, i, tx) ELSE st

CreditedHere(tx) == PlacedHere(tx.Recipient) \/ tx.HasBroker

AfterRecipient(st, i, tx) ==
    IF CreditedHere(tx) THEN CreditRecipient(st, i, tx) ELSE CreditVirtual(st, i, tx)

\* The state after transaction number i.
Executed(st, i, tx) ==
    IF Refused(st, i, tx) THEN st ELSE AfterRecipient(AfterSender(st, i, tx), i, tx)

\* The states after each of the transactions, number 0 being the one before them.
States(root, txs) ==
    LET state[n \in 0 .. Len(txs)] ==
            IF n = 0 THEN root ELSE Executed(state[n - 1], n - 1, txs[n])
    IN  state

Result(root, txs) == States(root, txs)[Len(txs)]

\* What flows into this shard with a transaction, and with the first n of a list.
InflowOf(tx) == IF Debited(tx) THEN 0 ELSE tx.Value

InflowTo(txs, n) == SumFunctionOnSet([i \in DOMAIN txs |-> InflowOf(txs[i])], 1 .. n)

-----------------------------------------------------------------------------

VARIABLE moved  \* the map was changed after GetUpdateStatusTrie had replaced it

Looping == pc \in {"debit", "credit", "recheck"}

MovedInit == Init /\ moved = FALSE

MovedNext ==
    /\ Next
    /\ moved' = (moved \/ (Looping /\ PartitionMap' # PartitionMap))

MovedSpec == MovedInit /\ [][MovedNext]_<<vars, moved>>

\* Unless the map is changed in the middle of an execution, money is neither made
\* nor lost: an assignment between two calls, of any account, is replaced by the
\* built-in table before it can matter, on the side of the debit or of the credit.
SupplyPreservedBetween == ~moved => SupplyPreserved

\* And two nodes with different assignments reach the same state for a block.
ReplayAgreesBetween == ~moved => ReplayAgrees

-----------------------------------------------------------------------------
(* The inductive invariant behind them, relative to IInv and OriginInv.    *)

\* The loop has come to one of the states of its block, or is half way to the next.
LoopOK ==
    LET i == job.i
        states == States(StateRoot, job.blk.Body)
    IN  /\ Looping => PartitionMap = MapInfo
        /\ pc \in {"debit", "return"} => job.st = states[i]
        /\ pc = "return" => i = Len(job.blk.Body)
        /\ pc \in {"credit", "recheck"} => /\ ~Refused(states[i], i, CurrentTx)
                                           /\ job.st = AfterSender(states[i], i, CurrentTx)
        /\ pc = "recheck" => ~CreditedHere(CurrentTx)

\* Every block of GenerateBlock announces the result of its transactions on the
\* state of its parent.
ResultsOK ==
    \A b \in offered : b.Header.StateRoot = Result(Parent(b).Header.StateRoot, b.Body)

ExecutionInv == ~moved => LoopOK /\ ResultsOK

-----------------------------------------------------------------------------
(* The inductive invariant behind SupplyNeverGrows, when accounts are only *)
(* ever moved to this shard.                                               *)

MovesHere == \A u \in Updates : u[2] = ShardID

\* An account that the built-in table has here is here while a block is executed.
StillHere == Looping => \A a \in Accounts : PlacedHere(a) => AtShard(a)

\* The transactions done so far made no money; between the debit and the credit of
\* one its value may still be credited.
LoopSupply ==
    LET bound(n) == Supply(StateRoot) + InflowTo(job.blk.Body, n)
    IN  /\ pc \in {"debit", "return"} => Supply(job.st) <= bound(job.i)
        /\ pc \in {"credit", "recheck"} => Supply(job.st) + CurrentTx.Value <= bound(job.i + 1)
        /\ pc = "return" => job.i = Len(job.blk.Body)

NoGrowth(b) ==
    Supply(b.Header.StateRoot) <= Supply(Parent(b).Header.StateRoot) + Inflow(b.Body)

SupplyInv == StillHere /\ LoopSupply /\ \A b \in offered : NoGrowth(b)
=============================================================================
