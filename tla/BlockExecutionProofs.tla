------------------------ MODULE BlockExecutionProofs ------------------------
(***************************************************************************)
(* Proofs about what executing a block does to the money of the shard: an  *)
(* execution reaches the result of its transactions and preserves the      *)
(* supply, unless accounts are moved in the middle; and when they are only *)
(* moved to this shard it may lose money but never makes any.              *)
(***************************************************************************)
EXTENDS BlockExecution, BlockOriginProofs, SumProofs

-----------------------------------------------------------------------------
(* The supply of a trie. *)

Fetched(st) == [a \in Accounts |-> Get(st, a, 0, Init_Balance).Balance]
Virtuals(st) == DOMAIN st \ Accounts
Sent(st) == [v \in Virtuals(st) |-> st[v].Balance]

\* The supply is a sum over the accounts and one over the virtual accounts.
LEMMA SupplyIs ==
    ASSUME NEW st
    PROVE  Supply(st) = SumFunctionOnSet(Fetched(st), Accounts)
                          + SumFunctionOnSet(Sent(st), Virtuals(st))
<1>1. [a \in Accounts |-> FetchAccounts(st, Accounts)[a].Balance] = Fetched(st)
  BY DEF FetchAccounts, Fetched
<1>2. DOMAIN Fetched(st) = Accounts /\ DOMAIN Sent(st) = Virtuals(st)
  BY DEF Fetched, Sent
<1>3. Supply(st) = SumFunction(Fetched(st)) + SumFunction(Sent(st))
  BY <1>1 DEF Supply, Sent, Virtuals
<1> QED BY <1>2, <1>3 DEF SumFunction

\* Both are sums of finitely many numbers.
LEMMA SupplyType ==
    ASSUME NEW st, IsTrie(st)
    PROVE  /\ \A a \in Accounts : Fetched(st)[a] \in Int
           /\ \A v \in Virtuals(st) : Sent(st)[v] \in Int
           /\ IsFiniteSet(Virtuals(st))
           /\ SumFunctionOnSet(Fetched(st), Accounts) \in Int
           /\ SumFunctionOnSet(Sent(st), Virtuals(st)) \in Int
           /\ Supply(st) \in Int
<1>1. ASSUME NEW a \in Accounts PROVE Fetched(st)[a] \in Int
  <2>1. Get(st, a, 0, Init_Balance) \in AccountState
    BY GetType, BalanceAssumption
  <2> QED BY <2>1 DEF Fetched, AccountState
<1>2. \A v \in Virtuals(st) : Sent(st)[v] \in Int
  BY DEF Sent, Virtuals, IsTrie, AccountState
<1>3. IsFiniteSet(Virtuals(st))
  BY FS_Difference DEF Virtuals, IsTrie
<1>4. SumFunctionOnSet(Fetched(st), Accounts) \in Int
  BY <1>1, SumType, AccountsAssumption
<1>5. SumFunctionOnSet(Sent(st), Virtuals(st)) \in Int
  BY <1>2, <1>3, SumType
<1> QED BY <1>1, <1>2, <1>3, <1>4, <1>5, SupplyIs

\* Writing an account changes the supply by the change of its balance.
LEMMA AccountSupply ==
    ASSUME NEW st, IsTrie(st), NEW a \in Accounts, NEW acc \in AccountState
    PROVE  Supply(Update(st, a, acc))
             = Supply(st) + (acc.Balance - Get(st, a, 0, Init_Balance).Balance)
<1> PICK new : new = Update(st, a, acc)
  OBVIOUS
<1>1. IsTrie(new)
  BY UpdateType DEF Keys
<1>2. /\ DOMAIN new = DOMAIN st \cup {a} /\ new[a] = acc
      /\ \A k \in DOMAIN st : k # a => new[k] = st[k]
  BY DEF Update
<1>3. Virtuals(new) = Virtuals(st)
  BY <1>2 DEF Virtuals
<1>4. SumFunctionOnSet(Sent(new), Virtuals(new)) = SumFunctionOnSet(Sent(st), Virtuals(st))
  <2>1. \A v \in Virtuals(st) : Sent(new)[v] = Sent(st)[v]
    BY <1>2, <1>3 DEF Sent, Virtuals
  <2> QED BY <1>3, <2>1, SumAgree, SupplyType
<1>5. /\ Fetched(new)[a] = acc.Balance
      /\ Fetched(st)[a] = Get(st, a, 0, Init_Balance).Balance
  BY <1>2 DEF Fetched, Get
<1>6. \A b \in Accounts : b # a => Fetched(new)[b] = Fetched(st)[b]
  BY <1>2 DEF Fetched, Get
<1>7. SumFunctionOnSet(Fetched(new), Accounts)
        = SumFunctionOnSet(Fetched(st), Accounts) + (Fetched(new)[a] - Fetched(st)[a])
  <2>1. \A b \in Accounts : Fetched(st)[b] \in Int /\ Fetched(new)[b] \in Int
    BY <1>1, SupplyType
  <2> QED BY <1>6, <2>1, SumReplace, AccountsAssumption
<1>8. /\ Fetched(new)[a] \in Int /\ Fetched(st)[a] \in Int
      /\ SumFunctionOnSet(Fetched(st), Accounts) \in Int
      /\ SumFunctionOnSet(Sent(st), Virtuals(st)) \in Int
  BY <1>1, SupplyType
<1>9. Supply(new) = Supply(st) + (Fetched(new)[a] - Fetched(st)[a])
  BY <1>4, <1>7, <1>8, SupplyIs
<1> QED BY <1>5, <1>9

\* And so does writing a virtual account, a new one having held nothing.
LEMMA VirtualSupply ==
    ASSUME NEW st, IsTrie(st), NEW v \in Accounts \X Nat, NEW acc \in AccountState
    PROVE  Supply(Update(st, v, acc))
             = Supply(st) + (acc.Balance - Get(st, v, 0, VirtualInit_Balance).Balance)
<1> PICK new : new = Update(st, v, acc)
  OBVIOUS
<1>0. v \notin Accounts /\ v \in Keys
  BY VirtualAssumption DEF Keys
<1>1. IsTrie(new)
  BY <1>0, UpdateType
<1>2. /\ DOMAIN new = DOMAIN st \cup {v} /\ new[v] = acc
      /\ \A k \in DOMAIN st : k # v => new[k] = st[k]
  BY DEF Update
<1>3. Virtuals(new) = Virtuals(st) \cup {v}
  BY <1>0, <1>2 DEF Virtuals
<1>4. SumFunctionOnSet(Fetched(new), Accounts) = SumFunctionOnSet(Fetched(st), Accounts)
  <2>1. \A b \in Accounts : Fetched(new)[b] = Fetched(st)[b]
    BY <1>0, <1>2 DEF Fetched, Get
  <2> QED BY <2>1, SumAgree, SupplyType, AccountsAssumption
<1>5. Sent(new)[v] = acc.Balance /\ acc.Balance \in Int
  BY <1>2, <1>3 DEF Sent, AccountState
<1>6. \A w \in Virtuals(st) : w # v => Sent(new)[w] = Sent(st)[w]
  BY <1>2, <1>3 DEF Sent, Virtuals
<1>7. /\ SumFunctionOnSet(Fetched(st), Accounts) \in Int
      /\ SumFunctionOnSet(Sent(st), Virtuals(st)) \in Int
      /\ IsFiniteSet(Virtuals(st))
      /\ \A w \in Virtuals(st) : Sent(st)[w] \in Int /\ Sent(new)[w] \in Int
  BY <1>1, <1>3, SupplyType
<1>8. CASE v \in DOMAIN st
  <2>1. v \in Virtuals(st) /\ Virtuals(new) = Virtuals(st)
        /\ Sent(st)[v] = Get(st, v, 0, VirtualInit_Balance).Balance
    BY <1>0, <1>3, <1>8 DEF Virtuals, Sent, Get
  <2>2. SumFunctionOnSet(Sent(new), Virtuals(st))
          = SumFunctionOnSet(Sent(st), Virtuals(st)) + (Sent(new)[v] - Sent(st)[v])
    <3> DEFINE f == Sent(st)
               h == Sent(new)
               S == Virtuals(st)
    <3>1. /\ IsFiniteSet(S) /\ v \in S
          /\ \A w \in S : f[w] \in Int /\ h[w] \in Int
          /\ \A w \in S : w # v => h[w] = f[w]
      BY <1>6, <1>7, <2>1
    <3> HIDE DEF f, h, S
    <3>2. SumFunctionOnSet(h, S) = SumFunctionOnSet(f, S) + (h[v] - f[v])
      BY <3>1, SumReplace
    <3> QED BY <3>2 DEF f, h, S
  <2>3. Supply(new) = Supply(st) + (Sent(new)[v] - Sent(st)[v])
    BY <1>4, <1>5, <1>7, <2>1, <2>2, SupplyIs
  <2> QED BY <1>5, <2>1, <2>3
<1>9. CASE v \notin DOMAIN st
  <2>1. v \notin Virtuals(st) /\ Get(st, v, 0, VirtualInit_Balance).Balance = 0
    BY <1>9, VirtualInitAssumption DEF Virtuals, Get
  <2>2. SumFunctionOnSet(Sent(new), Virtuals(st) \cup {v})
          = SumFunctionOnSet(Sent(st), Virtuals(st)) + Sent(new)[v]
    <3> DEFINE f == Sent(st)
               h == Sent(new)
               S == Virtuals(st)
    <3>1. /\ IsFiniteSet(S) /\ v \notin S /\ h[v] \in Int
          /\ \A w \in S : f[w] \in Int /\ h[w] = f[w]
      BY <1>5, <1>6, <1>7, <2>1
    <3> HIDE DEF f, h, S
    <3>2. SumFunctionOnSet(h, S \cup {v}) = SumFunctionOnSet(f, S) + h[v]
      BY <3>1, SumAdd
    <3> QED BY <3>2 DEF f, h, S
  <2>3. Supply(new) = Supply(st) + Sent(new)[v]
    <3>1. Supply(new) = SumFunctionOnSet(Fetched(st), Accounts)
                          + (SumFunctionOnSet(Sent(st), Virtuals(st)) + Sent(new)[v])
      BY <1>3, <1>4, <2>2, SupplyIs
    <3> QED BY <1>5, <1>7, <3>1, SupplyIs
  <2>4. Supply(st) \in Int
    BY SupplyType
  <2> QED BY <1>5, <2>1, <2>3, <2>4
<1> QED BY <1>8, <1>9

-----------------------------------------------------------------------------
(* The money that one transaction moves. *)

IsTx(tx) ==
    /\ tx.Sender \in Accounts /\ tx.Recipient \in Accounts /\ tx.Value \in Nat
    /\ tx.Relayed \in BOOLEAN /\ tx.HasBroker \in BOOLEAN

\* A debit takes the value, unless it is refused; a credit, to whichever of the two
\* accounts, gives it.
LEMMA WriteSupply ==
    ASSUME NEW st, IsTrie(st), NEW i \in Nat, NEW tx, IsTx(tx)
    PROVE  /\ SenderState(st, i, tx).Balance >= tx.Value
                => Supply(DebitSender(st, i, tx)) = Supply(st) - tx.Value
           /\ Supply(CreditRecipient(st, i, tx)) = Supply(st) + tx.Value
           /\ Supply(CreditVirtual(st, i, tx)) = Supply(st) + tx.Value
           /\ Supply(st) \in Int
<1> USE DEF IsTx
<1>0. Supply(st) \in Int
  BY SupplyType
<1>1. ASSUME NEW acc \in AccountState
      PROVE  /\ acc.Balance \in Nat
             /\ Deposit(acc, tx.Value) \in AccountState
             /\ Deposit(acc, tx.Value).Balance = acc.Balance + tx.Value
             /\ Deduct(acc, tx.Value) \in AccountState
             /\ acc.Balance >= tx.Value
                  => Deduct(acc, tx.Value).Balance = acc.Balance - tx.Value
  BY DepositType, DeductType DEF AccountState, Deposit, Deduct
<1>2. ASSUME NEW key, NEW balance \in Nat
      PROVE  /\ Get(st, key, i, balance) \in AccountState
             /\ Get(st, key, 0, balance).Balance = Get(st, key, i, balance).Balance
  BY GetType DEF Get
<1>3. ASSUME SenderState(st, i, tx).Balance >= tx.Value
      PROVE  Supply(DebitSender(st, i, tx)) = Supply(st) - tx.Value
  <2> DEFINE acc == Get(st, tx.Sender, i, Init_Balance)
  <2>1. acc \in AccountState /\ Get(st, tx.Sender, 0, Init_Balance).Balance = acc.Balance
    BY <1>2, BalanceAssumption
  <2>2. Supply(DebitSender(st, i, tx))
          = Supply(st) + (Deduct(acc, tx.Value).Balance
                            - Get(st, tx.Sender, 0, Init_Balance).Balance)
    BY <1>1, <2>1, AccountSupply DEF DebitSender, SenderState
  <2>3. acc.Balance >= tx.Value
    BY <1>3 DEF SenderState
  <2> HIDE DEF acc
  <2> QED BY <1>0, <1>1, <2>1, <2>2, <2>3
<1>4. Supply(CreditRecipient(st, i, tx)) = Supply(st) + tx.Value
  <2> DEFINE acc == Get(st, tx.Recipient, i, Init_Balance)
  <2>1. acc \in AccountState /\ Get(st, tx.Recipient, 0, Init_Balance).Balance = acc.Balance
    BY <1>2, BalanceAssumption
  <2>2. Supply(CreditRecipient(st, i, tx))
          = Supply(st) + (Deposit(acc, tx.Value).Balance
                            - Get(st, tx.Recipient, 0, Init_Balance).Balance)
    BY <1>1, <2>1, AccountSupply DEF CreditRecipient
  <2> HIDE DEF acc
  <2> QED BY <1>0, <1>1, <2>1, <2>2
<1>5. Supply(CreditVirtual(st, i, tx)) = Supply(st) + tx.Value
  <2> DEFINE v == VirtualRecipient(tx)
             acc == Get(st, v, i, VirtualInit_Balance)
  <2>1. v \in Accounts \X Nat
    BY Addr2ShardType DEF VirtualRecipient, AddrVirtualAccount
  <2>2. acc \in AccountState /\ Get(st, v, 0, VirtualInit_Balance).Balance = acc.Balance
    BY <1>2, BalanceAssumption
  <2>3. Supply(CreditVirtual(st, i, tx))
          = Supply(st) + (Deposit(acc, tx.Value).Balance
                            - Get(st, v, 0, VirtualInit_Balance).Balance)
    BY <1>1, <2>1, <2>2, VirtualSupply DEF CreditVirtual
  <2> HIDE DEF acc, v
  <2> QED BY <1>0, <1>1, <2>2, <2>3
<1> QED BY <1>0, <1>3, <1>4, <1>5

\* A transaction that is executed adds what flows in with it, and no more.
LEMMA ExecutedSupply ==
    ASSUME NEW st, IsTrie(st), NEW i \in Nat, NEW tx, IsTx(tx)
    PROVE  /\ IsTrie(Executed(st, i, tx))
           /\ Supply(Executed(st, i, tx)) = Supply(st) + InflowOf(tx)
           /\ InflowOf(tx) \in Nat
<1>1. InflowOf(tx) \in Nat /\ Supply(st) \in Int
  BY SupplyType DEF InflowOf, IsTx
<1>2. CASE Refused(st, i, tx)
  BY <1>1, <1>2 DEF Executed, Refused, InflowOf
<1>3. CASE ~Refused(st, i, tx)
  <2> PICK mid : mid = AfterSender(st, i, tx)
    OBVIOUS
  <2>1. IsTrie(mid)
    BY ExecutionType DEF AfterSender, IsTx
  <2>2. Supply(mid) = Supply(st) + InflowOf(tx) - tx.Value
    <3>1. CASE Debited(tx)
      <4>1. SenderState(st, i, tx) \in AccountState
        BY GetType, BalanceAssumption DEF SenderState
      <4>2. SenderState(st, i, tx).Balance >= tx.Value
        BY <1>3, <3>1, <4>1 DEF Refused, AccountState, IsTx
      <4>3. Supply(mid) = Supply(st) - tx.Value
        BY <3>1, <4>2, WriteSupply DEF AfterSender
      <4> QED BY <1>1, <3>1, <4>3 DEF InflowOf, IsTx
    <3>2. CASE ~Debited(tx)
      BY <1>1, <3>2 DEF AfterSender, InflowOf, IsTx
    <3> QED BY <3>1, <3>2
  <2>3. /\ IsTrie(AfterRecipient(mid, i, tx))
        /\ Supply(AfterRecipient(mid, i, tx)) = Supply(mid) + tx.Value
    BY <2>1, WriteSupply, ExecutionType DEF AfterRecipient, IsTx
  <2>4. Executed(st, i, tx) = AfterRecipient(mid, i, tx)
    BY <1>3 DEF Executed
  <2>5. tx.Value \in Nat
    BY DEF IsTx
  <2> QED BY <1>1, <2>2, <2>3, <2>4, <2>5
<1> QED BY <1>2, <1>3

-----------------------------------------------------------------------------
(* The states of a block. *)

\* What States asks of its function, up to the m-th transaction.
StatesDef(root, txs, m, g) ==
    g = [n \in 0 .. m |-> IF n = 0 THEN root ELSE Executed(g[n - 1], n - 1, txs[n])]

LEMMA StatesExist ==
    ASSUME NEW root, NEW txs
    PROVE  \A m \in Nat : \E g : StatesDef(root, txs, m, g)
<1> DEFINE C == {m \in Nat : \E g : StatesDef(root, txs, m, g)}
<1>1. 0 \in C
  <2>1. StatesDef(root, txs, 0, [n \in 0 .. 0 |-> root])
    BY DEF StatesDef
  <2> QED BY <2>1
<1>2. ASSUME NEW m \in Nat, m \in C PROVE m + 1 \in C
  <2>1. PICK g : StatesDef(root, txs, m, g)
    BY <1>2
  <2>2. \A n \in 0 .. m : g[n] = IF n = 0 THEN root ELSE Executed(g[n - 1], n - 1, txs[n])
    BY <2>1 DEF StatesDef
  <2> DEFINE h == [n \in 0 .. (m + 1) |-> IF n = m + 1 THEN Executed(g[m], m, txs[m + 1])
                                                      ELSE g[n]]
  <2>3. ASSUME NEW n \in 0 .. (m + 1)
        PROVE  h[n] = IF n = 0 THEN root ELSE Executed(h[n - 1], n - 1, txs[n])
    <3>1. CASE n = m + 1
      <4>1. h[n - 1] = g[m] /\ n - 1 = m /\ n # 0
        BY <3>1
      <4> QED BY <3>1, <4>1
    <3>2. CASE n # m + 1
      <4>1. n \in 0 .. m /\ (n # 0 => n - 1 \in 0 .. (m + 1) /\ n - 1 # m + 1)
        BY <3>2
      <4>2. h[n] = g[n] /\ (n # 0 => h[n - 1] = g[n - 1])
        BY <3>2, <4>1
      <4> QED BY <2>2, <4>1, <4>2
    <3> QED BY <3>1, <3>2
  <2>4. h = [n \in 0 .. (m + 1) |-> h[n]]
    OBVIOUS
  <2> HIDE DEF h
  <2>5. StatesDef(root, txs, m + 1, h)
    BY <2>3, <2>4 DEF StatesDef
  <2> QED BY <2>5
<1> HIDE DEF C
<1>3. \A m \in Nat : m \in C
  BY <1>1, <1>2, NatSetInduction
<1> QED BY <1>3 DEF C

\* The first of the states is the one given, each other one the result of a
\* transaction on the one before.
LEMMA StatesAre ==
    ASSUME NEW root, NEW txs \in Seq(Txs)
    PROVE  /\ States(root, txs)[0] = root
           /\ \A n \in 0 .. (Len(txs) - 1) :
                 States(root, txs)[n + 1] = Executed(States(root, txs)[n], n, txs[n + 1])
<1>1. Len(txs) \in Nat
  OBVIOUS
<1>2. States(root, txs) = CHOOSE g : StatesDef(root, txs, Len(txs), g)
  BY DEF States, StatesDef
<1>3. StatesDef(root, txs, Len(txs), States(root, txs))
  BY <1>1, <1>2, StatesExist
<1> PICK g : g = States(root, txs)
  OBVIOUS
<1>4. \A n \in 0 .. Len(txs) : g[n] = IF n = 0 THEN root ELSE Executed(g[n - 1], n - 1, txs[n])
  BY <1>3 DEF StatesDef
<1>5. ASSUME NEW n \in 0 .. (Len(txs) - 1)
      PROVE  g[n + 1] = Executed(g[n], n, txs[n + 1])
  <2>1. n + 1 \in 0 .. Len(txs) /\ n + 1 # 0 /\ (n + 1) - 1 = n
    BY <1>1
  <2> QED BY <1>4, <2>1
<1> QED BY <1>1, <1>4, <1>5

\* The transactions that a node executes are of the kind that clients send.
LEMMA TxsType ==
    ASSUME NEW txs \in Seq(Txs)
    PROVE  /\ Len(txs) \in Nat /\ DOMAIN txs = 1 .. Len(txs)
           /\ \A n \in 0 .. (Len(txs) - 1) : n + 1 \in DOMAIN txs /\ IsTx(txs[n + 1])
<1>1. Len(txs) \in Nat /\ DOMAIN txs = 1 .. Len(txs)
  OBVIOUS
<1>2. \A tx \in Txs : IsTx(tx)
  BY TxsAssumption DEF IsTx
<1>3. \A n \in 0 .. (Len(txs) - 1) : n + 1 \in DOMAIN txs
  BY <1>1
<1>4. \A k \in DOMAIN txs : txs[k] \in Txs
  OBVIOUS
<1> QED BY <1>1, <1>2, <1>3, <1>4

\* What flows in with one more transaction.
LEMMA InflowStep ==
    ASSUME NEW txs \in Seq(Txs)
    PROVE  /\ InflowTo(txs, 0) = 0
           /\ \A n \in 0 .. Len(txs) : InflowTo(txs, n) \in Int
           /\ \A n \in 0 .. (Len(txs) - 1) :
                 /\ InflowOf(txs[n + 1]) \in Nat
                 /\ InflowTo(txs, n + 1) = InflowTo(txs, n) + InflowOf(txs[n + 1])
           /\ Inflow(txs) = InflowTo(txs, Len(txs))
<1> DEFINE f == [i \in DOMAIN txs |-> InflowOf(txs[i])]
<1>1. Len(txs) \in Nat /\ DOMAIN txs = 1 .. Len(txs)
  OBVIOUS
<1>2. \A i \in DOMAIN txs : f[i] \in Nat /\ f[i] = InflowOf(txs[i])
  <2>1. \A tx \in Txs : InflowOf(tx) \in Nat
    BY TxsAssumption DEF InflowOf
  <2> QED BY <2>1
<1>3. \A n : InflowTo(txs, n) = SumFunctionOnSet(f, 1 .. n)
  BY DEF InflowTo
<1>4. Inflow(txs) = SumFunctionOnSet(f, 1 .. Len(txs))
  <2>1. \A i \in DOMAIN txs : txs[i].Relayed \in BOOLEAN
    BY TxsAssumption
  <2>2. \A i \in DOMAIN txs :
            InflowOf(txs[i]) = IF \/ txs[i].Relayed
                                  \/ Get_PartitionMap(MapInfo, txs[i].Sender) # ShardID
                               THEN txs[i].Value ELSE 0
    BY <2>1 DEF InflowOf, Debited, PlacedHere
  <2>3. f = [i \in DOMAIN txs |->
                IF txs[i].Relayed \/ Get_PartitionMap(MapInfo, txs[i].Sender) # ShardID
                THEN txs[i].Value ELSE 0]
    BY <2>2
  <2>4. Inflow(txs) = SumFunction(f)
    BY <2>3 DEF Inflow
  <2>5. DOMAIN f = 1 .. Len(txs)
    BY <1>1
  <2> HIDE DEF f
  <2> QED BY <2>4, <2>5 DEF SumFunction
<1> HIDE DEF f
<1>5. \A n \in 0 .. Len(txs) : IsFiniteSet(1 .. n) /\ 1 .. n \subseteq DOMAIN txs
  BY <1>1, FS_Interval
<1>6. \A n \in 0 .. Len(txs) : SumFunctionOnSet(f, 1 .. n) \in Int
  BY <1>2, <1>5, SumType
<1>7. ASSUME NEW n \in 0 .. (Len(txs) - 1)
      PROVE  SumFunctionOnSet(f, 1 .. (n + 1)) = SumFunctionOnSet(f, 1 .. n) + f[n + 1]
  <2>1. /\ n + 1 \notin 1 .. n /\ 1 .. (n + 1) = (1 .. n) \cup {n + 1}
        /\ n \in 0 .. Len(txs) /\ n + 1 \in DOMAIN txs
    BY <1>1
  <2>2. SumFunctionOnSet(f, (1 .. n) \cup {n + 1}) = SumFunctionOnSet(f, 1 .. n) + f[n + 1]
    <3> DEFINE S == 1 .. n
               k == n + 1
    <3>1. IsFiniteSet(S) /\ k \notin S /\ f[k] \in Int /\ \A x \in S : f[x] \in Int
      BY <1>2, <1>5, <2>1
    <3> HIDE DEF S, k
    <3>2. SumFunctionOnSet(f, S \cup {k}) = SumFunctionOnSet(f, S) + f[k]
      BY <3>1, SumAdd
    <3> QED BY <3>2 DEF S, k
  <2> QED BY <2>1, <2>2
<1>8. SumFunctionOnSet(f, 1 .. 0) = 0
  BY SumEmpty
<1>9. \A n \in 0 .. (Len(txs) - 1) : n + 1 \in DOMAIN txs
  BY <1>1
<1> QED BY <1>2, <1>3, <1>4, <1>6, <1>7, <1>8, <1>9

\* The states are tries, and their supply grows by the inflow.
LEMMA StatesSupply ==
    ASSUME NEW root, IsTrie(root), NEW txs \in Seq(Txs)
    PROVE  \A n \in 0 .. Len(txs) :
              /\ IsTrie(States(root, txs)[n])
              /\ Supply(States(root, txs)[n]) = Supply(root) + InflowTo(txs, n)
<1> DEFINE g == States(root, txs)
           Good(n) == IsTrie(g[n]) /\ Supply(g[n]) = Supply(root) + InflowTo(txs, n)
           C == {n \in Nat : n \in 0 .. Len(txs) => Good(n)}
<1>0. Len(txs) \in Nat /\ Supply(root) \in Int
  BY SupplyType
<1>1. 0 \in C
  BY <1>0, StatesAre, InflowStep
<1>2. ASSUME NEW n \in Nat, n \in C PROVE n + 1 \in C
  <2> SUFFICES ASSUME n + 1 \in 0 .. Len(txs) PROVE Good(n + 1)
    OBVIOUS
  <2>1. n \in 0 .. (Len(txs) - 1) /\ n \in 0 .. Len(txs)
    BY <1>0
  <2>2. IsTrie(g[n]) /\ Supply(g[n]) = Supply(root) + InflowTo(txs, n)
    BY <1>2, <2>1
  <2>3. g[n + 1] = Executed(g[n], n, txs[n + 1]) /\ IsTx(txs[n + 1])
    BY <2>1, StatesAre, TxsType
  <2>4. /\ InflowTo(txs, n) \in Int /\ InflowOf(txs[n + 1]) \in Nat
        /\ InflowTo(txs, n + 1) = InflowTo(txs, n) + InflowOf(txs[n + 1])
    BY <2>1, InflowStep
  <2> HIDE DEF g
  <2>5. /\ IsTrie(g[n + 1])
        /\ Supply(g[n + 1]) = Supply(g[n]) + InflowOf(txs[n + 1])
    BY <2>2, <2>3, ExecutedSupply
  <2> QED BY <1>0, <2>2, <2>4, <2>5
<1> HIDE DEF C
<1>3. \A n \in Nat : n \in C
  BY <1>1, <1>2, NatSetInduction
<1> QED BY <1>0, <1>3 DEF C

\* So a block adds to the supply what flows in with its transactions.
LEMMA ResultSupply ==
    ASSUME NEW root, IsTrie(root), NEW txs \in Seq(Txs)
    PROVE  Supply(Result(root, txs)) = Supply(root) + Inflow(txs)
<1>1. Len(txs) \in 0 .. Len(txs)
  OBVIOUS
<1> QED BY <1>1, StatesSupply, InflowStep DEF Result

-----------------------------------------------------------------------------
(* The loop and the states of its block. *)

\* An announced result stays one: the parent of the block stays.
LEMMA ResultsFrame ==
    ASSUME IInv, OriginInv, [Next]_vars, ResultsOK, offered' = offered
    PROVE  ResultsOK'
<1> SUFFICES ASSUME NEW b \in offered
             PROVE  b.Header.StateRoot = Result(Parent(b)'.Header.StateRoot, b.Body)
  BY DEF ResultsOK
<1>1. Parent(b)' = Parent(b)
  BY ParentStored, BucketKept DEF Parent
<1> QED BY <1>1 DEF ResultsOK

\* A step of the loop that is in front of a transaction.
LEMMA LoopStates ==
    ASSUME IInv, pc \in {"debit", "credit", "recheck"}
    PROVE  /\ IsJob(job) /\ job.i \in 0 .. (Len(job.blk.Body) - 1)
           /\ job = [call |-> job.call, blk |-> job.blk, i |-> job.i,
                     st |-> job.st, cnt |-> job.cnt]
           /\ States(StateRoot, job.blk.Body)[job.i + 1]
                = Executed(States(StateRoot, job.blk.Body)[job.i], job.i, CurrentTx)
           /\ IsTx(CurrentTx) /\ Len(job.blk.Body) \in Nat
<1>1. IsJob(job) /\ job.i < Len(job.blk.Body)
  BY CurrentTxType
<1>2. /\ job.blk.Body \in Seq(Txs) /\ job.i \in 0 .. (Len(job.blk.Body) - 1)
      /\ Len(job.blk.Body) \in Nat
  BY <1>1 DEF IsJob
<1>3. IsTx(CurrentTx)
  BY <1>2, TxsType DEF CurrentTx
<1>4. States(StateRoot, job.blk.Body)[job.i + 1]
        = Executed(States(StateRoot, job.blk.Body)[job.i], job.i, CurrentTx)
  BY <1>2, StatesAre DEF CurrentTx
<1>5. job = [call |-> job.call, blk |-> job.blk, i |-> job.i, st |-> job.st, cnt |-> job.cnt]
  BY <1>1 DEF IsJob
<1> QED BY <1>1, <1>2, <1>3, <1>4, <1>5

\* The locals after the loop has gone on from j, and after a write.
LEMMA AdvanceIs ==
    ASSUME NEW j, Advance(j),
           j = [call |-> j.call, blk |-> j.blk, i |-> j.i, st |-> j.st, cnt |-> j.cnt]
    PROVE  /\ job'.blk = j.blk /\ job'.i = j.i + 1 /\ job'.st = j.st
           /\ pc' = (IF j.i + 1 = Len(j.blk.Body) THEN "return" ELSE "debit")
BY DEF Advance

LEMMA WroteIs ==
    ASSUME NEW st
    PROVE  LET w == Wrote(st)
           IN  /\ w = [call |-> w.call, blk |-> w.blk, i |-> w.i, st |-> w.st, cnt |-> w.cnt]
               /\ w.blk = job.blk /\ w.i = job.i /\ w.st = st
BY DEF Wrote

\* With the built-in table, the conditions of the loop are those of the states.
LEMMA TableConditions ==
    ASSUME PartitionMap = MapInfo, NEW tx, IsTx(tx)
    PROVE  /\ (~tx.Relayed /\ AtShard(tx.Sender)) <=> Debited(tx)
           /\ (AtShard(tx.Recipient) \/ tx.HasBroker) <=> CreditedHere(tx)
BY DEF AtShard, PlacedHere, Debited, CreditedHere

\* Debit follows the states of the block.
LEMMA DebitStates ==
    ASSUME IInv, LoopOK, Debit
    PROVE  LoopOK'
<1> DEFINE i == job.i
           S == States(StateRoot, job.blk.Body)
           tx == CurrentTx
<1>1. /\ pc = "debit" /\ Looping /\ PartitionMap = MapInfo /\ job.st = S[i]
      /\ PartitionMap' = PartitionMap /\ StateRoot' = StateRoot
  BY DEF Debit, LoopOK, Looping, memory, StateRoot
<1>2. /\ job.i \in 0 .. (Len(job.blk.Body) - 1) /\ IsTx(tx) /\ IsJob(job)
      /\ job = [call |-> job.call, blk |-> job.blk, i |-> job.i, st |-> job.st, cnt |-> job.cnt]
      /\ S[i + 1] = Executed(S[i], i, tx)
  BY <1>1, LoopStates
<1>3. SenderState(job.st, i, tx).Balance \in Nat /\ tx.Value \in Nat
  <2>1. SenderState(job.st, i, tx) \in AccountState
    BY <1>2, GetType, BalanceAssumption DEF SenderState, IsJob
  <2> QED BY <1>2, <2>1 DEF AccountState, IsTx
<1>4. (~tx.Relayed /\ AtShard(tx.Sender)) <=> Debited(tx)
  BY <1>1, <1>2, TableConditions
<1>5. Enough(tx) <=> ~(SenderState(S[i], i, tx).Balance < tx.Value)
  BY <1>1, <1>3 DEF Enough
<1>6. CASE job' = Wrote(DebitSender(job.st, i, tx)) /\ pc' = "credit" /\ Debited(tx) /\ Enough(tx)
  <2>1. job'.blk = job.blk /\ job'.i = i /\ job'.st = DebitSender(job.st, i, tx)
    BY <1>6, WroteIs
  <2>2. CurrentTx' = tx
    BY <2>1 DEF CurrentTx
  <2>3. ~Refused(S[i], i, tx) /\ job'.st = AfterSender(S[i], i, tx)
    BY <1>1, <1>5, <1>6, <2>1 DEF Refused, AfterSender
  <2> HIDE DEF tx
  <2> QED BY <1>1, <1>6, <2>1, <2>2, <2>3 DEF LoopOK
<1>7. CASE Advance(job) /\ Debited(tx) /\ ~Enough(tx)
  <2>1. S[i + 1] = S[i]
    BY <1>2, <1>5, <1>7 DEF Executed, Refused
  <2>2. /\ job'.blk = job.blk /\ job'.i = i + 1 /\ job'.st = S[i + 1]
        /\ pc' = (IF i + 1 = Len(job.blk.Body) THEN "return" ELSE "debit")
    BY <1>1, <1>2, <1>7, <2>1, AdvanceIs
  <2> QED BY <1>1, <2>2 DEF LoopOK
<1>8. CASE ~Debited(tx) /\ pc' = "credit" /\ UNCHANGED job
  <2>1. ~Refused(S[i], i, tx) /\ job'.st = AfterSender(S[i], i, tx)
    BY <1>1, <1>8 DEF Refused, AfterSender
  <2>2. CurrentTx' = tx
    BY <1>8 DEF CurrentTx
  <2> HIDE DEF tx
  <2> QED BY <1>1, <1>8, <2>1, <2>2 DEF LoopOK
<1> QED BY <1>4, <1>6, <1>7, <1>8 DEF Debit

\* So do the two ways of the credit, when the table was not changed between them.
LEMMA CreditStates ==
    ASSUME IInv, LoopOK, Credit \/ CreditElsewhere
    PROVE  LoopOK'
<1> DEFINE i == job.i
           S == States(StateRoot, job.blk.Body)
           tx == CurrentTx
<1>1. /\ pc \in {"credit", "recheck"} /\ Looping /\ PartitionMap = MapInfo
      /\ ~Refused(S[i], i, tx) /\ job.st = AfterSender(S[i], i, tx)
      /\ pc = "recheck" => ~CreditedHere(tx)
      /\ PartitionMap' = PartitionMap /\ StateRoot' = StateRoot
  BY DEF Credit, CreditElsewhere, LoopOK, Looping, memory, StateRoot
<1>2. /\ job.i \in 0 .. (Len(job.blk.Body) - 1) /\ IsTx(tx)
      /\ S[i + 1] = AfterRecipient(job.st, i, tx)
  BY <1>1, LoopStates DEF Executed
<1>3. (AtShard(tx.Recipient) \/ tx.HasBroker) <=> CreditedHere(tx)
  BY <1>1, <1>2, TableConditions
<1>4. ASSUME NEW st, st = S[i + 1], Advance(Wrote(st))
      PROVE  LoopOK'
  <2>1. /\ job'.blk = job.blk /\ job'.i = i + 1 /\ job'.st = S[i + 1]
        /\ pc' = (IF i + 1 = Len(job.blk.Body) THEN "return" ELSE "debit")
    <3> DEFINE w == Wrote(st)
    <3>1. /\ w = [call |-> w.call, blk |-> w.blk, i |-> w.i, st |-> w.st, cnt |-> w.cnt]
          /\ w.blk = job.blk /\ w.i = job.i /\ w.st = st
      BY WroteIs
    <3>2. Advance(w)
      BY <1>4
    <3> HIDE DEF w
    <3>3. /\ job'.blk = w.blk /\ job'.i = w.i + 1 /\ job'.st = w.st
          /\ pc' = (IF w.i + 1 = Len(w.blk.Body) THEN "return" ELSE "debit")
      BY <3>1, <3>2, AdvanceIs
    <3> QED BY <1>4, <3>1, <3>3
  <2> QED BY <1>1, <2>1 DEF LoopOK
<1>5. CASE Advance(Wrote(CreditRecipient(job.st, i, tx))) /\ CreditedHere(tx)
  <2>1. CreditRecipient(job.st, i, tx) = S[i + 1]
    BY <1>2, <1>5 DEF AfterRecipient
  <2> QED BY <1>4, <1>5, <2>1
<1>6. CASE pc' = "recheck" /\ UNCHANGED job /\ ~CreditedHere(tx)
  <2>1. CurrentTx' = tx
    BY <1>6 DEF CurrentTx
  <2> HIDE DEF tx
  <2> QED BY <1>1, <1>6, <2>1 DEF LoopOK
<1>7. CASE Advance(Wrote(CreditVirtual(job.st, i, tx))) /\ ~CreditedHere(tx)
  <2>1. CreditVirtual(job.st, i, tx) = S[i + 1]
    BY <1>2, <1>7 DEF AfterRecipient
  <2> QED BY <1>4, <1>7, <2>1
<1>8. CASE Credit
  BY <1>3, <1>5, <1>6, <1>8 DEF Credit
<1>9. CASE CreditElsewhere
  <2>1. ~CreditedHere(tx)
    BY <1>1, <1>9 DEF CreditElsewhere
  <2> QED BY <1>3, <1>7, <1>9, <2>1 DEF CreditElsewhere
<1> QED BY <1>8, <1>9

\* An execution starts from the state of the current block, with the built-in table.
LEMMA StartStates ==
    ASSUME IInv, CountOK, GetUpdateStatusTrie, ~Dies("panic")
    PROVE  /\ LoopOK' /\ PartitionMap' = MapInfo
           /\ UNCHANGED <<blockBucket, newestBlockHash, CurrentBlock, offered>>
           /\ job'.i = 0 /\ job'.st = StateRoot /\ job'.blk = job.blk
           /\ pc' = (IF job.blk.Body = << >> THEN "return" ELSE "debit")
<1>1. /\ pc = "execute" /\ pc \in Executing /\ IsJob(job) /\ job.i = 0
      /\ job' = [job EXCEPT !.st = StateRoot] /\ StateRoot' = StateRoot
      /\ PartitionMap' = MapInfo
      /\ pc' = (IF job.blk.Body = << >> THEN "return" ELSE "debit")
  BY DEF GetUpdateStatusTrie, Executing, IInv, ExecutingOK, StateRoot
<1>2. job'.i = 0 /\ job'.st = StateRoot /\ job'.blk = job.blk /\ job.blk.Body \in Seq(Txs)
  BY <1>1 DEF IsJob
<1>3. States(StateRoot, job.blk.Body)[0] = StateRoot
  BY <1>2, StatesAre
<1>4. LoopOK'
  BY <1>1, <1>2, <1>3 DEF LoopOK
<1> QED BY <1>1, <1>2, <1>4 DEF GetUpdateStatusTrie, disk, world

\* The block that GenerateBlock returns announces the trie that it has reached, and
\* the state of its parent is the one it started from.
LEMMA GeneratedRoot ==
    ASSUME IInv, OriginInv, CountOK, [Next]_vars, ReturnGenerate
    PROVE  \E b : /\ offered' = offered \cup {b}
                  /\ b.Header.StateRoot = job.st /\ b.Body = job.blk.Body
                  /\ Parent(b)'.Header.StateRoot = StateRoot
<1>1. PICK b : /\ offered' = offered \cup {b}
               /\ b.Header.ParentBlockHash = Newest
               /\ CurrentBlock = Tip
               /\ b.Header.StateRoot = ReturnedRoot
               /\ b.Body = job.blk.Body
  BY GeneratedBlock
<1>2. ReturnedRoot = job.st
  BY DEF ReturnGenerate, CountOK, Executing, ReturnedRoot
<1>3. Parent(b)' = Tip
  BY <1>1 DEF ReturnGenerate, Parent, Tip
<1> QED BY <1>1, <1>2, <1>3 DEF StateRoot

\* Where a step leaves the loop: it is not in it, it did not move in it, or it made
\* one of its steps.
LEMMA LoopSteps ==
    ASSUME [Next]_vars
    PROVE  \/ pc' \notin {"debit", "credit", "recheck", "return"}
           \/ UNCHANGED <<pc, job, CurrentBlock>>
           \/ GetUpdateStatusTrie /\ ~Dies("panic")
           \/ Debit \/ Credit \/ CreditElsewhere
BY DEF Next, NewBlockChain, OpenFresh, OpenExisting, CloseBlockChain, Crash, Dies,
   SendTx2Pool, Update_PartitionMap, GenerateBlock, AddBlock, Accept, AddAccounts, AddAccount,
   Execution, ReturnGenerate, ReturnAdd, Storing, PutBlock, PutHeader, PutNewest,
   GetUpdateStatusTrie, disk, memory, world, vars

\* Unless the map is changed in the middle of it, an execution follows the states.
LEMMA NextStates ==
    ASSUME IInv, OriginInv, CountOK, LoopOK, ResultsOK, [Next]_vars,
           Looping => PartitionMap' = PartitionMap
    PROVE  LoopOK' /\ ResultsOK'
<1>1. LoopOK'
  <2>1. CASE pc' \notin {"debit", "credit", "recheck", "return"}
    BY <2>1 DEF LoopOK, Looping
  <2>2. CASE UNCHANGED <<pc, job, CurrentBlock>>
    <3>1. CurrentTx' = CurrentTx /\ StateRoot' = StateRoot /\ Looping' = Looping
      BY <2>2 DEF CurrentTx, StateRoot, Looping
    <3> QED BY <2>2, <3>1 DEF LoopOK
  <2>3. CASE GetUpdateStatusTrie /\ ~Dies("panic")
    BY <2>3, StartStates
  <2>4. CASE Debit
    BY <2>4, DebitStates
  <2>5. CASE Credit \/ CreditElsewhere
    BY <2>5, CreditStates
  <2> QED BY <2>1, <2>2, <2>3, <2>4, <2>5, LoopSteps
<1>2. ResultsOK'
  <2>1. CASE offered' = offered
    BY <2>1, ResultsFrame
  <2>2. CASE ReturnGenerate
    <3>1. PICK b : /\ offered' = offered \cup {b}
                   /\ b.Header.StateRoot = job.st /\ b.Body = job.blk.Body
                   /\ Parent(b)'.Header.StateRoot = StateRoot
      BY <2>2, GeneratedRoot
    <3>2. job.st = Result(StateRoot, job.blk.Body)
      BY <2>2 DEF ReturnGenerate, LoopOK, Result
    <3>3. ASSUME NEW c \in offered
          PROVE  c.Header.StateRoot = Result(Parent(c)'.Header.StateRoot, c.Body)
      <4>1. Parent(c)' = Parent(c)
        BY ParentStored, BucketKept DEF Parent
      <4> QED BY <4>1 DEF ResultsOK
    <3>4. b.Header.StateRoot = Result(Parent(b)'.Header.StateRoot, b.Body)
      BY <3>1, <3>2
    <3> QED BY <3>1, <3>3, <3>4 DEF ResultsOK
  <2> QED BY <2>1, <2>2, BlocksKept
<1> QED BY <1>1, <1>2

\* The history variable watches and changes nothing.
LEMMA MovedIsSpec == MovedSpec => Spec
<1>1. MovedInit => Init
  BY DEF MovedInit
<1>2. [MovedNext]_<<vars, moved>> => [Next]_vars
  BY DEF MovedNext
<1> QED BY <1>1, <1>2, PTL DEF MovedSpec, Spec

\* ExecutionInv is an invariant of the specification with the history variable.
THEOREM Executions == MovedSpec => []ExecutionInv
<1>1. MovedInit => ExecutionInv
  BY DEF MovedInit, Init, ExecutionInv, LoopOK, ResultsOK, Looping
<1>2. IInv /\ OriginInv /\ DurableInv /\ ExecutionInv /\ [MovedNext]_<<vars, moved>>
        => ExecutionInv'
  <2> SUFFICES ASSUME IInv, OriginInv, DurableInv, ExecutionInv,
                      [MovedNext]_<<vars, moved>>, ~moved'
               PROVE  LoopOK' /\ ResultsOK'
    BY DEF ExecutionInv
  <2>1. [Next]_vars /\ ~moved /\ (Looping => PartitionMap' = PartitionMap)
    <3>1. CASE MovedNext
      BY <3>1 DEF MovedNext
    <3>2. CASE UNCHANGED <<vars, moved>>
      BY <3>2 DEF vars, memory
    <3> QED BY <3>1, <3>2
  <2> QED BY <2>1, NextStates DEF ExecutionInv, DurableInv
<1> QED BY <1>1, <1>2, MovedIsSpec, Invariance, Origins, Durables, PTL DEF MovedSpec

\* Unless accounts are moved in the middle of an execution, a stored block neither
\* makes nor loses money.
THEOREM SupplyPreservedUnlessMoved == MovedSpec => []SupplyPreservedBetween
<1>1. IInv /\ OriginInv /\ ExecutionInv => SupplyPreservedBetween
  <2> SUFFICES ASSUME IInv, OriginInv, ~moved, ResultsOK,
                      NEW h \in DOMAIN blockBucket, blockBucket[h].Body # << >>
               PROVE  Supply(blockBucket[h].Header.StateRoot)
                        = Supply(Parent(blockBucket[h]).Header.StateRoot)
                            + Inflow(blockBucket[h].Body)
    BY DEF ExecutionInv, SupplyPreservedBetween, SupplyPreserved
  <2> PICK b : b = blockBucket[h]
    OBVIOUS
  <2>1. b \in offered
    BY DEF OriginInv, AuthoredOK, Authored
  <2>2. b.Header.StateRoot = Result(Parent(b).Header.StateRoot, b.Body)
    BY <2>1 DEF ResultsOK
  <2>3. IsTrie(Parent(b).Header.StateRoot) /\ b.Body \in Seq(Txs)
    BY <2>1, ParentStored DEF IInv, BucketsOK, StoredOK, OfferedOK, GoodBlock, HasRoot,
                              IsBlock, Parent
  <2>4. Supply(b.Header.StateRoot) = Supply(Parent(b).Header.StateRoot) + Inflow(b.Body)
    BY <2>2, <2>3, ResultSupply
  <2> QED BY <2>4
<1> QED BY <1>1, MovedIsSpec, Executions, Invariance, Origins, PTL

\* And a node that executes the block of another reaches the state it announces.
THEOREM ReplayAgreesUnlessMoved == MovedSpec => []ReplayAgreesBetween
<1>1. IInv /\ OriginInv /\ DurableInv /\ ExecutionInv => ReplayAgreesBetween
  <2> SUFFICES ASSUME IInv, OriginInv, DurableInv, ~moved, LoopOK, ResultsOK,
                      pc = "return", job.call = "add", job.blk.Body # << >>
               PROVE  ReturnedRoot = job.blk.Header.StateRoot
    BY DEF ExecutionInv, ReplayAgreesBetween, ReplayAgrees
  <2>1. job.blk \in offered
    BY DEF OriginInv, AuthoredOK, Authored, Executing
  <2>2. CurrentBlock = Tip /\ HasNewest /\ Storable(job.blk)
    BY DEF IInv, CurrentOK, ExecutingOK, Executing
  <2>3. Parent(job.blk) = CurrentBlock
    BY <2>2, ParentStored
  <2>4. job.blk.Header.StateRoot = Result(StateRoot, job.blk.Body)
    BY <2>1, <2>3 DEF ResultsOK, StateRoot
  <2>5. job.st = Result(StateRoot, job.blk.Body)
    BY DEF LoopOK, Result
  <2>6. ReturnedRoot = job.st
    BY DEF DurableInv, CountOK, Executing, ReturnedRoot
  <2> QED BY <2>4, <2>5, <2>6
<1> QED BY <1>1, MovedIsSpec, Executions, Invariance, Origins, Durables, PTL

-----------------------------------------------------------------------------
(* Accounts that are moved to this shard in the middle of an execution.    *)

\* What a step does to the map while a block is executed.
LEMMA MapSteps ==
    ASSUME [Next]_vars, Looping, Looping'
    PROVE  \/ PartitionMap' = PartitionMap
           \/ \E u \in Updates : Update_PartitionMap(u[1], u[2])
BY DEF Looping, Next, NewBlockChain, OpenFresh, OpenExisting, CloseBlockChain, Crash, Dies,
   SendTx2Pool, GenerateBlock, AddBlock, Accept, AddAccounts, AddAccount, Inject,
   Execution, ReturnGenerate, ReturnAdd, Storing, PutBlock, PutHeader, PutNewest,
   GetUpdateStatusTrie, Debit, Credit, CreditElsewhere, disk, memory, world, vars

\* No account leaves this shard.
LEMMA NextStillHere ==
    ASSUME MovesHere, IInv, CountOK, StillHere, [Next]_vars
    PROVE  StillHere'
<1> SUFFICES ASSUME Looping', NEW a \in Accounts, PlacedHere(a)
             PROVE  Get_PartitionMap(PartitionMap', a) = ShardID
  BY DEF StillHere, AtShard
<1>1. CASE Looping
  <2>1. Get_PartitionMap(PartitionMap, a) = ShardID
    BY <1>1 DEF StillHere, AtShard
  <2>2. CASE PartitionMap' = PartitionMap
    BY <2>1, <2>2
  <2>3. ASSUME NEW u \in Updates, Update_PartitionMap(u[1], u[2])
        PROVE  Get_PartitionMap(PartitionMap', a) = ShardID
    <3>1. /\ DOMAIN PartitionMap' = DOMAIN PartitionMap \cup {u[1]}
          /\ PartitionMap'[u[1]] = ShardID
          /\ \A k \in DOMAIN PartitionMap : k # u[1] => PartitionMap'[k] = PartitionMap[k]
      BY <2>3 DEF Update_PartitionMap, MovesHere
    <3> QED BY <2>1, <3>1 DEF Get_PartitionMap
  <2> QED BY <1>1, <2>2, <2>3, MapSteps
<1>2. CASE ~Looping
  <2>1. GetUpdateStatusTrie /\ ~Dies("panic")
    BY <1>2, LoopSteps DEF Looping, Debit, Credit, CreditElsewhere
  <2>2. PartitionMap' = MapInfo
    BY <2>1, StartStates
  <2> QED BY <2>2 DEF PlacedHere
<1> QED BY <1>1, <1>2

\* What the invariant says in front of a transaction, in numbers.
LEMMA LoopNumbers ==
    ASSUME IInv, pc \in {"debit", "credit", "recheck"}
    PROVE  LET txs == job.blk.Body
           IN  /\ Supply(StateRoot) \in Int /\ Supply(job.st) \in Int
               /\ InflowTo(txs, job.i) \in Int
               /\ InflowTo(txs, job.i + 1) = InflowTo(txs, job.i) + InflowOf(CurrentTx)
               /\ InflowOf(CurrentTx) \in Nat /\ CurrentTx.Value \in Nat
               /\ IsTrie(StateRoot) /\ IsTrie(job.st) /\ job.i \in Nat
<1> DEFINE txs == job.blk.Body
<1>1. /\ IsJob(job) /\ job.i \in 0 .. (Len(txs) - 1) /\ IsTx(CurrentTx) /\ Len(txs) \in Nat
  BY LoopStates
<1>2. IsTrie(StateRoot)
  BY DEF IInv, CurrentOK, Executing, BucketsOK, StoredOK, GoodBlock, HasRoot, StateRoot, Tip
<1>3. IsTrie(job.st) /\ txs \in Seq(Txs) /\ job.i \in Nat
  BY <1>1 DEF IsJob
<1>4. /\ InflowTo(txs, job.i) \in Int
      /\ InflowTo(txs, job.i + 1) = InflowTo(txs, job.i) + InflowOf(CurrentTx)
      /\ InflowOf(CurrentTx) \in Nat
  <2>1. job.i \in 0 .. Len(txs)
    BY <1>1
  <2> QED BY <1>1, <1>3, <2>1, InflowStep DEF CurrentTx
<1>5. CurrentTx.Value \in Nat
  BY <1>1 DEF IsTx
<1>6. Supply(StateRoot) \in Int /\ Supply(job.st) \in Int
  BY <1>2, <1>3, SupplyType
<1> QED BY <1>2, <1>3, <1>4, <1>5, <1>6

\* The loop goes on, having made no money with the transaction.
LEMMA AdvanceSupply ==
    ASSUME IInv, pc \in {"debit", "credit", "recheck"}, NEW j, Advance(j),
           j = [call |-> j.call, blk |-> j.blk, i |-> j.i, st |-> j.st, cnt |-> j.cnt],
           j.blk = job.blk, j.i = job.i, StateRoot' = StateRoot,
           Supply(j.st) <= Supply(StateRoot) + InflowTo(job.blk.Body, job.i + 1)
    PROVE  LoopSupply'
<1>1. /\ job'.blk = job.blk /\ job'.i = job.i + 1 /\ job'.st = j.st
      /\ pc' = (IF job.i + 1 = Len(job.blk.Body) THEN "return" ELSE "debit")
  BY AdvanceIs
<1> QED BY <1>1 DEF LoopSupply

\* The debit: what it takes may be credited, and a transaction that is not debited
\* flows in, because its sender is not one that was here when the block began.
LEMMA DebitSupply ==
    ASSUME IInv, StillHere, LoopSupply, Debit
    PROVE  LoopSupply'
<1> DEFINE tx == CurrentTx
           in(n) == InflowTo(job.blk.Body, n)
<1>1. pc = "debit" /\ StateRoot' = StateRoot
  BY DEF Debit, memory, StateRoot
<1>2. /\ Supply(StateRoot) \in Int /\ Supply(job.st) \in Int /\ in(job.i) \in Int
      /\ in(job.i + 1) = in(job.i) + InflowOf(tx)
      /\ InflowOf(tx) \in Nat /\ tx.Value \in Nat /\ IsTrie(job.st) /\ job.i \in Nat
  BY <1>1, LoopNumbers
<1>3. Supply(job.st) <= Supply(StateRoot) + in(job.i)
  BY <1>1 DEF LoopSupply
<1>4. IsTx(tx) /\ IsJob(job)
      /\ job = [call |-> job.call, blk |-> job.blk, i |-> job.i, st |-> job.st, cnt |-> job.cnt]
  BY <1>1, LoopStates
<1>5. CASE job' = Wrote(DebitSender(job.st, job.i, tx)) /\ pc' = "credit" /\ Enough(tx)
  <2>1. /\ job'.blk = job.blk /\ job'.i = job.i
        /\ job'.st = DebitSender(job.st, job.i, tx)
    BY <1>5, WroteIs
  <2>2. CurrentTx' = tx
    BY <2>1 DEF CurrentTx
  <2>3. Supply(job'.st) = Supply(job.st) - tx.Value
    BY <1>2, <1>4, <1>5, <2>1, WriteSupply DEF Enough
  <2> HIDE DEF tx, in
  <2>4. Supply(job'.st) + tx.Value <= Supply(StateRoot) + in(job.i + 1)
    BY <1>2, <1>3, <2>3
  <2> QED BY <1>1, <1>5, <2>1, <2>2, <2>4 DEF LoopSupply, in
<1>6. CASE Advance(job)
  <2> HIDE DEF tx
  <2>1. Supply(job.st) <= Supply(StateRoot) + in(job.i + 1)
    <3> HIDE DEF in
    <3> QED BY <1>2, <1>3
  <2> QED BY <1>1, <1>4, <1>6, <2>1, AdvanceSupply
<1>7. CASE ~(~tx.Relayed /\ AtShard(tx.Sender)) /\ pc' = "credit" /\ UNCHANGED job
  <2>1. ~Debited(tx)
    BY <1>1, <1>4, <1>7 DEF StillHere, Looping, Debited, IsTx
  <2>2. InflowOf(tx) = tx.Value
    BY <2>1 DEF InflowOf
  <2>3. CurrentTx' = tx
    BY <1>7 DEF CurrentTx
  <2> HIDE DEF tx, in
  <2>4. Supply(job.st) + tx.Value <= Supply(StateRoot) + in(job.i + 1)
    BY <1>2, <1>3, <2>2
  <2> QED BY <1>1, <1>7, <2>3, <2>4 DEF LoopSupply, in
<1> QED BY <1>5, <1>6, <1>7 DEF Debit

\* The credit, in either place, or in none when the recipient was moved in between.
LEMMA CreditSupply ==
    ASSUME IInv, LoopSupply, Credit \/ CreditElsewhere
    PROVE  LoopSupply'
<1> DEFINE tx == CurrentTx
           bound == Supply(StateRoot) + InflowTo(job.blk.Body, job.i + 1)
<1>1. pc \in {"credit", "recheck"} /\ StateRoot' = StateRoot
  BY DEF Credit, CreditElsewhere, memory, StateRoot
<1>2. /\ Supply(StateRoot) \in Int /\ Supply(job.st) \in Int
      /\ InflowTo(job.blk.Body, job.i) \in Int
      /\ InflowTo(job.blk.Body, job.i + 1) = InflowTo(job.blk.Body, job.i) + InflowOf(tx)
      /\ InflowOf(tx) \in Nat /\ tx.Value \in Nat /\ IsTrie(job.st) /\ job.i \in Nat
  BY <1>1, LoopNumbers
<1>3. Supply(job.st) + tx.Value <= bound
  BY <1>1 DEF LoopSupply
<1>4. IsTx(tx) /\ IsJob(job)
      /\ job = [call |-> job.call, blk |-> job.blk, i |-> job.i, st |-> job.st, cnt |-> job.cnt]
  BY <1>1, LoopStates
<1>5. /\ Supply(CreditRecipient(job.st, job.i, tx)) = Supply(job.st) + tx.Value
      /\ Supply(CreditVirtual(job.st, job.i, tx)) = Supply(job.st) + tx.Value
  BY <1>2, <1>4, WriteSupply
<1>6. ASSUME NEW st, Supply(st) = Supply(job.st) + tx.Value, Advance(Wrote(st))
      PROVE  LoopSupply'
  <2> DEFINE w == Wrote(st)
  <2>1. /\ w = [call |-> w.call, blk |-> w.blk, i |-> w.i, st |-> w.st, cnt |-> w.cnt]
        /\ w.blk = job.blk /\ w.i = job.i /\ w.st = st
    BY WroteIs
  <2>2. Advance(w)
    BY <1>6
  <2> HIDE DEF w
  <2>3. Supply(w.st) <= bound
    BY <1>3, <1>6, <2>1
  <2> QED BY <1>1, <2>1, <2>2, <2>3, AdvanceSupply
<1>7. CASE Advance(job)
  <2>1. bound \in Int
    BY <1>2
  <2> HIDE DEF tx, bound
  <2>2. Supply(job.st) <= bound
    BY <1>2, <1>3, <2>1
  <2> QED BY <1>1, <1>4, <1>7, <2>2, AdvanceSupply DEF bound
<1>8. CASE pc' = "recheck" /\ UNCHANGED job
  <2>1. CurrentTx' = tx
    BY <1>8 DEF CurrentTx
  <2> HIDE DEF tx
  <2> QED BY <1>1, <1>3, <1>8, <2>1 DEF LoopSupply
<1> QED BY <1>5, <1>6, <1>7, <1>8 DEF Credit, CreditElsewhere

\* The loop begins with the supply that it is measured against.
LEMMA StartSupply ==
    ASSUME IInv, CountOK, GetUpdateStatusTrie, ~Dies("panic")
    PROVE  LoopSupply'
<1>1. /\ UNCHANGED CurrentBlock /\ StateRoot' = StateRoot
      /\ job'.i = 0 /\ job'.st = StateRoot /\ job'.blk = job.blk
      /\ pc' = (IF job.blk.Body = << >> THEN "return" ELSE "debit")
  BY StartStates DEF StateRoot
<1>2. pc \in Executing /\ job.blk.Body \in Seq(Txs)
  BY DEF GetUpdateStatusTrie, Executing, IInv, ExecutingOK, IsJob
<1>3. IsTrie(StateRoot)
  BY <1>2 DEF IInv, CurrentOK, BucketsOK, StoredOK, GoodBlock, HasRoot, StateRoot, Tip
<1>4. Supply(StateRoot) \in Int /\ InflowTo(job.blk.Body, 0) = 0
  BY <1>2, <1>3, SupplyType, InflowStep
<1>5. Supply(StateRoot) <= Supply(StateRoot) + InflowTo(job.blk.Body, 0)
  BY <1>4
<1> QED BY <1>1, <1>2, <1>5 DEF LoopSupply

\* Every step keeps SupplyInv when accounts are only moved to this shard.
LEMMA NextSupply ==
    ASSUME MovesHere, IInv, OriginInv, CountOK, SupplyInv, [Next]_vars
    PROVE  SupplyInv'
<1>1. StillHere'
  BY NextStillHere DEF SupplyInv
<1>2. LoopSupply'
  <2>1. CASE pc' \notin {"debit", "credit", "recheck", "return"}
    BY <2>1 DEF LoopSupply
  <2>2. CASE UNCHANGED <<pc, job, CurrentBlock>>
    <3>1. CurrentTx' = CurrentTx /\ StateRoot' = StateRoot
      BY <2>2 DEF CurrentTx, StateRoot
    <3> QED BY <2>2, <3>1 DEF LoopSupply, SupplyInv
  <2>3. CASE GetUpdateStatusTrie /\ ~Dies("panic")
    BY <2>3, StartSupply
  <2>4. CASE Debit
    BY <2>4, DebitSupply DEF SupplyInv
  <2>5. CASE Credit \/ CreditElsewhere
    BY <2>5, CreditSupply DEF SupplyInv
  <2> QED BY <2>1, <2>2, <2>3, <2>4, <2>5, LoopSteps
<1>3. ASSUME NEW b \in offered'
      PROVE  Supply(b.Header.StateRoot) <= Supply(Parent(b)'.Header.StateRoot) + Inflow(b.Body)
  <2>1. CASE b \in offered
    <3>1. Parent(b)' = Parent(b)
      BY <2>1, ParentStored, BucketKept DEF Parent
    <3> QED BY <2>1, <3>1 DEF SupplyInv, NoGrowth
  <2>2. CASE b \notin offered
    <3>1. ReturnGenerate
      BY <2>2, BlocksKept
    <3>2. /\ b.Header.StateRoot = job.st /\ b.Body = job.blk.Body
          /\ Parent(b)'.Header.StateRoot = StateRoot
      BY <2>2, <3>1, GeneratedRoot
    <3>3. /\ Supply(job.st) <= Supply(StateRoot) + InflowTo(job.blk.Body, job.i)
          /\ job.i = Len(job.blk.Body)
      BY <3>1 DEF ReturnGenerate, SupplyInv, LoopSupply
    <3>4. job.blk.Body \in Seq(Txs)
      BY <3>1 DEF ReturnGenerate, IInv, ExecutingOK, Executing, IsJob
    <3>5. Inflow(job.blk.Body) = InflowTo(job.blk.Body, Len(job.blk.Body))
      BY <3>4, InflowStep
    <3> QED BY <3>2, <3>3, <3>5
  <2> QED BY <2>1, <2>2
<1>4. \A b \in offered' : NoGrowth(b)'
  BY <1>3 DEF NoGrowth
<1> QED BY <1>1, <1>2, <1>4 DEF SupplyInv

\* SupplyInv is an invariant of the specification when accounts are only moved here.
THEOREM Supplies ==
    ASSUME MovesHere
    PROVE  Spec => []SupplyInv
<1>1. Init => SupplyInv
  BY DEF Init, SupplyInv, StillHere, LoopSupply, Looping
<1>2. IInv /\ OriginInv /\ DurableInv /\ SupplyInv /\ [Next]_vars => SupplyInv'
  BY NextSupply DEF DurableInv
<1> QED BY <1>1, <1>2, Invariance, Origins, Durables, PTL DEF Spec

\* Moving accounts to this shard at any moment may lose money and makes none: no
\* stored block leaves more than its parent and what flowed in.
THEOREM MovesHereMakeNoMoney ==
    ASSUME MovesHere
    PROVE  Spec => []SupplyNeverGrows
<1>1. OriginInv /\ SupplyInv => SupplyNeverGrows
  BY DEF OriginInv, AuthoredOK, Authored, SupplyInv, NoGrowth, SupplyNeverGrows
<1> QED BY <1>1, Supplies, Origins, PTL
=============================================================================
